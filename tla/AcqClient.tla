----------------------------- MODULE AcqClient -----------------------------
(***************************************************************************)
(* Clients of libacqclient that share an acquisition SMIO.                 *)
(*                                                                         *)
(* acq_full requests an acquisition (and does not look at the answer),     *)
(* asks until it is told that the acquisition is complete, and then reads  *)
(* the curve block by block.  The SMIO serves one request at a time;       *)
(* nothing keeps the requests of one client together.                      *)
(***************************************************************************)
EXTENDS Acq

CONSTANTS
    Clients,
    Requests,   \* the acquisitions each client asks for: records [chan, pre, post, shots]
    TrigTypes,  \* the trigger types each client configures
    MaxOps      \* bound on the library calls of each client

ASSUME ClientAssumption ==
    /\ TrigTypes \in [Clients -> SUBSET Triggers] /\ MaxOps \in [Clients -> Nat]
    /\ \A c \in Clients : \A r \in Requests[c] : {r.pre, r.post, r.shots} \subseteq Nat

VARIABLES
    cl,      \* each client: its call in progress and what it got
    hist     \* what became of the last acquisition each client started (history)

clVars == <<cl, hist>>
allVars == <<acqVars, clVars>>

NoReq == [chan |-> "none", pre |-> 0, post |-> 0, shots |-> 1]

\* pc: "idle", "poll" (func_polling), "curve" (about to ask for block blk) or
\* "wait" (for that block).  room is what is left of the caller's buffer.
NewClient == [pc |-> "idle", req |-> NoReq, blk |-> 0, curve |-> <<>>, room |-> 0,
              result |-> "none", ops |-> 0]

NoHist == [id |-> 0, known |-> FALSE, ready |-> FALSE, disturbed |-> FALSE,
           failed |-> FALSE, units |-> 0]

Total(r) == (r.pre + r.post) * r.shots
PerBlock(r) == BlockSize \div SampleSize[r.chan]

-----------------------------------------------------------------------------
(* History: which acquisitions were disturbed by others, and of which the *)
(* trigger address is known.                                              *)

\* Channels may be given the same memory (__acq_buf, from ddr3_map.h: "shares the same
\* memory space as").
SharesMemory(c, d) == StartAddr[c] < EndAddr[d] /\ StartAddr[d] < EndAddr[c]

\* A later acquisition disturbs one whose trigger address is not known yet, and
\* one whose memory it writes: one of the same channel, or of one that shares memory
\* with it.
Started(c, r) ==
    hist' = [d \in Clients |->
        IF d = c THEN [NoHist EXCEPT !.id = nacq + 1,
                          !.units = (AlignedPre(r) + AlignedPost(r)) * r.shots * SampleSize[r.chan]]
        ELSE [hist[d] EXCEPT !.disturbed =
                 @ \/ (hist[d].id # 0 /\ (~hist[d].known \/ SharesMemory(cl[d].req.chan, r.chan)))]]

\* The trigger address was read; c begins to read its curve.
Learnt(c) ==
    LET known(d) == hist[d].known \/ (hist[d].id # 0 /\ hist[d].id = fpga.id) IN
    hist' = [d \in Clients |->
        [hist[d] EXCEPT !.known = known(d), !.ready = IF d = c THEN known(c) ELSE @]]

-----------------------------------------------------------------------------
CanCall(c) == cl[c].pc = "idle" /\ cl[c].ops < MaxOps[c]

\* _acq_start of _acq_full: the answer is dropped.
AcqFull(c, r) ==
    /\ CanCall(c) /\ DataAcquire(r)
    /\ cl' = [cl EXCEPT ![c] = [NewClient EXCEPT !.pc = "poll", !.req = r,
                                                 !.ops = cl[c].ops + 1]]
    /\ IF DataAcquireCode(r) = ACQ_OK THEN Started(c, r)
       ELSE hist' = [hist EXCEPT ![c] = NoHist]

\* _acq_get_curve, at its beginning: the caller's buffer has room for the request.
OpenCurve(c) == [cl[c] EXCEPT !.pc = "curve", !.blk = 0, !.curve = <<>>,
                              !.room = Total(cl[c].req) * SampleSize[cl[c].req.chan]]

\* func_polling: one call of acq_check_data_acquire.
Poll(c) ==
    /\ cl[c].pc = "poll" /\ CheckDataAcquire
    /\ IF CompleteStatus # ACQ_OK THEN UNCHANGED <<cl, hist>>
       ELSE /\ Learnt(c)
            /\ cl' = [cl EXCEPT ![c] = IF cl[c].req.chan \in Chans THEN OpenCurve(c)
                         ELSE [cl[c] EXCEPT !.pc = "idle", !.result = "error"]]

PollTimeout(c) ==
    /\ cl[c].pc = "poll"
    /\ cl' = [cl EXCEPT ![c].pc = "idle", ![c].result = "timeout"]
    /\ UNCHANGED <<acqVars, hist>>

\* acq_full_compat without a new acquisition: the curve of the last request again.
AcqGetCurve(c) ==
    /\ CanCall(c) /\ cl[c].req.chan \in Chans
    /\ cl' = [cl EXCEPT ![c] = [OpenCurve(c) EXCEPT !.ops = @ + 1, !.result = "none"]]
    /\ hist' = [hist EXCEPT ![c].failed = FALSE, ![c].ready = hist[c].known]
    /\ UNCHANGED acqVars

\* Mutant: the whole block is copied, whatever room there is for it.
BlockReplyWhole(c, code, data) ==
    LET r == cl[c].req
        last == cl[c].blk = Total(r) \div PerBlock(r)
    IN  IF code # ACQ_OK THEN [cl[c] EXCEPT !.pc = "idle", !.result = "error"]
        ELSE [cl[c] EXCEPT !.curve = @ \o data, !.room = @ - Len(data), !.blk = @ + 1,
                           !.pc = IF last THEN "idle" ELSE "curve",
                           !.result = IF last THEN "success" ELSE @]

\* _acq_get_data_block copies what there is room for, and _acq_get_curve goes on.
\* The last block is Total \div PerBlock, even when there is nothing left in it.
BlockReply(c, code, data) ==
    LET r == cl[c].req
        n == IF Len(data) > cl[c].room THEN cl[c].room ELSE Len(data)
        last == cl[c].blk = Total(r) \div PerBlock(r)
    IN  IF code # ACQ_OK THEN [cl[c] EXCEPT !.pc = "idle", !.result = "error"]
        ELSE [cl[c] EXCEPT !.curve = @ \o SubSeq(data, 1, n), !.room = @ - n, !.blk = @ + 1,
                           !.pc = IF last THEN "idle" ELSE "curve",
                           !.result = IF last THEN "success" ELSE @]

AskBlock(c) ==
    LET r == cl[c].req IN
    /\ cl[c].pc = "curve" /\ GetDataBlock(r.chan, cl[c].blk)
    /\ cl' = [cl EXCEPT ![c] = IF BlockCode(r.chan, cl[c].blk) # ACQ_OK
                               THEN BlockReply(c, ACQ_OOR, <<>>)
                               ELSE [cl[c] EXCEPT !.pc = "wait"]]
    /\ UNCHANGED hist

\* The SMIO goes on with the block, and replies when it is through.
ServeBlock(c) ==
    /\ cl[c].pc = "wait"
    /\ \E at \in Ways :
         /\ ReadChunk(at)
         /\ cl' = IF BlockDone(at)
                  THEN [cl EXCEPT ![c] = BlockReply(c, ACQ_OK, BlockData(at))] ELSE cl
    /\ UNCHANGED hist

ServeBlockFails(c) ==
    /\ cl[c].pc = "wait" /\ ReadFails
    /\ cl' = [cl EXCEPT ![c] = BlockReply(c, ACQ_COULD_NOT_READ, <<>>)]
    /\ hist' = [hist EXCEPT ![c].failed = TRUE]

\* acq_set_trig, acq_set_sw_trig and acq_set_fsm_stop.
Control(c) ==
    /\ CanCall(c)
    /\ TrigTypes[c] # {}
    /\ (\E t \in TrigTypes[c] : CfgTrigger(t)) \/ SwTrig \/ FsmStop
    /\ cl' = [cl EXCEPT ![c].ops = @ + 1]
    /\ UNCHANGED hist

Fpga == (FpgaComplete \/ FpgaFull) /\ UNCHANGED clVars

ClientInit == /\ AcqInit
              /\ cl = [c \in Clients |-> NewClient]
              /\ hist = [c \in Clients |-> NoHist]

Steps(c) == Poll(c) \/ PollTimeout(c) \/ AskBlock(c) \/ ServeBlock(c)
            \/ ServeBlockFails(c)

ClientNext ==
    \/ \E c \in Clients : \/ \E r \in Requests[c] : AcqFull(c, r)
                          \/ AcqGetCurve(c) \/ Control(c) \/ Steps(c)
    \/ Fpga

\* Time passes for a polling client, and client and SMIO run on; nothing makes a
\* trigger come, a client call the library, or a read fail.
ClientSpec ==
    /\ ClientInit /\ [][ClientNext]_allVars
    /\ \A c \in Clients : WF_allVars(PollTimeout(c) \/ AskBlock(c) \/ ServeBlock(c))

-----------------------------------------------------------------------------
(* Properties. *)

\* The state of the SMIO, the core and the clients keeps its type.
AcqTypeOK ==
    /\ params \in [Chans -> [pre : Nat, post : Nat, preAligned : Nat, postAligned : Nat,
                             shots : Nat \ {0}, trig : Nat]]
    /\ curr \in Chans
    /\ block.pc \in {"idle", "read", "dead"}
    /\ fpga.state \in {"idle", "acquiring"} /\ fpga.trigger \in Triggers \cup {"none"}
    /\ fpga.id <= nacq /\ nacq \in 0..MaxAcq
    /\ \A c \in Clients :
         /\ cl[c].pc \in {"idle", "poll", "curve", "wait"} /\ cl[c].room >= 0
         /\ cl[c].result \in {"none", "success", "error", "timeout"}
         /\ cl[c].pc = "wait" => block.pc # "idle"

\* The client's acquisition was known to be complete when it began to read the curve,
\* and no later one has overwritten it or taken its place.
Undisturbed(c) == hist[c].id # 0 /\ hist[c].ready /\ ~hist[c].disturbed

\* Requests whose aligned samples fit the ring, with a number of shots the register
\* can hold, and shots that blocks do not cut in two.
Sound(c) ==
    LET r == cl[c].req IN
    /\ hist[c].units <= Ring(r.chan)
    /\ r.shots < ShotsMod
    /\ \/ r.shots = 1
       \/ Total(r) <= PerBlock(r)
       \/ PerBlock(r) % (r.pre + r.post) = 0

\* The units of memory the client asked for, in order.
Expected(c) ==
    LET r == cl[c].req
        s == SampleSize[r.chan]
        shot == (r.pre + r.post) * s
        aligned == hist[c].units \div r.shots
        pad == AlignValue(r.pre, Alignment(r.chan)) - r.pre
        \* without pre-trigger samples one payload of them is acquired
        pre == IF r.pre = 0 THEN Payload ELSE pad * s
    IN  [k \in 1..(Total(r) * s) |->
            <<hist[c].id, ((k - 1) \div shot) * aligned + pre + ((k - 1) % shot)>>]

\* A curve that was read successfully consists of the samples asked for: those of
\* the client's own acquisition, without the padding, in order, across the end of
\* the ring and across PCIe pages; other clients may start acquisitions of other
\* channels, change triggers and be refused meanwhile.
CurveIsOwn ==
    \A c \in Clients :
        cl[c].result = "success" /\ Undisturbed(c) /\ Sound(c) => cl[c].curve = Expected(c)

\* Unless a read fails, the blocks the client asks for are those the SMIO has, but
\* for the block after a full last one.
CurveFailsOnlyWhenFull ==
    \A c \in Clients :
        /\ cl[c].result = "error" /\ Undisturbed(c) /\ Sound(c) /\ ~hist[c].failed
        => Total(cl[c].req) % PerBlock(cl[c].req) = 0

\* An acquisition runs with the trigger it was prepared for: one without a trigger
\* waits for no samples after it, one with a trigger does.
TriggerMatches ==
    fpga.state = "acquiring" => (fpga.trigger \in {"none", "skip"} <=> fpga.post = 0)

\* Every call ends: the loop over the ring reads on, whatever was acquired, unless
\* the daemon died.
CallsReturn ==
    \A c \in Clients : cl[c].pc # "idle" ~> (cl[c].pc = "idle" \/ block.pc = "dead")

\* acq_client_core.h of acq_get_curve: "Returns HALCS_CLIENT_SUCCESS if the block was
\* read": the curve of a completed acquisition can be read.
CompletedCurveIsRead ==
    \A c \in Clients : cl[c].result = "error" => hist[c].failed \/ ~Undisturbed(c)
=============================================================================
