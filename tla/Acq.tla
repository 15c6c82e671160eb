-------------------------------- MODULE Acq --------------------------------
(***************************************************************************)
(* The acquisition SMIO and the FPGA core it drives.                       *)
(*                                                                         *)
(* The core stores samples of one channel at a time in that channel's part *)
(* of the SDRAM, used as a ring, until pre-trigger and post-trigger        *)
(* samples are there.  The SMIO starts an acquisition, tells whether it is *)
(* complete (and only then learns where the trigger was), and reads the    *)
(* samples back in blocks, cutting out what was acquired beyond the        *)
(* request because the core stores whole payloads only.                    *)
(*                                                                         *)
(* Addresses and sizes are in units of memory (bytes in the code).  A unit *)
(* of memory holds which acquisition wrote it, and which unit of it it is. *)
(* The FPGA is external: it is modelled from the registers and comments of *)
(* sm_io_acq_exp.c.                                                        *)
(***************************************************************************)
EXTENDS PciePaging, FiniteSets

CONSTANTS
    Chans,       \* the acquisition channels
    SampleSize,  \* of each channel
    StartAddr, EndAddr,   \* the SDRAM of each channel (__acq_buf)
    MemTop,      \* the size of the SDRAM
    Payload,     \* DDR3_PAYLOAD_SIZE
    BlockSize,   \* BLOCK_SIZE
    MultishotRam,\* samples of a shot in multishot mode
    ShotsMod,    \* the SHOTS register counts modulo this
    MaxAcq       \* bound on the acquisitions started

ASSUME AcqAssumption ==
    /\ Payload \in Nat \ {0} /\ BlockSize \in Nat \ {0}
    /\ MultishotRam \in Nat /\ ShotsMod \in Nat \ {0} /\ MaxAcq \in Nat
    /\ MemTop \in Nat
    /\ \A c \in Chans :
         /\ SampleSize[c] \in 1..Payload /\ Payload % SampleSize[c] = 0
         /\ BlockSize % SampleSize[c] = 0
         /\ StartAddr[c] \in Nat /\ EndAddr[c] \in 0..MemTop
         /\ StartAddr[c] + SampleSize[c] < EndAddr[c]
         /\ (EndAddr[c] - StartAddr[c]) % Payload = 0

Triggers == {"skip", "pulse", "data", "sw"}

\* Replies of the SMIO.
ACQ_OK             == "ok"
ACQ_NOT_COMPLETED  == "not_completed"
ACQ_FC_FULL        == "fc_full"
ACQ_OOR            == "out_of_range"
ACQ_TRIG_TYPE      == "trig_type"
ACQ_COULD_NOT_READ == "could_not_read"

VARIABLES
    params,  \* acq_params of each channel
    curr,    \* curr_chan
    block,   \* the block being read, pc = "idle" when there is none
    fpga,    \* the acquisition core
    mem,     \* the SDRAM
    nacq     \* the number of acquisitions started, which identifies them

acqVars == <<params, curr, block, fpga, mem, nacq>>

-----------------------------------------------------------------------------
(* Channel properties, as smio_acq_new computes them. *)

\* The last address a sample can be stored at.
LastAddr(c) ==
    IF EndAddr[c] - SampleSize[c] > StartAddr[c] THEN EndAddr[c] - SampleSize[c]
                                                 ELSE StartAddr[c]
MaxSamples(c) == (LastAddr(c) - StartAddr[c]) \div SampleSize[c]

\* "Our end address needs to be accounted for one sample more."
EndMem(c) == LastAddr(c) + SampleSize[c]

Alignment(c) == Payload \div SampleSize[c]
AlignValue(v, a) == IF v % a = 0 THEN v ELSE v + (a - (v % a))

\* Default values; the trigger address is the beginning of the channel.
NewParams(c) == [pre |-> 0, post |-> 0, preAligned |-> 0, postAligned |-> 0,
                 shots |-> 1, trig |-> StartAddr[c]]

ShotSamples(p) == p.pre + p.post
ShotAligned(p) == p.preAligned + p.postAligned

-----------------------------------------------------------------------------
(* _acq_check_status and the trigger type. *)

IdleStatus ==
    IF fpga.full THEN ACQ_FC_FULL
    ELSE IF fpga.state # "idle" THEN ACQ_NOT_COMPLETED ELSE ACQ_OK

CompleteStatus ==
    IF fpga.full THEN ACQ_FC_FULL
    ELSE IF fpga.state # "idle" \/ ~fpga.done THEN ACQ_NOT_COMPLETED ELSE ACQ_OK

\* With no trigger enabled at all, the type is still the 0 it was initialised with.
TriggerType == IF fpga.trigger = "none" THEN "skip" ELSE fpga.trigger

-----------------------------------------------------------------------------
(* The handlers.  Each is a state function for the reply and an action. *)

TooManySamples(r) ==
    r.pre + r.post > IF r.shots = 1 THEN MaxSamples(r.chan) ELSE MultishotRam

DataAcquireCode(r) ==
    IF IdleStatus # ACQ_OK THEN IdleStatus
    ELSE IF r.chan \notin Chans \/ r.shots < 1 THEN ACQ_OOR
    ELSE IF TooManySamples(r) THEN ACQ_OOR
    ELSE IF TriggerType = "skip" /\ r.post > 0 THEN ACQ_TRIG_TYPE
    ELSE ACQ_OK

\* At least one payload is acquired before the trigger, and one after it unless
\* triggers are skipped.
AlignedPre(r)  == IF r.pre = 0 THEN Alignment(r.chan) ELSE AlignValue(r.pre, Alignment(r.chan))
AlignedPost(r) == IF r.post = 0 /\ TriggerType # "skip" THEN Alignment(r.chan)
                  ELSE AlignValue(r.post, Alignment(r.chan))

DataAcquire(r) ==
    /\ nacq < MaxAcq /\ block.pc = "idle"
    /\ IF DataAcquireCode(r) # ACQ_OK THEN UNCHANGED <<params, curr, fpga, nacq>>
       ELSE /\ params' = [params EXCEPT ![r.chan] =
                  [@ EXCEPT !.pre = r.pre, !.post = r.post, !.shots = r.shots,
                            !.preAligned = AlignedPre(r), !.postAligned = AlignedPost(r)]]
            /\ curr' = r.chan
            /\ nacq' = nacq + 1
            /\ fpga' = [fpga EXCEPT !.state = "acquiring", !.done = FALSE, !.fired = FALSE,
                          !.chan = r.chan, !.id = nacq + 1, !.shots = r.shots % ShotsMod,
                          !.pre = AlignedPre(r), !.post = AlignedPost(r)]
    /\ UNCHANGED <<block, mem>>

\* A complete acquisition is taken to be the one of curr_chan.
CheckDataAcquire ==
    /\ block.pc = "idle"
    /\ params' = IF CompleteStatus = ACQ_OK
                 THEN [params EXCEPT ![curr].trig = fpga.trigPos] ELSE params
    /\ UNCHANGED <<curr, block, fpga, mem, nacq>>

\* Mutant: an acquisition in progress does not refuse another trigger.
CfgTriggerAnytime(t) ==
    /\ block.pc = "idle"
    /\ fpga' = [fpga EXCEPT !.trigger = t]
    /\ UNCHANGED <<params, curr, block, mem, nacq>>

CfgTrigger(t) ==
    /\ block.pc = "idle"
    /\ fpga' = IF IdleStatus = ACQ_OK THEN [fpga EXCEPT !.trigger = t] ELSE fpga
    /\ UNCHANGED <<params, curr, block, mem, nacq>>

\* The SW_TRIG register and the FSM_STOP_ACQ bit.
SwTrig ==
    /\ block.pc = "idle"
    /\ fpga' = IF fpga.state = "acquiring" THEN [fpga EXCEPT !.fired = TRUE] ELSE fpga
    /\ UNCHANGED <<params, curr, block, mem, nacq>>

FsmStop ==
    /\ block.pc = "idle"
    /\ fpga' = IF fpga.state = "acquiring"
               THEN [fpga EXCEPT !.state = "idle", !.full = FALSE] ELSE fpga
    /\ UNCHANGED <<params, curr, block, mem, nacq>>

-----------------------------------------------------------------------------
(* _acq_get_data_block. *)

\* Mutant: the last block is taken to be full always.
BlockValidShort(c) ==
    LET n    == BlockSize \div SampleSize[c]
        full == ShotSamples(params[c]) * params[c].shots
    IN  IF full >= n THEN full \div n - 1 ELSE full \div n

BlockValid(c) ==
    LET n    == BlockSize \div SampleSize[c]
        full == ShotSamples(params[c]) * params[c].shots
    IN  IF full >= n /\ full % n = 0 THEN full \div n - 1 ELSE full \div n

BlockCode(c, b) ==
    IF \/ c \notin Chans
       \/ b > (MaxSamples(c) * SampleSize[c]) \div BlockSize
       \/ b > BlockValid(c)
    THEN ACQ_OOR ELSE ACQ_OK

\* Units asked for: what is left for the last block, a whole block otherwise.
ReplySize(c, b) ==
    LET over == (ShotSamples(params[c]) * params[c].shots)
                    % (BlockSize \div SampleSize[c])
    IN  IF b = BlockValid(c) /\ over > 0 THEN over * SampleSize[c] ELSE BlockSize

\* Mutant: the trigger is taken to be late enough.
StartAddressUnwrapped(trig, size, start, end) == trig - size

\* Where the acquisition began, before the trigger, in the ring start..end.
StartAddress(trig, size, start, end) ==
    IF trig - start >= size THEN trig - size ELSE end - (size - (trig - start))

ReadBlockAddrStart(from, offset, start, end) ==
    IF offset <= end - from THEN from + offset ELSE start + (offset - (end - from))

\* The trigger address of multishot acquisitions is that of the first shot.
AcqStart(c) ==
    LET p     == params[c]
        shots == ShotAligned(p) * (p.shots - 1)
    IN  StartAddress(p.trig + shots * SampleSize[c],
                     (shots + p.preAligned) * SampleSize[c], StartAddr[c], EndMem(c))

\* From the requested sample to where the core stored it.
BlockAddr(c, b) ==
    LET p        == params[c]
        sample   == b * (BlockSize \div SampleSize[c])
        shot     == sample \div ShotSamples(p)
        off      == sample - shot * ShotSamples(p)
        conv     == shot * ShotAligned(p) + (p.preAligned - p.pre) + off
    IN  ReadBlockAddrStart(AcqStart(c), conv * SampleSize[c], StartAddr[c], EndMem(c))

NoBlock == [pc |-> "idle", chan |-> "none", n |-> 0, addr |-> 0, off |-> 0,
            data |-> <<>>]

\* A channel without samples makes the code divide by zero, which kills halcsd.
GetDataBlock(c, b) ==
    /\ block.pc = "idle"
    /\ block' =
         IF BlockCode(c, b) # ACQ_OK THEN NoBlock
         ELSE IF ShotSamples(params[c]) = 0 THEN [NoBlock EXCEPT !.pc = "dead"]
         ELSE [pc |-> "read", chan |-> c, n |-> b, addr |-> BlockAddr(c, b),
               off |-> (b * (BlockSize \div SampleSize[c])) % ShotSamples(params[c]),
               data |-> <<>>]
    /\ UNCHANGED <<params, curr, fpga, mem, nacq>>

\* Units the loop reads next.  A single shot is read up to the end of the ring, a
\* shot of several up to its end.
ChunkSize ==
    LET c == block.chan
        p == params[c]
        left == ReplySize(c, block.n) - Len(block.data)
        room == EndMem(c) - block.addr
    IN  IF p.shots = 1 THEN IF left > room THEN room ELSE left
        ELSE (ShotSamples(p) - block.off) * SampleSize[c]

\* Mutant: the read does not go on at the beginning of the ring.
NextAddrUnwrapped(a) == a

\* The wrap of the loop, which is right for addr = end.
NextAddr(a) ==
    IF a >= EndMem(block.chan)
    THEN StartAddr[block.chan] + (EndMem(block.chan) - a) ELSE a

\* What the units at these addresses hold: nothing of interest outside the SDRAM.
ReadMem(at) == [k \in DOMAIN at |-> IF at[k] \in DOMAIN mem THEN mem[at[k]] ELSE <<0, 0>>]

\* The read is made by DMA, and page by page when that fails.  (Bar2 is a table, for
\* TLC to compute once.)
Bar2 == [r \in (0..MemTop) \X (0..(2 * BlockSize)) |-> Bar2Block(r[1], r[2])]
Ways == IF block.pc # "read" THEN {} ELSE
        {[k \in 1..ChunkSize |-> block.addr + k - 1]}
        \cup {Bar2[r] : r \in DOMAIN Bar2 \cap {<<block.addr, ChunkSize>>}}

BlockData(at) == block.data \o ReadMem(at)
BlockDone(at) == Len(BlockData(at)) >= ReplySize(block.chan, block.n)

\* One turn of the loop.  In multishot mode the padding between shots is jumped.
ReadChunk(at) ==
    LET p    == params[block.chan]
        jump == IF p.shots = 1 THEN 0
                ELSE (ShotAligned(p) - ShotSamples(p)) * SampleSize[block.chan]
    IN  /\ block.pc = "read"
        /\ block' = IF BlockDone(at) THEN NoBlock
                    ELSE [block EXCEPT !.data = BlockData(at), !.off = 0,
                                       !.addr = NextAddr(block.addr + ChunkSize + jump)]
        /\ UNCHANGED <<params, curr, fpga, mem, nacq>>

\* Neither way could read all of it.
ReadFails ==
    /\ block.pc = "read"
    /\ block' = NoBlock
    /\ UNCHANGED <<params, curr, fpga, mem, nacq>>

-----------------------------------------------------------------------------
(* The FPGA core (external). *)

Ring(c) == EndMem(c) - StartAddr[c]
AcqUnits == (fpga.pre + fpga.post) * fpga.shots * SampleSize[fpga.chan]

\* The ring after an acquisition whose first unit goes to address first: of the
\* units that go to the same address the last one stays.
Stored(first) ==
    LET c == fpga.chan
        unit(a) == (a - first) % Ring(c)
        wraps(a) == ((AcqUnits - 1) - unit(a)) \div Ring(c)
    IN  [a \in DOMAIN mem |->
            IF a \in StartAddr[c]..(EndMem(c) - 1) /\ unit(a) < AcqUnits
            THEN <<fpga.id, unit(a) + wraps(a) * Ring(c)>> ELSE mem[a]]

\* A trigger may come at any address of the ring.  Without one, and for several
\* shots, which are collected in a memory of their own, the samples are stored
\* from the beginning.
TriggerPositions ==
    LET c == fpga.chan
        pre == fpga.pre * SampleSize[c]
    IN  IF fpga.trigger = "skip" \/ fpga.shots # 1
        THEN {StartAddr[c] + (pre % Ring(c))}
        ELSE {a \in StartAddr[c]..(EndMem(c) - 1) : (a - StartAddr[c]) % Payload = 0}

Triggered == \/ fpga.trigger \in {"skip", "pulse", "data"}
             \/ fpga.trigger = "sw" /\ fpga.fired

FpgaComplete ==
    /\ fpga.state = "acquiring" /\ Triggered
    /\ \E t \in TriggerPositions :
         /\ fpga' = [fpga EXCEPT !.state = "idle", !.done = TRUE, !.full = FALSE,
                                 !.trigPos = t]
         /\ mem' = Stored(t - fpga.pre * SampleSize[fpga.chan])
    /\ UNCHANGED <<params, curr, block, nacq>>

\* The flow control fills up while samples come in.
FpgaFull ==
    /\ fpga.state = "acquiring" /\ ~fpga.full
    /\ fpga' = [fpga EXCEPT !.full = TRUE]
    /\ UNCHANGED <<params, curr, block, mem, nacq>>

-----------------------------------------------------------------------------
AcqInit ==
    /\ params = [c \in Chans |-> NewParams(c)]
    /\ curr \in {c \in Chans : \A d \in Chans : StartAddr[c] <= StartAddr[d]}
    /\ block = NoBlock
    /\ fpga = [state |-> "idle", done |-> FALSE, full |-> FALSE, fired |-> FALSE,
               trigger |-> "none", trigPos |-> 0, chan |-> curr, id |-> 0,
               shots |-> 0, pre |-> 0, post |-> 0]
    /\ mem = [a \in 0..(MemTop - 1) |-> <<0, 0>>]
    /\ nacq = 0
=============================================================================
