----------------------------- MODULE SmioThsafe -----------------------------
(***************************************************************************)
(* Register accesses between SMIO threads and the DEVIO thread.            *)
(*                                                                         *)
(* Every SMIO owns DEALER sockets (dealer, and dealer2 for a second        *)
(* thread) connected to the ROUTER of its DEVIO.  A thsafe call sends one  *)
(* request and blocks in zmsg_recv until a reply is there or the receive   *)
(* timeout of the socket (SMIO_RCV_TIMEOUT) runs out.  DEVIO takes the     *)
(* requests one at a time, performs the LLIO access and sends the reply    *)
(* back to the socket the request came from.  Neither message carries an   *)
(* identifier: the ids below are history, no action of the code reads      *)
(* them.                                                                   *)
(*                                                                         *)
(* Data is abstracted to the first 32-bit word of a transfer and to the    *)
(* size of the data frame, which is what the client checks.                *)
(***************************************************************************)
EXTENDS Integers, Sequences

CONSTANTS
    Socks,      \* the DEALER sockets of all SMIOs
    NoSock,     \* DEVIO is not working on any request
    Offs,       \* register offsets
    Sizes,      \* transfer sizes in bytes, 32-bit accesses and larger
    UIntMod,    \* 2^32: the width of a word and of the int32 return codes
    InitWords,  \* the words the registers may hold at start
    WriteWords, \* the words the SMIOs write
    MaxCalls    \* bound on the number of calls made on each socket

Words   == 0..(UIntMod - 1)
AckSize == 4                \* sizeof (int32_t), the data of a write reply

ASSUME ThsafeAssumption ==
    /\ NoSock \notin Socks
    /\ Sizes \subseteq Nat /\ AckSize \in Sizes
    /\ UIntMod \in Nat
    /\ \A n \in Sizes : AckSize <= n /\ n + 1 < UIntMod
    /\ InitWords \subseteq Words /\ WriteWords \subseteq Words
    /\ MaxCalls \in [Socks -> Nat]

VARIABLES
    endpOpen,  \* the LLIO endpoint is open
    regs,      \* the device registers
    call,      \* the call each socket is blocked in, or NoCall
    reqQ,      \* requests not yet taken by DEVIO, per socket
    job,       \* the socket DEVIO works for and the reply it computed
    repQ,      \* replies not yet received, per socket
    sockOpen,  \* FALSE once the owning SMIO destroyed the socket
    issued,    \* number of requests sent on each socket (history)
    taken,     \* number of replies received on each socket (history)
    timeouts,  \* number of calls that timed out on each socket (history)
    result     \* what the last call on each socket returned

devVars  == <<endpOpen, regs>>
histVars == <<issued, taken, timeouts>>
vars     == <<devVars, call, reqQ, job, repQ, sockOpen, histVars, result>>

-----------------------------------------------------------------------------
Ops == {"read", "write", "open", "release"}

Request == [id : Nat, op : Ops, offs : Offs, size : Sizes, word : Words]
NoCall  == [op |-> "none"]

\* A reply: the reply code, the size of its data frame (0: no data frame) and
\* the first word of the data.
Reply   == [id : Nat, code : Nat, len : Nat, word : Words]
NoReply == [id |-> 0, code |-> 0, len |-> 0, word |-> 0]
NoJob   == [sock |-> NoSock, reply |-> NoReply]

\* The return value of a call; `of' is the request that the reply it used
\* answers (0 after a timeout) and `late' the number of calls that had timed out
\* on the socket before.
Result   == [id : Nat, op : Ops \cup {"none"}, size : Nat, ret : Int,
             word : Words, of : Nat, late : Nat]
NoResult == [id |-> 0, op |-> "none", size |-> 0, ret |-> 0,
             word |-> 0, of |-> 0, late |-> 0]

Waiting(s) == call[s].op # "none"

-----------------------------------------------------------------------------
(* DEVIO: one request at a time. *)

\* What an LLIO access returns: an error (-1 stands for every negative code) or
\* a number of bytes.  A 32-bit access is complete or fails; a block access may
\* be clipped, or do nothing on a BAR that has no block mode.
IsBlock(q) == q.size > AckSize

LlioReturns(q) ==
    CASE ~endpOpen                -> {-1}
      [] endpOpen /\ ~IsBlock(q)  -> {-1, q.size}
      [] OTHER                    -> {-1, 0} \cup {n \in Sizes : n <= q.size}

\* _msg_format_client_response: a return that is not positive is sent as a
\* reply code, without a data frame.
ClientResponse(q, ret, word) ==
    IF ret <= 0 THEN [id |-> q.id, code |-> -ret, len |-> 0, word |-> 0]
                ELSE [id |-> q.id, code |-> 0, len |-> ret, word |-> word]

ServerRead(s, q) ==
    /\ q.op = "read"
    /\ \E r \in LlioReturns(q) :
         job' = [sock |-> s, reply |-> ClientResponse(q, r, regs[q.offs])]
    /\ UNCHANGED devVars

\* Mutant: the return code keeps its sign in the reply.
ServerWriteSigned(s, q) ==
    /\ q.op = "write"
    /\ \E r \in LlioReturns(q) :
         /\ job' = [sock |-> s, reply |-> ClientResponse(q, AckSize, r)]
         /\ regs' = IF r > 0 THEN [regs EXCEPT ![q.offs] = q.word] ELSE regs
    /\ UNCHANGED endpOpen

\* Mutant: the LLIO error is not looked at.
ServerWriteUnchecked(s, q) ==
    /\ q.op = "write"
    /\ \E r \in LlioReturns(q) :
         regs' = IF r > 0 THEN [regs EXCEPT ![q.offs] = q.word] ELSE regs
    /\ job' = [sock |-> s, reply |-> ClientResponse(q, AckSize, q.size)]
    /\ UNCHANGED endpOpen

\* The LLIO return is the data of the reply, an int32_t the client reads as a
\* uint32_t.  A failed block write may have reached the device: it is reported
\* as failed when its data look like the PCIe timeout pattern.
ServerWrite(s, q) ==
    /\ q.op = "write"
    /\ \E r \in LlioReturns(q) :
         /\ job' = [sock |-> s, reply |-> ClientResponse(q, AckSize, r % UIntMod)]
         /\ \/ /\ r > 0 \/ (endpOpen /\ IsBlock(q))
               /\ regs' = [regs EXCEPT ![q.offs] = q.word]
            \/ r <= 0 /\ UNCHANGED regs
    /\ UNCHANGED endpOpen

\* Opening an endpoint that was released fails: llio_set_endpoint only accepts
\* a new endpoint while the old one is open.
ServerOpen(s, q) ==
    /\ q.op = "open"
    /\ LET ret == IF endpOpen THEN AckSize ELSE -1
       IN  job' = [sock |-> s, reply |-> ClientResponse(q, ret, 0)]
    /\ UNCHANGED devVars

ServerRelease(s, q) ==
    /\ q.op = "release"
    /\ job' = [sock |-> s, reply |-> ClientResponse(q, AckSize, 0)]
    /\ endpOpen' = FALSE
    /\ UNCHANGED regs

\* _devio_handle_protocol takes the next request of some socket and performs it.
Serve(s) ==
    /\ job = NoJob
    /\ reqQ[s] # <<>>
    /\ LET q == Head(reqQ[s]) IN
         ServerRead(s, q) \/ ServerWrite(s, q) \/ ServerOpen(s, q) \/ ServerRelease(s, q)
    /\ reqQ' = [reqQ EXCEPT ![s] = Tail(@)]
    /\ UNCHANGED <<call, repQ, sockOpen, histVars, result>>

\* Mutant: a reply overtakes the ones that were not received yet.
SendReplyFirst ==
    /\ job # NoJob
    /\ repQ' = IF sockOpen[job.sock]
               THEN [repQ EXCEPT ![job.sock] = <<job.reply>> \o @]
               ELSE repQ
    /\ job' = NoJob
    /\ UNCHANGED <<devVars, call, reqQ, sockOpen, histVars, result>>

\* The ROUTER drops a reply to a socket that is gone.
SendReply ==
    /\ job # NoJob
    /\ repQ' = IF sockOpen[job.sock]
               THEN [repQ EXCEPT ![job.sock] = Append(@, job.reply)]
               ELSE repQ
    /\ job' = NoJob
    /\ UNCHANGED <<devVars, call, reqQ, sockOpen, histVars, result>>

-----------------------------------------------------------------------------
(* The SMIO threads. *)

\* A thsafe call: send the request, then block for the reply.
Call(s, op, o, n, w) ==
    /\ sockOpen[s] /\ ~Waiting(s)
    /\ issued[s] < MaxCalls[s]
    /\ LET q == [id |-> issued[s] + 1, op |-> op, offs |-> o, size |-> n, word |-> w]
       IN  /\ call' = [call EXCEPT ![s] = q]
           /\ reqQ' = [reqQ EXCEPT ![s] = Append(@, q)]
    /\ issued' = [issued EXCEPT ![s] = @ + 1]
    /\ UNCHANGED <<devVars, job, repQ, sockOpen, taken, timeouts, result>>

\* _thsafe_zmq_client_recv_rw: the bytes it returns, or -1.  A read accepts a
\* reply without data as 0 bytes, and any data frame that is large enough.
RecvRw(m, size, acceptEmpty) ==
    CASE m.code # 0   -> -1
      [] m.code = 0 /\ m.len = 0 -> IF acceptEmpty THEN 0 ELSE -1
      [] OTHER        -> IF m.len >= size THEN size ELSE -1

\* The value the call returns for reply m: writes return the word they got.
CallReturn(q, m) ==
    CASE q.op = "read"  -> RecvRw(m, q.size, TRUE)
      [] q.op = "write" -> IF RecvRw(m, AckSize, FALSE) = AckSize THEN m.word ELSE -1
      [] OTHER          -> IF m.code = 0 THEN 0 ELSE -1

Return(s, ret, m) ==
    /\ result' = [result EXCEPT ![s] =
                     [id |-> call[s].id, op |-> call[s].op, size |-> call[s].size,
                      ret |-> ret, word |-> m.word, of |-> m.id,
                      late |-> timeouts[s]]]
    /\ call' = [call EXCEPT ![s] = NoCall]

\* Mutant: all but the newest reply are thrown away.
RecvNewest(s) ==
    LET m == repQ[s][Len(repQ[s])] IN
    /\ Waiting(s) /\ repQ[s] # <<>>
    /\ Return(s, CallReturn(call[s], m), m)
    /\ repQ'  = [repQ EXCEPT ![s] = <<>>]
    /\ taken' = [taken EXCEPT ![s] = @ + Len(repQ[s])]
    /\ UNCHANGED <<devVars, reqQ, job, sockOpen, issued, timeouts>>

\* zmsg_recv returns the oldest reply on the socket, whichever call it answers.
Recv(s) ==
    /\ Waiting(s) /\ repQ[s] # <<>>
    /\ Return(s, CallReturn(call[s], Head(repQ[s])), Head(repQ[s]))
    /\ repQ'  = [repQ EXCEPT ![s] = Tail(@)]
    /\ taken' = [taken EXCEPT ![s] = @ + 1]
    /\ UNCHANGED <<devVars, reqQ, job, sockOpen, issued, timeouts>>

\* Mutant: the request of a call that times out is withdrawn.
TimeoutWithdraws(s) ==
    /\ Waiting(s) /\ repQ[s] = <<>>
    /\ Return(s, -1, NoReply)
    /\ timeouts' = [timeouts EXCEPT ![s] = @ + 1]
    /\ reqQ' = [reqQ EXCEPT ![s] = SelectSeq(@, LAMBDA q : q.id # call[s].id)]
    /\ UNCHANGED <<devVars, job, repQ, sockOpen, issued, taken>>

\* Mutant: no receive timeout is set on the socket.
TimeoutNever(s) == Waiting(s) /\ FALSE /\ UNCHANGED vars

\* zmsg_recv gives up after SMIO_RCV_TIMEOUT.
Timeout(s) ==
    /\ Waiting(s) /\ repQ[s] = <<>>
    /\ Return(s, -1, NoReply)
    /\ timeouts' = [timeouts EXCEPT ![s] = @ + 1]
    /\ UNCHANGED <<devVars, reqQ, job, repQ, sockOpen, issued, taken>>

\* smio_destroy closes the socket; its pending requests stay with DEVIO.
Close(s) ==
    /\ sockOpen[s] /\ ~Waiting(s)
    /\ sockOpen' = [sockOpen EXCEPT ![s] = FALSE]
    /\ repQ' = [repQ EXCEPT ![s] = <<>>]
    /\ UNCHANGED <<devVars, call, reqQ, job, histVars, result>>

-----------------------------------------------------------------------------
Init ==
    /\ endpOpen = TRUE
    /\ regs \in [Offs -> InitWords]
    /\ call = [s \in Socks |-> NoCall]
    /\ reqQ = [s \in Socks |-> <<>>]
    /\ job = NoJob
    /\ repQ = [s \in Socks |-> <<>>]
    /\ sockOpen = [s \in Socks |-> TRUE]
    /\ issued = [s \in Socks |-> 0]
    /\ taken = [s \in Socks |-> 0]
    /\ timeouts = [s \in Socks |-> 0]
    /\ result = [s \in Socks |-> NoResult]

\* The channel itself: everything but the SMIO code that makes the calls.
ChannelNext ==
    \/ SendReply
    \/ \E s \in Socks : Serve(s) \/ Recv(s) \/ Timeout(s) \/ Close(s)

AnyCall(s) ==
    \E o \in Offs :
        \/ \E n \in Sizes : Call(s, "read", o, n, 0)
        \/ \E n \in Sizes, w \in WriteWords : Call(s, "write", o, n, w)
        \/ \E op \in {"open", "release"} : Call(s, op, o, AckSize, 0)

Next == ChannelNext \/ \E s \in Socks : AnyCall(s)

Spec == Init /\ [][Next]_vars

\* A thread blocked in zmsg_recv is woken by a reply or by its timer.  Nothing
\* is assumed of DEVIO, which may be blocked elsewhere for any time.
ClientFairness == \A s \in Socks : WF_vars(Recv(s) \/ Timeout(s))
FairSpec == Spec /\ ClientFairness

-----------------------------------------------------------------------------
(* Properties. *)

\* The variables have their types: in particular every word DEVIO sends fits in
\* 32 bits although the return codes of LLIO are negative on errors.
TypeOK ==
    /\ endpOpen \in BOOLEAN
    /\ regs \in [Offs -> Words]
    /\ call \in [Socks -> Request \cup {NoCall}]
    /\ reqQ \in [Socks -> Seq(Request)]
    /\ job \in [sock : Socks \cup {NoSock}, reply : Reply]
    /\ repQ \in [Socks -> Seq(Reply)]
    /\ sockOpen \in [Socks -> BOOLEAN]
    /\ issued \in [Socks -> Nat]
    /\ taken \in [Socks -> Nat]
    /\ timeouts \in [Socks -> Nat]
    /\ result \in [Socks -> Result]

\* The ids of the messages q are base + 1, base + 2, ...
Consecutive(q, base) == \A i \in 1..Len(q) : q[i].id = base + i

InService(s) == IF job.sock = s THEN 1 ELSE 0
Blocked(s)   == IF Waiting(s) THEN 1 ELSE 0

\* No request or reply is lost, repeated or overtaken between an open socket and
\* DEVIO: reading from the oldest reply through the request in service to the
\* newest request, the answers owed to the socket are consecutive.
ReplyOrder ==
    \A s \in Socks : sockOpen[s] =>
        LET next == taken[s] + Len(repQ[s]) + InService(s) IN
        /\ Consecutive(repQ[s], taken[s])
        /\ job.sock = s => job.reply.id = next
        /\ Consecutive(reqQ[s], next)
        /\ issued[s] = next + Len(reqQ[s])

\* Every call that timed out leaves one answer behind for ever: the calls that
\* follow never catch up, because nothing on the client side discards the late
\* reply (_thsafe_zmq_client_recv_confirmation).
LagIsTimeouts ==
    \A s \in Socks : issued[s] = taken[s] + timeouts[s] + Blocked(s)

\* The reply a call uses answers the call made as many calls earlier as there
\* were timeouts on the socket before: its own reply if there was none.
AnswerLag ==
    \A s \in Socks : result[s].of # 0 => result[s].id = result[s].of + result[s].late

\* No thsafe call blocks its SMIO for ever, whatever DEVIO does: the purpose
\* sm_io.c gives for the receive timeout.
CallReturns == \A s \in Socks : Waiting(s) ~> ~Waiting(s)
=============================================================================
