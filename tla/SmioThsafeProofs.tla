-------------------------- MODULE SmioThsafeProofs --------------------------
(***************************************************************************)
(* Proofs about the register channel, for any number of sockets, offsets,  *)
(* sizes and calls: it is type correct, answers a socket in the order of   *)
(* its requests, lags behind by exactly one reply per timeout, and         *)
(* implements RegisterService.                                             *)
(***************************************************************************)
EXTENDS ThsafeRefinement, TLAPS

\* Facts the code keeps that the properties of SmioThsafe do not mention: a
\* blocked thread waits for its newest request, a closed socket has no blocked
\* thread and no replies, and DEVIO holds a reply only for a socket.
CallIsNewest == \A s \in Socks : Waiting(s) => call[s].id = issued[s]
ClosedIsQuiet == \A s \in Socks : ~sockOpen[s] => ~Waiting(s) /\ repQ[s] = <<>>
JobHasSock == job.sock = NoSock => job = NoJob

IInv ==
    /\ TypeOK
    /\ CallIsNewest
    /\ ClosedIsQuiet
    /\ JobHasSock
    /\ ReplyOrder
    /\ LagIsTimeouts
    /\ AnswerLag

-----------------------------------------------------------------------------
(* Typing of the operators. *)

\* A blocked call is a request: NoCall is the only other value.
LEMMA WaitingIsRequest ==
    ASSUME TypeOK, NEW s \in Socks
    PROVE  Waiting(s) <=> call[s] \in Request
  BY DEF TypeOK, Waiting, Request, Ops, NoCall

\* Requests and replies never hold a word wider than 32 bits.
LEMMA ZeroWord == 0 \in Words /\ UIntMod > 0 /\ AckSize \in Nat
  BY ThsafeAssumption DEF Words, AckSize

\* What DEVIO sends back is a reply, whatever LLIO returned.
LEMMA ClientResponseType ==
    ASSUME NEW q \in Request, NEW r \in Int, NEW w \in Words
    PROVE  /\ ClientResponse(q, r, w) \in Reply
           /\ ClientResponse(q, r, w).id = q.id
  BY ZeroWord DEF ClientResponse, Reply, Request

\* What LLIO returns, as an int and as the uint32_t a client reads.
LEMMA LlioReturnsType ==
    ASSUME NEW q \in Request, NEW r \in LlioReturns(q)
    PROVE  r \in Int /\ r % UIntMod \in Words
  <1>1. r \in Int
    BY ThsafeAssumption DEF LlioReturns, Request
  <1> QED
    BY <1>1, ZeroWord, ThsafeAssumption DEF Words

\* What a thsafe call returns for any reply is an integer.
LEMMA CallReturnType ==
    ASSUME NEW q \in Request, NEW m \in Reply
    PROVE  CallReturn(q, m) \in Int
  BY ThsafeAssumption DEF CallReturn, RecvRw, Request, Reply, Words, AckSize

\* The result that a call stores.
LEMMA ReturnType ==
    ASSUME TypeOK, NEW s \in Socks, Waiting(s),
           NEW r \in Int, NEW m \in Reply, Return(s, r, m)
    PROVE  /\ result' \in [Socks -> Result]
           /\ call' \in [Socks -> Request \cup {NoCall}]
           /\ result' = [result EXCEPT ![s] = result'[s]]
           /\ result'[s].id = call[s].id
           /\ result'[s].of = m.id
           /\ result'[s].late = timeouts[s]
           /\ call' = [call EXCEPT ![s] = NoCall]
  <1>1. call[s] \in Request
    BY WaitingIsRequest
  <1> DEFINE x == [id |-> call[s].id, op |-> call[s].op, size |-> call[s].size,
                   ret |-> r, word |-> m.word, of |-> m.id,
                   late |-> timeouts[s]]
  <1>2. x \in Result
    BY <1>1, ThsafeAssumption DEF Request, Reply, Result, TypeOK
  <1>3. result' = [result EXCEPT ![s] = x] /\ call' = [call EXCEPT ![s] = NoCall]
    BY DEF Return
  <1> HIDE DEF x
  <1>4. result'[s] = x
    BY <1>3 DEF TypeOK
  <1>5. x.id = call[s].id /\ x.of = m.id /\ x.late = timeouts[s]
    BY DEF x
  <1> QED
    BY <1>2, <1>3, <1>4, <1>5 DEF TypeOK

-----------------------------------------------------------------------------
(* Queues of consecutive ids. *)

\* Taking the oldest message leaves a queue that starts one id later.
LEMMA ConsecutiveTail ==
    ASSUME NEW S, NEW q \in Seq(S), q # <<>>, NEW base \in Nat, Consecutive(q, base)
    PROVE  /\ Head(q).id = base + 1
           /\ Consecutive(Tail(q), base + 1)
           /\ Len(Tail(q)) = Len(q) - 1
           /\ Len(Tail(q)) \in Nat
  <1>1. /\ Len(q) \in Nat /\ Len(q) >= 1
        /\ Head(q) = q[1]
        /\ Len(Tail(q)) = Len(q) - 1
        /\ \A i \in 1..Len(Tail(q)) : Tail(q)[i] = q[i + 1]
    OBVIOUS
  <1>2. \A i \in 1..Len(Tail(q)) : Tail(q)[i].id = base + 1 + i
    <2> TAKE i \in 1..Len(Tail(q))
    <2>1. i + 1 \in 1..Len(q)
      BY <1>1
    <2>2. q[i + 1].id = base + (i + 1)
      BY <2>1 DEF Consecutive
    <2> QED
      BY <1>1, <2>2
  <1>3. q[1].id = base + 1
    BY <1>1 DEF Consecutive
  <1> QED
    BY <1>1, <1>2, <1>3 DEF Consecutive

\* One message less in a queue, one more before it.
LEMMA MoveOne ==
    ASSUME NEW total, NEW base \in Nat, NEW n \in Nat, NEW m \in Nat,
           m = n - 1, total = base + n
    PROVE  total = base + 1 + m
  OBVIOUS

\* A queue may be extended with the next id.
LEMMA ConsecutiveAppend ==
    ASSUME NEW S, NEW q \in Seq(S), NEW x \in S, NEW base \in Nat,
           Consecutive(q, base), x.id = base + Len(q) + 1
    PROVE  /\ Consecutive(Append(q, x), base)
           /\ Len(Append(q, x)) = Len(q) + 1
           /\ Len(q) \in Nat
  <1>1. /\ Len(q) \in Nat
        /\ Len(Append(q, x)) = Len(q) + 1
        /\ Append(q, x)[Len(q) + 1] = x
        /\ \A i \in 1..Len(q) : Append(q, x)[i] = q[i]
    OBVIOUS
  <1>2. \A i \in 1..Len(Append(q, x)) : Append(q, x)[i].id = base + i
    <2> TAKE i \in 1..Len(Append(q, x))
    <2>1. CASE i = Len(q) + 1
      BY <1>1, <2>1
    <2>2. CASE i # Len(q) + 1
      <3>1. i \in 1..Len(q)
        BY <1>1, <2>2
      <3> QED
        BY <1>1, <3>1 DEF Consecutive
    <2> QED
      BY <2>1, <2>2
  <1> QED
    BY <1>1, <1>2 DEF Consecutive

-----------------------------------------------------------------------------
(* Each action, seen through the ids only. *)

\* Serving a request moves its id from the queue to the reply in DEVIO's hands.
LEMMA ServeEffect ==
    ASSUME TypeOK, NEW s \in Socks, Serve(s)
    PROVE  /\ TypeOK'
           /\ job = NoJob
           /\ reqQ[s] # <<>>
           /\ job'.sock = s
           /\ job'.reply.id = Head(reqQ[s]).id
           /\ reqQ' = [reqQ EXCEPT ![s] = Tail(@)]
           /\ UNCHANGED <<call, repQ, sockOpen, histVars, result>>
  <1> DEFINE q == Head(reqQ[s])
  <1>1. reqQ[s] \in Seq(Request) /\ reqQ[s] # <<>>
    BY DEF Serve, TypeOK
  <1>2. q \in Request /\ Tail(reqQ[s]) \in Seq(Request)
    BY <1>1
  <1>3. job = NoJob /\ reqQ' = [reqQ EXCEPT ![s] = Tail(@)]
        /\ UNCHANGED <<call, repQ, sockOpen, histVars, result>>
    BY DEF Serve
  <1>4. q.offs \in Offs /\ q.word \in Words
    BY <1>2 DEF Request
  <1>5. ServerRead(s, q) \/ ServerWrite(s, q) \/ ServerOpen(s, q) \/ ServerRelease(s, q)
    BY DEF Serve
  <1> HIDE DEF q
  <1>6. /\ job' \in [sock : Socks \cup {NoSock}, reply : Reply]
        /\ job'.sock = s
        /\ job'.reply.id = q.id
        /\ regs' \in [Offs -> Words]
        /\ endpOpen' \in BOOLEAN
    <2>1. CASE ServerRead(s, q)
      <3>1. PICK r \in LlioReturns(q) :
              job' = [sock |-> s, reply |-> ClientResponse(q, r, regs[q.offs])]
        BY <2>1 DEF ServerRead
      <3>2. regs[q.offs] \in Words /\ r \in Int
        BY <1>2, <1>4, <3>1, LlioReturnsType DEF TypeOK
      <3>3. UNCHANGED devVars
        BY <2>1 DEF ServerRead
      <3> QED
        BY <1>2, <3>1, <3>2, <3>3, ClientResponseType DEF TypeOK, devVars
    <2>2. CASE ServerWrite(s, q)
      <3>1. PICK r \in LlioReturns(q) :
              /\ job' = [sock |-> s, reply |-> ClientResponse(q, AckSize, r % UIntMod)]
              /\ \/ regs' = [regs EXCEPT ![q.offs] = q.word]
                 \/ UNCHANGED regs
        BY <2>2 DEF ServerWrite
      <3>2. r % UIntMod \in Words /\ AckSize \in Int
        BY <1>2, <3>1, LlioReturnsType, ZeroWord
      <3>3. regs' \in [Offs -> Words]
        BY <1>4, <3>1 DEF TypeOK
      <3>4. UNCHANGED endpOpen
        BY <2>2 DEF ServerWrite
      <3> QED
        BY <1>2, <3>1, <3>2, <3>3, <3>4, ClientResponseType DEF TypeOK
    <2>3. CASE ServerOpen(s, q)
      <3>1. PICK r \in Int : job' = [sock |-> s, reply |-> ClientResponse(q, r, 0)]
        BY <2>3, ZeroWord DEF ServerOpen
      <3>2. UNCHANGED devVars
        BY <2>3 DEF ServerOpen
      <3> QED
        BY <1>2, <3>1, <3>2, ZeroWord, ClientResponseType DEF TypeOK, devVars
    <2>4. CASE ServerRelease(s, q)
      <3>1. /\ job' = [sock |-> s, reply |-> ClientResponse(q, AckSize, 0)]
            /\ endpOpen' = FALSE /\ UNCHANGED regs
        BY <2>4 DEF ServerRelease
      <3>2. /\ ClientResponse(q, AckSize, 0) \in Reply
            /\ ClientResponse(q, AckSize, 0).id = q.id
        BY <1>2, ZeroWord, ClientResponseType
      <3>3. regs' \in [Offs -> Words] /\ endpOpen' \in BOOLEAN
        BY <3>1 DEF TypeOK
      <3> QED
        BY <3>1, <3>2, <3>3
    <2> QED
      BY <1>5, <2>1, <2>2, <2>3, <2>4
  <1>7. TypeOK'
    BY <1>2, <1>3, <1>6 DEF TypeOK, histVars
  <1> QED
    BY <1>1, <1>3, <1>6, <1>7 DEF q

\* Sending moves the reply to the end of the socket's replies, or drops it.
LEMMA SendReplyEffect ==
    ASSUME TypeOK, JobHasSock, SendReply
    PROVE  /\ TypeOK'
           /\ job.sock \in Socks /\ job' = NoJob
           /\ repQ' = IF sockOpen[job.sock]
                      THEN [repQ EXCEPT ![job.sock] = Append(@, job.reply)]
                      ELSE repQ
           /\ UNCHANGED <<devVars, call, reqQ, sockOpen, histVars, result>>
  <1>1. job.sock \in Socks /\ job.reply \in Reply
    BY DEF SendReply, JobHasSock, TypeOK
  <1>2. NoJob \in [sock : Socks \cup {NoSock}, reply : Reply]
    BY ZeroWord DEF NoJob, NoReply, Reply
  <1>3. repQ' \in [Socks -> Seq(Reply)]
    BY <1>1 DEF SendReply, TypeOK
  <1>4. TypeOK'
    BY <1>2, <1>3 DEF SendReply, TypeOK, devVars, histVars
  <1> QED
    BY <1>1, <1>4 DEF SendReply

\* A call appends a request with a fresh id and blocks its thread.
LEMMA CallEffect ==
    ASSUME TypeOK, NEW s \in Socks, NEW op \in Ops, NEW o \in Offs,
           NEW n \in Sizes, NEW w \in Words, Call(s, op, o, n, w)
    PROVE  /\ TypeOK'
           /\ sockOpen[s] /\ ~Waiting(s)
           /\ \E q \in Request :
                /\ q.id = issued[s] + 1
                /\ call' = [call EXCEPT ![s] = q]
                /\ reqQ' = [reqQ EXCEPT ![s] = Append(@, q)]
           /\ issued' = [issued EXCEPT ![s] = @ + 1]
           /\ UNCHANGED <<devVars, job, repQ, sockOpen, taken, timeouts, result>>
  <1> DEFINE q == [id |-> issued[s] + 1, op |-> op, offs |-> o, size |-> n, word |-> w]
  <1>1. q \in Request /\ q.id = issued[s] + 1
    BY DEF Request, TypeOK
  <1>2. /\ call' = [call EXCEPT ![s] = q]
        /\ reqQ' = [reqQ EXCEPT ![s] = Append(@, q)]
        /\ issued' = [issued EXCEPT ![s] = @ + 1]
        /\ sockOpen[s] /\ ~Waiting(s)
        /\ UNCHANGED <<devVars, job, repQ, sockOpen, taken, timeouts, result>>
    BY DEF Call
  <1> HIDE DEF q
  <1>3. TypeOK'
    <2>1. issued' \in [Socks -> Nat]
      BY <1>2 DEF TypeOK
    <2>2. reqQ' \in [Socks -> Seq(Request)]
      BY <1>1, <1>2 DEF TypeOK
    <2>3. call' \in [Socks -> Request \cup {NoCall}]
      BY <1>1, <1>2 DEF TypeOK
    <2> QED
      BY <1>2, <2>1, <2>2, <2>3 DEF TypeOK, devVars
  <1> QED
    BY <1>1, <1>2, <1>3

\* A reply that is received is the oldest one of the socket (zmsg_recv).
LEMMA RecvEffect ==
    ASSUME TypeOK, NEW s \in Socks, Recv(s)
    PROVE  /\ TypeOK'
           /\ Waiting(s) /\ repQ[s] # <<>>
           /\ result' = [result EXCEPT ![s] = result'[s]]
           /\ result'[s].id = call[s].id
           /\ result'[s].of = Head(repQ[s]).id
           /\ result'[s].late = timeouts[s]
           /\ call' = [call EXCEPT ![s] = NoCall]
           /\ repQ' = [repQ EXCEPT ![s] = Tail(@)]
           /\ taken' = [taken EXCEPT ![s] = @ + 1]
           /\ UNCHANGED <<devVars, reqQ, job, sockOpen, issued, timeouts>>
  <1> DEFINE m == Head(repQ[s])
  <1>1. repQ[s] \in Seq(Reply) /\ repQ[s] # <<>> /\ Waiting(s)
    BY DEF Recv, TypeOK
  <1>2. m \in Reply /\ Tail(repQ[s]) \in Seq(Reply)
    BY <1>1
  <1>3. CallReturn(call[s], m) \in Int
    BY <1>1, <1>2, CallReturnType, WaitingIsRequest
  <1>4. Return(s, CallReturn(call[s], m), m)
    BY DEF Recv
  <1>5. /\ result' \in [Socks -> Result]
        /\ call' \in [Socks -> Request \cup {NoCall}]
        /\ result' = [result EXCEPT ![s] = result'[s]]
        /\ result'[s].id = call[s].id
        /\ result'[s].of = m.id
        /\ result'[s].late = timeouts[s]
        /\ call' = [call EXCEPT ![s] = NoCall]
    BY <1>1, <1>2, <1>3, <1>4, ReturnType
  <1>6. /\ repQ' = [repQ EXCEPT ![s] = Tail(@)]
        /\ taken' = [taken EXCEPT ![s] = @ + 1]
        /\ UNCHANGED <<devVars, reqQ, job, sockOpen, issued, timeouts>>
    BY DEF Recv
  <1>7. TypeOK'
    <2>1. taken' \in [Socks -> Nat]
      BY <1>6 DEF TypeOK
    <2>2. repQ' \in [Socks -> Seq(Reply)]
      BY <1>2, <1>6 DEF TypeOK
    <2> QED
      BY <1>5, <1>6, <2>1, <2>2 DEF TypeOK, devVars
  <1> QED
    BY <1>1, <1>5, <1>6, <1>7

\* A timeout frees the thread and leaves its request where it is.
LEMMA TimeoutEffect ==
    ASSUME TypeOK, NEW s \in Socks, Timeout(s)
    PROVE  /\ TypeOK'
           /\ Waiting(s)
           /\ result' = [result EXCEPT ![s] = result'[s]]
           /\ result'[s].of = 0
           /\ call' = [call EXCEPT ![s] = NoCall]
           /\ timeouts' = [timeouts EXCEPT ![s] = @ + 1]
           /\ UNCHANGED <<devVars, reqQ, job, repQ, sockOpen, issued, taken>>
  <1>1. NoReply \in Reply /\ NoReply.id = 0
    BY ZeroWord DEF NoReply, Reply
  <1>2. Waiting(s) /\ Return(s, -1, NoReply) /\ -1 \in Int
    BY DEF Timeout
  <1>3. /\ result' \in [Socks -> Result]
        /\ call' \in [Socks -> Request \cup {NoCall}]
        /\ result' = [result EXCEPT ![s] = result'[s]]
        /\ result'[s].of = 0
        /\ call' = [call EXCEPT ![s] = NoCall]
    BY <1>1, <1>2, ReturnType
  <1>4. /\ timeouts' = [timeouts EXCEPT ![s] = @ + 1]
        /\ UNCHANGED <<devVars, reqQ, job, repQ, sockOpen, issued, taken>>
    BY DEF Timeout
  <1>5. TypeOK'
    <2>1. timeouts' \in [Socks -> Nat]
      BY <1>4 DEF TypeOK
    <2> QED
      BY <1>3, <1>4, <2>1 DEF TypeOK, devVars
  <1> QED
    BY <1>2, <1>3, <1>4, <1>5

\* smio_destroy closes a socket and loses its replies, nothing else.
LEMMA CloseEffect ==
    ASSUME TypeOK, NEW s \in Socks, Close(s)
    PROVE  /\ TypeOK'
           /\ ~Waiting(s)
           /\ sockOpen' = [sockOpen EXCEPT ![s] = FALSE]
           /\ repQ' = [repQ EXCEPT ![s] = <<>>]
           /\ UNCHANGED <<devVars, call, reqQ, job, histVars, result>>
  BY DEF Close, TypeOK, devVars, histVars

\* The calls an SMIO can make are well-typed calls.
LEMMA AnyCallIsCall ==
    ASSUME NEW s \in Socks, AnyCall(s)
    PROVE  \E op \in Ops, o \in Offs, n \in Sizes, w \in Words : Call(s, op, o, n, w)
  <1>1. {"read", "write", "open", "release"} \subseteq Ops
    BY DEF Ops
  <1> QED
    BY <1>1, ZeroWord, ThsafeAssumption DEF AnyCall, Ops

-----------------------------------------------------------------------------
(* The inductive invariant, one lemma per action. *)

\* The channel starts without messages, calls or timeouts.
LEMMA InitIInv == Init => IInv
  <1> SUFFICES ASSUME Init PROVE IInv
    OBVIOUS
  <1>1. TypeOK
    <2>1. NoResult \in Result /\ NoReply \in Reply
      BY ZeroWord DEF NoResult, Result, NoReply, Reply
    <2> QED
      BY <2>1, ZeroWord, ThsafeAssumption DEF Init, TypeOK, NoJob
  <1>2. \A s \in Socks : ~Waiting(s)
    BY DEF Init, Waiting, NoCall
  <1>3. CallIsNewest /\ ClosedIsQuiet /\ JobHasSock
    BY <1>2 DEF Init, CallIsNewest, ClosedIsQuiet, JobHasSock
  <1>4. ReplyOrder
    BY ThsafeAssumption DEF Init, ReplyOrder, Consecutive, InService, NoJob
  <1>5. LagIsTimeouts
    <2> SUFFICES ASSUME NEW s \in Socks
                 PROVE  issued[s] = taken[s] + timeouts[s] + Blocked(s)
      BY DEF LagIsTimeouts
    <2>1. Blocked(s) = 0
      BY <1>2 DEF Blocked
    <2>2. issued[s] = 0 /\ taken[s] = 0 /\ timeouts[s] = 0
      BY DEF Init
    <2> QED
      BY <2>1, <2>2
  <1>6. AnswerLag
    BY DEF Init, AnswerLag, NoResult
  <1> QED
    BY <1>1, <1>3, <1>4, <1>5, <1>6 DEF IInv

\* A step outside the channel leaves its invariant alone.
LEMMA StutterIInv ==
    ASSUME IInv, UNCHANGED vars
    PROVE  IInv'
  <1>1. /\ UNCHANGED <<endpOpen, regs, call, reqQ, job, repQ, sockOpen>>
        /\ UNCHANGED <<issued, taken, timeouts, result>>
    BY DEF vars, devVars, histVars
  <1>2. TypeOK'
    BY <1>1 DEF IInv, TypeOK
  <1>3. CallIsNewest' /\ ClosedIsQuiet' /\ JobHasSock'
    BY <1>1 DEF IInv, CallIsNewest, ClosedIsQuiet, JobHasSock, Waiting
  <1>4. ReplyOrder'
    BY <1>1 DEF IInv, ReplyOrder, InService
  <1>5. LagIsTimeouts' /\ AnswerLag'
    BY <1>1 DEF IInv, LagIsTimeouts, AnswerLag, Blocked, Waiting
  <1> QED
    BY <1>2, <1>3, <1>4, <1>5 DEF IInv

\* Taking a request (_devio_handle_protocol) preserves the invariant.
LEMMA ServeIInv ==
    ASSUME IInv, NEW s \in Socks, Serve(s)
    PROVE  IInv'
  <1> USE DEF IInv
  <1>1. /\ TypeOK'
        /\ job = NoJob
        /\ reqQ[s] # <<>>
        /\ job'.sock = s
        /\ job'.reply.id = Head(reqQ[s]).id
        /\ reqQ' = [reqQ EXCEPT ![s] = Tail(@)]
        /\ UNCHANGED <<call, repQ, sockOpen, histVars, result>>
    BY ServeEffect
  <1>2. CallIsNewest' /\ ClosedIsQuiet' /\ LagIsTimeouts' /\ AnswerLag'
    BY <1>1 DEF CallIsNewest, ClosedIsQuiet, LagIsTimeouts, AnswerLag,
                Waiting, Blocked, histVars
  <1>3. JobHasSock'
    BY <1>1, ThsafeAssumption DEF JobHasSock
  <1>4. ReplyOrder'
    <2> SUFFICES ASSUME NEW t \in Socks, sockOpen[t]
                 PROVE  LET next == taken[t] + Len(repQ[t]) + InService(t)' IN
                        /\ Consecutive(repQ[t], taken[t])
                        /\ job'.sock = t => job'.reply.id = next
                        /\ Consecutive(reqQ'[t], next)
                        /\ issued[t] = next + Len(reqQ'[t])
      BY <1>1 DEF ReplyOrder, histVars
    <2>1. /\ taken[t] \in Nat /\ repQ[t] \in Seq(Reply) /\ Len(repQ[t]) \in Nat
          /\ reqQ[t] \in Seq(Request) /\ Len(reqQ[t]) \in Nat
      <3>1. taken[t] \in Nat /\ repQ[t] \in Seq(Reply) /\ reqQ[t] \in Seq(Request)
        BY DEF TypeOK
      <3> QED
        BY <3>1
    <2>2. InService(t) = 0
      BY <1>1, ThsafeAssumption DEF InService, NoJob
    <2> DEFINE base == taken[t] + Len(repQ[t])
    <2>3. base \in Nat /\ base + InService(t) = base
      BY <2>1, <2>2
    <2>4. /\ Consecutive(repQ[t], taken[t])
          /\ Consecutive(reqQ[t], base)
          /\ issued[t] = base + Len(reqQ[t])
      BY <2>3 DEF ReplyOrder
    <2>5. CASE t = s
      <3>1. InService(t)' = 1
        BY <1>1, <2>5 DEF InService
      <3>2. reqQ[t] # <<>> /\ reqQ'[t] = Tail(reqQ[t])
        BY <1>1, <2>5 DEF TypeOK
      <3> HIDE DEF base
      <3>3. /\ Head(reqQ[t]).id = base + 1
            /\ Consecutive(Tail(reqQ[t]), base + 1)
            /\ Len(Tail(reqQ[t])) = Len(reqQ[t]) - 1
            /\ Len(Tail(reqQ[t])) \in Nat
        BY <2>1, <2>3, <2>4, <3>2, ConsecutiveTail
      <3>4. issued[t] = base + 1 + Len(Tail(reqQ[t]))
        BY <2>1, <2>3, <2>4, <3>3, MoveOne
      <3> QED
        BY <1>1, <2>4, <2>5, <3>1, <3>2, <3>3, <3>4 DEF base
    <2>6. CASE t # s
      <3>1. InService(t)' = 0 /\ reqQ'[t] = reqQ[t]
        BY <1>1, <2>6 DEF InService, TypeOK
      <3> QED
        BY <1>1, <2>3, <2>2, <2>4, <2>6, <3>1
    <2> QED
      BY <2>5, <2>6
  <1> QED
    BY <1>1, <1>2, <1>3, <1>4

\* Sending a reply (devio_proto_send) preserves the invariant.
LEMMA SendReplyIInv ==
    ASSUME IInv, SendReply
    PROVE  IInv'
  <1> USE DEF IInv
  <1> DEFINE s == job.sock
  <1>1. /\ TypeOK'
        /\ s \in Socks /\ job' = NoJob
        /\ repQ' = IF sockOpen[s] THEN [repQ EXCEPT ![s] = Append(@, job.reply)]
                                  ELSE repQ
        /\ UNCHANGED <<devVars, call, reqQ, sockOpen, histVars, result>>
    BY SendReplyEffect
  <1>2. CallIsNewest' /\ LagIsTimeouts' /\ AnswerLag'
    BY <1>1 DEF CallIsNewest, LagIsTimeouts, AnswerLag, Waiting, Blocked, histVars
  <1>3. ClosedIsQuiet' /\ JobHasSock'
    BY <1>1 DEF ClosedIsQuiet, JobHasSock, Waiting, TypeOK
  <1>4. ReplyOrder'
    <2> SUFFICES ASSUME NEW t \in Socks, sockOpen[t]
                 PROVE  LET next == taken[t] + Len(repQ'[t]) + InService(t)' IN
                        /\ Consecutive(repQ'[t], taken[t])
                        /\ job'.sock = t => job'.reply.id = next
                        /\ Consecutive(reqQ[t], next)
                        /\ issued[t] = next + Len(reqQ[t])
      BY <1>1 DEF ReplyOrder, histVars
    <2>1. /\ taken[t] \in Nat /\ repQ[t] \in Seq(Reply) /\ Len(repQ[t]) \in Nat
          /\ reqQ[t] \in Seq(Request) /\ Len(reqQ[t]) \in Nat
          /\ job.reply \in Reply
      BY DEF TypeOK
    <2>2. InService(t)' = 0 /\ job'.sock # t
      BY <1>1, ThsafeAssumption DEF InService, NoJob
    <2> DEFINE next == taken[t] + Len(repQ[t]) + InService(t)
    <2>3. /\ Consecutive(repQ[t], taken[t])
          /\ job.sock = t => job.reply.id = next
          /\ Consecutive(reqQ[t], next)
          /\ issued[t] = next + Len(reqQ[t])
      BY DEF ReplyOrder
    <2>4. CASE t = s
      <3>1. InService(t) = 1
        BY <2>4 DEF InService
      <3>2. repQ'[t] = Append(repQ[t], job.reply)
        BY <1>1, <2>4 DEF TypeOK
      <3>3. job.reply.id = taken[t] + Len(repQ[t]) + 1
        BY <2>3, <2>4, <3>1
      <3>4. /\ Consecutive(Append(repQ[t], job.reply), taken[t])
            /\ Len(Append(repQ[t], job.reply)) = Len(repQ[t]) + 1
        BY <2>1, <2>3, <3>3, ConsecutiveAppend
      <3>5. Len(repQ'[t]) = Len(repQ[t]) + 1 /\ Len(repQ'[t]) \in Nat
        BY <2>1, <3>2, <3>4
      <3>6. taken[t] + Len(repQ'[t]) + InService(t)' = next
        BY <2>1, <2>2, <3>1, <3>5
      <3> QED
        BY <2>2, <2>3, <3>2, <3>4, <3>6
    <2>5. CASE t # s
      <3>1. InService(t) = 0 /\ repQ'[t] = repQ[t]
        BY <1>1, <2>5 DEF InService, TypeOK
      <3>2. taken[t] + Len(repQ'[t]) + InService(t)' = next
        BY <2>2, <3>1
      <3> QED
        BY <2>2, <2>3, <3>1, <3>2
    <2> QED
      BY <2>4, <2>5
  <1> QED
    BY <1>1, <1>2, <1>3, <1>4

\* A new call of an SMIO preserves the invariant.
LEMMA CallIInv ==
    ASSUME IInv, NEW s \in Socks, NEW op \in Ops, NEW o \in Offs,
           NEW n \in Sizes, NEW w \in Words, Call(s, op, o, n, w)
    PROVE  IInv'
  <1> USE DEF IInv
  <1>1. /\ TypeOK'
        /\ sockOpen[s] /\ ~Waiting(s)
        /\ issued' = [issued EXCEPT ![s] = @ + 1]
        /\ UNCHANGED <<devVars, job, repQ, sockOpen, taken, timeouts, result>>
    BY CallEffect
  <1>2. PICK q \in Request :
          /\ q.id = issued[s] + 1
          /\ call' = [call EXCEPT ![s] = q]
          /\ reqQ' = [reqQ EXCEPT ![s] = Append(@, q)]
    BY CallEffect
  <1>3. /\ issued'[s] = issued[s] + 1 /\ call'[s] = q /\ Waiting(s)'
        /\ \A t \in Socks \ {s} : /\ issued'[t] = issued[t] /\ call'[t] = call[t]
                                  /\ reqQ'[t] = reqQ[t]
        /\ reqQ'[s] = Append(reqQ[s], q)
    BY <1>1, <1>2, WaitingIsRequest DEF TypeOK, Waiting, Request, Ops
  <1>4. CallIsNewest'
    BY <1>2, <1>3 DEF CallIsNewest, Waiting
  <1>5. ClosedIsQuiet' /\ JobHasSock' /\ AnswerLag'
    BY <1>1, <1>3 DEF ClosedIsQuiet, JobHasSock, AnswerLag, Waiting
  <1>6. LagIsTimeouts'
    <2> SUFFICES ASSUME NEW t \in Socks
                 PROVE  issued'[t] = taken[t] + timeouts[t] + Blocked(t)'
      BY <1>1 DEF LagIsTimeouts
    <2>1. taken[t] \in Nat /\ timeouts[t] \in Nat /\ issued[t] \in Nat
      BY DEF TypeOK
    <2>2. issued[t] = taken[t] + timeouts[t] + Blocked(t)
      BY DEF LagIsTimeouts
    <2>3. CASE t = s
      <3>1. Blocked(t) = 0 /\ Blocked(t)' = 1
        BY <1>1, <1>3, <2>3 DEF Blocked
      <3> QED
        BY <1>3, <2>1, <2>2, <2>3, <3>1
    <2>4. CASE t # s
      <3>1. Blocked(t)' = Blocked(t) /\ issued'[t] = issued[t]
        BY <1>3, <2>4 DEF Blocked, Waiting
      <3> QED
        BY <2>2, <3>1
    <2> QED
      BY <2>3, <2>4
  <1>7. ReplyOrder'
    <2> SUFFICES ASSUME NEW t \in Socks, sockOpen[t]
                 PROVE  LET next == taken[t] + Len(repQ[t]) + InService(t) IN
                        /\ Consecutive(repQ[t], taken[t])
                        /\ job.sock = t => job.reply.id = next
                        /\ Consecutive(reqQ'[t], next)
                        /\ issued'[t] = next + Len(reqQ'[t])
      BY <1>1 DEF ReplyOrder, InService
    <2> DEFINE next == taken[t] + Len(repQ[t]) + InService(t)
    <2>1. /\ Consecutive(repQ[t], taken[t])
          /\ job.sock = t => job.reply.id = next
          /\ Consecutive(reqQ[t], next)
          /\ issued[t] = next + Len(reqQ[t])
      BY DEF ReplyOrder
    <2>2. next \in Nat /\ reqQ[t] \in Seq(Request) /\ Len(reqQ[t]) \in Nat
      <3>1. /\ taken[t] \in Nat /\ repQ[t] \in Seq(Reply) /\ reqQ[t] \in Seq(Request)
            /\ InService(t) \in Nat
        BY DEF TypeOK, InService
      <3> QED
        BY <3>1
    <2> HIDE DEF next
    <2>3. CASE t = s
      <3>1. q.id = next + Len(reqQ[t]) + 1
        BY <1>2, <2>1, <2>3
      <3>2. /\ Consecutive(Append(reqQ[t], q), next)
            /\ Len(Append(reqQ[t], q)) = Len(reqQ[t]) + 1
        BY <2>1, <2>2, <3>1, ConsecutiveAppend
      <3>3. issued'[t] = next + Len(Append(reqQ[t], q))
        BY <1>3, <2>1, <2>2, <2>3, <3>2
      <3> QED
        BY <1>3, <2>1, <2>3, <3>2, <3>3 DEF next
    <2>4. CASE t # s
      BY <1>3, <2>1, <2>4 DEF next
    <2> QED
      BY <2>3, <2>4
  <1> QED
    BY <1>1, <1>4, <1>5, <1>6, <1>7

\* Receiving a reply, its own or a late one, preserves the invariant.
LEMMA RecvIInv ==
    ASSUME IInv, NEW s \in Socks, Recv(s)
    PROVE  IInv'
  <1> USE DEF IInv
  <1>1. /\ TypeOK'
        /\ Waiting(s) /\ repQ[s] # <<>>
        /\ result' = [result EXCEPT ![s] = result'[s]]
        /\ result'[s].id = call[s].id
        /\ result'[s].of = Head(repQ[s]).id
        /\ result'[s].late = timeouts[s]
        /\ call' = [call EXCEPT ![s] = NoCall]
        /\ repQ' = [repQ EXCEPT ![s] = Tail(@)]
        /\ taken' = [taken EXCEPT ![s] = @ + 1]
        /\ UNCHANGED <<devVars, reqQ, job, sockOpen, issued, timeouts>>
    BY RecvEffect
  <1>2. /\ taken'[s] = taken[s] + 1 /\ repQ'[s] = Tail(repQ[s]) /\ ~Waiting(s)'
        /\ \A t \in Socks \ {s} : /\ taken'[t] = taken[t] /\ repQ'[t] = repQ[t]
                                  /\ call'[t] = call[t] /\ result'[t] = result[t]
    BY <1>1 DEF TypeOK, Waiting, NoCall
  <1>3. sockOpen[s]
    BY <1>1 DEF ClosedIsQuiet
  <1>4. CallIsNewest' /\ ClosedIsQuiet' /\ JobHasSock'
    BY <1>1, <1>2, <1>3 DEF CallIsNewest, ClosedIsQuiet, JobHasSock, Waiting
  <1>5. /\ taken[s] \in Nat /\ timeouts[s] \in Nat /\ issued[s] \in Nat
        /\ repQ[s] \in Seq(Reply) /\ Len(repQ[s]) \in Nat
        /\ Consecutive(repQ[s], taken[s])
    BY <1>3 DEF TypeOK, ReplyOrder
  <1>6. /\ Head(repQ[s]).id = taken[s] + 1
        /\ Consecutive(Tail(repQ[s]), taken[s] + 1)
        /\ Len(Tail(repQ[s])) = Len(repQ[s]) - 1
        /\ Len(Tail(repQ[s])) \in Nat
    BY <1>1, <1>5, ConsecutiveTail
  <1>7. issued[s] = taken[s] + 1 + timeouts[s]
    <2>1. Blocked(s) = 1
      BY <1>1 DEF Blocked
    <2> QED
      BY <1>5, <2>1 DEF LagIsTimeouts
  <1>8. LagIsTimeouts'
    <2> SUFFICES ASSUME NEW t \in Socks
                 PROVE  issued[t] = taken'[t] + timeouts[t] + Blocked(t)'
      BY <1>1 DEF LagIsTimeouts
    <2>1. CASE t = s
      <3>1. Blocked(t)' = 0
        BY <1>2, <2>1 DEF Blocked
      <3> QED
        BY <1>2, <1>5, <1>7, <2>1, <3>1
    <2>2. CASE t # s
      <3>1. Blocked(t)' = Blocked(t) /\ taken'[t] = taken[t]
        BY <1>2, <2>2 DEF Blocked, Waiting
      <3> QED
        BY <3>1 DEF LagIsTimeouts
    <2> QED
      BY <2>1, <2>2
  <1>9. AnswerLag'
    <2> SUFFICES ASSUME NEW t \in Socks, result'[t].of # 0
                 PROVE  result'[t].id = result'[t].of + result'[t].late
      BY DEF AnswerLag
    <2>1. CASE t = s
      <3>1. result'[s].id = issued[s]
        BY <1>1 DEF CallIsNewest
      <3> QED
        BY <1>1, <1>5, <1>6, <1>7, <2>1, <3>1
    <2>2. CASE t # s
      BY <1>2, <2>2 DEF AnswerLag
    <2> QED
      BY <2>1, <2>2
  <1>10. ReplyOrder'
    <2> SUFFICES ASSUME NEW t \in Socks, sockOpen[t]
                 PROVE  LET next == taken'[t] + Len(repQ'[t]) + InService(t) IN
                        /\ Consecutive(repQ'[t], taken'[t])
                        /\ job.sock = t => job.reply.id = next
                        /\ Consecutive(reqQ[t], next)
                        /\ issued[t] = next + Len(reqQ[t])
      BY <1>1 DEF ReplyOrder, InService
    <2> DEFINE next == taken[t] + Len(repQ[t]) + InService(t)
    <2>1. /\ Consecutive(repQ[t], taken[t])
          /\ job.sock = t => job.reply.id = next
          /\ Consecutive(reqQ[t], next)
          /\ issued[t] = next + Len(reqQ[t])
      BY DEF ReplyOrder
    <2>2. CASE t = s
      <3>1. taken[s] + Len(repQ[s]) = taken[s] + 1 + Len(Tail(repQ[s]))
        BY <1>5, <1>6, MoveOne
      <3>2. taken'[t] + Len(repQ'[t]) + InService(t) = next
        BY <1>2, <2>2, <3>1
      <3>3. Consecutive(repQ'[t], taken'[t])
        BY <1>2, <1>6, <2>2
      <3> QED
        BY <2>1, <3>2, <3>3
    <2>3. CASE t # s
      BY <1>2, <2>1, <2>3
    <2> QED
      BY <2>2, <2>3
  <1> QED
    BY <1>1, <1>4, <1>8, <1>9, <1>10

\* Giving up on a reply preserves the invariant.
LEMMA TimeoutIInv ==
    ASSUME IInv, NEW s \in Socks, Timeout(s)
    PROVE  IInv'
  <1> USE DEF IInv
  <1>1. /\ TypeOK'
        /\ Waiting(s)
        /\ result' = [result EXCEPT ![s] = result'[s]]
        /\ result'[s].of = 0
        /\ call' = [call EXCEPT ![s] = NoCall]
        /\ timeouts' = [timeouts EXCEPT ![s] = @ + 1]
        /\ UNCHANGED <<devVars, reqQ, job, repQ, sockOpen, issued, taken>>
    BY TimeoutEffect
  <1>2. /\ timeouts'[s] = timeouts[s] + 1 /\ ~Waiting(s)'
        /\ \A t \in Socks \ {s} : /\ timeouts'[t] = timeouts[t]
                                  /\ call'[t] = call[t] /\ result'[t] = result[t]
    BY <1>1 DEF TypeOK, Waiting, NoCall
  <1>3. CallIsNewest' /\ ClosedIsQuiet' /\ JobHasSock'
    BY <1>1, <1>2 DEF CallIsNewest, ClosedIsQuiet, JobHasSock, Waiting
  <1>4. ReplyOrder'
    BY <1>1 DEF ReplyOrder, InService
  <1>5. AnswerLag'
    BY <1>1, <1>2 DEF AnswerLag
  <1>6. LagIsTimeouts'
    <2> SUFFICES ASSUME NEW t \in Socks
                 PROVE  issued[t] = taken[t] + timeouts'[t] + Blocked(t)'
      BY <1>1 DEF LagIsTimeouts
    <2>1. taken[t] \in Nat /\ timeouts[t] \in Nat /\ issued[t] \in Nat
      BY DEF TypeOK
    <2>2. issued[t] = taken[t] + timeouts[t] + Blocked(t)
      BY DEF LagIsTimeouts
    <2>3. CASE t = s
      <3>1. Blocked(t) = 1 /\ Blocked(t)' = 0
        BY <1>1, <1>2, <2>3 DEF Blocked
      <3> QED
        BY <1>2, <2>1, <2>2, <2>3, <3>1
    <2>4. CASE t # s
      <3>1. Blocked(t)' = Blocked(t) /\ timeouts'[t] = timeouts[t]
        BY <1>2, <2>4 DEF Blocked, Waiting
      <3> QED
        BY <2>2, <3>1
    <2> QED
      BY <2>3, <2>4
  <1> QED
    BY <1>1, <1>3, <1>4, <1>5, <1>6

\* Closing a socket preserves the invariant.
LEMMA CloseIInv ==
    ASSUME IInv, NEW s \in Socks, Close(s)
    PROVE  IInv'
  <1> USE DEF IInv
  <1>1. /\ TypeOK'
        /\ ~Waiting(s)
        /\ sockOpen' = [sockOpen EXCEPT ![s] = FALSE]
        /\ repQ' = [repQ EXCEPT ![s] = <<>>]
        /\ UNCHANGED <<devVars, call, reqQ, job, histVars, result>>
    BY CloseEffect
  <1>2. /\ ~sockOpen'[s] /\ repQ'[s] = <<>>
        /\ \A t \in Socks \ {s} : sockOpen'[t] = sockOpen[t] /\ repQ'[t] = repQ[t]
    BY <1>1 DEF TypeOK
  <1>3. CallIsNewest' /\ LagIsTimeouts' /\ AnswerLag' /\ JobHasSock'
    BY <1>1 DEF CallIsNewest, LagIsTimeouts, AnswerLag, JobHasSock,
                Waiting, Blocked, histVars
  <1>4. ClosedIsQuiet'
    BY <1>1, <1>2 DEF ClosedIsQuiet, Waiting
  <1>5. ReplyOrder'
    BY <1>1, <1>2 DEF ReplyOrder, InService, histVars
  <1> QED
    BY <1>1, <1>3, <1>4, <1>5

-----------------------------------------------------------------------------
\* The strengthened invariant holds in every behaviour of the channel, for any
\* number of sockets and calls.
THEOREM ChannelInvariant == Spec => []IInv
  <1>1. IInv /\ [Next]_vars => IInv'
    <2> SUFFICES ASSUME IInv, [Next]_vars PROVE IInv'
      OBVIOUS
    <2>1. CASE SendReply
      BY <2>1, SendReplyIInv
    <2>2. CASE \E s \in Socks : Serve(s) \/ Recv(s) \/ Timeout(s) \/ Close(s)
      BY <2>2, ServeIInv, RecvIInv, TimeoutIInv, CloseIInv
    <2>3. CASE \E s \in Socks : AnyCall(s)
      BY <2>3, AnyCallIsCall, CallIInv
    <2>4. CASE UNCHANGED vars
      BY <2>4, StutterIInv
    <2> QED
      BY <2>1, <2>2, <2>3, <2>4 DEF Next, ChannelNext
  <1> QED
    BY <1>1, InitIInv, PTL DEF Spec

\* The variables keep their types: in particular no reply carries a negative
\* code, and every word fits in 32 bits.
THEOREM ChannelTypeCorrect == Spec => []TypeOK
  <1>1. IInv => TypeOK
    BY DEF IInv
  <1> QED
    BY <1>1, ChannelInvariant, PTL

\* DEVIO answers the requests of an open socket in their order, each once.
THEOREM RepliesInOrder == Spec => []ReplyOrder
  <1>1. IInv => ReplyOrder
    BY DEF IInv
  <1> QED
    BY <1>1, ChannelInvariant, PTL

\* Each timed-out call leaves one reply owed to the socket, and the client code
\* never makes up for it.
THEOREM EveryTimeoutLags == Spec => []LagIsTimeouts
  <1>1. IInv => LagIsTimeouts
    BY DEF IInv
  <1> QED
    BY <1>1, ChannelInvariant, PTL

\* A thsafe call uses the reply of the call made exactly as many calls earlier
\* as the socket had timeouts; without timeouts, its own reply.
THEOREM RepliesMatchWithoutTimeouts == Spec => []AnswerLag
  <1>1. IInv => AnswerLag
    BY DEF IInv
  <1> QED
    BY <1>1, ChannelInvariant, PTL

-----------------------------------------------------------------------------
(* Sockets on which no call has timed out. *)

\* The request DEVIO has still to take is the one the thread is blocked in.
InStep ==
    \A s \in Socks : sockOpen[s] /\ timeouts[s] = 0 /\ reqQ[s] # <<>>
                     => Head(reqQ[s]) = call[s]

\* A queue is empty if its length is 0, and what is left of a queue of one is.
LEMMA EmptyQueue ==
    ASSUME NEW S, NEW q \in Seq(S)
    PROVE  /\ Len(q) = 0 <=> q = <<>>
           /\ Len(q) = 1 => Tail(q) = <<>> /\ q # <<>>
           /\ Len(q) \in Nat
           /\ \A x \in S : Append(<<>>, x) # <<>> /\ Head(Append(<<>>, x)) = x
  <1>1. \A t \in Seq(S) : Len(t) \in Nat /\ (Len(t) = 0 <=> t = <<>>)
    OBVIOUS
  <1>2. ASSUME Len(q) = 1 PROVE Tail(q) = <<>> /\ q # <<>>
    <2>1. q # <<>>
      BY <1>2
    <2>2. Tail(q) \in Seq(S) /\ Len(Tail(q)) = 0
      BY <1>2, <2>1
    <2>3. Tail(q) = <<>>
      BY <1>1, <2>2, Zenon
    <2> QED
      BY <2>1, <2>3
  <1>3. ASSUME NEW x \in S
        PROVE  Append(<<>>, x) # <<>> /\ Head(Append(<<>>, x)) = x
    <2> DEFINE e == <<>>  y == Append(e, x)
    <2>1. e \in Seq(S) /\ Len(e) = 0
      OBVIOUS
    <2> HIDE DEF e
    <2>2. y \in Seq(S) /\ Len(y) = 1 /\ y[1] = x
      BY <2>1
    <2>3. y # <<>> /\ Head(y) = y[1]
      BY <2>2
    <2> QED
      BY <2>2, <2>3 DEF e
  <1> QED
    BY <1>1, <1>2, <1>3

\* The only message between such a socket and DEVIO is the one of the call the
\* thread is blocked in: a request, DEVIO's work on it, or its reply.
LEMMA OneInFlight ==
    ASSUME IInv, NEW s \in Socks, sockOpen[s], timeouts[s] = 0
    PROVE  /\ ~Waiting(s) => reqQ[s] = <<>> /\ job.sock # s /\ repQ[s] = <<>>
           /\ Waiting(s) =>
                \/ Len(reqQ[s]) = 1 /\ job.sock # s /\ repQ[s] = <<>>
                \/ reqQ[s] = <<>> /\ job.sock = s /\ repQ[s] = <<>>
                \/ reqQ[s] = <<>> /\ job.sock # s /\ Len(repQ[s]) = 1
  <1>1. /\ reqQ[s] \in Seq(Request) /\ repQ[s] \in Seq(Reply)
        /\ taken[s] \in Nat /\ issued[s] \in Nat
    BY DEF IInv, TypeOK
  <1>2. /\ Len(reqQ[s]) \in Nat /\ Len(repQ[s]) \in Nat
        /\ Len(reqQ[s]) = 0 <=> reqQ[s] = <<>>
        /\ Len(repQ[s]) = 0 <=> repQ[s] = <<>>
    BY <1>1, EmptyQueue
  <1> DEFINE a == Len(repQ[s])  b == InService(s)  c == Len(reqQ[s])
  <1>3. issued[s] = taken[s] + a + b + c
    BY DEF IInv, ReplyOrder
  <1>4. issued[s] = taken[s] + timeouts[s] + Blocked(s)
    BY DEF IInv, LagIsTimeouts
  <1>5. (b = 1 /\ job.sock = s) \/ (b = 0 /\ job.sock # s)
    BY DEF InService
  <1>6. CASE ~Waiting(s)
    <2>1. Blocked(s) = 0
      BY <1>6 DEF Blocked
    <2>2. a \in Nat /\ c \in Nat /\ b \in Nat
      BY <1>2, <1>5
    <2> HIDE DEF a, b, c
    <2>3. a = 0 /\ b = 0 /\ c = 0
      BY <1>1, <1>3, <1>4, <2>1, <2>2
    <2> QED
      BY <1>2, <1>5, <1>6, <2>3 DEF a, c
  <1>7. CASE Waiting(s)
    <2>1. Blocked(s) = 1
      BY <1>7 DEF Blocked
    <2>2. a \in Nat /\ c \in Nat /\ b \in Nat
      BY <1>2, <1>5
    <2> HIDE DEF a, b, c
    <2>3. \/ a = 0 /\ b = 0 /\ c = 1
          \/ a = 0 /\ b = 1 /\ c = 0
          \/ a = 1 /\ b = 0 /\ c = 0
      BY <1>1, <1>3, <1>4, <2>1, <2>2
    <2> QED
      BY <1>2, <1>5, <1>7, <2>3 DEF a, c
  <1> QED
    BY <1>6, <1>7

\* A call is made with nothing in flight, so that its request is the first.
LEMMA CallInStep ==
    ASSUME IInv, InStep, NEW s \in Socks, NEW op \in Ops, NEW o \in Offs,
           NEW n \in Sizes, NEW w \in Words, Call(s, op, o, n, w)
    PROVE  InStep'
  <1>1. /\ sockOpen[s] /\ ~Waiting(s)
        /\ UNCHANGED <<devVars, job, repQ, sockOpen, taken, timeouts, result>>
    BY CallEffect DEF IInv
  <1>2. PICK q \in Request : /\ call' = [call EXCEPT ![s] = q]
                             /\ reqQ' = [reqQ EXCEPT ![s] = Append(@, q)]
    BY CallEffect DEF IInv
  <1> SUFFICES ASSUME NEW t \in Socks, sockOpen[t], timeouts[t] = 0, reqQ'[t] # <<>>
               PROVE  Head(reqQ'[t]) = call'[t]
    BY <1>1 DEF InStep
  <1>3. CASE t = s
    <2>1. reqQ[s] = <<>>
      BY <1>1, <1>3, OneInFlight
    <2>2. reqQ'[s] = Append(<<>>, q) /\ call'[s] = q
      BY <1>2, <2>1 DEF IInv, TypeOK
    <2>3. Head(Append(<<>>, q)) = q
      BY EmptyQueue
    <2> QED
      BY <1>3, <2>2, <2>3
  <1>4. CASE t # s
    BY <1>2, <1>4 DEF IInv, TypeOK, InStep
  <1> QED
    BY <1>3, <1>4

\* The steps of the channel leave at most the request that was there.
LEMMA ChannelInStep ==
    ASSUME IInv, InStep, ChannelNext
    PROVE  InStep'
  <1>1. CASE SendReply
    BY <1>1 DEF SendReply, InStep, histVars
  <1>2. ASSUME NEW s \in Socks, Serve(s)
        PROVE  InStep'
    <2>1. /\ job = NoJob /\ reqQ[s] # <<>>
          /\ reqQ' = [reqQ EXCEPT ![s] = Tail(@)]
          /\ UNCHANGED <<call, repQ, sockOpen, histVars, result>>
      BY <1>2, ServeEffect DEF IInv
    <2> SUFFICES ASSUME NEW t \in Socks, sockOpen[t], timeouts[t] = 0, reqQ'[t] # <<>>
                 PROVE  Head(reqQ'[t]) = call[t]
      BY <2>1 DEF InStep, histVars
    <2>2. CASE t = s
      <3>1. Len(reqQ[s]) = 1
        BY <2>1, <2>2, OneInFlight
      <3>2. reqQ[s] \in Seq(Request) /\ reqQ'[s] = Tail(reqQ[s])
        BY <2>1 DEF IInv, TypeOK
      <3>3. Tail(reqQ[s]) = <<>>
        BY <3>1, <3>2, EmptyQueue
      <3> QED
        BY <2>2, <3>2, <3>3
    <2>3. CASE t # s
      BY <2>1, <2>3 DEF IInv, TypeOK, InStep
    <2> QED
      BY <2>2, <2>3
  <1>3. ASSUME NEW s \in Socks, Recv(s)
        PROVE  InStep'
    <2>1. /\ Waiting(s) /\ repQ[s] # <<>>
          /\ call' = [call EXCEPT ![s] = NoCall]
          /\ UNCHANGED <<devVars, reqQ, job, sockOpen, issued, timeouts>>
      BY <1>3, RecvEffect DEF IInv
    <2> SUFFICES ASSUME NEW t \in Socks, sockOpen[t], timeouts[t] = 0, reqQ[t] # <<>>
                 PROVE  Head(reqQ[t]) = call'[t]
      BY <2>1 DEF InStep
    <2>2. t # s
      <3>1. reqQ[t] \in Seq(Request) /\ repQ[t] \in Seq(Reply)
        BY DEF IInv, TypeOK
      <3> QED
        BY <2>1, <3>1, OneInFlight, EmptyQueue
    <2> QED
      BY <2>1, <2>2 DEF IInv, TypeOK, InStep
  <1>4. ASSUME NEW s \in Socks, Timeout(s)
        PROVE  InStep'
    <2>1. /\ timeouts' = [timeouts EXCEPT ![s] = @ + 1]
          /\ call' = [call EXCEPT ![s] = NoCall]
          /\ UNCHANGED <<devVars, reqQ, job, repQ, sockOpen, issued, taken>>
      BY <1>4, TimeoutEffect DEF IInv
    <2> SUFFICES ASSUME NEW t \in Socks, sockOpen[t], timeouts'[t] = 0, reqQ[t] # <<>>
                 PROVE  Head(reqQ[t]) = call'[t]
      BY <2>1 DEF InStep
    <2>2. t # s /\ timeouts[t] = 0
      BY <2>1 DEF IInv, TypeOK
    <2> QED
      BY <2>1, <2>2 DEF IInv, TypeOK, InStep
  <1>5. ASSUME NEW s \in Socks, Close(s)
        PROVE  InStep'
    <2>1. /\ sockOpen' = [sockOpen EXCEPT ![s] = FALSE]
          /\ UNCHANGED <<devVars, call, reqQ, job, histVars, result>>
      BY <1>5, CloseEffect DEF IInv
    <2> QED
      BY <2>1 DEF IInv, TypeOK, InStep, histVars
  <1> QED
    BY <1>1, <1>2, <1>3, <1>4, <1>5 DEF ChannelNext

-----------------------------------------------------------------------------
(* The channel implements RegisterService: every step of the channel is a   *)
(* step of the service or changes nothing that a socket without timeouts    *)
(* sees.                                                                    *)

RInv == IInv /\ InStep

\* What the service shows of all sockets but s.
OthersKept(s) ==
    \A t \in Socks \ {s} : /\ PhaseOf(t)' = PhaseOf(t)
                           /\ AccessOf(t)' = AccessOf(t)
                           /\ OutcomeOf(t)' = OutcomeOf(t)

-----------------------------------------------------------------------------
\* A socket looks the same after a step that changes neither its own state nor
\* whether DEVIO works for it.
LEMMA LooksTheSame ==
    ASSUME NEW t \in Socks,
           sockOpen'[t] = sockOpen[t], timeouts'[t] = timeouts[t],
           call'[t] = call[t], repQ'[t] = repQ[t], result'[t] = result[t],
           job' = job \/ (job.sock # t /\ job'.sock # t)
    PROVE  /\ PhaseOf(t)' = PhaseOf(t)
           /\ AccessOf(t)' = AccessOf(t)
           /\ OutcomeOf(t)' = OutcomeOf(t)
  <1>1. /\ Attached(t)' <=> Attached(t)
        /\ Waiting(t)' <=> Waiting(t)
        /\ Decided(t)' <=> Decided(t)
        /\ OwnReply(t)' = OwnReply(t)
    BY DEF Attached, Waiting, Decided, OwnReply
  <1>2. PhaseOf(t)' = PhaseOf(t)
    BY <1>1 DEF PhaseOf
  <1>3. AccessOf(t)' = AccessOf(t)
    BY <1>1 DEF AccessOf
  <1>4. CallReturn(call[t], OwnReply(t))' = CallReturn(call[t], OwnReply(t))
    BY <1>1 DEF CallReturn, RecvRw
  <1> QED
    BY <1>1, <1>2, <1>3, <1>4 DEF OutcomeOf

\* The maps of the service change at the socket of the step only.
LEMMA MapsChangeAt ==
    ASSUME NEW s \in Socks, OthersKept(s)
    PROVE  /\ PhaseMap' = [PhaseMap EXCEPT ![s] = PhaseOf(s)']
           /\ AccessMap' = [AccessMap EXCEPT ![s] = AccessOf(s)']
           /\ OutcomeMap' = [OutcomeMap EXCEPT ![s] = OutcomeOf(s)']
           /\ PhaseMap[s] = PhaseOf(s) /\ AccessMap[s] = AccessOf(s)
           /\ OutcomeMap[s] = OutcomeOf(s) /\ OutcomeMap'[s] = OutcomeOf(s)'
  BY DEF OthersKept, PhaseMap, AccessMap, OutcomeMap

\* A socket is detached for the service once a call timed out or it was closed.
LEMMA DetachedLook ==
    ASSUME NEW s \in Socks, ~Attached(s)
    PROVE  /\ PhaseOf(s) = "detached"
           /\ AccessOf(s) = Abstract!NoAccess
           /\ OutcomeOf(s) = Abstract!NoOutcome
  BY DEF PhaseOf, AccessOf, OutcomeOf, Abstract!NoAccess, Abstract!NoOutcome

\* A step that detaches a socket, or finds it detached, is a step of the service
\* or a stutter.
LEMMA DetachStep ==
    ASSUME NEW s \in Socks, OthersKept(s), UNCHANGED regs, ~Attached(s)'
    PROVE  [Abstract!Next]_Abstract!vars
  <1>1. /\ PhaseOf(s)' = "detached"
        /\ AccessOf(s)' = Abstract!NoAccess
        /\ OutcomeOf(s)' = Abstract!NoOutcome
    BY DEF PhaseOf, AccessOf, OutcomeOf, Abstract!NoAccess, Abstract!NoOutcome
  <1>2. Abstract!Detach(s)
    BY <1>1, MapsChangeAt DEF Abstract!Detach
  <1> QED
    BY <1>2 DEF Abstract!Next

-----------------------------------------------------------------------------
(* One lemma per action of the channel. *)

\* smio_destroy detaches its socket.
LEMMA CloseView ==
    ASSUME RInv, NEW s \in Socks, Close(s)
    PROVE  OthersKept(s) /\ UNCHANGED regs /\ ~Attached(s)'
  <1>1. /\ sockOpen' = [sockOpen EXCEPT ![s] = FALSE]
        /\ repQ' = [repQ EXCEPT ![s] = <<>>]
        /\ UNCHANGED <<devVars, call, reqQ, job, histVars, result>>
    BY CloseEffect DEF RInv, IInv
  <1>2. OthersKept(s)
    BY <1>1, LooksTheSame DEF OthersKept, RInv, IInv, TypeOK, histVars
  <1>3. ~Attached(s)' /\ UNCHANGED regs
    BY <1>1 DEF Attached, devVars, RInv, IInv, TypeOK
  <1> QED
    BY <1>2, <1>3

\* So does the receive timeout of a socket.
LEMMA TimeoutView ==
    ASSUME RInv, NEW s \in Socks, Timeout(s)
    PROVE  OthersKept(s) /\ UNCHANGED regs /\ ~Attached(s)'
  <1>1. /\ result' = [result EXCEPT ![s] = result'[s]]
        /\ call' = [call EXCEPT ![s] = NoCall]
        /\ timeouts' = [timeouts EXCEPT ![s] = @ + 1]
        /\ UNCHANGED <<devVars, reqQ, job, repQ, sockOpen, issued, taken>>
    BY TimeoutEffect DEF RInv, IInv
  <1>2. \A t \in Socks \ {s} : result'[t] = result[t] /\ call'[t] = call[t]
                               /\ timeouts'[t] = timeouts[t]
    BY <1>1 DEF RInv, IInv, TypeOK
  <1>3. OthersKept(s)
    BY <1>1, <1>2, LooksTheSame DEF OthersKept
  <1>4. ~Attached(s)' /\ UNCHANGED regs
    BY <1>1 DEF Attached, devVars, RInv, IInv, TypeOK
  <1> QED
    BY <1>3, <1>4

\* What is seen of a call: on a socket in step it issues an access.
LEMMA CallView ==
    ASSUME RInv, NEW s \in Socks, NEW op \in Ops, NEW o \in Offs,
           NEW n \in Sizes, NEW w \in Words, Call(s, op, o, n, w)
    PROVE  /\ OthersKept(s) /\ UNCHANGED regs
           /\ Attached(s)' <=> Attached(s)
           /\ Attached(s) =>
                /\ PhaseOf(s) = "idle" /\ PhaseOf(s)' = "issued"
                /\ AccessOf(s)' = [op |-> op, offs |-> o, size |-> n, word |-> w]
                /\ OutcomeOf(s)' = Abstract!NoOutcome
  <1> DEFINE q == [id |-> issued[s] + 1, op |-> op, offs |-> o, size |-> n, word |-> w]
  <1>1. /\ sockOpen[s] /\ ~Waiting(s)
        /\ call' = [call EXCEPT ![s] = q]
        /\ UNCHANGED <<devVars, job, repQ, sockOpen, taken, timeouts, result>>
    BY DEF Call
  <1>2. call'[s] = q /\ \A t \in Socks \ {s} : call'[t] = call[t]
    BY <1>1 DEF RInv, IInv, TypeOK
  <1>3. OthersKept(s)
    BY <1>1, <1>2, LooksTheSame DEF OthersKept
  <1>4. UNCHANGED regs
    BY <1>1 DEF devVars
  <1>5. Attached(s)' <=> Attached(s)
    BY <1>1 DEF Attached
  <1>6. ASSUME Attached(s)
        PROVE  /\ PhaseOf(s) = "idle" /\ PhaseOf(s)' = "issued"
               /\ AccessOf(s)' = [op |-> op, offs |-> o, size |-> n, word |-> w]
               /\ OutcomeOf(s)' = Abstract!NoOutcome
    <2>1. job.sock # s /\ repQ[s] = <<>>
      BY <1>1, <1>6, OneInFlight DEF Attached, RInv
    <2>2. Attached(s)' /\ Waiting(s)' /\ ~Decided(s)'
      <3>1. op # "none"
        BY DEF Ops
      <3> QED
        BY <1>1, <1>2, <1>6, <2>1, <3>1 DEF Attached, Waiting, Decided
    <2>3. PhaseOf(s) = "idle" /\ PhaseOf(s)' = "issued"
      BY <1>1, <1>6, <2>2 DEF PhaseOf
    <2>4. AccessOf(s)' = [op |-> op, offs |-> o, size |-> n, word |-> w]
      BY <1>2, <2>2 DEF AccessOf
    <2>5. OutcomeOf(s)' = Abstract!NoOutcome
      BY <2>3 DEF OutcomeOf, Abstract!NoOutcome
    <2> QED
      BY <2>3, <2>4, <2>5
  <1> QED
    BY <1>3, <1>4, <1>5, <1>6

\* A call is an access that is issued, or is not seen.
LEMMA CallRefines ==
    ASSUME RInv, NEW s \in Socks, NEW op \in Ops, NEW o \in Offs,
           NEW n \in Sizes, NEW w \in Words, Call(s, op, o, n, w)
    PROVE  [Abstract!Next]_Abstract!vars
  <1> DEFINE a == [op |-> op, offs |-> o, size |-> n, word |-> w]
  <1>1. /\ OthersKept(s) /\ UNCHANGED regs
        /\ Attached(s)' <=> Attached(s)
        /\ Attached(s) => /\ PhaseOf(s) = "idle" /\ PhaseOf(s)' = "issued"
                          /\ AccessOf(s)' = a
                          /\ OutcomeOf(s)' = Abstract!NoOutcome
    BY CallView
  <1>2. a \in Abstract!Access
    BY DEF Abstract!Access, Abstract!Words, Words, Ops
  <1> HIDE DEF a
  <1>3. CASE ~Attached(s)
    BY <1>1, <1>3, DetachStep
  <1>4. CASE Attached(s)
    <2>1. Abstract!Issue(s)
      BY <1>1, <1>2, <1>4, MapsChangeAt DEF Abstract!Issue
    <2> QED
      BY <2>1 DEF Abstract!Next
  <1> QED
    BY <1>3, <1>4

\* What is seen of a reply that is received: the call ends with the outcome that
\* DEVIO had computed.
LEMMA RecvView ==
    ASSUME RInv, NEW s \in Socks, Recv(s)
    PROVE  /\ OthersKept(s) /\ UNCHANGED regs
           /\ Attached(s)' <=> Attached(s)
           /\ Attached(s) =>
                /\ PhaseOf(s) = "done" /\ PhaseOf(s)' = "idle"
                /\ AccessOf(s)' = Abstract!NoAccess
                /\ OutcomeOf(s)' = OutcomeOf(s)
  <1> DEFINE m == Head(repQ[s])
  <1>1. /\ Waiting(s) /\ repQ[s] # <<>>
        /\ call' = [call EXCEPT ![s] = NoCall]
        /\ repQ' = [repQ EXCEPT ![s] = Tail(@)]
        /\ result' = [result EXCEPT ![s] = result'[s]]
        /\ UNCHANGED <<devVars, reqQ, job, sockOpen, issued, timeouts>>
    BY RecvEffect DEF RInv, IInv
  <1>2. result'[s].ret = CallReturn(call[s], m) /\ result'[s].word = m.word
    <2>1. Return(s, CallReturn(call[s], m), m) /\ result \in [Socks -> Result]
      BY DEF Recv, RInv, IInv, TypeOK
    <2> HIDE DEF m
    <2> QED
      BY <2>1 DEF Return
  <1>3. /\ call'[s] = NoCall
        /\ \A t \in Socks \ {s} : /\ call'[t] = call[t] /\ repQ'[t] = repQ[t]
                                  /\ result'[t] = result[t]
    BY <1>1 DEF RInv, IInv, TypeOK
  <1>4. OthersKept(s)
    BY <1>1, <1>3, LooksTheSame DEF OthersKept
  <1>5. UNCHANGED regs
    BY <1>1 DEF devVars
  <1>6. Attached(s)' <=> Attached(s)
    BY <1>1 DEF Attached
  <1>7. ASSUME Attached(s)
        PROVE  /\ PhaseOf(s) = "done" /\ PhaseOf(s)' = "idle"
               /\ AccessOf(s)' = Abstract!NoAccess
               /\ OutcomeOf(s)' = OutcomeOf(s)
    <2>1. job.sock # s
      BY <1>1, <1>7, OneInFlight DEF Attached, RInv
    <2>2. PhaseOf(s) = "done" /\ OwnReply(s) = m
      BY <1>1, <1>7, <2>1 DEF PhaseOf, Decided, OwnReply
    <2>3. Attached(s)' /\ ~Waiting(s)'
      BY <1>1, <1>3, <1>7 DEF Attached, Waiting, NoCall
    <2>4. PhaseOf(s)' = "idle" /\ AccessOf(s)' = Abstract!NoAccess
      BY <2>3 DEF PhaseOf, AccessOf, Abstract!NoAccess
    <2>5. OutcomeOf(s)' = OutcomeOf(s)
      BY <1>2, <2>2, <2>4 DEF OutcomeOf
    <2> QED
      BY <2>2, <2>4, <2>5
  <1> QED
    BY <1>4, <1>5, <1>6, <1>7

\* Receiving its own reply ends a call, a late one is not seen.
LEMMA RecvRefines ==
    ASSUME RInv, NEW s \in Socks, Recv(s)
    PROVE  [Abstract!Next]_Abstract!vars
  <1>1. CASE ~Attached(s)
    BY <1>1, RecvView, DetachStep
  <1>2. CASE Attached(s)
    <2>1. Abstract!Finish(s)
      BY <1>2, RecvView, MapsChangeAt
         DEF Abstract!Finish, PhaseMap, AccessMap, OutcomeMap, OthersKept
    <2> QED
      BY <2>1 DEF Abstract!Next
  <1> QED
    BY <1>1, <1>2

\* Nothing is seen of a reply that is sent.
LEMMA SendReplyView ==
    ASSUME RInv, SendReply, NEW t \in Socks
    PROVE  /\ PhaseOf(t)' = PhaseOf(t)
           /\ AccessOf(t)' = AccessOf(t)
           /\ OutcomeOf(t)' = OutcomeOf(t)
           /\ UNCHANGED regs
  <1> PICK s \in Socks : s = job.sock
    BY SendReplyEffect DEF RInv, IInv
  <1>1. /\ job' = NoJob
        /\ repQ' = IF sockOpen[s] THEN [repQ EXCEPT ![s] = Append(@, job.reply)] ELSE repQ
        /\ UNCHANGED <<devVars, call, reqQ, sockOpen, histVars, result>>
    BY SendReplyEffect DEF RInv, IInv
  <1>2. job'.sock # t
    BY <1>1, ThsafeAssumption DEF NoJob
  <1>3. UNCHANGED regs
    BY <1>1 DEF devVars
  <1>4. CASE t # s
    <2>1. repQ'[t] = repQ[t]
      BY <1>1, <1>4 DEF RInv, IInv, TypeOK
    <2> QED
      BY <1>1, <1>2, <1>3, <1>4, <2>1, LooksTheSame DEF histVars
  <1>5. CASE t = s /\ ~Attached(s)
    <2>1. ~Attached(s)'
      BY <1>1, <1>5 DEF Attached, histVars
    <2> QED
      BY <1>3, <1>5, <2>1 DEF PhaseOf, AccessOf, OutcomeOf
  <1>6. CASE t = s /\ Attached(s)
    <2>1. repQ[s] = <<>> /\ Waiting(s)
      BY <1>6, OneInFlight DEF Attached, RInv
    <2>2. job.reply \in Reply /\ repQ'[s] = Append(<<>>, job.reply)
      BY <1>1, <1>6, <2>1 DEF Attached, RInv, IInv, TypeOK
    <2>3. repQ'[s] # <<>> /\ Head(repQ'[s]) = job.reply
      BY <2>2, EmptyQueue
    <2>4. /\ Attached(s)' /\ Waiting(s)' /\ Decided(s)' /\ Decided(s)
          /\ OwnReply(s)' = OwnReply(s)
      BY <1>1, <1>2, <1>6, <2>1, <2>3 DEF Attached, Waiting, Decided, OwnReply, histVars
    <2>5. PhaseOf(s)' = PhaseOf(s) /\ AccessOf(s)' = AccessOf(s)
      BY <1>1, <1>6, <2>1, <2>4 DEF PhaseOf, AccessOf
    <2>6. CallReturn(call[s], OwnReply(s))' = CallReturn(call[s], OwnReply(s))
      BY <1>1, <2>4 DEF CallReturn, RecvRw
    <2>7. OutcomeOf(s)' = OutcomeOf(s)
      BY <1>1, <2>4, <2>5, <2>6 DEF OutcomeOf
    <2> QED
      BY <1>3, <1>6, <2>5, <2>7
  <1> QED
    BY <1>4, <1>5, <1>6

\* Sending a reply is a stutter.
LEMMA SendReplyRefines ==
    ASSUME RInv, SendReply
    PROVE  [Abstract!Next]_Abstract!vars
  <1>1. UNCHANGED regs
    BY SendReplyEffect DEF RInv, IInv, devVars
  <1> QED
    BY <1>1, SendReplyView DEF Abstract!vars, PhaseMap, AccessMap, OutcomeMap

-----------------------------------------------------------------------------
(* Serving a request: where the access takes effect. *)

\* CallReturn, op by op.
LEMMA CallReturnCases ==
    ASSUME NEW q \in Request, NEW m \in Reply
    PROVE  /\ q.op = "read" =>
                CallReturn(q, m) = IF m.code # 0 THEN -1
                                   ELSE IF m.len = 0 THEN 0
                                   ELSE IF m.len >= q.size THEN q.size ELSE -1
           /\ q.op = "write" /\ m.code = 0 /\ m.len = AckSize =>
                CallReturn(q, m) = m.word
           /\ q.op \in {"open", "release"} => CallReturn(q, m) \in {-1, 0}
  <1>1. m.len \in Nat /\ q.size \in Nat
    BY ThsafeAssumption DEF Request, Reply
  <1>2. CASE q.op = "read"
    BY <1>1, <1>2 DEF CallReturn, RecvRw
  <1>3. CASE q.op = "write"
    BY <1>1, <1>3 DEF CallReturn, RecvRw, AckSize
  <1>4. CASE q.op \in {"open", "release"}
    BY <1>4 DEF CallReturn
  <1> QED
    BY <1>2, <1>3, <1>4 DEF Request, Ops

\* A read that will return its size carries the register of this moment.
LEMMA ServerReadOutcome ==
    ASSUME TypeOK, NEW s \in Socks, NEW q \in Request, ServerRead(s, q)
    PROVE  /\ job'.reply \in Reply
           /\ CallReturn(q, job'.reply) \in {-1, 0, q.size}
           /\ CallReturn(q, job'.reply) = q.size => job'.reply.word = regs[q.offs]
           /\ q.op = "read" /\ UNCHANGED regs
  <1>1. PICK r \in LlioReturns(q) :
          job' = [sock |-> s, reply |-> ClientResponse(q, r, regs[q.offs])]
    BY DEF ServerRead
  <1>2. q.op = "read" /\ UNCHANGED regs
    BY DEF ServerRead, devVars
  <1>3. r \in Int /\ regs[q.offs] \in Words
    BY LlioReturnsType DEF TypeOK, Request
  <1>4. q.size \in Nat /\ q.size >= 4
    BY ThsafeAssumption DEF Request, AckSize
  <1> DEFINE w == regs[q.offs]  m == ClientResponse(q, r, w)
  <1>5. m \in Reply
    BY <1>3, ClientResponseType
  <1>6. /\ r <= 0 => m.len = 0
        /\ r > 0 => m.word = w
    BY <1>3 DEF ClientResponse
  <1>7. job'.reply = m
    BY <1>1
  <1> HIDE DEF m, w
  <1>8. CallReturn(q, m) = IF m.code # 0 THEN -1
                           ELSE IF m.len = 0 THEN 0
                           ELSE IF m.len >= q.size THEN q.size ELSE -1
    BY <1>2, <1>5, CallReturnCases
  <1>9. CallReturn(q, m) = q.size => m.word = w
    BY <1>3, <1>4, <1>6, <1>8
  <1> QED
    BY <1>2, <1>5, <1>7, <1>8, <1>9 DEF w

\* A write that will return its size has changed its register: no error code of
\* LLIO, read as an unsigned word, is a size.
LEMMA ServerWriteOutcome ==
    ASSUME TypeOK, NEW s \in Socks, NEW q \in Request, ServerWrite(s, q)
    PROVE  /\ job'.reply \in Reply
           /\ CallReturn(q, job'.reply) = job'.reply.word
           /\ \/ regs' = [regs EXCEPT ![q.offs] = q.word]
              \/ CallReturn(q, job'.reply) # q.size /\ UNCHANGED regs
           /\ q.op = "write"
  <1>1. PICK r \in LlioReturns(q) :
          /\ job' = [sock |-> s, reply |-> ClientResponse(q, AckSize, r % UIntMod)]
          /\ \/ regs' = [regs EXCEPT ![q.offs] = q.word]
             \/ r <= 0 /\ UNCHANGED regs
    BY DEF ServerWrite
  <1>2. q.op = "write"
    BY DEF ServerWrite
  <1>3. r % UIntMod \in Words /\ r \in Int
    BY LlioReturnsType
  <1>4. q.size \in Nat /\ q.size >= 4 /\ q.size + 1 < UIntMod /\ UIntMod \in Nat
    BY ThsafeAssumption DEF Request, AckSize
  <1> DEFINE w == r % UIntMod  m == ClientResponse(q, AckSize, w)
  <1>5. m \in Reply
    BY <1>3, ClientResponseType DEF AckSize
  <1>6. m.code = 0 /\ m.len = AckSize /\ m.word = w
    BY DEF ClientResponse, AckSize
  <1>7. job'.reply = m
    BY <1>1
  <1>8. r <= 0 => w # q.size
    <2> SUFFICES ASSUME r <= 0 PROVE w # q.size
      OBVIOUS
    <2>1. r = -1 \/ r = 0
      <3>1. ~IsBlock(q) /\ endpOpen => r \in {-1, q.size}
        BY DEF LlioReturns
      <3>2. ~endpOpen => r = -1
        BY DEF LlioReturns
      <3>3. endpOpen /\ IsBlock(q) => r \in {-1, 0} \cup {n \in Sizes : n <= q.size}
        BY DEF LlioReturns
      <3>4. \A n \in Sizes : n \in Nat /\ n >= 4
        BY ThsafeAssumption DEF AckSize
      <3> QED
        BY <1>3, <1>4, <3>1, <3>2, <3>3, <3>4
    <2>2. CASE r = 0
      BY <1>4, <2>2
    <2>3. CASE r = -1
      <3>1. (-1) % UIntMod = UIntMod - 1
        BY <1>4
      <3> QED
        BY <1>4, <2>3, <3>1
    <2> QED
      BY <2>1, <2>2, <2>3
  <1> HIDE DEF m, w
  <1>9. CallReturn(q, m) = m.word
    BY <1>2, <1>5, <1>6, CallReturnCases
  <1> QED
    BY <1>1, <1>2, <1>5, <1>6, <1>7, <1>8, <1>9

\* Opening and releasing the endpoint return 0 or an error.
LEMMA ServerOtherOutcome ==
    ASSUME TypeOK, NEW s \in Socks, NEW q \in Request,
           ServerOpen(s, q) \/ ServerRelease(s, q)
    PROVE  /\ job'.reply \in Reply
           /\ CallReturn(q, job'.reply) \in {-1, 0}
           /\ q.op \in {"open", "release"} /\ UNCHANGED regs
  <1>1. PICK r \in Int : job' = [sock |-> s, reply |-> ClientResponse(q, r, 0)]
    BY DEF ServerOpen, ServerRelease, AckSize
  <1>2. q.op \in {"open", "release"} /\ UNCHANGED regs
    BY DEF ServerOpen, ServerRelease, devVars
  <1>3. ClientResponse(q, r, 0) \in Reply
    BY ZeroWord, ClientResponseType
  <1>4. job'.reply = ClientResponse(q, r, 0)
    BY <1>1
  <1> QED
    BY <1>2, <1>3, <1>4, CallReturnCases

\* What is seen of a request that is served: the access of a socket in step takes
\* effect, and a register is only changed by a write to it.
LEMMA ServeView ==
    ASSUME RInv, NEW s \in Socks, Serve(s)
    PROVE  /\ OthersKept(s)
           /\ Attached(s)' <=> Attached(s)
           /\ Head(reqQ[s]) \in Request
           /\ \/ UNCHANGED regs
              \/ /\ Head(reqQ[s]).op = "write"
                 /\ regs' = [regs EXCEPT ![Head(reqQ[s]).offs] = Head(reqQ[s]).word]
           /\ Attached(s) =>
                /\ PhaseOf(s) = "issued" /\ PhaseOf(s)' = "done"
                /\ AccessOf(s)' = AccessOf(s)
                /\ Waiting(s) /\ Head(reqQ[s]) = call[s]
                /\ OutcomeOf(s)' \in Abstract!Outcome
                /\ \/ Abstract!ReadOutcome(AccessOf(s), OutcomeOf(s)')
                   \/ Abstract!WriteOutcome(AccessOf(s), OutcomeOf(s)')
                   \/ Abstract!OtherOutcome(AccessOf(s), OutcomeOf(s)')
  <1> PICK q \in Request : q = Head(reqQ[s])
    <2>1. reqQ[s] \in Seq(Request) /\ reqQ[s] # <<>>
      BY DEF Serve, RInv, IInv, TypeOK
    <2> QED
      BY <2>1
  <1>1. /\ TypeOK /\ job = NoJob /\ reqQ[s] # <<>> /\ job'.sock = s
        /\ UNCHANGED <<call, repQ, sockOpen, histVars, result>>
    BY ServeEffect DEF RInv, IInv
  <1>2. ServerRead(s, q) \/ ServerWrite(s, q) \/ ServerOpen(s, q) \/ ServerRelease(s, q)
    BY DEF Serve
  <1>3. \A t \in Socks : job.sock # t
    BY <1>1, ThsafeAssumption DEF NoJob
  <1>4. OthersKept(s)
    BY <1>1, <1>3, LooksTheSame DEF OthersKept, histVars
  <1>5. /\ Attached(s)' <=> Attached(s)
        /\ Waiting(s)' <=> Waiting(s)
    BY <1>1 DEF Attached, Waiting, histVars
  <1>6. q.offs \in Offs /\ q.word \in Words /\ q.size \in Sizes
    BY DEF Request
  <1>7. \/ UNCHANGED regs
        \/ q.op = "write" /\ regs' = [regs EXCEPT ![q.offs] = q.word]
    BY <1>1, <1>2, ServerReadOutcome, ServerWriteOutcome, ServerOtherOutcome
  <1>8. ASSUME Attached(s)
        PROVE  /\ PhaseOf(s) = "issued" /\ PhaseOf(s)' = "done"
               /\ AccessOf(s)' = AccessOf(s)
               /\ Waiting(s) /\ q = call[s]
               /\ OutcomeOf(s)' \in Abstract!Outcome
               /\ \/ Abstract!ReadOutcome(AccessOf(s), OutcomeOf(s)')
                  \/ Abstract!WriteOutcome(AccessOf(s), OutcomeOf(s)')
                  \/ Abstract!OtherOutcome(AccessOf(s), OutcomeOf(s)')
    <2>1. Waiting(s) /\ repQ[s] = <<>> /\ q = call[s]
      BY <1>1, <1>3, <1>8, OneInFlight, EmptyQueue DEF Attached, RInv, InStep, IInv, TypeOK
    <2>2. ~Decided(s) /\ Decided(s)' /\ OwnReply(s)' = job'.reply
      BY <1>1, <1>3, <2>1 DEF Decided, OwnReply
    <2>3. PhaseOf(s) = "issued" /\ PhaseOf(s)' = "done"
      BY <1>5, <1>8, <2>1, <2>2 DEF PhaseOf
    <2> DEFINE a == [op |-> q.op, offs |-> q.offs, size |-> q.size, word |-> q.word]
    <2>4. AccessOf(s) = a /\ AccessOf(s)' = a
      BY <1>1, <1>5, <1>8, <2>1 DEF AccessOf
    <2> DEFINE m == job'.reply  x == [ret |-> CallReturn(q, m), word |-> m.word]
    <2>5. OutcomeOf(s)' = x
      <3>1. CallReturn(call[s], OwnReply(s))' = CallReturn(q, m)
        BY <1>1, <2>1, <2>2 DEF CallReturn, RecvRw
      <3> QED
        BY <2>2, <2>3, <3>1 DEF OutcomeOf
    <2>6. x \in Abstract!Outcome
      <3>1. m \in Reply /\ CallReturn(q, m) \in -1..(UIntMod - 1)
        <4>1. q.size \in Nat /\ q.size + 1 < UIntMod /\ UIntMod \in Nat
          BY <1>6, ThsafeAssumption
        <4>2. CASE ServerRead(s, q)
          <5>1. m \in Reply /\ CallReturn(q, m) \in {-1, 0, q.size}
            BY <1>1, <4>2, ServerReadOutcome
          <5> QED
            BY <4>1, <5>1
        <4>3. CASE ServerWrite(s, q)
          <5>1. m \in Reply /\ CallReturn(q, m) = m.word
            BY <1>1, <4>3, ServerWriteOutcome
          <5>2. m.word \in 0..(UIntMod - 1)
            BY <5>1 DEF Reply, Words
          <5> QED
            BY <4>1, <5>1, <5>2
        <4>4. CASE ServerOpen(s, q) \/ ServerRelease(s, q)
          <5>1. m \in Reply /\ CallReturn(q, m) \in {-1, 0}
            BY <1>1, <4>4, ServerOtherOutcome
          <5> QED
            BY <4>1, <5>1
        <4> QED
          BY <1>2, <4>2, <4>3, <4>4
      <3>2. m.word \in Words
        BY <3>1 DEF Reply
      <3> QED
        BY <3>1, <3>2 DEF Abstract!Outcome, Abstract!Words, Words
    <2>7. \/ Abstract!ReadOutcome(a, x)
          \/ Abstract!WriteOutcome(a, x)
          \/ Abstract!OtherOutcome(a, x)
      <3>1. CASE ServerRead(s, q)
        BY <1>1, <3>1, ServerReadOutcome DEF Abstract!ReadOutcome
      <3>2. CASE ServerWrite(s, q)
        BY <1>1, <3>2, ServerWriteOutcome DEF Abstract!WriteOutcome
      <3>3. CASE ServerOpen(s, q) \/ ServerRelease(s, q)
        BY <1>1, <3>3, ServerOtherOutcome DEF Abstract!OtherOutcome
      <3> QED
        BY <1>2, <3>1, <3>2, <3>3
    <2> HIDE DEF a, m, x
    <2> QED
      BY <2>1, <2>3, <2>4, <2>5, <2>6, <2>7
  <1> QED
    BY <1>4, <1>5, <1>7, <1>8

\* DEVIO's access for a socket in step is the atomic access of the service; for
\* any other socket it is at most a late write.
LEMMA ServeRefines ==
    ASSUME RInv, NEW s \in Socks, Serve(s)
    PROVE  [Abstract!Next]_Abstract!vars
  <1>1. OthersKept(s) /\ (Attached(s)' <=> Attached(s))
    BY ServeView
  <1>2. CASE ~Attached(s)
    <2>1. CASE UNCHANGED regs
      BY <1>1, <1>2, <2>1, DetachStep
    <2>2. CASE regs' # regs
      <3>1. PICK q \in Request : regs' = [regs EXCEPT ![q.offs] = q.word]
        BY <2>2, ServeView
      <3>2. q.offs \in Offs /\ q.word \in Words /\ regs \in [Offs -> Words]
        BY DEF Request, RInv, IInv, TypeOK
      <3>3. regs'[q.offs] \in Words /\ regs' = [regs EXCEPT ![q.offs] = regs'[q.offs]]
        BY <3>1, <3>2
      <3>4. /\ PhaseOf(s) = "detached" /\ PhaseOf(s)' = PhaseOf(s)
            /\ AccessOf(s)' = AccessOf(s) /\ OutcomeOf(s)' = OutcomeOf(s)
        BY <1>1, <1>2 DEF PhaseOf, AccessOf, OutcomeOf
      <3>5. UNCHANGED <<PhaseMap, AccessMap, OutcomeMap>> /\ PhaseMap[s] = "detached"
        BY <1>1, <3>4 DEF OthersKept, PhaseMap, AccessMap, OutcomeMap
      <3>6. Abstract!LateWrite(s)
        BY <3>2, <3>3, <3>5 DEF Abstract!LateWrite, Abstract!Words, Words
      <3> QED
        BY <3>6 DEF Abstract!Next
    <2> QED
      BY <2>1, <2>2
  <1>3. CASE Attached(s)
    <2>1. Abstract!Perform(s)
      BY <1>3, ServeView, MapsChangeAt DEF Abstract!Perform, AccessMap, OthersKept
    <2> QED
      BY <2>1 DEF Abstract!Next
  <1> QED
    BY <1>2, <1>3

-----------------------------------------------------------------------------
\* The initial states of the channel are initial states of the service.
LEMMA InitRefines == Init => Abstract!Init
  <1> SUFFICES ASSUME Init PROVE Abstract!Init
    OBVIOUS
  <1>1. regs \in [Offs -> 0..(UIntMod - 1)]
    BY ThsafeAssumption DEF Init, Words
  <1>2. \A s \in Socks : Attached(s) /\ ~Waiting(s)
    BY DEF Init, Attached, Waiting, NoCall
  <1>3. \A s \in Socks : /\ PhaseOf(s) = "idle" /\ AccessOf(s) = Abstract!NoAccess
                         /\ OutcomeOf(s) = Abstract!NoOutcome
    BY <1>2 DEF Init, PhaseOf, AccessOf, OutcomeOf, NoResult,
                Abstract!NoAccess, Abstract!NoOutcome
  <1> QED
    BY <1>1, <1>3 DEF Abstract!Init, Abstract!Words, PhaseMap, AccessMap, OutcomeMap

\* A socket without timeouts sees atomic register accesses, made between the
\* call and its return (smio_thsafe_client_* and the DEVIO thread), whatever
\* other sockets do: the channel implements RegisterService.
THEOREM ChannelRefinesService == Spec => ImplementsRegisterService
  <1>1. Init => RInv
    <2>1. Init => InStep
      BY DEF Init, InStep
    <2> QED
      BY <2>1, InitIInv DEF RInv
  <1>2. RInv /\ [Next]_vars => RInv' /\ [Abstract!Next]_Abstract!vars
    <2> SUFFICES ASSUME RInv, [Next]_vars
                 PROVE  RInv' /\ [Abstract!Next]_Abstract!vars
      OBVIOUS
    <2>1. CASE ChannelNext
      <3>1. IInv'
        BY <2>1, SendReplyIInv, ServeIInv, RecvIInv, TimeoutIInv, CloseIInv
           DEF ChannelNext, RInv
      <3>2. InStep'
        BY <2>1, ChannelInStep DEF RInv
      <3>3. [Abstract!Next]_Abstract!vars
        BY <2>1, SendReplyRefines, ServeRefines, RecvRefines, TimeoutView, CloseView,
           DetachStep DEF ChannelNext
      <3> QED
        BY <3>1, <3>2, <3>3 DEF RInv
    <2>2. CASE \E s \in Socks : AnyCall(s)
      <3>1. PICK s \in Socks, op \in Ops, o \in Offs, n \in Sizes, w \in Words :
              Call(s, op, o, n, w)
        BY <2>2, AnyCallIsCall
      <3> QED
        BY <3>1, CallIInv, CallInStep, CallRefines DEF RInv
    <2>3. CASE UNCHANGED vars
      <3>1. IInv'
        BY <2>3, StutterIInv DEF RInv
      <3>2. InStep'
        BY <2>3 DEF RInv, InStep, vars, histVars
      <3>3. \A t \in Socks : /\ PhaseOf(t)' = PhaseOf(t)
                             /\ AccessOf(t)' = AccessOf(t)
                             /\ OutcomeOf(t)' = OutcomeOf(t)
        BY <2>3, LooksTheSame DEF vars, histVars
      <3>4. UNCHANGED Abstract!vars
        BY <2>3, <3>3 DEF Abstract!vars, PhaseMap, AccessMap, OutcomeMap, vars, devVars
      <3> QED
        BY <3>1, <3>2, <3>4 DEF RInv
    <2> QED
      BY <2>1, <2>2, <2>3 DEF Next
  <1> QED
    BY <1>1, <1>2, InitRefines, PTL DEF Spec, ImplementsRegisterService, Abstract!Spec
=============================================================================
