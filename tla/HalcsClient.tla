---------------------------- MODULE HalcsClient ----------------------------
(***************************************************************************)
(* The client library, the broker's mailboxes and the message layer of the *)
(* SMIOs (msg.c and the dispatch table).                                   *)
(*                                                                         *)
(* A client makes one call at a time: it sends a request to the mailbox of *)
(* a service and takes the next message of that service for the reply.     *)
(* Requests and replies carry no identifier.  Calls differ in how they     *)
(* read the reply: "write" is param_client_write_gen, "read" is            *)
(* param_client_read_gen, "exec" is halcs_func_exec and "poll" is          *)
(* func_polling, which repeats an exec until it succeeds.                  *)
(***************************************************************************)
EXTENDS Integers, Sequences

CONSTANTS
    Clients, Services,
    Ops,        \* opcodes
    Table,      \* disp_op_t: the arguments and the size of the return value
    Exports,    \* the opcodes each service exports
    Api,        \* the calls each client makes, by service
    FuncErrors, \* codes an exported function fails with
    MaxCalls    \* bound: calls of a client to a service, retries included

Arg   == [size : Nat, var : BOOLEAN]
Kinds == {"write", "read", "exec", "poll"}
\* sizes: those of the frames sent.  out: room for the result.
Offer == [kind : Kinds, op : Ops, rw : {"read", "write"}, sizes : Seq(Nat), out : Nat]

ASSUME HalcsClientAssumption ==
    /\ Table \in [Ops -> [args : Seq(Arg), ret : Nat]]
    /\ Exports \in [Services -> SUBSET Ops]
    /\ Api \in [Clients \X Services -> SUBSET Offer]
    \* every caller of param_client_write_gen passes WRITE_MODE
    /\ \A p \in Clients \X Services : \A o \in Api[p] : o.kind = "write" => o.rw = "write"
    /\ FuncErrors \subseteq Nat \ {0}
    /\ MaxCalls \in [Clients \X Services -> Nat]
    /\ "none" \notin Clients \cup Services

RW_OK     == 0
PARAM_ERR == 1
\* HALCS_CLIENT_ERR_END - HALCS_CLIENT_ERR_MODULE - 1
ModuleErrEnd == 20

VARIABLES
    inbox,   \* the mailbox of each service at the broker
    answer,  \* the reply a service has computed and not sent yet
    mailbox, \* the messages at each client's msgpipe
    call,    \* the call each client makes, or made last
    calls,   \* number of requests made by client and service (history)
    sent,    \* those that reached the broker (history)
    gaveUp,  \* calls that ended without a message (history)
    dropped, \* messages thrown away as coming from another service (history)
    okay     \* requests served with RW_OK (history)

history == <<calls, sent, gaveUp, dropped, okay>>
vars == <<inbox, answer, mailbox, call, history>>

Pairs == Clients \X Services

\* by and of: the request it answers.  len > 0 iff it has the data frames.
Reply   == [to : Clients, by : Clients, from : Services, of : Nat,
            code : Nat, len : Nat]
NoReply == [to |-> "none", by |-> "none", from |-> "none", of |-> 0,
            code |-> 0, len |-> 0]
Request == [by : Clients, of : Nat, op : Ops, rw : {"read", "write"}, sizes : Seq(Nat)]

\* pc: "idle", at the top of the "loop" of func_polling, in zpoller_wait
\* ("wait") or in the loop that empties the msgpipe ("drain").  own is the
\* number of its request, 0 if it could not be sent.
Returns == {"none", "SUCCESS", "SERVER", "AGAIN", "TIMEOUT", "INT", "INV_RETCODE", "MODULE"}
NoCall  == [pc |-> "idle", svc |-> "none", offer |-> [kind |-> "none"], own |-> 0,
            got |-> NoReply, ret |-> "none", filled |-> 0]

-----------------------------------------------------------------------------
\* Sending a request.

RequestOf(c, s, o) == [by |-> c, of |-> sent[<<c, s>>] + 1, op |-> o.op, rw |-> o.rw,
                       sizes |-> o.sizes]

Budget(c, s) == calls[<<c, s>>] < MaxCalls[<<c, s>>]

Calling(c, s, o, pc, own) ==
    call' = [call EXCEPT ![c] = [pc |-> pc, svc |-> s, offer |-> o, own |-> own,
                                 got |-> NoReply, ret |-> "none", filled |-> 0]]

\* mlm_client_sendto succeeds: the caller goes on to wait.
Send(c, s, o) ==
    /\ Budget(c, s)
    /\ inbox' = [inbox EXCEPT ![s] = Append(@, RequestOf(c, s, o))]
    /\ sent'  = [sent EXCEPT ![<<c, s>>] = @ + 1]
    /\ calls' = [calls EXCEPT ![<<c, s>>] = @ + 1]
    /\ Calling(c, s, o, "wait", sent[<<c, s>>] + 1)
    /\ UNCHANGED <<answer, mailbox, gaveUp, dropped, okay>>

\* mlm_client_sendto fails.  param_client_send_gen_rw reports it;
\* halcs_func_exec_size does not look and waits all the same.
SendFails(c, s, o) ==
    \/ /\ o.kind \in {"write", "read"}
       /\ call' = [call EXCEPT ![c] = [NoCall EXCEPT !.svc = s, !.offer = o, !.ret = "SERVER"]]
       /\ UNCHANGED <<inbox, answer, mailbox, history>>
    \/ /\ o.kind \in {"exec", "poll"} /\ Budget(c, s)
       /\ Calling(c, s, o, "wait", 0)
       /\ calls' = [calls EXCEPT ![<<c, s>>] = @ + 1]
       /\ UNCHANGED <<inbox, answer, mailbox, sent, gaveUp, dropped, okay>>

Call(c, s, o) ==
    /\ call[c].pc = "idle" /\ o.kind # "poll"
    /\ Send(c, s, o) \/ SendFails(c, s, o)

PollStart(c, s, o) ==
    /\ call[c].pc = "idle" /\ o.kind = "poll" /\ Budget(c, s)
    /\ Calling(c, s, o, "loop", 0)
    /\ UNCHANGED <<inbox, answer, mailbox, history>>

\* The time of func_polling is over, or the program is interrupted.
PollEnd(c) ==
    /\ call[c].pc = "loop"
    /\ \E r \in {"TIMEOUT", "INT"} :
        call' = [call EXCEPT ![c].pc = "idle", ![c].ret = r]
    /\ UNCHANGED <<inbox, answer, mailbox, history>>

PollExec(c) ==
    /\ call[c].pc = "loop"
    /\ \/ Send(c, call[c].svc, call[c].offer)
       \/ SendFails(c, call[c].svc, call[c].offer)

-----------------------------------------------------------------------------
\* Service.

\* msg_check_gen_zmq_args: as many frames as arguments; a VAR argument may be
\* shorter than declared, any other has exactly its size.
CheckArgs(op, sizes) ==
    /\ Len(sizes) = Len(Table[op].args)
    /\ \A i \in 1..Len(sizes) :
        LET arg == Table[op].args[i]
        IN  sizes[i] <= arg.size /\ (~arg.var => sizes[i] = arg.size)

\* What disp_table_check_call returns: -1 for an opcode that is not exported or
\* bad arguments; else what the function returns: 0, the size of its result, or
\* minus an error code.
CheckCall(s, q) ==
    IF q.op \notin Exports[s] \/ ~CheckArgs(q.op, q.sizes)
    THEN {-1}
    ELSE {-e : e \in FuncErrors} \cup {IF q.rw = "write" THEN 0 ELSE Table[q.op].ret}

\* Mutant: a function that fails is answered with PARAM_OK.
ClientResponseOk(s, q, r) ==
    [to |-> q.by, by |-> q.by, from |-> s, of |-> q.of,
     code |-> RW_OK, len |-> IF r > 0 THEN r ELSE 0]

\* Mutant: the error code is not negated.
ClientResponseSigned(s, q, r) ==
    [to |-> q.by, by |-> q.by, from |-> s, of |-> q.of,
     code |-> IF r < 0 THEN r ELSE RW_OK, len |-> IF r > 0 THEN r ELSE 0]

ClientResponse(s, q, r) ==
    [to |-> q.by, by |-> q.by, from |-> s, of |-> q.of,
     code |-> IF r < 0 THEN -r ELSE RW_OK, len |-> IF r > 0 THEN r ELSE 0]

Handle(s) ==
    /\ answer[s] = NoReply /\ inbox[s] # <<>>
    /\ LET q == Head(inbox[s]) IN
        \E r \in CheckCall(s, q) :
            /\ answer' = [answer EXCEPT ![s] = ClientResponse(s, q, r)]
            /\ okay' = [okay EXCEPT ![<<q.by, s>>] = IF r >= 0 THEN @ \cup {q.of} ELSE @]
    /\ inbox' = [inbox EXCEPT ![s] = Tail(@)]
    /\ UNCHANGED <<mailbox, call, calls, sent, gaveUp, dropped>>

\* The reply goes to mlm_client_sender, the sender of the last message received.
Answer(s) ==
    /\ answer[s] # NoReply
    /\ mailbox' = [mailbox EXCEPT ![answer[s].to] = Append(@, answer[s])]
    /\ answer'  = [answer EXCEPT ![s] = NoReply]
    /\ UNCHANGED <<inbox, call, history>>

-----------------------------------------------------------------------------
\* Receiving.  A message m (NoReply for the NULL of param_client_recv_timeout)
\* becomes the return value of the call, and the bytes of it the caller gets.

WriteReturn(m) ==
    IF m = NoReply THEN "SERVER"
    ELSE IF m.len > 0 THEN "SUCCESS"    \* not one frame: err is left as it was
    ELSE IF m.code # RW_OK THEN "AGAIN" ELSE "SUCCESS"

ReadReturn(m) ==
    IF m = NoReply THEN "SERVER" ELSE IF m.code # RW_OK THEN "AGAIN" ELSE "SUCCESS"

ExecReturn(m) ==
    CASE m = NoReply            -> "SUCCESS"    \* err is left as it was
      [] m.code >= ModuleErrEnd -> "INV_RETCODE"
      [] m.code \in 1..(ModuleErrEnd - 1) -> "MODULE"
      [] OTHER                  -> "SUCCESS"

ClientReturn(kind, m) ==
    CASE kind = "write" -> WriteReturn(m)
      [] kind = "read"  -> ReadReturn(m)
      [] OTHER          -> ExecReturn(m)

\* param_client_read_gen ignores a result that does not fit; exec truncates it.
Filled(o, m) ==
    CASE o.kind = "write" -> 0
      [] o.kind = "read"  -> IF m.len <= o.out THEN m.len ELSE 0
      [] OTHER            -> IF m.len <= o.out THEN m.len ELSE o.out

\* func_polling tries again unless the exec succeeded.
Finish(c, m) ==
    LET o == call[c].offer  r == ClientReturn(o.kind, m)
    IN  call' = [call EXCEPT ![c] =
            [@ EXCEPT !.pc  = IF o.kind = "poll" /\ r # "SUCCESS" THEN "loop" ELSE "idle",
                      !.got = m, !.ret = r, !.filled = Filled(o, m)]]

GiveUp(c) == /\ Finish(c, NoReply)
             /\ gaveUp' = [gaveUp EXCEPT ![<<c, call[c].svc>>] = @ + 1]

\* zpoller_wait finds the msgpipe readable.
Wake(c) ==
    /\ call[c].pc = "wait" /\ mailbox[c] # <<>>
    /\ call' = [call EXCEPT ![c].pc = "drain"]
    /\ UNCHANGED <<inbox, answer, mailbox, history>>

\* The poller expires.
Timeout(c) ==
    /\ call[c].pc = "wait" /\ mailbox[c] = <<>>
    /\ GiveUp(c)
    /\ UNCHANGED <<inbox, answer, mailbox, calls, sent, dropped, okay>>

\* Mutant: the sender of the message is not compared with the service.
DrainAny(c) ==
    /\ call[c].pc = "drain" /\ mailbox[c] # <<>>
    /\ mailbox' = [mailbox EXCEPT ![c] = Tail(@)]
    /\ Finish(c, Head(mailbox[c]))
    /\ UNCHANGED <<inbox, answer, calls, sent, gaveUp, dropped, okay>>

\* Mutant: an empty msgpipe does not end the loop.
DrainForever(c) ==
    /\ call[c].pc = "drain" /\ mailbox[c] # <<>>
    /\ LET m == Head(mailbox[c]) IN
        /\ mailbox' = [mailbox EXCEPT ![c] = Tail(@)]
        /\ \/ /\ m.from = call[c].svc
              /\ Finish(c, m)
              /\ UNCHANGED dropped
           \/ /\ m.from # call[c].svc
              /\ dropped' = [dropped EXCEPT ![<<c, m.from>>] = @ + 1]
              /\ UNCHANGED call
    /\ UNCHANGED <<inbox, answer, calls, sent, gaveUp, okay>>

\* One turn of the loop of param_client_recv_timeout: the first message of the
\* service is taken, those of others are destroyed, and when no message is
\* left the call gives up without waiting for its timeout.
Drain(c) ==
    /\ call[c].pc = "drain"
    /\ \/ /\ mailbox[c] # <<>> /\ Head(mailbox[c]).from = call[c].svc
          /\ mailbox' = [mailbox EXCEPT ![c] = Tail(@)]
          /\ Finish(c, Head(mailbox[c]))
          /\ UNCHANGED <<gaveUp, dropped>>
       \/ /\ mailbox[c] # <<>> /\ Head(mailbox[c]).from # call[c].svc
          /\ mailbox' = [mailbox EXCEPT ![c] = Tail(@)]
          /\ dropped' = [dropped EXCEPT ![<<c, Head(mailbox[c]).from>>] = @ + 1]
          /\ UNCHANGED <<call, gaveUp>>
       \/ /\ mailbox[c] = <<>>
          /\ GiveUp(c)
          /\ UNCHANGED <<mailbox, dropped>>
    /\ UNCHANGED <<inbox, answer, calls, sent, okay>>

-----------------------------------------------------------------------------
Init ==
    /\ inbox   = [s \in Services |-> <<>>]
    /\ answer  = [s \in Services |-> NoReply]
    /\ mailbox = [c \in Clients |-> <<>>]
    /\ call    = [c \in Clients |-> NoCall]
    /\ calls   = [p \in Pairs |-> 0]
    /\ sent    = [p \in Pairs |-> 0]
    /\ gaveUp  = [p \in Pairs |-> 0]
    /\ dropped = [p \in Pairs |-> 0]
    /\ okay    = [p \in Pairs |-> {}]

ClientStep(c) == PollEnd(c) \/ PollExec(c) \/ Wake(c) \/ Timeout(c) \/ Drain(c)
ServiceStep(s) == Handle(s) \/ Answer(s)

Next ==
    \/ \E c \in Clients, s \in Services : \E o \in Api[<<c, s>>] :
            Call(c, s, o) \/ PollStart(c, s, o)
    \/ \E c \in Clients : ClientStep(c)
    \/ \E s \in Services : ServiceStep(s)

Fairness ==
    \A c \in Clients : WF_vars(PollEnd(c)) /\ WF_vars(Wake(c) \/ Timeout(c)) /\ WF_vars(Drain(c))

Spec == Init /\ [][Next]_vars /\ Fairness

-----------------------------------------------------------------------------
ClientTypeOK ==
    /\ inbox \in [Services -> Seq(Request)]
    /\ answer \in [Services -> Reply \cup {NoReply}]
    /\ mailbox \in [Clients -> Seq(Reply)]
    /\ \A c \in Clients :
        /\ call[c].pc \in {"idle", "loop", "wait", "drain"}
        /\ \/ call[c] = NoCall
           \/ call[c].svc \in Services /\ call[c].offer \in Api[<<c, call[c].svc>>]
        /\ call[c].got \in Reply \cup {NoReply}
        /\ call[c].ret \in Returns /\ call[c].own \in Nat /\ call[c].filled \in Nat
    /\ \A h \in {calls, sent, gaveUp, dropped} : h \in [Pairs -> Nat]
    /\ okay \in [Pairs -> SUBSET Nat]

\* A message a call takes for its reply comes from the service called and
\* answers a request of this client; and the n-th call takes the answer to
\* request n - k, where k is the number of calls to the service that gave up
\* less the number of its late messages that were thrown away: one timeout
\* shifts every later answer, until calls to another service swallow the
\* messages left over (param_client_recv_timeout, mlm_client_sender in msg.c).
ClientLag ==
    \A c \in Clients : call[c].got # NoReply =>
        LET s == call[c].svc  m == call[c].got
        IN  /\ m.from = s /\ m.by = c
            /\ calls[<<c, s>>] - m.of = gaveUp[<<c, s>>] - dropped[<<c, s>>]

\* As long as no call of a client to a service gave up, a call that returns
\* HALCS_CLIENT_SUCCESS had its own request served with RW_OK, whatever other
\* clients and services do; and if it asked for a result of the size the
\* function returns, it has all of it (param_client_*_gen, halcs_func_exec_size).
InStepSuccess ==
    \A c \in Clients : call[c].pc = "idle" /\ call[c].ret = "SUCCESS" =>
        LET s == call[c].svc  o == call[c].offer IN
        gaveUp[<<c, s>>] = 0 =>
            /\ call[c].own \in okay[<<c, s>>]
            /\ o.rw = "read" /\ o.out = Table[o.op].ret => call[c].filled = o.out

\* Every call returns, also when the service never answers or a flood of other
\* messages arrives: by its message, by the poller's timeout, or because the
\* msgpipe is empty (param_client_recv_timeout, _func_polling).
ClientCallReturns == \A c \in Clients : call[c].pc # "idle" ~> call[c].pc = "idle"

\* func_polling and halcs_func_exec return HALCS_CLIENT_SUCCESS only if the
\* function was executed successfully by the service.
SuccessMeansDone ==
    \A c \in Clients :
        call[c].pc = "idle" /\ call[c].ret = "SUCCESS" /\ call[c].offer.kind = "poll"
            => call[c].own \in okay[<<c, call[c].svc>>]
=============================================================================
