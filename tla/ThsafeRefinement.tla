-------------------------- MODULE ThsafeRefinement --------------------------
(***************************************************************************)
(* The register channel as an implementation of RegisterService: what each *)
(* socket of the channel looks like from outside.                          *)
(***************************************************************************)
EXTENDS SmioThsafe

Attached(s) == sockOpen[s] /\ timeouts[s] = 0

\* The reply the call in progress will get, once DEVIO has computed it.
Decided(s) == job.sock = s \/ repQ[s] # <<>>
OwnReply(s) == IF job.sock = s THEN job.reply ELSE Head(repQ[s])

PhaseOf(s) ==
    IF ~Attached(s) THEN "detached"
    ELSE IF ~Waiting(s) THEN "idle"
    ELSE IF Decided(s) THEN "done" ELSE "issued"

AccessOf(s) ==
    IF Attached(s) /\ Waiting(s)
    THEN [op |-> call[s].op, offs |-> call[s].offs,
          size |-> call[s].size, word |-> call[s].word]
    ELSE [op |-> "none", offs |-> "none", size |-> 0, word |-> 0]

\* After a call has returned, its outcome is the result it returned.
OutcomeOf(s) ==
    IF PhaseOf(s) = "done"
    THEN [ret |-> CallReturn(call[s], OwnReply(s)), word |-> OwnReply(s).word]
    ELSE IF PhaseOf(s) = "idle"
    THEN [ret |-> result[s].ret, word |-> result[s].word]
    ELSE [ret |-> 0, word |-> 0]

PhaseMap   == [s \in Socks |-> PhaseOf(s)]
AccessMap  == [s \in Socks |-> AccessOf(s)]
OutcomeMap == [s \in Socks |-> OutcomeOf(s)]

Abstract ==
    INSTANCE RegisterService WITH
        phase <- PhaseMap, access <- AccessMap, outcome <- OutcomeMap

\* A socket without timeouts sees atomic register accesses: the channel
\* implements RegisterService.
ImplementsRegisterService == Abstract!Spec
=============================================================================
