--------------------------- MODULE RegisterService ---------------------------
(***************************************************************************)
(* What the register channel promises to a socket on which no call has     *)
(* timed out: every call is one atomic access to the device, made after    *)
(* the call was issued and before it returns, and its return value is the  *)
(* outcome of that access.  A socket is detached once one of its calls is  *)
(* abandoned or it is closed; nothing is promised to it any more, and its  *)
(* pending writes may still change the registers.                          *)
(***************************************************************************)
EXTENDS Integers

CONSTANTS Socks, Offs, Sizes, UIntMod

Words == 0..(UIntMod - 1)

VARIABLES
    regs,    \* the device registers
    phase,   \* "idle", "issued", "done" or "detached", per socket
    access,  \* the access in progress, per socket
    outcome  \* the outcome of the last access, per socket

vars == <<regs, phase, access, outcome>>

Access    == [op : {"read", "write", "open", "release"}, offs : Offs,
              size : Sizes, word : Words]
NoAccess  == [op |-> "none", offs |-> "none", size |-> 0, word |-> 0]
Outcome   == [ret : -1..(UIntMod - 1), word : Words]
NoOutcome == [ret |-> 0, word |-> 0]

Init ==
    /\ regs \in [Offs -> Words]
    /\ phase = [s \in Socks |-> "idle"]
    /\ access = [s \in Socks |-> NoAccess]
    /\ outcome = [s \in Socks |-> NoOutcome]

Issue(s) ==
    /\ phase[s] = "idle"
    /\ \E a \in Access :
         access' = [access EXCEPT ![s] = a]
    /\ phase' = [phase EXCEPT ![s] = "issued"]
    /\ outcome' = [outcome EXCEPT ![s] = NoOutcome]
    /\ UNCHANGED regs

\* A read that returns its size returns the register as it is at this moment.
ReadOutcome(a, r) ==
    /\ a.op = "read"
    /\ r.ret \in {-1, 0, a.size}
    /\ r.ret = a.size => r.word = regs[a.offs]
    /\ UNCHANGED regs

\* A write that returns its size has changed the register.
WriteOutcome(a, r) ==
    /\ a.op = "write"
    /\ \/ regs' = [regs EXCEPT ![a.offs] = a.word]
       \/ r.ret # a.size /\ UNCHANGED regs

OtherOutcome(a, r) ==
    /\ a.op \in {"open", "release"}
    /\ r.ret \in {-1, 0}
    /\ UNCHANGED regs

Perform(s) ==
    /\ phase[s] = "issued"
    /\ outcome'[s] \in Outcome
    /\ outcome' = [outcome EXCEPT ![s] = outcome'[s]]
    /\ \/ ReadOutcome(access[s], outcome'[s])
       \/ WriteOutcome(access[s], outcome'[s])
       \/ OtherOutcome(access[s], outcome'[s])
    /\ phase' = [phase EXCEPT ![s] = "done"]
    /\ UNCHANGED access

Finish(s) ==
    /\ phase[s] = "done"
    /\ phase' = [phase EXCEPT ![s] = "idle"]
    /\ access' = [access EXCEPT ![s] = NoAccess]
    /\ UNCHANGED <<regs, outcome>>

Detach(s) ==
    /\ phase' = [phase EXCEPT ![s] = "detached"]
    /\ access' = [access EXCEPT ![s] = NoAccess]
    /\ outcome' = [outcome EXCEPT ![s] = NoOutcome]
    /\ UNCHANGED regs

LateWrite(s) ==
    /\ phase[s] = "detached"
    /\ \E o \in Offs : regs'[o] \in Words /\ regs' = [regs EXCEPT ![o] = regs'[o]]
    /\ UNCHANGED <<phase, access, outcome>>

Next == \E s \in Socks : \/ Issue(s) \/ Perform(s) \/ Finish(s)
                         \/ Detach(s) \/ LateWrite(s)

Spec == Init /\ [][Next]_vars
=============================================================================
