--------------------------- MODULE RwParamProofs ---------------------------
(***************************************************************************)
(* Proofs about SET_PARAM and GET_PARAM, for any number of sockets,        *)
(* registers, values and calls: a GET is fresh, a SET is atomic and keeps  *)
(* the other field, on a socket without timeouts.                          *)
(*                                                                         *)
(* The macros are seen through the refinement of RegisterService: what a   *)
(* socket in step gets from the channel is the outcome of one atomic       *)
(* access.  What the service does not say, and is added here, is that a    *)
(* register is written by its owner only.                                  *)
(***************************************************************************)
EXTENDS RwParam, SmioThsafeProofs

RwTypes ==
    /\ param \in [Socks -> Param]
    /\ seen \in [Socks -> SUBSET Words]

\* The macro of a socket that is in one, and that it saw its register's word.
MacroState(s) ==
    /\ sockOpen[s]
    /\ param[s].offs \in Offs /\ param[s].field \in Fields
    /\ param[s].value \in 0..MaxValue
    /\ regs[param[s].offs] \in seen[s]
    /\ param[s].pc = "read" => param[s].code = RW_OK /\ param[s].macro \in {"get", "set"}
    /\ param[s].pc = "write" => /\ param[s].code \in {RW_OK, RW_WRITE_EAGAIN}
                               /\ param[s].macro = "set"
    /\ param[s].macro = "set" => Owner[param[s].offs] = s

\* A thread is blocked in the access its macro makes.
MacroCall(s) ==
    /\ param[s].pc # "idle" => MacroState(s)
    /\ Waiting(s) => /\ param[s].pc # "idle" /\ call[s].op = param[s].pc
                     /\ call[s].offs = param[s].offs /\ call[s].size = AckSize

\* Only the owner of a register has writes to it under way, and nothing is under
\* way for a socket that was closed without a timeout.
OwnWrites(s) ==
    \A i \in 1..Len(reqQ[s]) : reqQ[s][i].op = "write" => Owner[reqQ[s][i].offs] = s
ClosedIsEmpty(s) ==
    ~sockOpen[s] /\ timeouts[s] = 0 => reqQ[s] = <<>>

Returned(s) == PhaseOf(s) \in {"done", "idle"} /\ OutcomeOf(s).ret = AckSize

\* A complete read has a word the register held during the macro; until a SET
\* writes, that was always the same one.
ReadIsSeen(s) ==
    timeouts[s] = 0 /\ param[s].pc = "read" =>
        /\ Returned(s) => OutcomeOf(s).word \in seen[s]
        /\ param[s].macro = "set" => seen[s] = {regs[param[s].offs]}

\* The SET replaced one field of the word the register had before.
Replaced(s) ==
    \E old \in seen[s] :
        /\ regs[param[s].offs] = Set(old, param[s].field, param[s].value)
        /\ seen[s] \subseteq {old, regs[param[s].offs]}

\* A SET whose read was complete writes the word it read with one field replaced.
WriteIsSet(s) ==
    timeouts[s] = 0 /\ param[s].pc = "write" /\ param[s].code = RW_OK =>
        /\ PhaseOf(s) = "issued" =>
            /\ seen[s] = {regs[param[s].offs]}
            /\ call[s].word = Set(regs[param[s].offs], param[s].field, param[s].value)
        /\ Returned(s) => Replaced(s)

FreshGet(s) ==
    Replied(s, "get", RW_OK) /\ timeouts[s] = 0
        => \E w \in seen[s] : Get(w, param[s].field) = param[s].value

Local(s) ==
    /\ MacroCall(s)
    /\ OwnWrites(s) /\ ClosedIsEmpty(s)
    /\ ReadIsSeen(s) /\ WriteIsSet(s) /\ FreshGet(s)

RwInv ==
    /\ RInv
    /\ RwTypes
    /\ \A s \in Socks : Local(s)

-----------------------------------------------------------------------------
(* The accessors of a field. *)

\* Quotient and remainder by the size of a field.
LEMMA FieldDivision ==
    ASSUME NEW w \in Nat
    PROVE  /\ w \div FieldMod \in Nat /\ w % FieldMod \in Nat
           /\ w % FieldMod < FieldMod
           /\ w = FieldMod * (w \div FieldMod) + (w % FieldMod)
  BY RwParamAssumption

\* They are the only ones.
LEMMA FieldParts ==
    ASSUME NEW d \in Nat, NEW r \in Nat, r < FieldMod
    PROVE  /\ FieldMod * d + r \in Nat
           /\ (FieldMod * d + r) \div FieldMod = d
           /\ (FieldMod * d + r) % FieldMod = r
  <1>1. FieldMod \in Nat /\ FieldMod > 0
    BY RwParamAssumption
  <1> DEFINE w == FieldMod * d + r
  <1>2. w \in Nat
    BY <1>1
  <1>3. /\ w \div FieldMod \in Nat /\ w % FieldMod \in Nat
        /\ w % FieldMod < FieldMod
        /\ w = FieldMod * (w \div FieldMod) + (w % FieldMod)
    BY <1>2, FieldDivision
  <1>4. FieldMod * ((w \div FieldMod) - d) = r - (w % FieldMod)
    BY <1>1, <1>2, <1>3
  <1>5. \A k \in Int : FieldMod * k < FieldMod /\ FieldMod * k > -FieldMod => k = 0
    BY <1>1
  <1> QED
    BY <1>1, <1>2, <1>3, <1>4, <1>5

\* A word with quotient d < FieldMod is a word of 32 bits.
LEMMA FieldBound ==
    ASSUME NEW d \in Nat, NEW r \in Nat, r < FieldMod, d < FieldMod
    PROVE  FieldMod * d + r \in Words
  BY RwParamAssumption DEF Words

\* Setting a field makes a word and leaves the other field alone.
LEMMA SetField ==
    ASSUME NEW w \in Words, NEW f \in Fields, NEW v \in 0..MaxValue
    PROVE  /\ Set(w, f, v) \in Words
           /\ Get(w, f) \in Nat
           /\ \A g \in Fields \ {f} : Get(Set(w, f, v), g) = Get(w, g)
  <1> DEFINE d == w \div FieldMod  r == w % FieldMod
  <1>1. /\ FieldMod \in Nat /\ FieldMod > 0 /\ UIntMod = FieldMod * FieldMod
        /\ v \in Nat /\ v < FieldMod
    BY RwParamAssumption
  <1>2. w \in Nat /\ w < UIntMod
    BY <1>1 DEF Words
  <1>3. /\ d \in Nat /\ r \in Nat /\ r < FieldMod /\ w = FieldMod * d + r
    BY <1>2, FieldDivision
  <1>4. d < FieldMod
    BY <1>1, <1>2, <1>3
  <1>5. Get(w, "lo") = r /\ Get(w, "hi") = d
    BY DEF Get
  <1> HIDE DEF d, r
  <1>6. CASE f = "lo"
    <2>1. Set(w, f, v) = FieldMod * d + v
      <3>1. Set(w, f, v) = (w - r) + v
        BY <1>5, <1>6 DEF Set
      <3>2. FieldMod * d \in Nat
        BY <1>1, <1>3
      <3> QED
        BY <1>1, <1>3, <3>1, <3>2
    <2>2. FieldMod * d + v \in Words
      BY <1>1, <1>3, <1>4, FieldBound
    <2>3. Get(FieldMod * d + v, "hi") = d
      BY <1>1, <1>3, FieldParts DEF Get
    <2> QED
      BY <1>3, <1>5, <1>6, <2>1, <2>2, <2>3 DEF Fields
  <1>7. CASE f = "hi"
    <2>1. Set(w, f, v) = FieldMod * v + r
      <3>1. Set(w, f, v) = r + v * FieldMod
        BY <1>5, <1>7 DEF Set
      <3> QED
        BY <1>1, <1>3, <3>1
    <2>2. FieldMod * v + r \in Words
      BY <1>1, <1>3, FieldBound
    <2>3. Get(FieldMod * v + r, "lo") = r
      BY <1>1, <1>3, FieldParts DEF Get
    <2> QED
      BY <1>3, <1>5, <1>7, <2>1, <2>2, <2>3 DEF Fields
  <1> QED
    BY <1>6, <1>7 DEF Fields

-----------------------------------------------------------------------------
(* Sockets a step does not concern. *)

\* What the step looks like from socket t.
Undisturbed(t) ==
    /\ sockOpen'[t] = sockOpen[t] /\ timeouts'[t] = timeouts[t]
    /\ call'[t] = call[t] /\ reqQ'[t] = reqQ[t]
    /\ PhaseOf(t)' = PhaseOf(t) /\ OutcomeOf(t)' = OutcomeOf(t)
    /\ param'[t] = param[t]
    /\ param[t].pc = "idle" => seen'[t] = seen[t]
    /\ param[t].pc # "idle" =>
        /\ seen'[t] = seen[t] \cup {regs'[param[t].offs]}
        /\ param[t].macro = "set" => regs'[param[t].offs] = regs[param[t].offs]

\* A macro is not affected by steps that do not concern its socket, and a SET not
\* by any but its own write.
LEMMA UndisturbedLocal ==
    ASSUME NEW t \in Socks, Local(t), Undisturbed(t)
    PROVE  Local(t)'
  <1> USE DEF Undisturbed
  <1>1. MacroCall(t)'
    <2>1. param[t].pc # "idle" => MacroState(t)'
      BY DEF Local, MacroCall, MacroState
    <2> QED
      BY <2>1 DEF Local, MacroCall, Waiting
  <1>2. OwnWrites(t)' /\ ClosedIsEmpty(t)'
    BY DEF Local, OwnWrites, ClosedIsEmpty
  <1>3. Returned(t)' <=> Returned(t)
    BY DEF Returned
  <1>4. param[t].pc # "idle" /\ param[t].macro = "set" =>
            seen'[t] = seen[t] /\ regs'[param[t].offs] = regs[param[t].offs]
    BY DEF Local, MacroCall, MacroState
  <1>5. ReadIsSeen(t)'
    BY <1>3, <1>4 DEF Local, ReadIsSeen
  <1>6. WriteIsSet(t)'
    <2>1. param[t].pc = "write" => param[t].macro = "set"
      BY DEF Local, MacroCall, MacroState
    <2>2. param[t].pc = "write" /\ Replaced(t) => Replaced(t)'
      BY <1>4, <2>1 DEF Replaced
    <2> QED
      BY <1>3, <1>4, <2>1, <2>2 DEF Local, WriteIsSet
  <1>7. FreshGet(t)'
    BY DEF Local, FreshGet, Replied
  <1> QED
    BY <1>1, <1>2, <1>5, <1>6, <1>7 DEF Local

\* What Observe adds to the words a macro has seen.
LEMMA ObserveCases ==
    ASSUME NEW t \in Socks
    PROVE  /\ param[t].pc # "idle" => Observe(t) = seen[t] \cup {regs'[param[t].offs]}
           /\ param[t].pc = "idle" /\ param'[t].pc = "idle" => Observe(t) = seen[t]
           /\ param[t].pc = "idle" /\ param'[t].pc # "idle" =>
                Observe(t) = {regs[param'[t].offs]}
  BY DEF Observe

\* Frame of a step of socket s: the state of the others.
Frame(s) ==
    \A t \in Socks \ {s} :
        /\ sockOpen'[t] = sockOpen[t] /\ timeouts'[t] = timeouts[t]
        /\ call'[t] = call[t] /\ reqQ'[t] = reqQ[t]
        /\ param'[t] = param[t]

\* A step of socket s, which may write the registers it owns, leaves the other
\* sockets undisturbed.
LEMMA OthersLocal ==
    ASSUME RwInv, NEW s \in Socks, OthersKept(s), Frame(s),
           \A o \in Offs : Owner[o] # s => regs'[o] = regs[o],
           seen' = [t \in Socks |-> Observe(t)]
    PROVE  \A t \in Socks \ {s} : Local(t)'
  <1> SUFFICES ASSUME NEW t \in Socks \ {s} PROVE Local(t)'
    OBVIOUS
  <1>1. Local(t) /\ t \in Socks
    BY DEF RwInv
  <1>2. Undisturbed(t)
    <2>1. seen'[t] = Observe(t) /\ param'[t] = param[t]
      BY DEF Frame
    <2>2. param[t].pc # "idle" /\ param[t].macro = "set" =>
            regs'[param[t].offs] = regs[param[t].offs]
      BY <1>1 DEF Local, MacroCall, MacroState
    <2> QED
      BY <1>1, <2>1, <2>2, ObserveCases DEF Undisturbed, Frame, OthersKept
  <1> QED
    BY <1>1, <1>2, UndisturbedLocal

\* The words seen are words.
LEMMA SeenTypes ==
    ASSUME RwInv, regs' \in [Offs -> Words], param' \in [Socks -> Param],
           \A t \in Socks : param[t].pc = "idle" /\ param'[t].pc # "idle" =>
                param'[t].offs \in Offs,
           seen' = [t \in Socks |-> Observe(t)]
    PROVE  RwTypes'
  <1>1. ASSUME NEW t \in Socks PROVE Observe(t) \in SUBSET Words
    <2>1. Local(t) /\ seen[t] \in SUBSET Words /\ regs \in [Offs -> Words]
      BY DEF RwInv, RwTypes, RInv, IInv, TypeOK
    <2>2. param[t].pc # "idle" => param[t].offs \in Offs
      BY <2>1 DEF Local, MacroCall, MacroState
    <2> QED
      BY <2>1, <2>2, ObserveCases
  <1> QED
    BY <1>1 DEF RwTypes

-----------------------------------------------------------------------------
(* The steps of the channel. *)

\* Sending a reply disturbs nobody.
LEMMA SendReplyRw ==
    ASSUME RwInv, SendReply, UNCHANGED param, seen' = [t \in Socks |-> Observe(t)]
    PROVE  RwInv'
  <1>1. RInv'
    BY SendReplyIInv, ChannelInStep DEF RwInv, RInv, ChannelNext
  <1>2. UNCHANGED <<devVars, call, reqQ, sockOpen, histVars, result>>
    BY DEF SendReply
  <1>3. ASSUME NEW t \in Socks PROVE Local(t)'
    <2>1. Undisturbed(t)
      <3>1. seen'[t] = Observe(t) /\ regs' = regs
        BY <1>2 DEF devVars
      <3> QED
        BY <1>2, <3>1, ObserveCases, SendReplyView DEF Undisturbed, RwInv, histVars
    <2> QED
      BY <2>1, UndisturbedLocal DEF RwInv
  <1>4. RwTypes'
    BY <1>2, SeenTypes DEF RwInv, RwTypes, RInv, IInv, TypeOK, devVars
  <1> QED
    BY <1>1, <1>3, <1>4 DEF RwInv

\* A register is changed by requests of its owner only.
LEMMA ServeOwned ==
    ASSUME RwInv, NEW s \in Socks, Serve(s), NEW o \in Offs, regs'[o] # regs[o]
    PROVE  /\ Head(reqQ[s]) \in Request
           /\ Head(reqQ[s]).op = "write" /\ Head(reqQ[s]).offs = o
           /\ regs'[o] = Head(reqQ[s]).word
           /\ Owner[o] = s
  <1>1. /\ Head(reqQ[s]) \in Request
        /\ Head(reqQ[s]).op = "write"
        /\ regs' = [regs EXCEPT ![Head(reqQ[s]).offs] = Head(reqQ[s]).word]
    BY ServeView DEF RwInv
  <1>2. regs \in [Offs -> Words] /\ Head(reqQ[s]).offs \in Offs
    BY <1>1 DEF RwInv, RInv, IInv, TypeOK, Request
  <1>3. Head(reqQ[s]).offs = o /\ regs'[o] = Head(reqQ[s]).word
    BY <1>1, <1>2
  <1>4. reqQ[s] \in Seq(Request) /\ reqQ[s] # <<>>
    BY DEF Serve, RwInv, RInv, IInv, TypeOK
  <1>5. Head(reqQ[s]) = reqQ[s][1] /\ 1 \in 1..Len(reqQ[s])
    BY <1>4
  <1>6. Owner[o] = s
    BY <1>1, <1>3, <1>5 DEF RwInv, Local, OwnWrites
  <1> QED
    BY <1>1, <1>3, <1>6

\* Serving the access of a macro gives it a word the register has at this moment,
\* or replaces one field of it.
LEMMA ServeLocal ==
    ASSUME RwInv, NEW s \in Socks, Serve(s), UNCHANGED param,
           seen' = [t \in Socks |-> Observe(t)]
    PROVE  Local(s)'
  <1> DEFINE p == param[s]  o == p.offs
  <1>1. Local(s) /\ RInv
    BY DEF RwInv
  <1>2. /\ reqQ[s] \in Seq(Request) /\ reqQ[s] # <<>>
        /\ reqQ' = [reqQ EXCEPT ![s] = Tail(@)]
        /\ UNCHANGED <<call, repQ, sockOpen, histVars, result>>
    BY DEF Serve, RwInv, RInv, IInv, TypeOK
  <1>3. reqQ'[s] = Tail(reqQ[s]) /\ seen'[s] = Observe(s) /\ p' = p
    BY <1>2 DEF RwInv, RInv, IInv, TypeOK
  <1>4. p.pc # "idle" => MacroState(s) /\ seen'[s] = seen[s] \cup {regs'[o]}
    BY <1>1, <1>3, ObserveCases DEF Local, MacroCall
  <1>5. MacroCall(s)'
    <2>1. p.pc # "idle" => MacroState(s)'
      BY <1>2, <1>3, <1>4 DEF MacroState
    <2> QED
      BY <1>1, <1>2, <2>1 DEF Local, MacroCall, Waiting
  <1>6. OwnWrites(s)' /\ ClosedIsEmpty(s)'
    <2>1. \A i \in 1..Len(Tail(reqQ[s])) :
            i + 1 \in 1..Len(reqQ[s]) /\ Tail(reqQ[s])[i] = reqQ[s][i + 1]
      BY <1>2
    <2> QED
      BY <1>1, <1>2, <1>3, <2>1 DEF Local, OwnWrites, ClosedIsEmpty, histVars
  <1>7. FreshGet(s)'
    <2>1. p.pc = "idle" => seen'[s] = seen[s]
      BY <1>3, ObserveCases
    <2> QED
      BY <1>1, <1>2, <1>3, <2>1 DEF Local, FreshGet, Replied, histVars
  <1>8. CASE timeouts[s] # 0 \/ p.pc = "idle"
    <2>1. ReadIsSeen(s)' /\ WriteIsSet(s)'
      BY <1>2, <1>3, <1>8 DEF ReadIsSeen, WriteIsSet, histVars
    <2> QED
      BY <1>5, <1>6, <1>7, <2>1 DEF Local
  <1>9. CASE timeouts[s] = 0 /\ p.pc # "idle"
    <2>1. Attached(s)
      BY <1>4, <1>9 DEF MacroState, Attached
    <2>2. /\ PhaseOf(s) = "issued" /\ PhaseOf(s)' = "done"
          /\ Waiting(s) /\ Head(reqQ[s]) = call[s]
          /\ \/ Abstract!ReadOutcome(AccessOf(s), OutcomeOf(s)')
             \/ Abstract!WriteOutcome(AccessOf(s), OutcomeOf(s)')
             \/ Abstract!OtherOutcome(AccessOf(s), OutcomeOf(s)')
      BY <1>1, <2>1, ServeView
    <2>3. /\ call[s].op = p.pc /\ call[s].offs = o /\ call[s].size = AckSize
          /\ call[s] \in Request
      BY <1>1, <2>2, WaitingIsRequest DEF Local, MacroCall, RInv, IInv
    <2>4. /\ AccessOf(s).op = p.pc /\ AccessOf(s).offs = o
          /\ AccessOf(s).size = AckSize /\ AccessOf(s).word = call[s].word
      BY <2>1, <2>2, <2>3 DEF AccessOf
    <2>5. o \in Offs /\ regs \in [Offs -> Words] /\ regs[o] \in seen[s]
      BY <1>1, <1>4, <1>9 DEF MacroState, RInv, IInv, TypeOK
    <2>6. CASE p.pc = "read"
      <3>1. /\ UNCHANGED regs
            /\ OutcomeOf(s)'.ret = AckSize => OutcomeOf(s)'.word = regs[o]
        BY <2>2, <2>4, <2>6 DEF Abstract!ReadOutcome, Abstract!WriteOutcome,
                                Abstract!OtherOutcome
      <3>2. seen'[s] = seen[s]
        BY <1>4, <2>5, <2>6, <3>1
      <3>3. ReadIsSeen(s)'
        BY <1>1, <1>2, <1>3, <1>9, <2>5, <2>6, <3>1, <3>2
           DEF ReadIsSeen, Returned, Local, histVars
      <3>4. WriteIsSet(s)'
        BY <1>3, <2>6 DEF WriteIsSet
      <3> QED
        BY <1>5, <1>6, <1>7, <3>3, <3>4 DEF Local
    <2>7. CASE p.pc = "write"
      <3>1. \/ regs' = [regs EXCEPT ![o] = call[s].word]
            \/ OutcomeOf(s)'.ret # AckSize
        BY <2>2, <2>4, <2>7 DEF Abstract!ReadOutcome, Abstract!WriteOutcome,
                                Abstract!OtherOutcome
      <3>2. ASSUME p.code = RW_OK, OutcomeOf(s)'.ret = AckSize
            PROVE  Replaced(s)'
        <4>1. /\ seen[s] = {regs[o]}
              /\ call[s].word = Set(regs[o], p.field, p.value)
          BY <1>1, <1>9, <2>2, <2>7, <3>2 DEF Local, WriteIsSet
        <4>2. regs'[o] = Set(regs[o], p.field, p.value)
          BY <2>5, <3>1, <3>2, <4>1
        <4>3. seen'[s] = {regs[o], regs'[o]}
          BY <1>4, <2>7, <4>1
        <4> QED
          BY <1>3, <4>2, <4>3 DEF Replaced, Set, Get
      <3>3. WriteIsSet(s)'
        BY <1>3, <2>2, <3>2 DEF WriteIsSet, Returned
      <3>4. ReadIsSeen(s)'
        BY <1>3, <2>7 DEF ReadIsSeen
      <3> QED
        BY <1>5, <1>6, <1>7, <3>3, <3>4 DEF Local
    <2>8. p.pc \in {"read", "write"}
      BY <1>9 DEF RwInv, RwTypes, Param
    <2> QED
      BY <2>6, <2>7, <2>8
  <1> QED
    BY <1>8, <1>9

\* DEVIO's accesses preserve the invariant.
LEMMA ServeRw ==
    ASSUME RwInv, NEW s \in Socks, Serve(s), UNCHANGED param,
           seen' = [t \in Socks |-> Observe(t)]
    PROVE  RwInv'
  <1>1. RInv'
    BY ServeIInv, ChannelInStep DEF RwInv, RInv, ChannelNext
  <1>2. Frame(s)
    BY DEF Serve, Frame, histVars, RwInv, RInv, IInv, TypeOK
  <1>3. OthersKept(s)
    BY ServeView DEF RwInv
  <1>4. \A t \in Socks \ {s} : Local(t)'
    BY <1>2, <1>3, ServeOwned, OthersLocal
  <1>5. Local(s)'
    BY ServeLocal
  <1>6. RwTypes'
    BY <1>1, SeenTypes DEF RwInv, RwTypes, RInv, IInv, TypeOK
  <1> QED
    BY <1>1, <1>4, <1>5, <1>6 DEF RwInv

\* A socket that is detached, or in no macro, keeps its facts whatever happens to
\* its replies.
LEMMA QuietLocal ==
    ASSUME RwInv, NEW s \in Socks, Local(s), param'[s] = param[s], UNCHANGED regs,
           param[s].pc = "idle" \/ timeouts'[s] # 0,
           seen'[s] = Observe(s), reqQ'[s] = reqQ[s],
           timeouts'[s] = 0 => timeouts[s] = 0,
           param[s].pc # "idle" => sockOpen'[s],
           Waiting(s)' => Waiting(s) /\ call'[s] = call[s],
           ClosedIsEmpty(s)'
    PROVE  Local(s)'
  <1>1. param[s].pc # "idle" => MacroState(s)'
    BY ObserveCases DEF Local, MacroCall, MacroState
  <1>2. MacroCall(s)'
    BY <1>1 DEF Local, MacroCall
  <1>3. OwnWrites(s)'
    BY DEF Local, OwnWrites
  <1>4. ReadIsSeen(s)' /\ WriteIsSet(s)'
    BY DEF ReadIsSeen, WriteIsSet
  <1>5. FreshGet(s)'
    BY ObserveCases DEF Local, FreshGet, Replied
  <1> QED
    BY <1>2, <1>3, <1>4, <1>5 DEF Local

\* A reply that is received hands the outcome to the macro.
LEMMA ReceiveRw ==
    ASSUME RwInv, NEW s \in Socks, Recv(s), UNCHANGED param,
           seen' = [t \in Socks |-> Observe(t)]
    PROVE  RwInv'
  <1> DEFINE p == param[s]
  <1>1. RInv' /\ RInv /\ Local(s)
    BY RecvIInv, ChannelInStep DEF RwInv, RInv, ChannelNext
  <1>2. /\ Waiting(s) /\ call' = [call EXCEPT ![s] = NoCall]
        /\ UNCHANGED <<devVars, reqQ, job, sockOpen, issued, timeouts>>
    BY <1>1, RecvEffect DEF RInv, IInv
  <1>3. Frame(s) /\ call'[s] = NoCall
    BY <1>1, <1>2 DEF Frame, RInv, IInv, TypeOK
  <1>4. OthersKept(s) /\ UNCHANGED regs
    BY <1>1, RecvView
  <1>5. \A t \in Socks \ {s} : Local(t)'
    BY <1>3, <1>4, OthersLocal
  <1>6. RwTypes'
    BY <1>4, SeenTypes DEF RwInv, RwTypes, RInv, IInv, TypeOK
  <1>7. seen'[s] = Observe(s) /\ ~Waiting(s)'
    BY <1>3 DEF Waiting, NoCall
  <1>8. MacroState(s) /\ p.pc # "idle"
    BY <1>1, <1>2 DEF Local, MacroCall
  <1>9. CASE timeouts[s] # 0
    <2>1. ClosedIsEmpty(s)'
      BY <1>2, <1>9 DEF ClosedIsEmpty
    <2>2. Local(s)'
      BY <1>1, <1>2, <1>4, <1>7, <1>8, <1>9, <2>1, QuietLocal DEF MacroState
    <2> QED
      BY <1>1, <1>5, <1>6, <2>2 DEF RwInv
  <1>10. CASE timeouts[s] = 0
    <2>1. PhaseOf(s) = "done" /\ PhaseOf(s)' = "idle" /\ OutcomeOf(s)' = OutcomeOf(s)
      BY <1>1, <1>8, <1>10, RecvView DEF MacroState, Attached
    <2>2. Returned(s)' <=> Returned(s)
      BY <2>1 DEF Returned
    <2>3. seen'[s] = seen[s]
      <3>1. seen'[s] = seen[s] \cup {regs'[param[s].offs]}
        BY <1>7, <1>8, ObserveCases
      <3>2. regs'[param[s].offs] \in seen[s]
        BY <1>4, <1>8 DEF MacroState
      <3> QED
        BY <3>1, <3>2
    <2>4. MacroCall(s)'
      BY <1>1, <1>2, <1>4, <1>7, <1>8, <2>3 DEF MacroCall, MacroState
    <2>5. OwnWrites(s)' /\ ClosedIsEmpty(s)'
      BY <1>1, <1>2 DEF Local, OwnWrites, ClosedIsEmpty
    <2>6. ReadIsSeen(s)' /\ FreshGet(s)'
      BY <1>1, <1>2, <1>4, <2>1, <2>2, <2>3 DEF Local, ReadIsSeen, FreshGet, Replied
    <2>7. WriteIsSet(s)'
      <3>1. Replaced(s) => Replaced(s)'
        BY <1>4, <2>3 DEF Replaced
      <3> QED
        BY <1>1, <1>2, <1>4, <2>1, <2>2, <3>1 DEF Local, WriteIsSet
    <2> QED
      BY <1>1, <1>5, <1>6, <2>4, <2>5, <2>6, <2>7 DEF RwInv, Local
  <1> QED
    BY <1>9, <1>10

\* After a timeout nothing is promised to the socket.
LEMMA TimeoutRw ==
    ASSUME RwInv, NEW s \in Socks, Timeout(s), UNCHANGED param,
           seen' = [t \in Socks |-> Observe(t)]
    PROVE  RwInv'
  <1>1. RInv' /\ RInv /\ Local(s)
    BY TimeoutIInv, ChannelInStep DEF RwInv, RInv, ChannelNext
  <1>2. /\ Waiting(s) /\ call' = [call EXCEPT ![s] = NoCall]
        /\ timeouts' = [timeouts EXCEPT ![s] = @ + 1]
        /\ UNCHANGED <<devVars, reqQ, job, repQ, sockOpen, issued, taken>>
    BY <1>1, TimeoutEffect DEF RInv, IInv
  <1>3. Frame(s) /\ call'[s] = NoCall /\ timeouts'[s] # 0
    BY <1>1, <1>2 DEF Frame, RInv, IInv, TypeOK
  <1>4. OthersKept(s) /\ UNCHANGED regs
    BY <1>1, TimeoutView
  <1>5. \A t \in Socks \ {s} : Local(t)'
    BY <1>3, <1>4, OthersLocal
  <1>6. RwTypes'
    BY <1>4, SeenTypes DEF RwInv, RwTypes, RInv, IInv, TypeOK
  <1>7. seen'[s] = Observe(s) /\ ~Waiting(s)' /\ ClosedIsEmpty(s)'
    BY <1>3 DEF Waiting, NoCall, ClosedIsEmpty
  <1>8. MacroState(s)
    BY <1>1, <1>2 DEF Local, MacroCall
  <1>9. Local(s)'
    BY <1>1, <1>2, <1>3, <1>4, <1>7, <1>8, QuietLocal DEF MacroState
  <1> QED
    BY <1>1, <1>5, <1>6, <1>9 DEF RwInv

\* A socket is closed outside of macros, and without a timeout its queues are
\* empty then.
LEMMA CloseRw ==
    ASSUME RwInv, NEW s \in Socks, param[s].pc = "idle", Close(s), UNCHANGED param,
           seen' = [t \in Socks |-> Observe(t)]
    PROVE  RwInv'
  <1>1. RInv' /\ RInv /\ Local(s)
    BY CloseIInv, ChannelInStep DEF RwInv, RInv, ChannelNext
  <1>2. /\ sockOpen[s] /\ ~Waiting(s)
        /\ sockOpen' = [sockOpen EXCEPT ![s] = FALSE]
        /\ UNCHANGED <<devVars, call, reqQ, job, histVars, result>>
    BY DEF Close
  <1>3. Frame(s)
    BY <1>1, <1>2 DEF Frame, RInv, IInv, TypeOK, histVars
  <1>4. OthersKept(s) /\ UNCHANGED regs
    BY <1>1, CloseView
  <1>5. \A t \in Socks \ {s} : Local(t)'
    BY <1>3, <1>4, OthersLocal
  <1>6. RwTypes'
    BY <1>4, SeenTypes DEF RwInv, RwTypes, RInv, IInv, TypeOK
  <1>7. ClosedIsEmpty(s)'
    BY <1>1, <1>2, OneInFlight DEF ClosedIsEmpty, RInv, histVars
  <1>8. Local(s)'
    BY <1>1, <1>2, <1>4, <1>7, QuietLocal DEF Waiting, histVars
  <1> QED
    BY <1>1, <1>5, <1>6, <1>8 DEF RwInv

-----------------------------------------------------------------------------
(* The steps of the macros. *)

\* The access a macro makes: the channel keeps its facts, and the other sockets
\* theirs.
LEMMA MacroCalls ==
    ASSUME RwInv, NEW s \in Socks, NEW op \in {"read", "write"}, NEW o \in Offs,
           NEW w \in Words, Call(s, op, o, AckSize, w),
           op = "write" => Owner[o] = s,
           param' \in [Socks -> Param],
           \A t \in Socks \ {s} : param'[t] = param[t],
           param'[s].pc = op /\ param'[s].offs = o,
           seen' = [t \in Socks |-> Observe(t)]
    PROVE  /\ RInv' /\ RwTypes'
           /\ \A t \in Socks \ {s} : Local(t)'
           /\ OwnWrites(s)' /\ ClosedIsEmpty(s)'
           /\ UNCHANGED <<regs, sockOpen, timeouts>> /\ sockOpen[s]
           /\ call'[s].op = op /\ call'[s].offs = o /\ call'[s].size = AckSize
           /\ call'[s].word = w
           /\ timeouts[s] = 0 => PhaseOf(s) = "idle" /\ PhaseOf(s)' = "issued"
           /\ seen'[s] = Observe(s)
  <1>1. AckSize \in Sizes /\ op \in Ops
    BY ThsafeAssumption DEF Ops
  <1>2. RInv' /\ RInv /\ Local(s)
    BY <1>1, CallIInv, CallInStep DEF RwInv, RInv
  <1> DEFINE q == [id |-> issued[s] + 1, op |-> op, offs |-> o, size |-> AckSize, word |-> w]
  <1>3. /\ sockOpen[s] /\ call' = [call EXCEPT ![s] = q]
        /\ reqQ' = [reqQ EXCEPT ![s] = Append(@, q)]
        /\ UNCHANGED <<devVars, job, repQ, sockOpen, taken, timeouts, result>>
    BY DEF Call
  <1>4. q \in Request
    <2>1. issued[s] + 1 \in Nat
      <3>1. issued \in [Socks -> Nat]
        BY DEF RwInv, RInv, IInv, TypeOK
      <3> QED
        BY <3>1
    <2> DEFINE id == issued[s] + 1
    <2> HIDE DEF id
    <2>2. [id |-> id, op |-> op, offs |-> o, size |-> AckSize, word |-> w] \in Request
      BY <1>1, <2>1 DEF Request, id
    <2> QED
      BY <2>2 DEF id
  <1>5. q.op = op /\ q.offs = o /\ q.size = AckSize /\ q.word = w
    OBVIOUS
  <1> HIDE DEF q
  <1>6. /\ call'[s] = q /\ reqQ'[s] = Append(reqQ[s], q) /\ reqQ[s] \in Seq(Request)
        /\ Frame(s)
    BY <1>2, <1>3 DEF Frame, RInv, IInv, TypeOK
  <1>7. /\ OthersKept(s) /\ UNCHANGED regs
        /\ Attached(s) => PhaseOf(s) = "idle" /\ PhaseOf(s)' = "issued"
    BY <1>1, <1>2, CallView
  <1>8. \A t \in Socks \ {s} : Local(t)'
    BY <1>6, <1>7, OthersLocal
  <1>9. RwTypes'
    <2>1. \A t \in Socks : param[t].pc = "idle" /\ param'[t].pc # "idle" =>
                param'[t].offs \in Offs
      OBVIOUS
    <2> QED
      BY <1>2, <1>7, <2>1, SeenTypes DEF RInv, IInv, TypeOK
  <1>10. OwnWrites(s)' /\ ClosedIsEmpty(s)'
    <2>1. \A i \in 1..Len(Append(reqQ[s], q)) :
            \/ Append(reqQ[s], q)[i] = q
            \/ i \in 1..Len(reqQ[s]) /\ Append(reqQ[s], q)[i] = reqQ[s][i]
      <3>1. /\ Len(Append(reqQ[s], q)) = Len(reqQ[s]) + 1 /\ Len(reqQ[s]) \in Nat
            /\ Append(reqQ[s], q)[Len(reqQ[s]) + 1] = q
            /\ \A i \in 1..Len(reqQ[s]) : Append(reqQ[s], q)[i] = reqQ[s][i]
        BY <1>4, <1>6
      <3> QED
        BY <3>1
    <2>2. OwnWrites(s)'
      BY <1>2, <1>5, <1>6, <2>1 DEF Local, OwnWrites
    <2> QED
      BY <1>3, <2>2 DEF ClosedIsEmpty
  <1> QED
    BY <1>2, <1>3, <1>5, <1>6, <1>7, <1>8, <1>9, <1>10 DEF Attached

\* The read that starts a GET or a SET.
LEMMA StartRw ==
    ASSUME RwInv, NEW s \in Socks, NEW o \in Offs, NEW f \in Fields,
           NEW v \in 0..MaxValue, NEW macro \in {"get", "set"},
           macro = "set" => Owner[o] = s,
           param[s].pc = "idle", Call(s, "read", o, AckSize, 0),
           param' = [param EXCEPT ![s] = [pc |-> "read", macro |-> macro, offs |-> o,
                                          field |-> f, value |-> v, code |-> RW_OK]],
           seen' = [t \in Socks |-> Observe(t)]
    PROVE  RwInv'
  <1> DEFINE p == [pc |-> "read", macro |-> macro, offs |-> o,
                   field |-> f, value |-> v, code |-> RW_OK]
  <1>1. p \in Param
    BY RwParamAssumption DEF Param
  <1>2. /\ p.pc = "read" /\ p.macro = macro /\ p.offs = o /\ p.field = f
        /\ p.value = v /\ p.code = RW_OK
    OBVIOUS
  <1>3. param' = [param EXCEPT ![s] = p]
    OBVIOUS
  <1> HIDE DEF p
  <1>4. /\ param'[s] = p /\ param' \in [Socks -> Param]
        /\ \A t \in Socks \ {s} : param'[t] = param[t]
    BY <1>1, <1>3 DEF RwInv, RwTypes
  <1>5. /\ RInv' /\ RwTypes'
        /\ \A t \in Socks \ {s} : Local(t)'
        /\ OwnWrites(s)' /\ ClosedIsEmpty(s)'
        /\ UNCHANGED <<regs, sockOpen, timeouts>> /\ sockOpen[s]
        /\ call'[s].op = "read" /\ call'[s].offs = o /\ call'[s].size = AckSize
        /\ timeouts[s] = 0 => PhaseOf(s) = "idle" /\ PhaseOf(s)' = "issued"
        /\ seen'[s] = Observe(s)
    BY <1>2, <1>4, ZeroWord, MacroCalls
  <1>6. seen'[s] = {regs[o]}
    BY <1>2, <1>4, <1>5, ObserveCases
  <1>7. MacroState(s)'
    BY <1>2, <1>4, <1>5, <1>6 DEF MacroState
  <1>8. MacroCall(s)'
    BY <1>2, <1>4, <1>5, <1>7 DEF MacroCall
  <1>9. ReadIsSeen(s)'
    BY <1>2, <1>4, <1>5, <1>6 DEF ReadIsSeen, Returned
  <1>10. WriteIsSet(s)' /\ FreshGet(s)'
    BY <1>2, <1>4 DEF WriteIsSet, FreshGet, Replied
  <1> QED
    BY <1>5, <1>8, <1>9, <1>10 DEF RwInv, Local

\* The write of a SET: the word it read with one field replaced, or any word of the
\* stack if the read was incomplete.
LEMMA SetWriteRw ==
    ASSUME RwInv, NEW s \in Socks, SetWrite(s), seen' = [t \in Socks |-> Observe(t)]
    PROVE  RwInv'
  <1> DEFINE p == param[s]  o == p.offs  complete == result[s].ret = AckSize
             c == IF complete THEN p.code ELSE RW_WRITE_EAGAIN
  <1>1. p.pc = "read" /\ p.macro = "set" /\ ~Waiting(s)
    BY DEF SetWrite
  <1>2. PICK w \in IF complete THEN {result[s].word} ELSE StackWords :
          Call(s, "write", o, AckSize, Set(w, p.field, p.value))
    BY DEF SetWrite
  <1>3. param' = [param EXCEPT ![s].pc = "write", ![s].code = c]
    BY DEF SetWrite
  <1>4. /\ p \in Param /\ RInv /\ Local(s) /\ MacroState(s)
    BY <1>1 DEF RwInv, RwTypes, Local, MacroCall
  <1>5. /\ o \in Offs /\ p.field \in Fields /\ p.value \in 0..MaxValue
        /\ Owner[o] = s /\ p.code = RW_OK /\ sockOpen[s] /\ regs[o] \in seen[s]
    BY <1>1, <1>4 DEF MacroState
  <1>6. w \in Words
    <2>1. result[s].word \in Words
      BY <1>4 DEF RInv, IInv, TypeOK, Result
    <2> QED
      BY <1>2, <2>1, RwParamAssumption
  <1> DEFINE x == Set(w, p.field, p.value)
  <1>7. x \in Words
    BY <1>5, <1>6, SetField
  <1> DEFINE n == [p EXCEPT !.pc = "write", !.code = c]
  <1>8. /\ n \in Param /\ n.pc = "write" /\ n.macro = "set" /\ n.offs = o
        /\ n.field = p.field /\ n.value = p.value /\ n.code = c
    BY <1>1, <1>4 DEF Param
  <1>9. param' = [param EXCEPT ![s] = n]
    BY <1>3 DEF RwInv, RwTypes
  <1> HIDE DEF n
  <1>10. /\ param'[s] = n /\ param' \in [Socks -> Param]
         /\ \A t \in Socks \ {s} : param'[t] = param[t]
    BY <1>8, <1>9 DEF RwInv, RwTypes
  <1>11. Call(s, "write", o, AckSize, x)
    BY <1>2
  <1> HIDE DEF x
  <1>12. /\ RInv' /\ RwTypes'
         /\ \A t \in Socks \ {s} : Local(t)'
         /\ OwnWrites(s)' /\ ClosedIsEmpty(s)'
         /\ UNCHANGED <<regs, sockOpen, timeouts>>
         /\ call'[s].op = "write" /\ call'[s].offs = o /\ call'[s].size = AckSize
         /\ call'[s].word = x
         /\ timeouts[s] = 0 => PhaseOf(s) = "idle" /\ PhaseOf(s)' = "issued"
         /\ seen'[s] = Observe(s)
    BY <1>5, <1>7, <1>8, <1>10, <1>11, MacroCalls
  <1>13. seen'[s] = seen[s]
    <2>1. seen'[s] = seen[s] \cup {regs'[o]}
      BY <1>1, <1>12, ObserveCases
    <2> QED
      BY <1>5, <1>12, <2>1
  <1>14. MacroState(s)'
    BY <1>5, <1>8, <1>10, <1>12, <1>13 DEF MacroState
  <1>15. MacroCall(s)'
    BY <1>8, <1>10, <1>12, <1>14 DEF MacroCall
  <1>16. WriteIsSet(s)'
    <2> SUFFICES ASSUME timeouts[s] = 0, c = RW_OK
                 PROVE  /\ seen[s] = {regs[o]}
                        /\ x = Set(regs[o], p.field, p.value)
      BY <1>8, <1>10, <1>12, <1>13 DEF WriteIsSet, Returned, Set, Get
    <2>1. complete /\ w = result[s].word
      BY <1>2 DEF RW_OK, RW_WRITE_EAGAIN
    <2>2. PhaseOf(s) = "idle" /\ OutcomeOf(s) = [ret |-> result[s].ret, word |-> result[s].word]
      BY <1>12 DEF OutcomeOf
    <2>3. w \in seen[s] /\ seen[s] = {regs[o]}
      BY <1>1, <1>4, <2>1, <2>2 DEF Local, ReadIsSeen, Returned
    <2> QED
      BY <2>3 DEF x
  <1>17. ReadIsSeen(s)' /\ FreshGet(s)'
    BY <1>8, <1>10 DEF ReadIsSeen, FreshGet, Replied
  <1> QED
    BY <1>12, <1>15, <1>16, <1>17 DEF RwInv, Local

\* A macro that returns, or is rejected, leaves the channel as it is.
LEMMA ReturnRw ==
    ASSUME RwInv, NEW s \in Socks, UNCHANGED vars, ~Waiting(s),
           NEW p \in Param, param' = [param EXCEPT ![s] = p], p.pc = "idle",
           seen' = [t \in Socks |-> Observe(t)], FreshGet(s)'
    PROVE  RwInv'
  <1>1. RInv'
    <2>1. IInv'
      BY StutterIInv DEF RwInv, RInv
    <2>2. InStep'
      BY DEF RwInv, RInv, InStep, Waiting, vars, histVars
    <2> QED
      BY <2>1, <2>2 DEF RInv
  <1>2. /\ param'[s] = p /\ param' \in [Socks -> Param]
        /\ \A t \in Socks \ {s} : param'[t] = param[t]
    BY DEF RwInv, RwTypes
  <1>3. Frame(s) /\ OthersKept(s)
    BY <1>2, LooksTheSame DEF Frame, OthersKept, vars, histVars
  <1>4. \A t \in Socks \ {s} : Local(t)'
    BY <1>3, OthersLocal DEF vars, devVars
  <1>5. RwTypes'
    <2>1. \A t \in Socks : ~(param[t].pc = "idle" /\ param'[t].pc # "idle")
      BY <1>2
    <2> QED
      BY <1>1, <1>2, <2>1, SeenTypes DEF RInv, IInv, TypeOK
  <1>6. MacroCall(s)' /\ OwnWrites(s)' /\ ClosedIsEmpty(s)' /\ ReadIsSeen(s)' /\ WriteIsSet(s)'
    BY <1>2 DEF RwInv, Local, MacroCall, OwnWrites, ClosedIsEmpty, ReadIsSeen, WriteIsSet,
                Waiting, vars, histVars
  <1> QED
    BY <1>1, <1>4, <1>5, <1>6 DEF RwInv, Local

\* A GET returns a field of the word it read, or RW_READ_EAGAIN.
LEMMA GetReturnRw ==
    ASSUME RwInv, NEW s \in Socks, GetReturn(s), seen' = [t \in Socks |-> Observe(t)]
    PROVE  RwInv'
  <1> DEFINE p == param[s]  complete == result[s].ret = AckSize
             c == IF complete THEN RW_OK ELSE RW_READ_EAGAIN
             v == IF complete THEN Get(result[s].word, p.field) ELSE 0
             n == [p EXCEPT !.pc = "idle", !.code = c, !.value = v]
  <1>1. p.pc = "read" /\ p.macro = "get" /\ ~Waiting(s) /\ UNCHANGED vars
    BY DEF GetReturn
  <1>2. p \in Param /\ Local(s) /\ MacroState(s) /\ RInv
    BY <1>1 DEF RwInv, RwTypes, Local, MacroCall
  <1>3. p.field \in Fields /\ p.offs \in Offs /\ sockOpen[s] /\ regs[p.offs] \in seen[s]
    BY <1>2 DEF MacroState
  <1>4. v \in Nat
    <2>1. result[s].word \in Words /\ 0 \in 0..MaxValue
      BY <1>2, RwParamAssumption DEF RInv, IInv, TypeOK, Result
    <2> QED
      BY <1>3, <2>1, SetField
  <1>5. param' = [param EXCEPT ![s].pc = "idle", ![s].code = c, ![s].value = v]
    BY DEF GetReturn
  <1>6. v = IF complete THEN Get(result[s].word, p.field) ELSE 0
    OBVIOUS
  <1> HIDE DEF v
  <1>7. /\ n \in Param /\ n.pc = "idle" /\ n.macro = "get" /\ n.field = p.field
        /\ n.value = v /\ n.code = c
    BY <1>1, <1>2, <1>4 DEF Param
  <1>8. param' = [param EXCEPT ![s] = n]
    BY <1>5 DEF RwInv, RwTypes
  <1> HIDE DEF n
  <1>9. param'[s] = n /\ seen'[s] = Observe(s)
    BY <1>8 DEF RwInv, RwTypes
  <1>10. FreshGet(s)'
    <2> SUFFICES ASSUME timeouts[s] = 0, c = RW_OK
                 PROVE  \E w \in seen'[s] : Get(w, p.field) = v
      BY <1>1, <1>7, <1>9 DEF FreshGet, Replied, vars, histVars, Get
    <2>1. complete
      BY DEF RW_OK, RW_READ_EAGAIN
    <2>2. PhaseOf(s) = "idle" /\ OutcomeOf(s) = [ret |-> result[s].ret, word |-> result[s].word]
      BY <1>1, <1>3 DEF OutcomeOf, PhaseOf, Attached
    <2>3. result[s].word \in seen[s]
      BY <1>1, <1>2, <2>1, <2>2 DEF Local, ReadIsSeen, Returned
    <2>4. result[s].word \in seen'[s]
      BY <1>1, <1>9, <2>3, ObserveCases
    <2> QED
      BY <1>6, <2>1, <2>4
  <1> QED
    BY <1>1, <1>7, <1>8, <1>10, ReturnRw

\* A SET returns RW_OK or RW_WRITE_EAGAIN.
LEMMA SetReturnRw ==
    ASSUME RwInv, NEW s \in Socks, SetReturn(s), seen' = [t \in Socks |-> Observe(t)]
    PROVE  RwInv'
  <1> DEFINE p == param[s]
             c == IF result[s].ret = AckSize THEN p.code ELSE RW_WRITE_EAGAIN
             n == [p EXCEPT !.pc = "idle", !.code = c]
  <1>1. /\ p.pc = "write" /\ ~Waiting(s) /\ UNCHANGED vars
        /\ param' = [param EXCEPT ![s].pc = "idle", ![s].code = c]
    BY DEF SetReturn
  <1>2. p \in Param /\ p.macro = "set"
    BY <1>1 DEF RwInv, RwTypes, Local, MacroCall, MacroState
  <1>3. n \in Param /\ n.pc = "idle" /\ n.macro = "set"
    BY <1>1, <1>2 DEF Param
  <1>4. param' = [param EXCEPT ![s] = n]
    BY <1>1 DEF RwInv, RwTypes
  <1> HIDE DEF n
  <1>5. FreshGet(s)'
    BY <1>3, <1>4 DEF FreshGet, Replied, RwInv, RwTypes
  <1> QED
    BY <1>1, <1>3, <1>4, <1>5, ReturnRw

\* A SET beyond its limit makes no access.
LEMMA SetRejectRw ==
    ASSUME RwInv, NEW s \in Socks, NEW o \in Offs, NEW f \in Fields,
           NEW v \in 0..(MaxValue + 1), SetReject(s, o, f, v),
           seen' = [t \in Socks |-> Observe(t)]
    PROVE  RwInv'
  <1> DEFINE n == [pc |-> "idle", macro |-> "set", offs |-> o,
                   field |-> f, value |-> v, code |-> RW_USR_ERR]
  <1>1. v \in Nat
    BY RwParamAssumption
  <1>2. n \in Param /\ n.pc = "idle" /\ n.macro = "set"
    BY <1>1 DEF Param
  <1>3. param[s].pc = "idle" /\ param' = [param EXCEPT ![s] = n] /\ UNCHANGED vars
    BY DEF SetReject, CanStart
  <1> HIDE DEF n
  <1>4. ~Waiting(s)
    BY <1>3 DEF RwInv, Local, MacroCall
  <1>5. FreshGet(s)'
    BY <1>2, <1>3 DEF FreshGet, Replied, RwInv, RwTypes
  <1> QED
    BY <1>2, <1>3, <1>4, <1>5, ReturnRw

-----------------------------------------------------------------------------
\* No macro is executing at start.
LEMMA InitRw == RwInit => RwInv
  <1> SUFFICES ASSUME RwInit PROVE RwInv
    OBVIOUS
  <1>1. RInv
    BY InitIInv DEF RwInit, Init, InStep, RInv
  <1>2. RwTypes
    <2>1. NoParam \in Param
      BY DEF NoParam, Param
    <2> QED
      BY <2>1 DEF RwInit, RwTypes
  <1>3. ASSUME NEW s \in Socks PROVE Local(s)
    <2>1. /\ param[s].pc = "idle" /\ param[s].macro = "none"
          /\ call[s] = NoCall /\ reqQ[s] = <<>>
      BY DEF RwInit, Init, NoParam
    <2>2. MacroCall(s) /\ ClosedIsEmpty(s)
      BY <2>1 DEF MacroCall, ClosedIsEmpty, Waiting, NoCall
    <2>3. OwnWrites(s)
      BY <2>1 DEF OwnWrites
    <2> QED
      BY <2>1, <2>2, <2>3 DEF Local, ReadIsSeen, WriteIsSet, FreshGet, Replied
  <1> QED
    BY <1>1, <1>2, <1>3 DEF RwInv

\* Every step of the macros and of the channel under them preserves the invariant.
LEMMA StepRw ==
    ASSUME RwInv, [RwNext]_<<vars, rwVars>>
    PROVE  RwInv'
  <1>1. CASE RwNext
    <2> USE <1>1
    <2>1. seen' = [s \in Socks |-> Observe(s)]
      BY DEF RwNext
    <2>2. CASE Channel
      BY <2>1, <2>2, SendReplyRw, ServeRw, ReceiveRw, TimeoutRw, CloseRw DEF Channel
    <2>3. ASSUME NEW s \in Socks, Macro(s) PROVE RwInv'
      <3>1. ASSUME NEW o \in Offs, NEW f \in Fields, GetParam(s, o, f) PROVE RwInv'
        <4>1. 0 \in 0..MaxValue
          BY RwParamAssumption
        <4> QED
          BY <2>1, <3>1, <4>1, StartRw DEF GetParam, CanStart
      <3>2. ASSUME NEW o \in Offs, NEW f \in Fields, NEW v \in 0..(MaxValue + 1),
                   SetParam(s, o, f, v)
            PROVE  RwInv'
        <4>1. v \in 0..MaxValue
          BY <3>2, RwParamAssumption DEF SetParam, CheckParam
        <4> QED
          BY <2>1, <3>2, <4>1, StartRw DEF SetParam, CanStart
      <3> QED
        BY <2>1, <2>3, <3>1, <3>2, SetRejectRw, GetReturnRw, SetWriteRw, SetReturnRw DEF Macro
    <2> QED
      BY <2>2, <2>3 DEF RwNext
  <1>2. CASE UNCHANGED <<vars, rwVars>>
    <2>1. RInv'
      <3>1. IInv'
        BY <1>2, StutterIInv DEF RwInv, RInv
      <3>2. InStep'
        BY <1>2 DEF RwInv, RInv, InStep, Waiting, vars, histVars
      <3> QED
        BY <3>1, <3>2 DEF RInv
    <2>2. RwTypes'
      BY <1>2 DEF RwInv, RwTypes, rwVars
    <2>3. ASSUME NEW t \in Socks PROVE Local(t)'
      <3>1. PhaseOf(t)' = PhaseOf(t) /\ OutcomeOf(t)' = OutcomeOf(t)
        BY <1>2, LooksTheSame DEF vars, histVars
      <3>2. param[t].pc # "idle" => seen'[t] = seen[t] \cup {regs'[param[t].offs]}
        <4>1. param[t].pc # "idle" => regs[param[t].offs] \in seen[t]
          BY DEF RwInv, Local, MacroCall, MacroState
        <4> QED
          BY <1>2, <4>1 DEF vars, devVars, rwVars
      <3>3. Undisturbed(t)
        BY <1>2, <3>1, <3>2 DEF Undisturbed, vars, devVars, histVars, rwVars
      <3> QED
        BY <3>3, UndisturbedLocal DEF RwInv
    <2> QED
      BY <2>1, <2>2, <2>3 DEF RwInv
  <1> QED
    BY <1>1, <1>2

\* The strengthened invariant holds in every behaviour of the macros.
LEMMA RwInvariant == RwSpec => []RwInv
  BY InitRw, StepRw, PTL DEF RwSpec

\* A reply of an exported function carries a code of rw_param_codes.h, for every
\* return value of the channel (SET_PARAM, GET_PARAM).
THEOREM RwTypeCorrect == RwSpec => []RwTypeOK
  <1>1. RwInv => RwTypeOK
    BY DEF RwInv, RwTypes, RwTypeOK, RInv, IInv
  <1> QED
    BY <1>1, RwInvariant, PTL

\* A GET that answers RW_OK on a socket without timeouts returns a value that its
\* field had while the GET was executed.
THEOREM GetsAreFresh == RwSpec => []GetIsFresh
  <1>1. RwInv => GetIsFresh
    BY DEF RwInv, Local, FreshGet, GetIsFresh
  <1> QED
    BY <1>1, RwInvariant, PTL

\* A SET that answers RW_OK on a socket without timeouts replaced one field of its
\* register, and nobody wrote the register between its read and its write.
THEOREM SetsAreAtomic == RwSpec => SetIsAtomic
  <1>1. ASSUME RwInv, NEW s \in Socks, SetReturn(s), param'[s].code = RW_OK,
               timeouts[s] = 0
        PROVE  Replaced(s)
    <2>1. param[s].pc = "write" /\ ~Waiting(s)
      BY <1>1 DEF SetReturn
    <2>2. result[s].ret = AckSize /\ param[s].code = RW_OK
      <3>1. param'[s].code = IF result[s].ret = AckSize THEN param[s].code
                                                        ELSE RW_WRITE_EAGAIN
        BY <1>1 DEF SetReturn, RwInv, RwTypes, Param
      <3> QED
        BY <1>1, <3>1 DEF RW_OK, RW_WRITE_EAGAIN
    <2>3. sockOpen[s] /\ WriteIsSet(s)
      BY <1>1, <2>1 DEF RwInv, Local, MacroCall, MacroState
    <2>4. PhaseOf(s) = "idle" /\ OutcomeOf(s).ret = result[s].ret
      BY <1>1, <2>1, <2>3 DEF PhaseOf, OutcomeOf, Attached
    <2> QED
      BY <1>1, <2>1, <2>2, <2>3, <2>4 DEF WriteIsSet, Returned
  <1>2. RwInv => \A s \in Socks :
          SetReturn(s) /\ param'[s].code = RW_OK /\ timeouts[s] = 0 => Replaced(s)
    BY <1>1
  <1>3. RwInv => \A s \in Socks :
          SetReturn(s) /\ param'[s].code = RW_OK /\ timeouts[s] = 0 =>
            LET o == param[s].offs IN
            \E old \in seen[s] :
                /\ regs[o] = Set(old, param[s].field, param[s].value)
                /\ seen[s] \subseteq {old, regs[o]}
    BY <1>2 DEF Replaced
  <1> QED
    BY <1>3, RwInvariant, PTL DEF SetIsAtomic

\* While a socket has had no timeout, a field of its registers changes by its SET
\* of this field only, or by a SET that answers RW_WRITE_EAGAIN.
THEOREM SetsKeepTheOtherField == RwSpec => OtherFieldKept
  <1>1. ASSUME RwInv, RwNext, NEW o \in Offs, NEW f \in Fields,
               Get(regs'[o], f) # Get(regs[o], f), timeouts[Owner[o]] = 0
        PROVE  /\ param[Owner[o]].pc = "write" /\ param[Owner[o]].offs = o
               /\ param[Owner[o]].field # f => param[Owner[o]].code = RW_WRITE_EAGAIN
    <2>1. regs'[o] # regs[o]
      BY <1>1
    <2>2. PICK s \in Socks : Serve(s)
      <3>1. RInv
        BY <1>1 DEF RwInv
      <3>2. SendReply => UNCHANGED regs
        BY DEF SendReply, devVars
      <3>3. \A s \in Socks : Recv(s) \/ Timeout(s) \/ Close(s) => UNCHANGED regs
        BY DEF Recv, Timeout, Close, devVars
      <3>4. \A s \in Socks : Macro(s) => UNCHANGED regs
        <4>1. ASSUME NEW s, NEW op, NEW i, NEW n, NEW w, Call(s, op, i, n, w)
              PROVE  UNCHANGED regs
          BY <4>1 DEF Call, devVars
        <4>2. \A s \in Socks : GetReturn(s) \/ SetReturn(s) => UNCHANGED regs
          BY DEF GetReturn, SetReturn, vars, devVars
        <4>3. \A s \in Socks : SetWrite(s) => UNCHANGED regs
          BY <4>1 DEF SetWrite
        <4>4. \A s \in Socks, i \in Offs, g \in Fields, v \in 0..(MaxValue + 1) :
                GetParam(s, i, g) \/ SetParam(s, i, g, v) \/ SetReject(s, i, g, v)
                => UNCHANGED regs
          BY <4>1 DEF GetParam, SetParam, SetReject, vars, devVars
        <4>5. 0 \in 0..(MaxValue + 1)
          BY RwParamAssumption
        <4> QED
          BY <4>2, <4>3, <4>4, <4>5 DEF Macro
      <3> QED
        BY <1>1, <2>1, <3>2, <3>3, <3>4 DEF RwNext, Channel
    <2>3. /\ Head(reqQ[s]) \in Request
          /\ Head(reqQ[s]).op = "write" /\ Head(reqQ[s]).offs = o
          /\ regs'[o] = Head(reqQ[s]).word
          /\ Owner[o] = s
      BY <1>1, <2>1, <2>2, ServeOwned
    <2>4. Local(s) /\ RInv /\ param[s] \in Param /\ regs \in [Offs -> Words]
      BY <1>1 DEF RwInv, RwTypes, RInv, IInv, TypeOK
    <2>5. reqQ[s] # <<>>
      BY <2>2 DEF Serve
    <2>6. Attached(s)
      BY <1>1, <2>3, <2>4, <2>5 DEF Local, ClosedIsEmpty, Attached
    <2>7. PhaseOf(s) = "issued" /\ Waiting(s) /\ Head(reqQ[s]) = call[s]
      BY <2>2, <2>4, <2>6, ServeView
    <2>8. param[s].pc = "write" /\ param[s].offs = o
      BY <2>3, <2>4, <2>7 DEF Local, MacroCall
    <2>9. MacroState(s)
      BY <2>4, <2>8 DEF Local, MacroCall
    <2>10. ASSUME param[s].code = RW_OK, param[s].field # f PROVE FALSE
      <3>1. regs'[o] = Set(regs[o], param[s].field, param[s].value)
        BY <1>1, <2>3, <2>4, <2>7, <2>8, <2>10 DEF Local, WriteIsSet
      <3>2. /\ param[s].field \in Fields /\ param[s].value \in 0..MaxValue
            /\ regs[o] \in Words
        BY <2>4, <2>9 DEF MacroState
      <3> QED
        BY <1>1, <2>10, <3>1, <3>2, SetField
    <2>11. param[s].code \in {RW_OK, RW_WRITE_EAGAIN}
      BY <2>8, <2>9 DEF MacroState
    <2> QED
      BY <2>3, <2>8, <2>10, <2>11
  <1>2. ASSUME RwInv, [RwNext]_<<vars, rwVars>>
        PROVE  [\A o \in Offs, f \in Fields :
                  LET s == Owner[o] IN
                  Get(regs'[o], f) # Get(regs[o], f) /\ timeouts[s] = 0 =>
                    /\ param[s].pc = "write" /\ param[s].offs = o
                    /\ param[s].field # f => param[s].code = RW_WRITE_EAGAIN]_<<vars, rwVars>>
    BY <1>1, <1>2
  <1> QED
    BY <1>2, RwInvariant, PTL DEF RwSpec, OtherFieldKept
=============================================================================
