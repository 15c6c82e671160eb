---------------------------- MODULE DevioProofs -----------------------------
(***************************************************************************)
(* DEVIO never loses a thread and destroys a configuration actor before    *)
(* its SMIO, for any dispatch table, any devices, any commands and any     *)
(* length of the arrays of actors.                                         *)
(***************************************************************************)
EXTENDS Devio, FiniteSetTheorems, TLAPS

Doing == [pc : {"loop", "register", "destroy", "stuck", "exited"}, todo : Seq(Ids \X Nat),
          cfgs : SUBSET Keys, smios : SUBSET Keys, then : {"loop", "check", "exited"}]

Types ==
    /\ nnodes \in 0..(NODES_MAX_LEN + 1)
    /\ sm_io_h \in [DOMAIN sm_io_h -> Slots] /\ DOMAIN sm_io_h \subseteq Keys
    /\ sm_io_cfg_h \in [DOMAIN sm_io_cfg_h -> Slots] /\ DOMAIN sm_io_cfg_h \subseteq Keys
    /\ smio \in [Slots -> Smio \cup {NoSmio}]
    /\ cfg \in [Slots -> Cfg \cup {NoCfg}]
    /\ mail \in [Slots -> Seq(Nat)]
    /\ devio \in Doing
    /\ pipe \in Pipe
    /\ cfgDone \in Nat

\* Slots are handed out in order, and never given back.
FreshSlots ==
    \A i \in Slots : /\ i >= nnodes <=> smio[i].pc = "none"
                     /\ i >= nnodes <=> cfg[i].pc = "none"

\* A key leads to a slot that was handed out for that key.
KeyOfSlot ==
    /\ \A k \in DOMAIN sm_io_h : /\ sm_io_h[k] < nnodes
                                 /\ smio[sm_io_h[k]].key = k /\ smio[sm_io_h[k]].pc # "none"
    /\ \A k \in DOMAIN sm_io_cfg_h : /\ sm_io_cfg_h[k] < nnodes
                                     /\ cfg[sm_io_cfg_h[k]].key = k

\* No more keys than slots: an instance is free when a slot is.
KeysCounted == IsFiniteSet(DOMAIN sm_io_h) /\ Cardinality(DOMAIN sm_io_h) <= nnodes

\* What is to be destroyed is registered, and no SMIO is destroyed before its
\* configuration actor.
DestroyOrder ==
    devio.pc = "destroy" =>
        /\ devio.cfgs \subseteq DOMAIN sm_io_cfg_h /\ devio.smios \subseteq DOMAIN sm_io_h
        /\ devio.smios \cap DOMAIN sm_io_cfg_h \subseteq devio.cfgs

\* A registered SMIO ends, if it started, only because it is being destroyed.
Going(s) == s.pc = "gone" \/ \E n \in DOMAIN s.inbox : s.inbox[n] = "TERM"
OnlyDestroyedEnd ==
    \A k \in DOMAIN sm_io_h : Going(smio[sm_io_h[k]]) =>
                                  devio.pc = "destroy" /\ k \in devio.smios

\* Only an SMIO that has a child asks for it.
AsksForChild ==
    \A i \in Slots : \A n \in DOMAIN smio[i].outbox :
        smio[i].outbox[n] = "REGISTER" => smio[i].key[1] \in DOMAIN Child

RegInv == FreshSlots /\ KeyOfSlot /\ NoLostThread /\ KeysCounted /\ CfgHasSmio
DInv == Types /\ RegInv /\ DestroyOrder /\ OnlyDestroyedEnd /\ AsksForChild /\ StuckOnlyOnFailed

-----------------------------------------------------------------------------

\* A set of numbers that is not empty has a least one.
LEMMA LeastNumber ==
  ASSUME NEW T \in SUBSET Nat, T # {}
  PROVE  \E x \in T : \A y \in T : ~(y < x)
  <1>1. \E x \in T : \A y \in T : ~(<<y, x>> \in OpToRel(<, Nat))
    BY WFMin, NatLessThanWellFounded
  <1>2. \A x, y \in Nat : y < x => <<y, x>> \in OpToRel(<, Nat)
    BY DEF OpToRel
  <1> QED
    BY <1>1, <1>2

\* While a slot is left, so is an instance: _devio_gen_smio_key_auto finds one.
LEMMA FreeKey ==
  ASSUME Types, KeysCounted, nnodes <= NODES_MAX_LEN, NEW kind \in Kinds, NEW inst \in Nat
  PROVE  AutoKey(kind, inst) \in Keys /\ AutoKey(kind, inst) \notin DOMAIN sm_io_h
  <1> DEFINE S == inst..(inst + NODES_MAX_LEN)
             T == {n \in S : <<kind, n>> \notin DOMAIN sm_io_h}
             f == [n \in S |-> <<kind, n>>]
             P(n) == /\ <<kind, n>> \notin DOMAIN sm_io_h
                     /\ \A m \in inst..(n - 1) : <<kind, m>> \in DOMAIN sm_io_h
  <1>1. NODES_MAX_LEN \in Nat /\ nnodes \in Nat
    BY DevioAssumption DEF Types
  <1>2. IsFiniteSet(S) /\ Cardinality(S) = NODES_MAX_LEN + 1
    BY <1>1, FS_Interval
  <1>3. Cardinality(DOMAIN sm_io_h) < Cardinality(S)
    BY <1>1, <1>2, FS_CardinalityType DEF KeysCounted
  <1>4. T # {}
    <2>1. SUFFICES ASSUME T = {} PROVE FALSE
      OBVIOUS
    <2>2. f \in [S -> DOMAIN sm_io_h]
      BY <2>1
    <2>3. \E x, y \in S : x # y /\ f[x] = f[y]
      BY <1>2, <1>3, <2>2, FS_PigeonHole, ZenonT(30) DEF KeysCounted
    <2> QED
      BY <2>3
  <1>5. T \in SUBSET Nat
    BY <1>1
  <1>6. PICK x \in T : \A y \in T : ~(y < x)
    BY <1>4, <1>5, LeastNumber
  <1>7. x \in S /\ P(x)
    <2>1. ASSUME NEW m \in inst..(x - 1) PROVE <<kind, m>> \in DOMAIN sm_io_h
      BY <1>1, <1>5, <1>6, <2>1
    <2> QED
      BY <2>1
  <1>8. (CHOOSE n \in S : P(n)) \in S /\ P(CHOOSE n \in S : P(n))
    BY <1>7
  <1>9. AutoKey(kind, inst) = <<kind, CHOOSE n \in S : P(n)>>
    BY DEF AutoKey
  <1> QED
    BY <1>1, <1>8, <1>9 DEF Keys

\* A slot in the tables is a slot of the arrays (or one past them).
LEMMA TableSlots ==
  ASSUME Types
  PROVE  /\ \A k \in DOMAIN sm_io_h : sm_io_h[k] \in Slots /\ k \in Keys
         /\ \A k \in DOMAIN sm_io_cfg_h : sm_io_cfg_h[k] \in Slots /\ k \in Keys
         /\ \A k \in Keys : k[1] \in Kinds /\ k[2] \in Nat
  BY DEF Types, Keys

\* The threads go on, or end; none begins, and no slot or key changes hands.
ThreadsGoOn ==
    \A i \in Slots :
        /\ smio'[i].key = smio[i].key /\ cfg'[i].key = cfg[i].key
        /\ (smio'[i].pc = "none") = (smio[i].pc = "none")
        /\ (cfg'[i].pc = "none") = (cfg[i].pc = "none")
        /\ smio[i].pc \in {"gone", "failed"} => smio'[i].pc = smio[i].pc
        /\ cfg[i].pc = "gone" => cfg'[i].pc = "gone"

\* A step that leaves the tables alone keeps what they say of the threads.
LEMMA GoingOnKeepsTables ==
  ASSUME Types, RegInv, ThreadsGoOn, UNCHANGED regVars
  PROVE  RegInv'
  <1> USE TableSlots DEF RegInv, ThreadsGoOn, regVars
  <1>1. FreshSlots'
    BY DEF FreshSlots
  <1>2. KeyOfSlot'
    BY DEF KeyOfSlot
  <1>3. NoLostThread'
    BY DEF NoLostThread, SmioEnded, CfgEnded
  <1>4. KeysCounted' /\ CfgHasSmio'
    BY DEF KeysCounted, CfgHasSmio
  <1> QED
    BY <1>1, <1>2, <1>3, <1>4

\* So does one that leaves the SMIOs alone and begins no destruction.
LEMMA SmiosUntouched ==
  ASSUME DInv, UNCHANGED <<regVars, smio>>, Types',
         devio.pc \in {"loop", "register"}, devio'.pc \in {"loop", "register"},
         \A i \in Slots :
            /\ cfg'[i].key = cfg[i].key
            /\ (cfg'[i].pc = "none") = (cfg[i].pc = "none")
            /\ cfg[i].pc = "gone" => cfg'[i].pc = "gone"
  PROVE  DInv'
  <1>1. RegInv'
    BY GoingOnKeepsTables DEF DInv, ThreadsGoOn
  <1>2. DestroyOrder' /\ StuckOnlyOnFailed'
    BY DEF DestroyOrder, StuckOnlyOnFailed
  <1>3. OnlyDestroyedEnd' /\ AsksForChild'
    BY DEF DInv, OnlyDestroyedEnd, AsksForChild, regVars
  <1> QED
    BY <1>1, <1>2, <1>3 DEF DInv

\* Elements of a sequence, its tail and a longer one.
LEMMA SeqFacts ==
  ASSUME NEW S
  PROVE  /\ <<>> \in Seq(S)
         /\ \A s \in Seq(S) : s # <<>> =>
              /\ Head(s) \in S /\ Tail(s) \in Seq(S)
              /\ Head(s) = s[1] /\ 1 \in DOMAIN s
              /\ \A n \in DOMAIN Tail(s) : n + 1 \in DOMAIN s /\ Tail(s)[n] = s[n + 1]
         /\ \A s \in Seq(S), x \in S :
              /\ Append(s, x) \in Seq(S)
              /\ \A n \in DOMAIN Append(s, x) :
                    Append(s, x)[n] = x \/ (n \in DOMAIN s /\ Append(s, x)[n] = s[n])
  <1>1. <<>> \in Seq(S)
    OBVIOUS
  <1>2. ASSUME NEW s \in Seq(S), s # <<>>
        PROVE  /\ Head(s) \in S /\ Tail(s) \in Seq(S)
               /\ Head(s) = s[1] /\ 1 \in DOMAIN s
               /\ \A n \in DOMAIN Tail(s) : n + 1 \in DOMAIN s /\ Tail(s)[n] = s[n + 1]
    BY <1>2
  <1>3. ASSUME NEW s \in Seq(S), NEW x \in S
        PROVE  /\ Append(s, x) \in Seq(S)
               /\ \A n \in DOMAIN Append(s, x) :
                     Append(s, x)[n] = x \/ (n \in DOMAIN s /\ Append(s, x)[n] = s[n])
    <2>1. Append(s, x) \in Seq(S) /\ Len(Append(s, x)) = Len(s) + 1
      OBVIOUS
    <2>2. \A n \in 1..Len(s) : Append(s, x)[n] = s[n]
      OBVIOUS
    <2>3. Append(s, x)[Len(s) + 1] = x
      OBVIOUS
    <2>4. Len(s) \in Nat /\ DOMAIN s = 1..Len(s) /\ DOMAIN Append(s, x) = 1..(Len(s) + 1)
      BY <2>1
    <2> QED
      BY <2>1, <2>2, <2>3, <2>4
  <1> QED
    BY <1>1, <1>2, <1>3

\* A thread that has a state, or a message to send, is there.
LEMMA SmioType ==
  ASSUME NEW s \in Smio \cup {NoSmio}
  PROVE  /\ s.pc # "none" \/ s.outbox # <<>> => s \in Smio
         /\ s.inbox \in Seq(ToSmio) /\ s.outbox \in Seq(FromSmio)
         /\ s.req \in Nat
  <1>1. CASE s \in Smio
    BY <1>1 DEF Smio
  <1>2. CASE s = NoSmio
    <2>1. s.inbox = <<>> /\ s.outbox = <<>> /\ s.pc = "none" /\ s.req = 0
      BY <1>2 DEF NoSmio
    <2> QED
      BY <2>1, SeqFacts
  <1> QED
    BY <1>1, <1>2

\* The fields of a configuration thread.
LEMMA CfgType ==
  ASSUME NEW c \in Cfg \cup {NoCfg}
  PROVE  /\ c.pc # "none" \/ c.outbox # <<>> => c \in Cfg
         /\ c.inbox \in Seq(ToCfg) /\ c.outbox \in Seq(FromCfg)
  <1>1. CASE c \in Cfg
    BY <1>1 DEF Cfg
  <1>2. CASE c = NoCfg
    <2>1. c.inbox = <<>> /\ c.outbox = <<>> /\ c.pc = "none"
      BY <1>2 DEF NoCfg
    <2> QED
      BY <2>1, SeqFacts
  <1> QED
    BY <1>1, <1>2

\* A handler of the command pipe takes a command.
LEMMA HandledTypes ==
  ASSUME Types, pipe # <<>>, Handled
  PROVE  pipe' \in Pipe /\ Head(pipe) \in Message
  BY SeqFacts DEF Handled, Types, Pipe

\* A command or a message only starts a handler.
LEMMA RegisterKeeps ==
  ASSUME DInv, Register \/ RegisterAll \/ RegisterEnd
  PROVE  DInv'
  <1>1. UNCHANGED <<regVars, smio, cfg, mail, cfgDone>>
    BY DEF Register, RegisterAll, RegisterEnd
  <1>2. devio.pc \in {"loop", "register"}
    BY DEF Register, RegisterAll, RegisterEnd, PipeHead, Looping
  <1>3. pipe' \in Pipe /\ (Register => Head(pipe) \in Message)
    BY HandledTypes DEF Register, RegisterAll, RegisterEnd, PipeHead, DInv, Types
  <1>4. devio' \in Doing /\ devio'.pc \in {"loop", "register"}
    <2>1. CASE Register
      <3> DEFINE t == <<<<Head(pipe).kind, Head(pipe).inst>>>>
      <3>1. Head(pipe).kind \in Ids /\ Head(pipe).inst \in Nat
        BY <2>1, <1>3 DEF Message
      <3>2. t \in Seq(Ids \X Nat)
        BY <3>1
      <3>3. devio' = [Idle EXCEPT !.pc = "register", !.todo = t]
        BY <2>1 DEF Register
      <3> HIDE DEF t
      <3> QED
        BY <3>2, <3>3 DEF Idle, Doing
    <2>2. CASE RegisterAll
      <3> DEFINE t == [n \in 1..Len(Sdb) |-> <<Sdb[n], 0>>]
      <3>1. t \in Seq(Ids \X Nat)
        BY DevioAssumption
      <3>2. devio' = [Idle EXCEPT !.pc = "register", !.todo = t]
        BY <2>2 DEF RegisterAll
      <3> HIDE DEF t
      <3> QED
        BY <3>1, <3>2 DEF Idle, Doing
    <2>3. CASE RegisterEnd
      BY <2>3, SeqFacts DEF RegisterEnd, Idle, Doing
    <2> QED
      BY <2>1, <2>2, <2>3
  <1>5. Types'
    BY <1>1, <1>3, <1>4 DEF DInv, Types, regVars
  <1> QED
    BY <1>1, <1>2, <1>4, <1>5, SmiosUntouched

-----------------------------------------------------------------------------
(* The threads of SMIOs and of configurations. *)

CfgsGoOn ==
    \A j \in Slots : /\ cfg'[j].key = cfg[j].key
                     /\ (cfg'[j].pc = "none") = (cfg[j].pc = "none")
                     /\ cfg[j].pc = "gone" => cfg'[j].pc = "gone"

\* A step of the SMIO thread of slot i.
LEMMA SmioStep ==
  ASSUME DInv, Types', UNCHANGED <<regVars, devio>>, CfgsGoOn, NEW i \in Slots,
         smio[i].pc \in {"init", "loop", "busy"},
         \A j \in Slots \ {i} : smio'[j] = smio[j],
         smio'[i].key = smio[i].key, smio'[i].pc # "none",
         Going(smio'[i]) => Going(smio[i]),
         \A n \in DOMAIN smio'[i].outbox :
            smio'[i].outbox[n] = "REGISTER" => smio[i].key[1] \in DOMAIN Child
  PROVE  DInv'
  <1>1. RegInv'
    BY GoingOnKeepsTables DEF DInv, ThreadsGoOn, CfgsGoOn
  <1>2. DestroyOrder'
    BY DEF DInv, DestroyOrder, regVars
  <1>3. OnlyDestroyedEnd'
    BY TableSlots DEF DInv, OnlyDestroyedEnd, regVars
  <1>4. AsksForChild'
    BY DEF DInv, AsksForChild
  <1>5. StuckOnlyOnFailed'
    BY TableSlots DEF DInv, StuckOnlyOnFailed, regVars
  <1> QED
    BY <1>1, <1>2, <1>3, <1>4, <1>5 DEF DInv

\* A step of a configuration thread.
LEMMA CfgStep ==
  ASSUME DInv, Types', UNCHANGED <<regVars, devio, smio>>, CfgsGoOn
  PROVE  DInv'
  <1>1. RegInv'
    BY GoingOnKeepsTables DEF DInv, ThreadsGoOn, CfgsGoOn
  <1>2. DestroyOrder' /\ OnlyDestroyedEnd' /\ AsksForChild' /\ StuckOnlyOnFailed'
    BY DEF DInv, DestroyOrder, OnlyDestroyedEnd, AsksForChild, StuckOnlyOnFailed, regVars
  <1> QED
    BY <1>1, <1>2 DEF DInv

\* An SMIO starts, or fails to.
LEMMA SmioInitKeeps ==
  ASSUME DInv, NEW i \in Slots, SmioInit(i)
  PROVE  DInv'
  <1>1. smio[i] \in Smio /\ smio \in [Slots -> Smio \cup {NoSmio}]
    BY SmioType DEF SmioInit, DInv, Types
  <1>2. PICK pc \in {"loop", "failed"}, asks \in BOOLEAN :
            /\ asks => smio[i].key[1] \in DOMAIN Child
            /\ smio' = [smio EXCEPT ![i].pc = pc,
                          ![i].outbox = IF asks THEN Append(@, "REGISTER") ELSE @]
    BY DEF SmioInit
  <1> DEFINE o == IF asks THEN Append(smio[i].outbox, "REGISTER") ELSE smio[i].outbox
  <1>3. /\ smio' \in [Slots -> Smio \cup {NoSmio}] 
        /\ smio'[i].pc = pc /\ smio'[i].key = smio[i].key /\ smio'[i].outbox = o
        /\ smio'[i].inbox = smio[i].inbox
        /\ \A j \in Slots \ {i} : smio'[j] = smio[j]
    <2>1. o \in Seq(FromSmio)
      BY <1>1, SeqFacts DEF FromSmio, Smio
    <2>2. smio' = [smio EXCEPT ![i] = [smio[i] EXCEPT !.pc = pc, !.outbox = o]]
      BY <1>1, <1>2
    <2> HIDE DEF o
    <2> QED
      BY <1>1, <2>1, <2>2 DEF Smio
  <1>4. \A n \in DOMAIN o : o[n] = "REGISTER" => smio[i].key[1] \in DOMAIN Child
    <2>1. smio[i].outbox \in Seq(FromSmio)
      BY <1>1 DEF Smio
    <2>2. \A n \in DOMAIN smio[i].outbox :
             smio[i].outbox[n] = "REGISTER" => smio[i].key[1] \in DOMAIN Child
      BY DEF DInv, AsksForChild
    <2>3. CASE asks
      BY <1>2, <2>3
    <2>4. CASE ~asks
      BY <2>2, <2>4
    <2> QED
      BY <2>3, <2>4
  <1> HIDE DEF o
  <1>5. Types'
    BY <1>3 DEF SmioInit, DInv, Types, regVars
  <1>6. UNCHANGED <<regVars, devio>> /\ CfgsGoOn /\ smio[i].pc = "init"
    BY DEF SmioInit, CfgsGoOn
  <1>7. (Going(smio'[i]) => Going(smio[i])) /\ smio'[i].pc # "none"
    BY <1>3, <1>6 DEF Going
  <1>8. \A n \in DOMAIN smio'[i].outbox :
            smio'[i].outbox[n] = "REGISTER" => smio[i].key[1] \in DOMAIN Child
    BY <1>3, <1>4
  <1> QED
    BY <1>3, <1>5, <1>6, <1>7, <1>8, SmioStep

\* An SMIO takes a request of a client.
LEMMA SmioRequestKeeps ==
  ASSUME DInv, NEW i \in Slots, SmioRequest(i)
  PROVE  DInv'
  <1>1. smio[i] \in Smio /\ smio \in [Slots -> Smio \cup {NoSmio}] /\ mail \in [Slots -> Seq(Nat)]
    BY SmioType DEF SmioRequest, DInv, Types
  <1>2. Head(mail[i]) \in Nat /\ Tail(mail[i]) \in Seq(Nat)
    BY <1>1 DEF SmioRequest
  <1>3. smio' = [smio EXCEPT ![i] = [smio[i] EXCEPT !.pc = "busy", !.req = Head(mail[i])]]
    BY <1>1 DEF SmioRequest
  <1>4. /\ smio' \in [Slots -> Smio \cup {NoSmio}]
        /\ smio'[i].pc = "busy" /\ smio'[i].key = smio[i].key
        /\ smio'[i].inbox = smio[i].inbox /\ smio'[i].outbox = smio[i].outbox
        /\ \A j \in Slots \ {i} : smio'[j] = smio[j]
    BY <1>1, <1>2, <1>3 DEF Smio
  <1>5. Types'
    BY <1>1, <1>2, <1>4 DEF SmioRequest, DInv, Types, regVars
  <1>6. UNCHANGED <<regVars, devio>> /\ CfgsGoOn /\ smio[i].pc = "loop"
    BY DEF SmioRequest, CfgsGoOn
  <1>7. Going(smio'[i]) => Going(smio[i])
    BY <1>4, <1>6 DEF Going
  <1>8. \A n \in DOMAIN smio'[i].outbox :
            smio'[i].outbox[n] = "REGISTER" => smio[i].key[1] \in DOMAIN Child
    BY <1>4 DEF DInv, AsksForChild
  <1> QED
    BY <1>4, <1>5, <1>6, <1>7, <1>8, SmioStep

\* The configuration thread of slot i goes on.
LEMMA CfgGoesOn ==
  ASSUME Types, NEW i \in Slots, NEW r, cfg' = [cfg EXCEPT ![i] = r],
         cfg[i].pc \in {"config", "loop"}, r \in Cfg, r.key = cfg[i].key
  PROVE  cfg' \in [Slots -> Cfg \cup {NoCfg}] /\ CfgsGoOn
  <1>1. cfg \in [Slots -> Cfg \cup {NoCfg}]
    BY DEF Types
  <1>2. r.pc # "none"
    BY DEF Cfg
  <1>3. cfg' \in [Slots -> Cfg \cup {NoCfg}]
    BY <1>1
  <1>4. cfg'[i] = r /\ \A j \in Slots \ {i} : cfg'[j] = cfg[j]
    BY <1>1
  <1> QED
    BY <1>2, <1>3, <1>4 DEF CfgsGoOn

\* config_defaults returns.
LEMMA ConfigReturns ==
  ASSUME Types, NEW i \in Slots, NEW ok \in BOOLEAN, cfg[i].pc = "config",
         cfg' = ConfigReturned(i, ok)
  PROVE  cfg' \in [Slots -> Cfg \cup {NoCfg}] /\ CfgsGoOn
  <1> DEFINE t == IF cfg[i].timer = "off" THEN "armed" ELSE cfg[i].timer
             r == [cfg[i] EXCEPT !.pc = "loop", !.applied = ok, !.timer = t]
  <1>1. cfg[i] \in Cfg /\ cfg \in [Slots -> Cfg \cup {NoCfg}]
    BY CfgType DEF Types
  <1>2. cfg' = [cfg EXCEPT ![i] = r]
    BY <1>1 DEF ConfigReturned
  <1>3. t \in {"off", "armed", "fired"}
    BY <1>1 DEF Cfg
  <1> HIDE DEF t
  <1>4. r \in Cfg /\ r.key = cfg[i].key
    BY <1>1, <1>3 DEF Cfg
  <1> HIDE DEF r
  <1> QED
    BY <1>2, <1>4, CfgGoesOn

\* It carries it out, and may notify its peer.
LEMMA SmioReplyKeeps ==
  ASSUME DInv, NEW i \in Slots, SmioReply(i)
  PROVE  DInv'
  <1>1. smio[i] \in Smio /\ smio \in [Slots -> Smio \cup {NoSmio}] /\ Types
    BY SmioType DEF SmioReply, DInv, Types
  <1>2. PICK notifies \in BOOLEAN :
            smio' = [smio EXCEPT ![i].pc = "loop", ![i].req = 0,
                       ![i].outbox = IF notifies THEN Append(@, "MGMT") ELSE @]
    BY DEF SmioReply
  <1> DEFINE o == IF notifies THEN Append(smio[i].outbox, "MGMT") ELSE smio[i].outbox
  <1>3. /\ smio' \in [Slots -> Smio \cup {NoSmio}]
        /\ smio'[i].pc = "loop" /\ smio'[i].key = smio[i].key /\ smio'[i].outbox = o
        /\ smio'[i].inbox = smio[i].inbox
        /\ \A j \in Slots \ {i} : smio'[j] = smio[j]
    <2>1. o \in Seq(FromSmio)
      BY <1>1, SeqFacts DEF FromSmio, Smio
    <2>2. smio' = [smio EXCEPT ![i] = [smio[i] EXCEPT !.pc = "loop", !.req = 0, !.outbox = o]]
      BY <1>1, <1>2
    <2> HIDE DEF o
    <2> QED
      BY <1>1, <2>1, <2>2 DEF Smio
  <1>4. \A n \in DOMAIN o : o[n] = "REGISTER" => smio[i].key[1] \in DOMAIN Child
    <2>1. smio[i].outbox \in Seq(FromSmio) /\ "MGMT" \in FromSmio
      BY <1>1 DEF Smio, FromSmio
    <2>2. \A n \in DOMAIN smio[i].outbox :
             smio[i].outbox[n] = "REGISTER" => smio[i].key[1] \in DOMAIN Child
      BY DEF DInv, AsksForChild
    <2>3. CASE notifies
      BY <2>1, <2>2, <2>3, SeqFacts
    <2>4. CASE ~notifies
      BY <2>2, <2>4
    <2> QED
      BY <2>3, <2>4
  <1> HIDE DEF o
  <1>5. cfg' \in [Slots -> Cfg \cup {NoCfg}] /\ CfgsGoOn
    <2>1. CASE cfg[i].pc = "config" /\ \E ok \in BOOLEAN : cfg' = ConfigReturned(i, ok)
      BY <1>1, <2>1, ConfigReturns
    <2>2. CASE UNCHANGED cfg
      BY <1>1, <2>2 DEF Types, CfgsGoOn
    <2> QED
      BY <2>1, <2>2 DEF SmioReply
  <1>6. Types'
    BY <1>1, <1>3, <1>5 DEF SmioReply, Types, regVars
  <1>7. UNCHANGED <<regVars, devio>> /\ smio[i].pc = "busy"
    BY DEF SmioReply
  <1>8. (Going(smio'[i]) => Going(smio[i])) /\ smio'[i].pc # "none"
    BY <1>3, <1>7 DEF Going
  <1>9. \A n \in DOMAIN smio'[i].outbox :
            smio'[i].outbox[n] = "REGISTER" => smio[i].key[1] \in DOMAIN Child
    BY <1>3, <1>4
  <1> QED
    BY <1>3, <1>5, <1>6, <1>7, <1>8, <1>9, SmioStep

\* An SMIO handles a message of DEVIO.
LEMMA SmioPipeKeeps ==
  ASSUME DInv, NEW i \in Slots, SmioPipe(i)
  PROVE  DInv'
  <1>1. smio[i] \in Smio /\ smio \in [Slots -> Smio \cup {NoSmio}] /\ Types
    BY SmioType DEF SmioPipe, DInv, Types
  <1>2. smio[i].inbox \in Seq(ToSmio) /\ smio[i].inbox # <<>> /\ smio[i].pc = "loop"
    BY <1>1 DEF SmioPipe, Smio
  <1>3. UNCHANGED <<regVars, devio>> /\ CfgsGoOn
    BY DEF SmioPipe, CfgsGoOn
  <1>4. /\ smio' \in [Slots -> Smio \cup {NoSmio}]
        /\ smio'[i].pc # "none" /\ smio'[i].key = smio[i].key
        /\ smio'[i].outbox = smio[i].outbox
        /\ \A j \in Slots \ {i} : smio'[j] = smio[j]
        /\ Going(smio'[i]) => Going(smio[i])
    <2>1. CASE Head(smio[i].inbox) = "TERM"
      <3>1. smio' = [smio EXCEPT ![i] = [smio[i] EXCEPT !.pc = "gone"]]
        BY <1>1, <2>1 DEF SmioPipe
      <3>2. Going(smio[i])
        BY <1>2, <2>1, SeqFacts DEF Going
      <3> QED
        BY <1>1, <3>1, <3>2 DEF Smio
    <2>2. CASE Head(smio[i].inbox) # "TERM"
      <3> DEFINE b == Tail(smio[i].inbox)
      <3>1. smio' = [smio EXCEPT ![i] = [smio[i] EXCEPT !.pc = "busy", !.inbox = b]]
        BY <1>1, <2>2 DEF SmioPipe
      <3>2. b \in Seq(ToSmio)
        BY <1>2, SeqFacts
      <3>3. \A n \in DOMAIN b : n + 1 \in DOMAIN smio[i].inbox /\ b[n] = smio[i].inbox[n + 1]
        BY <1>2, SeqFacts
      <3> HIDE DEF b
      <3>4. /\ smio' \in [Slots -> Smio \cup {NoSmio}]
            /\ smio'[i].pc = "busy" /\ smio'[i].key = smio[i].key
            /\ smio'[i].outbox = smio[i].outbox /\ smio'[i].inbox = b
            /\ \A j \in Slots \ {i} : smio'[j] = smio[j]
        BY <1>1, <3>1, <3>2 DEF Smio
      <3>5. Going(smio'[i]) => Going(smio[i])
        BY <3>3, <3>4 DEF Going
      <3> QED
        BY <3>4, <3>5
    <2> QED
      BY <2>1, <2>2
  <1>5. Types'
    BY <1>1, <1>4 DEF SmioPipe, Types, regVars
  <1>6. \A n \in DOMAIN smio'[i].outbox :
            smio'[i].outbox[n] = "REGISTER" => smio[i].key[1] \in DOMAIN Child
    BY <1>4 DEF DInv, AsksForChild
  <1> QED
    BY <1>2, <1>3, <1>4, <1>5, <1>6, SmioStep

\* A configuration thread makes a step.
LEMMA CfgThreadKeeps ==
  ASSUME DInv, NEW i \in Slots, CfgThread(i)
  PROVE  DInv'
  <1>1. Types /\ UNCHANGED <<regVars, devio, smio, pipe, cfgDone>>
    BY DEF CfgThread, ConfigTimeout, CfgTimer, CfgPipe, DInv
  <1>2. cfg[i] \in Cfg /\ cfg[i].pc \in {"config", "loop"} /\ cfg \in [Slots -> Cfg \cup {NoCfg}]
        /\ mail \in [Slots -> Seq(Nat)]
    BY <1>1, CfgType DEF CfgThread, ConfigTimeout, CfgTimer, CfgPipe, Types
  <1>3. cfg' \in [Slots -> Cfg \cup {NoCfg}] /\ CfgsGoOn /\ mail' \in [Slots -> Seq(Nat)]
    <2>1. CASE ConfigTimeout(i)
      BY <1>1, <1>2, <2>1, ConfigReturns DEF ConfigTimeout
    <2>2. CASE CfgTimer(i)
      <3> DEFINE r == [cfg[i] EXCEPT !.timer = "fired",
                                     !.outbox = Append(cfg[i].outbox, "CONFIG DONE")]
      <3>1. cfg' = [cfg EXCEPT ![i] = r] /\ UNCHANGED mail
        BY <1>2, <2>2 DEF CfgTimer
      <3>2. Append(cfg[i].outbox, "CONFIG DONE") \in Seq(FromCfg)
        BY <1>2, SeqFacts DEF Cfg, FromCfg
      <3>3. r \in Cfg /\ r.key = cfg[i].key
        BY <1>2, <3>2 DEF Cfg
      <3> HIDE DEF r
      <3> QED
        BY <1>1, <1>2, <3>1, <3>3, CfgGoesOn
    <2>3. CASE CfgPipe(i)
      <3>1. cfg[i].inbox \in Seq(ToCfg) /\ cfg[i].inbox # <<>> /\ cfg[i].round \in Nat
        BY <1>2, <2>3 DEF CfgPipe, Cfg
      <3>2. CASE Head(cfg[i].inbox) = "TERM"
        <4> DEFINE r == [cfg[i] EXCEPT !.pc = "gone"]
        <4>1. cfg' = [cfg EXCEPT ![i] = r] /\ UNCHANGED mail
          BY <1>2, <2>3, <3>2 DEF CfgPipe
        <4>2. r \in Cfg /\ r.key = cfg[i].key
          BY <1>2 DEF Cfg
        <4> HIDE DEF r
        <4> QED
          BY <1>1, <1>2, <4>1, <4>2, CfgGoesOn
      <3>3. CASE Head(cfg[i].inbox) # "TERM"
        <4> DEFINE b == Tail(cfg[i].inbox)
                   n == cfg[i].round + 1
                   r == [cfg[i] EXCEPT !.pc = "config", !.inbox = b, !.round = n]
        <4>1. /\ cfg' = [cfg EXCEPT ![i] = r]
              /\ mail' = [mail EXCEPT ![i] = Append(@, cfg[i].round + 1)]
          BY <1>2, <2>3, <3>3 DEF CfgPipe
        <4>2. b \in Seq(ToCfg) /\ n \in Nat
          BY <3>1, SeqFacts
        <4>3. mail' \in [Slots -> Seq(Nat)]
          BY <1>2, <3>1, <4>1
        <4> HIDE DEF b, n
        <4>4. r \in Cfg /\ r.key = cfg[i].key
          BY <1>2, <4>2 DEF Cfg
        <4> HIDE DEF r
        <4> QED
          BY <1>1, <1>2, <4>1, <4>3, <4>4, CfgGoesOn
      <3> QED
        BY <3>2, <3>3
    <2> QED
      BY <2>1, <2>2, <2>3 DEF CfgThread
  <1>4. Types'
    BY <1>1, <1>3 DEF Types, regVars
  <1> QED
    BY <1>1, <1>3, <1>4, CfgStep

-----------------------------------------------------------------------------
(* The DEVIO thread. *)

\* A handler that begins to destroy actors: at this point none is ending.
LEMMA DestroyBegins ==
  ASSUME DInv, devio.pc = "loop", UNCHANGED <<regVars, smio, mail, cfgDone>>, CfgsGoOn,
         cfg' \in [Slots -> Cfg \cup {NoCfg}], pipe' \in Pipe,
         NEW cfgs, NEW smios, NEW then \in {"loop", "check", "exited"},
         smios \cap DOMAIN sm_io_cfg_h \subseteq cfgs,
         devio' = Destroying(cfgs, smios, then)
  PROVE  DInv'
  <1> DEFINE cs == cfgs \cap DOMAIN sm_io_cfg_h
             ss == smios \cap DOMAIN sm_io_h
  <1>1. cs \subseteq Keys /\ ss \subseteq Keys
    BY DEF DInv, Types
  <1>2. devio' = [pc |-> "destroy", todo |-> <<>>, cfgs |-> cs, smios |-> ss, then |-> then]
    BY DEF Destroying, Idle
  <1>3. cs \subseteq DOMAIN sm_io_cfg_h /\ ss \subseteq DOMAIN sm_io_h
        /\ ss \cap DOMAIN sm_io_cfg_h \subseteq cs
    OBVIOUS
  <1> HIDE DEF cs, ss
  <1>4. /\ devio' \in Doing /\ devio'.pc = "destroy"
        /\ devio'.cfgs = cs /\ devio'.smios = ss
    BY <1>1, <1>2, SeqFacts DEF Doing
  <1>5. Types'
    BY <1>4 DEF DInv, Types, regVars
  <1>6. RegInv'
    BY GoingOnKeepsTables DEF DInv, ThreadsGoOn, CfgsGoOn
  <1>7. DestroyOrder'
    BY <1>3, <1>4 DEF DestroyOrder, regVars
  <1>8. OnlyDestroyedEnd' /\ AsksForChild' /\ StuckOnlyOnFailed'
    BY <1>4 DEF DInv, OnlyDestroyedEnd, AsksForChild, StuckOnlyOnFailed, regVars
  <1> QED
    BY <1>5, <1>6, <1>7, <1>8 DEF DInv

\* The commands that destroy actors begin.
LEMMA UnregisterKeeps ==
  ASSUME DInv, Unregister \/ UnregisterAll \/ Term
  PROVE  DInv'
  <1>1. /\ devio.pc = "loop" /\ pipe # <<>> /\ Handled
        /\ UNCHANGED <<regVars, smio, cfg, mail, cfgDone>>
    BY DEF Unregister, UnregisterAll, Term, PipeHead, Looping
  <1>2. pipe' \in Pipe
    BY <1>1, HandledTypes DEF DInv
  <1>3. CfgsGoOn /\ cfg' \in [Slots -> Cfg \cup {NoCfg}]
    BY <1>1 DEF CfgsGoOn, DInv, Types
  <1>4. \E cfgs, smios : \E then \in {"loop", "check", "exited"} :
           /\ smios \cap DOMAIN sm_io_cfg_h \subseteq cfgs
           /\ devio' = Destroying(cfgs, smios, then)
    <2>1. CASE Unregister
      <3> DEFINE key == <<Head(pipe).kind, Head(pipe).inst>>
      <3>1. devio' = Destroying({key}, {key}, "loop")
        BY <2>1 DEF Unregister
      <3> QED
        BY <3>1
    <2>2. CASE UnregisterAll \/ Term
      <3>1. \E then \in {"loop", "check", "exited"} :
               devio' = Destroying(DOMAIN sm_io_cfg_h, DOMAIN sm_io_h, then)
        BY <2>2 DEF UnregisterAll, Term
      <3> QED
        BY <3>1
    <2> QED
      BY <2>1, <2>2
  <1> QED
    BY <1>1, <1>2, <1>3, <1>4, DestroyBegins

\* DEVIO handles a message of a configuration thread.
LEMMA HandlePipeCfgKeeps ==
  ASSUME DInv, NEW i \in Slots, HandlePipeCfg(i)
  PROVE  DInv'
  <1> DEFINE r == [cfg[i] EXCEPT !.outbox = Tail(cfg[i].outbox)]
  <1>1. cfg \in [Slots -> Cfg \cup {NoCfg}] /\ cfg[i] \in Cfg /\ cfg[i].outbox # <<>>
    BY CfgType DEF DInv, Types, HandlePipeCfg
  <1>2. cfg' = [cfg EXCEPT ![i] = r]
    BY <1>1 DEF HandlePipeCfg
  <1>3. Tail(cfg[i].outbox) \in Seq(FromCfg)
    BY <1>1, SeqFacts DEF Cfg
  <1>4. r \in Cfg /\ r.key = cfg[i].key /\ r.pc = cfg[i].pc
    BY <1>1, <1>3 DEF Cfg
  <1> HIDE DEF r
  <1>5. CfgsGoOn /\ cfg' \in [Slots -> Cfg \cup {NoCfg}]
    BY <1>1, <1>2, <1>4 DEF CfgsGoOn
  <1>6. /\ devio.pc = "loop" /\ UNCHANGED <<regVars, smio, mail, cfgDone>> /\ pipe' \in Pipe
        /\ devio' = Destroying({cfg[i].key}, {}, "check")
    BY DEF HandlePipeCfg, Looping, DInv, Types
  <1> QED
    BY <1>5, <1>6, DestroyBegins

\* $RECONFIGURE_SMIO and $RECONFIGURE_SMIO_ALL.
LEMMA ReconfigureKeeps ==
  ASSUME DInv, Reconfigure \/ ReconfigureAll
  PROVE  DInv'
  <1>1. PICK keys : SendReconfigure(keys)
    BY DEF Reconfigure, ReconfigureAll
  <1>2. /\ devio.pc = "loop" /\ pipe # <<>> /\ Handled
        /\ UNCHANGED <<regVars, smio, mail, devio, cfgDone>>
    BY <1>1 DEF Reconfigure, ReconfigureAll, PipeHead, Looping, SendReconfigure
  <1>3. pipe' \in Pipe
    BY <1>2, HandledTypes DEF DInv
  <1>4. ASSUME NEW j \in Slots
        PROVE  /\ cfg'[j] \in Cfg \cup {NoCfg} /\ cfg'[j].key = cfg[j].key
               /\ cfg'[j].pc = cfg[j].pc
    <2>1. cfg[j] \in Cfg \cup {NoCfg}
      BY DEF DInv, Types
    <2>2. CASE \E k \in keys \cap DOMAIN sm_io_cfg_h : sm_io_cfg_h[k] = j
      <3>1. cfg'[j] = [cfg[j] EXCEPT !.inbox = Append(@, "RECONFIGURE")]
        BY <1>1, <2>2 DEF SendReconfigure
      <3>2. cfg[j] \in Cfg
        <4>1. cfg[j].key \in Keys
          BY <2>2, TableSlots DEF DInv, RegInv, KeyOfSlot
        <4>2. <<>> \notin Keys
          BY DEF Keys
        <4> QED
          BY <2>1, <4>1, <4>2 DEF NoCfg
      <3>3. Append(cfg[j].inbox, "RECONFIGURE") \in Seq(ToCfg)
        BY <3>2, SeqFacts DEF Cfg, ToCfg
      <3> QED
        BY <3>1, <3>2, <3>3 DEF Cfg
    <2>3. CASE ~\E k \in keys \cap DOMAIN sm_io_cfg_h : sm_io_cfg_h[k] = j
      BY <1>1, <2>1, <2>3 DEF SendReconfigure
    <2> QED
      BY <2>2, <2>3
  <1>5. cfg' \in [Slots -> Cfg \cup {NoCfg}]
    BY <1>1, <1>4 DEF SendReconfigure
  <1>6. CfgsGoOn
    BY <1>4 DEF CfgsGoOn
  <1>7. Types'
    BY <1>2, <1>3, <1>5 DEF DInv, Types, regVars
  <1> QED
    BY <1>2, <1>6, <1>7, CfgStep

\* A configuration thread is told to end, or has ended and is deleted.
LEMMA DestroyCfgKeeps ==
  ASSUME DInv, NEW k \in devio.cfgs, DestroyCfg(k)
  PROVE  DInv'
  <1> DEFINE i == sm_io_cfg_h[k]
  <1>1. k \in DOMAIN sm_io_cfg_h /\ i \in Slots /\ cfg[i].key = k /\ k \in Keys
    BY TableSlots DEF DestroyCfg, DInv, DestroyOrder, RegInv, KeyOfSlot
  <1>2. cfg \in [Slots -> Cfg \cup {NoCfg}] /\ cfg[i] \in Cfg
    <2>1. <<>> \notin Keys
      BY DEF Keys
    <2> QED
      BY <1>1, <2>1 DEF DInv, Types, NoCfg
  <1>3. UNCHANGED <<smio, mail, pipe, cfgDone>> /\ devio.pc = "destroy" /\ devio \in Doing
    BY DEF DestroyCfg, DInv, Types
  <1>4. CASE UNCHANGED <<regVars, devio>> /\ cfg' = SendTerm(cfg, i)
    <2> DEFINE b == Append(cfg[i].inbox, "TERM")
               r == [cfg[i] EXCEPT !.inbox = b]
    <2>1. cfg' = [cfg EXCEPT ![i] = r]
      BY <1>1, <1>2, <1>4 DEF SendTerm
    <2>2. b \in Seq(ToCfg)
      BY <1>2, SeqFacts DEF Cfg, ToCfg
    <2> HIDE DEF b
    <2>3. r \in Cfg /\ r.key = cfg[i].key /\ r.pc = cfg[i].pc
      BY <1>2, <2>2 DEF Cfg
    <2> HIDE DEF r
    <2>4. CfgsGoOn /\ cfg' \in [Slots -> Cfg \cup {NoCfg}]
      BY <1>1, <1>2, <2>1, <2>3 DEF CfgsGoOn
    <2>5. Types'
      BY <1>3, <1>4, <2>4 DEF DInv, Types, regVars
    <2> QED
      BY <1>3, <1>4, <2>4, <2>5, CfgStep
  <1>5. CASE /\ CfgEnded(i) /\ cfg' = ClosePipe(cfg, i)
             /\ sm_io_cfg_h' = HashDelete(sm_io_cfg_h, k)
             /\ devio' = [devio EXCEPT !.cfgs = @ \ {k}]
             /\ UNCHANGED <<nnodes, sm_io_h>>
    <2> DEFINE r == [cfg[i] EXCEPT !.inbox = <<>>, !.outbox = <<>>]
    <2>1. cfg' = [cfg EXCEPT ![i] = r]
      BY <1>1, <1>2, <1>5 DEF ClosePipe
    <2>2. r \in Cfg /\ r.key = cfg[i].key /\ r.pc = cfg[i].pc
      BY <1>2, SeqFacts DEF Cfg
    <2> HIDE DEF r
    <2>3. cfg' \in [Slots -> Cfg \cup {NoCfg}]
      BY <1>1, <1>2, <2>1, <2>2
    <2>4. \A j \in Slots : cfg'[j].key = cfg[j].key /\ cfg'[j].pc = cfg[j].pc
      BY <1>1, <1>2, <2>1, <2>2
    <2>5. /\ DOMAIN sm_io_cfg_h' = DOMAIN sm_io_cfg_h \ {k}
          /\ \A x \in DOMAIN sm_io_cfg_h \ {k} : sm_io_cfg_h'[x] = sm_io_cfg_h[x]
          /\ sm_io_cfg_h' \in [DOMAIN sm_io_cfg_h' -> Slots]
      BY <1>5, TableSlots DEF HashDelete, Restrict, DInv
    <2>6. /\ devio' \in Doing /\ devio'.pc = "destroy" /\ devio'.cfgs = devio.cfgs \ {k}
          /\ devio'.smios = devio.smios
      BY <1>3, <1>5 DEF Doing
    <2>7. Types'
      BY <1>3, <1>5, <2>3, <2>5, <2>6 DEF DInv, Types
    <2>8. FreshSlots' /\ KeysCounted'
      BY <1>3, <1>5, <2>4 DEF DInv, RegInv, FreshSlots, KeysCounted
    <2>9. KeyOfSlot'
      BY <1>3, <1>5, <2>4, <2>5, TableSlots DEF DInv, RegInv, KeyOfSlot
    <2>10. NoLostThread'
      BY <1>1, <1>3, <1>5, <2>4, <2>5 DEF DInv, RegInv, NoLostThread, SmioEnded, CfgEnded
    <2>11. CfgHasSmio'
      BY <1>5, <2>5 DEF DInv, RegInv, CfgHasSmio
    <2>12. DestroyOrder'
      BY <1>3, <1>5, <2>5, <2>6 DEF DInv, DestroyOrder
    <2>13. OnlyDestroyedEnd' /\ AsksForChild' /\ StuckOnlyOnFailed'
      BY <1>3, <1>5, <2>6 DEF DInv, OnlyDestroyedEnd, AsksForChild, StuckOnlyOnFailed
    <2> QED
      BY <2>7, <2>8, <2>9, <2>10, <2>11, <2>12, <2>13 DEF DInv, RegInv
  <1> QED
    BY <1>4, <1>5 DEF DestroyCfg

\* An SMIO is told to end, or has ended and is deleted.
LEMMA DestroySmioKeeps ==
  ASSUME DInv, NEW k \in devio.smios, DestroySmio(k)
  PROVE  DInv'
  <1> DEFINE i == sm_io_h[k]
  <1>1. /\ k \in DOMAIN sm_io_h /\ i \in Slots /\ smio[i].key = k /\ smio[i].pc # "none"
        /\ devio.pc = "destroy" /\ devio.cfgs = {} /\ k \notin DOMAIN sm_io_cfg_h
    BY TableSlots DEF DestroySmio, DInv, DestroyOrder, RegInv, KeyOfSlot
  <1>2. smio \in [Slots -> Smio \cup {NoSmio}] /\ smio[i] \in Smio
    BY <1>1, SmioType DEF DInv, Types
  <1>3. UNCHANGED <<cfg, mail, pipe, cfgDone>> /\ devio \in Doing
    BY DEF DestroySmio, DInv, Types
  <1>4. CASE UNCHANGED <<regVars, devio>> /\ smio' = SendTerm(smio, i)
    <2> DEFINE b == Append(smio[i].inbox, "TERM")
               r == [smio[i] EXCEPT !.inbox = b]
    <2>1. smio' = [smio EXCEPT ![i] = r]
      BY <1>1, <1>2, <1>4 DEF SendTerm
    <2>2. b \in Seq(ToSmio)
      BY <1>2, SeqFacts DEF Smio, ToSmio
    <2> HIDE DEF b
    <2>3. r \in Smio /\ r.key = smio[i].key /\ r.pc = smio[i].pc /\ r.outbox = smio[i].outbox
      BY <1>2, <2>2 DEF Smio
    <2> HIDE DEF r
    <2>4. /\ smio' \in [Slots -> Smio \cup {NoSmio}]
          /\ \A j \in Slots : /\ smio'[j].key = smio[j].key /\ smio'[j].pc = smio[j].pc
                              /\ smio'[j].outbox = smio[j].outbox
                              /\ j # i => smio'[j] = smio[j]
      BY <1>1, <1>2, <2>1, <2>3
    <2>5. Types'
      BY <1>3, <1>4, <2>4 DEF DInv, Types, regVars
    <2>6. RegInv'
      BY <1>3, <1>4, <2>4, GoingOnKeepsTables DEF DInv, ThreadsGoOn
    <2>7. DestroyOrder'
      BY <1>4 DEF DInv, DestroyOrder, regVars
    <2>8. OnlyDestroyedEnd'
      <3> SUFFICES ASSUME NEW x \in DOMAIN sm_io_h, Going(smio'[sm_io_h[x]])
                   PROVE  x \in devio.smios
        BY <1>1, <1>4 DEF OnlyDestroyedEnd, regVars
      <3>1. CASE sm_io_h[x] = i
        BY <1>1, <3>1 DEF DInv, RegInv, KeyOfSlot
      <3>2. CASE sm_io_h[x] # i
        BY <2>4, <3>2, TableSlots DEF DInv, OnlyDestroyedEnd
      <3> QED
        BY <3>1, <3>2
    <2>9. AsksForChild' /\ StuckOnlyOnFailed'
      BY <1>1, <1>4, <2>4 DEF DInv, AsksForChild, StuckOnlyOnFailed
    <2> QED
      BY <2>5, <2>6, <2>7, <2>8, <2>9 DEF DInv
  <1>5. CASE /\ SmioEnded(i) /\ smio' = ClosePipe(smio, i)
             /\ sm_io_h' = HashDelete(sm_io_h, k)
             /\ devio' = [devio EXCEPT !.smios = @ \ {k}]
             /\ UNCHANGED <<nnodes, sm_io_cfg_h>>
    <2> DEFINE r == [smio[i] EXCEPT !.inbox = <<>>, !.outbox = <<>>]
    <2>1. smio' = [smio EXCEPT ![i] = r]
      BY <1>1, <1>2, <1>5 DEF ClosePipe
    <2>2. r \in Smio /\ r.key = smio[i].key /\ r.pc = smio[i].pc /\ r.outbox = <<>>
      BY <1>2, SeqFacts DEF Smio
    <2> HIDE DEF r
    <2>3. /\ smio' \in [Slots -> Smio \cup {NoSmio}]
          /\ \A j \in Slots : /\ smio'[j].key = smio[j].key /\ smio'[j].pc = smio[j].pc
                              /\ j # i => smio'[j] = smio[j]
          /\ smio'[i].outbox = <<>>
      BY <1>1, <1>2, <2>1, <2>2
    <2>4. /\ DOMAIN sm_io_h' = DOMAIN sm_io_h \ {k}
          /\ \A x \in DOMAIN sm_io_h \ {k} : sm_io_h'[x] = sm_io_h[x]
          /\ sm_io_h' \in [DOMAIN sm_io_h' -> Slots]
      BY <1>5, TableSlots DEF HashDelete, Restrict, DInv
    <2>5. /\ devio' \in Doing /\ devio'.pc = "destroy" /\ devio'.cfgs = devio.cfgs
          /\ devio'.smios = devio.smios \ {k}
      BY <1>1, <1>3, <1>5 DEF Doing
    <2>6. Types'
      BY <1>3, <1>5, <2>3, <2>4, <2>5 DEF DInv, Types
    <2>7. FreshSlots'
      BY <1>3, <1>5, <2>3 DEF DInv, RegInv, FreshSlots
    <2>8. KeyOfSlot'
      BY <1>3, <1>5, <2>3, <2>4, TableSlots DEF DInv, RegInv, KeyOfSlot
    <2>9. NoLostThread'
      BY <1>1, <1>3, <1>5, <2>3, <2>4 DEF DInv, RegInv, NoLostThread, SmioEnded, CfgEnded
    <2>10. KeysCounted'
      <3>1. IsFiniteSet(DOMAIN sm_io_h) /\ Cardinality(DOMAIN sm_io_h) <= nnodes /\ nnodes \in Nat
        BY DevioAssumption DEF DInv, RegInv, KeysCounted, Types
      <3>2. /\ IsFiniteSet(DOMAIN sm_io_h \ {k})
            /\ Cardinality(DOMAIN sm_io_h \ {k}) = Cardinality(DOMAIN sm_io_h) - 1
        BY <1>1, <3>1, FS_RemoveElement
      <3>3. Cardinality(DOMAIN sm_io_h) \in Nat
        BY <3>1, FS_CardinalityType
      <3> QED
        BY <1>5, <2>4, <3>1, <3>2, <3>3 DEF KeysCounted
    <2>11. CfgHasSmio'
      BY <1>1, <1>5, <2>4 DEF DInv, RegInv, CfgHasSmio
    <2>12. DestroyOrder'
      BY <1>1, <1>5, <2>4, <2>5 DEF DInv, DestroyOrder
    <2>13. OnlyDestroyedEnd'
      <3> SUFFICES ASSUME NEW x \in DOMAIN sm_io_h \ {k}, Going(smio'[sm_io_h[x]])
                   PROVE  x \in devio.smios
        BY <2>4, <2>5 DEF OnlyDestroyedEnd
      <3>1. sm_io_h[x] # i
        BY <1>1 DEF DInv, RegInv, KeyOfSlot
      <3> QED
        BY <2>3, <3>1, TableSlots DEF DInv, OnlyDestroyedEnd
    <2>14. AsksForChild'
      <3> SUFFICES ASSUME NEW j \in Slots, NEW n \in DOMAIN smio'[j].outbox,
                          smio'[j].outbox[n] = "REGISTER"
                   PROVE  smio'[j].key[1] \in DOMAIN Child
        BY DEF AsksForChild
      <3>1. CASE j = i
        BY <2>3, <3>1
      <3>2. CASE j # i
        BY <2>3, <3>2 DEF DInv, AsksForChild
      <3> QED
        BY <3>1, <3>2
    <2>15. StuckOnlyOnFailed'
      BY <2>5 DEF StuckOnlyOnFailed
    <2> QED
      BY <2>6, <2>7, <2>8, <2>9, <2>10, <2>11, <2>12, <2>13, <2>14, <2>15 DEF DInv, RegInv
  <1> QED
    BY <1>4, <1>5 DEF DestroySmio

\* Everything that was to be destroyed is.
LEMMA DestroyEndKeeps ==
  ASSUME DInv, DestroyEnd
  PROVE  DInv'
  <1>1. /\ devio.pc = "destroy" /\ devio.cfgs = {} /\ devio.smios = {}
        /\ UNCHANGED <<regVars, smio, cfg, mail, pipe>>
    BY DEF DestroyEnd
  <1>2. devio' \in Doing /\ devio'.pc \in {"loop", "exited"}
    <2> DEFINE q == IF devio.then = "exited" THEN "exited" ELSE "loop"
    <2>1. devio' = [Idle EXCEPT !.pc = q] /\ q \in {"loop", "exited"}
      BY DEF DestroyEnd
    <2> HIDE DEF q
    <2> QED
      BY <2>1, SeqFacts DEF Idle, Doing
  <1>3. cfgDone' \in Nat
    BY DEF DestroyEnd, DInv, Types
  <1>4. Types'
    BY <1>1, <1>2, <1>3 DEF DInv, Types, regVars
  <1>5. RegInv'
    BY <1>1, GoingOnKeepsTables DEF DInv, ThreadsGoOn
  <1>6. DestroyOrder' /\ OnlyDestroyedEnd' /\ AsksForChild' /\ StuckOnlyOnFailed'
    BY <1>1, <1>2 DEF DInv, DestroyOrder, OnlyDestroyedEnd, AsksForChild, StuckOnlyOnFailed,
                      regVars
  <1> QED
    BY <1>4, <1>5, <1>6 DEF DInv

\* DEVIO handles a message of an SMIO.
LEMMA HandlePipeMgmtKeeps ==
  ASSUME DInv, NEW i \in Slots, HandlePipeMgmt(i)
  PROVE  DInv'
  <1> DEFINE kind == smio[i].key[1]
             inst == smio[i].key[2]
             dest == <<Peer[kind], inst>>
             o    == Tail(smio[i].outbox)
             r    == [smio[i] EXCEPT !.outbox = o]
             rest == [smio EXCEPT ![i] = r]
  <1>1. /\ smio \in [Slots -> Smio \cup {NoSmio}] /\ smio[i] \in Smio /\ smio[i].outbox # <<>>
        /\ devio.pc = "loop" /\ devio \in Doing
        /\ UNCHANGED <<regVars, cfg, mail, pipe, cfgDone>>
    BY SmioType DEF DInv, Types, HandlePipeMgmt, Looping
  <1>2. [smio EXCEPT ![i].outbox = Tail(@)] = rest
    BY <1>1
  <1>3. /\ o \in Seq(FromSmio)
        /\ \A n \in DOMAIN o : n + 1 \in DOMAIN smio[i].outbox /\ o[n] = smio[i].outbox[n + 1]
        /\ 1 \in DOMAIN smio[i].outbox /\ Head(smio[i].outbox) = smio[i].outbox[1]
    BY <1>1, SeqFacts DEF Smio
  <1> HIDE DEF o
  <1>4. r \in Smio /\ r.key = smio[i].key /\ r.pc = smio[i].pc /\ r.inbox = smio[i].inbox
        /\ r.outbox = o
    BY <1>1, <1>3 DEF Smio
  <1> HIDE DEF r
  <1>5. /\ rest \in [Slots -> Smio \cup {NoSmio}]
        /\ \A j \in Slots : /\ rest[j].key = smio[j].key /\ rest[j].pc = smio[j].pc
                            /\ rest[j].inbox = smio[j].inbox
                            /\ \A n \in DOMAIN rest[j].outbox :
                                  \E m \in DOMAIN smio[j].outbox :
                                      rest[j].outbox[n] = smio[j].outbox[m]
    BY <1>1, <1>3, <1>4
  <1> HIDE DEF rest
  \* Whatever is sent, the SMIOs stay as they are but for their pipes.
  <1>6. ASSUME smio' \in [Slots -> Smio \cup {NoSmio}], devio' \in Doing,
               devio'.pc \in {"loop", "register", "stuck"}, StuckOnlyOnFailed',
               \A j \in Slots : /\ smio'[j].key = rest[j].key /\ smio'[j].pc = rest[j].pc
                                /\ smio'[j].outbox = rest[j].outbox
                                /\ Going(smio'[j]) => Going(rest[j])
        PROVE  DInv'
    <2>1. Types'
      BY <1>1, <1>6 DEF DInv, Types, regVars
    <2>2. RegInv'
      BY <1>1, <1>5, <1>6, GoingOnKeepsTables DEF DInv, ThreadsGoOn
    <2>3. DestroyOrder'
      BY <1>6 DEF DestroyOrder
    <2>4. OnlyDestroyedEnd'
      BY <1>1, <1>5, <1>6, TableSlots DEF DInv, OnlyDestroyedEnd, Going, regVars
    <2>5. AsksForChild'
      BY <1>5, <1>6 DEF DInv, AsksForChild
    <2> QED
      BY <1>6, <2>1, <2>2, <2>3, <2>4, <2>5 DEF DInv
  <1>7. CASE /\ Head(smio[i].outbox) = "REGISTER" /\ smio' = rest
             /\ devio' = [Idle EXCEPT !.pc = "register", !.todo = <<<<Child[kind], inst>>>>]
    <2>1. kind \in DOMAIN Child
      BY <1>3, <1>7 DEF DInv, AsksForChild
    <2>2. Child[kind] \in Ids /\ inst \in Nat
      BY <1>1, <2>1, DevioAssumption DEF Smio, Keys
    <2> DEFINE t == <<<<Child[kind], inst>>>>
    <2>3. t \in Seq(Ids \X Nat)
      BY <2>2
    <2> HIDE DEF t
    <2>4. devio' \in Doing /\ devio'.pc = "register"
      BY <1>7, <2>3 DEF Idle, Doing, t
    <2> QED
      BY <1>5, <1>6, <1>7, <2>4 DEF StuckOnlyOnFailed
  <1>8. CASE smio' = rest /\ UNCHANGED devio
    BY <1>1, <1>5, <1>6, <1>8 DEF StuckOnlyOnFailed
  <1>9. CASE /\ dest \in DOMAIN sm_io_h /\ SmioEnded(sm_io_h[dest])
             /\ smio' = rest /\ devio' = [devio EXCEPT !.pc = "stuck"]
    <2>1. devio' \in Doing /\ devio'.pc = "stuck"
      BY <1>1, <1>9 DEF Doing
    <2>2. smio[sm_io_h[dest]].pc \notin {"none", "gone"}
      BY <1>1, <1>9 DEF DInv, RegInv, KeyOfSlot, OnlyDestroyedEnd, Going
    <2>3. smio[sm_io_h[dest]].pc = "failed" /\ sm_io_h[dest] \in Slots
      BY <1>9, <2>2, TableSlots DEF SmioEnded, DInv
    <2>4. StuckOnlyOnFailed'
      BY <1>1, <1>5, <1>9, <2>3 DEF StuckOnlyOnFailed, regVars
    <2> QED
      BY <1>5, <1>6, <1>9, <2>1, <2>4
  <1>10. CASE /\ dest \in DOMAIN sm_io_h /\ UNCHANGED devio
              /\ smio' = [rest EXCEPT ![sm_io_h[dest]].inbox = Append(@, "MGMT")]
    <2> DEFINE d == sm_io_h[dest]
               b == Append(rest[d].inbox, "MGMT")
               t == [rest[d] EXCEPT !.inbox = b]
    <2>1. d \in Slots /\ smio[d].pc # "none"
      BY <1>10, TableSlots DEF DInv, RegInv, KeyOfSlot
    <2>2. rest[d] \in Smio
      BY <1>5, <2>1, SmioType
    <2>3. rest[d].inbox \in Seq(ToSmio) /\ "MGMT" \in ToSmio
      BY <2>2 DEF Smio, ToSmio
    <2>4. /\ b \in Seq(ToSmio)
          /\ \A n \in DOMAIN b :
                b[n] = "MGMT" \/ (n \in DOMAIN rest[d].inbox /\ b[n] = rest[d].inbox[n])
      <3> HIDE DEF d
      <3> QED
        BY <2>3, SeqFacts
    <2>5. smio' = [rest EXCEPT ![d] = t]
      BY <1>5, <1>10, <2>1
    <2> HIDE DEF b
    <2>6. /\ t \in Smio /\ t.key = rest[d].key /\ t.pc = rest[d].pc /\ t.outbox = rest[d].outbox
          /\ t.inbox = b
      BY <2>2, <2>4 DEF Smio
    <2>7. Going(t) => Going(rest[d])
      BY <2>4, <2>6 DEF Going
    <2> HIDE DEF t, d
    <2>8. /\ smio' \in [Slots -> Smio \cup {NoSmio}]
          /\ \A j \in Slots : /\ smio'[j].key = rest[j].key /\ smio'[j].pc = rest[j].pc
                              /\ smio'[j].outbox = rest[j].outbox
                              /\ Going(smio'[j]) => Going(rest[j])
      BY <1>5, <2>1, <2>5, <2>6, <2>7
    <2> QED
      BY <1>1, <1>6, <1>10, <2>8 DEF StuckOnlyOnFailed
  <1> QED
    BY <1>2, <1>7, <1>8, <1>9, <1>10 DEF HandlePipeMgmt

\* _devio_register_sm_raw: a key that is free and a slot that was never used.
LEMMA RegisterSmKeeps ==
  ASSUME DInv, RegisterSm
  PROVE  DInv'
  <1> DEFINE kind == Head(devio.todo)[1]
             inst == Head(devio.todo)[2]
             key  == AutoKey(kind, inst)
             t    == Tail(devio.todo)
  <1>1. devio \in Doing /\ devio.pc = "register" /\ UNCHANGED <<pipe, cfgDone>> /\ Types
    BY DEF RegisterSm, DInv, Types
  <1>2. kind \in Ids /\ inst \in Nat /\ t \in Seq(Ids \X Nat)
    <2>1. devio.todo \in Seq(Ids \X Nat) /\ devio.todo # <<>>
      BY <1>1 DEF RegisterSm, Doing
    <2>2. Head(devio.todo) \in Ids \X Nat /\ t \in Seq(Ids \X Nat)
      BY <2>1, SeqFacts
    <2> QED
      BY <2>2
  <1>3. devio' \in Doing /\ devio'.pc = "register"
    <2>1. devio' = [devio EXCEPT !.todo = t]
      BY <1>1 DEF RegisterSm, Doing
    <2> HIDE DEF t
    <2> QED
      BY <1>1, <1>2, <2>1 DEF Doing
  <1>4. CASE ~Registrable(kind)
    <2>1. UNCHANGED <<regVars, smio, cfg, mail>>
      BY <1>4 DEF RegisterSm
    <2>2. Types'
      BY <1>1, <1>3, <2>1 DEF Types, regVars
    <2> QED
      BY <1>1, <1>3, <2>1, <2>2, SmiosUntouched
  <1>5. CASE Registrable(kind)
    <2>1. /\ nnodes \in Slots /\ kind \in Kinds /\ nnodes \in Nat
          /\ NODES_MAX_LEN \in Nat /\ nnodes <= NODES_MAX_LEN
      BY <1>1, <1>5, DevioAssumption DEF Registrable, Types, Slots
    <2>2. key \in Keys /\ key \notin DOMAIN sm_io_h
      BY <1>1, <1>2, <2>1, FreeKey DEF DInv, RegInv
    <2>3. PICK pc \in {"init", "failed"} :
             smio' = [smio EXCEPT ![nnodes] = [NoSmio EXCEPT !.key = key, !.pc = pc]]
      BY <1>5 DEF RegisterSm
    <2>4. /\ cfg' = [cfg EXCEPT ![nnodes] =
                        [NoCfg EXCEPT !.key = key, !.pc = "config", !.round = 1]]
          /\ mail' = [mail EXCEPT ![nnodes] = <<1>>]
          /\ sm_io_h' = HashInsert(sm_io_h, key, nnodes)
          /\ sm_io_cfg_h' = HashInsert(sm_io_cfg_h, key, nnodes)
          /\ nnodes' = nnodes + 1
      BY <1>5 DEF RegisterSm
    <2> HIDE DEF key
    <2> DEFINE r == [NoSmio EXCEPT !.key = key, !.pc = pc]
               c == [NoCfg EXCEPT !.key = key, !.pc = "config", !.round = 1]
    <2>5. r \in Smio /\ r.key = key /\ r.pc = pc /\ r.inbox = <<>> /\ r.outbox = <<>>
      BY <2>2, SeqFacts DEF NoSmio, Smio
    <2>6. c \in Cfg /\ c.key = key /\ c.pc = "config"
      BY <2>2, SeqFacts DEF NoCfg, Cfg
    <2> HIDE DEF r, c
    <2>7. /\ smio' \in [Slots -> Smio \cup {NoSmio}] /\ smio'[nnodes] = r
          /\ \A j \in Slots \ {nnodes} : smio'[j] = smio[j]
      <3>1. smio' = [smio EXCEPT ![nnodes] = r]
        BY <2>3 DEF r
      <3> QED
        BY <1>1, <2>1, <2>5, <3>1 DEF Types
    <2>8. /\ cfg' \in [Slots -> Cfg \cup {NoCfg}] /\ cfg'[nnodes] = c
          /\ \A j \in Slots \ {nnodes} : cfg'[j] = cfg[j]
      <3>1. cfg' = [cfg EXCEPT ![nnodes] = c]
        BY <2>4 DEF c
      <3> QED
        BY <1>1, <2>1, <2>6, <3>1 DEF Types
    <2>9. /\ DOMAIN sm_io_h' = DOMAIN sm_io_h \cup {key} /\ sm_io_h'[key] = nnodes
          /\ \A x \in DOMAIN sm_io_h : sm_io_h'[x] = sm_io_h[x]
          /\ sm_io_h' \in [DOMAIN sm_io_h' -> Slots]
      BY <1>1, <2>1, <2>2, <2>4, TableSlots DEF HashInsert
    <2>10. key \notin DOMAIN sm_io_cfg_h
      BY <2>2 DEF DInv, RegInv, CfgHasSmio
    <2>11. /\ DOMAIN sm_io_cfg_h' = DOMAIN sm_io_cfg_h \cup {key}
           /\ sm_io_cfg_h'[key] = nnodes
           /\ \A x \in DOMAIN sm_io_cfg_h : sm_io_cfg_h'[x] = sm_io_cfg_h[x]
           /\ sm_io_cfg_h' \in [DOMAIN sm_io_cfg_h' -> Slots]
      BY <1>1, <2>1, <2>10, <2>4, TableSlots DEF HashInsert
    <2>12. Types'
      <3>1. mail' \in [Slots -> Seq(Nat)]
        BY <1>1, <2>1, <2>4 DEF Types
      <3>2. nnodes' \in 0..(NODES_MAX_LEN + 1)
        BY <2>1, <2>4
      <3> QED
        BY <1>1, <1>3, <2>2, <2>7, <2>8, <2>9, <2>11, <3>1, <3>2 DEF Types
    \* The slot was not used: no key led to it.
    <2>13. /\ \A k \in DOMAIN sm_io_h : sm_io_h[k] \in Slots \ {nnodes} /\ sm_io_h[k] < nnodes
           /\ \A k \in DOMAIN sm_io_cfg_h :
                 sm_io_cfg_h[k] \in Slots \ {nnodes} /\ sm_io_cfg_h[k] < nnodes
      BY <1>1, <2>1, TableSlots DEF DInv, RegInv, KeyOfSlot, Slots
    <2>14. FreshSlots'
      <3> SUFFICES ASSUME NEW j \in Slots
                   PROVE  /\ j >= nnodes + 1 <=> smio'[j].pc = "none"
                          /\ j >= nnodes + 1 <=> cfg'[j].pc = "none"
        BY <2>4 DEF FreshSlots
      <3>1. CASE j = nnodes
        BY <2>1, <2>5, <2>6, <2>7, <2>8, <3>1
      <3>2. CASE j # nnodes
        <4>1. j >= nnodes + 1 <=> j >= nnodes
          BY <2>1, <3>2 DEF Slots
        <4> QED
          BY <2>7, <2>8, <3>2, <4>1 DEF DInv, RegInv, FreshSlots
      <3> QED
        BY <3>1, <3>2
    <2>15. KeyOfSlot'
      <3>1. \A k \in DOMAIN sm_io_h : sm_io_h[k] < nnodes + 1
        BY <2>1, <2>13 DEF Slots
      <3>2. \A k \in DOMAIN sm_io_cfg_h : sm_io_cfg_h[k] < nnodes + 1
        BY <2>1, <2>13 DEF Slots
      <3>3. nnodes < nnodes + 1
        BY <2>1
      <3> QED
        BY <2>4, <2>5, <2>6, <2>7, <2>8, <2>9, <2>11, <2>13, <3>1, <3>2, <3>3
           DEF DInv, RegInv, KeyOfSlot
    <2>16. NoLostThread'
      BY <2>2, <2>5, <2>6, <2>7, <2>8, <2>9, <2>10, <2>11
         DEF DInv, RegInv, NoLostThread, SmioEnded, CfgEnded
    <2>17. KeysCounted'
      <3>1. IsFiniteSet(DOMAIN sm_io_h) /\ Cardinality(DOMAIN sm_io_h) <= nnodes
        BY DEF DInv, RegInv, KeysCounted
      <3>2. /\ IsFiniteSet(DOMAIN sm_io_h \cup {key})
            /\ Cardinality(DOMAIN sm_io_h \cup {key}) = Cardinality(DOMAIN sm_io_h) + 1
        BY <2>2, <3>1, FS_AddElement
      <3>3. Cardinality(DOMAIN sm_io_h) \in Nat
        BY <3>1, FS_CardinalityType
      <3> QED
        BY <2>1, <2>4, <2>9, <3>1, <3>2, <3>3 DEF KeysCounted
    <2>18. CfgHasSmio'
      BY <2>9, <2>11 DEF DInv, RegInv, CfgHasSmio
    <2>19. DestroyOrder' /\ StuckOnlyOnFailed'
      BY <1>3 DEF DestroyOrder, StuckOnlyOnFailed
    <2>20. OnlyDestroyedEnd'
      <3>1. ~Going(r)
        BY <2>5 DEF Going
      <3>2. \A k \in DOMAIN sm_io_h : ~Going(smio[sm_io_h[k]])
        BY <1>1 DEF DInv, OnlyDestroyedEnd
      <3> QED
        BY <2>7, <2>9, <2>13, <3>1, <3>2 DEF OnlyDestroyedEnd
    <2>21. AsksForChild'
      BY <2>5, <2>7 DEF DInv, AsksForChild
    <2> QED
      BY <2>12, <2>14, <2>15, <2>16, <2>17, <2>18, <2>19, <2>20, <2>21 DEF DInv, RegInv
  <1> QED
    BY <1>4, <1>5

-----------------------------------------------------------------------------

\* DEVIO starts with empty tables.
LEMMA InitDInv ==
  ASSUME NEW script \in Pipe, InitWith(script)
  PROVE  DInv
  <1>1. Idle \in Doing
    BY SeqFacts DEF Idle, Doing
  <1>2. NODES_MAX_LEN \in Nat
    BY DevioAssumption
  <1>3. DOMAIN sm_io_h = {} /\ DOMAIN sm_io_cfg_h = {}
    BY DEF InitWith
  <1>4. Types
    BY <1>1, <1>2, SeqFacts DEF InitWith, Types
  <1>5. \A i \in Slots : smio[i] = NoSmio /\ cfg[i] = NoCfg
    BY DEF InitWith
  <1>6. /\ NoSmio.pc = "none" /\ NoCfg.pc = "none" /\ NoSmio.outbox = <<>>
    BY DEF NoSmio, NoCfg
  <1>7. FreshSlots /\ NoLostThread /\ AsksForChild
    <2>1. \A i \in Slots : i >= nnodes
      BY <1>2 DEF InitWith, Slots
    <2> QED
      BY <1>5, <1>6, <2>1 DEF FreshSlots, NoLostThread, SmioEnded, CfgEnded, AsksForChild
  <1>8. KeyOfSlot /\ CfgHasSmio /\ OnlyDestroyedEnd
    BY <1>3 DEF KeyOfSlot, CfgHasSmio, OnlyDestroyedEnd
  <1>9. KeysCounted
    BY <1>3, FS_EmptySet DEF KeysCounted, InitWith
  <1>10. DestroyOrder /\ StuckOnlyOnFailed
    BY DEF InitWith, Idle, DestroyOrder, StuckOnlyOnFailed
  <1> QED
    BY <1>4, <1>7, <1>8, <1>9, <1>10 DEF DInv, RegInv

\* No step of any thread, nor the end of a behaviour, breaks the invariant.
LEMMA ThreadsKeepDInv ==
  ASSUME DInv, [Threads]_vars
  PROVE  DInv'
  <1>1. CASE UNCHANGED vars
    <2>1. UNCHANGED <<regVars, devio, smio>> /\ CfgsGoOn
      BY <1>1 DEF vars, CfgsGoOn
    <2>2. Types'
      BY <1>1 DEF vars, regVars, DInv, Types
    <2> QED
      BY <2>1, <2>2, CfgStep
  <1>2. CASE DevioThread
    <2>1. CASE HandlePipe
      BY <2>1, RegisterKeeps, UnregisterKeeps, ReconfigureKeeps DEF HandlePipe
    <2>2. CASE RegisterSm
      BY <2>2, RegisterSmKeeps
    <2>3. CASE RegisterEnd
      BY <2>3, RegisterKeeps
    <2>4. CASE DestroyEnd
      BY <2>4, DestroyEndKeeps
    <2>5. CASE \E k \in devio.cfgs : DestroyCfg(k)
      BY <2>5, DestroyCfgKeeps
    <2>6. CASE \E k \in devio.smios : DestroySmio(k)
      BY <2>6, DestroySmioKeeps
    <2>7. CASE \E i \in Slots : HandlePipeCfg(i) \/ HandlePipeMgmt(i)
      BY <2>7, HandlePipeCfgKeeps, HandlePipeMgmtKeeps
    <2> QED
      BY <1>2, <2>1, <2>2, <2>3, <2>4, <2>5, <2>6, <2>7 DEF DevioThread
  <1>3. CASE \E i \in Slots : SmioThread(i) \/ CfgThread(i)
    <2>1. ASSUME NEW i \in Slots, SmioThread(i) PROVE DInv'
      BY <2>1, SmioInitKeeps, SmioRequestKeeps, SmioReplyKeeps, SmioPipeKeeps DEF SmioThread
    <2> QED
      BY <1>3, <2>1, CfgThreadKeeps
  <1> QED
    BY <1>1, <1>2, <1>3 DEF Threads

\* The invariant gives the properties of the runs.
LEMMA DInvGives ==
  ASSUME DInv
  PROVE  DevioTypeOK /\ NoLostThread /\ CfgHasSmio /\ StuckOnlyOnFailed
  <1>1. NODES_MAX_LEN \in Nat /\ Types
    BY DevioAssumption DEF DInv
  <1>2. /\ nnodes \in Nat /\ cfgDone \in Nat /\ pipe \in Pipe
        /\ DOMAIN sm_io_h \subseteq Keys /\ DOMAIN sm_io_cfg_h \subseteq Keys
    BY <1>1 DEF Types
  <1>3. Range(sm_io_h) \subseteq Slots /\ Range(sm_io_cfg_h) \subseteq Slots
    BY <1>1, TableSlots DEF Range
  <1>4. \A i \in Slots : /\ smio[i] = NoSmio \/ smio[i] \in Smio
                         /\ cfg[i] = NoCfg \/ cfg[i] \in Cfg
                         /\ mail[i] \in Seq(Nat)
    BY <1>1 DEF Types
  <1>5. /\ devio.pc \in {"loop", "register", "destroy", "stuck", "exited"}
        /\ devio.cfgs \subseteq Keys /\ devio.smios \subseteq Keys
    BY <1>1 DEF Types, Doing
  <1>6. DevioTypeOK
    BY <1>2, <1>3, <1>4, <1>5 DEF DevioTypeOK
  <1> QED
    BY <1>6 DEF DInv, RegInv

\* The inductive invariant holds in every reachable state.
LEMMA DevioDInv == DevioSpec => []DInv
  <1>1. (\E script \in Pipe : InitWith(script)) => DInv
    BY InitDInv
  <1>2. DInv /\ [Threads]_vars => DInv'
    BY ThreadsKeepDInv
  <1> QED
    BY <1>1, <1>2, PTL DEF DevioSpec

\* The tables, the threads, the pipes and the work of DEVIO keep their types,
\* whatever commands the application sends.
THEOREM DevioTypes == DevioSpec => []DevioTypeOK
  <1>1. DInv => DevioTypeOK
    BY DInvGives
  <1> QED
    BY <1>1, DevioDInv, PTL

\* DEVIO never loses a thread that has not ended.
THEOREM ThreadsAreKept == DevioSpec => []NoLostThread
  <1>1. DInv => NoLostThread
    BY DInvGives
  <1> QED
    BY <1>1, DevioDInv, PTL

\* A configuration actor belongs to the SMIO registered under its key, in the
\* same slot.
THEOREM CfgsHaveSmios == DevioSpec => []CfgHasSmio
  <1>1. DInv => CfgHasSmio
    BY DInvGives
  <1> QED
    BY <1>1, DevioDInv, PTL

\* DEVIO blocks for ever only on an SMIO that failed to start.
THEOREM OnlyFailedBlock == DevioSpec => []StuckOnlyOnFailed
  <1>1. DInv => StuckOnlyOnFailed
    BY DInvGives
  <1> QED
    BY <1>1, DevioDInv, PTL

\* $SMIO_CFG_DONE is sent only by _devio_check_send_cfg_done.
LEMMA DoneByDestroyEnd ==
  ASSUME DInv, [Threads]_vars, cfgDone' > cfgDone
  PROVE  DestroyEnd /\ AllCfgDone
  <1>1. cfgDone' # cfgDone
    BY DEF DInv, Types
  <1>2. DestroyEnd
    BY <1>1 DEF Threads, vars, DevioThread, HandlePipe, Register, RegisterAll, Unregister,
         UnregisterAll, Reconfigure, ReconfigureAll, SendReconfigure, Term, RegisterSm,
         RegisterEnd, DestroyCfg, DestroySmio, HandlePipeCfg, HandlePipeMgmt,
         SmioThread, SmioInit, SmioRequest, SmioReply, SmioPipe,
         CfgThread, ConfigTimeout, CfgTimer, CfgPipe
  <1> QED
    BY <1>1, <1>2 DEF DestroyEnd

\* The table of configuration actors is empty then, and no thread is left.
LEMMA DoneStep ==
  ASSUME DInv, [Threads]_vars, cfgDone' > cfgDone
  PROVE  \A i \in Slots : CfgEnded(i)
  BY DoneByDestroyEnd DEF AllCfgDone, DInv, RegInv, NoLostThread

\* Main is told that all is configured only when no configuration thread runs.
THEOREM DoneIsDone == DevioSpec => DoneMeansNoCfg
  <1>1. DInv /\ [Threads]_vars => [cfgDone' > cfgDone => \A i \in Slots : CfgEnded(i)]_vars
    BY DoneStep
  <1> QED
    BY <1>1, DevioDInv, PTL DEF DevioSpec, DoneMeansNoCfg

=============================================================================
