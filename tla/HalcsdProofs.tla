---------------------------- MODULE HalcsdProofs ----------------------------
(***************************************************************************)
(* The daemon announces INIT only after the SMIOs of the platform were     *)
(* configured, for any devices of the SDB and any dispatch table.          *)
(***************************************************************************)
EXTENDS Halcsd, DevioProofs

\* The devices among the first j of the SDB that have an SMIO.
Found(j) == {n \in 1..j : Sdb[n] \in Kinds}

\* A slot was handed out for each of them, as long as there were any left.
Placed(j) == nnodes > NODES_MAX_LEN \/ nnodes >= Cardinality(Found(j))

\* DEVIO registers the devices of the SDB before anything else.
Unregistered == devio.pc = "loop" /\ nnodes = 0 /\ pipe # <<>> /\ Head(pipe).cmd = "register_all"
Registering ==
    /\ devio.pc = "register" /\ Len(devio.todo) <= Len(Sdb)
    /\ \A n \in DOMAIN devio.todo : devio.todo[n][1] = Sdb[Len(Sdb) - Len(devio.todo) + n]
    /\ Placed(Len(Sdb) - Len(devio.todo))
InOrder == Unregistered \/ Registering \/ Placed(Len(Sdb))

\* Until the first of them is through, main was told nothing; then all of their
\* configuration threads have ended.
AllEnded == Placed(Len(Sdb)) /\ \A i \in FirstSmios : CfgEnded(i)
ToldInTime == main = "ready" \/ cfgDone > 0 => AllEnded

HInv == DInv /\ main \in {"wait", "ready", "term", "done"} /\ InOrder /\ ToldInTime

-----------------------------------------------------------------------------

\* How many SMIOs the devices of the SDB make.
LEMMA FoundCounts ==
  /\ \A j \in 0..Len(Sdb) : IsFiniteSet(Found(j)) /\ Cardinality(Found(j)) \in Nat
  /\ Cardinality(Found(0)) = 0
  /\ \A j \in 0..(Len(Sdb) - 1) :
        Cardinality(Found(j + 1)) =
            IF Sdb[j + 1] \in Kinds THEN Cardinality(Found(j)) + 1 ELSE Cardinality(Found(j))
  /\ Len(Sdb) \in Nat /\ Found(Len(Sdb)) = {n \in DOMAIN Sdb : Sdb[n] \in Kinds}
  <1>1. Len(Sdb) \in Nat /\ DOMAIN Sdb = 1..Len(Sdb)
    BY DevioAssumption
  <1>2. ASSUME NEW j \in 0..Len(Sdb)
        PROVE  IsFiniteSet(Found(j)) /\ Cardinality(Found(j)) \in Nat
    <2>1. IsFiniteSet(1..j) /\ Found(j) \in SUBSET (1..j)
      BY <1>1, FS_Interval DEF Found
    <2> QED
      BY <2>1, FS_Subset, FS_CardinalityType
  <1>3. Found(0) = {}
    BY DEF Found
  <1>4. ASSUME NEW j \in 0..(Len(Sdb) - 1)
        PROVE  Cardinality(Found(j + 1)) =
                 IF Sdb[j + 1] \in Kinds THEN Cardinality(Found(j)) + 1 ELSE Cardinality(Found(j))
    <2>1. CASE Sdb[j + 1] \in Kinds
      <3>1. Found(j + 1) = Found(j) \cup {j + 1} /\ (j + 1) \notin Found(j)
        BY <1>1, <2>1 DEF Found
      <3> QED
        BY <1>1, <1>2, <2>1, <3>1, FS_AddElement
    <2>2. CASE Sdb[j + 1] \notin Kinds
      <3>1. Found(j + 1) = Found(j)
        BY <1>1, <2>2 DEF Found
      <3> QED
        BY <2>2, <3>1
    <2> QED
      BY <2>1, <2>2
  <1> QED
    BY <1>1, <1>2, <1>3, <1>4, FS_EmptySet DEF Found

\* A configuration thread that has ended does not come back.
LEMMA EndedStays ==
  ASSUME DInv, [Threads]_vars, NEW i \in Slots, cfg[i].pc = "gone"
  PROVE  cfg'[i].pc = "gone"
  <1>1. cfg \in [Slots -> Cfg \cup {NoCfg}] /\ cfg[i] \in Cfg /\ Types
    BY CfgType DEF DInv, Types
  <1>2. CASE UNCHANGED cfg
    BY <1>2
  <1>3. CASE RegisterSm
    <2>1. CASE \E r : cfg' = [cfg EXCEPT ![nnodes] = r]
      <3>1. i # nnodes
        BY DevioAssumption DEF DInv, RegInv, FreshSlots, Types, Slots
      <3> QED
        BY <1>1, <2>1, <3>1
    <2> QED
      BY <1>2, <1>3, <2>1 DEF RegisterSm
  <1>4. CASE \E k \in devio.cfgs : DestroyCfg(k)
    BY <1>1, <1>4 DEF DestroyCfg, SendTerm, ClosePipe, Cfg
  <1>5. CASE Reconfigure \/ ReconfigureAll
    BY <1>1, <1>5 DEF Reconfigure, ReconfigureAll, SendReconfigure, Cfg
  <1>6. CASE \E j \in Slots : HandlePipeCfg(j)
    BY <1>1, <1>6 DEF HandlePipeCfg, Cfg
  <1>7. CASE \E j \in Slots : SmioReply(j)
    <2>1. PICK j \in Slots : SmioReply(j)
      BY <1>7
    <2>2. CASE cfg[j].pc = "config" /\ \E ok \in BOOLEAN : cfg' = ConfigReturned(j, ok)
      BY <1>1, <2>2, ConfigReturns DEF CfgsGoOn
    <2> QED
      BY <1>2, <2>1, <2>2 DEF SmioReply
  <1>8. CASE \E j \in Slots : CfgThread(j)
    <2>1. PICK j \in Slots : CfgThread(j)
      BY <1>8
    <2>2. CASE ConfigTimeout(j)
      BY <1>1, <2>2, ConfigReturns DEF ConfigTimeout, CfgsGoOn
    <2>3. CASE CfgTimer(j) \/ CfgPipe(j)
      <3>1. i # j
        BY <2>3 DEF CfgTimer, CfgPipe
      <3> QED
        BY <1>1, <2>3, <3>1 DEF CfgTimer, CfgPipe
    <2> QED
      BY <2>1, <2>2, <2>3 DEF CfgThread
  <1>9. \/ UNCHANGED cfg \/ RegisterSm \/ (\E k \in devio.cfgs : DestroyCfg(k))
        \/ Reconfigure \/ ReconfigureAll \/ (\E j \in Slots : HandlePipeCfg(j))
        \/ (\E j \in Slots : SmioReply(j)) \/ (\E j \in Slots : CfgThread(j))
    BY DEF Threads, vars, DevioThread, HandlePipe, Register, RegisterAll, Unregister,
           UnregisterAll, Term, RegisterEnd, DestroySmio, DestroyEnd, HandlePipeMgmt,
           SmioThread, SmioInit, SmioRequest, SmioPipe
  <1> QED
    BY <1>2, <1>3, <1>4, <1>5, <1>6, <1>7, <1>8, <1>9

\* Slots are handed out one at a time, by RegisterSm only.
LEMMA NodesGrow ==
  ASSUME DInv, [Threads]_vars
  PROVE  \/ nnodes' = nnodes
         \/ RegisterSm /\ Registrable(Head(devio.todo)[1]) /\ nnodes' = nnodes + 1
  <1>1. CASE RegisterSm
    BY <1>1 DEF RegisterSm, regVars
  <1>2. CASE ~RegisterSm
    BY <1>2 DEF Threads, vars, regVars, DevioThread, HandlePipe, Register, RegisterAll,
           Unregister, UnregisterAll, Reconfigure, ReconfigureAll, SendReconfigure, Term,
           RegisterEnd, DestroyCfg, DestroySmio, DestroyEnd, HandlePipeCfg, HandlePipeMgmt,
           SmioThread, SmioInit, SmioRequest, SmioReply, SmioPipe,
           CfgThread, ConfigTimeout, CfgTimer, CfgPipe
  <1> QED
    BY <1>1, <1>2

\* What was placed stays placed.
LEMMA PlacedStays ==
  ASSUME DInv, [Threads]_vars, NEW j \in 0..Len(Sdb), Placed(j)
  PROVE  Placed(j)'
  <1>1. nnodes' = nnodes \/ nnodes' = nnodes + 1
    BY NodesGrow
  <1>2. nnodes \in Nat /\ NODES_MAX_LEN \in Nat /\ Cardinality(Found(j)) \in Nat
    BY DevioAssumption, FoundCounts DEF DInv, Types
  <1> QED
    BY <1>1, <1>2 DEF Placed, Found

\* The SMIOs of the SDB have slots that were handed out.
LEMMA FirstHaveSlots ==
  ASSUME DInv, Placed(Len(Sdb)), NEW i \in FirstSmios
  PROVE  i \in Slots /\ ~(i >= nnodes)
  <1>1. i \in Slots /\ i < Cardinality(Found(Len(Sdb))) /\ Cardinality(Found(Len(Sdb))) \in Nat
    <2>1. Found(Len(Sdb)) = {n \in DOMAIN Sdb : Sdb[n] \in Kinds} /\ Len(Sdb) \in 0..Len(Sdb)
      BY FoundCounts
    <2>2. i \in Slots /\ i < Cardinality(Found(Len(Sdb)))
      BY <2>1 DEF FirstSmios
    <2> QED
      BY <2>1, <2>2, FoundCounts
  <1> QED
    BY <1>1, DevioAssumption DEF Placed, Slots, DInv, Types

\* The configuration threads of the platform that have ended stay ended.
LEMMA AllEndedStays ==
  ASSUME DInv, [Threads]_vars, AllEnded
  PROVE  AllEnded'
  <1>1. Placed(Len(Sdb))'
    BY PlacedStays, FoundCounts DEF AllEnded
  <1>2. ASSUME NEW i \in FirstSmios PROVE CfgEnded(i)'
    <2>1. i \in Slots /\ cfg[i].pc # "none"
      BY FirstHaveSlots DEF AllEnded, DInv, RegInv, FreshSlots
    <2>2. cfg[i].pc = "gone"
      BY <2>1 DEF AllEnded, CfgEnded
    <2> QED
      BY <2>1, <2>2, EndedStays DEF CfgEnded
  <1> QED
    BY <1>1, <1>2 DEF AllEnded, FirstSmios

\* Nothing happens before DEVIO takes up the command to register the platform.
LEMMA NothingBefore ==
  ASSUME DInv, [Threads]_vars, Unregistered
  PROVE  RegisterAll \/ UNCHANGED vars
  <1>1. ASSUME NEW i \in Slots
        PROVE  /\ smio[i].pc = "none" /\ cfg[i].pc = "none"
               /\ smio[i].outbox = <<>> /\ cfg[i].outbox = <<>>
    <2>1. i >= nnodes
      BY DevioAssumption DEF Unregistered, Slots
    <2>2. smio[i].pc = "none" /\ cfg[i].pc = "none"
      BY <2>1 DEF DInv, RegInv, FreshSlots
    <2>3. smio[i] \in Smio \cup {NoSmio} /\ cfg[i] \in Cfg \cup {NoCfg}
      BY DEF DInv, Types
    <2>4. smio[i] \notin Smio /\ cfg[i] \notin Cfg
      BY <2>2 DEF Smio, Cfg
    <2> QED
      BY <2>2, <2>3, <2>4, SmioType, CfgType
  <1>2. \A i \in Slots : ~SmioThread(i) /\ ~CfgThread(i) /\ ~HandlePipeCfg(i) /\ ~HandlePipeMgmt(i)
    BY <1>1 DEF SmioThread, SmioInit, SmioRequest, SmioReply, SmioPipe, CfgThread,
                ConfigTimeout, CfgTimer, CfgPipe, HandlePipeCfg, HandlePipeMgmt
  <1>3. DevioThread => RegisterAll
    BY <1>2 DEF Unregistered, DevioThread, HandlePipe, Register, Unregister, UnregisterAll,
           Reconfigure, ReconfigureAll, Term, PipeHead, RegisterSm, RegisterEnd, DestroyEnd,
           DestroyCfg, DestroySmio
  <1> QED
    BY <1>2, <1>3 DEF Threads

\* The devices of the SDB are registered one after the other.
LEMMA RegisteringGoesOn ==
  ASSUME DInv, [Threads]_vars, Registering
  PROVE  InOrder'
  <1> DEFINE t == Tail(devio.todo)
  <1>1. /\ devio.todo \in Seq(Ids \X Nat) /\ Len(Sdb) \in Nat /\ Len(devio.todo) \in Nat
        /\ devio.pc = "register" /\ devio \in Doing
    BY FoundCounts DEF DInv, Types, Doing, Registering
  <1>2. PICK j \in 0..Len(Sdb) :
            /\ Len(devio.todo) = Len(Sdb) - j /\ j = Len(Sdb) - Len(devio.todo) /\ Placed(j)
            /\ \A n \in DOMAIN devio.todo : devio.todo[n][1] = Sdb[j + n]
    <2> DEFINE k == Len(Sdb) - Len(devio.todo)
    <2>1. k \in 0..Len(Sdb) /\ Len(devio.todo) = Len(Sdb) - k
      BY <1>1 DEF Registering
    <2>2. Placed(k) /\ \A n \in DOMAIN devio.todo : devio.todo[n][1] = Sdb[k + n]
      BY DEF Registering
    <2> QED
      BY <2>1, <2>2
  <1>3. CASE UNCHANGED devio
    <2>1. Placed(j)'
      BY <1>2, PlacedStays
    <2> QED
      BY <1>2, <1>3, <2>1 DEF InOrder, Registering
  <1>4. CASE RegisterEnd
    <2>1. j = Len(Sdb)
      BY <1>1, <1>2, <1>4 DEF RegisterEnd
    <2> QED
      BY <1>2, <2>1, PlacedStays DEF InOrder
  <1>5. CASE RegisterSm
    <2>1. devio.todo # <<>> /\ devio' = [devio EXCEPT !.todo = t]
      BY <1>1, <1>5 DEF RegisterSm, Doing
    <2>2. Len(t) = Len(devio.todo) - 1 /\ Len(devio.todo) > 0
          /\ \A n \in DOMAIN t : n + 1 \in DOMAIN devio.todo /\ t[n] = devio.todo[n + 1]
          /\ Head(devio.todo) = devio.todo[1] /\ 1 \in DOMAIN devio.todo
          /\ DOMAIN t \subseteq Nat
      BY <1>1, <2>1, SMTT(30)
    <2>3. Head(devio.todo)[1] = Sdb[j + 1]
      BY <1>2, <2>2
    <2> HIDE DEF t
    <2>4. devio'.pc = "register" /\ devio'.todo = t
      BY <1>1, <2>1 DEF Doing
    <2>5. Len(Sdb) - Len(t) = j + 1 /\ j \in 0..(Len(Sdb) - 1) /\ Len(t) <= Len(Sdb)
      BY <1>1, <1>2, <2>2
    <2>6. \A n \in DOMAIN t : t[n][1] = Sdb[j + 1 + n]
      <3> SUFFICES ASSUME NEW n \in DOMAIN t PROVE t[n][1] = Sdb[j + 1 + n]
        OBVIOUS
      <3>1. devio.todo[n + 1][1] = Sdb[j + (n + 1)] /\ n \in Nat
        BY <1>2, <2>2
      <3>2. j + (n + 1) = j + 1 + n
        BY <3>1
      <3> QED
        BY <2>2, <3>1, <3>2
    <2>7. Placed(j + 1)'
      <3>1. /\ nnodes \in Nat /\ NODES_MAX_LEN \in Nat /\ Cardinality(Found(j)) \in Nat
            /\ Placed(j)
        BY <1>2, DevioAssumption, FoundCounts DEF DInv, Types
      <3>2. CASE Registrable(Sdb[j + 1])
        <4>1. nnodes' = nnodes + 1
          BY <1>5, <2>3, <3>2 DEF RegisterSm
        <4>2. Cardinality(Found(j + 1)) = Cardinality(Found(j)) + 1
          BY <2>5, <3>2, FoundCounts DEF Registrable
        <4> QED
          BY <3>1, <4>1, <4>2 DEF Placed, Found
      <3>3. CASE ~Registrable(Sdb[j + 1])
        <4>1. nnodes' = nnodes
          BY <1>5, <2>3, <3>3 DEF RegisterSm, regVars
        <4>2. nnodes > NODES_MAX_LEN \/ Cardinality(Found(j + 1)) = Cardinality(Found(j))
          BY <2>5, <3>1, <3>3, FoundCounts DEF Registrable
        <4> QED
          BY <3>1, <4>1, <4>2 DEF Placed, Found
      <3> QED
        BY <3>2, <3>3
    <2> QED
      BY <2>4, <2>5, <2>6, <2>7 DEF InOrder, Registering
  <1>6. UNCHANGED devio \/ RegisterEnd \/ RegisterSm
    BY <1>1 DEF Threads, vars, DevioThread, HandlePipe, Register, RegisterAll,
           Unregister, UnregisterAll, Reconfigure, ReconfigureAll, Term, PipeHead, Looping,
           DestroyCfg, DestroySmio, DestroyEnd, HandlePipeCfg, HandlePipeMgmt,
           SmioThread, SmioInit, SmioRequest, SmioReply, SmioPipe,
           CfgThread, ConfigTimeout, CfgTimer, CfgPipe
  <1> QED
    BY <1>3, <1>4, <1>5, <1>6

\* DEVIO registers the SMIOs in the order of the SDB, whatever its threads do.
LEMMA ThreadsKeepOrder ==
  ASSUME DInv, [Threads]_vars, InOrder
  PROVE  InOrder'
  <1>1. CASE Unregistered
    <2>1. CASE RegisterAll
      <3> DEFINE t == [n \in 1..Len(Sdb) |-> <<Sdb[n], 0>>]
      <3>1. /\ Len(Sdb) \in Nat /\ Len(t) = Len(Sdb) /\ DOMAIN t = 1..Len(Sdb)
            /\ \A n \in DOMAIN t : t[n][1] = Sdb[n]
        BY FoundCounts
      <3>2. devio' = [Idle EXCEPT !.pc = "register", !.todo = t]
        BY <2>1 DEF RegisterAll
      <3> HIDE DEF t
      <3>3. devio'.pc = "register" /\ devio'.todo = t
        BY <3>2 DEF Idle
      <3>4. Len(Sdb) - Len(t) = 0 /\ \A n \in DOMAIN t : t[n][1] = Sdb[0 + n]
        BY <3>1
      <3>5. nnodes' = 0
        BY <1>1, <2>1 DEF RegisterAll, regVars, Unregistered
      <3>6. Placed(0)'
        BY <3>5, FoundCounts DEF Placed, Found
      <3> QED
        BY <3>1, <3>3, <3>4, <3>6 DEF InOrder, Registering
    <2>2. CASE UNCHANGED vars
      BY <1>1, <2>2 DEF Unregistered, vars, regVars, InOrder
    <2> QED
      BY <1>1, <2>1, <2>2, NothingBefore
  <1>2. CASE Registering
    BY <1>2, RegisteringGoesOn
  <1>3. CASE Placed(Len(Sdb))
    BY <1>3, PlacedStays, FoundCounts DEF InOrder
  <1> QED
    BY <1>1, <1>2, <1>3 DEF InOrder

\* The first $SMIO_CFG_DONE comes after the last device was registered.
LEMMA ThreadsKeepTold ==
  ASSUME DInv, [Threads]_vars, InOrder, ToldInTime, UNCHANGED main
  PROVE  ToldInTime'
  <1>1. CASE main = "ready" \/ cfgDone > 0
    BY <1>1, AllEndedStays DEF ToldInTime
  <1>2. CASE main # "ready" /\ ~(cfgDone > 0)
    <2> SUFFICES ASSUME cfgDone' > 0 PROVE AllEnded'
      BY <1>2 DEF ToldInTime
    <2>1. cfgDone \in Nat
      BY DEF DInv, Types
    <2>2. cfgDone' > cfgDone
      BY <1>2, <2>1
    <2>3. DestroyEnd
      BY <2>2, DoneByDestroyEnd
    <2>4. (\A i \in Slots : CfgEnded(i)) /\ UNCHANGED cfg /\ devio.pc = "destroy"
      BY <2>2, <2>3, DoneStep DEF DestroyEnd
    <2>5. Placed(Len(Sdb))
      BY <2>4 DEF InOrder, Unregistered, Registering
    <2>6. AllEnded
      BY <2>4, <2>5 DEF AllEnded, FirstSmios
    <2> QED
      BY <2>6, AllEndedStays
  <1> QED
    BY <1>1, <1>2

-----------------------------------------------------------------------------

\* What main does leaves DEVIO alone but for its pipe and what it sent.
LEMMA MainKeeps ==
  ASSUME HInv, UNCHANGED <<regVars, smio, cfg, mail, devio>>, cfgDone' \in Nat,
         UNCHANGED pipe \/ \E m \in Message : pipe' = Append(pipe, m),
         main' \in {"wait", "ready", "term", "done"},
         main' = "ready" \/ cfgDone' > 0 => main = "ready" \/ cfgDone > 0
  PROVE  HInv'
  <1>1. pipe' \in Pipe /\ (pipe # <<>> => pipe' # <<>> /\ Head(pipe') = Head(pipe))
    <2>1. pipe \in Seq(Message)
      BY DEF HInv, DInv, Types, Pipe
    <2>2. ASSUME NEW m \in Message
          PROVE  /\ Append(pipe, m) \in Seq(Message) /\ Append(pipe, m) # <<>>
                 /\ pipe # <<>> => Head(Append(pipe, m)) = Head(pipe)
      BY <2>1
    <2> QED
      BY <2>1, <2>2 DEF Pipe
  <1>2. DInv'
    <2>1. Types'
      BY <1>1 DEF HInv, DInv, Types, regVars
    <2> QED
      BY <2>1, CfgStep DEF HInv, CfgsGoOn
  <1>3. InOrder'
    BY <1>1 DEF HInv, InOrder, Unregistered, Registering, Placed, Found, regVars
  <1>4. ToldInTime'
    BY DEF HInv, ToldInTime, AllEnded, Placed, Found, FirstSmios, CfgEnded, regVars
  <1> QED
    BY <1>2, <1>3, <1>4 DEF HInv

\* The invariant holds at the start,
LEMMA InitHInv == HalcsdInit => HInv
  <1> SUFFICES ASSUME HalcsdInit PROVE HInv
    OBVIOUS
  <1> DEFINE m == Command("register_all", InitSmio, 0)
  <1>1. m \in Message
    BY HalcsdAssumption, DevioAssumption DEF Command, Commands, Message
  <1>2. InitWith(<<m>>) /\ main = "wait" /\ m.cmd = "register_all"
    BY DEF HalcsdInit, Command
  <1> HIDE DEF m
  <1>3. <<m>> \in Pipe /\ <<m>> # <<>> /\ Head(<<m>>) = m
    BY <1>1 DEF Pipe
  <1>4. DInv
    BY <1>2, <1>3, InitDInv
  <1>5. devio.pc = "loop" /\ nnodes = 0 /\ pipe = <<m>> /\ cfgDone = 0
    BY <1>2 DEF InitWith, Idle
  <1>6. InOrder
    BY <1>2, <1>3, <1>5 DEF InOrder, Unregistered
  <1>7. ToldInTime
    BY <1>2, <1>5 DEF ToldInTime
  <1> QED
    BY <1>2, <1>4, <1>6, <1>7 DEF HInv

\* every step keeps it,
LEMMA StepHInv == HInv /\ [HalcsdNext]_allVars => HInv'
  <1> SUFFICES ASSUME HInv, [HalcsdNext]_allVars PROVE HInv'
    OBVIOUS
  <1>1. \A c \in Commands : Command(c, InitSmio, 0) \in Message
    BY HalcsdAssumption, DevioAssumption DEF Command, Message
  <1>2. cfgDone \in Nat
    BY DEF HInv, DInv, Types
  <1>3. CASE MainCfgDone
    BY <1>1, <1>2, <1>3, MainKeeps DEF MainCfgDone, Commands
  <1>4. CASE MainPrint
    BY <1>2, <1>4, MainKeeps DEF MainPrint
  <1>5. CASE MainDestroyed
    BY <1>2, <1>5, MainKeeps DEF MainDestroyed, vars
  <1>6. CASE MainInterrupted
    BY <1>1, <1>2, <1>6, MainKeeps DEF MainInterrupted, Commands
  <1>7. CASE [Threads]_vars /\ UNCHANGED main
    BY <1>7, ThreadsKeepDInv, ThreadsKeepOrder, ThreadsKeepTold DEF HInv
  <1> QED
    BY <1>3, <1>4, <1>5, <1>6, <1>7 DEF HalcsdNext, MainReceives, allVars

\* and so it holds in every reachable state.
LEMMA HalcsdHInv == HalcsdSpec => []HInv
  BY InitHInv, StepHInv, PTL DEF HalcsdSpec

\* The state of DEVIO and of main keeps its type under the commands of main.
THEOREM HalcsdTypes == HalcsdSpec => []HalcsdTypeOK
  <1>1. HInv => HalcsdTypeOK
    BY DInvGives DEF HInv, HalcsdTypeOK
  <1> QED
    BY <1>1, HalcsdHInv, PTL

\* INIT is announced only when each SMIO of the SDB that got a slot was started
\* and its configuration thread has ended.
THEOREM ReadyIsAfterConfig == HalcsdSpec => []ReadyAfterConfig
  <1>1. HInv => ReadyAfterConfig
    BY FirstHaveSlots DEF HInv, ReadyAfterConfig, ToldInTime, AllEnded, DInv, RegInv, FreshSlots
  <1> QED
    BY <1>1, HalcsdHInv, PTL

=============================================================================
