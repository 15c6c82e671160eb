---------------------------- MODULE DevMngrProofs ---------------------------
(***************************************************************************)
(* The device manager keeps its types and starts one daemon per device,    *)
(* for any set of devices and any number of processes.                     *)
(***************************************************************************)
EXTENDS DevMngr, FiniteSetTheorems, TLAPS

Types == procs \in [Procs -> Proc] /\ plugged \subseteq Devs /\ spawnBroker \in BOOLEAN

\* Only the first process is ever in the manager's loop: a copy of it leaves.
OneManager ==
    \A p \in Procs : procs[p].pc \in {"broker", "scan", "spawn", "wait", "sleep"} => p = 1

\* Only devices that were found are in the first process's table.
TableIsFound == \A d \in Devs : procs[1].devio_info[d] # "absent" => d \in plugged

\* The table of the first process knows of every daemon.
DaemonsAreKnown ==
    \A p \in Procs :
        /\ procs[p].dev \in Devs => procs[1].devio_info[procs[p].dev] = "RUNNING"
        /\ procs[p].prog = "dev_io" => procs[p].dev \in Devs

\* No two processes were forked for one device.
DaemonsDiffer ==
    \A p, q \in Procs : procs[p].dev \in Devs /\ procs[p].dev = procs[q].dev => p = q

\* The first process knows of the broker, and there is one.
BrokerIsKnown ==
    \A p \in Procs : procs[p].prog = "malamute" =>
        /\ procs[1].broker_running = TRUE /\ spawnBroker = TRUE
        /\ \A q \in Procs : procs[q].prog = "malamute" => p = q

MInv == Types /\ OneManager /\ TableIsFound /\ DaemonsAreKnown /\ DaemonsDiffer /\ BrokerIsKnown

-----------------------------------------------------------------------------

\* The manager is a process.
LEMMA OneIsProc == 1 \in Procs
  BY DevMngrAssumption DEF Procs

\* A step that touches neither a table nor what a process was forked for.
LEMMA QuietKeeps ==
  ASSUME MInv, Types', OneManager', plugged \subseteq plugged', spawnBroker' = spawnBroker,
         \A p \in Procs : /\ procs'[p].prog = procs[p].prog
                          /\ procs'[p].dev = procs[p].dev
                          /\ procs'[p].broker_running = procs[p].broker_running
                          /\ procs'[p].devio_info = procs[p].devio_info
  PROVE  MInv'
  <1>1. TableIsFound'
    BY OneIsProc DEF MInv, TableIsFound
  <1>2. DaemonsAreKnown'
    BY OneIsProc DEF MInv, DaemonsAreKnown
  <1>3. DaemonsDiffer'
    BY DEF MInv, DaemonsDiffer
  <1>4. BrokerIsKnown'
    BY OneIsProc DEF MInv, BrokerIsKnown
  <1> QED
    BY <1>1, <1>2, <1>3, <1>4 DEF MInv

\* One process goes on in its code, and nothing else changes.
LEMMA PcKeeps ==
  ASSUME MInv, NEW p \in Procs, NEW r \in Proc, Becomes(p, r),
         r.prog = procs[p].prog, r.dev = procs[p].dev,
         r.broker_running = procs[p].broker_running, r.devio_info = procs[p].devio_info,
         r.pc \in {"broker", "scan", "spawn", "wait", "sleep"} => p = 1,
         UNCHANGED <<plugged, spawnBroker>>
  PROVE  MInv'
  <1>1. procs \in [Procs -> Proc]
    BY DEF MInv, Types
  <1>2. procs' \in [Procs -> Proc]
    BY <1>1 DEF Becomes
  <1>3. procs'[p] = r /\ \A q \in Procs : q # p => procs'[q] = procs[q]
    BY <1>1 DEF Becomes
  <1>4. Types'
    BY <1>2 DEF MInv, Types
  <1>5. OneManager'
    BY <1>3 DEF MInv, OneManager
  <1> QED
    BY <1>3, <1>4, <1>5, QuietKeeps

\* A process is a record of its type.
LEMMA ProcAt ==
  ASSUME MInv, NEW p \in Procs
  PROVE  procs[p] \in Proc
  BY DEF MInv, Types

\* Fork by the first process, for the broker or for a device nothing was forked for.
LEMMA ForkKeeps ==
  ASSUME MInv, NEW prog \in {"malamute", "dev_io"}, NEW d \in Devs \cup {NoDev}, NEW r \in Proc,
         procs[1].pc # "free", Forked(1, prog, d, r),
         r.prog = procs[1].prog, r.dev = procs[1].dev,
         UNCHANGED <<plugged, spawnBroker>>,
         \A e \in Devs : IF e = d THEN r.devio_info[e] = "RUNNING"
                                  ELSE r.devio_info[e] = procs[1].devio_info[e],
         d \in Devs => /\ procs[1].devio_info[d] \notin {"absent", "RUNNING"}
                       /\ prog = "dev_io" /\ r.broker_running = procs[1].broker_running,
         d = NoDev => /\ prog = "malamute" /\ spawnBroker = TRUE
                      /\ procs[1].broker_running = FALSE /\ r.broker_running = TRUE
  PROVE  MInv'
  <1> DEFINE c == Child
             k == [procs[1] EXCEPT !.prog = prog, !.dev = d, !.parent = 1, !.pc = "exec"]
  <1>1. c \in Free
    BY DEF Child, Forked
  <1>2. c \in Procs /\ c # 1
    BY <1>1 DEF Free
  <1>3. procs \in [Procs -> Proc] /\ procs[1] \in Proc
    BY OneIsProc DEF MInv, Types
  <1>4. k \in Proc
    BY <1>3, OneIsProc DEF Proc, Programs
  <1>5. k.prog = prog /\ k.dev = d /\ k.pc = "exec"
    BY <1>3 DEF Proc
  <1> HIDE DEF c, k
  <1>6. procs' = [procs EXCEPT ![1] = r, ![c] = k]
    BY DEF c, k, Forked
  <1>7. procs'[1] = r /\ procs'[c] = k /\ \A q \in Procs : q # 1 /\ q # c => procs'[q] = procs[q]
    BY <1>2, <1>3, <1>6, OneIsProc
  <1>8. procs' \in [Procs -> Proc]
    BY <1>2, <1>3, <1>4, <1>6, OneIsProc
  <1>9. Types'
    BY <1>8 DEF MInv, Types
  <1>10. OneManager'
    BY <1>2, <1>5, <1>7 DEF MInv, OneManager
  <1>11. TableIsFound'
    BY <1>7, DevMngrAssumption DEF MInv, TableIsFound
  <1>12. \A q \in Procs : q # c => procs'[q].prog = procs[q].prog /\ procs'[q].dev = procs[q].dev
    BY <1>7
  <1>13. \A q \in Procs : procs[q].dev \in Devs =>
            procs[q].dev # d /\ procs'[1].devio_info[procs[q].dev] = "RUNNING"
    BY <1>7 DEF MInv, DaemonsAreKnown
  <1>14. DaemonsAreKnown'
    <2>1. ASSUME NEW q \in Procs, q # c
          PROVE  /\ procs'[q].dev \in Devs => procs'[1].devio_info[procs'[q].dev] = "RUNNING"
                 /\ procs'[q].prog = "dev_io" => procs'[q].dev \in Devs
      BY <2>1, <1>12, <1>13 DEF MInv, DaemonsAreKnown
    <2>2. /\ procs'[c].dev \in Devs => procs'[1].devio_info[procs'[c].dev] = "RUNNING"
          /\ procs'[c].prog = "dev_io" => procs'[c].dev \in Devs
      BY <1>5, <1>7
    <2> QED
      BY <2>1, <2>2 DEF DaemonsAreKnown
  <1>15. DaemonsDiffer'
    <2> SUFFICES ASSUME NEW p \in Procs, NEW q \in Procs,
                        procs'[p].dev \in Devs, procs'[p].dev = procs'[q].dev
                 PROVE  p = q
      BY DEF DaemonsDiffer
    <2>1. CASE p # c /\ q # c
      <3>1. procs'[p].dev = procs[p].dev /\ procs'[q].dev = procs[q].dev
        BY <2>1, <1>12
      <3> QED
        BY <3>1 DEF MInv, DaemonsDiffer
    <2>2. CASE p = c /\ q # c
      <3>1. procs'[p].dev = d /\ procs'[q].dev = procs[q].dev
        BY <2>2, <1>5, <1>7, <1>12
      <3> QED
        BY <3>1, <1>13
    <2>3. CASE p # c /\ q = c
      <3>1. procs'[q].dev = d /\ procs'[p].dev = procs[p].dev
        BY <2>3, <1>5, <1>7, <1>12
      <3> QED
        BY <3>1, <1>13
    <2> QED
      BY <2>1, <2>2, <2>3
  <1>16. BrokerIsKnown'
    <2>1. CASE d = NoDev
      <3>1. \A q \in Procs : procs[q].prog # "malamute"
        BY <2>1 DEF MInv, BrokerIsKnown
      <3>2. \A q \in Procs : procs'[q].prog = "malamute" => q = c
        BY <3>1, <1>12
      <3>3. procs'[1].broker_running = TRUE /\ spawnBroker' = TRUE
        BY <2>1, <1>7
      <3> QED
        BY <3>2, <3>3 DEF BrokerIsKnown
    <2>2. CASE d \in Devs
      <3>1. procs'[c].prog # "malamute"
        BY <2>2, <1>5, <1>7
      <3>2. \A q \in Procs : procs'[q].prog = "malamute" => procs[q].prog = "malamute"
        BY <3>1, <1>12
      <3>3. procs'[1].broker_running = procs[1].broker_running /\ spawnBroker' = spawnBroker
        BY <2>2, <1>7
      <3>4. BrokerIsKnown
        BY DEF MInv
      <3> QED
        BY <3>2, <3>3, <3>4 DEF BrokerIsKnown
    <2> QED
      BY <2>1, <2>2
  <1> QED
    BY <1>9, <1>10, <1>11, <1>14, <1>15, <1>16 DEF MInv

-----------------------------------------------------------------------------
(* The actions. *)

\* The invariant holds when main enters its loop, after the first scan.
LEMMA InitMInv == Init => MInv
  <1> SUFFICES ASSUME Init PROVE MInv
    OBVIOUS
  <1>1. Blank \in Proc /\ Blank.dev = NoDev /\ Blank.prog = "dev_mngr" /\ Blank.pc = "free"
    BY DEF Blank, Proc, Programs, States, Init0
  <1>2. plugged \subseteq Devs /\ spawnBroker \in BOOLEAN
    BY DEF Init
  <1> DEFINE none == [p \in Procs |-> Blank]
             first == [Blank EXCEPT !.pc = "broker", !.devio_info = Scanned(Blank.devio_info)]
  <1>3. none \in [Procs -> Proc] /\ \A p \in Procs : none[p] = Blank
    BY <1>1
  <1>4. procs = [none EXCEPT ![1] = first]
    BY <1>3, OneIsProc DEF Init
  <1>5. \A i \in [Devs -> States] : Scanned(i) \in [Devs -> States]
    BY DEF Scanned, States
  <1>6. /\ first \in Proc /\ first.dev = NoDev /\ first.prog = "dev_mngr"
        /\ first.devio_info = Scanned(Blank.devio_info)
    BY <1>1, <1>5 DEF Proc
  <1> HIDE DEF none, first
  <1>7. procs[1] = first /\ \A p \in Procs : p # 1 => procs[p] = Blank
    BY <1>3, <1>4, OneIsProc
  <1>8. Types
    BY <1>2, <1>3, <1>4, <1>6 DEF Types
  <1>9. OneManager
    BY <1>1, <1>7 DEF OneManager
  <1>10. TableIsFound
    BY <1>6, <1>7 DEF TableIsFound, Scanned, Blank
  <1>11. \A p \in Procs : procs[p].dev = NoDev /\ procs[p].prog = "dev_mngr"
    BY <1>1, <1>6, <1>7
  <1>12. DaemonsAreKnown /\ DaemonsDiffer /\ BrokerIsKnown
    BY <1>11, DevMngrAssumption DEF DaemonsAreKnown, DaemonsDiffer, BrokerIsKnown
  <1> QED
    BY <1>8, <1>9, <1>10, <1>12 DEF MInv

\* Starting the broker keeps the invariant: the flag is set in the parent only.
LEMMA SpawnBrokerMInv ==
  ASSUME MInv, NEW p \in Procs, SpawnBroker(p), UNCHANGED <<plugged, spawnBroker>>
  PROVE  MInv'
  <1>1. p = 1 /\ procs[p].pc = "broker"
    BY DEF SpawnBroker, MInv, OneManager
  <1>2. procs[p] \in Proc
    BY ProcAt
  <1>3. CASE ~spawnBroker \/ procs[p].broker_running
    <2> DEFINE r == [procs[p] EXCEPT !.pc = "scan"]
    <2>1. r \in Proc /\ r.prog = procs[p].prog /\ r.dev = procs[p].dev
          /\ r.broker_running = procs[p].broker_running /\ r.devio_info = procs[p].devio_info
      BY <1>2 DEF Proc
    <2>2. Becomes(p, r)
      BY <1>3 DEF SpawnBroker
    <2> QED
      BY <1>1, <2>1, <2>2, PcKeeps
  <1>4. CASE spawnBroker /\ ~procs[p].broker_running
    <2>1. Fork(p, "malamute", NoDev, AfterBroker(procs[p], -1), AfterBroker(procs[p], Child))
      BY <1>4 DEF SpawnBroker
    <2>2. CASE Becomes(p, AfterBroker(procs[p], -1))
      <3> DEFINE r == [procs[p] EXCEPT !.pc = "exit"]
      <3>1. r \in Proc /\ r.prog = procs[p].prog /\ r.dev = procs[p].dev /\ r.pc = "exit"
            /\ r.broker_running = procs[p].broker_running /\ r.devio_info = procs[p].devio_info
        BY <1>2 DEF Proc
      <3>2. Becomes(p, r)
        BY <2>2 DEF AfterBroker, SpawnErr
      <3> QED
        BY <1>1, <3>1, <3>2, PcKeeps
    <2>3. CASE Forked(p, "malamute", NoDev, AfterBroker(procs[p], Child))
      <3> DEFINE r == AfterBroker(procs[p], Child)
      <3>1. Child \in Procs
        BY <2>3 DEF Child, Free, Forked
      <3>2. Child \in Nat
        BY <3>1, DevMngrAssumption DEF Procs
      <3>3. SpawnErr(Child) = 0
        BY <3>2 DEF SpawnErr, DMNGR_SUCCESS
      <3>4. r = [procs[p] EXCEPT !.broker_running = TRUE, !.pc = "scan"]
        BY <3>3 DEF AfterBroker
      <3>5. r \in Proc /\ r.prog = procs[p].prog /\ r.dev = procs[p].dev
            /\ r.broker_running = TRUE /\ r.devio_info = procs[p].devio_info
        BY <1>2, <3>4 DEF Proc
      <3> HIDE DEF r
      <3>6. Forked(1, "malamute", NoDev, r)
        BY <1>1, <2>3 DEF r
      <3>7. NoDev \notin Devs /\ procs[1].pc # "free"
        BY <1>1, DevMngrAssumption
      <3>8. procs[1].broker_running = FALSE /\ spawnBroker = TRUE
        BY <1>1, <1>2, <1>4 DEF Proc, MInv, Types
      <3>9. \A e \in Devs : IF e = NoDev THEN r.devio_info[e] = "RUNNING"
                                        ELSE r.devio_info[e] = procs[1].devio_info[e]
        BY <1>1, <3>5, <3>7
      <3>10. "malamute" \in {"malamute", "dev_io"} /\ NoDev \in Devs \cup {NoDev}
        OBVIOUS
      <3>11. r.prog = procs[1].prog /\ r.dev = procs[1].dev /\ r.broker_running = TRUE /\ r \in Proc
        BY <1>1, <3>5
      <3> QED
        BY <3>6, <3>7, <3>9, <3>10, <3>11, <3>8, ForkKeeps, ZenonT(30)
    <2> QED
      BY <2>1, <2>2, <2>3 DEF Fork
  <1> QED
    BY <1>3, <1>4

\* A scan keeps the invariant: it changes no entry that is in the table.
LEMMA ScanDevsMInv ==
  ASSUME MInv, NEW p \in Procs, ScanDevs(p), UNCHANGED <<plugged, spawnBroker>>
  PROVE  MInv'
  <1>1. p = 1
    BY DEF ScanDevs, MInv, OneManager
  <1>2. procs[1] \in Proc /\ procs \in [Procs -> Proc]
    BY OneIsProc DEF MInv, Types
  <1> DEFINE i == procs[1].devio_info
             r == [procs[1] EXCEPT !.devio_info = Scanned(@), !.pc = "spawn"]
  <1>3. i \in [Devs -> States]
    BY <1>2 DEF Proc
  <1>4. Scanned(i) \in [Devs -> States]
    BY <1>3 DEF Scanned, States
  <1>5. r \in Proc /\ r.devio_info = Scanned(i) /\ r.prog = procs[1].prog /\ r.dev = procs[1].dev
        /\ r.broker_running = procs[1].broker_running
    BY <1>2, <1>4 DEF Proc
  <1>6. procs' = [procs EXCEPT ![1] = r]
    BY <1>1 DEF ScanDevs, Becomes
  <1>7. \A d \in Devs : /\ i[d] = "RUNNING" => Scanned(i)[d] = "RUNNING"
                        /\ Scanned(i)[d] # "absent" => i[d] # "absent" \/ d \in plugged
    BY DEF Scanned
  <1> HIDE DEF r
  <1>8. procs'[1] = r /\ \A q \in Procs : q # 1 => procs'[q] = procs[q]
    BY <1>2, <1>6, OneIsProc
  <1>9. \A q \in Procs : procs'[q].prog = procs[q].prog /\ procs'[q].dev = procs[q].dev
    BY <1>5, <1>8
  <1>10. procs'[1].devio_info = Scanned(i) /\ procs'[1].broker_running = procs[1].broker_running
    BY <1>5, <1>8
  <1>11. Types'
    BY <1>2, <1>5, <1>6, OneIsProc DEF MInv, Types
  <1>12. OneManager'
    BY <1>8 DEF MInv, OneManager
  <1>13. TableIsFound'
    BY <1>7, <1>10 DEF MInv, TableIsFound
  <1>14. DaemonsAreKnown'
    BY <1>7, <1>9, <1>10 DEF MInv, DaemonsAreKnown
  <1>15. DaemonsDiffer'
    BY <1>9 DEF MInv, DaemonsDiffer
  <1>16. BrokerIsKnown'
    BY <1>9, <1>10 DEF MInv, BrokerIsKnown
  <1> QED
    BY <1>11, <1>12, <1>13, <1>14, <1>15, <1>16 DEF MInv

\* Starting a daemon keeps the invariant: the device's entry was READY_TO_RUN.
LEMMA SpawnDevioMInv ==
  ASSUME MInv, NEW p \in Procs, SpawnDevio(p), UNCHANGED <<plugged, spawnBroker>>
  PROVE  MInv'
  <1>1. p = 1 /\ procs[p].pc = "spawn"
    BY DEF SpawnDevio, MInv, OneManager
  <1>2. procs[p] \in Proc
    BY ProcAt
  <1>3. CASE ToSpawn(procs[p]) = {}
    <2> DEFINE r == [procs[p] EXCEPT !.pc = "wait"]
    <2>1. r \in Proc /\ r.prog = procs[p].prog /\ r.dev = procs[p].dev
          /\ r.broker_running = procs[p].broker_running /\ r.devio_info = procs[p].devio_info
      BY <1>2 DEF Proc
    <2>2. Becomes(p, r)
      BY <1>3 DEF SpawnDevio
    <2> QED
      BY <1>1, <2>1, <2>2, PcKeeps
  <1>4. CASE ToSpawn(procs[p]) # {}
    <2>1. PICK d \in ToSpawn(procs[p]) :
             Fork(p, "dev_io", d, AfterDevio(procs[p], d, -1), AfterDevio(procs[p], d, Child))
      BY <1>4 DEF SpawnDevio
    <2>2. d \in Devs /\ procs[p].devio_info[d] = "READY_TO_RUN"
      BY <2>1 DEF ToSpawn, RespawnKilled
    <2>3. CASE Becomes(p, AfterDevio(procs[p], d, -1))
      <3> DEFINE r == [procs[p] EXCEPT !.pc = "exit"]
      <3>1. r \in Proc /\ r.prog = procs[p].prog /\ r.dev = procs[p].dev /\ r.pc = "exit"
            /\ r.broker_running = procs[p].broker_running /\ r.devio_info = procs[p].devio_info
        BY <1>2 DEF Proc
      <3>2. Becomes(p, r)
        BY <2>3 DEF AfterDevio, SpawnErr, DMNGR_SUCCESS
      <3> QED
        BY <1>1, <3>1, <3>2, PcKeeps
    <2>4. CASE Forked(p, "dev_io", d, AfterDevio(procs[p], d, Child))
      <3> DEFINE r == AfterDevio(procs[p], d, Child)
                 i == procs[p].devio_info
      <3>1. Child \in Procs
        BY <2>4 DEF Child, Free, Forked
      <3>2. Child \in Nat
        BY <3>1, DevMngrAssumption DEF Procs
      <3>3. SpawnErr(Child) = DMNGR_SUCCESS
        BY <3>2 DEF SpawnErr, DMNGR_SUCCESS
      <3>4. r = [procs[p] EXCEPT !.devio_info = [i EXCEPT ![d] = "RUNNING"]]
        BY <3>3 DEF AfterDevio
      <3>5. i \in [Devs -> States] /\ [i EXCEPT ![d] = "RUNNING"] \in [Devs -> States]
        BY <1>2, <2>2 DEF Proc, States
      <3>6. r \in Proc /\ r.prog = procs[p].prog /\ r.dev = procs[p].dev
            /\ r.broker_running = procs[p].broker_running
            /\ r.devio_info = [i EXCEPT ![d] = "RUNNING"]
        BY <1>2, <3>4, <3>5 DEF Proc
      <3>7. \A e \in Devs : IF e = d THEN r.devio_info[e] = "RUNNING"
                                     ELSE r.devio_info[e] = procs[1].devio_info[e]
        BY <1>1, <3>5, <3>6
      <3> HIDE DEF r
      <3>8. Forked(1, "dev_io", d, r)
        BY <1>1, <2>4 DEF r
      <3>9. /\ d \in Devs \cup {NoDev} /\ d # NoDev /\ "dev_io" \in {"malamute", "dev_io"}
            /\ procs[1].pc # "free" /\ procs[1].devio_info[d] \notin {"absent", "RUNNING"}
        BY <1>1, <2>2, DevMngrAssumption
      <3>10. /\ r \in Proc /\ r.prog = procs[1].prog /\ r.dev = procs[1].dev
             /\ r.broker_running = procs[1].broker_running
        BY <1>1, <3>6
      <3> QED
        BY <3>7, <3>8, <3>9, <3>10, ForkKeeps
    <2> QED
      BY <2>1, <2>3, <2>4 DEF Fork
  <1> QED
    BY <1>3, <1>4

\* Waiting for a child keeps the invariant.
LEMMA WaitChldMInv ==
  ASSUME MInv, NEW p \in Procs, WaitChld(p), UNCHANGED <<plugged, spawnBroker>>
  PROVE  MInv'
  <1>1. p = 1
    BY DEF WaitChld, MInv, OneManager
  <1>2. procs \in [Procs -> Proc]
    BY DEF MInv, Types
  <1> DEFINE r == [procs[p] EXCEPT !.pc = "sleep"]
  <1>3. r \in Proc /\ r.prog = procs[p].prog /\ r.dev = procs[p].dev
        /\ r.broker_running = procs[p].broker_running /\ r.devio_info = procs[p].devio_info
    BY <1>2 DEF Proc
  <1>4. CASE Becomes(p, r)
    BY <1>1, <1>3, <1>4, PcKeeps
  <1>5. ASSUME NEW c \in Zombies(p), procs' = [procs EXCEPT ![p].pc = "sleep", ![c].pc = "gone"]
        PROVE  MInv'
    <2>1. c \in Procs /\ c # p
      BY <1>1, <1>5 DEF Zombies, WaitChld
    <2> DEFINE s == [procs[c] EXCEPT !.pc = "gone"]
    <2>2. s \in Proc /\ s.prog = procs[c].prog /\ s.dev = procs[c].dev /\ s.pc = "gone"
          /\ s.broker_running = procs[c].broker_running /\ s.devio_info = procs[c].devio_info
      BY <1>2, <2>1 DEF Proc
    <2>3. procs' = [procs EXCEPT ![p] = r, ![c] = s]
      BY <1>2, <1>5, <2>1
    <2> HIDE DEF r, s
    <2>4. procs'[p] = r /\ procs'[c] = s /\ \A q \in Procs : q # p /\ q # c => procs'[q] = procs[q]
      BY <1>2, <2>1, <2>3
    <2>5. Types'
      BY <1>2, <1>3, <2>1, <2>2, <2>3 DEF MInv, Types
    <2>6. OneManager'
      BY <1>1, <2>2, <2>4 DEF MInv, OneManager
    <2>7. \A q \in Procs : /\ procs'[q].prog = procs[q].prog
                           /\ procs'[q].dev = procs[q].dev
                           /\ procs'[q].broker_running = procs[q].broker_running
                           /\ procs'[q].devio_info = procs[q].devio_info
      BY <1>3, <2>2, <2>4
    <2> QED
      BY <2>5, <2>6, <2>7, QuietKeeps
  <1> QED
    BY <1>4, <1>5 DEF WaitChld

\* The loop's condition keeps the invariant.
LEMMA LoopMInv ==
  ASSUME MInv, NEW p \in Procs, Loop(p), UNCHANGED <<plugged, spawnBroker>>
  PROVE  MInv'
  <1>1. p = 1
    BY DEF Loop, MInv, OneManager
  <1>2. procs[p] \in Proc
    BY ProcAt
  <1> DEFINE r == [procs[p] EXCEPT !.pc = IF procs[p].interrupted THEN "exit" ELSE "broker"]
  <1>3. r \in Proc /\ r.prog = procs[p].prog /\ r.dev = procs[p].dev
        /\ r.broker_running = procs[p].broker_running /\ r.devio_info = procs[p].devio_info
    BY <1>2 DEF Proc
  <1>4. Becomes(p, r)
    BY DEF Loop
  <1> QED
    BY <1>1, <1>3, <1>4, PcKeeps

\* exec keeps the invariant: a child whose exec fails goes to the exit, not to the loop.
LEMMA ExecMInv ==
  ASSUME MInv, NEW p \in Procs, Exec(p), UNCHANGED <<plugged, spawnBroker>>
  PROVE  MInv'
  <1>1. procs[p] \in Proc
    BY ProcAt
  <1>2. PICK pc \in {"runs", "exit"} : Becomes(p, [procs[p] EXCEPT !.pc = pc])
    BY DEF Exec, AfterBroker, AfterDevio, SpawnErr, DMNGR_SUCCESS
  <1> DEFINE r == [procs[p] EXCEPT !.pc = pc]
  <1>3. r \in Proc /\ r.prog = procs[p].prog /\ r.dev = procs[p].dev /\ r.pc = pc
        /\ r.broker_running = procs[p].broker_running /\ r.devio_info = procs[p].devio_info
    BY <1>1 DEF Proc
  <1> QED
    BY <1>2, <1>3, PcKeeps

\* A signal keeps the invariant.
LEMMA InterruptMInv ==
  ASSUME MInv, NEW p \in Procs, Interrupt(p), UNCHANGED <<plugged, spawnBroker>>
  PROVE  MInv'
  <1>1. procs[p] \in Proc
    BY ProcAt
  <1> DEFINE r == [procs[p] EXCEPT !.interrupted = TRUE]
  <1>2. r \in Proc /\ r.prog = procs[p].prog /\ r.dev = procs[p].dev /\ r.pc = procs[p].pc
        /\ r.broker_running = procs[p].broker_running /\ r.devio_info = procs[p].devio_info
    BY <1>1 DEF Proc
  <1>3. Becomes(p, r)
    BY DEF Interrupt
  <1>4. procs[p].pc \in {"broker", "scan", "spawn", "wait", "sleep"} => p = 1
    BY DEF MInv, OneManager
  <1> QED
    BY <1>2, <1>3, <1>4, PcKeeps

\* The end of a process keeps the invariant.
LEMMA EndsMInv ==
  ASSUME MInv, NEW p \in Procs, Ends(p), UNCHANGED <<plugged, spawnBroker>>
  PROVE  MInv'
  <1>1. procs \in [Procs -> Proc]
    BY DEF MInv, Types
  <1>2. ASSUME NEW q \in Procs
        PROVE  /\ procs'[q] \in Proc
               /\ procs'[q].prog = procs[q].prog /\ procs'[q].dev = procs[q].dev
               /\ procs'[q].broker_running = procs[q].broker_running
               /\ procs'[q].devio_info = procs[q].devio_info
               /\ procs'[q].pc \in {"zombie", "gone", procs[q].pc}
    <2>1. procs[q] \in Proc
      BY <1>1
    <2>2. CASE procs'[q] = procs[q]
      BY <2>1, <2>2
    <2>3. CASE q = p
      <3>1. procs'[q] = [procs[q] EXCEPT !.pc =
                           IF procs[q].parent = Init0 THEN "gone" ELSE "zombie"]
        BY <2>3 DEF Ends
      <3> QED
        BY <2>1, <3>1 DEF Proc
    <2>4. CASE q # p /\ procs[q].parent = p
      <3>1. procs'[q] = [procs[q] EXCEPT !.parent = Init0,
                            !.pc = IF procs[q].pc = "zombie" THEN "gone" ELSE procs[q].pc]
        BY <2>1, <2>4 DEF Ends
      <3> QED
        BY <2>1, <3>1 DEF Proc
    <2> QED
      BY <2>2, <2>3, <2>4 DEF Ends
  <1>3. procs' \in [Procs -> Proc]
    <2>1. procs' = [q \in Procs |-> procs'[q]]
      BY DEF Ends
    <2> QED
      BY <1>2, <2>1
  <1>4. Types'
    BY <1>3 DEF MInv, Types
  <1>5. OneManager'
    BY <1>2 DEF MInv, OneManager
  <1> QED
    BY <1>2, <1>4, <1>5, QuietKeeps

\* A new device keeps the invariant.
LEMMA PlugMInv ==
  ASSUME MInv, Plug
  PROVE  MInv'
  BY QuietKeeps DEF Plug, MInv, Types, OneManager

\* Every step keeps the invariant.
LEMMA NextMInv ==
  ASSUME MInv, [Next]_vars
  PROVE  MInv'
  <1>1. CASE UNCHANGED vars
    BY <1>1, QuietKeeps DEF vars, MInv, Types, OneManager
  <1>2. ASSUME NEW p \in Procs, Manage(p)
        PROVE  MInv'
    <2> USE <1>2 DEF Manage
    <2>1. CASE SpawnBroker(p)
      BY <2>1, SpawnBrokerMInv
    <2>2. CASE ScanDevs(p)
      BY <2>2, ScanDevsMInv
    <2>3. CASE SpawnDevio(p)
      BY <2>3, SpawnDevioMInv
    <2>4. CASE WaitChld(p)
      BY <2>4, WaitChldMInv
    <2>5. CASE Loop(p)
      BY <2>5, LoopMInv
    <2>6. CASE Exec(p)
      BY <2>6, ExecMInv
    <2>7. CASE Exit(p)
      BY <2>7, EndsMInv DEF Exit
    <2> QED
      BY <2>1, <2>2, <2>3, <2>4, <2>5, <2>6, <2>7
  <1>3. ASSUME NEW p \in Procs, ChildEnds(p), UNCHANGED <<plugged, spawnBroker>>
        PROVE  MInv'
    BY <1>3, EndsMInv DEF ChildEnds
  <1>4. ASSUME NEW p \in Procs, Interrupt(p), UNCHANGED <<plugged, spawnBroker>>
        PROVE  MInv'
    BY <1>4, InterruptMInv
  <1>5. CASE Plug
    BY <1>5, PlugMInv
  <1> QED
    BY <1>1, <1>2, <1>3, <1>4, <1>5 DEF Next

-----------------------------------------------------------------------------
(* The theorems. *)

\* At most one element.
LEMMA AtMostOne ==
  ASSUME NEW S, \A x, y \in S : x = y
  PROVE  Cardinality(S) <= 1
  <1>1. CASE S = {}
    BY <1>1, FS_EmptySet
  <1>2. CASE S # {}
    <2>1. PICK x : S = {x}
      BY <1>2
    <2> QED
      BY <2>1, FS_Singleton
  <1> QED
    BY <1>1, <1>2

\* The invariant of the device manager: the first process alone runs its loop and
\* its table knows of every process forked.
THEOREM ManagerInvariant == Spec => []MInv
  <1>1. Init => MInv
    BY InitMInv
  <1>2. MInv /\ [Next]_vars => MInv'
    BY NextMInv
  <1> QED
    BY <1>1, <1>2, PTL DEF Spec

\* The processes keep their types: daemons are for devices that were found, and
\* there is no more than one broker, if one was asked for.
THEOREM ManagerTypeCorrect == Spec => []DevMngrTypeOK
  <1>1. MInv => DevMngrTypeOK
    <2> SUFFICES ASSUME MInv PROVE DevMngrTypeOK
      OBVIOUS
    <2> DEFINE B == {p \in Procs : procs[p].prog = "malamute"}
    <2>1. \A p \in Procs : procs[p].prog = "dev_io" => procs[p].dev \in plugged
      BY OneIsProc DEF MInv, DaemonsAreKnown, TableIsFound
    <2>2. Cardinality(B) <= IF spawnBroker THEN 1 ELSE 0
      <3>1. CASE spawnBroker
        <4>1. \A x, y \in B : x = y
          BY DEF MInv, BrokerIsKnown
        <4> HIDE DEF B
        <4> QED
          BY <3>1, <4>1, AtMostOne
      <3>2. CASE ~spawnBroker
        <4>1. B = {}
          BY <3>2 DEF MInv, BrokerIsKnown
        <4> HIDE DEF B
        <4> QED
          BY <3>2, <4>1, FS_EmptySet
      <3> QED
        BY <3>1, <3>2
    <2> QED
      BY <2>1, <2>2 DEF DevMngrTypeOK, MInv, Types
  <1> QED
    BY <1>1, ManagerInvariant, PTL

\* A device gets one daemon, although a child whose exec failed returns into the
\* manager's code with a table in which its device is still to be started.
THEOREM DaemonsAreUnique == Spec => []OneDaemonPerDevice
  <1>1. MInv => OneDaemonPerDevice
    <2> SUFFICES ASSUME MInv, NEW d \in Devs
                 PROVE  Cardinality({p \in Procs : procs[p].dev = d}) <= 1
      BY DEF OneDaemonPerDevice
    <2> DEFINE S == {p \in Procs : procs[p].dev = d}
    <2>1. \A x, y \in S : x = y
      BY DEF MInv, DaemonsDiffer
    <2> HIDE DEF S
    <2>2. Cardinality(S) <= 1
      BY <2>1, AtMostOne
    <2> QED
      BY <2>2 DEF S
  <1> QED
    BY <1>1, ManagerInvariant, PTL
=============================================================================
