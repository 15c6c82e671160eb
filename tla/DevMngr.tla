------------------------------ MODULE DevMngr -------------------------------
(***************************************************************************)
(* The device manager: a process that looks for devices and forks one      *)
(* daemon for each, and the broker if it is told to.                       *)
(*                                                                         *)
(* A forked child is a copy of the manager until its exec succeeds; if it  *)
(* fails, the child goes on in the manager's code with the return value of *)
(* a failed spawn.  Children that end are zombies until they are waited    *)
(* for.                                                                    *)
(***************************************************************************)
EXTENDS Integers, FiniteSets

CONSTANTS
    Devs,        \* the devices that may turn up under /dev/fpga
    MaxProcs,    \* bound: processes that are ever forked, the manager included
    NoDev

ASSUME DevMngrAssumption ==
    /\ MaxProcs \in Nat \ {0} /\ NoDev \notin Devs /\ IsFiniteSet(Devs)

VARIABLES
    procs,        \* the processes
    plugged,      \* the devices present
    spawnBroker   \* the option spawn_broker of the configuration file

vars == <<procs, plugged, spawnBroker>>

Procs    == 1 .. MaxProcs
Init0    == 0                      \* the process that adopts orphans
Programs == {"dev_mngr", "malamute", "dev_io"}

\* devio_state_e; "absent" is a key that is not in the table.
States == {"absent", "INACTIVE", "READY_TO_RUN", "RUNNING", "STOPPED", "KILLED"}

\* The values of dmngr_err_e that are told apart.
DMNGR_SUCCESS       == 0
DMNGR_ERR_SPAWNCHLD == 5

\* dmngr_spawn_all_devios is called with respawn_killed_devio = false.
RespawnKilled == FALSE

\* A process: its code (prog and pc), the device its daemon is for, its parent
\* (waitpid), and the manager's memory, which a child inherits.
Blank == [prog |-> "dev_mngr", dev |-> NoDev, parent |-> Init0, pc |-> "free",
          broker_running |-> FALSE, devio_info |-> [d \in Devs |-> "absent"],
          interrupted |-> FALSE]

Free == {p \in Procs : procs[p].pc = "free"}

Becomes(p, r) == procs' = [procs EXCEPT ![p] = r]

-----------------------------------------------------------------------------
(* The steps of the manager's loop.                                         *)

\* Mutant: a device is put in the table without its state.
ScannedInactive(info) ==
    [d \in Devs |-> IF info[d] = "absent" /\ d \in plugged THEN "INACTIVE" ELSE info[d]]

\* _dmngr_scan_devs: every device that is not in the table is put there.
Scanned(info) ==
    [d \in Devs |-> IF info[d] = "absent" /\ d \in plugged THEN "READY_TO_RUN" ELSE info[d]]

\* Mutant: the error of the caller's choice is returned.
SpawnErrCode(rc) == IF rc < 0 THEN DMNGR_ERR_SPAWNCHLD ELSE DMNGR_SUCCESS

\* DMNGR_FUNC_WRAPPER: CHECK_ERR returns the value it checks.
SpawnErr(rc) == IF rc < 0 THEN rc ELSE DMNGR_SUCCESS

\* Mutant: the flag is forgotten.
AfterBrokerUnflagged(r, rc) == [r EXCEPT !.pc = IF SpawnErr(rc) >= 0 THEN "scan" ELSE "exit"]

\* dmngr_spawn_broker, when hutils_spawn_chld has returned.
AfterBroker(r, rc) ==
    IF SpawnErr(rc) >= 0 THEN [r EXCEPT !.broker_running = TRUE, !.pc = "scan"]
    ELSE [r EXCEPT !.pc = "exit"]

\* The loop of dmngr_spawn_all_devios, when hutils_spawn_chld has returned.
AfterDevio(r, d, rc) ==
    IF SpawnErr(rc) = DMNGR_SUCCESS THEN [r EXCEPT !.devio_info[d] = "RUNNING"]
    ELSE [r EXCEPT !.pc = "exit"]

\* The process that fork makes.
Child == CHOOSE c \in Free : TRUE

\* In the parent hutils_spawn_chld returns; the child is a copy that execs.
Forked(p, prog, d, parent) ==
    /\ Free # {}
    /\ procs' = [procs EXCEPT
           ![p] = parent,
           ![Child] = [procs[p] EXCEPT !.prog = prog, !.dev = d, !.parent = p, !.pc = "exec"]]

\* hutils_spawn_chld: fork fails, or there is one more process.
Fork(p, prog, d, failed, parent) == Becomes(p, failed) \/ Forked(p, prog, d, parent)

SpawnBroker(p) ==
    LET r == procs[p] IN
    /\ r.pc = "broker"
    /\ IF ~spawnBroker \/ r.broker_running
       THEN Becomes(p, [r EXCEPT !.pc = "scan"])
       ELSE Fork(p, "malamute", NoDev, AfterBroker(r, -1), AfterBroker(r, Child))

ScanDevs(p) ==
    /\ procs[p].pc = "scan"
    /\ Becomes(p, [procs[p] EXCEPT !.devio_info = Scanned(@), !.pc = "spawn"])

\* The devices that are not skipped.
ToSpawn(r) ==
    {d \in Devs : \/ r.devio_info[d] = "READY_TO_RUN"
                  \/ r.devio_info[d] = "KILLED" /\ RespawnKilled}

\* dmngr_spawn_all_devios: keys come in any order.
SpawnDevio(p) ==
    LET r == procs[p] IN
    /\ r.pc = "spawn"
    /\ IF ToSpawn(r) = {} THEN Becomes(p, [r EXCEPT !.pc = "wait"])
       ELSE \E d \in ToSpawn(r) :
              Fork(p, "dev_io", d, AfterDevio(r, d, -1), AfterDevio(r, d, Child))

\* Mutant: only the broker is waited for.
ZombiesBroker(p) ==
    {c \in Procs : procs[c].parent = p /\ procs[c].pc = "zombie" /\ procs[c].prog = "malamute"}

Zombies(p) == {c \in Procs : procs[c].parent = p /\ procs[c].pc = "zombie"}

\* hutils_wait_chld: at most one child is waited for, and none is no error.
WaitChld(p) ==
    /\ procs[p].pc = "wait"
    /\ \/ /\ Zombies(p) = {}
          /\ Becomes(p, [procs[p] EXCEPT !.pc = "sleep"])
       \/ \E c \in Zombies(p) :
            procs' = [procs EXCEPT ![p].pc = "sleep", ![c].pc = "gone"]

\* The condition of the loop; sleep ends early on a signal.
Loop(p) ==
    /\ procs[p].pc = "sleep"
    /\ Becomes(p, [procs[p] EXCEPT !.pc = IF procs[p].interrupted THEN "exit" ELSE "broker"])

-----------------------------------------------------------------------------
(* Processes.                                                               *)

\* A process ends: its children are adopted, and it is a zombie if it has a
\* parent left.
Ends(p) ==
    procs' = [c \in Procs |->
        IF c = p THEN [procs[p] EXCEPT !.pc = IF procs[p].parent = Init0 THEN "gone" ELSE "zombie"]
        ELSE IF procs[c].parent # p THEN procs[c]
        ELSE [procs[c] EXCEPT !.parent = Init0, !.pc = IF @ = "zombie" THEN "gone" ELSE @]]

\* The error labels of main, or the end of its loop: dmngr_destroy and return.
Exit(p) == procs[p].pc = "exit" /\ Ends(p)

\* execv in the child: it runs the program, or hutils_spawn_chld returns -1 in
\* a second manager.
Exec(p) ==
    /\ procs[p].pc = "exec"
    /\ \/ Becomes(p, [procs[p] EXCEPT !.pc = "runs"])
       \/ Becomes(p, IF procs[p].prog = "malamute" THEN AfterBroker(procs[p], -1)
                     ELSE AfterDevio(procs[p], procs[p].dev, -1))

\* A daemon or the broker ends, for whatever reason.
ChildEnds(p) == procs[p].pc = "runs" /\ Ends(p)

\* SIGINT or SIGTERM to a process that runs the manager's code.
Interrupt(p) ==
    /\ procs[p].pc \notin {"free", "exec", "runs", "zombie", "gone"}
    /\ ~procs[p].interrupted
    /\ Becomes(p, [procs[p] EXCEPT !.interrupted = TRUE])

Plug == \E d \in Devs \ plugged :
            plugged' = plugged \cup {d} /\ UNCHANGED <<procs, spawnBroker>>

Manage(p) ==
    /\ \/ SpawnBroker(p) \/ ScanDevs(p) \/ SpawnDevio(p) \/ WaitChld(p) \/ Loop(p)
       \/ Exec(p) \/ Exit(p)
    /\ UNCHANGED <<plugged, spawnBroker>>

\* dmngr_new scans once; main then enters its loop.
Init ==
    /\ plugged \in SUBSET Devs /\ spawnBroker \in BOOLEAN
    /\ procs = [[p \in Procs |-> Blank] EXCEPT
                    ![1].pc = "broker", ![1].devio_info = Scanned(@)]

Next == \/ \E p \in Procs : Manage(p)
        \/ \E p \in Procs : (ChildEnds(p) \/ Interrupt(p)) /\ UNCHANGED <<plugged, spawnBroker>>
        \/ Plug

\* Every process is scheduled; signals, deaths of daemons and new devices may
\* never happen.
Spec == Init /\ [][Next]_vars /\ \A p \in Procs : WF_vars(Manage(p))

-----------------------------------------------------------------------------
(* Properties. *)

Proc == [prog : Programs, dev : Devs \cup {NoDev}, parent : {Init0} \cup Procs,
         pc : {"free", "broker", "scan", "spawn", "wait", "sleep", "exec", "exit",
               "runs", "zombie", "gone"},
         broker_running : BOOLEAN, devio_info : [Devs -> States], interrupted : BOOLEAN]

\* Every process is one the manager can have forked: daemons for devices that
\* are there, a broker only if it was asked for, and no more than one of it.
DevMngrTypeOK ==
    /\ procs \in [Procs -> Proc] /\ plugged \subseteq Devs /\ spawnBroker \in BOOLEAN
    /\ \A p \in Procs : procs[p].prog = "dev_io" => procs[p].dev \in plugged
    /\ Cardinality({p \in Procs : procs[p].prog = "malamute"}) <= IF spawnBroker THEN 1 ELSE 0

\* dmngr_spawn_all_devios ("If device is already running ... don't do
\* anything"): a device gets one daemon, even though a child whose exec failed
\* has a copy of the table in which its device is still to be started.
OneDaemonPerDevice ==
    \A d \in Devs : Cardinality({p \in Procs : procs[p].dev = d}) <= 1

\* A device that turns up gets its daemon, or the manager has ended
\* before (it does when a fork fails or it is interrupted).
FoundIsStarted ==
    \A d \in Devs : d \in plugged ~> \/ \E p \in Procs : procs[p].dev = d
                                     \/ procs[1].pc = "gone"

\* No zombie stays: a child that was forked runs its program, or has been
\* waited for in the end, by the manager or its heir, the exec's failure included.
ChildrenAreReaped ==
    \A p \in Procs : procs[p].pc \in {"exec", "zombie"} ~> procs[p].pc \in {"runs", "gone"}
=============================================================================
