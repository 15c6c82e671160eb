------------------------------- MODULE Halcsd -------------------------------
(***************************************************************************)
(* The halcsd daemon: the main thread and the DEVIO it starts.             *)
(*                                                                         *)
(* main has DEVIO register the SMIOs of the platform, waits for            *)
(* $SMIO_CFG_DONE, and then registers the INIT SMIO, whose presence tells  *)
(* clients that the device may be used.  After that it only prints what    *)
(* DEVIO sends.  An interrupt makes it destroy DEVIO.                      *)
(***************************************************************************)
EXTENDS Devio

CONSTANT InitSmio    \* the INIT SMIO

ASSUME HalcsdAssumption == InitSmio \in Kinds

VARIABLE main    \* "wait", "ready", "term" or "done"

allVars == <<vars, main>>

\* DEVIO is a fresh actor; it was sent the command of _spawn_platform_smios.  (A
\* front-end registers one SMIO, as if Sdb had that one only.)
HalcsdInit == InitWith(<<Command("register_all", InitSmio, 0)>>) /\ main = "wait"

\* Mutant: main does not wait for the message.
MainCfgUnawaited ==
    /\ main = "wait"
    /\ cfgDone' = cfgDone - 1
    /\ pipe' = Append(pipe, Command("register", InitSmio, 0))
    /\ main' = "ready"
    /\ UNCHANGED <<regVars, smio, cfg, mail, devio>>

\* main is blocked in zstr_recv, and gets the next message of DEVIO.
MainCfgDone ==
    /\ main = "wait" /\ cfgDone > 0
    /\ cfgDone' = cfgDone - 1
    /\ pipe' = Append(pipe, Command("register", InitSmio, 0))
    /\ main' = "ready"
    /\ UNCHANGED <<regVars, smio, cfg, mail, devio>>

MainPrint ==
    /\ main = "ready" /\ cfgDone > 0
    /\ cfgDone' = cfgDone - 1
    /\ UNCHANGED <<regVars, smio, cfg, mail, devio, pipe, main>>

\* An interrupted zstr_recv returns NULL; zactor_destroy sends $TERM and waits.
MainInterrupted ==
    /\ main \in {"wait", "ready"}
    /\ pipe' = Append(pipe, Command("term", InitSmio, 0))
    /\ main' = "term"
    /\ UNCHANGED <<regVars, smio, cfg, mail, devio, cfgDone>>

MainDestroyed ==
    /\ main = "term" /\ devio.pc = "exited"
    /\ main' = "done"
    /\ UNCHANGED vars

MainReceives == MainCfgDone \/ MainPrint \/ MainDestroyed

HalcsdNext == MainReceives \/ MainInterrupted \/ (Threads /\ UNCHANGED main)

\* Nothing makes an interrupt happen.
HalcsdSpec ==
    /\ HalcsdInit /\ [][HalcsdNext]_allVars
    /\ ThreadFairness /\ WF_allVars(MainReceives)

-----------------------------------------------------------------------------
(* Properties. *)

\* DEVIO's state keeps its type under main's commands, and main never takes a
\* message that was not sent.
HalcsdTypeOK == DevioTypeOK /\ main \in {"wait", "ready", "term", "done"}

\* The SMIOs that DEVIO registered for the platform command itself.
FirstSmios == {i \in Slots : i < Cardinality({n \in DOMAIN Sdb : Sdb[n] \in Kinds})}

\* INIT is announced only after every SMIO found in the SDB was configured, or
\* was given up on after a timeout: the first $SMIO_CFG_DONE cannot come while
\* DEVIO is still registering, because CONFIG DONE messages wait until the
\* whole of _devio_register_all_sm_raw is through.
ReadyAfterConfig ==
    main = "ready" => \A i \in FirstSmios : smio[i].pc # "none" /\ CfgEnded(i)

\* INIT shows up: main does not wait for $SMIO_CFG_DONE for ever, although SMIOs
\* may fail to start, unless it is interrupted or DEVIO is blocked.
InitSpawned ==
    <>(main \in {"term", "done"} \/ devio.pc = "stuck"
         \/ \E i \in Slots : smio[i].key # <<>> /\ smio[i].key[1] = InitSmio)

\* An interrupted daemon ends: all threads are waited for, and none is left.
Interrupted ==
    main = "term" ~> \/ devio.pc = "stuck"
                     \/ main = "done" /\ \A i \in Slots : SmioEnded(i) /\ CfgEnded(i)

\* halcsd.c: "Now that everything is ready spawn INIT SMIO so clients can be sure
\* HALCS is ready to go".
EverythingReady ==
    main = "ready" => \A i \in Slots : /\ ~CfgEnded(i) => cfg[i].key[1] = InitSmio
                                       /\ smio[i].pc # "failed"
                                       /\ cfg[i].pc = "gone" => cfg[i].applied
=============================================================================
