------------------------------- MODULE Devio -------------------------------
(***************************************************************************)
(* The life of SMIOs in a DEVIO.                                           *)
(*                                                                         *)
(* DEVIO is one thread running a zloop.  Each SMIO it registers is a       *)
(* thread of its own (smio_loop), and gets a short-lived configuration     *)
(* thread (smio_cfg_loop) that sends default values to it as an ordinary   *)
(* client, through the broker.  DEVIO keeps the actors of both in the      *)
(* slots of two arrays, and two hash tables, sm_io_h and sm_io_cfg_h, from *)
(* an SMIO key (its name and instance) to the slot.                        *)
(*                                                                         *)
(* DEVIO serves register accesses only between two handlers: while it      *)
(* spawns or destroys actors, accesses of SMIOs run into their timeout     *)
(* (SmioThsafe), and so may a configuration that waits for an SMIO.        *)
(*                                                                         *)
(* The command pipe is written by the application (halcsd).  Commands that *)
(* only print, and $RESET_LLIO, change nothing that is modelled here.      *)
(* Failures to allocate memory are left out, and so are the clients of the *)
(* SMIOs other than the configuration threads.                             *)
(***************************************************************************)
EXTENDS Integers, Sequences, FiniteSets, Functions

CONSTANTS
    Ids,           \* the ids a device may have
    Kinds,         \* the ids of the SMIOs of the dispatch table
    Sdb,           \* the devices found in the SDB, in order; unknown ones too
    Child,         \* the SMIO that an SMIO registers when it starts (acq_pm)
    Peer,          \* the SMIO that an SMIO notifies after a request (fmc_active_clk)
    NODES_MAX_LEN  \* length of the arrays of actors

ASSUME DevioAssumption ==
    /\ NODES_MAX_LEN \in Nat \ {0}
    /\ Kinds \subseteq Ids /\ Sdb \in Seq(Ids)
    /\ Child \in [DOMAIN Child -> Kinds] /\ Peer \in [DOMAIN Peer -> Kinds]
    /\ DOMAIN Child \cup DOMAIN Peer \subseteq Kinds

Keys  == Kinds \X Nat
\* The index NODES_MAX_LEN is one past the arrays (SlotsInBounds).
Slots == 0..NODES_MAX_LEN

VARIABLES
    nnodes,   \* slots handed out so far
    sm_io_h,  \* key -> slot of the SMIO actors
    sm_io_cfg_h,  \* key -> slot of the configuration actors
    smio,     \* the SMIO threads, by slot
    cfg,      \* the configuration threads, by slot
    mail,     \* client requests the broker holds for each SMIO
    devio,    \* what the DEVIO thread is doing
    pipe,     \* commands sent to DEVIO
    cfgDone   \* $SMIO_CFG_DONE messages DEVIO sent

regVars == <<nnodes, sm_io_h, sm_io_cfg_h>>
vars    == <<regVars, smio, cfg, mail, devio, pipe, cfgDone>>

-----------------------------------------------------------------------------
\* An SMIO thread: starting, in its zloop, in a handler ("busy"), or ended by
\* $TERM ("gone") or by a failed start ("failed").  req is the request it is
\* working on: the number of a configuration, or 0 for a management message.
\* inbox and outbox are the two directions of its pipe.
ToSmio   == {"TERM", "MGMT"}
FromSmio == {"REGISTER", "MGMT"}
Smio   == [key : Keys, pc : {"init", "loop", "busy", "gone", "failed"},
           req : Nat, inbox : Seq(ToSmio), outbox : Seq(FromSmio)]
NoSmio == [key |-> <<>>, pc |-> "none", req |-> 0, inbox |-> <<>>, outbox |-> <<>>]

\* A configuration thread: waiting for its SMIO ("config") or in its zloop.
\* round counts its configurations, applied says whether the SMIO carried out
\* the last one.
ToCfg   == {"TERM", "RECONFIGURE"}
FromCfg == {"CONFIG DONE"}
Cfg   == [key : Keys, pc : {"config", "loop", "gone"}, timer : {"off", "armed", "fired"},
          round : Nat, applied : BOOLEAN, inbox : Seq(ToCfg), outbox : Seq(FromCfg)]
NoCfg == [key |-> <<>>, pc |-> "none", timer |-> "off", round |-> 0,
          applied |-> FALSE, inbox |-> <<>>, outbox |-> <<>>]

SmioEnded(i) == smio[i].pc \in {"none", "gone", "failed"}
CfgEnded(i)  == cfg[i].pc \in {"none", "gone"}

\* DEVIO: in its loop, registering the SMIOs `todo', destroying the actors of
\* the keys `cfgs' and then `smios', blocked in a send, or ended.  then is what
\* follows the destruction.
Idle     == [pc |-> "loop", todo |-> <<>>, cfgs |-> {}, smios |-> {}, then |-> "loop"]
Commands == {"register", "register_all", "unregister", "unregister_all",
             "reconfigure", "reconfigure_all", "term"}
Command(c, k, n) == [cmd |-> c, kind |-> k, inst |-> n]
Message  == [cmd : Commands, kind : Ids, inst : Nat]
Pipe     == Seq(Message)

\* Mutant: the key stays.
HashKeep(h, k) == h

\* zhashx_insert of a key that is not there, and zhashx_delete.
HashInsert(h, k, i) == [x \in DOMAIN h \cup {k} |-> IF x = k THEN i ELSE h[x]]
HashDelete(h, k)    == Restrict(h, DOMAIN h \ {k})

-----------------------------------------------------------------------------
(* Handlers of DEVIO. *)

Looping == devio.pc = "loop"

\* _devio_handle_pipe: the head of the command pipe.
PipeHead(c) == Looping /\ pipe # <<>> /\ Head(pipe).cmd = c
Handled == pipe' = Tail(pipe)

Register ==
    /\ PipeHead("register") /\ Handled
    /\ devio' = [Idle EXCEPT !.pc = "register",
                             !.todo = <<<<Head(pipe).kind, Head(pipe).inst>>>>]
    /\ UNCHANGED <<regVars, smio, cfg, mail, cfgDone>>

\* Mutant: DEVIO goes through its loop between two SMIOs.
RegisterAllOneByOne ==
    /\ PipeHead("register_all")
    /\ pipe' = [n \in 1..Len(Sdb) |-> Command("register", Sdb[n], 0)] \o Tail(pipe)
    /\ UNCHANGED <<regVars, smio, cfg, mail, devio, cfgDone>>

RegisterAll ==
    /\ PipeHead("register_all") /\ Handled
    /\ devio' = [Idle EXCEPT !.pc = "register",
                             !.todo = [n \in 1..Len(Sdb) |-> <<Sdb[n], 0>>]]
    /\ UNCHANGED <<regVars, smio, cfg, mail, cfgDone>>

\* Mutant: the instance asked for, taken or not.
GivenKey(kind, inst) == <<kind, inst>>

\* The first free instance of the kind.  There are at most NODES_MAX_LEN others.
AutoKey(kind, inst) ==
    <<kind, CHOOSE n \in inst..(inst + NODES_MAX_LEN) :
        /\ <<kind, n>> \notin DOMAIN sm_io_h
        /\ \A m \in inst..(n - 1) : <<kind, m>> \in DOMAIN sm_io_h>>

\* Mutant: the kind is not looked up.
HasSlot(kind) == nnodes <= NODES_MAX_LEN

\* The assertion on the number of SMIOs, and _devio_search_sm_by_id.
Registrable(kind) == nnodes <= NODES_MAX_LEN /\ kind \in Kinds

\* _devio_register_sm_raw.  An SMIO whose smio_new fails is registered too:
\* zactor_new only waits for its signal, whatever it says.
RegisterSm ==
    LET kind == Head(devio.todo)[1]
        key  == AutoKey(kind, Head(devio.todo)[2])
    IN
    /\ devio.pc = "register" /\ devio.todo # <<>>
    /\ devio' = [devio EXCEPT !.todo = Tail(@)]
    /\ IF Registrable(kind)
       THEN /\ \E pc \in {"init", "failed"} :
                  smio' = [smio EXCEPT ![nnodes] = [NoSmio EXCEPT !.key = key, !.pc = pc]]
            /\ cfg' = [cfg EXCEPT ![nnodes] =
                          [NoCfg EXCEPT !.key = key, !.pc = "config", !.round = 1]]
            /\ mail' = [mail EXCEPT ![nnodes] = <<1>>]
            /\ sm_io_h' = HashInsert(sm_io_h, key, nnodes)
            /\ sm_io_cfg_h' = HashInsert(sm_io_cfg_h, key, nnodes)
            /\ nnodes' = nnodes + 1
       ELSE UNCHANGED <<regVars, smio, cfg, mail>>
    /\ UNCHANGED <<pipe, cfgDone>>

RegisterEnd ==
    /\ devio.pc = "register" /\ devio.todo = <<>>
    /\ devio' = Idle
    /\ UNCHANGED <<regVars, smio, cfg, mail, pipe, cfgDone>>

\* Destruction of the actors of some keys; a key without an actor is an error
\* that is only logged.
Destroying(cfgs, smios, then) ==
    [Idle EXCEPT !.pc = "destroy", !.cfgs = cfgs \cap DOMAIN sm_io_cfg_h,
                 !.smios = smios \cap DOMAIN sm_io_h, !.then = then]

\* Mutant: the configuration actor is left alone.
UnregisterSmioOnly ==
    /\ PipeHead("unregister") /\ Handled
    /\ devio' = Destroying({}, {<<Head(pipe).kind, Head(pipe).inst>>}, "loop")
    /\ UNCHANGED <<regVars, smio, cfg, mail, cfgDone>>

Unregister ==
    /\ PipeHead("unregister") /\ Handled
    /\ LET key == <<Head(pipe).kind, Head(pipe).inst>>
       IN  devio' = Destroying({key}, {key}, "loop")
    /\ UNCHANGED <<regVars, smio, cfg, mail, cfgDone>>

UnregisterAll ==
    /\ PipeHead("unregister_all") /\ Handled
    /\ devio' = Destroying(DOMAIN sm_io_cfg_h, DOMAIN sm_io_h, "loop")
    /\ UNCHANGED <<regVars, smio, cfg, mail, cfgDone>>

\* Mutant: only the configuration actors are destroyed.
TermCfgOnly ==
    /\ PipeHead("term") /\ Handled
    /\ devio' = Destroying(DOMAIN sm_io_cfg_h, {}, "exited")
    /\ UNCHANGED <<regVars, smio, cfg, mail, cfgDone>>

Term ==
    /\ PipeHead("term") /\ Handled
    /\ devio' = Destroying(DOMAIN sm_io_cfg_h, DOMAIN sm_io_h, "exited")
    /\ UNCHANGED <<regVars, smio, cfg, mail, cfgDone>>

\* zactor_destroy sends $TERM and waits for the thread to end.  An actor that
\* has ended before is not waited for.  Then the key is deleted, and with the
\* actor went its pipe.
SendTerm(actor, i) == [actor EXCEPT ![i].inbox = Append(@, "TERM")]
ClosePipe(actor, i) == [actor EXCEPT ![i].inbox = <<>>, ![i].outbox = <<>>]
TermSent(actor, i) == "TERM" \in Range(actor[i].inbox)

DestroyCfg(k) ==
    LET i == sm_io_cfg_h[k] IN
    /\ devio.pc = "destroy" /\ k \in devio.cfgs
    /\ \A x \in devio.cfgs \ {k} : ~TermSent(cfg, sm_io_cfg_h[x])
    /\ \/ /\ ~CfgEnded(i) /\ ~TermSent(cfg, i)
          /\ cfg' = SendTerm(cfg, i)
          /\ UNCHANGED <<regVars, devio>>
       \/ /\ CfgEnded(i)
          /\ cfg' = ClosePipe(cfg, i)
          /\ sm_io_cfg_h' = HashDelete(sm_io_cfg_h, k)
          /\ devio' = [devio EXCEPT !.cfgs = @ \ {k}]
          /\ UNCHANGED <<nnodes, sm_io_h>>
    /\ UNCHANGED <<smio, mail, pipe, cfgDone>>

\* The SMIOs only after the last configuration actor.
DestroySmio(k) ==
    LET i == sm_io_h[k] IN
    /\ devio.pc = "destroy" /\ devio.cfgs = {} /\ k \in devio.smios
    /\ \A x \in devio.smios \ {k} : ~TermSent(smio, sm_io_h[x])
    /\ \/ /\ ~SmioEnded(i) /\ ~TermSent(smio, i)
          /\ smio' = SendTerm(smio, i)
          /\ UNCHANGED <<regVars, devio>>
       \/ /\ SmioEnded(i)
          /\ smio' = ClosePipe(smio, i)
          /\ sm_io_h' = HashDelete(sm_io_h, k)
          /\ devio' = [devio EXCEPT !.smios = @ \ {k}]
          /\ UNCHANGED <<nnodes, sm_io_cfg_h>>
    /\ UNCHANGED <<cfg, mail, pipe, cfgDone>>

\* Mutant: $SMIO_CFG_DONE follows every CONFIG DONE.
OneCfgDone == TRUE

\* The condition of _devio_check_send_cfg_done.
AllCfgDone == DOMAIN sm_io_cfg_h = {}

\* After a CONFIG DONE, _devio_check_send_cfg_done.
DestroyEnd ==
    /\ devio.pc = "destroy" /\ devio.cfgs = {} /\ devio.smios = {}
    /\ devio' = [Idle EXCEPT !.pc = IF devio.then = "exited" THEN "exited" ELSE "loop"]
    /\ cfgDone' = IF devio.then = "check" /\ AllCfgDone
                  THEN cfgDone + 1 ELSE cfgDone
    /\ UNCHANGED <<regVars, smio, cfg, mail, pipe>>

SendReconfigure(keys) ==
    /\ cfg' = [i \in Slots |->
                 IF \E k \in keys \cap DOMAIN sm_io_cfg_h : sm_io_cfg_h[k] = i
                 THEN [cfg[i] EXCEPT !.inbox = Append(@, "RECONFIGURE")] ELSE cfg[i]]
    /\ UNCHANGED <<regVars, smio, mail, devio, cfgDone>>

Reconfigure ==
    /\ PipeHead("reconfigure") /\ Handled
    /\ SendReconfigure({<<Head(pipe).kind, Head(pipe).inst>>})

ReconfigureAll ==
    /\ PipeHead("reconfigure_all") /\ Handled
    /\ SendReconfigure(DOMAIN sm_io_cfg_h)

\* Mutant: $SMIO_CFG_DONE is never considered.
HandlePipeCfgUnchecked(i) ==
    /\ Looping /\ cfg[i].outbox # <<>>
    /\ devio' = Destroying({cfg[i].key}, {}, "loop")
    /\ cfg' = [cfg EXCEPT ![i].outbox = Tail(@)]
    /\ UNCHANGED <<regVars, smio, mail, pipe, cfgDone>>

\* _devio_handle_pipe_cfg: CONFIG DONE ends the configuration actor.
HandlePipeCfg(i) ==
    /\ Looping /\ cfg[i].outbox # <<>>
    /\ devio' = Destroying({cfg[i].key}, {}, "check")
    /\ cfg' = [cfg EXCEPT ![i].outbox = Tail(@)]
    /\ UNCHANGED <<regVars, smio, mail, pipe, cfgDone>>

\* _devio_handle_pipe_mgmt: an SMIO registers another one, or sends a message
\* to one of the same instance.  A send to an SMIO that is registered but has
\* ended blocks: the pipe has no peer.
HandlePipeMgmt(i) ==
    LET kind == smio[i].key[1]
        inst == smio[i].key[2]
        dest == <<Peer[kind], inst>>
        rest == [smio EXCEPT ![i].outbox = Tail(@)]
    IN
    /\ Looping /\ smio[i].outbox # <<>>
    /\ \/ /\ Head(smio[i].outbox) = "REGISTER"
          /\ devio' = [Idle EXCEPT !.pc = "register", !.todo = <<<<Child[kind], inst>>>>]
          /\ smio' = rest
       \/ /\ Head(smio[i].outbox) = "MGMT"
          /\ IF dest \notin DOMAIN sm_io_h
             THEN smio' = rest /\ UNCHANGED devio
             ELSE LET d == sm_io_h[dest] IN
                  IF SmioEnded(d)
                  THEN smio' = rest /\ devio' = [devio EXCEPT !.pc = "stuck"]
                  ELSE /\ smio' = [rest EXCEPT ![d].inbox = Append(@, "MGMT")]
                       /\ UNCHANGED devio
    /\ UNCHANGED <<regVars, cfg, mail, pipe, cfgDone>>

-----------------------------------------------------------------------------
(* SMIO threads. *)

\* Mutant: only a configuration that worked sets the timer.
ConfigReturnedUntimed(i, ok) ==
    [cfg EXCEPT ![i].pc = "loop", ![i].applied = ok,
                ![i].timer = IF @ = "off" /\ ok THEN "armed" ELSE @]

\* config_defaults returns: the configuration thread goes (back) to its zloop,
\* for which smio_cfg_new sets the timer, once.
ConfigReturned(i, ok) ==
    [cfg EXCEPT ![i].pc = "loop", ![i].applied = ok,
                ![i].timer = IF @ = "off" THEN "armed" ELSE @]

\* smio_loop up to its zloop.  A start may fail, also because its register
\* accesses time out.  acq_pm asks for its child early: the message may be sent
\* by a start that fails later.
SmioInit(i) ==
    /\ smio[i].pc = "init"
    /\ \E pc \in {"loop", "failed"}, asks \in BOOLEAN :
         /\ asks => smio[i].key[1] \in DOMAIN Child
         /\ pc = "loop" /\ smio[i].key[1] \in DOMAIN Child => asks
         /\ smio' = [smio EXCEPT ![i].pc = pc,
                       ![i].outbox = IF asks THEN Append(@, "REGISTER") ELSE @]
    /\ UNCHANGED <<regVars, cfg, mail, devio, pipe, cfgDone>>

\* _smio_handle_worker takes a request of a client.
SmioRequest(i) ==
    /\ smio[i].pc = "loop" /\ mail[i] # <<>>
    /\ smio' = [smio EXCEPT ![i].pc = "busy", ![i].req = Head(mail[i])]
    /\ mail' = [mail EXCEPT ![i] = Tail(@)]
    /\ UNCHANGED <<regVars, cfg, devio, pipe, cfgDone>>

\* The request is carried out, or fails if its register accesses fail or time
\* out, as they do while DEVIO is in a handler for long.  Some requests make
\* the SMIO notify its peer.  The reply reaches a client that still waits.
SmioReply(i) ==
    /\ smio[i].pc = "busy"
    /\ \E notifies \in BOOLEAN :
         /\ notifies => smio[i].req # 0 /\ smio[i].key[1] \in DOMAIN Peer
         /\ smio' = [smio EXCEPT ![i].pc = "loop", ![i].req = 0,
                       ![i].outbox = IF notifies THEN Append(@, "MGMT") ELSE @]
    /\ \/ /\ cfg[i].pc = "config" /\ cfg[i].round = smio[i].req
          /\ \E ok \in BOOLEAN : cfg' = ConfigReturned(i, ok)
       \/ /\ ~(cfg[i].pc = "config" /\ cfg[i].round = smio[i].req)
          /\ UNCHANGED cfg
    /\ UNCHANGED <<regVars, mail, devio, pipe, cfgDone>>

\* _smio_handle_pipe_mgmt.
SmioPipe(i) ==
    /\ smio[i].pc = "loop" /\ smio[i].inbox # <<>>
    /\ smio' = IF Head(smio[i].inbox) = "TERM"
               THEN [smio EXCEPT ![i].pc = "gone"]
               ELSE [smio EXCEPT ![i].pc = "busy", ![i].inbox = Tail(@)]
    /\ UNCHANGED <<regVars, cfg, mail, devio, pipe, cfgDone>>

-----------------------------------------------------------------------------
(* Configuration threads. *)

\* Mutant: the client has no timeout.
ConfigTimeoutNever(i) == FALSE /\ cfg[i].pc = "config" /\ UNCHANGED vars

\* The client gives up; its request stays with the broker.
ConfigTimeout(i) ==
    /\ cfg[i].pc = "config"
    /\ cfg' = ConfigReturned(i, FALSE)
    /\ UNCHANGED <<regVars, smio, mail, devio, pipe, cfgDone>>

\* The timer fires once, however many messages came in since it was set.
CfgTimer(i) ==
    /\ cfg[i].pc = "loop" /\ cfg[i].timer = "armed"
    /\ cfg' = [cfg EXCEPT ![i].timer = "fired", ![i].outbox = Append(@, "CONFIG DONE")]
    /\ UNCHANGED <<regVars, smio, mail, devio, pipe, cfgDone>>

CfgPipe(i) ==
    /\ cfg[i].pc = "loop" /\ cfg[i].inbox # <<>>
    /\ \/ /\ Head(cfg[i].inbox) = "TERM"
          /\ cfg' = [cfg EXCEPT ![i].pc = "gone"]
          /\ UNCHANGED mail
       \/ /\ Head(cfg[i].inbox) = "RECONFIGURE"
          /\ cfg' = [cfg EXCEPT ![i].pc = "config", ![i].inbox = Tail(@),
                                ![i].round = @ + 1]
          /\ mail' = [mail EXCEPT ![i] = Append(@, cfg[i].round + 1)]
    /\ UNCHANGED <<regVars, smio, devio, pipe, cfgDone>>

-----------------------------------------------------------------------------
\* The commands of `script' wait in the pipe: DEVIO may take each of them at
\* any time it is in its loop, as if it were sent then.
InitWith(script) ==
    /\ nnodes = 0
    /\ sm_io_h = [k \in {} |-> 0]
    /\ sm_io_cfg_h = [k \in {} |-> 0]
    /\ smio = [i \in Slots |-> NoSmio]
    /\ cfg = [i \in Slots |-> NoCfg]
    /\ mail = [i \in Slots |-> <<>>]
    /\ devio = Idle
    /\ pipe = script
    /\ cfgDone = 0

\* The DEVIO thread: its handlers, and the steps of the handlers that wait for
\* other threads.
HandlePipe == \/ Register \/ RegisterAll \/ Unregister \/ UnregisterAll
              \/ Reconfigure \/ ReconfigureAll \/ Term

DevioThread == \/ HandlePipe \/ RegisterSm \/ RegisterEnd \/ DestroyEnd
               \/ \E k \in devio.cfgs : DestroyCfg(k)
               \/ \E k \in devio.smios : DestroySmio(k)
               \/ \E i \in Slots : HandlePipeCfg(i) \/ HandlePipeMgmt(i)

SmioThread(i) == SmioInit(i) \/ SmioRequest(i) \/ SmioReply(i) \/ SmioPipe(i)
CfgThread(i)  == ConfigTimeout(i) \/ CfgTimer(i) \/ CfgPipe(i)

Threads == DevioThread \/ \E i \in Slots : SmioThread(i) \/ CfgThread(i)

\* A thread that can take a step does.  Among the events a zloop has to handle
\* nothing is assumed: all of them are handled in the end because there are
\* finitely many.
ThreadFairness ==
    /\ WF_vars(DevioThread)
    /\ \A i \in Slots : WF_vars(SmioThread(i)) /\ WF_vars(CfgThread(i))

\* Any commands, in any order.
DevioSpec == (\E script \in Pipe : InitWith(script)) /\ [][Threads]_vars

-----------------------------------------------------------------------------
(* Properties. *)

\* The tables only hold known SMIOs with an instance, and slots that were handed
\* out; an SMIO that is not in the dispatch table never becomes a thread.
DevioTypeOK ==
    /\ nnodes \in Nat
    /\ DOMAIN sm_io_h \subseteq Keys /\ Range(sm_io_h) \subseteq Slots
    /\ DOMAIN sm_io_cfg_h \subseteq Keys /\ Range(sm_io_cfg_h) \subseteq Slots
    /\ \A i \in Slots :
         /\ smio[i] = NoSmio \/ smio[i] \in Smio
         /\ cfg[i] = NoCfg \/ cfg[i] \in Cfg
         /\ mail[i] \in Seq(Nat)
    /\ devio.pc \in {"loop", "register", "destroy", "stuck", "exited"}
    /\ devio.cfgs \subseteq Keys /\ devio.smios \subseteq Keys
    /\ pipe \in Pipe
    /\ cfgDone \in Nat

\* DEVIO never loses a thread: each one that has not ended is in the hash table
\* under its key, so that it can be destroyed, and no two SMIOs that run offer
\* the same service to the broker ("We must not fail here, as we will loose our
\* reference to the SMIO thread otherwise").
NoLostThread ==
    \A i \in Slots :
        /\ ~SmioEnded(i) => smio[i].key \in DOMAIN sm_io_h /\ sm_io_h[smio[i].key] = i
        /\ ~CfgEnded(i) => /\ cfg[i].key \in DOMAIN sm_io_cfg_h
                           /\ sm_io_cfg_h[cfg[i].key] = i

\* A configuration actor belongs to the SMIO registered under the same key, in
\* the same slot: it never outlives that SMIO's registration, nor does it send
\* defaults to the next SMIO of that name.
CfgHasSmio ==
    \A k \in DOMAIN sm_io_cfg_h :
        k \in DOMAIN sm_io_h /\ sm_io_h[k] = sm_io_cfg_h[k]

\* DEVIO blocks in a send only when an SMIO failed to start and stayed in the
\* hash table: an SMIO that was unregistered is never sent a message.
StuckOnlyOnFailed ==
    devio.pc = "stuck" => \E k \in DOMAIN sm_io_h : smio[sm_io_h[k]].pc = "failed"

\* $SMIO_CFG_DONE is sent only when no configuration thread runs, not merely
\* when none is in the hash table.
DoneMeansNoCfg == [][cfgDone' > cfgDone => \A i \in Slots : CfgEnded(i)]_vars

\* $TERM ends DEVIO, although it waits for a configuration thread that waits for
\* an SMIO whose register accesses wait for DEVIO: unless DEVIO is blocked.
TermEnds == (\E c \in Range(pipe) : c.cmd = "term") ~> devio.pc \in {"exited", "stuck"}

\* The "short lived thread just to configure our SMIO" ends by itself, with no
\* command of the application, whether or not its SMIO answers and even when it
\* is told to reconfigure at the last moment.
CfgShortLived == <>[]((\A i \in Slots : CfgEnded(i)) \/ devio.pc = "stuck")

\* "Maximum number of SMIOs reached": the assertion that keeps the slots within
\* the arrays of NODES_MAX_LEN actors.
SlotsInBounds == \A k \in DOMAIN sm_io_h : sm_io_h[k] < NODES_MAX_LEN
=============================================================================
