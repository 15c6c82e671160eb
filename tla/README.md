# A TLA+ model of HALCS

HALCS is a set of daemons that give network clients access to the registers of
FPGA boards. This directory holds a model of its core in TLA+, the
configurations that check it with TLC, and proofs checked by TLAPS.

`PROJECT.json` lists, for every definition that stands for code, the file and
the lines it was written from; paths are relative to the directory that holds
`src/` (the root of the repository is `src/`, so that `src/src/dev_io` is its
directory `src/dev_io`).

## 1. Inventory

### The system

    client library ---- Malamute broker ---- SMIO threads   (one per FPGA core)
                                               |  ^
                                       DEALER  |  |  PAIR pipes (management)
                                               v  |
         halcsd main ---- PAIR pipe ------- DEVIO thread ---- LLIO (PCIe, Ethernet)
                                               |
                                               | PAIR pipes
                                     configuration threads (one per SMIO, short-lived;
                                     clients of the broker)

| component | state it keeps | operations | hard behaviour | what makes it correct |
|---|---|---|---|---|
| register channel: `msg/smio_thsafe_ops`, `msg/msg.c`, `dev_io_proto.c` | messages on DEALER/ROUTER sockets, the call a thread is blocked in | open, release, read and write of 16/32/64 bits, blocks, DMA | a receive timeout races a late reply; no message has an identifier; DEVIO interleaves sockets | a call gets the answer to its own request, accesses look atomic, calls end |
| parameter macros: `include/rw_param.h` | none of their own | GET and SET of a register field | a SET is two accesses; each may fail or time out | a GET is fresh, a SET is atomic and leaves other fields alone |
| DEVIO: `dev_io_core.c` | two hash tables from key to actor, two arrays of actors, `nnodes` | `$REGISTER_SMIO`, `$REGISTER_SMIO_ALL`, `$UNREGISTER_SMIO(_ALL)`, `$RECONFIGURE_SMIO(_ALL)`, `$TERM`, messages of SMIOs and of configuration threads | it blocks in `zactor_new`, `zactor_destroy` and sends, and serves no register access meanwhile | no thread is lost, it ends when told to, `$SMIO_CFG_DONE` is true when it is sent |
| SMIO core: `sm_io.c` | its sockets, its export table | start, requests of clients, management messages, `$TERM` | its start can fail after DEVIO has registered it | it ends when told to, answers its clients |
| configuration actor: `sm_io_cfg.c` | a timer | configure, `$RECONFIGURE_SMIO`, `CONFIG DONE` | timer against reconfiguration; its SMIO may never answer | it ends by itself |
| halcsd: `apps/halcsd/halcsd.c` | the DEVIO actor | start, wait, announce INIT, destroy | waits without a timeout; interrupted at any moment | INIT comes after the configuration, and it does come |
| message layer: `msg.c`, `disptable` | a table of operations | insertion of an SMIO's operations, lookup, argument check, call, reply | wrong arguments, unknown operations, operations and functions matched by position | every request is answered once, by the function it names |
| parameters of the SMIOs: `modules/*_exp.c`, `*_codes.h`, `*_defaults.c`, `sm_io_table`, `include/hw` | the registers of their core | SET and GET of several hundred parameters, default values | five files per SMIO that must agree; defaults are set while clients are served; errors that are overwritten | a SET is read back, stays in its field and channel, and a failed configuration is reported |
| client library: `client/src` | a connection to the broker | request, reply with timeout | late replies are taken for the next one's | replies match requests |
| acquisition: `modules/acq`, `acqclient` | parameters of the last acquisition of each channel, the channel started last, FSM of the FPGA core, a ring of samples | start, check, get block, trigger, stop | clients that start acquisitions between each other's polls and blocks; wrapping in the ring; alignment; block boundaries | the blocks together are the samples asked for |
| LLIO: `libs/llio` | endpoint, mapped BARs | open, release, read, write, block, DMA | paging of BAR4 and BAR2, timeout pattern, partial Ethernet receives | every byte of a block is transferred once, to its own address |
| device manager: `dev_mngr` | a table of devices and their state, the processes it forked | scan, spawn, wait | forks and execs that fail, children that die | a device is spawned once, and children are waited for |
| protocol drivers: `sm_io/protocols`, `chips` | shadow of device registers | SPI, I2C, BSMP transactions | polling loops, partial transfers | depends on the device |

CZMQ, Malamute and the FPGA are outside the repository and are modelled from how
it uses them. The facts about CZMQ that the model rests on: `zactor_new` waits
for a signal of the new thread and does not look at its value; `zactor_destroy`
sends `$TERM` without blocking and waits for the thread only if that was sent; a
PAIR send to a peer that has ended blocks; a DEALER keeps a reply that came too
late; a ROUTER drops a message for a socket that is gone, and keeps the order of
the messages of one socket.

The hazards of this code, each at its line and with the properties that cover
it, are the list `hazards` of `PROJECT.json`.

### What is modelled

| module | models | actions |
|---|---|---|
| `SmioThsafe` | the register channel | `Call` (the request is sent and the thread blocks), `Serve` (`_devio_handle_protocol` with the four kinds of server operation), `SendReply`, `Recv`, `Timeout`, `Close` |
| `RegisterService` | what the channel promises, abstractly | `Issue`, `Perform` (one atomic access), `Finish`, `Detach`, `LateWrite` |
| `RwParam` | the macros, on top of `SmioThsafe` | `GetParam`/`GetReturn`, `SetParam`/`SetReject`/`SetWrite`/`SetReturn` |
| `Devio` | DEVIO, SMIO threads and configuration threads | one action per command and per handler, see below |
| `Halcsd` | main of the daemon, on top of `Devio` | `MainCfgDone`, `MainPrint`, `MainInterrupted`, `MainDestroyed` |
| `HalcsClient` | the client library, the broker's mailboxes, message layer and dispatch table of the SMIOs | `Call`, `PollStart`, `PollExec`, `PollEnd`, `Handle`, `Answer`, `Wake`, `Timeout`, `Drain` |
| `PciePaging` | block transfers through BAR2, page by page | (operators) |
| `Acq` | the acquisition SMIO, the core of the FPGA and the SDRAM, on top of `PciePaging` | `DataAcquire`, `CheckDataAcquire`, `GetDataBlock`/`ReadChunk`/`ReadFails`, `CfgTrigger`, `SwTrig`, `FsmStop`, `FpgaComplete`, `FpgaFull` |
| `AcqClient` | clients of libacqclient that share one acquisition SMIO | `AcqFull`, `Poll`, `PollTimeout`, `AcqGetCurve`, `AskBlock`, `ServeBlock`, `ServeBlockFails`, `Control` |
| `SmioCodes`, `SmioExports`, `SmioFuncs`, `SmioRegs`, `ClientApi`, `SmioDefaults` | the tables of the 21 SMIOs that export operations: operation codes, exported operations, functions, register fields, functions of the client library, default values | (constant tables) |
| `ParamCalls` | what a request does, from the operation code to the bits of the register | `ConfigStep`, `ClientSet`, `ClientGet`; each calls `Refuse`, `ChipCall`, `InvalidChannel`, `GetParam`, `SetRejected`, `SetParam`, `SetWriteFails` or `SetReadFails` |
| `ParamTables` | what the tables of all SMIOs have in common, as assumptions that TLC evaluates | (assumptions) |
| `DevMngr` | the device manager, the broker and daemons as processes | `SpawnBroker`, `ScanDevs`, `SpawnDevio`, `WaitChld`, `Loop`, `Exit`, `Exec`, `ChildEnds`, `Interrupt`, `Plug` |
| `*MC` | instances for TLC | |
| `ThsafeRefinement` | the refinement mapping from `SmioThsafe` to `RegisterService` | |
| `SmioThsafeProofs` (with the refinement), `RwParamProofs`, `DevioProofs`, `HalcsdProofs`, `HalcsClientProofs`, `AcqClientProofs`, `ParamCallsProofs`, `DevMngrProofs` | proofs about the modules they are named after (section 3) | |

**SmioThsafe.** `reqQ` and `repQ` are the queues of the DEALER/ROUTER pair of a
socket, `job` the request DEVIO has taken and the reply it is about to send,
`call` what a thread is blocked in. Requests and replies carry an `id` in the
model that no action looks at: `issued`, `taken`, `timeouts` and the ids are
history, used by the properties only. A transfer is abstracted to its size and
its first word, which is all that the checks of the client look at. Return codes
are converted as the code converts them: the `int32_t` a write returns is sent
as data and read as a `uint32_t`, so that a failed write returns
4294967295 (`UIntMod - 1`) and not -1. A block may be clipped, do nothing, or
fail after it reached the device (the PCIe timeout pattern).

**RwParam.** A register is a word with two fields. `seen` collects the words it
held during a macro (history). The word that a SET writes after its read failed
is an uninitialised variable: any word of `StackWords`.

**Devio.** A handler that waits for other threads is split where it waits:
registering is one step per SMIO (`RegisterSm`), and destroying an actor is two
(`DestroyCfg`, `DestroySmio`: `$TERM` is sent; the thread has ended and the key
is deleted). Between these steps other threads run but no other handler does.
`SmioInit` and `RegisterSm` both may fail the start: before and after the signal
to DEVIO. Register accesses appear only through their effect: a start or a
request may fail, at any time. `Child` is the SMIO that an SMIO registers when
it starts (acq_pm registers acq), `Peer` the one it notifies (fmc_active_clk
notifies the FMC ADC). The order in which a zloop handles events that are ready
is left open.

**Halcsd.** `InitSmio` is the INIT SMIO that main registers when it has received
the first `$SMIO_CFG_DONE`.

**HalcsClient.** `inbox` is the mailbox of a service at the broker, `mailbox` what
has arrived at a client. The library's hundreds of functions are wrappers of four
kinds of call, which differ in how they turn a message, or none, into a return
value (`WriteReturn`, `ReadReturn`, `ExecReturn`) and a result (`Filled`); `Api` says
which ones a client makes. `Table` and `Exports` are the dispatch tables. A
service computes (`Handle`) and sends (`Answer`) in two steps, so that a client
can time out after its request was executed and before the reply comes. The
loop that empties the msgpipe is one step per message. `calls`, `sent`, `gaveUp`,
`dropped`, `okay` and the numbers in messages are history. This module stands
beside the others: what a function returns is any value it can return, and the
macros of `RwParam` decide which.

**PciePaging, Acq, AcqClient.** A unit of memory holds which acquisition wrote it and
which unit of it it is, so that a curve can be compared with what was asked for. The
core stores whole payloads: requests are aligned (`AlignedPre`, `AlignedPost`), and
`_acq_get_data_block` cuts the padding out again (`BlockAddr`, `ChunkSize`). A block
that runs over the end of the ring, or over several shots, is read chunk by chunk
(`ReadChunk`); a chunk goes through the DMA engine or, page by page, through BAR2
(`Ways`). A read may fail at each chunk. `params` is kept per channel and read again for every block,
as in the code; `curr` is the channel started last, whose trigger address is stored
by whoever polls. `hist` is history: which acquisitions were disturbed by
others, and of which the trigger address was known when the curve was opened. Several
channels have the same memory (`ddr3_map.h`: "shares the same memory space as"), so that an
acquisition of one of them disturbs those of the others (`SharesMemory`).

**Tables and ParamCalls.** The six table modules hold, for every SMIO, one line per
operation, function, field or default, in the order of the source; they are data, and the
longest part of the project. `Dispatch` inserts the exported operations with the
functions at the same position of the other array, and stops without an error
when an operation code comes twice, as `_disp_table_insert_all` does. Words are
sets of bits. `held` is history: what the last successful SET of a
parameter asked for. A parameter that drives a chip or sends a message works or
fails (`ChipCall`). One request is one step, since an SMIO serves one at a
time; what happens between SMIO and register is `RwParam`, and
between client and SMIO `HalcsClient`.

**DevMngr.** A process is a record: the program it runs, where it is in the
manager's code, its parent, and the memory it shares by copy with the manager
it was forked from. A child whose `execv` fails goes on in the manager's code with
the return value -1 (`Exec`, `AfterBroker`, `AfterDevio`), and leaves through
main's error labels. `CHECK_ERR` returns the value that it checks and not the
error code it is given; the test `spawn_err >= 0` relies on it. That the copy's
`dmngr_destroy` gets through with the sockets of its parent is assumed.

## 2. What TLC checks

Runs marked *violated* show a disagreement between the code and its own
comments, and are listed as findings.

| run | properties | shows |
|---|---|---|
| `thsafe` | `TypeOK`, `ReplyOrder`, `LagIsTimeouts`, `AnswerLag`, `ImplementsRegisterService`, `CallReturns` | requests and replies keep their order; every timeout puts the socket one reply behind for good; without timeouts accesses are atomic (refinement of `RegisterService`); calls end whatever DEVIO does |
| `rwparam` | `RwTypeOK`, `GetIsFresh`, `SetIsAtomic`, `OtherFieldKept`, `MacroReturns` | without timeouts a GET is fresh and a successful SET atomic; the other field is damaged only by a SET that reports `RW_WRITE_EAGAIN` |
| `devio` | `DevioTypeOK`, `NoLostThread`, `CfgHasSmio`, `StuckOnlyOnFailed`, `DoneMeansNoCfg`, `TermEnds`, `CfgShortLived` | the tables always match the threads; DEVIO blocks for ever only in a send to an SMIO whose start failed; otherwise it ends on `$TERM` although it waits for threads that wait for it |
| `devio_slots` *violated* | `SlotsInBounds` | the check on the number of SMIOs is off by one |
| `halcsd` | `HalcsdTypeOK`, `ReadyAfterConfig`, `InitSpawned`, `Interrupted` | INIT is announced after every configuration actor of the platform has ended, is announced in the end, and an interrupt ends everything |
| `halcsd_ready` *violated* | `EverythingReady` | INIT is announced although an SMIO failed to start, or its defaults were not applied |
| `client` | `ClientTypeOK`, `ClientLag`, `InStepSuccess`, `ClientCallReturns` | a call takes a message of the service it called, late by the number of calls that gave up less the messages thrown away; as long as none gave up, success means that the own request was served; every call returns |
| `client_done` *violated* | `SuccessMeansDone` | `func_polling` takes a missing reply for success |
| `acq` | `AcqTypeOK`, `CurveIsOwn`, `CurveFailsOnlyWhenFull`, `TriggerMatches`, `CallsReturn` | a curve read with success is the one asked for, across the end of the ring, pages, shots and padding, unless another acquisition disturbed it (a start before the trigger address was known, or of a channel with the same memory); it fails only if a read failed or its last block is full; a waiting acquisition keeps its kind of trigger; calls return |
| `acq_curve` *violated* | `CompletedCurveIsRead` | a complete and undisturbed acquisition that fills its last block cannot be read |
| `params` | `ParamTypeOK`, `CallsReachTheirFunction`, `GetReturnsSet`, `ConfigReports`, `SetsStayInTheirField` | every call of the client library and of the configuration threads finds the function it is named after, with arguments of the right sizes; what was set is read back and disturbs no other parameter; a configuration that fails reports it, except in swap, trigger_iface and trigger_mux |
| `devmngr` | `DevMngrTypeOK`, `OneDaemonPerDevice`, `FoundIsStarted`, `ChildrenAreReaped` | a device gets one daemon whatever forks and execs fail, and gets it in the end; no child stays a zombie |

Each property has a mutant in `PROJECT.json`: a plausible bug in one of the
definitions under which TLC finds the property violated. The operators that
define them stand before the definition they change, with a comment that starts
with *Mutant*.

### Bounds

* `thsafe`: two sockets with two and one calls. Two calls on one socket are what
  it takes for a late reply to meet another call; the second socket interleaves.
  Transfers of 4 and 8 bytes tell words from blocks and short from long replies.
  `UIntMod` is 10: larger than every size plus one, as in the code; the
  conversion of -1 then gives 9, which is no size.
* `rwparam`: one register of two fields of three values, set by one socket and
  read by another. Values up to `MaxValue + 1` include one that is rejected.
* `devio`: scripts of two or three commands (all the pairs of a registration and
  another command), three slots, an SMIO with a child and a peer, an SDB entry
  without an SMIO. The third command gives the key of an SMIO that is being
  destroyed to a new one. `Ids` are the devices an SDB or a command may name, with
  an SMIO or without; instance numbers are not bounded. The code has
  `NODES_MAX_LEN` = 100; `devio_slots` uses 1, to reach the limit.
* `halcsd`: two SMIOs, one of which notifies the other, and INIT.

* `client`: one client makes two calls to one service and one to another, a second
  client one: late replies meet a call of the same and of the other service. Frame
  sizes of 2, 4 and 8 bytes tell short from long arguments and results; one
  service does not export one of the functions called.

* `acq`: two clients, a channel with samples of one unit and one of two, and a third
  that shares the memory of the first, payloads
  of four, blocks and pages of eight, rings of 12 and 16 units. The
  requests are chosen for the cases: two blocks; one that does not fit its ring
  once aligned; one that fills its block; three shots; shots that a block cuts; no
  samples; the shared memory; an unknown channel. Two acquisitions (`MaxAcq`) are what it takes to
  disturb one; `MaxOps` bounds the calls of each client. The rings are short enough for
  every position of the trigger to be tried. In the code a page is a power of
  two and a ring hundreds of megabytes.
* `params`: every SMIO with all its parameters, from registers full of zeros and of
  ones. `MaxEvents` = 1: one SET of a client, or one access that fails, in a
  behaviour; a SET meets the defaults and the parameters of its register in one step, and the
  properties look at all parameters in every state. `LateSteps` = 2: a client
  is served before each of the last two defaults and after them; earlier ones
  meet fewer registers that are set. Channels are the first, the last and one beyond; values the
  lowest bit, the whole field and one bit too many.
* `devmngr`: two devices, the broker and four processes: the manager and all
  its children, or one that failed to exec. `fork` fails at any time, and when there
  is no process left.

Deadlock is not checked: all the systems stop, when the calls or commands are
used up or after `$TERM`.

### Fairness

* The threads of SMIOs: a thread blocked in `zmsg_recv` is woken by a reply or
  by the timer of its socket (`SMIO_RCV_TIMEOUT`, 5 s). Nothing is assumed of DEVIO
  in `SmioThsafe` and `RwParam`.
* `Devio` and `Halcsd`: each thread that can take a step takes one in the end
  (weak fairness per thread, what a preemptive scheduler gives). Which of the
  events that are ready a zloop handles first is not assumed. The interrupt of
  halcsd is not fair: it may never come.
* `HalcsClient`: a client leaves `zpoller_wait` by a message or by its timeout
  (5 s by default), goes on emptying its msgpipe, and ends polling when its time is
  over. Nothing is assumed of the services or the broker.
* `AcqClient`: a client that polls stops by its timeout, or goes on to read its
  curve, and client and SMIO take their next step for a block. Nothing is assumed
  of the FPGA, of triggers, or of reads, which may all fail.
* `DevMngr`: every process that runs the manager's code is scheduled. Signals, deaths of
  daemons and new devices may never come.
* `ParamCalls` has no liveness: every step is a whole request.
* A thread that waits for a configuration may time out at any time, and does if
  no reply comes.

## 3. What is proved

Every theorem but `PagesInOrder`, which is about an operator, is `Spec => []P` or `Spec => P`
for the specification that the runs check, and holds for every value of the constants that satisfies the assumption
named with it. The runs check the same `P` on a small instance.

| module | theorems | states |
|---|---|---|
| `SmioThsafeProofs` | `ChannelTypeCorrect`, `RepliesInOrder`, `EveryTimeoutLags`, `RepliesMatchWithoutTimeouts`, `ChannelRefinesService` | `TypeOK`, `ReplyOrder`, `LagIsTimeouts`, `AnswerLag`, `ImplementsRegisterService` |
| `RwParamProofs` | `RwTypeCorrect`, `GetsAreFresh`, `SetsAreAtomic`, `SetsKeepTheOtherField` | `RwTypeOK`, `GetIsFresh`, `SetIsAtomic`, `OtherFieldKept` |
| `DevioProofs` | `DevioTypes`, `ThreadsAreKept`, `CfgsHaveSmios`, `OnlyFailedBlock`, `DoneIsDone` | `DevioTypeOK`, `NoLostThread`, `CfgHasSmio`, `StuckOnlyOnFailed`, `DoneMeansNoCfg` |
| `HalcsdProofs` | `HalcsdTypes`, `ReadyIsAfterConfig` | `HalcsdTypeOK`, `ReadyAfterConfig` |
| `HalcsClientProofs` | `ClientTypes`, `LagIsGivenUpCalls`, `SuccessIsOwn` | `ClientTypeOK`, `ClientLag`, `InStepSuccess` |
| `AcqClientProofs` | `AcqTypes`, `TriggerOfAcquisition`, `RefusedOnlyWhenFull`, `CurvesAreOwn`; `AcquisitionsAreOwned`, `PagesInOrder` | `AcqTypeOK`, `TriggerMatches`, `CurveFailsOnlyWhenFull`, `CurveIsOwn`; the invariant about the memory, and what a read through BAR2 returns |
| `ParamCallsProofs` | `ParamsTypeCorrect`, `CallsAreDispatched`, `GetsReturnSets`, `ConfigurationsReport`, `SetsStay` | `ParamTypeOK`, `CallsReachTheirFunction`, `GetReturnsSet`, `ConfigReports`, `SetsStayInTheirField` |
| `DevMngrProofs` | `ManagerTypeCorrect`, `DaemonsAreUnique` | `DevMngrTypeOK`, `OneDaemonPerDevice` |

### The register channel

For all sets of sockets, offsets, sizes and words and any number of calls that
satisfy `ThsafeAssumption` (a word fits the largest size plus one, 32 bits is the
smallest access). The four invariants follow from one inductive invariant, `IInv`
(theorem `ChannelInvariant`). None of them is inductive alone. `AnswerLag` talks of
results; when a reply is received, the id it carries is known from `ReplyOrder` (the
oldest reply is number `taken + 1`) and the id of the call from `CallIsNewest` (a
blocked thread waits for its newest request), and `LagIsTimeouts` relates the
two. `ReplyOrder` needs that a thread never calls on a closed socket
(`ClosedIsQuiet`) and that DEVIO without a socket to answer holds no reply
(`JobHasSock`). The proof has one lemma per action for what the action does to
the queues (`ServeEffect`, ...), one that it preserves `IInv` (`ServeIInv`, ...),
and lemmas on queues with consecutive ids (`ConsecutiveTail`,
`ConsecutiveAppend`).

**Refinement.** `ThsafeRefinement` maps a socket without timeouts to the phases of
`RegisterService`: a call is *issued* until DEVIO has served it, then *done* with the
outcome that its reply holds, wherever that reply is at the moment; a socket that had
a timeout, or was closed, is *detached*. The invariant needed beyond `IInv` is
`InStep`: the request of such a socket that waits at DEVIO is the call its thread
is blocked in. One lemma per action says which step of the service it is
(`CallView`: `Issue`; `ServeView`: `Perform`, or `LateWrite` of a detached
socket; `RecvView`: `Finish`; `TimeoutView` and `CloseView`: `Detach`; the rest
stutter).

### The macros

For any registers, owners, fields and values (`RwParamAssumption`). The macros use the
channel through its refinement: `RwInv` speaks of phases and outcomes, never of
queues. `GetIsFresh` is not inductive: between the read of the register and
the return the word is only in a reply, and `ReadIsSeen` says that this word is one the
register held during the call. For a SET, `ReadIsSeen` adds that the
register has not changed since the read began, because the model lets only the socket that
owns a register write to it (`OwnWrites`, as an SMIO is the only writer of its
registers in the code), and `WriteIsSet` that the word under way is that
word with one field replaced. `SetField` is the arithmetic: a field put into a word is
read back, and the other one is left alone.

### DEVIO and halcsd

For any script of commands, any dispatch table, devices of the SDB, children and
peers, and any `NODES_MAX_LEN` (`DevioAssumption`). `DInv` ties the tables to the threads:
slots are handed out in order and never again (`FreshSlots`), a key leads to the slot
that was handed out for it (`KeyOfSlot`), and there are no more keys than slots
(`KeysCounted`). The last is what `NoLostThread` rests on: `zhashx_insert` refuses a
key that exists, and the thread would run on unknown; by the pigeonhole principle
`_devio_gen_smio_key_auto` always finds a free instance number while a slot is left
(`FreeKey`). `CfgHasSmio` needs that what is being destroyed is still in the
tables and that no SMIO is destroyed before its configuration actor
(`DestroyOrder`), `StuckOnlyOnFailed` that a registered SMIO that started ends
only when it is destroyed (`OnlyDestroyedEnd`). `DoneIsDone` is an action
property and follows from the invariant and the step of `DestroyEnd`.

`HInv` adds the order of events: DEVIO registers the devices of the SDB first, one
slot each while there are any left (`InOrder`, by counting the devices that
have an SMIO), and when main hears `$SMIO_CFG_DONE`, or has announced INIT, their
configuration actors have ended (`ToldInTime`).

### The client library

For any number of clients, services, opcodes and calls (`HalcsClientAssumption`: among
others that a caller of `param_client_write_gen` passes `WRITE_MODE`, as all do).
Nothing in a message says which request it answers. `CInv` says it from the outside:
between a client and a service, the messages in the mailbox of the service, in its
hands and in the mailbox of the client are exactly the requests numbered from
`Received + 1` to `sent` (`UnderWay`), oldest nearest to the client (`MailboxSorted`,
`InTurn`, `InboxSorted`), where `Received` counts the calls that ended with a message
and the messages thrown away. So the first message of a service is number
`Received + 1` (`HeadIsNext`), which is `ClientLag`. `InStepSuccess` needs in addition that a
reply with the number of the current call is one to the current call's opcode
(`IsCall`, `IsAnswer`), and that a call whose request could not be sent is behind
(`OwnCall`): if no call gave up, it cannot have received anything. `MailTail`, `MailAppend`,
`InboxTail` and `InboxAppend` say what the four ways a queue changes do to a pair;
`TakePairs`, `SendPairs`, `HandlePairs` and `AnswerPairs` what the steps do.

### The acquisition

For any clients, channels, requests, triggers and sizes (`AcqAssumption`: payloads and
blocks are whole numbers of samples, as in `smio_acq_new`; `ClientAssumption`: what a
request counts is a natural number). The inductive invariant is `AInv`
(`AcqAInv`). `TriggerMatches` is inductive with the types: a trigger is accepted only
while the core is idle, and a request that wants samples after a trigger that is
skipped is refused, so that aligning (`AlignUp`) leaves no samples exactly when there
are to be none. For `AcqTypeOK` the SMIO must read for one client at a time
(`OneReader`): the end of a second client's block would leave the first waiting for an
SMIO that is idle. `CurveFailsOnlyWhenFull` needs `StillThere`: the SMIO still has the
samples and shots of a client's request as long as nobody disturbed it (an acquisition
of the same channel is what overwrites them, and `hist` counts it as a disturbance),
and the memory it was given is enough for them; and `CallInv`: the client asks for no
block beyond `Total \div PerBlock`. Then the two limits of `_acq_get_data_block` are
arithmetic (`BlockRefused`): the number of blocks is one less only if the last is full,
and a block that has a sample left begins in the ring (`BlockWithin`).

**The curve.** `CurveIsOwn` relates the end of a long chain (start, core, trigger address,
blocks, chunks, pages, what the client copies) to its beginning, and needs an invariant for
every link. It holds for any channels, rings that overlap or not, samples and payloads of any
size, any requests that are `Sound`, any trigger positions and page sizes.

1. *Memory* (`MemInv`, theorem `AcquisitionsAreOwned`). As long as an acquisition is `Live`
   (nobody disturbed it), the channel has its parameters (`Prepared`); until the SMIO has
   read its trigger address, it is the core's current or last one (`Current`); afterwards
   (`Known`) the stored address is its own, and either the core still has that address or
   went on to a channel that shares no memory. `MemHolds` says where the units
   are: unit *j* at the origin of the acquisition plus *j*, wrapped at the end of
   the ring. The interesting steps are the start of another client (`AcquireOwned`), a poll, which
   stores the core's trigger address in the current channel, whoever asks (`PollOwned`),
   and the end of an acquisition, which writes one ring and must leave the others alone
   (`CompleteOwned`, with `HoldsNow` for its own ring and `HoldsStill` for those apart).
2. *Curve* (`CurveInv`). What a client has copied is a beginning of its curve (`CurveSoFar`), and
   so is what the SMIO has read of the block it waits for; the SMIO goes on at
   the address where the next unit is stored, modulo the ring (`BlockSoFar`).
   `StoredAt` is the one map between the two: unit *x* of the curve lies in its shot after
   the padding. The lemmas on it are division with remainder (`DivUnique`, `SpotBound`,
   `DivScale`): a block begins where its first unit is stored (`BlockStarts`), a chunk is
   consecutive in memory (`ChunkFacts`, `UnitsRead`) and the next one begins behind it
   (`NextChunk`), where a single shot goes on over the end of the ring and shots
   lie one behind the other with their padding.
3. *Pages* (theorem `PagesInOrder`). `Transferred` counts what each page of BAR2 adds. That it is
   the least of the size and what the pages so far have room for is an induction over pages. The
   induction theorems of the library take an operator, which the provers cannot instantiate;
   here the proof takes the least page that breaks the closed form, which exists because
   `<` is well founded on the naturals (`Smallest`, from `NatLessThanWellFounded` and
   `WFMin`), and contradicts it by one step of the recursion (`TransferredStep`).

The run `acq` checks `CurveIsOwn` on a small instance; the parts of `MemInv` and `CurveInv` were
checked by TLC on the same instance before they were proved. `Sound` and `Undisturbed` are
hypotheses of the property that the run reaches: it has a curve of two blocks, one of three
shots, and origins before the end of the ring with units behind it.

### The parameters

The tables are constants, thousands of lines long, and no prover can expand them. What a
proof needs of them are nine facts, the assumptions of `ParamTables`: every SMIO has all its
tables, fields are runs of bits, the registers of a bank are evenly spaced, functions on one
register have no bit in common, operation codes are distinct, every call of a library
names an exported operation of the same sizes, every default is such a call, and
`client_err` is tested before it is assigned again. TLC evaluates them on the tables of
all SMIOs in the run `params`; nothing else in the proofs looks at an entry. What the theorems
add to the run is the steps: any number of SETs, GETs, failures and defaults in any order
(`MaxEvents`, `LateSteps` any natural number), where the run has one SET in a behaviour.

`CallsAreDispatched` needs no invariant. `_disp_table_insert_all` stops at the first code that
comes twice; as no code does, the number of different codes among the first *n* entries is *n*
(`FirstCodes`), all operations are inserted, and a lookup finds the only entry with the
code (`DispatchFinds`). The other theorems follow from `PInv` (`ParamsInvariant`):
registers are words (`RegsOK`), what is held would be read back (`HeldOK`), and the
configuration (`CfgOK`): while it runs, an error that was not tested yet is still in
`client_err`. `ConfigReports` alone is not inductive, since the error of one default is
reported at the end of a later one. A SET keeps `HeldOK` by two lemmas on words: a field that
was inserted is extracted again, shifted back (`SetThenGet`), and another field, of the same
register or of another channel, is left alone (`SetLeavesOthers`), where
`ChannelsAreApart` says that different channels of a parameter are different registers.

### The device manager

For any finite set of devices and any number of processes (`DevMngrAssumption`).
Both theorems follow from `MInv` (`ManagerInvariant`): only the first process is ever in
the loop of main (`OneManager`), its table says RUNNING for every device that
something was forked for (`DaemonsAreKnown`), and no two processes were forked for
one device. `OneDaemonPerDevice` alone is not inductive: a second process in the
loop, with a table that still says READY_TO_RUN, would break it in one step.
`QuietKeeps` covers the steps that touch no table, `ForkKeeps` the two that fork.

### Only model-checked

* Liveness (`CallReturns`, `MacroReturns`, `TermEnds`, `CfgShortLived`,
  `InitSpawned`, `Interrupted`, `ClientCallReturns`, `CallsReturn`, `FoundIsStarted`,
  `ChildrenAreReaped`): out of reach of the prover, which has no rule for fairness here.
  Every other property of a passing run is proved.
* The facts about the tables (`ParamTables`): TLC evaluates them.

## 4. What is not modelled

* In the channel: allocation failures; DMA as anything but a large block; the
  addresses inside a block.
* In the macros: the formatting and checking functions of single parameters, the
  range check of the channel variants (`RW_INV`), single-bit fields (a field of two values).
* In DEVIO: printing, logs, `$RESET_LLIO` (no effect on the tables),
  `$SDB_DEVICE_INFO` (its only caller is disabled), allocation failures, clients
  other than the configuration threads, requests that the broker keeps for a
  service when its SMIO is replaced.
* In the client library: opening and closing a client, the bytes behind a result that
  is shorter than the room for it, the broker's loss of a connected client.
* In the acquisition: the data-driven trigger's threshold and filter (parameters, which
  `ParamCalls` has), the channel descriptions that a client asks for, the overrun of the reply
  buffer by a shot larger than what is left of it (see the hazards).
* In the parameters: status bits, pulses and counters, which the hardware changes; the
  sequences of SPI, I2C and UART transfers by which a function drives a chip (AD9510,
  SI57x, ISLA216P, LTC2174, 24AA64, PCA9547, RFFE), which depend on the chip's answer.
* In LLIO: the DMA engine, blocks through BAR4 (no SMIO transfers blocks of
  registers over PCIe), Ethernet and the parsing of endpoints.
* In the device manager: the configuration file, logs, changes of a device's
  properties (nothing calls them). The manager starts `dev_io`; that the daemon is
  called `halcsd` today makes every `execv` fail in a current installation, one of the
  cases of the model.
* Parsing of arguments and configuration files, generated register headers but for
  the fields of parameters, board tables, shell scripts, examples; error strings,
  logging and conversion helpers, which keep no state.

## 5. Plan

Done: the register channel with its abstract specification, macros,
DEVIO with its threads, halcsd, message layer and client library, the
parameters of all SMIOs with the dispatch table, acquisition with the paging of
BAR2, the device manager; the proofs of section 3, among them all safety properties
of the passing runs.

Left:

1. Drivers of chips, as far as their control does not depend on the device:
   retries and timeouts of the SPI, I2C and BSMP protocols.
2. Blocks through BAR4, whose condition differs from that of BAR2, once something uses
   them.
