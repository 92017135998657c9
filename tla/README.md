# TLA+ models of ucl-tools

ucl-tools launches distributed display applications: a *lifecycle manager*
(`ucl-lifecycle-manager`, LCM) takes a request over gRPC, splits the
application's `app.json` into one command per host, and sends each to the
`ucl-node` daemon there, which starts a process and watches it. This directory
models that system from the client's call to the launched processes,
model-checks it with TLC and proves its main safety properties with TLAPS.

## 1. Inventory

| part | state it keeps | operations | talks to |
|---|---|---|---|
| LCM, task registry (`ucl_lifecycle_manager.go:39-122`, gRPC handlers `:720-948`) | `commTaskCtxMap`: task name to context; a mutex | run, run async, run command, launch/stop compositors, stop, stop all, status, lists | clients (gRPC), one goroutine per launch |
| LCM, one launch (`dispatchCommToNodes :655`, `handleNodeConnection :376`; `NcountMaster`, `NkeepMaster` in `ucl_consistency_keeper.go`) | one cancellable context; per target a connection, a send channel, a keep-alive token channel; a barrier count | dial, magic code, barrier, keep-alive, cancel, join | one `ucl-node` per target (TCP) |
| LCM, command routing (`:220-531`) | none | which node gets what part of a command | virtual screen definition |
| LCM, application lookup (`:133-174`, `:533-653`) | a gather over goroutines | find `app.json`, list applications | `ucl-node` |
| ucl-node, one launch (`ucl_node.go:348-512`; `TimingWrapper`, `ncountWorker`, `NkeepWorker`, `processExitHandler`, `waitProcess`) | one context; three channels; the process | accept, barrier, start, answer keep-alives, kill, reap | LCM, the process |
| ucl-node, accept loop, application list, command lines | none between requests | | files |
| node connection (`ucl_node_conn.go`) | socket buffers | frames, magic code, connect with timeout | |
| signal handler (`ucl_proc_sighandler.go`) | list of children, two channels | kill children in order, reap | launchers |
| sender launcher (`ucl_virtio_gpu_wl_send.go`) | lock file, card index, three children | staged start-up, wait for all | ucl-node (its parent), rvgpu programs |
| receiver and compositor launchers | one child | start, wait | ucl-node, rvgpu-renderer |
| client API, C library, `ucl-api-comm` | none | gRPC calls, result codes, callbacks | LCM |
| virtual screen definition, settings, logging, generated gRPC code | none | lookups | |

What makes it hard: every launch is a dozen goroutines on several hosts that
share nothing but contexts, bounded channels and sockets. Some sends have a
`select` with the context, some have not; some error paths cancel, some do not.
What makes it correct, part by part:

* *registry*: one launch per name; an entry lives as long as its launch; a stop
  that answers success has reached a launch, and no later one than it found; a
  caller whose launch was stopped is released.
* *launch*: a process that depends on others starts after them; the barrier
  counts every target once; channels never overflow and lose nothing; the end of any process or
  host ends the launch on all hosts; the end of a launch frees its name; nothing
  outlives it.
* *launcher*: children are killed in the right order, a signal ends all of
  them, none is left behind.
* *routing*: every program of a command goes to one host that was just reached,
  once; what the LCM addresses and what the node starts agree.
* *lookup*: an application that somebody has is found, questions that were put
  are answered.
* *client*: result codes, callbacks and lists tell the truth, and a launch does
  not outlive the client that waits for it.

`PROJECT.json` lists the components, the hazards with their lines, and which
property watches which hazard.

## 2. Modules

| module | models |
|---|---|
| `Wire` | the connections of one launch: FIFO of framed messages per direction, end-of-file, failing and lost writes, a link that is cut |
| `LcmTask` | the LCM's goroutines of one launch |
| `NodeTask` | the goroutines of `ucl-node` for one launch, and the process, per target |
| `UclLaunch` | their composition; all properties of a launch; its inductive invariants |
| `LaunchContract` | what a launch promises: an abstract specification over four variables, implemented by `UclLaunch` |
| `UclLaunchProofs`, `LaunchChannelProofs` | TLAPS proofs about `UclLaunch`; those about its channels |
| `TaskRegistry`, `TaskRegistryProofs` | `commTaskCtxMap` and the gRPC handlers; proofs |
| `SigHandler` | `SignalHandler`, `WaitApp` and their channels, as all launchers use them |
| `WlSend` | `main` of the sender launcher on top of `SigHandler` |
| `Renderer` | `main` of the receiver and of the compositor launcher on top of `SigHandler` |
| `Launchers`, `LaunchersProofs` | a process that is one of the launchers, and what all of them promise; proofs |
| `Selection` | the loops that append what passes a test, or what is not there yet, to a new slice: recursive functions, about which the provers can reason where they cannot about folds |
| `VScreen` | the virtual screen definition and the lookups in it |
| `CommandRouting` | what the LCM makes of a command, and what a node makes of its part: operators only |
| `SelectionProofs`, `CommandRoutingProofs` | lemmas about the operators of these three, for sequences of any length |
| `NodeAccept` | the daemons' accept loops, their answers to the LCM's questions, daemons that go and come |
| `AppLookup` | `getConnectableNode`, `ConnectTarget` and the gather of answers |
| `PrepareLaunch`, `PrepareLaunchProofs` | the handlers up to the first connection of a launch, composed of the modules above; proofs |
| `ClientCalls`, `ClientCallsProofs` | dcmapi and the C library, composed with `TaskRegistry`; proofs |
| `MCUclLaunch`, `MCTaskRegistry`, `MCWlSend`, `MCLaunchers`, `MCPrepareLaunch`, `MCClientCalls` | instances for TLC |

How they meet: `ClientCalls` drives the actions of `TaskRegistry`, one call each.
What the registry takes as a choice (is there a command or not: `RunNotFound`,
`RunDispatch`) is what `PrepareLaunch` computes, and its `plan` is the set of
targets with which `UclLaunch` begins, the first of them the waiting one
(`PlanDelivered`). `NodeTask` starts processes of which the launchers are some.

**Correspondence.** A program counter variable is one goroutine (`mPc`:
`handleNodeConnection`, `ncPc`: `NcountMaster`, `kPc`: `NkeepMaster`, `wPc`:
`handleConnection`, `tPc`: `TimingWrapper` with `ncountWorker`, `kwPc`:
`NkeepWorker`, `xPc`: `processExitHandler`, `hPc`: `SignalHandler`, `waiter`:
`WaitApp`, `pc`: a `main` or a gRPC handler). An action is one case of a
`select`, one blocking operation, or a straight piece of code between two of
them. A context is one Boolean (`mCtx`, `wCtx`, `cancelled`). A channel whose
content matters is a sequence or a cell, a channel of tokens a number. Actions
whose name ends in `Err`, `Fail`, `Timeout` or `Refuse` are the error paths; where
the code leaves its loop without cancelling, so does the action.

**Preparing a launch.** `probe[i]` is a goroutine of `chkConnectableNode`,
`asker[i]` one of `getAppInfoFromNode` together with its `ConnectTarget`, `phase`
the handler. A daemon's `queue` holds the connections that it has accepted or will
accept; the head is the one it reads. A connection that was only made to check
the daemon stays there until it is closed, and one that `retryConnectTarget`
made after `ConnectTarget` gave up (a *stray*) until the garbage collector closes
it. Commands and definitions are records of host names, addresses and ports;
everything in `app.json` that only ends up in a command line is left out.
`CommandsAt` and `Definitions` say which of them are well formed: where they are
not, the code panics on a type assertion (section 5).

**Registry.** A context is named by the call that made it, and a task may be
cancelled and may end whenever it likes: what a launch does with its context is
`UclLaunch`'s part, and that it is cancelled when it ends is proved there
(`EndCancels`) and not assumed here. `met` is a history variable on which no action
depends: the launches that were active when a call came in.

**Client.** `cpc` is a thread in the library, `holder` the owner of `Mutex`. The
request of a call arrives in the step that makes the call (nothing shared is
touched between the two), its answer later or never. `Networks` are the addresses
a client may find on its machine: if none is left to dial from,
`uclLcmConnection` returns a client without a connection, and the process panics.

**Data abstracted away.** Messages of a launch carry their type only (the barrier's payload
is a per-worker string which the LCM echoes unchanged; that a released target
has answered, so that there is something to echo, is part of `BarrierSound`).
Addresses, commands, environment variables and log texts do not appear. The
socket buffer and the channel `ConnReadLoop` fills are one queue.

**A node that refuses.** `NodeRefuse` covers the early returns of
`handleConnection`; the magic code is still sent by `dispatchComm`, before or
after the connection is closed, and both orders are in the model.

**Operators marked "Mutant"** stand before the definition they vary and are not
used by the specification: each is a plausible bug, and the property that names
it in `PROJECT.json` fails when it is put in place.

## 3. Runs

`Env` is the set of things the environment may do: `Wire.EnvKinds` for a launch,
`SigHandler.EnvKinds` for a launcher. All runs say `CHECK_DEADLOCK FALSE`: launches,
calls and launchers end.

| run | instance | shows |
|---|---|---|
| `launch_safety` | sender + receiver; refused commands, unreachable nodes, failing starts, processes that end; periodic keep-alives; 0.5 M states | `StartupOrder`, `BarrierSound`, `NoOverflow`, `NothingLost`, `CloseAfterReap`, and that the launch implements `LaunchContract` |
| `launch_receiver` | one receiver, the whole environment | `EndCancels`, `ExitCancels`, `LossCancels`, `CancelReaps`, `NoOverflow` with cut links and late timers |
| `launch_sender` | one waiting target, the whole environment | `ReleaseStarts` |
| `registry` | three calls of any kind, two names; 0.5 M states | `OwnerRegistered`, `NoStaleEntry`, `StopReaches`, `LateStopHarmless`, `StopAllSparesCompositors`, `StopReleasesCaller` |
| `prepare` | two machines whose daemons may stop and start at any time; five settings, eight commands; 49 thousand states | routing: `PlanComplete`, `PlanDelivered`, `SenderServed`, `ListRunnable`; lookup: `FoundWhereHeld`, `QuestionAnswered`, `GatherEnds` |
| `client` | two calls of one client process, two names, four networks, callbacks that may ask for a list; 79 thousand states | `OverIsOver`, `CallbacksExclusive`, `ListsExclusive`, `QueriesTruthful`, `LostClientCancels`, `CallbackReturns` |
| `wlsend` | each launcher with its children, the whole environment | `KillOrder`, `CleanEnd`, `RendererNoOrphan`, `ReadyStopEnds` |
| `stop_stuck`, `orphan`, `async_answer`, `wlsend_stop`, `wlsend_orphan` | as above | each refutes a sentence of the documentation, see section 6 |

**Bounds.** In the models of a launch, of the registry, of the client and of the
launchers nothing is capped by a guard: channels and counters are bounded by
the code itself, and TLC's state spaces are finite because a launch ends.
`PrepareLaunch` goes on for ever and has two bounds: a stray joins only a queue
shorter than `QueueMax` (2: a stray before a question and a question before a
stray both occur), and `NextCall` waits until the connections that the last call
closed are gone from the queues, so that one call's leftovers for the next are
its strays. `MayFail` names the machines that may go away, all of them in
`prepare`. The settings of `MCPrepareLaunch` are after `example/`: without
compositors and with them, a machine without `ucl-node` and a compositor without
a port, an address that is out of date and belongs to another machine; the
commands have receivers on one and on two hosts, repeated receivers, none, an
absent list, an absent sender, and an unknown type. Two
targets are the least with which the barrier and the startup order say anything;
TLAPS proves the safety properties for every number of targets. Liveness is
checked with one target, where the whole environment fits; the goroutines of
different targets meet only in `mCtx`, `ncTok` and the broadcast. Three calls
are enough for a stop that overlaps the end of one launch and the registration
of the next one of the same name; the registry's invariants are proved for every
number of calls and names.

**Fairness.** Goroutines of a running program are scheduled, so the steps of each
goroutine are weakly fair, taken together. Strong fairness is assumed only
where Go gives it: a `select` chooses at random among its ready cases, so a case
that is ready again and again is taken (`KeepDone`, `HandlerPid`,
`HandlerSignal`), and senders blocked on one channel are served in turn
(`NcBcast`). Timers fire only as a choice of the environment, except that a
goroutine that has nothing else to do is not stuck forever before its timer (the
timer is one of the steps the fairness of `NcountStep` and `NkeepStep` covers).
In `PrepareLaunch` the goroutines of a lookup, the handler and a running daemon
run on; that a dial ends in a time-out is an outcome like the others. The
garbage collector closes a stray (the Go run time forces a collection every two
minutes), and nothing is assumed of the machines: a daemon may stop and start
for ever, or never again. In `ClientCalls` the library and the handlers run on, an
application's callback returns unless it waits for itself, and no answer of a
node is assumed; the registry's fairness assumes none either.
Nothing else is assumed of the environment, with one exception: a process that was
sent SIGTERM ends. `watchDogKill` in its synchronous form relies on it (it spins
until the process is gone and never gets to SIGKILL), so `CancelReaps` does too;
`wlsend_stop` shows that the sender launcher of this very repository does not
honour it.

**Timing.** One assumption about durations: the 10 s keep-alive ticker does not
fire while the 4 s answer timer runs (`SendDue`). Without it `NoOverflow` fails.

**Exceptions stated in properties.** `GatherEnds` excepts a lookup that is `Hung`:
a question was given up before it was put (`getAppInfoFromNode` returned without
sending), which does leave the handler, and its task's name, waiting for ever.
`CallbackReturns` excepts callbacks while one of them has asked for a list and
waits for itself. `ListRunnable` excepts an application whose list of receivers
is empty: `validateAppInfo` lists it, `removeDisconnectNode` then rejects it. It
also excepts definitions with several entries of one host name, which
`GetNodeIdAndIpAddr` provides for: each has a node, by which `validateAppInfo`
finds the host, but `ReadAliasIp` keeps the last one alone.
`SenderServed` takes a receiver for a compositor's by its port alone, as
`IsRecvCompositor` does, on whatever machine the compositor is.
`QuestionAnswered` counts the loss of the daemon as an answer, as the LCM does.

## 4. Proofs

`UclLaunchProofs` and `LaunchChannelProofs` prove, for every `N \in Nat`, every
`Waiters \subseteq 1..N` and every `Env`, `TaskRegistryProofs` and `ClientCallsProofs` for all sets of calls,
names and networks, `LaunchersProofs` for all sets of children that have
theirs and every environment, and `PrepareLaunchProofs` for all sets of machines
and of applications, all virtual screen definitions, commands and contents of
`$DCMPATH`, lists of any length included:

| theorem | property |
|---|---|
| `TypeCorrect`, `RegTypeCorrect` | `TypeOK`, `RegTypeOK` |
| `CloseAfterReapHolds` | `CloseAfterReap` |
| `BarrierSoundHolds` | `BarrierSound` |
| `StartupOrderHolds` | `StartupOrder` |
| `EndCancelsHolds` | `EndCancels` |
| `NoOverflowHolds`, `NothingLostHolds` | `NoOverflow`, `NothingLost` |
| `Refinement` | `Spec => ContractSpec` |
| `OwnerRegisteredHolds`, `NoStaleEntryHolds`, `StopReachesHolds`, `LateStopHarmlessHolds`, `StopAllSparesCompositorsHolds` | the same without `Holds` |
| `CallsRefineRegistry` | `CallsSpec => RegSpec` |
| `CallsTypeCorrect`, `CallbacksExclusiveHolds`, `ListsExclusiveHolds`, `QueriesTruthfulHolds`, `OverIsOverHolds` | `CallsTypeOK`, and the same without `Holds` |
| `LaunchersTypeCorrect`, `CleanEndHolds`, `RendererNoOrphanHolds`, `KillOrderHolds` | `LaunchersTypeOK`, and the same without `Holds` |
| `TypeCorrect` (of `PrepareLaunchProofs`) | `PrepareTypeOK` |
| `PlansComplete`, `PlansDelivered`, `SendersServed` | `PlanComplete`, `PlanDelivered`, `SenderServed` |
| `ListsRunnable`, `AnswerTaken` | `ListRunnable`, `FoundWhereHeld` |

The argument for a launch is a chain of invariants, each inductive relative to
the ones before it (all in `UclLaunch`):

1. `WorkerInv` ties the process of a target to the program counters of its
   worker. `CloseAfterReap` follows: the connection is closed only at `done`.
2. `AnswerInv`: the one `ncount` message of a worker is in one place
   (not sent, in `sendLcm`, in `toLcm`, or received), and a target that does not
   wait had its process started before it was sent. `StartupOrder` is not
   inductive because the fact that a receiver started travels as this message.
3. `CountInv`: `connected + ncTok` is the number of targets that answered; so
   a barrier that is released (`connected >= N`) has heard of all of them. This is
   the only place that needs facts about cardinality.
4. `ReleaseInv`: an echo, or a waiting process past its barrier, implies the
   release. With 2 and 3: `BarrierSound` and `StartupOrder`.
5. `EndInv`: `NkeepMaster` ends only in a cancelled context, and a target that
   answered has one; so a launch all of whose goroutines are done was cancelled,
   `EndCancels`.
6. `ChannelInv`: of the keep-alive of a target (`sendNode`, `toNode`, `waitNKeepChan`,
   `sendLcm`, `toLcm`, back to `NkeepMaster`) there is one at most, in one place, and
   only while `NkeepMaster` waits for it or has ended; of the release
   there is one at most, once the broadcast has come to the target. With 2, which
   says the same of the answer, and 3: `NoOverflow`. That `sendt` does not fire while
   `recvt` runs (`SendDue`) is what makes it true.
7. `ConveyInv` is the other half of 6: of what is waited for there is one at least,
   as long as both programs talk. That `ncountWorker` is not past its
   turn when it begins to wait for the release comes from 2, 3 and 4; that a
   write is not lost, from 1 (a closed connection means a worker that is done)
   and its like for the LCM. `NothingLost` is the safety half of
   `ReleaseStarts`, and, for any number of targets, says of a keep-alive time-out
   that the network or a host was slow or gone, not that a message was dropped.
8. `Refinement` maps a launch to `LaunchContract`: `started` is the set of targets
   whose process was started, `released` the full count, `cancelled` is `mCtx`.

For the registry, `OwnerRegistered`, `NoStaleEntry` and `CallLife` are inductive
together. `CallLife` says of a stop between its lookup and its `Cancel()` that it
holds a launch of its name that was active when it came in: at the lookup this is
`NoStaleEntry` (what the map holds is active), and after it `RequestStays` (nothing
later changes what a call met). `LateStopHarmless` and `StopReaches` follow with
`AnswerInv`, which tells a stop from the other calls, and with `CancelledStays`:
what was cancelled stays so. `StopAllSparesCompositors` needs that a context is
registered under one name only, again `NoStaleEntry`.

For the client, `StepOfRegistry` shows that every step of client and server is a
step of the registry or leaves it alone; so `CallsSpec => RegSpec`, and every
theorem about the registry holds of the composition. `QueriesTruthful` needs
`OwnerRegistered` and `NoStaleEntry` from there. `CallbacksExclusive` ties the
owner of `Mutex` to the call whose callback runs, so `ListsExclusive` is left with
showing that only `ListFree` and `ListKeep`, which wait for `Mutex`, touch a list. `OverIsOver` rests on
`CallInvariant`: a call whose handler answered `fin` has a cancelled context
(`AnswerInvariant` of the registry), contexts stay cancelled, and of all answers
only `fin` is turned into 0.

For the launchers there are three inductive invariants, one after the other.
`LaunchersInv` is the types, and for a renderer what lies behind each point of
its main: a handler is there before the child. `WaitInv` says of each child
that it is reaped only by its waiter and that main ends only when every waiter is
done; `CleanEnd` and `RendererNoOrphan` follow. `KillInv` gives `KillOrder`: give
the children the ranks 1, 2, 3 of their turns at WAIT_ALL; the handler's list
followed by the channel is increasing in rank, and whoever had its turn and
lives is in it; so rvgpu-proxy, of rank 3, is at the head of a list being killed
only when the others are gone.

For the preparation of a launch the invariant is `PrepareInv`, in three parts.
`TypeInv` gives every variable its type; the goroutines that exist are those of
the phase, and `counted`, by which the gather knows its end, is the number of
those that are done. `AskInv`: the nodes of a question are
nodes of the definition; a daemon that was sent one has somebody who reads the
answer; the answer collected so far is that of those who are done, and when one
is given all are done. `AnswerTaken` follows. `RouteInv`: a plan is `SplitCommand`
of what `RemoveDisconnectNode` left of a command that could be routed, and since
no probe is under way any more the nodes reached are still those it was made for.

What is left for the other four theorems is about operators, not about steps.
`PlanShape` says what `SplitCommand` returns: the sender's part, if there
is one, first; then one part for each receiver that is not left to a
compositor, the positions of these in a one-to-one correspondence with those of
the parts; or the one local part. `PlansDelivered` and `SendersServed` read it in
its two directions, and `PlansComplete` counts with the correspondence: a
receiver that the command names twice has two parts. `ListsRunnable` follows a
listed application back: the daemon that listed it found every host of its
command in the question (`ValidatedKept`), the aliases of these hosts
are nodes of the definition if host names are unique (`AliasOfNode`), so `RemoveDisconnectNode` keeps
every receiver (`SelectedAll`).

All of this is about sequences of any length, so it takes induction, and the
library's theorems about that cannot be instantiated here. `SelectionProofs`
gets it from the one fact that a set of naturals has a least element:
`SetInduction` is induction for membership in a set, `DefinedByStep`
says that a recursive function over `0..n` is what its definition says, and from
them come the lemmas about `Selected` (which elements, in which order, at which
positions), about `WithoutDuplicates` and about the community modules' `SetToSeq`
and `FlattenSeq`.

Assumptions used, each evaluated by TLC on the runs: `NAssumption`,
`EnvAssumption`, `WaitersAssumption`, `CompositorsAssumption`, `NoneAssumption`,
`NoCodeAssumption`, `ChildAssumption`, `RendererAssumption`, and for the
preparation of a launch:

* `SettingsAssumption`, `CommandsAssumption`: definitions and commands are well
  formed, in `app.json` and in a request.
* `NoHostAssumption`, `NullAssumption`: the zero value of an address is an
  address, JSON's null is no list.
* `AppsAssumption`, `MayFailAssumption`, `QueueMaxAssumption`: a directory has
  finitely many applications; what a bound ranges over.

**Model-checked only.** Liveness, which is out of the prover's reach: `ExitCancels`,
`LossCancels`, `CancelReaps`, `ReleaseStarts`, `StopReleasesCaller`,
`QuestionAnswered`, `GatherEnds`, `LostClientCancels`, `CallbackReturns` and
`ReadyStopEnds`; and the runs of section 6, which are counterexamples. Every
other property of a run is a theorem.

## 5. What is not modelled

* The lock file and the card index of the sender launcher
  (`reserveRvgpuIndex`): whether two launchers get the same card depends on when
  the external rvgpu-proxy reads the index file and creates its device, about which
  the repository says nothing.
* Command lines and environment strings (`make*Params`, `convertEnvVars`), frame
  sizes and partial reads: bytes and characters, without state. A message is
  delivered whole or not at all.
* Malformed commands: where a section, a launcher or `backend_params` is missing
  or of another JSON type, the LCM and the node panic on a type assertion; commands
  in the models are well formed. Every section also names the program to start: a
  sender with an empty `command` is there for the LCM, which addresses it, and not
  for the node, which takes the part for a receiver's.
* `grpc.DialContext` without `WithBlock` does not fail, so `uclLcmConnection` never
  gets to its second candidate address; which address it is has no effect on the
  model, only whether there is one.
* Logging, generated code, argument parsing and file reading, for good.
* A crash of the LCM. A crash of `ucl-node` is modelled while it is asked
  (`NodeDown`); during a launch the other side sees it as a cut link, and what the
  crashed program leaves behind is not modelled. Process ids are not reused.
* Memory of the C library: `allocAndKeep` sets its parameter and not the variable
  it was called with, so `dcm_free_*_list` never frees anything.

## 6. What the code does that its documentation does not say

1. `stop_stuck`: a cancelled task may never end. A master blocks on
   `sendNodeChan` after its reader left (`ucl_consistency_keeper.go:81,141,150`),
   and the task's name stays taken.
2. `orphan`: a worker whose write fails leaves its loop without cancelling
   (`ucl_node.go:432-436`); its process outlives the task.
3. `async_answer`: an asynchronous run of an unknown application is answered
   Success (`ucl_lifecycle_manager.go:837-851`).
4. `wlsend_stop`: a signal during the start-up of the sender launcher is lost
   (`ucl_proc_sighandler.go:88-98`, `ucl_virtio_gpu_wl_send.go:461-469`).
5. `wlsend_orphan`: a child that cannot be started makes the launcher panic at
   WAIT_ALL and leave the others running. A bad target is left out of this
   instance: it ends the launcher with `os.Exit(1)` (`:401`), which leaves
   rvgpu-proxy running as well, before there is a WAIT_ALL to speak of.

Seen while modelling and stated as an exception in a property, because no
sentence of the documentation speaks of it: a lookup that loses a node between
the check and the question hangs (section 3, `Hung`); the callback of
`dcm_run_app_async_cb` is not called when the RPC fails; a callback that asks for
a list deadlocks the library; a Busy answer is returned as 2, which the comments
on the exported functions do not list. The renderer's launcher loses a
signal that comes between `signal.Notify` and the hand-over of the pid, for the
reason of 4; `RendererNoOrphan` says what remains true then.

## 7. Plan

Done: the launch, the registry, routing and lookup, the client side, all
launchers, their composition up to the interfaces named in section 2; every
safety property of them proved.

Open, in this order:

1. A registry whose tasks are `LaunchContract`s, and `UclLaunch` in their place.
2. The composition of a launcher with `NodeTask`'s kill, without the assumption
   that SIGTERM ends a process.
3. `EnvParse` (`convertEnvVars`), frame sizes.
