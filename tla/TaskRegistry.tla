----------------------------- MODULE TaskRegistry -----------------------------
(***************************************************************************)
(* The task registry of the lifecycle manager, commTaskCtxMap, and the gRPC   *)
(* handlers that use it concurrently.  Every call that registers a name makes *)
(* a context of its own, so a context is named by its call.  What happens     *)
(* inside dispatchCommToNodes is UclLaunch's subject; here a dispatched task   *)
(* may be cancelled, and may end, at any time.                               *)
(***************************************************************************)
EXTENDS FiniteSets

CONSTANTS
  Calls,        \* the gRPC calls of an instance
  Names,        \* task names
  Compositors,  \* the task name "manageCompositors"
  None          \* no context

ASSUME CompositorsAssumption == Compositors \in Names
ASSUME NoneAssumption == None \notin Calls

VARIABLES
  ctxMap,       \* commTaskCtxMap
  cancelled,    \* Cancel() was called on the context of this call
  task,         \* the goroutine dispatchCommToNodes of this call
  op,           \* what the call asks for
  name,         \* and for which task
  pc,           \* where its handler is
  held,         \* cancelCommTaskCtx: the context it looked up
  answer,       \* the Status of its response
  met           \* history: the launches that were active when it came in

regVars == <<ctxMap, cancelled, task, op, name, pc, held, answer, met>>

\* "run" is DcmRunApp and DcmLaunchCompositor, "async" their Async forms,
\* "command" DcmRunAppCommand, "stop" DcmStopApp and DcmStopCompositor.
RunOps == {"run", "async", "command"}
Ops == RunOps \cup {"stop", "stopall"}

RegTypeOK ==
  /\ ctxMap \in [Names -> Calls \cup {None}]
  /\ cancelled \in [Calls -> BOOLEAN]
  /\ task \in [Calls -> {"none", "run", "done"}]
  /\ op \in [Calls -> Ops \cup {"none"}]
  /\ name \in [Calls -> Names]
  /\ pc \in [Calls -> {"idle", "fetch", "wait", "cancel", "done"}]
  /\ held \in [Calls -> Calls \cup {None}]
  /\ answer \in [Calls -> {"none", "fin", "err", "busy", "success"}]
  /\ met \in [Calls -> SUBSET Calls]

RegInit ==
  /\ ctxMap = [n \in Names |-> None]
  /\ cancelled = [c \in Calls |-> FALSE]
  /\ task = [c \in Calls |-> "none"]
  /\ op = [c \in Calls |-> "none"]
  /\ name = [c \in Calls |-> Compositors]
  /\ pc = [c \in Calls |-> "idle"]
  /\ held = [c \in Calls |-> None]
  /\ answer = [c \in Calls |-> "none"]
  /\ met = [c \in Calls |-> {}]

\* The launch is between its registration and the end of its task.
Active(c) == pc[c] = "fetch" \/ task[c] = "run"

\* The handler of call c returns.
Return(c, status) ==
  /\ answer' = [answer EXCEPT ![c] = status]
  /\ pc' = [pc EXCEPT ![c] = "done"]

\* The call comes in.
Arrive(c, o, n) ==
  /\ pc[c] = "idle"
  /\ op' = [op EXCEPT ![c] = o]
  /\ name' = [name EXCEPT ![c] = n]
  /\ met' = [met EXCEPT ![c] = {x \in Calls : Active(x)}]

-----------------------------------------------------------------------------
(* DcmRunApp, DcmRunAppAsync, DcmRunAppCommand, DcmLaunchCompositor(Async) *)

\* Mutant: updateCommTaskCtxMap does not look.
TakenIgnored(n) == FALSE

Taken(n) == ctxMap[n] # None

\* updateCommTaskCtxMap fails.
RunBusy(c, o, n) ==
  /\ Arrive(c, o, n)
  /\ Taken(n)
  /\ Return(c, "busy")
  /\ UNCHANGED <<ctxMap, cancelled, task, held>>

\* updateCommTaskCtxMap succeeds; getAppCmd asks the nodes next.
RunRegister(c, o, n) ==
  /\ Arrive(c, o, n)
  /\ ~Taken(n)
  /\ ctxMap' = [ctxMap EXCEPT ![n] = c]
  /\ pc' = [pc EXCEPT ![c] = "fetch"]
  /\ UNCHANGED <<cancelled, task, held, answer>>

\* Mutants: the entry stays, or it is set to nil, which still "exists".
StillRegistered(c) == ctxMap
NilEntry(c) == [ctxMap EXCEPT ![name[c]] = "nil"]

\* deleteCommTask removes whatever is registered under the name.
Unregistered(c) == [ctxMap EXCEPT ![name[c]] = None]

\* getAppCmd finds no app.json: deleteCommTask and return the responseStatus
\* the handler began with, STAT_ExecErr or, if asynchronous, STAT_ExecSuccess.
RunNotFound(c) ==
  /\ pc[c] = "fetch"
  /\ op[c] # "command"
  /\ ctxMap' = Unregistered(c)
  /\ Return(c, IF op[c] = "async" THEN "success" ELSE "err")
  /\ UNCHANGED <<cancelled, task, op, name, held, met>>

\* go dispatchCommToNodes; an asynchronous call returns.
RunDispatch(c) ==
  /\ pc[c] = "fetch"
  /\ task' = [task EXCEPT ![c] = "run"]
  /\ IF op[c] = "async" THEN Return(c, "success")
                        ELSE /\ pc' = [pc EXCEPT ![c] = "wait"]
                             /\ UNCHANGED answer
  /\ UNCHANGED <<ctxMap, cancelled, op, name, held, met>>

\* case <-commTaskCtx.Ctx.Done()
RunDone(c) ==
  /\ pc[c] = "wait"
  /\ cancelled[c]
  /\ Return(c, "fin")
  /\ UNCHANGED <<ctxMap, cancelled, task, op, name, held, met>>

\* Mutant: the handler returns without commTaskCtx.Cancel().
ClientGoneKeeps(c) ==
  /\ pc[c] = "wait"
  /\ Return(c, "fin")
  /\ UNCHANGED <<ctxMap, cancelled, task, op, name, held, met>>

\* case <-grpcCtx.Done(): the client went away.
RunClientGone(c) ==
  /\ pc[c] = "wait"
  /\ cancelled' = [cancelled EXCEPT ![c] = TRUE]
  /\ Return(c, "fin")
  /\ UNCHANGED <<ctxMap, task, op, name, held, met>>

-----------------------------------------------------------------------------
(* dispatchCommToNodes, as LaunchContract has it *)

TaskCancel(c) ==
  /\ task[c] = "run"
  /\ ~cancelled[c]
  /\ cancelled' = [cancelled EXCEPT ![c] = TRUE]
  /\ UNCHANGED <<ctxMap, task, op, name, pc, held, answer, met>>

\* subWg.Wait() returned, or the command could not be used: the deferred
\* deleteCommTask runs.  That the context was cancelled by then is no condition
\* of this step but what UclLaunch has to show (EndCancels).
TaskEnd(c) ==
  /\ task[c] = "run"
  /\ task' = [task EXCEPT ![c] = "done"]
  /\ ctxMap' = Unregistered(c)
  /\ UNCHANGED <<cancelled, op, name, pc, held, answer, met>>

-----------------------------------------------------------------------------
(* DcmStopApp, DcmStopCompositor, DcmStopAppAll *)

\* cancelCommTaskCtx finds no context under the name.
StopUnknown(c, n) ==
  /\ Arrive(c, "stop", n)
  /\ ~Taken(n)
  /\ Return(c, "err")
  /\ UNCHANGED <<ctxMap, cancelled, task, held>>

\* It finds one, and unlocks commTaskCtxMu ...
StopLookup(c, n) ==
  /\ Arrive(c, "stop", n)
  /\ Taken(n)
  /\ held' = [held EXCEPT ![c] = ctxMap[n]]
  /\ pc' = [pc EXCEPT ![c] = "cancel"]
  /\ UNCHANGED <<ctxMap, cancelled, task, answer>>

\* Mutant: what is registered now is cancelled, not what was found.
Victims(c) == {x \in Calls : ctxMap[name[c]] = x}

\* Mutant: the call answers and cancels nothing.
NoTargets(c) == {}

StopTargets(c) == {held[c]}

\* ... before it cancels.
StopCancel(c) ==
  /\ pc[c] = "cancel"
  /\ cancelled' = [x \in Calls |-> cancelled[x] \/ x \in StopTargets(c)]
  /\ Return(c, "fin")
  /\ UNCHANGED <<ctxMap, task, op, name, held, met>>

\* Mutant: the compositors' task is stopped too.
StoppableAll == Names

Stoppable == Names \ {Compositors}

\* CancelAllCommTaskCtxExceptCompositors cancels under the lock.
StopAll(c) ==
  /\ Arrive(c, "stopall", Compositors)
  /\ cancelled' = [x \in Calls |->
                     cancelled[x] \/ \E n \in Stoppable : ctxMap[n] = x]
  /\ Return(c, "fin")
  /\ UNCHANGED <<ctxMap, task, held>>

-----------------------------------------------------------------------------
RegNext ==
  \E c \in Calls :
    \/ \E o \in RunOps, n \in Names : RunBusy(c, o, n) \/ RunRegister(c, o, n)
    \/ RunNotFound(c) \/ RunDispatch(c) \/ RunDone(c) \/ RunClientGone(c)
    \/ TaskCancel(c) \/ TaskEnd(c)
    \/ \E n \in Names : StopUnknown(c, n) \/ StopLookup(c, n)
    \/ StopCancel(c)
    \/ StopAll(c)

RegSpec == RegInit /\ [][RegNext]_regVars

\* Handlers run on, once they have their command: getAppCmd may wait for ever
\* (AppLookup).  Nothing is assumed about tasks: see StopReclaims.
RegFairSpec ==
  /\ RegSpec
  /\ \A c \in Calls :
       /\ WF_regVars(RunDone(c))
       /\ WF_regVars(StopCancel(c))

-----------------------------------------------------------------------------
(* Properties *)

\* The context of an active call is the one registered under its name, though
\* deleteCommTask deletes by name alone: so at most one launch of a name is
\* active, a stop can reach it, and a free name has no launch behind it.
OwnerRegistered == \A c \in Calls : Active(c) => ctxMap[name[c]] = c

\* The life of a call: no task before its dispatch; those it met had come in; and
\* what a stop holds is one of them, of its name.  With the two invariants around
\* it, it is inductive.
CallLife ==
  \A c \in Calls :
    /\ pc[c] \in {"idle", "fetch", "cancel"} => task[c] = "none"
    /\ \A x \in met[c] : pc[x] # "idle"
    /\ pc[c] = "cancel" => held[c] \in met[c] /\ name[held[c]] = name[c]

\* What the map holds is active: a name is never left taken by a call that
\* failed.
NoStaleEntry ==
  \A n \in Names :
    ctxMap[n] # None => Active(ctxMap[n]) /\ name[ctxMap[n]] = n

\* cancelCommTaskCtx cancels after it unlocked, and by then the launch it found
\* may have ended and its name may belong to another.  However late it is, what a
\* stop (of one name or of all) cancels was active when the stop came in.
LateStopHarmless ==
  [][\A s, x \in Calls :
       /\ pc[s] # "done" /\ pc'[s] = "done"
       /\ op'[s] \in {"stop", "stopall"}
       /\ ~cancelled[x] /\ cancelled'[x]
       => x \in met'[s]]_regVars

\* A stop that is answered with success has reached somebody: a launch of its
\* name that was active when the stop came in is cancelled, whatever became of
\* the name between the lookup and the Cancel().
StopReaches ==
  \A s \in Calls :
    op[s] = "stop" /\ answer[s] = "fin"
      => \E x \in met[s] : name[x] = name[s] /\ cancelled[x]

\* DcmStopAppAll leaves the compositors' launch alone.
StopAllSparesCompositors ==
  [][(\E c \in Calls : op[c] = "none" /\ op'[c] = "stopall")
       => \A x \in Calls :
            ctxMap[Compositors] = x => cancelled'[x] = cancelled[x]]_regVars

\* A stop that was answered with success releases the caller of the run.
StopReleasesCaller ==
  \A c, s \in Calls :
    (pc[c] = "wait" /\ held[s] = c /\ answer[s] = "fin") ~> (answer[c] = "fin")

\* "1 = start" (ucl_client.go:155): a call answered "started" has started a task.
StartHonest ==
  \A c \in Calls : answer[c] = "success" => task[c] # "none"
=============================================================================
