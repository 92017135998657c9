----------------------------- MODULE ClientCalls -----------------------------
(***************************************************************************)
(* The client side of the gRPC service: the C library libuclclient             *)
(* (pkg/ucl-client-lib/ucl_client.go) and ucl-api-comm on top of dcmapi, and     *)
(* TaskRegistry at the other end.  A call of the library is the gRPC call it      *)
(* makes.  What happens in the client between the call and the arrival of its   *)
(* request touches nothing that is shared, so the two are one step, as are the   *)
(* short critical sections of the library; the answer is a step of its own.      *)
(* The calls are those of one client process, on as many threads.              *)
(***************************************************************************)
EXTENDS TaskRegistry, Integers, Sequences, SequencesExt

CONSTANTS
  Networks,     \* addresses the client may find itself with: see FirstCandidate
  CanReenter    \* in this instance a callback may ask for a list

ASSUME CanReenterAssumption == CanReenter \in BOOLEAN
ASSUME NoCodeAssumption == None \notin {-1, 0, 1, 2}    \* not yet returned

VARIABLES
  api,          \* which function was called
  cpc,          \* where it is
  code,         \* what it returned
  lost,         \* the connection of its RPC broke
  holder,       \* the call that holds Mutex
  listed        \* the names in the answer of DcmGetRunningAppList

clientVars == <<api, cpc, code, lost, holder, listed>>
callVars == <<regVars, clientVars>>

\* dcm_run_app, _async, _command and _async_cb, dcm_stop_app, dcm_stop_app_all,
\* and their forms for the compositors; then the two questions.
RpcOf == [run |-> "run", async |-> "async", command |-> "command", cb |-> "run",
          stop |-> "stop", stopall |-> "stopall"]
Api == DOMAIN RpcOf \cup {"status", "list"}

CallsTypeOK ==
  /\ RegTypeOK
  /\ api \in [Calls -> Api \cup {"none"}]
  /\ cpc \in [Calls -> {"idle", "rpc", "lock", "callback", "relock", "free",
                        "alloc", "ret", "dead"}]
  /\ code \in [Calls -> {None, -1, 0, 1, 2}]
  /\ lost \in [Calls -> BOOLEAN]
  /\ holder \in Calls \cup {None}
  /\ listed \in [Calls -> SUBSET Names]

CallsInit ==
  /\ RegInit
  /\ api = [c \in Calls |-> "none"]
  /\ cpc = [c \in Calls |-> "idle"]
  /\ code = [c \in Calls |-> None]
  /\ lost = [c \in Calls |-> FALSE]
  /\ holder = None
  /\ listed = [c \in Calls |-> {}]

\* Mutant: what is not known is taken for success.
DefaultZero(status) ==
  CASE status = "busy" -> 2
    [] status = "success" -> 1
    [] OTHER -> 0

ParseStatus(status) ==
  CASE status = "busy" -> 2
    [] status = "success" -> 1
    [] status = "fin" -> 0
    [] OTHER -> -1

\* parseInfo of DcmGetAppStatus's answer: AppRunning or AppStop.
ParseInfo(running) == IF running THEN 1 ELSE 0

-----------------------------------------------------------------------------
(* uclLcmConnection *)

\* The local addresses tried, in order: that of the definition if this machine
\* has it, all otherwise; no loopback address unless the target is 127.0.0.1.
\* A network is [own, defined, loopback, target].
Candidates(net) ==
  LET some == IF \E a \in ToSet(net.own) : a = net.defined
                THEN <<net.defined>> ELSE net.own
  IN IF net.target \in net.loopback THEN some
     ELSE SelectSeq(some, LAMBDA a : a \notin net.loopback)

\* grpc.DialContext does not wait for the connection and so does not fail: the
\* first candidate is the only one tried.  Without any, the client is made of a
\* nil connection, on which its first RPC panics.
HasCandidate(net) == Candidates(net) # <<>>

\* Every thread of the client process ends, and its connections with them.
AllDie ==
  /\ cpc' = [c \in Calls |-> "dead"]
  /\ lost' = [c \in Calls |-> lost[c] \/ cpc[c] = "rpc"]
  /\ holder' = None
  /\ code' = [c \in Calls |-> None]
  /\ UNCHANGED <<regVars, api, listed>>

Panic(c) == cpc[c] = "idle" /\ (\E net \in Networks : ~HasCandidate(net)) /\ AllDie

\* The process is killed.
ClientKilled == (\E c \in Calls : cpc[c] \notin {"dead", "idle"}) /\ AllDie

-----------------------------------------------------------------------------
(* Calls that run and stop *)

\* dcm_run_app_async_cb returns 0 before anything has happened.
AtOnce(f) == IF f = "cb" THEN 0 ELSE None

\* The request arrives at its handler.
Invoke(c, f, n) ==
  /\ cpc[c] = "idle"
  /\ \E net \in Networks : HasCandidate(net)
  /\ api' = [api EXCEPT ![c] = f]
  /\ cpc' = [cpc EXCEPT ![c] = "rpc"]
  /\ code' = [code EXCEPT ![c] = AtOnce(f)]
  /\ \/ RpcOf[f] \in RunOps /\ RunBusy(c, RpcOf[f], n)
     \/ RpcOf[f] \in RunOps /\ RunRegister(c, RpcOf[f], n)
     \/ RpcOf[f] = "stop" /\ StopUnknown(c, n)
     \/ RpcOf[f] = "stop" /\ StopLookup(c, n)
     \/ RpcOf[f] = "stopall" /\ n = Compositors /\ StopAll(c)
  /\ UNCHANGED <<lost, holder, listed>>

\* The connection cannot be made, or the request does not arrive.
CallFails(c, f) ==
  /\ cpc[c] = "idle"
  /\ api' = [api EXCEPT ![c] = f]
  /\ cpc' = [cpc EXCEPT ![c] = "ret"]
  /\ code' = [code EXCEPT ![c] = IF f = "cb" THEN 0 ELSE -1]
  /\ UNCHANGED <<regVars, lost, holder, listed>>

\* The answer arrives; a call with a callback goes on to doCallbackFunc.
Response(c) ==
  /\ cpc[c] = "rpc" /\ pc[c] = "done"
  /\ IF api[c] = "cb"
       THEN cpc' = [cpc EXCEPT ![c] = "lock"] /\ UNCHANGED code
       ELSE /\ cpc' = [cpc EXCEPT ![c] = "ret"]
            /\ code' = [code EXCEPT ![c] = ParseStatus(answer[c])]
  /\ UNCHANGED <<regVars, api, lost, holder, listed>>

\* The RPC fails under way.  A callback is never called then.
RpcBreaks(c) ==
  /\ cpc[c] = "rpc"
  /\ cpc' = [cpc EXCEPT ![c] = "ret"]
  /\ code' = [code EXCEPT ![c] = IF api[c] = "cb" THEN 0 ELSE -1]
  /\ lost' = [lost EXCEPT ![c] = TRUE]
  /\ UNCHANGED <<regVars, api, holder, listed>>

-----------------------------------------------------------------------------
(* doCallbackFunc: the callback runs under Mutex *)

\* Mutant: doCallbackFunc does not lock.
NeverLocked == TRUE

MutexFree == holder = None

CallbackStart(c) ==
  /\ cpc[c] = "lock" /\ MutexFree
  /\ holder' = c
  /\ cpc' = [cpc EXCEPT ![c] = "callback"]
  /\ UNCHANGED <<regVars, api, code, lost, listed>>

\* Mutant: a null callback returns with the mutex locked.
KeepsMutex(c) == c

AfterNull(c) == None

\* callback == 0: lock and unlock.
CallbackNull(c) ==
  /\ cpc[c] = "lock" /\ MutexFree
  /\ holder' = AfterNull(c)
  /\ cpc' = [cpc EXCEPT ![c] = "ret"]
  /\ UNCHANGED <<regVars, api, code, lost, listed>>

\* The application's callback calls a list function, which locks Mutex again:
\* a sync.Mutex does not know its owner, so the thread waits for itself.
CallbackAsks(c) ==
  /\ CanReenter
  /\ cpc[c] = "callback"
  /\ cpc' = [cpc EXCEPT ![c] = "relock"]
  /\ UNCHANGED <<regVars, api, code, lost, holder, listed>>

CallbackDone(c) ==
  /\ cpc[c] = "callback"
  /\ holder' = None
  /\ cpc' = [cpc EXCEPT ![c] = "ret"]
  /\ UNCHANGED <<regVars, api, code, lost, listed>>

-----------------------------------------------------------------------------
(* Calls that ask *)

\* isExistsCommTaskCtx, getRunningAppFromCommTaskCtxMap: under commTaskCtxMu.
RunningNames == {n \in Names : Taken(n)}

\* dcm_get_app_status: DcmGetAppStatus takes no step of its own.
StatusCall(c, n) ==
  /\ cpc[c] = "idle"
  /\ \E net \in Networks : HasCandidate(net)
  /\ api' = [api EXCEPT ![c] = "status"]
  /\ cpc' = [cpc EXCEPT ![c] = "ret"]
  /\ code' = [code EXCEPT ![c] = ParseInfo(n \in RunningNames)]
  /\ UNCHANGED <<regVars, lost, holder, listed>>

\* dcm_get_running_app_list first frees the last list, under Mutex.  (It never
\* has one: allocAndKeep sets its parameter, not lastAllocated2.)
ListFree(c) ==
  /\ cpc[c] = "idle" /\ MutexFree
  /\ api' = [api EXCEPT ![c] = "list"]
  /\ cpc' = [cpc EXCEPT ![c] = "free"]
  /\ UNCHANGED <<regVars, code, lost, holder, listed>>

\* DcmGetRunningAppList answers; an empty list is not kept.
ListAnswer(c) ==
  /\ cpc[c] = "free"
  /\ listed' = [listed EXCEPT ![c] = RunningNames]
  /\ cpc' = [cpc EXCEPT ![c] = IF RunningNames = {} THEN "ret" ELSE "alloc"]
  /\ UNCHANGED <<regVars, api, code, lost, holder>>

ListFails(c) ==
  /\ cpc[c] = "free"
  /\ cpc' = [cpc EXCEPT ![c] = "ret"]
  /\ UNCHANGED <<regVars, api, code, lost, holder, listed>>

\* allocAndKeep
ListKeep(c) ==
  /\ cpc[c] = "alloc" /\ MutexFree
  /\ cpc' = [cpc EXCEPT ![c] = "ret"]
  /\ UNCHANGED <<regVars, api, code, lost, holder, listed>>

-----------------------------------------------------------------------------
\* The handlers go on whatever the client does; grpcCtx is done when the
\* client's connection is lost.
ServerStep(c) ==
  /\ \/ RunNotFound(c) \/ RunDispatch(c) \/ RunDone(c)
     \/ lost[c] /\ RunClientGone(c)
     \/ TaskCancel(c) \/ TaskEnd(c) \/ StopCancel(c)
  /\ UNCHANGED clientVars

CallsNext ==
  \/ \E c \in Calls :
       \/ \E f \in DOMAIN RpcOf \cup {"status"} : CallFails(c, f)
       \/ \E f \in DOMAIN RpcOf, n \in Names : Invoke(c, f, n)
       \/ Panic(c)
       \/ Response(c) \/ RpcBreaks(c)
       \/ CallbackStart(c) \/ CallbackNull(c) \/ CallbackAsks(c) \/ CallbackDone(c)
       \/ \E n \in Names : StatusCall(c, n)
       \/ ListFree(c) \/ ListAnswer(c) \/ ListFails(c) \/ ListKeep(c)
       \/ ServerStep(c)
  \/ ClientKilled

CallsSpec == CallsInit /\ [][CallsNext]_callVars

\* Handlers and the library's own code run on, and a callback returns unless it
\* waits for itself.  No answer of a node is assumed (RunDispatch, TaskEnd).
CallsFairSpec ==
  /\ CallsSpec
  /\ \A c \in Calls :
       /\ WF_callVars((RunDone(c) \/ (lost[c] /\ RunClientGone(c)))
                       /\ UNCHANGED clientVars)
       /\ WF_callVars(Response(c))
       /\ WF_callVars(CallbackStart(c) \/ CallbackNull(c))
       /\ WF_callVars(CallbackAsks(c) \/ CallbackDone(c))

-----------------------------------------------------------------------------
(* Properties *)

\* The call has told the application that its launch is over: a blocking call
\* returned "end_ok" (ucl_client.go:135), or the callback is called.
ToldOver(c) ==
  \/ api[c] \in {"run", "command"} /\ code[c] = 0
  \/ cpc[c] \in {"lock", "callback", "relock"} /\ answer[c] = "fin"

\* No application hears that its launch is over while that launch goes on: its
\* context is cancelled by then (though its processes may still be ending).
OverIsOver == \A c \in Calls : ToldOver(c) => cancelled[c]

InCallback(c) == cpc[c] \in {"callback", "relock"}

\* No two callbacks of one process run at once, and while one does, or waits in
\* a list function it called, its call owns Mutex.
CallbacksExclusive ==
  /\ \A c, d \in Calls : InCallback(c) /\ InCallback(d) => c = d
  /\ \A c \in Calls : InCallback(c) <=> holder = c

\* The lists that the library keeps for the application are freed and replaced
\* in the steps of a list call that leave "idle" for "free" and "alloc" for "ret".
\* No thread takes one of these steps while a callback runs.
ListsExclusive ==
  [][\A c \in Calls :
       \/ cpc[c] = "idle" /\ cpc'[c] = "free"
       \/ cpc[c] = "alloc" /\ cpc'[c] = "ret"
       => \A d \in Calls : ~InCallback(d)]_callVars

\* "1 = run, 0 = stop" (ucl_client.go:115): a name is told to run exactly if
\* there is a launch of it, from its registration to the end of its task; the
\* list of running applications has exactly those.
QueriesTruthful ==
  [][\A c \in Calls :
       /\ \A n \in Names :
            StatusCall(c, n)
              => (code'[c] = 1 <=> \E x \in Calls : Active(x) /\ name[x] = n)
       /\ ListAnswer(c)
            => listed'[c] = {name[x] : x \in {y \in Calls : Active(y)}}]_callVars

\* A blocking launch does not outlive its client: when the connection of the
\* call is lost, or the client process dies, the launch is cancelled.
LostClientCancels ==
  \A c \in Calls : (lost[c] /\ pc[c] = "wait") ~> cancelled[c]

\* A callback that is due is called and returns, unless one of them asked for a
\* list, or the client is dead.
CallbackReturns ==
  \A c \in Calls :
    (cpc[c] = "lock")
      ~> (cpc[c] \in {"ret", "dead"} \/ \E x \in Calls : cpc[x] = "relock")
=============================================================================
