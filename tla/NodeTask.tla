------------------------------- MODULE NodeTask -------------------------------
(***************************************************************************)
(* The ucl-node daemon's side of one launch, once per target: dispatchComm    *)
(* starts handleConnection and then, concurrently with it, sends the magic    *)
(* code.  handleConnection runs TimingWrapper (which starts the application    *)
(* process and, with it, processExitHandler and waitProcess) and NkeepWorker.  *)
(* The goroutines of one target share a context of their own (wCtx).          *)
(***************************************************************************)
EXTENDS Wire

CONSTANT Waiters    \* targets with IsWaitDeps: the sender, or the local app

ASSUME WaitersAssumption == Waiters \subseteq Targets

VARIABLES
  hello,        \* dispatchComm: SendMagicCode not due / due / done
  wPc,          \* handleConnection
  wCtx,         \* its commTaskCtx.Cancel() was called
  tPc,          \* TimingWrapper with ncountWorker
  kwPc,         \* NkeepWorker
  xPc,          \* processExitHandler
  proc,         \* the application process; waitProcess ends when it is reaped
  sendLcm,      \* sendLcmChan
  wNCount,      \* messages in waitNCountChan
  wNKeep        \* tokens in waitNKeepChan

nodeVars == <<hello, wPc, wCtx, tPc, kwPc, xPc, proc, sendLcm, wNCount, wNKeep>>

NodeTypeOK ==
  /\ hello \in [Targets -> {"off", "due", "done"}]
  /\ wPc \in [Targets -> {"off", "loop", "join", "done"}]
  /\ wCtx \in [Targets -> BOOLEAN]
  /\ tPc \in [Targets -> {"off", "count", "echo", "start", "join", "end"}]
  /\ kwPc \in [Targets -> {"off", "on", "end"}]
  /\ xPc \in [Targets -> {"off", "watch", "spin", "end"}]
  /\ proc \in [Targets -> {"none", "run", "termed", "exited", "reaped"}]
  /\ sendLcm \in [Targets -> Seq({"ncount", "nkeep"})]
  /\ wNCount \in [Targets -> Nat]
  /\ wNKeep \in [Targets -> Nat]

NodeInit ==
  /\ hello = [i \in Targets |-> "off"]
  /\ wPc = [i \in Targets |-> "off"]
  /\ wCtx = [i \in Targets |-> FALSE]
  /\ tPc = [i \in Targets |-> "off"]
  /\ kwPc = [i \in Targets |-> "off"]
  /\ xPc = [i \in Targets |-> "off"]
  /\ proc = [i \in Targets |-> "none"]
  /\ sendLcm = [i \in Targets |-> <<>>]
  /\ wNCount = [i \in Targets |-> 0]
  /\ wNKeep = [i \in Targets |-> 0]

-----------------------------------------------------------------------------
(* dispatchComm and handleConnection *)

\* Mutant: IsWaitDeps is not honoured.
FirstStepAtOnce(i) == "start"

\* Where TimingWrapper begins: ncountWorker before appCmd.Start, or after.
FirstStep(i) == IF i \in Waiters THEN "count" ELSE "start"

\* ReadCommand returned; go handleConnection, which starts its goroutines.
NodeAccept(i) ==
  /\ wPc[i] = "off"
  /\ toNode[i] # <<>>
  /\ Head(toNode[i]) = "command"
  /\ toNode' = [toNode EXCEPT ![i] = Tail(@)]
  /\ nodeEnd' = [nodeEnd EXCEPT ![i] = "open"]
  /\ hello' = [hello EXCEPT ![i] = "due"]
  /\ wPc' = [wPc EXCEPT ![i] = "loop"]
  /\ tPc' = [tPc EXCEPT ![i] = FirstStep(i)]
  /\ kwPc' = [kwPc EXCEPT ![i] = "on"]
  /\ UNCHANGED <<wCtx, xPc, proc, sendLcm, wNCount, wNKeep,
                 toLcm, lcmEnd, cut>>

\* handleConnection cannot decode the command, or its command_type is none it
\* knows: it returns (NodeJoin) without having started anything.
NodeRefuse(i) ==
  /\ "refuse" \in Env
  /\ wPc[i] = "off"
  /\ toNode[i] # <<>>
  /\ Head(toNode[i]) = "command"
  /\ toNode' = [toNode EXCEPT ![i] = Tail(@)]
  /\ nodeEnd' = [nodeEnd EXCEPT ![i] = "open"]
  /\ hello' = [hello EXCEPT ![i] = "due"]
  /\ wPc' = [wPc EXCEPT ![i] = "join"]
  /\ tPc' = [tPc EXCEPT ![i] = "end"]
  /\ kwPc' = [kwPc EXCEPT ![i] = "end"]
  /\ UNCHANGED <<wCtx, xPc, proc, sendLcm, wNCount, wNKeep,
                 toLcm, lcmEnd, cut>>

\* dispatchComm goes on to SendMagicCode: nothing orders it before the first
\* message of the handler it has just started, or before its conn.Close().
NodeHello(i) ==
  /\ hello[i] = "due"
  /\ hello' = [hello EXCEPT ![i] = "done"]
  /\ IF nodeEnd[i] = "open" THEN WriteUp(i, "magic") ELSE UNCHANGED toLcm
  /\ UNCHANGED <<wPc, wCtx, tPc, kwPc, xPc, proc, sendLcm, wNCount, wNKeep,
                 toNode, lcmEnd, nodeEnd, cut>>

\* case sendMsg := <-sendLcmChan
NodeSend(i) ==
  /\ wPc[i] = "loop"
  /\ sendLcm[i] # <<>>
  /\ WriteUp(i, Head(sendLcm[i]))
  /\ sendLcm' = [sendLcm EXCEPT ![i] = Tail(@)]
  /\ UNCHANGED <<hello, wPc, wCtx, tPc, kwPc, xPc, proc, wNCount, wNKeep,
                 toNode, lcmEnd, nodeEnd, cut>>

\* ... and the write fails: the loop is left, and nothing is cancelled.
NodeSendErr(i) ==
  /\ wPc[i] = "loop"
  /\ sendLcm[i] # <<>>
  /\ LcmGone(i)
  /\ sendLcm' = [sendLcm EXCEPT ![i] = Tail(@)]
  /\ wPc' = [wPc EXCEPT ![i] = "join"]
  /\ UNCHANGED <<hello, wCtx, tPc, kwPc, xPc, proc, wNCount, wNKeep, wireVars>>

\* case recvMsg := <-rcvLcmChan
NodeRecvNcount(i) ==
  /\ wPc[i] = "loop"
  /\ toNode[i] # <<>>
  /\ Head(toNode[i]) = "ncount"
  /\ toNode' = [toNode EXCEPT ![i] = Tail(@)]
  /\ wNCount' = [wNCount EXCEPT ![i] = @ + 1]
  /\ UNCHANGED <<hello, wPc, wCtx, tPc, kwPc, xPc, proc, sendLcm, wNKeep,
                 toLcm, lcmEnd, nodeEnd, cut>>

NodeRecvNkeep(i) ==
  /\ wPc[i] = "loop"
  /\ toNode[i] # <<>>
  /\ Head(toNode[i]) = "nkeep"
  /\ toNode' = [toNode EXCEPT ![i] = Tail(@)]
  /\ wNKeep' = [wNKeep EXCEPT ![i] = @ + 1]
  /\ UNCHANGED <<hello, wPc, wCtx, tPc, kwPc, xPc, proc, sendLcm, wNCount,
                 toLcm, lcmEnd, nodeEnd, cut>>

\* ... or nil, "Disconnected from the LCM side".
NodeRecvNil(i) ==
  /\ wPc[i] = "loop"
  /\ LcmGone(i)
  /\ wCtx' = [wCtx EXCEPT ![i] = TRUE]
  /\ wPc' = [wPc EXCEPT ![i] = "join"]
  /\ UNCHANGED <<hello, tPc, kwPc, xPc, proc, sendLcm, wNCount, wNKeep,
                 wireVars>>

\* case <-commTaskCtx.Ctx.Done()
NodeDone(i) ==
  /\ wPc[i] = "loop"
  /\ wCtx[i]
  /\ wPc' = [wPc EXCEPT ![i] = "join"]
  /\ UNCHANGED <<hello, wCtx, tPc, kwPc, xPc, proc, sendLcm, wNCount, wNKeep,
                 wireVars>>

\* Mutant: TimingWrapper is not in the wait group.
OnlyNkeepEnded(i) == kwPc[i] = "end"

SubTasksEnded(i) == tPc[i] = "end" /\ kwPc[i] = "end"

\* subWg.Wait() returns; the deferred Cancel() and conn.Close() run, and
\* the channels of this launch are garbage.
NodeJoin(i) ==
  /\ wPc[i] = "join"
  /\ SubTasksEnded(i)
  /\ wPc' = [wPc EXCEPT ![i] = "done"]
  /\ wCtx' = [wCtx EXCEPT ![i] = TRUE]
  /\ CloseNode(i)
  /\ sendLcm' = [sendLcm EXCEPT ![i] = <<>>]
  /\ wNCount' = [wNCount EXCEPT ![i] = 0]
  /\ wNKeep' = [wNKeep EXCEPT ![i] = 0]
  /\ UNCHANGED <<hello, tPc, kwPc, xPc, proc, toLcm, lcmEnd, cut>>

-----------------------------------------------------------------------------
(* TimingWrapper and ncountWorker *)

NcountSend(i) ==
  /\ tPc[i] = "count"
  /\ sendLcm' = [sendLcm EXCEPT ![i] = Append(@, "ncount")]
  /\ tPc' = [tPc EXCEPT ![i] = "echo"]
  /\ UNCHANGED <<hello, wPc, wCtx, kwPc, xPc, proc, wNCount, wNKeep, wireVars>>

\* Mutant: the echo is taken for the start.
EchoOnly(i) == "join"

\* ncountWorker returned: a waiter starts its process, a starter has one.
AfterEcho(i) == IF i \in Waiters THEN "start" ELSE "join"

\* case recvMsg := <-waitNCountChan: the echo releases the barrier.
NcountEcho(i) ==
  /\ tPc[i] = "echo"
  /\ wNCount[i] > 0
  /\ wNCount' = [wNCount EXCEPT ![i] = @ - 1]
  /\ tPc' = [tPc EXCEPT ![i] = AfterEcho(i)]
  /\ UNCHANGED <<hello, wPc, wCtx, kwPc, xPc, proc, sendLcm, wNKeep, wireVars>>

\* case <-Ctx.Done(): a waiter never starts its process; a starter, which
\* ignores the error, goes on to wait for the process it has.
NcountAbort(i) ==
  /\ tPc[i] = "echo"
  /\ wCtx[i]
  /\ tPc' = [tPc EXCEPT ![i] = IF i \in Waiters THEN "end" ELSE "join"]
  /\ UNCHANGED <<hello, wPc, wCtx, kwPc, xPc, proc, sendLcm, wNCount, wNKeep,
                 wireVars>>

\* appCmd.Start(), go processExitHandler, go waitProcess.
StartOk(i) ==
  /\ tPc[i] = "start"
  /\ proc' = [proc EXCEPT ![i] = "run"]
  /\ xPc' = [xPc EXCEPT ![i] = "watch"]
  /\ tPc' = [tPc EXCEPT ![i] = IF i \in Waiters THEN "join" ELSE "count"]
  /\ UNCHANGED <<hello, wPc, wCtx, kwPc, sendLcm, wNCount, wNKeep, wireVars>>

StartFail(i) ==
  /\ "start" \in Env
  /\ tPc[i] = "start"
  /\ wCtx' = [wCtx EXCEPT ![i] = TRUE]
  /\ tPc' = [tPc EXCEPT ![i] = "end"]
  /\ UNCHANGED <<hello, wPc, kwPc, xPc, proc, sendLcm, wNCount, wNKeep,
                 wireVars>>

\* subWg.Wait() of TimingWrapper.
TimingEnd(i) ==
  /\ tPc[i] = "join"
  /\ xPc[i] = "end"
  /\ proc[i] = "reaped"
  /\ tPc' = [tPc EXCEPT ![i] = "end"]
  /\ UNCHANGED <<hello, wPc, wCtx, kwPc, xPc, proc, sendLcm, wNCount, wNKeep,
                 wireVars>>

-----------------------------------------------------------------------------
(* NkeepWorker *)

NkeepReply(i) ==
  /\ kwPc[i] = "on"
  /\ wNKeep[i] > 0
  /\ wNKeep' = [wNKeep EXCEPT ![i] = @ - 1]
  /\ sendLcm' = [sendLcm EXCEPT ![i] = Append(@, "nkeep")]
  /\ UNCHANGED <<hello, wPc, wCtx, tPc, kwPc, xPc, proc, wNCount, wireVars>>

NkeepEnd(i) ==
  /\ kwPc[i] = "on"
  /\ wCtx[i]
  /\ kwPc' = [kwPc EXCEPT ![i] = "end"]
  /\ UNCHANGED <<hello, wPc, wCtx, tPc, xPc, proc, sendLcm, wNCount, wNKeep,
                 wireVars>>

-----------------------------------------------------------------------------
(* The process, processExitHandler and waitProcess.  CheckProcessAlive sends   *)
(* signal 0, which succeeds until the process is reaped.                      *)

ProcAlive(i) == proc[i] \in {"run", "termed", "exited"}

\* Mutant: the signal goes nowhere.
Unsignalled(p) == p

AfterSigterm(p) == IF p = "run" THEN "termed" ELSE p

\* Ctx.Done(): watchDogKill(pid, true) sends SIGTERM and spins while the
\* process is there; its SIGKILL then finds no process.
ExitKill(i) ==
  /\ xPc[i] = "watch"
  /\ wCtx[i]
  /\ IF ProcAlive(i)
       THEN /\ xPc' = [xPc EXCEPT ![i] = "spin"]
            /\ proc' = [proc EXCEPT ![i] = AfterSigterm(@)]
       ELSE /\ xPc' = [xPc EXCEPT ![i] = "end"]
            /\ UNCHANGED proc
  /\ UNCHANGED <<hello, wPc, wCtx, tPc, kwPc, sendLcm, wNCount, wNKeep,
                 wireVars>>

ExitSpinEnd(i) ==
  /\ xPc[i] = "spin"
  /\ ~ProcAlive(i)
  /\ xPc' = [xPc EXCEPT ![i] = "end"]
  /\ UNCHANGED <<hello, wPc, wCtx, tPc, kwPc, proc, sendLcm, wNCount, wNKeep,
                 wireVars>>

\* The environment: the application ends by itself or on SIGTERM.
ProcExit(i) ==
  /\ \/ proc[i] = "termed"
     \/ proc[i] = "run" /\ "exit" \in Env
  /\ proc' = [proc EXCEPT ![i] = "exited"]
  /\ UNCHANGED <<hello, wPc, wCtx, tPc, kwPc, xPc, sendLcm, wNCount, wNKeep,
                 wireVars>>

\* Mutant: nobody is told.
WaitProcessSilent(i) ==
  /\ proc[i] = "exited"
  /\ proc' = [proc EXCEPT ![i] = "reaped"]
  /\ UNCHANGED <<hello, wPc, wCtx, tPc, kwPc, xPc, sendLcm, wNCount, wNKeep,
                 wireVars>>

\* waitProcess: cmd.Wait() reaps the process, then Cancel().
WaitProcess(i) ==
  /\ proc[i] = "exited"
  /\ proc' = [proc EXCEPT ![i] = "reaped"]
  /\ wCtx' = [wCtx EXCEPT ![i] = TRUE]
  /\ UNCHANGED <<hello, wPc, tPc, kwPc, xPc, sendLcm, wNCount, wNKeep, wireVars>>

-----------------------------------------------------------------------------
ConnStep(i) ==
  \/ NodeSend(i) \/ NodeSendErr(i) \/ NodeRecvNcount(i) \/ NodeRecvNkeep(i)
  \/ NodeRecvNil(i) \/ NodeDone(i) \/ NodeJoin(i)

TimingStep(i) ==
  \/ NcountSend(i) \/ NcountEcho(i) \/ NcountAbort(i)
  \/ StartOk(i) \/ StartFail(i) \/ TimingEnd(i)

NkeepWorkerStep(i) == NkeepReply(i) \/ NkeepEnd(i)

ExitStep(i) == ExitKill(i) \/ ExitSpinEnd(i)

NodeNext ==
  \E i \in Targets :
    \/ NodeAccept(i) \/ NodeRefuse(i) \/ NodeHello(i)
    \/ ConnStep(i) \/ TimingStep(i) \/ NkeepWorkerStep(i) \/ ExitStep(i)
    \/ ProcExit(i) \/ WaitProcess(i)

(***************************************************************************)
(* Every goroutine runs on, and an application that was sent SIGTERM ends     *)
(* (an application that ignores it is never sent SIGKILL: see ExitKill).      *)
(***************************************************************************)
NodeFairness ==
  \A i \in Targets :
    /\ WF_nodeVars(NodeAccept(i) \/ NodeRefuse(i))
    /\ WF_nodeVars(NodeHello(i))
    /\ WF_nodeVars(ConnStep(i))
    /\ WF_nodeVars(NodeDone(i))
    /\ WF_nodeVars(NodeRecvNil(i))
    /\ WF_nodeVars(TimingStep(i))
    /\ WF_nodeVars(NkeepWorkerStep(i))
    /\ WF_nodeVars(NkeepEnd(i))
    /\ WF_nodeVars(ExitStep(i))
    /\ WF_nodeVars(proc[i] = "termed" /\ ProcExit(i))
    /\ WF_nodeVars(WaitProcess(i))
=============================================================================
