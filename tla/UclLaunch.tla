------------------------------ MODULE UclLaunch ------------------------------
(***************************************************************************)
(* One launch, end to end: the lifecycle manager, the ucl-node daemons of the *)
(* targets and the connections between them.  Every step is a step of one     *)
(* goroutine of one of the programs, or of the environment.                   *)
(***************************************************************************)
EXTENDS LcmTask, NodeTask, FiniteSets

vars == <<wireVars, lcmVars, nodeVars>>

Init == WireInit /\ LcmInit /\ NodeInit

Next ==
  \/ LcmNext /\ UNCHANGED nodeVars
  \/ NodeNext /\ UNCHANGED lcmVars
  \/ \E i \in Targets : CutLink(i) /\ UNCHANGED <<lcmVars, nodeVars>>

Spec == Init /\ [][Next]_vars

FairSpec == Spec /\ LcmFairness /\ NodeFairness

-----------------------------------------------------------------------------
(* Safety *)

\* Every variable keeps its type, in both programs and on the wire.
TypeOK == WireTypeOK /\ LcmTypeOK /\ NodeTypeOK

\* NcountMaster counted every target.
Released == connected > 0 /\ EnoughWorkers(connected)

Started(i) == proc[i] # "none"

\* "It ensures the startup order of related processes" (README.md:4): when the
\* process of a waiting target (sender, local app) has been started, that of
\* every receiver had been, whatever was lost, late or cancelled in between.
StartupOrder ==
  \A w \in Waiters : Started(w) => \A s \in Targets \ Waiters : Started(s)

Holds(s, m) == \E k \in 1..Len(s) : s[k] = m

\* The barrier's release is on its way to the worker of target i, or there.
EchoOut(i) ==
  \/ sendNode[i] = "ncount"
  \/ Holds(toNode[i], "ncount")
  \/ wNCount[i] > 0

\* NcountMaster counts targets, not messages: its count and the tokens it has
\* not read yet are the targets that answered, each once; and no target is
\* released while another has not answered (so respNCountMsg is never sent nil).
BarrierSound ==
  /\ connected + ncTok = Cardinality({i \in Targets : resp[i]})
  /\ (\E i \in Targets : EchoOut(i)) => \A i \in Targets : resp[i]

\* Every channel whose sender has no select stays within the capacity it was
\* made with, except sendNodeChan: handleNodeConnection, handleConnection,
\* ncountWorker and NkeepWorker never block on a send.
NoOverflow ==
  /\ ncTok <= N
  /\ \A i \in Targets :
       /\ keepTok[i] <= 1
       /\ wNCount[i] <= 1
       /\ wNKeep[i] <= 1
       /\ Len(sendLcm[i]) <= 2

\* Neither program has given the other up, or lost it.
Talking(i) ==
  ~cut[i] /\ mPc[i] \notin {"join", "done"} /\ wPc[i] \notin {"join", "done"}

\* The keep-alive of target i, the request or the answer to it, is on its way.
KeepOut(i) ==
  \/ sendNode[i] = "nkeep"
  \/ Holds(toNode[i], "nkeep")
  \/ wNKeep[i] > 0
  \/ Holds(sendLcm[i], "nkeep")
  \/ Holds(toLcm[i], "nkeep")
  \/ keepTok[i] > 0

\* The answer of target i to the barrier is on its way to NcountMaster.
AnswerOut(i) == Holds(sendLcm[i], "ncount") \/ Holds(toLcm[i], "ncount")

\* What is waited for at the two ends of target i is on its way.
Awaited(i) ==
  /\ kPc[i] = "wait" => KeepOut(i)
  /\ tPc[i] = "echo" => resp[i] \/ AnswerOut(i)
  /\ tPc[i] = "echo" /\ i < bcastTo => EchoOut(i)

\* As long as both programs are in their loops and the link is there, whoever
\* waits has something to wait for: NkeepMaster, with its 4 s, a keep-alive;
\* ncountWorker, which has no timer, NcountMaster's count of it and then the
\* release.  What the two masters send over one channel, and the goroutines of
\* a node over one connection, is neither dropped nor overwritten.
NothingLost == \A i \in Targets : Talking(i) => Awaited(i)

\* When dispatchCommToNodes ends, by whatever path, the context is cancelled:
\* the DcmRunApp call that waits for the task and nothing else gets its answer.
EndCancels == ~registered => mCtx

\* handleConnection closes its connection, which is all the lifecycle manager
\* can see of it, only after its process has ended and been waited for.
CloseAfterReap == \A i \in Targets : nodeEnd[i] = "closed" => ~ProcAlive(i)

-----------------------------------------------------------------------------
(* The inductive invariants behind these properties *)

\* The process of a target against the program counters of its worker.
WorkerInv ==
  \A i \in Targets :
    /\ wPc[i] = "off" => tPc[i] = "off"
    /\ tPc[i] \in {"off", "start"} => ~Started(i)
    /\ tPc[i] \in {"count", "echo"} => (Started(i) <=> i \notin Waiters)
    /\ tPc[i] = "join" => Started(i)
    /\ tPc[i] = "end" => proc[i] \in {"none", "reaped"}
    /\ wPc[i] = "done" => tPc[i] \in {"off", "end"}
    /\ nodeEnd[i] = "closed" => wPc[i] = "done"

Once(s, m) == \A j, k \in 1..Len(s) : s[j] = m /\ s[k] = m => j = k

\* ncountWorker of target i has not sent its message.
Unsent(i) ==
  \/ tPc[i] \in {"off", "count"}
  \/ tPc[i] = "start" /\ i \notin Waiters

\* The one "ncount" of a worker is in one place; a starter sends it started.
AnswerInv ==
  \A i \in Targets :
    /\ Once(sendLcm[i], "ncount")
    /\ Once(toLcm[i], "ncount")
    /\ Unsent(i) => /\ ~Holds(sendLcm[i], "ncount")
                    /\ ~Holds(toLcm[i], "ncount")
                    /\ ~resp[i]
    /\ Holds(sendLcm[i], "ncount") => ~Holds(toLcm[i], "ncount") /\ ~resp[i]
    /\ Holds(toLcm[i], "ncount") => ~resp[i]
    /\ \/ Holds(sendLcm[i], "ncount")
       \/ Holds(toLcm[i], "ncount")
       \/ resp[i]
       => i \in Waiters \/ Started(i)

CountInv == connected + ncTok = Cardinality({i \in Targets : resp[i]})

\* Whatever follows from the release does follow it.
ReleaseInv ==
  /\ ncPc = "bcast" => Released
  /\ \A i \in Targets : EchoOut(i) => Released
  /\ \A i \in Waiters : tPc[i] \in {"start", "join"} \/ Started(i) => Released

\* Target i has one keep-alive at most, the request or the answer to it, in one
\* place; while there is one, its NkeepMaster waits for it or has ended.
KeepOne(i) ==
  LET asked == sendNode[i] = "nkeep"
      down == Holds(toNode[i], "nkeep")
      due == wNKeep[i] > 0
      answered == Holds(sendLcm[i], "nkeep")
      up == Holds(toLcm[i], "nkeep")
      got == keepTok[i] > 0
  IN /\ asked => ~(down \/ due \/ answered \/ up \/ got)
     /\ down => ~(due \/ answered \/ up \/ got)
     /\ due => ~(answered \/ up \/ got)
     /\ answered => ~(up \/ got)
     /\ up => ~got
     /\ asked \/ down \/ due \/ answered \/ up \/ got => kPc[i] \in {"wait", "done"}
     /\ mPc[i] \in {"dial", "magic"} => kPc[i] = "off"
     /\ Once(toNode[i], "nkeep") /\ Once(sendLcm[i], "nkeep") /\ Once(toLcm[i], "nkeep")
     /\ wNKeep[i] <= 1 /\ keepTok[i] <= 1

\* Target i is sent one release at most, when the broadcast comes to it.
EchoOne(i) ==
  /\ sendNode[i] = "ncount" => ~Holds(toNode[i], "ncount") /\ wNCount[i] = 0
  /\ Holds(toNode[i], "ncount") => wNCount[i] = 0
  /\ EchoOut(i) => i < bcastTo
  /\ Once(toNode[i], "ncount")
  /\ wNCount[i] <= 1

ChannelInv == \A i \in Targets : KeepOne(i) /\ EchoOne(i)

\* Nothing is lost; the handler closes its end when it ends, and the broadcast
\* begins with the release.
ConveyInv ==
  /\ NothingLost
  /\ \A i \in Targets : lcmEnd[i] = "closed" => mPc[i] = "done"
  /\ bcastTo > 1 => Released

\* How the goroutines of a task end.
EndInv ==
  /\ EndCancels
  /\ ncPc = "done" => mCtx \/ Released
  /\ \A i \in Targets :
       /\ ncPc = "plan" => mPc[i] = "dial"
       /\ kPc[i] = "done" => mCtx
       /\ resp[i] => mPc[i] \in {"loop", "join", "done"}
       /\ resp[i] /\ mPc[i] = "done" => kPc[i] = "done"

-----------------------------------------------------------------------------
(* Refinement *)

\* A launch keeps the contract of LaunchContract.
Contract == INSTANCE LaunchContract WITH
  started <- {i \in Targets : Started(i)},
  released <- Released,
  cancelled <- mCtx

ContractSpec == Contract!Spec

-----------------------------------------------------------------------------
(* Liveness *)

\* "monitors their operational status" (README.md:4): the end of any process
\* of the launch ends the launch.
ExitCancels == \A i \in Targets : proc[i] = "exited" ~> mCtx

\* So does the loss of any target, whichever of the keep-alive, the read and
\* the write meets it first, and so does a target whose handler has returned:
\* one that was given up before its loop, which cancels nothing itself, is missed
\* by the barrier's timer.
LossCancels == \A i \in Targets : (NodeGone(i) \/ mPc[i] = "done") ~> mCtx

\* Once its context is cancelled, a worker kills and reaps its process and ends.
CancelReaps == \A i \in Targets : wCtx[i] ~> (wPc[i] = "done")

\* The released barrier is never lost on its way: every process is started, or
\* the launch is cancelled.
ReleaseStarts == Released ~> (mCtx \/ \A i \in Targets : Started(i))

\* "reliably reclaims resources when they are no longer needed" (README.md:4):
\* a cancelled task ends and gives its name back.
StopReclaims == mCtx ~> ~registered

\* "stop the worker task" (README.md:360): no process outlives its task.
NoOrphan ==
  \A i \in Targets : (~registered /\ proc[i] = "run") ~> ~ProcAlive(i)
=============================================================================
