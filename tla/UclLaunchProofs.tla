--------------------------- MODULE UclLaunchProofs ---------------------------
(***************************************************************************)
(* Theorems about UclLaunch for every number of targets N, every choice of    *)
(* Waiters and every environment Env.                                        *)
(***************************************************************************)
EXTENDS UclLaunch, TLAPS, FiniteSetTheorems

-----------------------------------------------------------------------------
(* Types *)

\* The initial values have the declared types.
LEMMA InitType == Init => TypeOK
<1> SUFFICES ASSUME Init PROVE TypeOK
  OBVIOUS
<1>1. WireTypeOK
  BY DEF Init, WireInit, WireTypeOK, EndState
<1>2. LcmTypeOK
  BY DEF Init, LcmInit, LcmTypeOK
<1>3. NodeTypeOK
  BY DEF Init, NodeInit, NodeTypeOK
<1> QED BY <1>1, <1>2, <1>3 DEF TypeOK

\* A step of the lifecycle manager keeps the types of what it may change.
LEMMA LcmStepType ==
  ASSUME WireTypeOK, LcmTypeOK, LcmNext
  PROVE  WireTypeOK' /\ LcmTypeOK'
<1> USE DEF WireTypeOK, LcmTypeOK
<1>1. CASE NcountStep
  <2>1. CASE NcCount BY <2>1 DEF NcCount, TokenReady, wireVars
  <2>2. CASE NcTimeout BY <2>2 DEF NcTimeout, wireVars
  <2>3. CASE NcDone BY <2>3 DEF NcDone, wireVars
  <2>4. CASE NcBcast
    <3>1. sendNode' \in [Targets -> {"empty", "nkeep", "ncount"}]
      BY <2>4 DEF NcBcast
    <3>2. bcastTo' \in Nat /\ ncPc' \in {"plan", "count", "bcast", "done"}
      BY <2>4 DEF NcBcast
    <3> QED BY <2>4, <3>1, <3>2 DEF NcBcast, wireVars
  <2> QED BY <1>1, <2>1, <2>2, <2>3, <2>4 DEF NcountStep
<1>2. ASSUME NEW i \in Targets, HandlerStep(i)
      PROVE  WireTypeOK' /\ LcmTypeOK'
  <2>1. CASE LcmDial(i) BY <2>1 DEF LcmDial, EndState, DownMsg
  <2>2. CASE LcmDialFail(i) BY <2>2 DEF LcmDialFail, wireVars
  <2>3. CASE LcmMagic(i) BY <2>3 DEF LcmMagic
  <2>4. CASE LcmMagicErr(i) BY <2>4 DEF LcmMagicErr, CloseLcm, EndState
  <2>5. CASE LcmSend(i) BY <2>5 DEF LcmSend, WriteDown, DownMsg
  <2>6. CASE LcmSendErr(i) BY <2>6 DEF LcmSendErr, wireVars
  <2>7. CASE LcmRecvNcount(i) BY <2>7 DEF LcmRecvNcount
  <2>8. CASE LcmRecvNkeep(i) BY <2>8 DEF LcmRecvNkeep
  <2>9. CASE LcmRecvNil(i) BY <2>9 DEF LcmRecvNil, wireVars
  <2>10. CASE LcmDone(i) BY <2>10 DEF LcmDone, wireVars
  <2>11. CASE LcmJoin(i) BY <2>11 DEF LcmJoin, CloseLcm, EndState
  <2> QED BY <1>2, <2>1, <2>2, <2>3, <2>4, <2>5, <2>6, <2>7, <2>8, <2>9,
             <2>10, <2>11 DEF HandlerStep
<1>3. ASSUME NEW i \in Targets, NkeepStep(i)
      PROVE  WireTypeOK' /\ LcmTypeOK'
  <2>1. CASE KeepSend(i) BY <2>1 DEF KeepSend, wireVars
  <2>2. CASE KeepGot(i) BY <2>2 DEF KeepGot, wireVars
  <2>3. CASE KeepTick(i) BY <2>3 DEF KeepTick, wireVars
  <2>4. CASE KeepTimeout(i) BY <2>4 DEF KeepTimeout, wireVars
  <2>5. CASE KeepDone(i) BY <2>5 DEF KeepDone, wireVars
  <2> QED BY <1>3, <2>1, <2>2, <2>3, <2>4, <2>5 DEF NkeepStep
<1>4. CASE DispatchEnd BY <1>4 DEF DispatchEnd, wireVars
<1>5. CASE UserStop BY <1>5 DEF UserStop, wireVars
<1>6. CASE DispatchStart BY <1>6 DEF DispatchStart, wireVars
<1>7. CASE DispatchReject BY <1>7 DEF DispatchReject, wireVars
<1> QED BY <1>1, <1>2, <1>3, <1>4, <1>5, <1>6, <1>7 DEF LcmNext

\* A step of a node's daemon keeps the types of what it may change.
LEMMA NodeStepType ==
  ASSUME WireTypeOK, NodeTypeOK, NodeNext
  PROVE  WireTypeOK' /\ NodeTypeOK'
<1> USE DEF WireTypeOK, NodeTypeOK
<1> SUFFICES ASSUME NEW i \in Targets,
                    \/ NodeAccept(i) \/ NodeRefuse(i) \/ NodeHello(i)
                    \/ ConnStep(i) \/ TimingStep(i) \/ NkeepWorkerStep(i)
                    \/ ExitStep(i) \/ ProcExit(i) \/ WaitProcess(i)
             PROVE  WireTypeOK' /\ NodeTypeOK'
  BY DEF NodeNext
<1>1. CASE NodeAccept(i)
  <2>1. FirstStep(i) \in {"count", "start"}
    BY DEF FirstStep
  <2>2. WireTypeOK'
    BY <1>1 DEF NodeAccept, EndState
  <2> QED BY <1>1, <2>1, <2>2 DEF NodeAccept
<1>2. CASE NodeRefuse(i)
  <2>1. WireTypeOK'
    BY <1>2 DEF NodeRefuse, EndState
  <2> QED BY <1>2, <2>1 DEF NodeRefuse
<1>3. CASE NodeHello(i)
  <2>1. "magic" \in UpMsg
    BY DEF UpMsg
  <2>2. Append(toLcm[i], "magic") \in Seq(UpMsg)
    BY <2>1
  <2>3. toLcm' \in [Targets -> Seq(UpMsg)]
    BY <1>3, <2>2 DEF NodeHello, WriteUp
  <2> QED BY <1>3, <2>3 DEF NodeHello
<1>4. CASE ConnStep(i)
  <2>1. CASE NodeSend(i) BY <2>1 DEF NodeSend, WriteUp, UpMsg
  <2>2. CASE NodeSendErr(i) BY <2>2 DEF NodeSendErr, wireVars
  <2>3. CASE NodeRecvNcount(i) BY <2>3 DEF NodeRecvNcount
  <2>4. CASE NodeRecvNkeep(i) BY <2>4 DEF NodeRecvNkeep
  <2>5. CASE NodeRecvNil(i) BY <2>5 DEF NodeRecvNil, wireVars
  <2>6. CASE NodeDone(i) BY <2>6 DEF NodeDone, wireVars
  <2>7. CASE NodeJoin(i) BY <2>7 DEF NodeJoin, CloseNode, EndState
  <2> QED BY <1>4, <2>1, <2>2, <2>3, <2>4, <2>5, <2>6, <2>7 DEF ConnStep
<1>5. CASE TimingStep(i)
  <2>1. CASE NcountSend(i) BY <2>1 DEF NcountSend, wireVars
  <2>2. CASE NcountEcho(i) BY <2>2 DEF NcountEcho, AfterEcho, wireVars
  <2>3. CASE NcountAbort(i) BY <2>3 DEF NcountAbort, wireVars
  <2>4. CASE StartOk(i) BY <2>4 DEF StartOk, wireVars
  <2>5. CASE StartFail(i) BY <2>5 DEF StartFail, wireVars
  <2>6. CASE TimingEnd(i) BY <2>6 DEF TimingEnd, wireVars
  <2> QED BY <1>5, <2>1, <2>2, <2>3, <2>4, <2>5, <2>6 DEF TimingStep
<1>6. CASE NkeepWorkerStep(i)
  <2>1. CASE NkeepReply(i) BY <2>1 DEF NkeepReply, wireVars
  <2>2. CASE NkeepEnd(i) BY <2>2 DEF NkeepEnd, wireVars
  <2> QED BY <1>6, <2>1, <2>2 DEF NkeepWorkerStep
<1>7. CASE ExitStep(i)
  <2>1. CASE ExitKill(i)
    <3>1. /\ UNCHANGED <<hello, wPc, wCtx, tPc, kwPc, sendLcm, wNCount, wNKeep>>
          /\ UNCHANGED wireVars
      BY <2>1 DEF ExitKill
    <3>2. xPc' \in [Targets -> {"off", "watch", "spin", "end"}]
      <4>1. CASE xPc' = [xPc EXCEPT ![i] = "spin"] BY <4>1
      <4>2. CASE xPc' = [xPc EXCEPT ![i] = "end"] BY <4>2
      <4> QED BY <2>1, <4>1, <4>2 DEF ExitKill
    <3>3. AfterSigterm(proc[i]) \in {"none", "run", "termed", "exited", "reaped"}
      BY DEF AfterSigterm
    <3>4. proc' \in [Targets -> {"none", "run", "termed", "exited", "reaped"}]
      BY <2>1, <3>3 DEF ExitKill
    <3> QED BY <3>1, <3>2, <3>4 DEF wireVars
  <2>2. CASE ExitSpinEnd(i) BY <2>2 DEF ExitSpinEnd, wireVars
  <2> QED BY <1>7, <2>1, <2>2 DEF ExitStep
<1>8. CASE ProcExit(i) BY <1>8 DEF ProcExit, wireVars
<1>9. CASE WaitProcess(i) BY <1>9 DEF WaitProcess, wireVars
<1> QED BY <1>1, <1>2, <1>3, <1>4, <1>5, <1>6, <1>7, <1>8, <1>9

\* Type correctness of the whole launch.
THEOREM TypeCorrect == Spec => []TypeOK
<1>1. TypeOK /\ [Next]_vars => TypeOK'
  <2> SUFFICES ASSUME TypeOK, [Next]_vars PROVE TypeOK'
    OBVIOUS
  <2>1. CASE LcmNext /\ UNCHANGED nodeVars
    <3>1. NodeTypeOK'
      BY <2>1 DEF TypeOK, NodeTypeOK, nodeVars
    <3> QED BY <2>1, <3>1, LcmStepType DEF TypeOK
  <2>2. CASE NodeNext /\ UNCHANGED lcmVars
    <3>1. LcmTypeOK'
      BY <2>2 DEF TypeOK, LcmTypeOK, lcmVars
    <3> QED BY <2>2, <3>1, NodeStepType DEF TypeOK
  <2>3. ASSUME NEW i \in Targets, CutLink(i), UNCHANGED <<lcmVars, nodeVars>>
        PROVE  TypeOK'
    <3>1. WireTypeOK'
      BY <2>3 DEF TypeOK, WireTypeOK, CutLink
    <3>2. LcmTypeOK' /\ NodeTypeOK'
      BY <2>3 DEF TypeOK, LcmTypeOK, NodeTypeOK, lcmVars, nodeVars
    <3> QED BY <3>1, <3>2 DEF TypeOK
  <2>4. CASE UNCHANGED vars
    BY <2>4 DEF TypeOK, WireTypeOK, LcmTypeOK, NodeTypeOK,
                vars, wireVars, lcmVars, nodeVars
  <2> QED BY <2>1, <2>2, <2>3, <2>4 DEF Next
<1> QED BY <1>1, InitType, PTL DEF Spec
-----------------------------------------------------------------------------
(* The worker and its process *)

\* The lifecycle manager does not touch the node's end of a connection.
LEMMA LcmFrame == LcmNext => UNCHANGED nodeEnd
BY DEF LcmNext, NcountStep, NcCount, NcTimeout, NcDone, NcBcast, HandlerStep,
   LcmDial, LcmDialFail, LcmMagic, LcmMagicErr, LcmSend, LcmSendErr,
   LcmRecvNcount, LcmRecvNkeep, LcmRecvNil, LcmDone, LcmJoin, CloseLcm,
   NkeepStep, KeepSend, KeepGot, KeepTick, KeepTimeout, KeepDone,
   DispatchStart, DispatchReject, DispatchEnd, UserStop, wireVars

\* A step of a node's daemon keeps its process in line with its worker.
LEMMA WorkerStep ==
  ASSUME NodeTypeOK, WireTypeOK, WorkerInv, NodeNext
  PROVE  WorkerInv'
<1> USE DEF NodeTypeOK, WireTypeOK, WorkerInv, Started
<1> SUFFICES ASSUME NEW i \in Targets,
                    \/ NodeAccept(i) \/ NodeRefuse(i) \/ NodeHello(i)
                    \/ ConnStep(i) \/ TimingStep(i) \/ NkeepWorkerStep(i)
                    \/ ExitStep(i) \/ ProcExit(i) \/ WaitProcess(i)
             PROVE  WorkerInv'
  BY DEF NodeNext
<1>1. CASE NodeAccept(i) BY <1>1 DEF NodeAccept, FirstStep
<1>2. CASE NodeRefuse(i) BY <1>2 DEF NodeRefuse
<1>3. CASE NodeHello(i) BY <1>3 DEF NodeHello
<1>4. CASE ConnStep(i)
  <2>1. CASE NodeSend(i) BY <2>1 DEF NodeSend
  <2>2. CASE NodeSendErr(i) BY <2>2 DEF NodeSendErr, wireVars
  <2>3. CASE NodeRecvNcount(i) BY <2>3 DEF NodeRecvNcount
  <2>4. CASE NodeRecvNkeep(i) BY <2>4 DEF NodeRecvNkeep
  <2>5. CASE NodeRecvNil(i) BY <2>5 DEF NodeRecvNil, wireVars
  <2>6. CASE NodeDone(i) BY <2>6 DEF NodeDone, wireVars
  <2>7. CASE NodeJoin(i) BY <2>7 DEF NodeJoin, SubTasksEnded, CloseNode
  <2> QED BY <1>4, <2>1, <2>2, <2>3, <2>4, <2>5, <2>6, <2>7 DEF ConnStep
<1>5. CASE TimingStep(i)
  <2>1. CASE NcountSend(i) BY <2>1 DEF NcountSend, wireVars
  <2>2. CASE NcountEcho(i) BY <2>2 DEF NcountEcho, AfterEcho, wireVars
  <2>3. CASE NcountAbort(i) BY <2>3 DEF NcountAbort, wireVars
  <2>4. CASE StartOk(i) BY <2>4 DEF StartOk, wireVars
  <2>5. CASE StartFail(i) BY <2>5 DEF StartFail, wireVars
  <2>6. CASE TimingEnd(i) BY <2>6 DEF TimingEnd, wireVars
  <2> QED BY <1>5, <2>1, <2>2, <2>3, <2>4, <2>5, <2>6 DEF TimingStep
<1>6. CASE NkeepWorkerStep(i)
  BY <1>6 DEF NkeepWorkerStep, NkeepReply, NkeepEnd, wireVars
<1>7. CASE ExitStep(i)
  BY <1>7 DEF ExitStep, ExitKill, ExitSpinEnd, ProcAlive, AfterSigterm, wireVars
<1>8. CASE ProcExit(i) BY <1>8 DEF ProcExit, wireVars
<1>9. CASE WaitProcess(i) BY <1>9 DEF WaitProcess, wireVars
<1> QED BY <1>1, <1>2, <1>3, <1>4, <1>5, <1>6, <1>7, <1>8, <1>9

\* Wherever a worker is, it knows whether it has a process to wait for.
THEOREM WorkerInvariant == Spec => []WorkerInv
<1>1. Init => WorkerInv
  BY DEF Init, WireInit, NodeInit, WorkerInv, Started
<1>2. TypeOK /\ WorkerInv /\ [Next]_vars => WorkerInv'
  <2> SUFFICES ASSUME TypeOK, WorkerInv, [Next]_vars PROVE WorkerInv'
    OBVIOUS
  <2>1. CASE LcmNext /\ UNCHANGED nodeVars
    BY <2>1, LcmFrame DEF WorkerInv, Started, nodeVars
  <2>2. CASE NodeNext /\ UNCHANGED lcmVars
    BY <2>2, WorkerStep DEF TypeOK
  <2>3. ASSUME NEW i \in Targets, CutLink(i), UNCHANGED <<lcmVars, nodeVars>>
        PROVE  WorkerInv'
    BY <2>3 DEF WorkerInv, Started, CutLink, nodeVars
  <2>4. CASE UNCHANGED vars
    BY <2>4 DEF WorkerInv, Started, vars, wireVars, nodeVars
  <2> QED BY <2>1, <2>2, <2>3, <2>4 DEF Next
<1> QED BY <1>1, <1>2, TypeCorrect, PTL DEF Spec

\* A node closes its connection only after its process was reaped.
THEOREM CloseAfterReapHolds == Spec => []CloseAfterReap
<1>1. TypeOK /\ WorkerInv => CloseAfterReap
  BY DEF WorkerInv, CloseAfterReap, ProcAlive, Started
<1> QED BY <1>1, TypeCorrect, WorkerInvariant, PTL
-----------------------------------------------------------------------------
(* Messages in a channel *)

\* What is in a channel after a send.
LEMMA HoldsAppend ==
  ASSUME NEW T, NEW s \in Seq(T), NEW x \in T, NEW m
  PROVE  Holds(Append(s, x), m) <=> Holds(s, m) \/ x = m
<1> DEFINE a == Append(s, x)
<1>1. /\ Len(a) = Len(s) + 1
      /\ a[Len(s) + 1] = x
      /\ \A k \in 1..Len(s) : a[k] = s[k]
      /\ Len(s) \in Nat
  OBVIOUS
<1> HIDE DEF a
<1>2. Holds(a, m) <=> Holds(s, m) \/ x = m
  BY <1>1 DEF Holds
<1> QED BY <1>2 DEF a

\* What is in a channel after a receive.
LEMMA HoldsTail ==
  ASSUME NEW T, NEW s \in Seq(T), s # <<>>, NEW m
  PROVE  /\ Holds(Tail(s), m) => Holds(s, m)
         /\ Holds(s, m) => Head(s) = m \/ Holds(Tail(s), m)
         /\ Head(s) = m => Holds(s, m)
         /\ Once(s, m) => Once(Tail(s), m)
         /\ Once(s, m) /\ Head(s) = m => ~Holds(Tail(s), m)
<1> DEFINE t == Tail(s)
<1>1. /\ Len(s) \in Nat \ {0}
      /\ Len(t) = Len(s) - 1
      /\ \A k \in 1..Len(t) : t[k] = s[k + 1]
      /\ Head(s) = s[1]
  OBVIOUS
<1> HIDE DEF t
<1>2. Holds(t, m) => Holds(s, m)
  BY <1>1 DEF Holds
<1>3. Holds(s, m) => Head(s) = m \/ Holds(t, m)
  <2> SUFFICES ASSUME NEW k \in 1..Len(s), s[k] = m, Head(s) # m
               PROVE  Holds(t, m)
    BY DEF Holds
  <2>1. k - 1 \in 1..Len(t) /\ t[k - 1] = m
    BY <1>1
  <2> QED BY <2>1 DEF Holds
<1>4. Head(s) = m => Holds(s, m)
  BY <1>1 DEF Holds
<1>5. Once(s, m) => Once(t, m)
  <2> SUFFICES ASSUME Once(s, m), NEW j \in 1..Len(t), NEW k \in 1..Len(t),
                      t[j] = m, t[k] = m
               PROVE  j = k
    BY DEF Once
  <2>1. j + 1 \in 1..Len(s) /\ k + 1 \in 1..Len(s)
    BY <1>1
  <2>2. s[j + 1] = m /\ s[k + 1] = m
    BY <1>1
  <2>3. j + 1 = k + 1
    BY <2>1, <2>2 DEF Once
  <2> QED BY <2>3
<1>6. Once(s, m) /\ Head(s) = m => ~Holds(t, m)
  <2> SUFFICES ASSUME Once(s, m), s[1] = m, NEW k \in 1..Len(t), t[k] = m
               PROVE  FALSE
    BY <1>1 DEF Holds
  <2>1. k + 1 \in 1..Len(s) /\ s[k + 1] = m /\ 1 \in 1..Len(s)
    BY <1>1
  <2>2. k + 1 = 1
    BY <2>1 DEF Once
  <2> QED BY <2>2
<1> QED BY <1>2, <1>3, <1>4, <1>5, <1>6 DEF t

\* A message that was not in a channel is there once after its send, and
\* sending another one changes nothing.
LEMMA OnceAppend ==
  ASSUME NEW T, NEW s \in Seq(T), NEW x \in T, NEW m, Once(s, m),
         x # m \/ ~Holds(s, m)
  PROVE  Once(Append(s, x), m)
<1> DEFINE a == Append(s, x)
<1>1. /\ Len(a) = Len(s) + 1
      /\ a[Len(s) + 1] = x
      /\ \A k \in 1..Len(s) : a[k] = s[k]
      /\ Len(s) \in Nat
  OBVIOUS
<1> HIDE DEF a
<1>2. ASSUME NEW j \in 1..Len(a), NEW k \in 1..Len(a), a[j] = m, a[k] = m
      PROVE  j = k
  BY <1>1, <1>2 DEF Once, Holds
<1> QED BY <1>2 DEF a, Once

\* Nothing is in an empty channel.
LEMMA EmptyChannel == ASSUME NEW m PROVE ~Holds(<<>>, m) /\ Once(<<>>, m)
BY DEF Holds, Once
-----------------------------------------------------------------------------
(* The answer of each worker *)

\* A step that leaves the answers' places alone keeps AnswerInv.
LEMMA AnswerFrame ==
  ASSUME AnswerInv, UNCHANGED <<sendLcm, toLcm, resp, tPc, proc>>
  PROVE  AnswerInv'
BY DEF AnswerInv, Unsent, Started

\* A step that takes the head of toLcm[i], or all of it, and records an
\* "ncount" as answered, keeps AnswerInv.
LEMMA AnswerTaken ==
  ASSUME TypeOK, AnswerInv, NEW i \in Targets,
         UNCHANGED <<sendLcm, tPc, proc>>,
         \/ /\ toLcm[i] # <<>>
            /\ toLcm' = [toLcm EXCEPT ![i] = Tail(@)]
            /\ resp' = [resp EXCEPT ![i] = @ \/ Head(toLcm[i]) = "ncount"]
         \/ /\ toLcm' = [toLcm EXCEPT ![i] = <<>>]
            /\ UNCHANGED resp
  PROVE  AnswerInv'
<1> USE DEF AnswerInv, Unsent, Started
<1>1. /\ toLcm \in [Targets -> Seq(UpMsg)]
      /\ resp \in [Targets -> BOOLEAN]
  BY DEF TypeOK, WireTypeOK, LcmTypeOK
<1>2. CASE /\ toLcm[i] # <<>>
           /\ toLcm' = [toLcm EXCEPT ![i] = Tail(@)]
           /\ resp' = [resp EXCEPT ![i] = @ \/ Head(toLcm[i]) = "ncount"]
  <2>1. toLcm[i] \in Seq(UpMsg)
    BY <1>1
  <2>2. /\ Holds(Tail(toLcm[i]), "ncount") => Holds(toLcm[i], "ncount")
        /\ Head(toLcm[i]) = "ncount" => Holds(toLcm[i], "ncount")
        /\ Once(Tail(toLcm[i]), "ncount")
        /\ Head(toLcm[i]) = "ncount" => ~Holds(Tail(toLcm[i]), "ncount")
    BY <1>2, <2>1, HoldsTail
  <2>3. /\ toLcm'[i] = Tail(toLcm[i])
        /\ resp'[i] <=> resp[i] \/ Head(toLcm[i]) = "ncount"
        /\ \A j \in Targets \ {i} : toLcm'[j] = toLcm[j] /\ resp'[j] = resp[j]
    BY <1>1, <1>2
  <2> QED BY <2>2, <2>3
<1>3. CASE /\ toLcm' = [toLcm EXCEPT ![i] = <<>>]
           /\ UNCHANGED resp
  <2>1. /\ toLcm'[i] = <<>>
        /\ \A j \in Targets \ {i} : toLcm'[j] = toLcm[j]
    BY <1>1, <1>3
  <2> QED BY <1>3, <2>1, EmptyChannel
<1> QED BY <1>2, <1>3

\* The lifecycle manager takes each answer off the wire once.
LEMMA AnswerLcmStep ==
  ASSUME TypeOK, AnswerInv, LcmNext, UNCHANGED nodeVars
  PROVE  AnswerInv'
<1> USE DEF nodeVars, wireVars
<1>1. CASE NcountStep
  BY <1>1, AnswerFrame DEF NcountStep, NcCount, NcTimeout, NcDone, NcBcast
<1>2. ASSUME NEW i \in Targets, HandlerStep(i)
      PROVE  AnswerInv'
  <2>1. CASE LcmDial(i) BY <2>1, AnswerFrame DEF LcmDial
  <2>2. CASE LcmDialFail(i) BY <2>2, AnswerFrame DEF LcmDialFail
  <2>3. CASE LcmMagic(i)
    <3>1. resp' = [resp EXCEPT ![i] = @ \/ Head(toLcm[i]) = "ncount"]
      BY <2>3 DEF LcmMagic, TypeOK, LcmTypeOK
    <3> QED BY <2>3, <3>1, AnswerTaken DEF LcmMagic
  <2>4. CASE LcmMagicErr(i) BY <2>4, AnswerTaken DEF LcmMagicErr, CloseLcm
  <2>5. CASE LcmSend(i) BY <2>5, AnswerFrame DEF LcmSend
  <2>6. CASE LcmSendErr(i) BY <2>6, AnswerFrame DEF LcmSendErr
  <2>7. CASE LcmRecvNcount(i)
    <3>1. resp' = [resp EXCEPT ![i] = @ \/ Head(toLcm[i]) = "ncount"]
      BY <2>7 DEF LcmRecvNcount, TypeOK, LcmTypeOK
    <3> QED BY <2>7, <3>1, AnswerTaken DEF LcmRecvNcount
  <2>8. CASE LcmRecvNkeep(i)
    <3>1. resp' = [resp EXCEPT ![i] = @ \/ Head(toLcm[i]) = "ncount"]
      BY <2>8 DEF LcmRecvNkeep, TypeOK, LcmTypeOK
    <3> QED BY <2>8, <3>1, AnswerTaken DEF LcmRecvNkeep
  <2>9. CASE LcmRecvNil(i) BY <2>9, AnswerFrame DEF LcmRecvNil
  <2>10. CASE LcmDone(i) BY <2>10, AnswerFrame DEF LcmDone
  <2>11. CASE LcmJoin(i) BY <2>11, AnswerTaken DEF LcmJoin, CloseLcm
  <2> QED BY <1>2, <2>1, <2>2, <2>3, <2>4, <2>5, <2>6, <2>7, <2>8, <2>9,
             <2>10, <2>11 DEF HandlerStep
<1>3. ASSUME NEW i \in Targets, NkeepStep(i)
      PROVE  AnswerInv'
  BY <1>3, AnswerFrame
     DEF NkeepStep, KeepSend, KeepGot, KeepTick, KeepTimeout, KeepDone
<1>4. CASE DispatchStart \/ DispatchReject \/ DispatchEnd
  BY <1>4, AnswerFrame DEF DispatchStart, DispatchReject, DispatchEnd
<1>5. CASE UserStop BY <1>5, AnswerFrame DEF UserStop
<1> QED BY <1>1, <1>2, <1>3, <1>4, <1>5 DEF LcmNext

\* A worker makes one answer, after its start if it is a starter, and passes
\* it on without making a second one.
LEMMA AnswerNodeStep ==
  ASSUME TypeOK, WorkerInv, AnswerInv, NodeNext, UNCHANGED lcmVars
  PROVE  AnswerInv'
<1> USE DEF lcmVars, wireVars
<1>0. /\ toLcm \in [Targets -> Seq(UpMsg)]
      /\ sendLcm \in [Targets -> Seq({"ncount", "nkeep"})]
      /\ tPc \in [Targets -> {"off", "count", "echo", "start", "join", "end"}]
      /\ proc \in [Targets -> {"none", "run", "termed", "exited", "reaped"}]
  BY DEF TypeOK, WireTypeOK, NodeTypeOK
<1> SUFFICES ASSUME NEW i \in Targets,
                    \/ NodeAccept(i) \/ NodeRefuse(i) \/ NodeHello(i)
                    \/ ConnStep(i) \/ TimingStep(i) \/ NkeepWorkerStep(i)
                    \/ ExitStep(i) \/ ProcExit(i) \/ WaitProcess(i)
             PROVE  AnswerInv'
  BY DEF NodeNext
<1>1. CASE NodeAccept(i)
  BY <1>0, <1>1 DEF NodeAccept, FirstStep, WorkerInv, AnswerInv, Unsent, Started
<1>2. CASE NodeRefuse(i)
  BY <1>0, <1>2 DEF NodeRefuse, WorkerInv, AnswerInv, Unsent, Started
<1>3. CASE NodeHello(i)
  <2>1. toLcm[i] \in Seq(UpMsg) /\ "magic" \in UpMsg
    BY <1>0 DEF UpMsg
  <2>2. /\ Holds(Append(toLcm[i], "magic"), "ncount") <=> Holds(toLcm[i], "ncount")
        /\ Once(Append(toLcm[i], "magic"), "ncount")
    BY <2>1, HoldsAppend, OnceAppend DEF AnswerInv
  <2> QED BY <1>0, <1>3, <2>2 DEF NodeHello, WriteUp, AnswerInv, Unsent, Started
<1>4. CASE ConnStep(i)
  <2> USE <1>0
  <2>0. sendLcm[i] \in Seq({"ncount", "nkeep"}) /\ toLcm[i] \in Seq(UpMsg)
    OBVIOUS
  <2>1. CASE NodeSend(i)
    <3>1. /\ Holds(Tail(sendLcm[i]), "ncount") => Holds(sendLcm[i], "ncount")
          /\ Head(sendLcm[i]) = "ncount" => Holds(sendLcm[i], "ncount")
          /\ Once(Tail(sendLcm[i]), "ncount")
          /\ Head(sendLcm[i]) = "ncount" => ~Holds(Tail(sendLcm[i]), "ncount")
      BY <2>0, <2>1, HoldsTail DEF NodeSend, AnswerInv
    <3>2. Head(sendLcm[i]) \in UpMsg
      BY <2>0, <2>1 DEF NodeSend, UpMsg
    <3>3. /\ Holds(Append(toLcm[i], Head(sendLcm[i])), "ncount")
               <=> Holds(toLcm[i], "ncount") \/ Head(sendLcm[i]) = "ncount"
          /\ Once(Append(toLcm[i], Head(sendLcm[i])), "ncount")
      BY <2>0, <3>1, <3>2, HoldsAppend, OnceAppend DEF AnswerInv
    <3> QED BY <2>1, <3>1, <3>3
               DEF NodeSend, WriteUp, AnswerInv, Unsent, Started
  <2>2. CASE NodeSendErr(i)
    <3>1. /\ Holds(Tail(sendLcm[i]), "ncount") => Holds(sendLcm[i], "ncount")
          /\ Once(Tail(sendLcm[i]), "ncount")
      BY <2>0, <2>2, HoldsTail DEF NodeSendErr, AnswerInv
    <3> QED BY <2>2, <3>1 DEF NodeSendErr, AnswerInv, Unsent, Started
  <2>3. CASE NodeRecvNcount(i) BY <2>3, AnswerFrame DEF NodeRecvNcount
  <2>4. CASE NodeRecvNkeep(i) BY <2>4, AnswerFrame DEF NodeRecvNkeep
  <2>5. CASE NodeRecvNil(i) BY <2>5, AnswerFrame DEF NodeRecvNil
  <2>6. CASE NodeDone(i) BY <2>6, AnswerFrame DEF NodeDone
  <2>7. CASE NodeJoin(i)
    BY <2>7, EmptyChannel DEF NodeJoin, CloseNode, AnswerInv, Unsent, Started
  <2> QED BY <1>4, <2>1, <2>2, <2>3, <2>4, <2>5, <2>6, <2>7 DEF ConnStep
<1>5. CASE TimingStep(i)
  <2> USE <1>0
  <2>1. CASE NcountSend(i)
    <3>1. ~Holds(sendLcm[i], "ncount") /\ Once(sendLcm[i], "ncount")
      BY <2>1 DEF NcountSend, AnswerInv, Unsent
    <3>2. Once(Append(sendLcm[i], "ncount"), "ncount")
      <4>1. sendLcm[i] \in Seq({"ncount", "nkeep"})
        BY <1>0
      <4>2. "ncount" \in {"ncount", "nkeep"}
        OBVIOUS
      <4> QED BY ONLY <3>1, <4>1, <4>2, OnceAppend
    <3> QED BY <2>1, <3>2
               DEF NcountSend, AnswerInv, WorkerInv, Unsent, Started
  <2>2. CASE NcountEcho(i)
    BY <2>2 DEF NcountEcho, AfterEcho, AnswerInv, Unsent, Started
  <2>3. CASE NcountAbort(i)
    BY <2>3 DEF NcountAbort, AnswerInv, Unsent, Started
  <2>4. CASE StartOk(i)
    BY <2>4 DEF StartOk, AnswerInv, WorkerInv, Unsent, Started
  <2>5. CASE StartFail(i)
    BY <2>5 DEF StartFail, AnswerInv, Unsent, Started
  <2>6. CASE TimingEnd(i)
    BY <2>6 DEF TimingEnd, AnswerInv, Unsent, Started
  <2> QED BY <1>5, <2>1, <2>2, <2>3, <2>4, <2>5, <2>6 DEF TimingStep
<1>6. CASE NkeepWorkerStep(i)
  <2>1. CASE NkeepReply(i)
    <3>1. sendLcm[i] \in Seq({"ncount", "nkeep"})
      BY <1>0
    <3>2. /\ Holds(Append(sendLcm[i], "nkeep"), "ncount")
               <=> Holds(sendLcm[i], "ncount")
          /\ Once(Append(sendLcm[i], "nkeep"), "ncount")
      BY <3>1, HoldsAppend, OnceAppend DEF AnswerInv
    <3> QED BY <1>0, <2>1, <3>2 DEF NkeepReply, AnswerInv, Unsent, Started
  <2>2. CASE NkeepEnd(i) BY <2>2, AnswerFrame DEF NkeepEnd
  <2> QED BY <1>6, <2>1, <2>2 DEF NkeepWorkerStep
<1>7. CASE ExitStep(i)
  BY <1>0, <1>7 DEF ExitStep, ExitKill, ExitSpinEnd, ProcAlive, AfterSigterm,
     AnswerInv, Unsent, Started
<1>8. CASE ProcExit(i)
  BY <1>0, <1>8 DEF ProcExit, AnswerInv, Unsent, Started
<1>9. CASE WaitProcess(i)
  BY <1>0, <1>9 DEF WaitProcess, AnswerInv, Unsent, Started
<1> QED BY <1>1, <1>2, <1>3, <1>4, <1>5, <1>6, <1>7, <1>8, <1>9

\* Every worker's answer is in one place, and a starter's process is started.
THEOREM AnswerInvariant == Spec => []AnswerInv
<1>1. Init => AnswerInv
  BY EmptyChannel DEF Init, WireInit, LcmInit, NodeInit, AnswerInv, Unsent
<1>2. TypeOK /\ WorkerInv /\ AnswerInv /\ [Next]_vars => AnswerInv'
  <2> SUFFICES ASSUME TypeOK, WorkerInv, AnswerInv, [Next]_vars PROVE AnswerInv'
    OBVIOUS
  <2>1. CASE LcmNext /\ UNCHANGED nodeVars
    BY <2>1, AnswerLcmStep
  <2>2. CASE NodeNext /\ UNCHANGED lcmVars
    BY <2>2, AnswerNodeStep
  <2>3. ASSUME NEW i \in Targets, CutLink(i), UNCHANGED <<lcmVars, nodeVars>>
        PROVE  AnswerInv'
    BY <2>3, AnswerFrame DEF CutLink, lcmVars, nodeVars
  <2>4. CASE UNCHANGED vars
    BY <2>4, AnswerFrame DEF vars, wireVars, lcmVars, nodeVars
  <2> QED BY <2>1, <2>2, <2>3, <2>4 DEF Next
<1> QED BY <1>1, <1>2, TypeCorrect, WorkerInvariant, PTL DEF Spec
-----------------------------------------------------------------------------
(* The count of NcountMaster *)

\* The answered targets are finitely many, and no more than N.
LEMMA AnsweredFinite ==
  /\ IsFiniteSet(Targets)
  /\ Cardinality(Targets) = N
  /\ \A S \in SUBSET Targets :
       /\ IsFiniteSet(S)
       /\ Cardinality(S) \in Nat
       /\ Cardinality(S) <= N
       /\ Cardinality(S) = N => S = Targets
<1>1. IsFiniteSet(Targets) /\ Cardinality(Targets) = N
  BY NAssumption, FS_Interval DEF Targets
<1>2. ASSUME NEW S \in SUBSET Targets
      PROVE  /\ IsFiniteSet(S)
             /\ Cardinality(S) \in Nat
             /\ Cardinality(S) <= N
             /\ Cardinality(S) = N => S = Targets
  <2>1. /\ IsFiniteSet(S)
        /\ Cardinality(S) <= Cardinality(Targets)
        /\ Cardinality(Targets) = Cardinality(S) => Targets = S
    BY <1>1, FS_Subset
  <2>2. Cardinality(S) \in Nat
    BY <2>1, FS_CardinalityType
  <2> QED BY <1>1, <2>1, <2>2
<1> QED BY <1>1, <1>2

\* No other step than these two moves the count.
LEMMA CountFrame ==
  ASSUME [Next]_vars
  PROVE  \/ NcCount
         \/ \E i \in Targets : LcmRecvNcount(i)
         \/ UNCHANGED <<connected, ncTok, resp>>
<1>1. CASE LcmNext
  BY <1>1 DEF LcmNext, NcountStep, NcTimeout, NcDone, NcBcast, HandlerStep,
     LcmDial, LcmDialFail, LcmMagic, LcmMagicErr, LcmSend, LcmSendErr,
     LcmRecvNkeep, LcmRecvNil, LcmDone, LcmJoin, NkeepStep, KeepSend, KeepGot,
     KeepTick, KeepTimeout, KeepDone, DispatchStart, DispatchReject,
     DispatchEnd, UserStop
<1>2. CASE UNCHANGED lcmVars
  BY <1>2 DEF lcmVars
<1> QED BY <1>1, <1>2 DEF Next, vars

\* Every token is one target that answered.
THEOREM CountInvariant == Spec => []CountInv
<1>1. Init => CountInv
  <2> SUFFICES ASSUME Init PROVE CountInv
    OBVIOUS
  <2>1. {i \in Targets : resp[i]} = {}
    BY DEF Init, LcmInit
  <2>2. connected + ncTok = 0
    BY DEF Init, LcmInit
  <2> QED BY <2>1, <2>2, FS_EmptySet DEF CountInv
<1>2. TypeOK /\ AnswerInv /\ CountInv /\ [Next]_vars => CountInv'
  <2> SUFFICES ASSUME TypeOK, AnswerInv, CountInv, [Next]_vars PROVE CountInv'
    OBVIOUS
  <2>0. /\ connected \in Nat
        /\ ncTok \in Nat
        /\ resp \in [Targets -> BOOLEAN]
        /\ toLcm \in [Targets -> Seq(UpMsg)]
    BY DEF TypeOK, LcmTypeOK, WireTypeOK
  <2>1. CASE NcCount
    BY <2>0, <2>1 DEF NcCount, TokenReady, CountInv
  <2>2. ASSUME NEW i \in Targets, LcmRecvNcount(i) PROVE CountInv'
    <3> DEFINE A == {j \in Targets : resp[j]}
    <3>1. ~resp[i]
      <4>1. toLcm[i] \in Seq(UpMsg)
        BY <2>0
      <4>2. Holds(toLcm[i], "ncount")
        BY <2>2, <4>1, HoldsTail DEF LcmRecvNcount
      <4> QED BY <4>2 DEF AnswerInv
    <3>2. {j \in Targets : resp'[j]} = A \cup {i}
      BY <2>0, <2>2 DEF LcmRecvNcount
    <3>3. IsFiniteSet(A) /\ Cardinality(A) \in Nat
      BY AnsweredFinite
    <3>4. Cardinality(A \cup {i}) = Cardinality(A) + 1
      BY <3>1, <3>3, FS_AddElement
    <3>5. connected' + ncTok' = (connected + ncTok) + 1
      BY <2>0, <2>2 DEF LcmRecvNcount
    <3> QED BY <3>2, <3>4, <3>5 DEF CountInv
  <2>3. CASE UNCHANGED <<connected, ncTok, resp>>
    BY <2>3 DEF CountInv
  <2> QED BY <2>1, <2>2, <2>3, CountFrame
<1> QED BY <1>1, <1>2, TypeCorrect, AnswerInvariant, PTL DEF Spec

\* A count that has reached N has counted every target.
LEMMA FullCount ==
  ASSUME NEW c \in Nat, NEW t \in Nat, NEW r,
         c > 0, EnoughWorkers(c),
         c + t = Cardinality({i \in Targets : r[i]})
  PROVE  (\A i \in Targets : r[i]) /\ Targets # {}
<1> DEFINE A == {i \in Targets : r[i]}
<1>1. /\ Cardinality(A) \in Nat
      /\ Cardinality(A) <= N
      /\ Cardinality(A) = N => A = Targets
  BY AnsweredFinite
<1>2. Cardinality(A) = N /\ N > 0
  BY <1>1, NAssumption DEF EnoughWorkers
<1>3. A = Targets
  BY <1>1, <1>2
<1>4. Targets # {}
  BY <1>2, AnsweredFinite, FS_EmptySet
<1> QED BY <1>3, <1>4

\* When the barrier is released, every target has answered.
LEMMA ReleasedMeansAnswered ==
  ASSUME TypeOK, CountInv, Released
  PROVE  (\A i \in Targets : resp[i]) /\ Targets # {}
BY FullCount DEF TypeOK, LcmTypeOK, CountInv, Released

-----------------------------------------------------------------------------
(* The barrier *)

\* A released barrier stays released.
LEMMA ReleasedStays ==
  ASSUME TypeOK, [Next]_vars, Released
  PROVE  Released'
<1>1. connected \in Nat /\ N \in Nat
  BY NAssumption DEF TypeOK, LcmTypeOK
<1>2. connected' = connected \/ connected' = connected + 1
  BY <1>1, CountFrame DEF NcCount, LcmRecvNcount
<1> QED BY <1>1, <1>2 DEF Released, EnoughWorkers

\* A step that only takes messages away, or sends others than the release,
\* keeps ReleaseInv.
LEMMA ReleaseFrame ==
  ASSUME ReleaseInv, Released => Released',
         ncPc' = "bcast" => ncPc = "bcast",
         \A i \in Targets : EchoOut(i)' => EchoOut(i),
         UNCHANGED <<tPc, proc>>
  PROVE  ReleaseInv'
<1>1. \A i \in Waiters : Started(i)' <=> Started(i)
  BY DEF Started
<1> QED BY <1>1 DEF ReleaseInv

\* The lifecycle manager sends the release only when everybody answered.
LEMMA ReleaseLcmStep ==
  ASSUME TypeOK, ReleaseInv, Released => Released', LcmNext, UNCHANGED nodeVars
  PROVE  ReleaseInv'
<1> USE DEF nodeVars, wireVars
<1>0. /\ toNode \in [Targets -> Seq(DownMsg)]
      /\ sendNode \in [Targets -> {"empty", "nkeep", "ncount"}]
      /\ connected \in Nat
  BY DEF TypeOK, WireTypeOK, LcmTypeOK
<1>1. CASE NcountStep
  <2>1. CASE NcCount
    <3>1. ncPc' = "bcast" => Released'
      BY <1>0, <2>1 DEF NcCount, Released, EnoughWorkers
    <3>2. \A i \in Targets : EchoOut(i)' <=> EchoOut(i)
      BY <2>1 DEF NcCount, EchoOut
    <3>3. \A i \in Waiters : Started(i)' <=> Started(i)
      BY DEF Started
    <3> QED BY <3>1, <3>2, <3>3 DEF ReleaseInv
  <2>2. CASE NcTimeout \/ NcDone
    BY <2>2, ReleaseFrame DEF NcTimeout, NcDone, EchoOut
  <2>3. CASE NcBcast
    <3>1. Released'
      BY <2>3 DEF NcBcast, ReleaseInv
    <3> QED BY <3>1 DEF ReleaseInv
  <2> QED BY <1>1, <2>1, <2>2, <2>3 DEF NcountStep
<1>2. ASSUME NEW i \in Targets, HandlerStep(i)
      PROVE  ReleaseInv'
  <2>1. CASE LcmDial(i)
    <3>1. Holds(Append(toNode[i], "command"), "ncount") <=> Holds(toNode[i], "ncount")
      <4>1. toNode[i] \in Seq(DownMsg) /\ "command" \in DownMsg
        BY <1>0 DEF DownMsg
      <4> QED BY ONLY <4>1, HoldsAppend
    <3>2. \A j \in Targets : EchoOut(j)' => EchoOut(j)
      BY <1>0, <2>1, <3>1 DEF LcmDial, EchoOut
    <3> QED BY <2>1, <3>2, ReleaseFrame DEF LcmDial
  <2>2. CASE LcmSend(i)
    <3>1. sendNode[i] \in DownMsg
      BY <1>0, <2>2 DEF LcmSend, DownMsg
    <3>2. Holds(Append(toNode[i], sendNode[i]), "ncount")
            <=> Holds(toNode[i], "ncount") \/ sendNode[i] = "ncount"
      <4>1. toNode[i] \in Seq(DownMsg)
        BY <1>0
      <4> QED BY ONLY <3>1, <4>1, HoldsAppend
    <3>3. \A j \in Targets : EchoOut(j)' => EchoOut(j)
      BY <1>0, <2>2, <3>2 DEF LcmSend, WriteDown, EchoOut
    <3> QED BY <2>2, <3>3, ReleaseFrame DEF LcmSend
  <2>3. CASE LcmSendErr(i)
    <3>1. \A j \in Targets : EchoOut(j)' => EchoOut(j)
      BY <1>0, <2>3 DEF LcmSendErr, EchoOut
    <3> QED BY <2>3, <3>1, ReleaseFrame DEF LcmSendErr
  <2>4. CASE \/ LcmDialFail(i) \/ LcmMagic(i) \/ LcmMagicErr(i)
             \/ LcmRecvNcount(i) \/ LcmRecvNkeep(i) \/ LcmRecvNil(i)
             \/ LcmDone(i) \/ LcmJoin(i)
    <3>1. UNCHANGED <<ncPc, sendNode, toNode, wNCount, tPc, proc>>
      BY <2>4 DEF LcmDialFail, LcmMagic, LcmMagicErr, CloseLcm, LcmRecvNcount,
         LcmRecvNkeep, LcmRecvNil, LcmDone, LcmJoin
    <3> QED BY <3>1, ReleaseFrame DEF EchoOut
  <2> QED BY <1>2, <2>1, <2>2, <2>3, <2>4 DEF HandlerStep
<1>3. ASSUME NEW i \in Targets, NkeepStep(i)
      PROVE  ReleaseInv'
  <2>1. \A j \in Targets : EchoOut(j)' => EchoOut(j)
    BY <1>0, <1>3 DEF NkeepStep, KeepSend, KeepGot, KeepTick, KeepTimeout,
       KeepDone, EchoOut
  <2>2. ncPc' = ncPc
    BY <1>3 DEF NkeepStep, KeepSend, KeepGot, KeepTick, KeepTimeout, KeepDone
  <2> QED BY <2>1, <2>2, ReleaseFrame
<1>4. CASE DispatchStart \/ DispatchReject \/ DispatchEnd \/ UserStop
  BY <1>4, ReleaseFrame
     DEF DispatchStart, DispatchReject, DispatchEnd, UserStop, EchoOut
<1> QED BY <1>1, <1>2, <1>3, <1>4 DEF LcmNext

\* A waiting worker passes its barrier only on the release.
LEMMA ReleaseNodeStep ==
  ASSUME TypeOK, WorkerInv, ReleaseInv, Released => Released',
         NodeNext, UNCHANGED lcmVars
  PROVE  ReleaseInv'
<1> USE WaitersAssumption DEF lcmVars, wireVars
<1>0. /\ toNode \in [Targets -> Seq(DownMsg)]
      /\ wNCount \in [Targets -> Nat]
      /\ tPc \in [Targets -> {"off", "count", "echo", "start", "join", "end"}]
      /\ proc \in [Targets -> {"none", "run", "termed", "exited", "reaped"}]
  BY DEF TypeOK, WireTypeOK, NodeTypeOK
<1> SUFFICES ASSUME NEW i \in Targets,
                    \/ NodeAccept(i) \/ NodeRefuse(i) \/ NodeHello(i)
                    \/ ConnStep(i) \/ TimingStep(i) \/ NkeepWorkerStep(i)
                    \/ ExitStep(i) \/ ProcExit(i) \/ WaitProcess(i)
             PROVE  ReleaseInv'
  BY DEF NodeNext
<1>1. ASSUME toNode[i] # <<>>
      PROVE  /\ Holds(Tail(toNode[i]), "ncount") => Holds(toNode[i], "ncount")
             /\ Head(toNode[i]) = "ncount" => Holds(toNode[i], "ncount")
  <2>1. toNode[i] \in Seq(DownMsg)
    BY <1>0
  <2> QED BY ONLY <1>1, <2>1, HoldsTail
<1>2. CASE NodeAccept(i)
  <2>1. \A j \in Targets : EchoOut(j)' => EchoOut(j)
    BY <1>0, <1>1, <1>2 DEF NodeAccept, EchoOut
  <2>2. \A j \in Waiters : /\ Started(j)' <=> Started(j)
                           /\ tPc'[j] \in {"start", "join"} => tPc[j] = tPc'[j]
    BY <1>0, <1>2 DEF NodeAccept, FirstStep, Started
  <2> QED BY <2>1, <2>2 DEF ReleaseInv
<1>3. CASE NodeRefuse(i)
  <2>1. \A j \in Targets : EchoOut(j)' => EchoOut(j)
    BY <1>0, <1>1, <1>3 DEF NodeRefuse, EchoOut
  <2>2. \A j \in Waiters : /\ Started(j)' <=> Started(j)
                           /\ tPc'[j] \in {"start", "join"} => tPc[j] = tPc'[j]
    BY <1>0, <1>3 DEF NodeRefuse, Started
  <2> QED BY <1>3, <2>1, <2>2 DEF NodeRefuse, ReleaseInv
<1>4. CASE NodeHello(i)
  BY <1>4, ReleaseFrame DEF NodeHello, EchoOut
<1>5. CASE ConnStep(i)
  <2>1. \A j \in Targets : EchoOut(j)' => EchoOut(j)
    <3>1. CASE NodeSend(i) BY <3>1 DEF NodeSend, EchoOut
    <3>2. CASE NodeSendErr(i) BY <3>2 DEF NodeSendErr, EchoOut
    <3>3. CASE NodeRecvNcount(i)
      BY <1>0, <1>1, <3>3 DEF NodeRecvNcount, EchoOut
    <3>4. CASE NodeRecvNkeep(i)
      BY <1>0, <1>1, <3>4 DEF NodeRecvNkeep, EchoOut
    <3>5. CASE NodeRecvNil(i) BY <3>5 DEF NodeRecvNil, EchoOut
    <3>6. CASE NodeDone(i) BY <3>6 DEF NodeDone, EchoOut
    <3>7. CASE NodeJoin(i)
      BY <1>0, <3>7, EmptyChannel DEF NodeJoin, CloseNode, EchoOut
    <3> QED BY <1>5, <3>1, <3>2, <3>3, <3>4, <3>5, <3>6, <3>7 DEF ConnStep
  <2>2. UNCHANGED <<tPc, proc>>
    BY <1>5 DEF ConnStep, NodeSend, NodeSendErr, NodeRecvNcount, NodeRecvNkeep,
       NodeRecvNil, NodeDone, NodeJoin
  <2> QED BY <2>1, <2>2, ReleaseFrame
<1>6. CASE TimingStep(i)
  <2>1. \A j \in Targets : EchoOut(j)' => EchoOut(j)
    BY <1>0, <1>6 DEF TimingStep, NcountSend, NcountEcho, NcountAbort, StartOk,
       StartFail, TimingEnd, EchoOut
  <2>2. ASSUME NEW w \in Waiters, tPc'[w] \in {"start", "join"} \/ Started(w)'
        PROVE  Released
    <3>0. w \in Targets
      OBVIOUS
    <3>1. CASE NcountEcho(i) /\ w = i
      BY <3>0, <3>1 DEF NcountEcho, EchoOut, ReleaseInv
    <3>2. CASE StartOk(i) /\ w = i
      BY <3>2 DEF StartOk, ReleaseInv
    <3>3. CASE ~(NcountEcho(i) \/ StartOk(i)) \/ w # i
      <4>1. tPc[w] \in {"start", "join"} \/ Started(w)
        BY <1>0, <1>6, <2>2, <3>0, <3>3 DEF TimingStep, NcountSend, NcountEcho,
           NcountAbort, StartOk, StartFail, TimingEnd, Started
      <4> QED BY <4>1 DEF ReleaseInv
    <3> QED BY <3>1, <3>2, <3>3
  <2>3. ncPc' = "bcast" => Released
    BY DEF ReleaseInv
  <2> QED BY <2>1, <2>2, <2>3 DEF ReleaseInv
<1>7. CASE NkeepWorkerStep(i)
  BY <1>7, ReleaseFrame DEF NkeepWorkerStep, NkeepReply, NkeepEnd, EchoOut
<1>8. CASE ExitStep(i) \/ ProcExit(i) \/ WaitProcess(i)
  <2>1. \A j \in Targets : EchoOut(j)' <=> EchoOut(j)
    BY <1>8 DEF ExitStep, ExitKill, ExitSpinEnd, ProcExit, WaitProcess, EchoOut
  <2>2. tPc' = tPc /\ \A j \in Targets : Started(j)' <=> Started(j)
    BY <1>0, <1>8 DEF ExitStep, ExitKill, ExitSpinEnd, ProcExit, WaitProcess,
       ProcAlive, AfterSigterm, Started
  <2> QED BY <2>1, <2>2 DEF ReleaseInv
<1> QED BY <1>2, <1>3, <1>4, <1>5, <1>6, <1>7, <1>8

\* Every trace of a release means that the barrier was released.
THEOREM ReleaseInvariant == Spec => []ReleaseInv
<1>1. Init => ReleaseInv
  BY EmptyChannel, WaitersAssumption
     DEF Init, WireInit, LcmInit, NodeInit, ReleaseInv, EchoOut, Started
<1>2. TypeOK /\ WorkerInv /\ ReleaseInv /\ [Next]_vars => ReleaseInv'
  <2> SUFFICES ASSUME TypeOK, WorkerInv, ReleaseInv, [Next]_vars PROVE ReleaseInv'
    OBVIOUS
  <2>0. Released => Released'
    BY ReleasedStays
  <2>1. CASE LcmNext /\ UNCHANGED nodeVars
    BY <2>0, <2>1, ReleaseLcmStep
  <2>2. CASE NodeNext /\ UNCHANGED lcmVars
    BY <2>0, <2>2, ReleaseNodeStep
  <2>3. ASSUME NEW i \in Targets, CutLink(i), UNCHANGED <<lcmVars, nodeVars>>
        PROVE  ReleaseInv'
    BY <2>0, <2>3, ReleaseFrame DEF CutLink, lcmVars, nodeVars, EchoOut
  <2>4. CASE UNCHANGED vars
    BY <2>0, <2>4, ReleaseFrame DEF vars, wireVars, lcmVars, nodeVars, EchoOut
  <2> QED BY <2>1, <2>2, <2>3, <2>4 DEF Next
<1> QED BY <1>1, <1>2, TypeCorrect, WorkerInvariant, PTL DEF Spec

\* The barrier counts targets, and is not released to any of them early.
THEOREM BarrierSoundHolds == Spec => []BarrierSound
<1>1. TypeOK /\ CountInv /\ ReleaseInv => BarrierSound
  BY ReleasedMeansAnswered DEF ReleaseInv, CountInv, BarrierSound
<1> QED BY <1>1, TypeCorrect, CountInvariant, ReleaseInvariant, PTL

\* The startup order the README promises: no waiting process before all others.
THEOREM StartupOrderHolds == Spec => []StartupOrder
<1>1. TypeOK /\ AnswerInv /\ CountInv /\ ReleaseInv => StartupOrder
  <2> SUFFICES ASSUME TypeOK, AnswerInv, CountInv, ReleaseInv,
                      NEW w \in Waiters, Started(w),
                      NEW s \in Targets \ Waiters
               PROVE  Started(s)
    BY DEF StartupOrder
  <2>1. Released
    BY DEF ReleaseInv
  <2>2. resp[s]
    BY <2>1, ReleasedMeansAnswered
  <2> QED BY <2>2 DEF AnswerInv
<1> QED BY <1>1, TypeCorrect, AnswerInvariant, CountInvariant,
           ReleaseInvariant, PTL
-----------------------------------------------------------------------------
(* The end of a task *)

\* Nothing a node does reaches the goroutines of the lifecycle manager.
LEMMA EndFrame ==
  ASSUME EndInv, Released => Released',
         UNCHANGED <<registered, mCtx, ncPc, mPc, resp, kPc>>
  PROVE  EndInv'
BY DEF EndInv, EndCancels

\* Every way out of every goroutine of a task leads through a cancellation.
LEMMA EndLcmStep ==
  ASSUME TypeOK, CountInv, ReleaseInv, EndInv, Released => Released', LcmNext
  PROVE  EndInv'
<1> USE DEF EndInv, EndCancels
<1>0. /\ mPc \in [Targets -> {"dial", "magic", "loop", "join", "done"}]
      /\ kPc \in [Targets -> {"off", "send", "wait", "idle", "done"}]
      /\ resp \in [Targets -> BOOLEAN]
      /\ registered \in BOOLEAN /\ mCtx \in BOOLEAN
      /\ connected \in Nat
  BY DEF TypeOK, LcmTypeOK
<1>1. CASE NcountStep
  <2>1. CASE NcCount BY <2>1 DEF NcCount
  <2>2. CASE NcTimeout BY <2>2 DEF NcTimeout
  <2>3. CASE NcDone BY <2>3 DEF NcDone
  <2>4. CASE NcBcast
    <3>1. /\ UNCHANGED <<registered, mCtx, mPc, resp, kPc, connected>>
          /\ ncPc' # "plan"
      BY <2>4 DEF NcBcast
    <3>2. Released
      BY <2>4 DEF NcBcast, ReleaseInv
    <3> QED BY <3>1, <3>2
  <2> QED BY <1>1, <2>1, <2>2, <2>3, <2>4 DEF NcountStep
<1>2. ASSUME NEW i \in Targets, HandlerStep(i)
      PROVE  EndInv'
  <2>1. CASE LcmDial(i) BY <1>0, <2>1 DEF LcmDial
  <2>2. CASE LcmDialFail(i) BY <1>0, <2>2 DEF LcmDialFail
  <2>3. CASE LcmMagic(i) BY <1>0, <2>3 DEF LcmMagic
  <2>4. CASE LcmMagicErr(i) BY <1>0, <2>4 DEF LcmMagicErr
  <2>5. CASE LcmSend(i) BY <2>5 DEF LcmSend
  <2>6. CASE LcmSendErr(i) BY <1>0, <2>6 DEF LcmSendErr
  <2>7. CASE LcmRecvNcount(i) BY <1>0, <2>7 DEF LcmRecvNcount
  <2>8. CASE LcmRecvNkeep(i) BY <2>8 DEF LcmRecvNkeep
  <2>9. CASE LcmRecvNil(i) BY <1>0, <2>9 DEF LcmRecvNil
  <2>10. CASE LcmDone(i) BY <1>0, <2>10 DEF LcmDone
  <2>11. CASE LcmJoin(i) BY <1>0, <2>11 DEF LcmJoin, KeeperEnded
  <2> QED BY <1>2, <2>1, <2>2, <2>3, <2>4, <2>5, <2>6, <2>7, <2>8, <2>9,
             <2>10, <2>11 DEF HandlerStep
<1>3. ASSUME NEW i \in Targets, NkeepStep(i)
      PROVE  EndInv'
  <2>1. CASE KeepSend(i) BY <1>0, <2>1 DEF KeepSend
  <2>2. CASE KeepGot(i) BY <1>0, <2>2 DEF KeepGot
  <2>3. CASE KeepTick(i) BY <1>0, <2>3 DEF KeepTick, SendDue
  <2>4. CASE KeepTimeout(i) BY <1>0, <2>4 DEF KeepTimeout
  <2>5. CASE KeepDone(i) BY <1>0, <2>5 DEF KeepDone
  <2> QED BY <1>3, <2>1, <2>2, <2>3, <2>4, <2>5 DEF NkeepStep
<1>4. CASE DispatchEnd
  <2>1. mCtx
    <3> SUFFICES ASSUME ~mCtx PROVE FALSE
      OBVIOUS
    <3>1. Released
      BY <1>4 DEF DispatchEnd
    <3>2. PICK i \in Targets : resp[i]
      BY <3>1, ReleasedMeansAnswered
    <3>3. kPc[i] = "done"
      BY <1>4, <3>2 DEF DispatchEnd
    <3> QED BY <3>3
  <2> QED BY <1>4, <2>1 DEF DispatchEnd
<1>5. CASE UserStop BY <1>5 DEF UserStop
<1>6. CASE DispatchStart BY <1>6 DEF DispatchStart
<1>7. CASE DispatchReject BY <1>0, <1>7 DEF DispatchReject
<1> QED BY <1>1, <1>2, <1>3, <1>4, <1>5, <1>6, <1>7 DEF LcmNext

\* How the goroutines of a task may have ended.
THEOREM EndInvariant == Spec => []EndInv
<1>1. Init => EndInv
  BY DEF Init, LcmInit, EndInv, EndCancels
<1>2. TypeOK /\ CountInv /\ ReleaseInv /\ EndInv /\ [Next]_vars => EndInv'
  <2> SUFFICES ASSUME TypeOK, CountInv, ReleaseInv, EndInv, [Next]_vars
               PROVE  EndInv'
    OBVIOUS
  <2>0. Released => Released'
    BY ReleasedStays
  <2>1. CASE LcmNext /\ UNCHANGED nodeVars
    BY <2>0, <2>1, EndLcmStep
  <2>2. CASE UNCHANGED lcmVars
    BY <2>0, <2>2, EndFrame DEF lcmVars
  <2> QED BY <2>1, <2>2 DEF Next, vars
<1> QED BY <1>1, <1>2, TypeCorrect, CountInvariant, ReleaseInvariant, PTL DEF Spec

\* dispatchCommToNodes never gives the name back without having cancelled the
\* context its caller waits for.
THEOREM EndCancelsHolds == Spec => []EndCancels
<1>1. EndInv => EndCancels
  BY DEF EndInv
<1> QED BY <1>1, EndInvariant, PTL
-----------------------------------------------------------------------------
(* Refinement *)

\* A process is started by StartOk and by nothing else.
LEMMA StartedChange ==
  ASSUME NodeTypeOK, WorkerInv, NodeNext
  PROVE  \/ \E i \in Targets :
              /\ tPc[i] = "start"
              /\ ~Started(i)
              /\ \A j \in Targets : Started(j)' <=> Started(j) \/ j = i
         \/ \A j \in Targets : Started(j)' <=> Started(j)
<1> USE DEF NodeTypeOK, Started
<1> SUFFICES ASSUME NEW i \in Targets,
                    \/ NodeAccept(i) \/ NodeRefuse(i) \/ NodeHello(i)
                    \/ ConnStep(i) \/ TimingStep(i) \/ NkeepWorkerStep(i)
                    \/ ExitStep(i) \/ ProcExit(i) \/ WaitProcess(i)
             PROVE  \/ /\ tPc[i] = "start"
                       /\ ~Started(i)
                       /\ \A j \in Targets : Started(j)' <=> Started(j) \/ j = i
                    \/ \A j \in Targets : Started(j)' <=> Started(j)
  BY DEF NodeNext
<1>1. CASE NodeAccept(i) \/ NodeRefuse(i) \/ NodeHello(i)
  BY <1>1 DEF NodeAccept, NodeRefuse, NodeHello
<1>2. CASE ConnStep(i)
  BY <1>2 DEF ConnStep, NodeSend, NodeSendErr, NodeRecvNcount, NodeRecvNkeep,
     NodeRecvNil, NodeDone, NodeJoin
<1>3. CASE TimingStep(i)
  <2>1. CASE StartOk(i) BY <2>1 DEF StartOk, WorkerInv
  <2>2. CASE ~StartOk(i)
    BY <1>3, <2>2 DEF TimingStep, NcountSend, NcountEcho, NcountAbort,
       StartFail, TimingEnd
  <2> QED BY <2>1, <2>2
<1>4. CASE NkeepWorkerStep(i)
  BY <1>4 DEF NkeepWorkerStep, NkeepReply, NkeepEnd
<1>5. CASE ExitStep(i) \/ ProcExit(i) \/ WaitProcess(i)
  BY <1>5 DEF ExitStep, ExitKill, ExitSpinEnd, ProcAlive, AfterSigterm,
     ProcExit, WaitProcess
<1> QED BY <1>1, <1>2, <1>3, <1>4, <1>5

\* Contexts are only ever cancelled, and names given back by DispatchEnd.
LEMMA LcmChange ==
  ASSUME LcmTypeOK, LcmNext
  PROVE  \/ DispatchEnd
         \/ NcCount
         \/ /\ UNCHANGED <<registered, connected>>
            /\ mCtx' = TRUE \/ mCtx' = mCtx
BY DEF LcmNext, NcountStep, NcTimeout, NcDone, NcBcast, HandlerStep, LcmDial,
   LcmDialFail, LcmMagic, LcmMagicErr, LcmSend, LcmSendErr, LcmRecvNcount,
   LcmRecvNkeep, LcmRecvNil, LcmDone, LcmJoin, NkeepStep, KeepSend, KeepGot,
   KeepTick, KeepTimeout, KeepDone, DispatchStart, DispatchReject, UserStop

\* Every step of a launch is a step that its contract allows, or none.
LEMMA ContractStep ==
  ASSUME TypeOK, WorkerInv, AnswerInv, CountInv, ReleaseInv, EndInv,
         AnswerInv', CountInv', TypeOK', EndInv', [Next]_vars
  PROVE  Contract!Next \/ UNCHANGED Contract!contractVars
<1> DEFINE S == {i \in Targets : Started(i)}
<1>1. CASE LcmNext /\ UNCHANGED nodeVars
  <2>1. S' = S
    BY <1>1 DEF nodeVars, Started
  <2>2. CASE DispatchEnd
    <3>1. registered /\ registered' = FALSE /\ mCtx' = mCtx /\ Released' = Released
      BY <2>2 DEF DispatchEnd, Released
    <3>2. mCtx
      BY <3>1 DEF EndInv, EndCancels
    <3> QED BY <2>1, <3>1, <3>2 DEF Contract!Next, Contract!End
  <2>3. CASE NcCount
    <3>1. UNCHANGED <<registered, mCtx>>
      BY <2>3 DEF NcCount
    <3>2. CASE Released' = Released
      BY <2>1, <3>1, <3>2 DEF Contract!contractVars
    <3>3. CASE Released' # Released
      <4>1. Released' = TRUE
        BY <3>3, ReleasedStays DEF Released
      <4>2. \A i \in Targets : resp'[i]
        BY <4>1, FullCount DEF TypeOK, LcmTypeOK, CountInv, Released, EnoughWorkers
      <4>3. Targets \ Waiters \subseteq S
        BY <2>1, <4>2 DEF AnswerInv
      <4> QED BY <2>1, <3>1, <4>1, <4>3 DEF Contract!Next, Contract!Release
    <3> QED BY <3>2, <3>3
  <2>4. CASE /\ UNCHANGED <<registered, connected>>
             /\ mCtx' = TRUE \/ mCtx' = mCtx
    <3>1. Released' = Released
      BY <2>4 DEF Released
    <3> QED BY <2>1, <2>4, <3>1
            DEF Contract!Next, Contract!Cancel, Contract!contractVars
  <2> QED BY <1>1, <2>2, <2>3, <2>4, LcmChange DEF TypeOK
<1>2. CASE NodeNext /\ UNCHANGED lcmVars
  <2>1. UNCHANGED <<registered, mCtx>> /\ Released' = Released
    BY <1>2 DEF lcmVars, Released
  <2>2. ASSUME NEW i \in Targets, tPc[i] = "start", ~Started(i),
               \A j \in Targets : Started(j)' <=> Started(j) \/ j = i
        PROVE  Contract!Start(i)
    <3>1. i \notin S /\ S' = S \cup {i}
      BY <2>2
    <3>2. i \in Waiters => Released
      BY <2>2 DEF ReleaseInv
    <3> QED BY <2>1, <3>1, <3>2 DEF Contract!Start
  <2>3. CASE \A j \in Targets : Started(j)' <=> Started(j)
    <3>1. S' = S
      BY <2>3
    <3> QED BY <2>1, <3>1 DEF Contract!contractVars
  <2> QED BY <1>2, <2>2, <2>3, StartedChange DEF TypeOK, Contract!Next
<1>3. CASE UNCHANGED <<lcmVars, nodeVars>>
  <2>1. S' = S /\ UNCHANGED <<registered, mCtx>> /\ Released' = Released
    BY <1>3 DEF lcmVars, nodeVars, Started, Released
  <2> QED BY <2>1 DEF Contract!contractVars
<1> QED BY <1>1, <1>2, <1>3 DEF Next, vars

\* The launch, with all its goroutines, messages and timers, implements the
\* contract of LaunchContract.
THEOREM Refinement == Spec => ContractSpec
<1>1. Init => Contract!Init
  <2> SUFFICES ASSUME Init PROVE Contract!Init
    OBVIOUS
  <2>1. {i \in Targets : Started(i)} = {}
    BY DEF Init, NodeInit, Started
  <2>2. Released = FALSE
    BY DEF Init, LcmInit, Released
  <2> QED BY <2>1, <2>2 DEF Init, LcmInit, Contract!Init
<1> QED BY <1>1, ContractStep, TypeCorrect, WorkerInvariant, AnswerInvariant,
           CountInvariant, ReleaseInvariant, EndInvariant, PTL
           DEF Spec, ContractSpec, Contract!Spec
=============================================================================
