------------------------- MODULE LaunchChannelProofs -------------------------
(***************************************************************************)
(* Theorems about the channels of one launch: whoever sends without a select   *)
(* never finds its channel full, and whoever waits does not wait for a message  *)
(* that was dropped.  A target has one keep-alive and one answer to             *)
(* NcountMaster in circulation, and one release: these are what the channels    *)
(* were made for.                                                            *)
(***************************************************************************)
EXTENDS UclLaunchProofs

\* A channel that holds two kinds of messages, each once, holds two at most.
LEMMA TwoKinds ==
  ASSUME NEW a, NEW b, NEW s \in Seq({a, b}), Once(s, a), Once(s, b)
  PROVE  Len(s) <= 2
<1> SUFFICES ASSUME Len(s) > 2 PROVE FALSE
  OBVIOUS
<1>1. 1 \in 1..Len(s) /\ 2 \in 1..Len(s) /\ 3 \in 1..Len(s)
  OBVIOUS
<1>2. s[1] \in {a, b} /\ s[2] \in {a, b} /\ s[3] \in {a, b}
  BY <1>1
<1>3. s[1] # s[2] \/ s[1] \notin {a, b}
  BY <1>1 DEF Once
<1>4. s[2] # s[3] \/ s[2] \notin {a, b}
  BY <1>1 DEF Once
<1>5. s[1] # s[3] \/ s[1] \notin {a, b}
  BY <1>1 DEF Once
<1> QED BY <1>2, <1>3, <1>4, <1>5

\* What the two channels of the wire, and that of the worker, hold after a send.
LEMMA Sent ==
  ASSUME NEW T, NEW s \in Seq(T), NEW x \in T, NEW m
  PROVE  /\ x # m => (Holds(Append(s, x), m) <=> Holds(s, m))
         /\ x # m /\ Once(s, m) => Once(Append(s, x), m)
         /\ ~Holds(s, m) => Once(Append(s, x), m)
         /\ x = m => Holds(Append(s, x), m)
<1>1. Holds(Append(s, x), m) <=> Holds(s, m) \/ x = m
  BY HoldsAppend
<1>2. Once(s, m) /\ (x = m => ~Holds(s, m)) => Once(Append(s, x), m)
  BY OnceAppend
<1>3. ~Holds(s, m) => Once(s, m)
  BY DEF Holds, Once
<1> QED BY <1>1, <1>2, <1>3

\* Target i is as it was.
Same(i) ==
  /\ sendNode'[i] = sendNode[i]
  /\ toNode'[i] = toNode[i]
  /\ wNCount'[i] = wNCount[i]
  /\ wNKeep'[i] = wNKeep[i]
  /\ sendLcm'[i] = sendLcm[i]
  /\ toLcm'[i] = toLcm[i]
  /\ keepTok'[i] = keepTok[i]
  /\ kPc'[i] = kPc[i]
  /\ mPc'[i] \in {"dial", "magic"} => mPc[i] \in {"dial", "magic"}

ChannelTypes ==
  /\ sendNode \in [Targets -> {"empty", "nkeep", "ncount"}]
  /\ toNode \in [Targets -> Seq(DownMsg)]
  /\ wNCount \in [Targets -> Nat]
  /\ wNKeep \in [Targets -> Nat]
  /\ sendLcm \in [Targets -> Seq({"ncount", "nkeep"})]
  /\ toLcm \in [Targets -> Seq(UpMsg)]
  /\ keepTok \in [Targets -> Nat]
  /\ kPc \in [Targets -> {"off", "send", "wait", "idle", "done"}]
  /\ mPc \in [Targets -> {"dial", "magic", "loop", "join", "done"}]
  /\ bcastTo \in Nat

\* The types the proofs below need.
LEMMA ChannelTypesHold == TypeOK => ChannelTypes
BY DEF TypeOK, WireTypeOK, LcmTypeOK, NodeTypeOK, ChannelTypes

\* Nothing is said of a target that is as it was.
LEMMA SameKeeps ==
  ASSUME NEW i \in Targets, KeepOne(i), EchoOne(i), Same(i),
         ChannelTypes, bcastTo' \in Nat, bcastTo' >= bcastTo
  PROVE  KeepOne(i)' /\ EchoOne(i)'
<1>1. i \in Nat
  BY DEF Targets
<1> QED BY <1>1 DEF KeepOne, EchoOne, EchoOut, Same, ChannelTypes

\* The goroutines of the lifecycle manager pass the keep-alive on, send the next
\* one only when the answer has come, and broadcast the release once.
LEMMA LcmKeepsChannels ==
  ASSUME TypeOK, ChannelInv, LcmNext, UNCHANGED nodeVars
  PROVE  ChannelInv'
<1> USE DEF nodeVars, wireVars
<1> SUFFICES ASSUME NEW i \in Targets
             PROVE  KeepOne(i)' /\ EchoOne(i)'
  BY DEF ChannelInv
<1>1. KeepOne(i) /\ EchoOne(i)
  BY DEF ChannelInv
<1>2. ChannelTypes
  BY ChannelTypesHold
<1>3. i \in Nat /\ bcastTo \in Nat
  BY <1>2 DEF Targets, ChannelTypes
<1>4. CASE NcBcast
  <2>1. /\ sendNode'[i] = sendNode[i] \/ (i = bcastTo /\ sendNode'[i] = "ncount")
        /\ bcastTo' = bcastTo + 1
        /\ UNCHANGED <<toNode, wNCount, wNKeep, sendLcm, toLcm, keepTok, kPc, mPc>>
    BY <1>2, <1>4 DEF NcBcast, ChannelTypes
  <2>2. i = bcastTo => sendNode[i] = "empty" /\ ~EchoOut(i)
    BY <1>1, <1>3, <1>4 DEF NcBcast, EchoOne
  <2>3. CASE sendNode'[i] = sendNode[i]
    BY <1>1, <1>2, <1>3, <2>1, <2>3, SameKeeps DEF Same
  <2>4. CASE i = bcastTo /\ sendNode'[i] = "ncount"
    <3>1. KeepOne(i)'
      BY <1>1, <2>1, <2>2, <2>4 DEF KeepOne
    <3>2. EchoOne(i)'
      BY <1>1, <1>2, <1>3, <2>1, <2>2, <2>4 DEF EchoOne, EchoOut, ChannelTypes
    <3> QED BY <3>1, <3>2
  <2> QED BY <2>1, <2>3, <2>4
<1>5. CASE NcCount \/ NcTimeout \/ NcDone
  <2>1. Same(i) /\ bcastTo' = bcastTo
    BY <1>5 DEF NcCount, NcTimeout, NcDone, Same
  <2> QED BY <1>1, <1>2, <1>3, <2>1, SameKeeps
<1>6. CASE DispatchStart \/ DispatchReject \/ DispatchEnd \/ UserStop
  <2>1. Same(i) /\ bcastTo' = bcastTo
    BY <1>6 DEF DispatchStart, DispatchReject, DispatchEnd, UserStop, Same
  <2> QED BY <1>1, <1>2, <1>3, <2>1, SameKeeps
<1>7. ASSUME NEW j \in Targets, j # i, HandlerStep(j) \/ NkeepStep(j)
      PROVE  KeepOne(i)' /\ EchoOne(i)'
  <2>1. Same(i) /\ bcastTo' = bcastTo
    <3>1. CASE HandlerStep(j)
      BY <1>2, <1>7, <3>1
         DEF HandlerStep, LcmDial, LcmDialFail, LcmMagic, LcmMagicErr, LcmSend,
             LcmSendErr, LcmRecvNcount, LcmRecvNkeep, LcmRecvNil, LcmDone,
             LcmJoin, WriteDown, CloseLcm, Same, ChannelTypes
    <3>2. CASE NkeepStep(j)
      BY <1>2, <1>7, <3>2
         DEF NkeepStep, KeepSend, KeepGot, KeepTick, KeepTimeout, KeepDone,
             Same, ChannelTypes
    <3> QED BY <1>7, <3>1, <3>2
  <2> QED BY <1>1, <1>2, <1>3, <2>1, SameKeeps
<1>8. CASE HandlerStep(i)
  <2>0. /\ toNode[i] \in Seq(DownMsg)
        /\ toLcm[i] \in Seq(UpMsg)
        /\ bcastTo' = bcastTo
    BY <1>2, <1>8
       DEF HandlerStep, LcmDial, LcmDialFail, LcmMagic, LcmMagicErr, LcmSend,
           LcmSendErr, LcmRecvNcount, LcmRecvNkeep, LcmRecvNil, LcmDone,
           LcmJoin, ChannelTypes
  <2> DEFINE Took == /\ toLcm[i] # <<>>
                     /\ toLcm' = [toLcm EXCEPT ![i] = Tail(@)]
  <2>1. Took => /\ toLcm'[i] = Tail(toLcm[i])
                /\ Holds(toLcm'[i], "nkeep") => Holds(toLcm[i], "nkeep")
                /\ Head(toLcm[i]) = "nkeep" =>
                     Holds(toLcm[i], "nkeep") /\ ~Holds(toLcm'[i], "nkeep")
                /\ Once(toLcm'[i], "nkeep")
    BY <1>1, <1>2, <2>0, HoldsTail DEF KeepOne, ChannelTypes
  <2>2. CASE LcmDial(i)
    <3>1. "command" \in DownMsg
      BY DEF DownMsg
    <3>2. toNode'[i] = Append(toNode[i], "command")
      BY <1>2, <2>2 DEF LcmDial, ChannelTypes
    <3>3. /\ Holds(toNode'[i], "nkeep") <=> Holds(toNode[i], "nkeep")
          /\ Holds(toNode'[i], "ncount") <=> Holds(toNode[i], "ncount")
          /\ Once(toNode'[i], "nkeep") /\ Once(toNode'[i], "ncount")
      BY <1>1, <2>0, <3>1, <3>2, Sent DEF KeepOne, EchoOne
    <3> QED BY <1>1, <2>0, <2>2, <3>3 DEF LcmDial, KeepOne, EchoOne, EchoOut
  <2>3. CASE LcmDialFail(i) \/ LcmRecvNil(i) \/ LcmDone(i)
    <3>1. Same(i)
      BY <1>2, <2>3 DEF LcmDialFail, LcmRecvNil, LcmDone, Same, ChannelTypes
    <3> QED BY <1>1, <1>2, <1>3, <2>0, <3>1, SameKeeps
  <2>4. CASE LcmMagic(i)
    <3>1. /\ kPc'[i] = "send" /\ mPc[i] = "magic" /\ mPc'[i] = "loop" /\ Took
          /\ UNCHANGED <<sendNode, keepTok>>
      BY <1>2, <2>4 DEF LcmMagic, ChannelTypes
    <3>2. KeepOne(i)'
      BY <1>1, <2>0, <2>1, <2>4, <3>1 DEF LcmMagic, KeepOne
    <3>3. EchoOne(i)'
      BY <1>1, <2>0, <2>4 DEF LcmMagic, EchoOne, EchoOut
    <3> QED BY <3>2, <3>3
  <2>5. CASE LcmMagicErr(i)
    <3>1. toLcm'[i] = <<>> /\ mPc'[i] = "done"
      BY <1>2, <2>5 DEF LcmMagicErr, CloseLcm, ChannelTypes
    <3> QED BY <1>1, <2>0, <2>5, <3>1, EmptyChannel
               DEF LcmMagicErr, KeepOne, EchoOne, EchoOut
  <2>6. CASE LcmSend(i)
    <3>0. /\ sendNode'[i] = "empty"
          /\ sendNode[i] \in {"nkeep", "ncount"} /\ sendNode[i] \in DownMsg
          /\ \/ toNode'[i] = toNode[i]
             \/ toNode'[i] = Append(toNode[i], sendNode[i])
          /\ UNCHANGED <<wNCount, wNKeep, sendLcm, toLcm, keepTok, kPc, mPc>>
      BY <1>2, <2>6 DEF LcmSend, WriteDown, ChannelTypes, DownMsg
    <3>1. CASE toNode'[i] = toNode[i]
      BY <1>1, <2>0, <3>0, <3>1 DEF KeepOne, EchoOne, EchoOut
    <3>2. CASE toNode'[i] = Append(toNode[i], sendNode[i])
      <4>1. CASE sendNode[i] = "nkeep"
        <5>1. /\ Once(toNode'[i], "nkeep")
              /\ Holds(toNode'[i], "ncount") <=> Holds(toNode[i], "ncount")
              /\ Once(toNode'[i], "ncount")
          BY <1>1, <2>0, <3>0, <3>2, <4>1, Sent DEF KeepOne, EchoOne
        <5> QED BY <1>1, <2>0, <3>0, <4>1, <5>1 DEF KeepOne, EchoOne, EchoOut
      <4>2. CASE sendNode[i] = "ncount"
        <5>1. /\ Once(toNode'[i], "ncount")
              /\ Holds(toNode'[i], "nkeep") <=> Holds(toNode[i], "nkeep")
              /\ Once(toNode'[i], "nkeep")
          BY <1>1, <2>0, <3>0, <3>2, <4>2, Sent DEF KeepOne, EchoOne
        <5> QED BY <1>1, <2>0, <3>0, <4>2, <5>1 DEF KeepOne, EchoOne, EchoOut
      <4> QED BY <3>0, <4>1, <4>2
    <3> QED BY <3>0, <3>1, <3>2
  <2>7. CASE LcmSendErr(i)
    <3>1. sendNode'[i] = "empty" /\ mPc'[i] = "join"
      BY <1>2, <2>7 DEF LcmSendErr, ChannelTypes
    <3> QED BY <1>1, <2>0, <2>7, <3>1 DEF LcmSendErr, KeepOne, EchoOne, EchoOut
  <2>8. CASE LcmRecvNcount(i)
    <3>1. Took /\ UNCHANGED <<sendNode, keepTok, kPc, mPc>>
      BY <2>8 DEF LcmRecvNcount
    <3> QED BY <1>1, <2>0, <2>1, <2>8, <3>1
               DEF LcmRecvNcount, KeepOne, EchoOne, EchoOut
  <2>9. CASE LcmRecvNkeep(i)
    <3>1. /\ Took /\ Head(toLcm[i]) = "nkeep"
          /\ keepTok'[i] = keepTok[i] + 1 /\ keepTok[i] \in Nat
          /\ UNCHANGED <<sendNode, kPc, mPc>>
      BY <1>2, <2>9 DEF LcmRecvNkeep, ChannelTypes
    <3>2. keepTok[i] = 0 /\ keepTok'[i] = 1
      BY <1>1, <2>1, <3>1 DEF KeepOne
    <3> QED BY <1>1, <2>0, <2>1, <2>9, <3>1, <3>2
               DEF LcmRecvNkeep, KeepOne, EchoOne, EchoOut
  <2>10. CASE LcmJoin(i)
    <3>1. toLcm'[i] = <<>> /\ mPc'[i] = "done" /\ keepTok'[i] = 0
      BY <1>2, <2>10 DEF LcmJoin, CloseLcm, ChannelTypes
    <3> QED BY <1>1, <2>0, <2>10, <3>1, EmptyChannel
               DEF LcmJoin, KeepOne, EchoOne, EchoOut
  <2> QED BY <1>8, <2>2, <2>3, <2>4, <2>5, <2>6, <2>7, <2>8, <2>9, <2>10
          DEF HandlerStep
<1>9. CASE NkeepStep(i)
  <2>0. /\ kPc[i] \in {"off", "send", "wait", "idle", "done"}
        /\ keepTok[i] \in Nat
        /\ UNCHANGED <<mPc, toNode, wNCount, wNKeep, sendLcm, toLcm, bcastTo>>
    BY <1>2, <1>9 DEF NkeepStep, KeepSend, KeepGot, KeepTick, KeepTimeout,
                      KeepDone, ChannelTypes
  <2>1. CASE KeepSend(i)
    <3>1. kPc[i] = "send" /\ kPc'[i] = "wait" /\ sendNode'[i] = "nkeep"
      BY <1>2, <2>1 DEF KeepSend, ChannelTypes
    <3> QED BY <1>1, <2>0, <2>1, <3>1 DEF KeepSend, KeepOne, EchoOne, EchoOut
  <2>2. CASE KeepGot(i)
    <3>1. kPc'[i] = "idle" /\ keepTok[i] = 1 /\ keepTok'[i] = 0
          /\ kPc[i] # "off"
      BY <1>1, <1>2, <2>0, <2>2 DEF KeepGot, ChannelTypes, KeepOne
    <3> QED BY <1>1, <2>0, <2>2, <3>1 DEF KeepGot, KeepOne, EchoOne, EchoOut
  <2>3. CASE KeepTick(i)
    <3>1. kPc[i] = "idle" /\ kPc'[i] = "send"
      BY <1>2, <2>3 DEF KeepTick, SendDue, ChannelTypes
    <3> QED BY <1>1, <2>0, <2>3, <3>1 DEF KeepTick, KeepOne, EchoOne, EchoOut
  <2>4. CASE KeepTimeout(i) \/ KeepDone(i)
    <3>1. kPc[i] # "off" /\ kPc'[i] = "done" /\ UNCHANGED <<sendNode, keepTok>>
      BY <1>2, <2>4 DEF KeepTimeout, KeepDone, ChannelTypes
    <3> QED BY <1>1, <2>0, <3>1 DEF KeepOne, EchoOne, EchoOut
  <2> QED BY <1>9, <2>1, <2>2, <2>3, <2>4 DEF NkeepStep
<1> QED BY <1>4, <1>5, <1>6, <1>7, <1>8, <1>9 DEF LcmNext, NcountStep

\* The goroutines of a node pass the keep-alive and the release on.
LEMMA NodeKeepsChannels ==
  ASSUME TypeOK, ChannelInv, NodeNext, UNCHANGED lcmVars
  PROVE  ChannelInv'
<1> USE DEF lcmVars, wireVars
<1> SUFFICES ASSUME NEW i \in Targets
             PROVE  KeepOne(i)' /\ EchoOne(i)'
  BY DEF ChannelInv
<1>1. KeepOne(i) /\ EchoOne(i)
  BY DEF ChannelInv
<1>2. ChannelTypes
  BY ChannelTypesHold
<1>3. i \in Nat /\ bcastTo \in Nat
  BY <1>2 DEF Targets, ChannelTypes
<1>4. PICK j \in Targets :
        \/ NodeAccept(j) \/ NodeRefuse(j) \/ NodeHello(j)
        \/ ConnStep(j) \/ TimingStep(j) \/ NkeepWorkerStep(j)
        \/ ExitStep(j) \/ ProcExit(j) \/ WaitProcess(j)
  BY DEF NodeNext
<1>5. CASE TimingStep(j) /\ ~NcountSend(j) /\ ~NcountEcho(j)
  <2>1. Same(i)
    BY <1>5 DEF TimingStep, NcountAbort, StartOk, StartFail, TimingEnd, Same
  <2> QED BY <1>1, <1>2, <1>3, <2>1, SameKeeps
<1>6. CASE ExitStep(j) \/ ProcExit(j) \/ WaitProcess(j) \/ NkeepEnd(j)
  <2>1. Same(i)
    BY <1>6 DEF ExitStep, ExitKill, ExitSpinEnd, ProcExit, WaitProcess,
                NkeepEnd, Same
  <2> QED BY <1>1, <1>2, <1>3, <2>1, SameKeeps
<1>7. CASE j # i
  <2>1. CASE NodeAccept(j) \/ NodeRefuse(j) \/ NodeHello(j)
    <3>1. Same(i)
      BY <1>2, <1>7, <2>1
         DEF NodeAccept, NodeRefuse, NodeHello, WriteUp, Same, ChannelTypes
    <3> QED BY <1>1, <1>2, <1>3, <3>1, SameKeeps
  <2>2. CASE ConnStep(j)
    <3>1. Same(i)
      BY <1>2, <1>7, <2>2
         DEF ConnStep, NodeSend, NodeSendErr, NodeRecvNcount, NodeRecvNkeep,
             NodeRecvNil, NodeDone, NodeJoin, CloseNode, WriteUp, Same,
             ChannelTypes
    <3> QED BY <1>1, <1>2, <1>3, <3>1, SameKeeps
  <2>3. CASE NcountSend(j) \/ NcountEcho(j) \/ NkeepReply(j)
    <3>1. Same(i)
      BY <1>2, <1>7, <2>3
         DEF NcountSend, NcountEcho, NkeepReply, Same, ChannelTypes
    <3> QED BY <1>1, <1>2, <1>3, <3>1, SameKeeps
  <2> QED BY <1>4, <1>5, <1>6, <2>1, <2>2, <2>3 DEF NkeepWorkerStep
<1>8. CASE j = i
  <2> DEFINE Took == /\ toNode[i] # <<>>
                     /\ toNode' = [toNode EXCEPT ![i] = Tail(@)]
  <2>0. /\ toNode[i] \in Seq(DownMsg)
        /\ toLcm[i] \in Seq(UpMsg)
        /\ sendLcm[i] \in Seq({"ncount", "nkeep"})
        /\ wNCount[i] \in Nat /\ wNKeep[i] \in Nat
    BY <1>2 DEF ChannelTypes
  <2>1. ASSUME Took, NEW m \in {"nkeep", "ncount"}
        PROVE  /\ Holds(toNode'[i], m) => Holds(toNode[i], m)
               /\ Head(toNode[i]) = m => Holds(toNode[i], m)
               /\ Once(toNode'[i], m)
               /\ Head(toNode[i]) = m => ~Holds(toNode'[i], m)
    <3>1. toNode'[i] = Tail(toNode[i]) /\ Once(toNode[i], m)
      BY <1>1, <1>2, <2>1 DEF KeepOne, EchoOne, ChannelTypes
    <3> QED BY <2>0, <2>1, <3>1, HoldsTail
  <2>2. CASE NodeAccept(i) \/ NodeRefuse(i)
    <3>1. /\ Took
          /\ UNCHANGED <<sendLcm, wNCount, wNKeep, toLcm>>
      BY <2>2 DEF NodeAccept, NodeRefuse
    <3> QED BY <1>1, <2>1, <3>1 DEF KeepOne, EchoOne, EchoOut
  <2>3. CASE NodeHello(i)
    <3>1. /\ toLcm'[i] \in {toLcm[i], Append(toLcm[i], "magic")}
          /\ UNCHANGED <<toNode, sendLcm, wNCount, wNKeep>>
      BY <1>2, <2>3 DEF NodeHello, WriteUp, ChannelTypes
    <3>2. /\ Holds(toLcm'[i], "nkeep") <=> Holds(toLcm[i], "nkeep")
          /\ Once(toLcm'[i], "nkeep")
      <4>1. "magic" \in UpMsg
        BY DEF UpMsg
      <4>2. CASE toLcm'[i] = toLcm[i]
        BY <1>1, <4>2 DEF KeepOne
      <4>3. CASE toLcm'[i] = Append(toLcm[i], "magic")
        BY <1>1, <2>0, <4>1, <4>3, Sent DEF KeepOne
      <4> QED BY <3>1, <4>2, <4>3
    <3> QED BY <1>1, <3>1, <3>2 DEF KeepOne, EchoOne, EchoOut
  <2>4. CASE NodeSend(i)
    <3>1. /\ sendLcm[i] # <<>> /\ sendLcm'[i] = Tail(sendLcm[i])
          /\ toLcm'[i] \in {toLcm[i], Append(toLcm[i], Head(sendLcm[i]))}
          /\ UNCHANGED <<toNode, wNCount, wNKeep>>
      BY <1>2, <2>4 DEF NodeSend, WriteUp, ChannelTypes
    <3>2. /\ Holds(sendLcm'[i], "nkeep") => Holds(sendLcm[i], "nkeep")
          /\ Head(sendLcm[i]) = "nkeep" =>
               Holds(sendLcm[i], "nkeep") /\ ~Holds(sendLcm'[i], "nkeep")
          /\ Once(sendLcm'[i], "nkeep")
      BY <1>1, <2>0, <3>1, HoldsTail DEF KeepOne
    <3>3. Head(sendLcm[i]) \in {"ncount", "nkeep"} /\ Head(sendLcm[i]) \in UpMsg
      BY <2>0, <3>1 DEF UpMsg
    <3>4. CASE toLcm'[i] = toLcm[i]
      BY <1>1, <3>1, <3>2, <3>4 DEF KeepOne, EchoOne, EchoOut
    <3>5. CASE /\ toLcm'[i] = Append(toLcm[i], Head(sendLcm[i]))
               /\ Head(sendLcm[i]) = "ncount"
      <4>1. /\ Holds(toLcm'[i], "nkeep") <=> Holds(toLcm[i], "nkeep")
            /\ Once(toLcm'[i], "nkeep")
        BY <1>1, <2>0, <3>3, <3>5, Sent DEF KeepOne
      <4> QED BY <1>1, <3>1, <3>2, <4>1 DEF KeepOne, EchoOne, EchoOut
    <3>6. CASE /\ toLcm'[i] = Append(toLcm[i], Head(sendLcm[i]))
               /\ Head(sendLcm[i]) = "nkeep"
      <4>1. ~Holds(toLcm[i], "nkeep")
        BY <1>1, <3>2, <3>6 DEF KeepOne
      <4>2. Once(toLcm'[i], "nkeep")
        BY <2>0, <3>3, <3>6, <4>1, Sent
      <4> QED BY <1>1, <3>1, <3>2, <3>6, <4>2 DEF KeepOne, EchoOne, EchoOut
    <3> QED BY <3>1, <3>3, <3>4, <3>5, <3>6
  <2>5. CASE NodeSendErr(i)
    <3>1. /\ sendLcm[i] # <<>> /\ sendLcm'[i] = Tail(sendLcm[i])
          /\ UNCHANGED <<toNode, toLcm, wNCount, wNKeep>>
      BY <1>2, <2>5 DEF NodeSendErr, ChannelTypes
    <3>2. /\ Holds(sendLcm'[i], "nkeep") => Holds(sendLcm[i], "nkeep")
          /\ Once(sendLcm'[i], "nkeep")
      BY <1>1, <2>0, <3>1, HoldsTail DEF KeepOne
    <3> QED BY <1>1, <3>1, <3>2 DEF KeepOne, EchoOne, EchoOut
  <2>6. CASE NodeRecvNcount(i)
    <3>1. /\ Took /\ Head(toNode[i]) = "ncount"
          /\ wNCount'[i] = wNCount[i] + 1
          /\ UNCHANGED <<sendLcm, toLcm, wNKeep>>
      BY <1>2, <2>6 DEF NodeRecvNcount, ChannelTypes
    <3>2. wNCount[i] = 0 /\ wNCount'[i] = 1
      BY <1>1, <2>1, <3>1 DEF EchoOne
    <3>3. KeepOne(i)'
      BY <1>1, <2>1, <3>1 DEF KeepOne
    <3>4. EchoOne(i)'
      BY <1>1, <2>1, <3>1, <3>2 DEF EchoOne, EchoOut
    <3> QED BY <3>3, <3>4
  <2>7. CASE NodeRecvNkeep(i)
    <3>1. /\ Took /\ Head(toNode[i]) = "nkeep"
          /\ wNKeep'[i] = wNKeep[i] + 1
          /\ UNCHANGED <<sendLcm, toLcm, wNCount>>
      BY <1>2, <2>7 DEF NodeRecvNkeep, ChannelTypes
    <3>2. wNKeep[i] = 0 /\ wNKeep'[i] = 1
      BY <1>1, <2>0, <2>1, <3>1 DEF KeepOne
    <3>3. KeepOne(i)'
      BY <1>1, <2>1, <3>1, <3>2 DEF KeepOne
    <3>4. EchoOne(i)'
      BY <1>1, <2>1, <3>1 DEF EchoOne, EchoOut
    <3> QED BY <3>3, <3>4
  <2>8. CASE NodeRecvNil(i) \/ NodeDone(i)
    <3>1. Same(i)
      BY <2>8 DEF NodeRecvNil, NodeDone, Same
    <3> QED BY <1>1, <1>2, <1>3, <3>1, SameKeeps
  <2>9. CASE NodeJoin(i)
    <3>1. /\ toNode'[i] = <<>> /\ sendLcm'[i] = <<>>
          /\ wNCount'[i] = 0 /\ wNKeep'[i] = 0
          /\ UNCHANGED toLcm
      BY <1>2, <2>9 DEF NodeJoin, CloseNode, ChannelTypes
    <3> QED BY <1>1, <3>1, EmptyChannel DEF KeepOne, EchoOne, EchoOut
  <2>10. CASE NcountSend(i)
    <3>1. /\ sendLcm'[i] = Append(sendLcm[i], "ncount")
          /\ UNCHANGED <<toNode, toLcm, wNCount, wNKeep>>
      BY <1>2, <2>10 DEF NcountSend, ChannelTypes
    <3>2. Once(sendLcm[i], "nkeep")
      BY <1>1 DEF KeepOne
    <3>3. /\ Holds(Append(sendLcm[i], "ncount"), "nkeep")
               <=> Holds(sendLcm[i], "nkeep")
          /\ Once(Append(sendLcm[i], "ncount"), "nkeep")
      <4>1. "ncount" \in {"ncount", "nkeep"} /\ "ncount" # "nkeep"
        OBVIOUS
      <4> QED BY ONLY <2>0, <3>2, <4>1, Sent
    <3> QED BY <1>1, <3>1, <3>3 DEF KeepOne, EchoOne, EchoOut
  <2>11. CASE NcountEcho(i)
    <3>1. /\ wNCount[i] = 1 /\ wNCount'[i] = 0
          /\ UNCHANGED <<toNode, toLcm, sendLcm, wNKeep>>
      BY <1>1, <1>2, <2>0, <2>11 DEF NcountEcho, ChannelTypes, EchoOne
    <3> QED BY <1>1, <3>1 DEF KeepOne, EchoOne, EchoOut
  <2>12. CASE NkeepReply(i)
    <3>1. /\ wNKeep[i] = 1 /\ wNKeep'[i] = 0
          /\ sendLcm'[i] = Append(sendLcm[i], "nkeep")
          /\ UNCHANGED <<toNode, toLcm, wNCount>>
      BY <1>1, <1>2, <2>0, <2>12 DEF NkeepReply, ChannelTypes, KeepOne
    <3>2. ~Holds(sendLcm[i], "nkeep")
      BY <1>1, <3>1 DEF KeepOne
    <3>3. Once(sendLcm'[i], "nkeep")
      BY <2>0, <3>1, <3>2, Sent
    <3> QED BY <1>1, <3>1, <3>3 DEF KeepOne, EchoOne, EchoOut
  <2> QED BY <1>4, <1>5, <1>6, <1>8, <2>2, <2>3, <2>4, <2>5, <2>6, <2>7, <2>8,
             <2>9, <2>10, <2>11, <2>12 DEF ConnStep, NkeepWorkerStep
<1> QED BY <1>7, <1>8

\* What circulates between the two sides of a launch.
THEOREM ChannelInvariant == Spec => []ChannelInv
<1>1. Init => ChannelInv
  <2> SUFFICES ASSUME Init, NEW i \in Targets PROVE KeepOne(i) /\ EchoOne(i)
    BY DEF ChannelInv
  <2> QED BY EmptyChannel
             DEF Init, WireInit, LcmInit, NodeInit, KeepOne, EchoOne, EchoOut
<1>2. TypeOK /\ ChannelInv /\ [Next]_vars => ChannelInv'
  <2> SUFFICES ASSUME TypeOK, ChannelInv, [Next]_vars PROVE ChannelInv'
    OBVIOUS
  <2>1. CASE LcmNext /\ UNCHANGED nodeVars
    BY <2>1, LcmKeepsChannels
  <2>2. CASE NodeNext /\ UNCHANGED lcmVars
    BY <2>2, NodeKeepsChannels
  <2>3. CASE /\ UNCHANGED <<lcmVars, nodeVars>>
             /\ UNCHANGED <<toNode, toLcm>>
    BY <2>3 DEF lcmVars, nodeVars, ChannelInv, KeepOne, EchoOne, EchoOut
  <2> QED BY <2>1, <2>2, <2>3 DEF Next, CutLink, vars, wireVars
<1> QED BY <1>1, <1>2, TypeCorrect, PTL DEF Spec

\* A send without a select never blocks: handleNodeConnection, handleConnection,
\* ncountWorker and NkeepWorker find room in the channels they were given.
THEOREM NoOverflowHolds == Spec => []NoOverflow
<1>1. TypeOK /\ AnswerInv /\ CountInv /\ ChannelInv => NoOverflow
  <2> SUFFICES ASSUME TypeOK, AnswerInv, CountInv, ChannelInv PROVE NoOverflow
    OBVIOUS
  <2>1. ncTok <= N
    <3>1. Cardinality({i \in Targets : resp[i]}) <= N
      BY AnsweredFinite
    <3>2. connected \in Nat /\ ncTok \in Nat
      BY DEF TypeOK, LcmTypeOK
    <3> QED BY <3>1, <3>2, NAssumption DEF CountInv
  <2>2. ASSUME NEW i \in Targets
        PROVE  /\ keepTok[i] <= 1 /\ wNCount[i] <= 1 /\ wNKeep[i] <= 1
               /\ Len(sendLcm[i]) <= 2
    <3>1. KeepOne(i) /\ EchoOne(i) /\ Once(sendLcm[i], "ncount")
      BY DEF ChannelInv, AnswerInv
    <3>2. sendLcm[i] \in Seq({"ncount", "nkeep"})
      BY DEF TypeOK, NodeTypeOK
    <3>3. Once(sendLcm[i], "nkeep")
      BY <3>1 DEF KeepOne
    <3>4. Len(sendLcm[i]) <= 2
      BY <3>1, <3>2, <3>3, TwoKinds
    <3> QED BY <3>1, <3>4 DEF KeepOne, EchoOne
  <2> QED BY <2>1, <2>2 DEF NoOverflow
<1> QED BY <1>1, TypeCorrect, AnswerInvariant, CountInvariant, ChannelInvariant,
           PTL

-----------------------------------------------------------------------------
(* Nothing is lost *)

\* Nothing new is waited for at target i, which is as it was.
SameAwaited(i) ==
  /\ sendNode'[i] = sendNode[i]
  /\ toNode'[i] = toNode[i]
  /\ wNCount'[i] = wNCount[i]
  /\ wNKeep'[i] = wNKeep[i]
  /\ sendLcm'[i] = sendLcm[i]
  /\ toLcm'[i] = toLcm[i]
  /\ keepTok'[i] = keepTok[i]
  /\ resp'[i] = resp[i]
  /\ kPc'[i] = "wait" => kPc[i] = "wait"
  /\ tPc'[i] = "echo" => tPc[i] = "echo"

LEMMA SameAwaitedKeeps ==
  ASSUME NEW i, Awaited(i), SameAwaited(i), i < bcastTo' => i < bcastTo
  PROVE  Awaited(i)'
BY DEF Awaited, SameAwaited, KeepOut, AnswerOut, EchoOut

\* While both programs talk, both ends of the connection are there.
LEMMA TalkingConnected ==
  ASSUME WorkerInv, ConveyInv, NEW i \in Targets, Talking(i)
  PROVE  ~NodeGone(i) /\ ~LcmGone(i)
BY DEF WorkerInv, ConveyInv, Talking, NodeGone, LcmGone

\* Who has given up, or closed his end, does not come back.
LEMMA TalkingBefore ==
  ASSUME TypeOK, [Next]_vars, NEW i \in Targets, Talking(i)'
  PROVE  Talking(i)
<1> DEFINE Ended == {"join", "done"}
<1>1. /\ cut \in [Targets -> BOOLEAN]
      /\ mPc \in [Targets -> {"dial", "magic", "loop", "join", "done"}]
      /\ wPc \in [Targets -> {"off", "loop", "join", "done"}]
  BY DEF TypeOK, WireTypeOK, LcmTypeOK, NodeTypeOK
<1>2. CASE LcmNext /\ UNCHANGED nodeVars
  <2>1. wPc' = wPc /\ cut' = cut
    BY <1>2 DEF nodeVars, LcmNext, NcountStep, NcCount, NcTimeout, NcDone, NcBcast,
       HandlerStep, LcmDial, LcmDialFail, LcmMagic, LcmMagicErr, LcmSend, LcmSendErr,
       LcmRecvNcount, LcmRecvNkeep, LcmRecvNil, LcmDone, LcmJoin, NkeepStep, KeepSend,
       KeepGot, KeepTick, KeepTimeout, KeepDone, DispatchStart, DispatchReject,
       DispatchEnd, UserStop, wireVars
  <2>2. mPc[i] \in Ended => mPc'[i] \in Ended
    BY <1>1, <1>2 DEF LcmNext, NcountStep, NcCount, NcTimeout, NcDone, NcBcast,
       HandlerStep, LcmDial, LcmDialFail, LcmMagic, LcmMagicErr, LcmSend, LcmSendErr,
       LcmRecvNcount, LcmRecvNkeep, LcmRecvNil, LcmDone, LcmJoin, NkeepStep, KeepSend,
       KeepGot, KeepTick, KeepTimeout, KeepDone, DispatchStart, DispatchReject,
       DispatchEnd, UserStop
  <2> QED BY <2>1, <2>2 DEF Talking
<1>3. CASE NodeNext /\ UNCHANGED lcmVars
  <2>1. mPc' = mPc /\ cut' = cut
    BY <1>3 DEF lcmVars, NodeNext, NodeAccept, NodeRefuse, NodeHello, ConnStep,
       NodeSend, NodeSendErr, NodeRecvNcount, NodeRecvNkeep, NodeRecvNil, NodeDone,
       NodeJoin, TimingStep, NcountSend, NcountEcho, NcountAbort, StartOk, StartFail,
       TimingEnd, NkeepWorkerStep, NkeepReply, NkeepEnd, ExitStep, ExitKill,
       ExitSpinEnd, ProcExit, WaitProcess, wireVars
  <2>2. wPc[i] \in Ended => wPc'[i] \in Ended
    BY <1>1, <1>3 DEF NodeNext, NodeAccept, NodeRefuse, NodeHello, ConnStep,
       NodeSend, NodeSendErr, NodeRecvNcount, NodeRecvNkeep, NodeRecvNil, NodeDone,
       NodeJoin, TimingStep, NcountSend, NcountEcho, NcountAbort, StartOk, StartFail,
       TimingEnd, NkeepWorkerStep, NkeepReply, NkeepEnd, ExitStep, ExitKill,
       ExitSpinEnd, ProcExit, WaitProcess
  <2> QED BY <2>1, <2>2 DEF Talking
<1>4. CASE /\ UNCHANGED <<lcmVars, nodeVars>>
           /\ cut' = cut \/ \E j \in Targets : cut' = [cut EXCEPT ![j] = TRUE]
  BY <1>1, <1>4 DEF Talking, lcmVars, nodeVars
<1> QED BY <1>2, <1>3, <1>4 DEF Next, CutLink, vars, wireVars

\* The goroutines of the lifecycle manager hand on what they take.
LEMMA LcmConveys ==
  ASSUME TypeOK, WorkerInv, ReleaseInv, ConveyInv, LcmNext, UNCHANGED nodeVars,
         NEW i \in Targets, Talking(i), Talking(i)'
  PROVE  Awaited(i)'
<1> USE DEF nodeVars, wireVars
<1>1. Awaited(i) /\ ~NodeGone(i) /\ ~LcmGone(i)
  BY TalkingConnected DEF ConveyInv, NothingLost
<1>2. ChannelTypes
  BY ChannelTypesHold
<1>3. i \in Nat /\ bcastTo \in Nat /\ resp \in [Targets -> BOOLEAN]
  BY <1>2 DEF Targets, ChannelTypes, TypeOK, LcmTypeOK
<1>4. CASE NcBcast
  <2>1. /\ bcastTo' = bcastTo + 1
        /\ UNCHANGED <<toNode, wNCount, wNKeep, sendLcm, toLcm, keepTok, kPc,
                       resp, tPc>>
    BY <1>4 DEF NcBcast
  <2>2. CASE i = bcastTo
    <3>1. sendNode[i] = "empty" /\ sendNode'[i] = "ncount"
      BY <1>2, <1>4, <2>2 DEF NcBcast, ChannelTypes
    <3> QED BY <1>1, <2>1, <3>1 DEF Awaited, KeepOut, AnswerOut, EchoOut
  <2>3. CASE i # bcastTo
    <3>1. sendNode'[i] = sendNode[i]
      BY <1>2, <1>4, <2>3 DEF NcBcast, ChannelTypes
    <3> QED BY <1>1, <1>3, <2>1, <2>3, <3>1, SameAwaitedKeeps DEF SameAwaited
  <2> QED BY <2>2, <2>3
<1>5. CASE \/ NcCount \/ NcTimeout \/ NcDone
           \/ DispatchStart \/ DispatchReject \/ DispatchEnd \/ UserStop
  <2>1. SameAwaited(i) /\ bcastTo' = bcastTo
    BY <1>5 DEF NcCount, NcTimeout, NcDone, DispatchStart, DispatchReject,
                DispatchEnd, UserStop, SameAwaited
  <2> QED BY <1>1, <2>1, SameAwaitedKeeps
<1>6. ASSUME NEW j \in Targets, j # i, HandlerStep(j) \/ NkeepStep(j)
      PROVE  Awaited(i)'
  <2>1. SameAwaited(i) /\ bcastTo' = bcastTo
    <3>1. CASE HandlerStep(j)
      BY <1>2, <1>3, <1>6, <3>1
         DEF HandlerStep, LcmDial, LcmDialFail, LcmMagic, LcmMagicErr, LcmSend,
             LcmSendErr, LcmRecvNcount, LcmRecvNkeep, LcmRecvNil, LcmDone,
             LcmJoin, WriteDown, CloseLcm, SameAwaited, ChannelTypes
    <3>2. CASE NkeepStep(j)
      BY <1>2, <1>6, <3>2
         DEF NkeepStep, KeepSend, KeepGot, KeepTick, KeepTimeout, KeepDone,
             SameAwaited, ChannelTypes
    <3> QED BY <1>6, <3>1, <3>2
  <2> QED BY <1>1, <2>1, SameAwaitedKeeps
<1>7. CASE HandlerStep(i)
  <2>0. /\ toNode[i] \in Seq(DownMsg)
        /\ toLcm[i] \in Seq(UpMsg)
        /\ keepTok[i] \in Nat
        /\ bcastTo' = bcastTo
        /\ UNCHANGED <<wNCount, wNKeep, sendLcm, tPc>>
    BY <1>2, <1>7
       DEF HandlerStep, LcmDial, LcmDialFail, LcmMagic, LcmMagicErr, LcmSend,
           LcmSendErr, LcmRecvNcount, LcmRecvNkeep, LcmRecvNil, LcmDone,
           LcmJoin, ChannelTypes
  <2>1. CASE LcmDialFail(i) \/ LcmMagicErr(i) \/ LcmSendErr(i) \/ LcmRecvNil(i)
             \/ LcmDone(i) \/ LcmJoin(i)
    <3>1. mPc'[i] \in {"join", "done"}
      BY <1>2, <2>1 DEF LcmDialFail, LcmMagicErr, LcmSendErr, LcmRecvNil, LcmDone,
                        LcmJoin, ChannelTypes
    <3> QED BY <3>1 DEF Talking
  <2>2. ASSUME NEW m, toLcm[i] # <<>>, toLcm'[i] = Tail(toLcm[i]), Head(toLcm[i]) # m
        PROVE  Holds(toLcm[i], m) => Holds(toLcm'[i], m)
    BY <2>0, <2>2, HoldsTail
  <2>3. CASE LcmDial(i)
    <3>1. toNode'[i] = Append(toNode[i], "command") /\ "command" \in DownMsg
      BY <1>2, <2>3 DEF LcmDial, ChannelTypes, DownMsg
    <3>2. \A m : Holds(toNode[i], m) => Holds(toNode'[i], m)
      BY <2>0, <3>1, HoldsAppend
    <3> QED BY <1>1, <2>0, <2>3, <3>2
               DEF LcmDial, Awaited, KeepOut, AnswerOut, EchoOut
  <2>4. CASE LcmMagic(i)
    <3>1. /\ kPc'[i] = "send"
          /\ toLcm[i] # <<>> /\ toLcm'[i] = Tail(toLcm[i]) /\ Head(toLcm[i]) = "magic"
          /\ UNCHANGED <<sendNode, toNode, resp>>
      BY <1>2, <2>4 DEF LcmMagic, ChannelTypes
    <3>2. Holds(toLcm[i], "ncount") => Holds(toLcm'[i], "ncount")
      BY <2>2, <3>1
    <3> QED BY <1>1, <2>0, <3>1, <3>2 DEF Awaited, AnswerOut, EchoOut
  <2>5. CASE LcmSend(i)
    <3>1. /\ toNode'[i] = Append(toNode[i], sendNode[i])
          /\ sendNode[i] \in DownMsg
          /\ UNCHANGED <<toLcm, keepTok, kPc, resp>>
      BY <1>1, <1>2, <2>5 DEF LcmSend, WriteDown, ChannelTypes, DownMsg
    <3>2. \A m : Holds(toNode'[i], m) <=> Holds(toNode[i], m) \/ sendNode[i] = m
      BY <2>0, <3>1, HoldsAppend
    <3> QED BY <1>1, <2>0, <3>1, <3>2 DEF Awaited, KeepOut, AnswerOut, EchoOut
  <2>6. CASE LcmRecvNcount(i)
    <3>1. /\ resp'[i] = TRUE
          /\ toLcm[i] # <<>> /\ toLcm'[i] = Tail(toLcm[i]) /\ Head(toLcm[i]) = "ncount"
          /\ UNCHANGED <<sendNode, toNode, keepTok, kPc>>
      BY <1>2, <1>3, <2>6 DEF LcmRecvNcount, ChannelTypes
    <3>2. Holds(toLcm[i], "nkeep") => Holds(toLcm'[i], "nkeep")
      BY <2>2, <3>1
    <3> QED BY <1>1, <2>0, <3>1, <3>2 DEF Awaited, KeepOut, EchoOut
  <2>7. CASE LcmRecvNkeep(i)
    <3>1. /\ keepTok'[i] > 0
          /\ toLcm[i] # <<>> /\ toLcm'[i] = Tail(toLcm[i]) /\ Head(toLcm[i]) = "nkeep"
          /\ UNCHANGED <<sendNode, toNode, resp, kPc>>
      BY <1>2, <2>0, <2>7 DEF LcmRecvNkeep, ChannelTypes
    <3>2. Holds(toLcm[i], "ncount") => Holds(toLcm'[i], "ncount")
      BY <2>2, <3>1
    <3> QED BY <1>1, <2>0, <3>1, <3>2 DEF Awaited, KeepOut, AnswerOut, EchoOut
  <2> QED BY <1>7, <2>1, <2>3, <2>4, <2>5, <2>6, <2>7 DEF HandlerStep
<1>8. CASE NkeepStep(i)
  <2>0. /\ bcastTo' = bcastTo
        /\ UNCHANGED <<toNode, wNCount, wNKeep, sendLcm, toLcm, resp, tPc>>
    BY <1>8 DEF NkeepStep, KeepSend, KeepGot, KeepTick, KeepTimeout, KeepDone
  <2>1. CASE KeepSend(i)
    <3>1. sendNode[i] = "empty" /\ sendNode'[i] = "nkeep"
      BY <1>2, <2>1 DEF KeepSend, ChannelTypes
    <3> QED BY <1>1, <2>0, <3>1 DEF Awaited, KeepOut, AnswerOut, EchoOut
  <2>2. CASE ~KeepSend(i)
    <3>1. kPc'[i] # "wait" /\ UNCHANGED sendNode
      BY <1>2, <1>8, <2>2
         DEF NkeepStep, KeepGot, KeepTick, KeepTimeout, KeepDone, ChannelTypes
    <3> QED BY <1>1, <2>0, <3>1 DEF Awaited, AnswerOut, EchoOut
  <2> QED BY <2>1, <2>2
<1> QED BY <1>4, <1>5, <1>6, <1>7, <1>8 DEF LcmNext, NcountStep

\* So do those of a node; and nobody is sent the release before it has answered.
LEMMA NodeConveys ==
  ASSUME TypeOK, WorkerInv, AnswerInv, CountInv, ConveyInv, NodeNext, UNCHANGED lcmVars,
         NEW i \in Targets, Talking(i), Talking(i)'
  PROVE  Awaited(i)'
<1> USE DEF lcmVars, wireVars
<1>1. Awaited(i) /\ ~NodeGone(i) /\ ~LcmGone(i)
  BY TalkingConnected DEF ConveyInv, NothingLost
<1>2. /\ ChannelTypes
      /\ tPc \in [Targets -> {"off", "count", "echo", "start", "join", "end"}]
      /\ wPc \in [Targets -> {"off", "loop", "join", "done"}]
  BY ChannelTypesHold DEF TypeOK, NodeTypeOK
<1>3. /\ toNode[i] \in Seq(DownMsg)
      /\ toLcm[i] \in Seq(UpMsg)
      /\ sendLcm[i] \in Seq({"ncount", "nkeep"})
      /\ wNCount[i] \in Nat /\ wNKeep[i] \in Nat
      /\ UNCHANGED <<sendNode, keepTok, kPc, resp, bcastTo>>
  BY <1>2 DEF ChannelTypes
<1>4. PICK j \in Targets :
        \/ NodeAccept(j) \/ NodeRefuse(j) \/ NodeHello(j)
        \/ ConnStep(j) \/ TimingStep(j) \/ NkeepWorkerStep(j)
        \/ ExitStep(j) \/ ProcExit(j) \/ WaitProcess(j)
  BY DEF NodeNext
<1>5. CASE j # i
  <2>1. SameAwaited(i)
    <3>1. CASE NodeAccept(j) \/ NodeRefuse(j) \/ NodeHello(j)
      BY <1>2, <1>3, <1>5, <3>1
         DEF NodeAccept, NodeRefuse, NodeHello, WriteUp, SameAwaited, ChannelTypes
    <3>2. CASE NodeSend(j) \/ NodeSendErr(j) \/ NodeJoin(j)
      BY <1>2, <1>3, <1>5, <3>2
         DEF NodeSend, NodeSendErr, NodeJoin, CloseNode, WriteUp, SameAwaited,
             ChannelTypes
    <3>3. CASE NodeRecvNcount(j) \/ NodeRecvNkeep(j) \/ NodeRecvNil(j) \/ NodeDone(j)
      BY <1>2, <1>3, <1>5, <3>3
         DEF NodeRecvNcount, NodeRecvNkeep, NodeRecvNil, NodeDone, SameAwaited,
             ChannelTypes
    <3>4. CASE TimingStep(j) \/ NkeepWorkerStep(j)
      BY <1>2, <1>3, <1>5, <3>4
         DEF TimingStep, NcountSend, NcountEcho, NcountAbort, StartOk, StartFail,
             TimingEnd, NkeepWorkerStep, NkeepReply, NkeepEnd, SameAwaited,
             ChannelTypes
    <3>5. CASE ExitStep(j) \/ ProcExit(j) \/ WaitProcess(j)
      BY <1>3, <3>5
         DEF ExitStep, ExitKill, ExitSpinEnd, ProcExit, WaitProcess, SameAwaited
    <3> QED BY <1>4, <3>1, <3>2, <3>3, <3>4, <3>5 DEF ConnStep
  <2> QED BY <1>1, <1>3, <2>1, SameAwaitedKeeps
<1>6. CASE j = i
  <2>1. ASSUME NEW m, toNode[i] # <<>>, toNode'[i] = Tail(toNode[i]),
               Head(toNode[i]) # m
        PROVE  Holds(toNode[i], m) => Holds(toNode'[i], m)
    BY <1>3, <2>1, HoldsTail
  <2>2. CASE NodeAccept(i) \/ NodeRefuse(i)
    <3>1. /\ tPc'[i] # "echo"
          /\ toNode[i] # <<>> /\ toNode'[i] = Tail(toNode[i])
          /\ Head(toNode[i]) = "command"
          /\ UNCHANGED <<sendLcm, wNCount, wNKeep, toLcm>>
      BY <1>2, <2>2 DEF NodeAccept, NodeRefuse, FirstStep, ChannelTypes
    <3>2. Holds(toNode[i], "nkeep") => Holds(toNode'[i], "nkeep")
      BY <2>1, <3>1
    <3> QED BY <1>1, <1>3, <3>1, <3>2 DEF Awaited, KeepOut
  <2>3. CASE NodeHello(i)
    <3>1. /\ toLcm'[i] \in {toLcm[i], Append(toLcm[i], "magic")} /\ "magic" \in UpMsg
          /\ UNCHANGED <<sendLcm, wNCount, wNKeep, toNode, tPc>>
      BY <1>2, <2>3 DEF NodeHello, WriteUp, ChannelTypes, UpMsg
    <3>2. \A m : Holds(toLcm[i], m) => Holds(toLcm'[i], m)
      <4>1. \A m : Holds(toLcm[i], m) => Holds(Append(toLcm[i], "magic"), m)
        BY <1>3, <3>1, HoldsAppend
      <4> QED BY <3>1, <4>1
    <3> QED BY <1>1, <1>3, <3>1, <3>2 DEF Awaited, KeepOut, AnswerOut, EchoOut
  <2>4. CASE NodeSend(i)
    <3>1. /\ sendLcm[i] # <<>> /\ sendLcm'[i] = Tail(sendLcm[i])
          /\ Head(sendLcm[i]) \in UpMsg
          /\ toLcm'[i] = Append(toLcm[i], Head(sendLcm[i]))
          /\ UNCHANGED <<wNCount, wNKeep, toNode, tPc>>
      BY <1>1, <1>2, <1>3, <2>4 DEF NodeSend, WriteUp, ChannelTypes, UpMsg
    <3>2. \A m : Holds(toLcm'[i], m) <=> Holds(toLcm[i], m) \/ Head(sendLcm[i]) = m
      BY <1>3, <3>1, HoldsAppend
    <3>3. \A m : Holds(sendLcm[i], m) => Head(sendLcm[i]) = m \/ Holds(sendLcm'[i], m)
      BY <1>3, <3>1, HoldsTail
    <3> QED BY <1>1, <1>3, <3>1, <3>2, <3>3
               DEF Awaited, KeepOut, AnswerOut, EchoOut
  <2>5. CASE NodeSendErr(i) \/ NodeRecvNil(i) \/ NodeDone(i) \/ NodeJoin(i)
    <3>1. wPc'[i] \in {"join", "done"}
      BY <1>2, <2>5 DEF NodeSendErr, NodeRecvNil, NodeDone, NodeJoin
    <3> QED BY <3>1 DEF Talking
  <2>6. CASE NodeRecvNcount(i)
    <3>1. /\ wNCount'[i] > 0
          /\ toNode[i] # <<>> /\ toNode'[i] = Tail(toNode[i])
          /\ Head(toNode[i]) = "ncount"
          /\ UNCHANGED <<sendLcm, wNKeep, toLcm, tPc>>
      BY <1>2, <1>3, <2>6 DEF NodeRecvNcount, ChannelTypes
    <3>2. Holds(toNode[i], "nkeep") => Holds(toNode'[i], "nkeep")
      BY <2>1, <3>1
    <3> QED BY <1>1, <1>3, <3>1, <3>2 DEF Awaited, KeepOut, AnswerOut, EchoOut
  <2>7. CASE NodeRecvNkeep(i)
    <3>1. /\ wNKeep'[i] > 0
          /\ toNode[i] # <<>> /\ toNode'[i] = Tail(toNode[i])
          /\ Head(toNode[i]) = "nkeep"
          /\ UNCHANGED <<sendLcm, wNCount, toLcm, tPc>>
      BY <1>2, <1>3, <2>7 DEF NodeRecvNkeep, ChannelTypes
    <3>2. Holds(toNode[i], "ncount") => Holds(toNode'[i], "ncount")
      BY <2>1, <3>1
    <3> QED BY <1>1, <1>3, <3>1, <3>2 DEF Awaited, KeepOut, AnswerOut, EchoOut
  <2>8. CASE NcountSend(i)
    <3>1. /\ sendLcm'[i] = Append(sendLcm[i], "ncount")
          /\ tPc[i] = "count"
          /\ UNCHANGED <<wNCount, wNKeep, toLcm, toNode>>
      BY <1>2, <2>8 DEF NcountSend, ChannelTypes
    <3>2. "ncount" \in {"ncount", "nkeep"}
      OBVIOUS
    <3>3. \A m : Holds(Append(sendLcm[i], "ncount"), m)
                   <=> Holds(sendLcm[i], m) \/ "ncount" = m
      BY ONLY <1>3, <3>2, HoldsAppend
    <3>4. ~(i < bcastTo)
      <4>1. ~resp[i]
        BY <3>1 DEF AnswerInv, Unsent
      <4>2. ~Released
        BY <4>1, ReleasedMeansAnswered
      <4> QED BY <1>2, <4>2 DEF ConveyInv, Targets, ChannelTypes
    <3> QED BY <1>1, <1>3, <3>1, <3>3, <3>4 DEF Awaited, KeepOut, AnswerOut
  <2>9. CASE TimingStep(i) /\ ~NcountSend(i)
    <3>1. /\ tPc'[i] # "echo"
          /\ UNCHANGED <<sendLcm, wNKeep, toLcm, toNode>>
      BY <1>2, <2>9 DEF TimingStep, NcountEcho, AfterEcho, NcountAbort, StartOk,
                        StartFail, TimingEnd
    <3> QED BY <1>1, <1>3, <3>1 DEF Awaited, KeepOut
  <2>10. CASE NkeepReply(i)
    <3>1. /\ sendLcm'[i] = Append(sendLcm[i], "nkeep")
          /\ UNCHANGED <<wNCount, tPc, toLcm, toNode>>
      BY <1>2, <2>10 DEF NkeepReply, ChannelTypes
    <3>2. "nkeep" \in {"ncount", "nkeep"}
      OBVIOUS
    <3>3. \A m : Holds(Append(sendLcm[i], "nkeep"), m)
                   <=> Holds(sendLcm[i], m) \/ "nkeep" = m
      BY ONLY <1>3, <3>2, HoldsAppend
    <3> QED BY <1>1, <1>3, <3>1, <3>3 DEF Awaited, KeepOut, AnswerOut, EchoOut
  <2>11. CASE NkeepEnd(i) \/ ExitStep(i) \/ ProcExit(i) \/ WaitProcess(i)
    <3>1. SameAwaited(i)
      BY <1>3, <2>11 DEF NkeepEnd, ExitStep, ExitKill, ExitSpinEnd, ProcExit,
                         WaitProcess, SameAwaited
    <3> QED BY <1>1, <1>3, <3>1, SameAwaitedKeeps
  <2> QED BY <1>4, <1>6, <2>2, <2>3, <2>4, <2>5, <2>6, <2>7, <2>8, <2>9, <2>10,
             <2>11 DEF ConnStep, NkeepWorkerStep
<1> QED BY <1>5, <1>6

\* A target whose two programs talk misses no message.
THEOREM ConveyInvariant == Spec => []ConveyInv
<1>1. Init => ConveyInv
  BY DEF Init, WireInit, LcmInit, NodeInit, ConveyInv, NothingLost, Awaited
<1>2. ASSUME TypeOK, WorkerInv, AnswerInv, CountInv, ReleaseInv, ConveyInv, [Next]_vars
      PROVE  ConveyInv'
  <2>1. NothingLost'
    <3> SUFFICES ASSUME NEW i \in Targets, Talking(i)' PROVE Awaited(i)'
      BY DEF NothingLost
    <3>1. Talking(i)
      BY <1>2, TalkingBefore
    <3>2. CASE LcmNext /\ UNCHANGED nodeVars
      BY <1>2, <3>1, <3>2, LcmConveys
    <3>3. CASE NodeNext /\ UNCHANGED lcmVars
      BY <1>2, <3>1, <3>3, NodeConveys
    <3>4. CASE UNCHANGED <<lcmVars, nodeVars, toNode, toLcm>>
      BY <1>2, <3>1, <3>4 DEF lcmVars, nodeVars, ConveyInv, NothingLost, Awaited,
                              KeepOut, AnswerOut, EchoOut
    <3> QED BY <1>2, <3>2, <3>3, <3>4 DEF Next, CutLink, vars, wireVars
  <2>2. \A i \in Targets : lcmEnd'[i] = "closed" => mPc'[i] = "done"
    <3>1. /\ lcmEnd \in [Targets -> EndState]
          /\ mPc \in [Targets -> {"dial", "magic", "loop", "join", "done"}]
      BY <1>2 DEF TypeOK, WireTypeOK, LcmTypeOK
    <3>2. \A i \in Targets : lcmEnd[i] = "closed" => mPc[i] = "done"
      BY <1>2 DEF ConveyInv
    <3>3. CASE LcmNext
      BY <3>1, <3>2, <3>3
         DEF LcmNext, NcountStep, NcCount, NcTimeout, NcDone, NcBcast, HandlerStep,
             LcmDial, LcmDialFail, LcmMagic, LcmMagicErr, LcmSend, LcmSendErr,
             LcmRecvNcount, LcmRecvNkeep, LcmRecvNil, LcmDone, LcmJoin, CloseLcm,
             NkeepStep, KeepSend, KeepGot, KeepTick, KeepTimeout, KeepDone,
             DispatchStart, DispatchReject, DispatchEnd, UserStop, wireVars
    <3>4. CASE UNCHANGED <<lcmEnd, mPc>>
      BY <3>2, <3>4
    <3>5. NodeNext => UNCHANGED lcmEnd
      BY DEF NodeNext, NodeAccept, NodeRefuse, NodeHello, ConnStep, NodeSend,
         NodeSendErr, NodeRecvNcount, NodeRecvNkeep, NodeRecvNil, NodeDone, NodeJoin,
         CloseNode, TimingStep, NcountSend, NcountEcho, NcountAbort, StartOk, StartFail,
         TimingEnd, NkeepWorkerStep, NkeepReply, NkeepEnd, ExitStep, ExitKill,
         ExitSpinEnd, ProcExit, WaitProcess, wireVars
    <3> QED BY <1>2, <3>3, <3>4, <3>5 DEF Next, CutLink, vars, wireVars, lcmVars
  <2>3. bcastTo' > 1 => Released'
    <3>1. Released => Released'
      BY <1>2, ReleasedStays
    <3>2. NcBcast \/ bcastTo' = bcastTo
      BY <1>2 DEF Next, LcmNext, NcountStep, NcCount, NcTimeout, NcDone, HandlerStep,
         LcmDial, LcmDialFail, LcmMagic, LcmMagicErr, LcmSend, LcmSendErr,
         LcmRecvNcount, LcmRecvNkeep, LcmRecvNil, LcmDone, LcmJoin, NkeepStep,
         KeepSend, KeepGot, KeepTick, KeepTimeout, KeepDone, DispatchStart,
         DispatchReject, DispatchEnd, UserStop, vars, lcmVars
    <3>3. NcBcast => Released
      BY <1>2 DEF NcBcast, ReleaseInv
    <3> QED BY <1>2, <3>1, <3>2, <3>3 DEF ConveyInv
  <2> QED BY <2>1, <2>2, <2>3 DEF ConveyInv
<1> QED BY <1>1, <1>2, TypeCorrect, WorkerInvariant, AnswerInvariant, CountInvariant,
           ReleaseInvariant, PTL DEF Spec

\* As long as the two programs of a target talk, NkeepMaster and ncountWorker never
\* wait for a message that somebody has dropped.
THEOREM NothingLostHolds == Spec => []NothingLost
BY ConveyInvariant, PTL DEF ConveyInv
=============================================================================
