-------------------------- MODULE TaskRegistryProofs --------------------------
(***************************************************************************)
(* Theorems about TaskRegistry for every set of calls and of names.          *)
(***************************************************************************)
EXTENDS TaskRegistry, TLAPS

\* Type correctness of the registry and of its handlers.
THEOREM RegTypeCorrect == RegSpec => []RegTypeOK
<1>1. RegInit => RegTypeOK
  BY CompositorsAssumption DEF RegInit, RegTypeOK
<1>2. RegTypeOK /\ [RegNext]_regVars => RegTypeOK'
  <2> SUFFICES ASSUME RegTypeOK, [RegNext]_regVars PROVE RegTypeOK'
    OBVIOUS
  <2> USE DEF RegTypeOK, Return, Arrive, Ops, RunOps
  <2>1. ASSUME NEW c \in Calls, NEW o \in RunOps, NEW n \in Names,
               RunBusy(c, o, n) \/ RunRegister(c, o, n)
        PROVE  RegTypeOK'
    <3>1. CASE RunBusy(c, o, n) BY <3>1 DEF RunBusy
    <3>2. CASE RunRegister(c, o, n) BY <3>2 DEF RunRegister
    <3> QED BY <2>1, <3>1, <3>2
  <2>2. ASSUME NEW c \in Calls, RunNotFound(c) PROVE RegTypeOK'
    BY <2>2 DEF RunNotFound, Unregistered
  <2>3. ASSUME NEW c \in Calls, RunDispatch(c) PROVE RegTypeOK'
    BY <2>3 DEF RunDispatch
  <2>4. ASSUME NEW c \in Calls, RunDone(c) PROVE RegTypeOK'
    BY <2>4 DEF RunDone
  <2>5. ASSUME NEW c \in Calls, RunClientGone(c) PROVE RegTypeOK'
    BY <2>5 DEF RunClientGone
  <2>6. ASSUME NEW c \in Calls, TaskCancel(c) PROVE RegTypeOK'
    BY <2>6 DEF TaskCancel
  <2>7. ASSUME NEW c \in Calls, TaskEnd(c) PROVE RegTypeOK'
    BY <2>7 DEF TaskEnd, Unregistered
  <2>8. ASSUME NEW c \in Calls, NEW n \in Names,
               StopUnknown(c, n) \/ StopLookup(c, n)
        PROVE  RegTypeOK'
    <3>1. CASE StopUnknown(c, n) BY <3>1 DEF StopUnknown
    <3>2. CASE StopLookup(c, n) BY <3>2 DEF StopLookup
    <3> QED BY <2>8, <3>1, <3>2
  <2>9. ASSUME NEW c \in Calls, StopCancel(c) PROVE RegTypeOK'
    BY <2>9 DEF StopCancel
  <2>10. ASSUME NEW c \in Calls, StopAll(c) PROVE RegTypeOK'
    BY <2>10, CompositorsAssumption DEF StopAll
  <2>11. CASE UNCHANGED regVars
    BY <2>11 DEF regVars
  <2> QED BY <2>1, <2>2, <2>3, <2>4, <2>5, <2>6, <2>7, <2>8, <2>9, <2>10,
             <2>11 DEF RegNext
<1> QED BY <1>1, <1>2, PTL DEF RegSpec

RegInv == OwnerRegistered /\ CallLife /\ NoStaleEntry

\* The map and the launches agree, whatever the calls do to each other.
THEOREM RegInvariant == RegSpec => []RegInv
<1>1. RegInit => RegInv
  BY DEF RegInit, RegInv, OwnerRegistered, CallLife, NoStaleEntry, Active
<1>2. RegTypeOK /\ RegInv /\ [RegNext]_regVars => RegInv'
  <2> SUFFICES ASSUME RegTypeOK, RegInv, [RegNext]_regVars PROVE RegInv'
    OBVIOUS
  <2> USE NoneAssumption DEF RegTypeOK, RegInv, OwnerRegistered, CallLife,
          NoStaleEntry, Active, Return, Arrive, Taken
  <2>1. ASSUME NEW c \in Calls, NEW o \in RunOps, NEW n \in Names,
               RunBusy(c, o, n) \/ RunRegister(c, o, n)
        PROVE  RegInv'
    <3>1. CASE RunBusy(c, o, n) BY <3>1 DEF RunBusy
    <3>2. CASE RunRegister(c, o, n) BY <3>2 DEF RunRegister
    <3> QED BY <2>1, <3>1, <3>2
  <2>2. ASSUME NEW c \in Calls, RunNotFound(c) PROVE RegInv'
    BY <2>2 DEF RunNotFound, Unregistered
  <2>3. ASSUME NEW c \in Calls, RunDispatch(c) PROVE RegInv'
    BY <2>3 DEF RunDispatch
  <2>4. ASSUME NEW c \in Calls, RunDone(c) PROVE RegInv'
    BY <2>4 DEF RunDone
  <2>5. ASSUME NEW c \in Calls, RunClientGone(c) PROVE RegInv'
    BY <2>5 DEF RunClientGone
  <2>6. ASSUME NEW c \in Calls, TaskCancel(c) PROVE RegInv'
    BY <2>6 DEF TaskCancel
  <2>7. ASSUME NEW c \in Calls, TaskEnd(c) PROVE RegInv'
    BY <2>7 DEF TaskEnd, Unregistered
  <2>8. ASSUME NEW c \in Calls, NEW n \in Names,
               StopUnknown(c, n) \/ StopLookup(c, n)
        PROVE  RegInv'
    <3>1. CASE StopUnknown(c, n) BY <3>1 DEF StopUnknown
    <3>2. CASE StopLookup(c, n) BY <3>2 DEF StopLookup
    <3> QED BY <2>8, <3>1, <3>2
  <2>9. ASSUME NEW c \in Calls, StopCancel(c) PROVE RegInv'
    BY <2>9 DEF StopCancel
  <2>10. ASSUME NEW c \in Calls, StopAll(c) PROVE RegInv'
    BY <2>10, CompositorsAssumption DEF StopAll
  <2>11. CASE UNCHANGED regVars
    BY <2>11 DEF regVars
  <2> QED BY <2>1, <2>2, <2>3, <2>4, <2>5, <2>6, <2>7, <2>8, <2>9, <2>10,
             <2>11 DEF RegNext
<1> QED BY <1>1, <1>2, RegTypeCorrect, PTL DEF RegSpec

\* The context of an active launch is the registered one.
THEOREM OwnerRegisteredHolds == RegSpec => []OwnerRegistered
<1>1. RegInv => OwnerRegistered
  BY DEF RegInv
<1> QED BY <1>1, RegInvariant, PTL

\* A registered name has an active launch behind it.
THEOREM NoStaleEntryHolds == RegSpec => []NoStaleEntry
<1>1. RegInv => NoStaleEntry
  BY DEF RegInv
<1> QED BY <1>1, RegInvariant, PTL

-----------------------------------------------------------------------------
(* Answers *)

AnswerInv ==
  \A c \in Calls :
    /\ pc[c] # "done" => answer[c] = "none"
    /\ pc[c] \in {"fetch", "wait"} => op[c] \in RunOps
    /\ pc[c] = "cancel" => op[c] = "stop"
    /\ answer[c] = "fin" /\ op[c] \in RunOps => cancelled[c]

\* A run is answered "fin" only when its context was cancelled.
THEOREM AnswerInvariant == RegSpec => []AnswerInv
<1>1. RegInit => AnswerInv
  BY DEF RegInit, AnswerInv
<1>2. RegTypeOK /\ AnswerInv /\ [RegNext]_regVars => AnswerInv'
  <2> SUFFICES ASSUME RegTypeOK, AnswerInv, [RegNext]_regVars PROVE AnswerInv'
    OBVIOUS
  <2> USE DEF RegTypeOK, AnswerInv, Return, Arrive, Ops, RunOps
  <2>1. ASSUME NEW c \in Calls, NEW o \in RunOps, NEW n \in Names,
               RunBusy(c, o, n)
        PROVE  AnswerInv'
    BY <2>1 DEF RunBusy
  <2>2. ASSUME NEW c \in Calls, NEW o \in RunOps, NEW n \in Names,
               RunRegister(c, o, n)
        PROVE  AnswerInv'
    BY <2>2 DEF RunRegister
  <2>3. ASSUME NEW c \in Calls, RunNotFound(c) \/ RunDispatch(c)
        PROVE  AnswerInv'
    BY <2>3 DEF RunNotFound, RunDispatch
  <2>4. ASSUME NEW c \in Calls, RunDone(c) \/ RunClientGone(c) PROVE AnswerInv'
    BY <2>4 DEF RunDone, RunClientGone
  <2>5. ASSUME NEW c \in Calls, TaskCancel(c) \/ TaskEnd(c) PROVE AnswerInv'
    BY <2>5 DEF TaskCancel, TaskEnd
  <2>6. ASSUME NEW c \in Calls, NEW n \in Names,
               StopUnknown(c, n) \/ StopLookup(c, n)
        PROVE  AnswerInv'
    BY <2>6 DEF StopUnknown, StopLookup
  <2>7. ASSUME NEW c \in Calls, StopCancel(c) PROVE AnswerInv'
    BY <2>7 DEF StopCancel
  <2>8. ASSUME NEW c \in Calls, StopAll(c) PROVE AnswerInv'
    BY <2>8 DEF StopAll
  <2>9. CASE UNCHANGED regVars
    BY <2>9 DEF regVars
  <2> QED BY <2>1, <2>2, <2>3, <2>4, <2>5, <2>6, <2>7, <2>8, <2>9 DEF RegNext
<1> QED BY <1>1, <1>2, RegTypeCorrect, PTL DEF RegSpec

-----------------------------------------------------------------------------
(* What a step leaves alone *)

\* A context that was cancelled stays so.
LEMMA CancelledStays ==
  ASSUME RegTypeOK, [RegNext]_regVars, NEW x \in Calls, cancelled[x]
  PROVE  cancelled'[x]
<1> USE DEF RegTypeOK, Return, Arrive
<1>1. ASSUME NEW c \in Calls, NEW o, NEW n, RunBusy(c, o, n) \/ RunRegister(c, o, n)
      PROVE  cancelled'[x]
  BY <1>1 DEF RunBusy, RunRegister
<1>2. ASSUME NEW c \in Calls,
             RunNotFound(c) \/ RunDispatch(c) \/ RunDone(c) \/ RunClientGone(c)
      PROVE  cancelled'[x]
  BY <1>2 DEF RunNotFound, RunDispatch, RunDone, RunClientGone
<1>3. ASSUME NEW c \in Calls, TaskCancel(c) \/ TaskEnd(c) PROVE cancelled'[x]
  BY <1>3 DEF TaskCancel, TaskEnd
<1>4. ASSUME NEW c \in Calls, NEW n, StopUnknown(c, n) \/ StopLookup(c, n)
      PROVE  cancelled'[x]
  BY <1>4 DEF StopUnknown, StopLookup
<1>5. ASSUME NEW c \in Calls, StopCancel(c) \/ StopAll(c) PROVE cancelled'[x]
  BY <1>5 DEF StopCancel, StopAll
<1>6. CASE UNCHANGED regVars
  BY <1>6 DEF regVars
<1> QED BY <1>1, <1>2, <1>3, <1>4, <1>5, <1>6 DEF RegNext

\* What a call asks for, and whom it met, is settled when it comes in.
LEMMA RequestStays ==
  ASSUME RegTypeOK, [RegNext]_regVars, NEW x \in Calls, pc[x] # "idle"
  PROVE  op'[x] = op[x] /\ name'[x] = name[x] /\ met'[x] = met[x]
<1> USE DEF RegTypeOK, Return, Arrive
<1>1. ASSUME NEW c \in Calls, NEW o, NEW n, RunBusy(c, o, n) \/ RunRegister(c, o, n)
      PROVE  op'[x] = op[x] /\ name'[x] = name[x] /\ met'[x] = met[x]
  BY <1>1 DEF RunBusy, RunRegister
<1>2. ASSUME NEW c \in Calls, NEW n, StopUnknown(c, n) \/ StopLookup(c, n)
      PROVE  op'[x] = op[x] /\ name'[x] = name[x] /\ met'[x] = met[x]
  BY <1>2 DEF StopUnknown, StopLookup
<1>3. ASSUME NEW c \in Calls, StopAll(c)
      PROVE  op'[x] = op[x] /\ name'[x] = name[x] /\ met'[x] = met[x]
  BY <1>3 DEF StopAll
<1>4. ASSUME NEW c \in Calls,
             \/ RunNotFound(c) \/ RunDispatch(c) \/ RunDone(c) \/ RunClientGone(c)
             \/ TaskCancel(c) \/ TaskEnd(c) \/ StopCancel(c)
      PROVE  UNCHANGED <<op, name, met>>
  BY <1>4 DEF RunNotFound, RunDispatch, RunDone, RunClientGone, TaskCancel,
     TaskEnd, StopCancel
<1>5. CASE UNCHANGED regVars
  BY <1>5 DEF regVars
<1> QED BY <1>1, <1>2, <1>3, <1>4, <1>5 DEF RegNext

-----------------------------------------------------------------------------
(* Stops *)

\* What a stop cancels, of one name or of all, was active when the stop came in.
THEOREM LateStopHarmlessHolds == RegSpec => LateStopHarmless
<1> DEFINE A == \A s, x \in Calls :
                  /\ pc[s] # "done" /\ pc'[s] = "done"
                  /\ op'[s] \in {"stop", "stopall"}
                  /\ ~cancelled[x] /\ cancelled'[x]
                  => x \in met'[s]
<1>1. RegTypeOK /\ RegInv /\ AnswerInv /\ [RegNext]_regVars => [A]_regVars
  <2> SUFFICES ASSUME RegTypeOK, RegInv, AnswerInv, RegNext,
                      NEW s \in Calls, NEW x \in Calls,
                      pc[s] # "done", pc'[s] = "done",
                      op'[s] \in {"stop", "stopall"},
                      ~cancelled[x], cancelled'[x]
               PROVE  x \in met'[s]
    OBVIOUS
  <2> USE DEF RegTypeOK, Arrive, Return, Ops, RunOps
  <2>1. ASSUME NEW c \in Calls, NEW o \in RunOps, NEW n \in Names,
               RunBusy(c, o, n) \/ RunRegister(c, o, n)
        PROVE  FALSE
    BY <2>1 DEF RunBusy, RunRegister
  <2>2. ASSUME NEW c \in Calls, RunNotFound(c) \/ RunDispatch(c) \/ RunDone(c)
        PROVE  FALSE
    BY <2>2 DEF RunNotFound, RunDispatch, RunDone
  <2>3. ASSUME NEW c \in Calls, RunClientGone(c) PROVE FALSE
    <3>1. c = s
      BY <2>3 DEF RunClientGone
    <3> QED BY <2>3, <3>1 DEF RunClientGone, AnswerInv
  <2>4. ASSUME NEW c \in Calls, TaskCancel(c) \/ TaskEnd(c) PROVE FALSE
    BY <2>4 DEF TaskCancel, TaskEnd
  <2>5. ASSUME NEW c \in Calls, NEW n \in Names,
               StopUnknown(c, n) \/ StopLookup(c, n)
        PROVE  FALSE
    BY <2>5 DEF StopUnknown, StopLookup
  <2>6. ASSUME NEW c \in Calls, StopCancel(c) PROVE x \in met'[s]
    <3>1. c = s
      BY <2>6 DEF StopCancel
    <3>2. x = held[s] /\ met' = met
      BY <2>6, <3>1 DEF StopCancel, StopTargets
    <3> QED BY <2>6, <3>1, <3>2 DEF StopCancel, RegInv, CallLife
  <2>7. ASSUME NEW c \in Calls, StopAll(c) PROVE x \in met'[s]
    <3>1. c = s
      BY <2>7 DEF StopAll
    <3>2. PICK n \in Stoppable : ctxMap[n] = x
      BY <2>7 DEF StopAll
    <3>3. Active(x)
      BY <3>2, NoneAssumption DEF Stoppable, RegInv, NoStaleEntry
    <3> QED BY <2>7, <3>1, <3>3 DEF StopAll
  <2> QED BY <2>1, <2>2, <2>3, <2>4, <2>5, <2>6, <2>7 DEF RegNext
<1> QED BY <1>1, RegTypeCorrect, RegInvariant, AnswerInvariant, PTL
        DEF RegSpec, LateStopHarmless

\* Only a step of StopCancel gives a stop its "fin".
LEMMA StopAnswered ==
  ASSUME RegTypeOK, RegInv, AnswerInv, RegNext,
         NEW s \in Calls, op'[s] = "stop", answer[s] # "fin", answer'[s] = "fin"
  PROVE  StopCancel(s)
<1> USE DEF RegTypeOK, Arrive, Return, Ops, RunOps
<1>1. ASSUME NEW c \in Calls, NEW o \in RunOps, NEW n \in Names,
             RunBusy(c, o, n) \/ RunRegister(c, o, n)
      PROVE  FALSE
  BY <1>1 DEF RunBusy, RunRegister
<1>2. ASSUME NEW c \in Calls, RunNotFound(c) \/ RunDispatch(c) PROVE FALSE
  BY <1>2 DEF RunNotFound, RunDispatch
<1>3. ASSUME NEW c \in Calls, RunDone(c) \/ RunClientGone(c) PROVE FALSE
  <2>1. c = s /\ op[s] = "stop"
    BY <1>3 DEF RunDone, RunClientGone
  <2> QED BY <1>3, <2>1 DEF RunDone, RunClientGone, AnswerInv
<1>4. ASSUME NEW c \in Calls, TaskCancel(c) \/ TaskEnd(c) PROVE FALSE
  BY <1>4 DEF TaskCancel, TaskEnd
<1>5. ASSUME NEW c \in Calls, NEW n \in Names,
             StopUnknown(c, n) \/ StopLookup(c, n)
      PROVE  FALSE
  BY <1>5 DEF StopUnknown, StopLookup
<1>6. ASSUME NEW c \in Calls, StopAll(c) PROVE FALSE
  BY <1>6 DEF StopAll
<1>7. ASSUME NEW c \in Calls, StopCancel(c) PROVE StopCancel(s)
  BY <1>7 DEF StopCancel
<1> QED BY <1>1, <1>2, <1>3, <1>4, <1>5, <1>6, <1>7 DEF RegNext

\* A stop that was answered with success has cancelled a launch of its name that
\* was active when the stop came in.
THEOREM StopReachesHolds == RegSpec => []StopReaches
<1>1. RegInit => StopReaches
  BY DEF RegInit, StopReaches
<1>2. RegTypeOK /\ RegInv /\ AnswerInv /\ StopReaches /\ [RegNext]_regVars
        => StopReaches'
  <2> SUFFICES ASSUME RegTypeOK, RegInv, AnswerInv, StopReaches,
                      [RegNext]_regVars,
                      NEW s \in Calls, op'[s] = "stop", answer'[s] = "fin"
               PROVE  \E x \in met'[s] : name'[x] = name'[s] /\ cancelled'[x]
    BY DEF StopReaches
  <2>1. \A x \in met[s] : x \in Calls /\ pc[x] # "idle"
    BY DEF RegTypeOK, RegInv, CallLife
  <2>2. CASE answer[s] = "fin"
    <3>1. pc[s] = "done"
      BY <2>2 DEF AnswerInv
    <3>2. op'[s] = op[s] /\ name'[s] = name[s] /\ met'[s] = met[s]
      BY <3>1, RequestStays
    <3>3. PICK x \in met[s] : name[x] = name[s] /\ cancelled[x]
      BY <2>2, <3>2 DEF StopReaches
    <3>4. name'[x] = name[x] /\ cancelled'[x]
      BY <2>1, <3>3, RequestStays, CancelledStays
    <3> QED BY <3>2, <3>3, <3>4
  <2>3. CASE answer[s] # "fin"
    <3>1. StopCancel(s)
      <4>1. RegNext
        BY <2>3 DEF regVars
      <4> QED BY <2>3, <4>1, StopAnswered
    <3>2. UNCHANGED <<name, met>>
      BY <3>1 DEF StopCancel
    <3>3. held[s] \in met[s] /\ name[held[s]] = name[s]
      BY <3>1 DEF StopCancel, RegInv, CallLife
    <3>4. cancelled'[held[s]]
      BY <2>1, <3>1, <3>3 DEF StopCancel, StopTargets
    <3> QED BY <3>2, <3>3, <3>4
  <2> QED BY <2>2, <2>3
<1> QED BY <1>1, <1>2, RegTypeCorrect, RegInvariant, AnswerInvariant, PTL
        DEF RegSpec

\* A stop of everything does not touch what is registered for the compositors.
THEOREM StopAllSparesCompositorsHolds == RegSpec => StopAllSparesCompositors
<1> DEFINE A == (\E c \in Calls : op[c] = "none" /\ op'[c] = "stopall")
                  => \A x \in Calls :
                       ctxMap[Compositors] = x => cancelled'[x] = cancelled[x]
<1>1. RegTypeOK /\ RegInv /\ [RegNext]_regVars => [A]_regVars
  <2> SUFFICES ASSUME RegTypeOK, RegInv, RegNext,
                      NEW d \in Calls, op[d] = "none", op'[d] = "stopall",
                      NEW x \in Calls, ctxMap[Compositors] = x
               PROVE  cancelled'[x] = cancelled[x]
    OBVIOUS
  <2> USE DEF RegTypeOK, Arrive, Return, Ops, RunOps
  <2>1. ASSUME NEW c \in Calls, NEW o \in RunOps, NEW n \in Names,
               RunBusy(c, o, n) \/ RunRegister(c, o, n)
        PROVE  FALSE
    BY <2>1 DEF RunBusy, RunRegister
  <2>2. ASSUME NEW c \in Calls,
               RunNotFound(c) \/ RunDispatch(c) \/ RunDone(c) \/ RunClientGone(c)
        PROVE  FALSE
    BY <2>2 DEF RunNotFound, RunDispatch, RunDone, RunClientGone
  <2>3. ASSUME NEW c \in Calls, TaskCancel(c) \/ TaskEnd(c) \/ StopCancel(c)
        PROVE  FALSE
    BY <2>3 DEF TaskCancel, TaskEnd, StopCancel
  <2>4. ASSUME NEW c \in Calls, NEW n \in Names,
               StopUnknown(c, n) \/ StopLookup(c, n)
        PROVE  FALSE
    BY <2>4 DEF StopUnknown, StopLookup
  <2>5. ASSUME NEW c \in Calls, StopAll(c) PROVE cancelled'[x] = cancelled[x]
    <3>1. name[x] = Compositors
      BY CompositorsAssumption, NoneAssumption DEF RegInv, NoStaleEntry
    <3>2. \A n \in Names : ctxMap[n] = x => n = Compositors
      BY <3>1, NoneAssumption DEF RegInv, NoStaleEntry
    <3> QED BY <2>5, <3>2 DEF StopAll, Stoppable
  <2> QED BY <2>1, <2>2, <2>3, <2>4, <2>5 DEF RegNext
<1> QED BY <1>1, RegTypeCorrect, RegInvariant, PTL
        DEF RegSpec, StopAllSparesCompositors
=============================================================================
