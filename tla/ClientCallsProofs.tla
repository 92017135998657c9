-------------------------- MODULE ClientCallsProofs --------------------------
(***************************************************************************)
(* Theorems about ClientCalls for every set of calls, names and networks.    *)
(***************************************************************************)
EXTENDS ClientCalls, TaskRegistryProofs

-----------------------------------------------------------------------------
(* Whatever clients do, the server is TaskRegistry. *)

\* A step of the client and the server together is one of the registry, or
\* leaves the registry alone.
LEMMA StepOfRegistry == [CallsNext]_callVars => [RegNext]_regVars
<1> SUFFICES ASSUME [CallsNext]_callVars PROVE [RegNext]_regVars
  OBVIOUS
<1>1. ASSUME NEW c \in Calls, NEW f \in DOMAIN RpcOf, NEW n \in Names,
             Invoke(c, f, n)
      PROVE  RegNext
  BY <1>1 DEF Invoke, RegNext
<1>2. ASSUME NEW c \in Calls, ServerStep(c) PROVE RegNext
  BY <1>2 DEF ServerStep, RegNext
<1>3. ASSUME NEW c \in Calls,
             \/ \E f \in DOMAIN RpcOf \cup {"status"} : CallFails(c, f)
             \/ Panic(c)
             \/ Response(c) \/ RpcBreaks(c)
             \/ CallbackStart(c) \/ CallbackNull(c) \/ CallbackAsks(c)
             \/ CallbackDone(c)
             \/ \E n \in Names : StatusCall(c, n)
             \/ ListFree(c) \/ ListAnswer(c) \/ ListFails(c) \/ ListKeep(c)
      PROVE  UNCHANGED regVars
  BY <1>3 DEF CallFails, Panic, AllDie, Response, RpcBreaks, CallbackStart,
     CallbackNull, CallbackAsks, CallbackDone, StatusCall, ListFree, ListAnswer,
     ListFails, ListKeep
<1>4. ASSUME ClientKilled PROVE UNCHANGED regVars
  BY <1>4 DEF ClientKilled, AllDie
<1>5. ASSUME UNCHANGED callVars PROVE UNCHANGED regVars
  BY <1>5 DEF callVars
<1> QED BY <1>1, <1>2, <1>3, <1>4, <1>5 DEF CallsNext

\* The handlers, as the client library and its failures drive them, implement
\* the registry: all that is proved of RegSpec holds of CallsSpec.
THEOREM CallsRefineRegistry == CallsSpec => RegSpec
<1>1. CallsInit => RegInit
  BY DEF CallsInit
<1> QED BY <1>1, StepOfRegistry, PTL DEF CallsSpec, RegSpec

-----------------------------------------------------------------------------
(* Types *)

\* The server's variables keep their types whatever clients do.
LEMMA RegistryTyped == CallsSpec => []RegTypeOK
  BY CallsRefineRegistry, RegTypeCorrect, PTL

\* dcmapi answers with one of the four codes.
LEMMA ParsedCode == \A status : ParseStatus(status) \in {-1, 0, 1, 2}
  BY DEF ParseStatus

ClientTypeOK ==
  /\ api \in [Calls -> Api \cup {"none"}]
  /\ cpc \in [Calls -> {"idle", "rpc", "lock", "callback", "relock", "free",
                        "alloc", "ret", "dead"}]
  /\ code \in [Calls -> {None, -1, 0, 1, 2}]
  /\ lost \in [Calls -> BOOLEAN]
  /\ holder \in Calls \cup {None}
  /\ listed \in [Calls -> SUBSET Names]

\* Type correctness of the client library.
THEOREM CallsTypeCorrect == CallsSpec => []CallsTypeOK
<1>1. CallsInit => ClientTypeOK
  BY DEF CallsInit, ClientTypeOK
<1>2. ClientTypeOK /\ [CallsNext]_callVars => ClientTypeOK'
  <2> SUFFICES ASSUME ClientTypeOK, [CallsNext]_callVars PROVE ClientTypeOK'
    OBVIOUS
  <2> USE DEF ClientTypeOK
  <2>1. ASSUME NEW c \in Calls, NEW f \in DOMAIN RpcOf \cup {"status"},
               CallFails(c, f)
        PROVE  ClientTypeOK'
    BY <2>1 DEF CallFails, Api
  <2>2. ASSUME NEW c \in Calls, NEW f \in DOMAIN RpcOf, NEW n \in Names,
               Invoke(c, f, n)
        PROVE  ClientTypeOK'
    BY <2>2 DEF Invoke, Api, AtOnce
  <2>3. ASSUME AllDie PROVE ClientTypeOK'
    BY <2>3 DEF AllDie
  <2>4. ASSUME NEW c \in Calls, Response(c) \/ RpcBreaks(c) PROVE ClientTypeOK'
    BY <2>4, ParsedCode DEF Response, RpcBreaks
  <2>5. ASSUME NEW c \in Calls,
               CallbackStart(c) \/ CallbackNull(c) \/ CallbackAsks(c) \/ CallbackDone(c)
        PROVE  ClientTypeOK'
    BY <2>5 DEF CallbackStart, CallbackNull, AfterNull, CallbackAsks, CallbackDone
  <2>6. ASSUME NEW c \in Calls, NEW n \in Names, StatusCall(c, n)
        PROVE  ClientTypeOK'
    BY <2>6 DEF StatusCall, ParseInfo, Api
  <2>7. ASSUME NEW c \in Calls,
               ListFree(c) \/ ListAnswer(c) \/ ListFails(c) \/ ListKeep(c)
        PROVE  ClientTypeOK'
    BY <2>7 DEF ListFree, ListAnswer, ListFails, ListKeep, RunningNames, Api
  <2>8. ASSUME NEW c \in Calls, ServerStep(c) PROVE ClientTypeOK'
    BY <2>8 DEF ServerStep, clientVars
  <2>9. CASE UNCHANGED callVars
    BY <2>9 DEF callVars, clientVars
  <2> QED BY <2>1, <2>2, <2>3, <2>4, <2>5, <2>6, <2>7, <2>8, <2>9
          DEF CallsNext, Panic, ClientKilled
<1>3. RegTypeOK /\ ClientTypeOK => CallsTypeOK
  BY DEF ClientTypeOK, CallsTypeOK
<1> QED BY <1>1, <1>2, <1>3, RegistryTyped, PTL DEF CallsSpec

-----------------------------------------------------------------------------
(* Callbacks *)

\* No two callbacks run at once, and Mutex belongs to the call of the one that runs.
THEOREM CallbacksExclusiveHolds == CallsSpec => []CallbacksExclusive
<1>1. CallsInit => CallbacksExclusive
  BY NoneAssumption DEF CallsInit, CallbacksExclusive, InCallback
<1>2. CallsTypeOK /\ CallbacksExclusive /\ [CallsNext]_callVars => CallbacksExclusive'
  <2> SUFFICES ASSUME CallsTypeOK, CallbacksExclusive, [CallsNext]_callVars
               PROVE  CallbacksExclusive'
    OBVIOUS
  <2> USE NoneAssumption DEF CallsTypeOK, CallbacksExclusive, InCallback
  <2>1. ASSUME NEW c \in Calls, NEW f, CallFails(c, f) PROVE CallbacksExclusive'
    BY <2>1 DEF CallFails
  <2>2. ASSUME NEW c \in Calls, NEW f, NEW n, Invoke(c, f, n)
        PROVE  CallbacksExclusive'
    BY <2>2 DEF Invoke
  <2>3. ASSUME AllDie PROVE CallbacksExclusive'
    BY <2>3 DEF AllDie
  <2>4. ASSUME NEW c \in Calls, Response(c) \/ RpcBreaks(c)
        PROVE  CallbacksExclusive'
    BY <2>4 DEF Response, RpcBreaks
  <2>5. ASSUME NEW c \in Calls, CallbackStart(c) \/ CallbackNull(c)
        PROVE  CallbacksExclusive'
    BY <2>5 DEF CallbackStart, CallbackNull, AfterNull, MutexFree
  <2>6. ASSUME NEW c \in Calls, CallbackAsks(c) \/ CallbackDone(c)
        PROVE  CallbacksExclusive'
    BY <2>6 DEF CallbackAsks, CallbackDone
  <2>7. ASSUME NEW c \in Calls, NEW n, StatusCall(c, n)
        PROVE  CallbacksExclusive'
    BY <2>7 DEF StatusCall
  <2>8. ASSUME NEW c \in Calls,
               ListFree(c) \/ ListAnswer(c) \/ ListFails(c) \/ ListKeep(c)
        PROVE  CallbacksExclusive'
    BY <2>8 DEF ListFree, ListAnswer, ListFails, ListKeep
  <2>9. ASSUME NEW c \in Calls, ServerStep(c) PROVE CallbacksExclusive'
    BY <2>9 DEF ServerStep, clientVars
  <2>10. CASE UNCHANGED callVars
    BY <2>10 DEF callVars, clientVars
  <2> QED BY <2>1, <2>2, <2>3, <2>4, <2>5, <2>6, <2>7, <2>8, <2>9, <2>10
          DEF CallsNext, Panic, ClientKilled
<1> QED BY <1>1, <1>2, CallsTypeCorrect, PTL DEF CallsSpec

\* The library's lists are left alone while a callback runs.
THEOREM ListsExclusiveHolds == CallsSpec => ListsExclusive
<1> DEFINE A == \A c \in Calls :
                  \/ cpc[c] = "idle" /\ cpc'[c] = "free"
                  \/ cpc[c] = "alloc" /\ cpc'[c] = "ret"
                  => \A d \in Calls : ~InCallback(d)
<1>1. CallsTypeOK /\ CallbacksExclusive /\ [CallsNext]_callVars => [A]_callVars
  <2> SUFFICES ASSUME CallsTypeOK, CallbacksExclusive, CallsNext, NEW x \in Calls,
                      \/ cpc[x] = "idle" /\ cpc'[x] = "free"
                      \/ cpc[x] = "alloc" /\ cpc'[x] = "ret"
               PROVE  \A d \in Calls : ~InCallback(d)
    OBVIOUS
  <2>1. MutexFree
    <3> USE DEF CallsTypeOK
    <3>1. ASSUME NEW c \in Calls, ListFree(c) \/ ListKeep(c) PROVE MutexFree
      BY <3>1 DEF ListFree, ListKeep
    <3>2. ASSUME NEW c \in Calls, ListAnswer(c) \/ ListFails(c) PROVE FALSE
      BY <3>2 DEF ListAnswer, ListFails
    <3>3. ASSUME NEW c \in Calls, NEW f, CallFails(c, f) PROVE FALSE
      BY <3>3 DEF CallFails
    <3>4. ASSUME NEW c \in Calls, NEW f, NEW n, Invoke(c, f, n) PROVE FALSE
      BY <3>4 DEF Invoke
    <3>5. ASSUME AllDie PROVE FALSE
      BY <3>5 DEF AllDie
    <3>6. ASSUME NEW c \in Calls, Response(c) \/ RpcBreaks(c) PROVE FALSE
      BY <3>6 DEF Response, RpcBreaks
    <3>7. ASSUME NEW c \in Calls,
                 CallbackStart(c) \/ CallbackNull(c) \/ CallbackAsks(c) \/ CallbackDone(c)
          PROVE  FALSE
      BY <3>7 DEF CallbackStart, CallbackNull, CallbackAsks, CallbackDone
    <3>8. ASSUME NEW c \in Calls, NEW n, StatusCall(c, n) PROVE FALSE
      BY <3>8 DEF StatusCall
    <3>9. ASSUME NEW c \in Calls, ServerStep(c) PROVE FALSE
      BY <3>9 DEF ServerStep, clientVars
    <3> QED BY <3>1, <3>2, <3>3, <3>4, <3>5, <3>6, <3>7, <3>8, <3>9
            DEF CallsNext, Panic, ClientKilled
  <2> QED BY <2>1, NoneAssumption DEF MutexFree, CallbacksExclusive
<1> QED BY <1>1, CallsTypeCorrect, CallbacksExclusiveHolds, PTL
        DEF CallsSpec, ListsExclusive

-----------------------------------------------------------------------------
(* Queries *)

\* The names that are taken are those of the active launches.
LEMMA TakenIsActive ==
  ASSUME RegTypeOK, OwnerRegistered, NoStaleEntry, NEW n \in Names
  PROVE  Taken(n) <=> \E x \in Calls : Active(x) /\ name[x] = n
<1>1. ASSUME Taken(n) PROVE \E x \in Calls : Active(x) /\ name[x] = n
  <2>1. ctxMap[n] \in Calls
    BY <1>1 DEF Taken, RegTypeOK
  <2> QED BY <1>1, <2>1 DEF Taken, NoStaleEntry
<1>2. ASSUME NEW x \in Calls, Active(x), name[x] = n PROVE Taken(n)
  BY <1>2, NoneAssumption DEF Taken, OwnerRegistered
<1> QED BY <1>1, <1>2

\* Both questions are answered with what is running, from the registration of a
\* launch to the end of its task.
THEOREM QueriesTruthfulHolds == CallsSpec => QueriesTruthful
<1> DEFINE A(c) ==
      /\ \A n \in Names :
           StatusCall(c, n)
             => (code'[c] = 1 <=> \E x \in Calls : Active(x) /\ name[x] = n)
      /\ ListAnswer(c)
           => listed'[c] = {name[x] : x \in {y \in Calls : Active(y)}}
<1>1. CallsTypeOK /\ OwnerRegistered /\ NoStaleEntry => \A c \in Calls : A(c)
  <2> SUFFICES ASSUME CallsTypeOK, OwnerRegistered, NoStaleEntry, NEW c \in Calls
               PROVE  A(c)
    OBVIOUS
  <2>1. RegTypeOK
    BY DEF CallsTypeOK
  <2>2. ASSUME NEW n \in Names, StatusCall(c, n)
        PROVE  code'[c] = 1 <=> \E x \in Calls : Active(x) /\ name[x] = n
    <3>1. code'[c] = ParseInfo(Taken(n))
      <4>1. code'[c] = ParseInfo(n \in RunningNames)
        BY <2>2 DEF StatusCall, CallsTypeOK
      <4>2. (n \in RunningNames) <=> Taken(n)
        BY DEF RunningNames
      <4> QED BY <4>1, <4>2 DEF ParseInfo
    <3>2. code'[c] = 1 <=> Taken(n)
      BY <3>1 DEF ParseInfo
    <3> QED BY <2>1, <3>2, TakenIsActive
  <2>3. ASSUME ListAnswer(c)
        PROVE  listed'[c] = {name[x] : x \in {y \in Calls : Active(y)}}
    <3>1. listed'[c] = RunningNames
      BY <2>3 DEF ListAnswer, CallsTypeOK
    <3>2. \A x \in Calls : name[x] \in Names
      BY <2>1 DEF RegTypeOK
    <3> QED BY <2>1, <3>1, <3>2, TakenIsActive DEF RunningNames
  <2> QED BY <2>2, <2>3
<1>2. CallsSpec => [](CallsTypeOK /\ OwnerRegistered /\ NoStaleEntry)
  BY CallsRefineRegistry, CallsTypeCorrect, OwnerRegisteredHolds,
     NoStaleEntryHolds, PTL
<1>3. CallsTypeOK /\ OwnerRegistered /\ NoStaleEntry
        => [\A c \in Calls : A(c)]_callVars
  BY <1>1
<1> QED BY <1>2, <1>3, PTL DEF CallsSpec, QueriesTruthful

-----------------------------------------------------------------------------
(* Over is over *)

\* Only "fin" is told as 0, end_ok.
LEMMA ZeroIsFin == \A status : ParseStatus(status) = 0 => status = "fin"
  BY DEF ParseStatus

CallInv(c) ==
  /\ cpc[c] \in {"rpc", "lock", "callback", "relock"}
       => api[c] \in DOMAIN RpcOf /\ op[c] = RpcOf[api[c]]
  /\ cpc[c] \in {"lock", "callback", "relock"} => api[c] = "cb"
  /\ api[c] \in {"run", "command"} /\ code[c] = 0 => cancelled[c]

\* Client and handler agree on what the call is, and a blocking launch that
\* returned 0 was cancelled.
LEMMA CallInvariant == CallsSpec => [](\A c \in Calls : CallInv(c))
<1> DEFINE Inv == \A c \in Calls : CallInv(c)
<1>1. CallsInit => Inv
  BY NoCodeAssumption DEF CallsInit, CallInv
<1>2. CallsTypeOK /\ AnswerInv /\ Inv /\ [CallsNext]_callVars => Inv'
  <2> SUFFICES ASSUME CallsTypeOK, AnswerInv, Inv, [CallsNext]_callVars,
                      NEW x \in Calls
               PROVE  CallInv(x)'
    OBVIOUS
  <2>1. cancelled[x] => cancelled'[x]
    BY CancelledStays, StepOfRegistry DEF CallsTypeOK
  <2>2. CallInv(x)
    OBVIOUS
  <2> USE <2>1, <2>2, NoCodeAssumption DEF CallsTypeOK, CallInv
  <2>3. ASSUME NEW c \in Calls, NEW f \in DOMAIN RpcOf \cup {"status"},
               CallFails(c, f)
        PROVE  CallInv(x)'
    BY <2>3 DEF CallFails, regVars
  <2>4. ASSUME NEW c \in Calls, NEW f \in DOMAIN RpcOf, NEW n \in Names,
               Invoke(c, f, n)
        PROVE  CallInv(x)'
    <3>1. op' = [op EXCEPT ![c] = RpcOf[f]]
      BY <2>4 DEF Invoke, RpcOf, RunOps, RunBusy, RunRegister, StopUnknown,
         StopLookup, StopAll, Arrive
    <3>2. AtOnce(f) = 0 => f = "cb"
      BY DEF AtOnce
    <3> QED BY <2>4, <3>1, <3>2 DEF Invoke, RegTypeOK
  <2>5. ASSUME AllDie PROVE CallInv(x)'
    BY <2>5 DEF AllDie, regVars
  <2>6. ASSUME NEW c \in Calls, Response(c) PROVE CallInv(x)'
    <3>1. CASE api[c] = "cb"
      BY <2>6, <3>1 DEF Response, regVars
    <3>2. CASE api[c] # "cb"
      <4>1. /\ cpc' = [cpc EXCEPT ![c] = "ret"]
            /\ code' = [code EXCEPT ![c] = ParseStatus(answer[c])]
            /\ UNCHANGED <<regVars, api>>
            /\ cpc[c] = "rpc"
        BY <2>6, <3>2 DEF Response
      <4>2. CASE x = c
        <5>1. ASSUME api[c] \in {"run", "command"}, code'[c] = 0
              PROVE  cancelled[c]
          <6>1. answer[c] = "fin"
            BY <4>1, <5>1, ZeroIsFin
          <6>2. op[c] \in RunOps
            BY <4>1, <4>2, <5>1 DEF RpcOf, RunOps
          <6> QED BY <6>1, <6>2 DEF AnswerInv
        <5> QED BY <4>1, <4>2, <5>1 DEF regVars
      <4>3. CASE x # c
        BY <4>1, <4>3 DEF regVars
      <4> QED BY <4>2, <4>3
    <3> QED BY <3>1, <3>2
  <2>7. ASSUME NEW c \in Calls, RpcBreaks(c) PROVE CallInv(x)'
    BY <2>7 DEF RpcBreaks, regVars
  <2>8. ASSUME NEW c \in Calls,
               CallbackStart(c) \/ CallbackNull(c) \/ CallbackAsks(c) \/ CallbackDone(c)
        PROVE  CallInv(x)'
    BY <2>8 DEF CallbackStart, CallbackNull, CallbackAsks, CallbackDone, regVars
  <2>9. ASSUME NEW c \in Calls, NEW n \in Names, StatusCall(c, n)
        PROVE  CallInv(x)'
    BY <2>9 DEF StatusCall, regVars
  <2>10. ASSUME NEW c \in Calls,
                ListFree(c) \/ ListAnswer(c) \/ ListFails(c) \/ ListKeep(c)
         PROVE  CallInv(x)'
    BY <2>10 DEF ListFree, ListAnswer, ListFails, ListKeep, regVars
  <2>11. ASSUME NEW c \in Calls, ServerStep(c) PROVE CallInv(x)'
    <3>1. UNCHANGED <<op, clientVars>>
      BY <2>11 DEF ServerStep, RunNotFound, RunDispatch, RunDone, RunClientGone,
         TaskCancel, TaskEnd, StopCancel
    <3> QED BY <3>1 DEF clientVars
  <2>12. CASE UNCHANGED callVars
    BY <2>12 DEF callVars, clientVars, regVars
  <2> QED BY <2>3, <2>4, <2>5, <2>6, <2>7, <2>8, <2>9, <2>10, <2>11, <2>12
          DEF CallsNext, Panic, ClientKilled
<1>3. CallsSpec => []AnswerInv
  BY CallsRefineRegistry, AnswerInvariant, PTL
<1> QED BY <1>1, <1>2, <1>3, CallsTypeCorrect, PTL DEF CallsSpec

\* A client that is told that its launch is over can rely on it.
THEOREM OverIsOverHolds == CallsSpec => []OverIsOver
<1>1. AnswerInv /\ (\A c \in Calls : CallInv(c)) => OverIsOver
  BY DEF AnswerInv, CallInv, OverIsOver, ToldOver, RpcOf, RunOps
<1>2. CallsSpec => []AnswerInv
  BY CallsRefineRegistry, AnswerInvariant, PTL
<1> QED BY <1>1, <1>2, CallInvariant, PTL
=============================================================================
