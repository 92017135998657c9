--------------------------- MODULE LaunchersProofs ---------------------------
(***************************************************************************)
(* Theorems about the launchers, for every set of children that has theirs     *)
(* and for everything the environment may do.                                *)
(***************************************************************************)
EXTENDS Launchers, TLAPS

-----------------------------------------------------------------------------
(* Types *)

\* SignalHandler kills somebody only while its list is not empty.
SigInv ==
  /\ SigTypeOK
  /\ hPc # "select" => children # <<>>

\* A step of the signal handler, of a waiter, of a child or of the sender of a
\* signal keeps the types, and the handler kills only while it has a list.
LEMMA SigTyped == SigInv /\ SigNext => SigInv'
<1> SUFFICES ASSUME SigInv, SigNext PROVE SigInv'
  OBVIOUS
<1> USE DEF SigInv, SigTypeOK
<1>1. CASE HandlerPid
  <2>1. /\ Head(pidChan) \in Child
        /\ Tail(pidChan) \in Seq(Child)
        /\ Len(Tail(pidChan)) <= 2
    BY <1>1 DEF HandlerPid
  <2> QED BY <1>1, <2>1 DEF HandlerPid
<1>2. CASE HandlerSignal
  BY <1>2 DEF HandlerSignal
<1>3. CASE HandlerKill
  BY <1>3 DEF HandlerKill, Termed
<1>4. CASE HandlerSpinEnd
  BY <1>4 DEF HandlerSpinEnd, Rest
<1>5. ASSUME NEW c \in Child, ChildExit(c) PROVE SigInv'
  BY <1>5 DEF ChildExit
<1>6. ASSUME NEW c \in Child, WaitReap(c) PROVE SigInv'
  BY <1>6 DEF WaitReap
<1>7. ASSUME NEW c \in Child, WaitKill(c) PROVE SigInv'
  BY <1>7 DEF WaitKill, Raise
<1>8. CASE Stop
  BY <1>8 DEF Stop, Raise
<1> QED BY <1>1, <1>2, <1>3, <1>4, <1>5, <1>6, <1>7, <1>8 DEF SigNext, HandlerStep

WlInv ==
  /\ WlTypeOK
  /\ hPc # "select" => children # <<>>

\* So does a step of the sender launcher's main.
LEMMA WlMainTyped == WlInv /\ MainStep => WlInv'
<1> SUFFICES ASSUME WlInv, MainStep PROVE WlInv'
  OBVIOUS
<1> USE ChildAssumption DEF WlInv, WlTypeOK, SigTypeOK, At, Leave, Order
<1>1. CASE Begin
  BY <1>1 DEF Begin
<1>2. ASSUME NEW c \in Child, NEW next \in {"devices", "socket", "collect"},
             StartChild(c, next) \/ StartFail(c)
      PROVE  WlInv'
  BY <1>2 DEF StartChild, StartFail
<1>3. ASSUME NEW where, NEW c, NEW next \in {"connect", "wlproxy", "app"},
             Ready(where, c, next) \/ NotReady(where, c)
      PROVE  WlInv'
  BY <1>3 DEF Ready, NotReady, sigVars
<1>4. CASE BadTarget
  BY <1>4 DEF BadTarget
<1>5. CASE SendPid
  <2>1. Turn(sent) \in Child
    BY <1>5 DEF SendPid, Turn
  <2> QED BY <1>5, <2>1 DEF SendPid, Room
<1>6. CASE Panic
  BY <1>6 DEF Panic
<1>7. CASE Collected
  BY <1>7 DEF Collected, Raise
<1>8. CASE Finish
  BY <1>8 DEF Finish
<1> QED BY <1>1, <1>2, <1>3, <1>4, <1>5, <1>6, <1>7, <1>8 DEF MainStep

\* Where a renderer's launcher is, it has this behind it.
RendererInv ==
  /\ SigInv
  /\ pc \in {"dial", "notify", "renderer", "pid", "wait", "end", "exit"}
  /\ pc \in {"dial", "notify", "renderer", "pid"} => pidChan = <<>>
  /\ pc \in {"dial", "notify", "renderer", "exit"} => proc["renderer"] = "none"
  /\ pc \in {"renderer", "pid", "wait", "end"} => notified
  /\ self = "dead" => pc \in {"dial", "notify", "exit", "end"}

\* A step of the renderer launcher's main keeps what lies behind it: the channel
\* is empty until the pid is handed over, and a handler is there before the child.
LEMMA RendererMainTyped == RendererInv /\ R!RendererStep => RendererInv'
<1> SUFFICES ASSUME RendererInv, R!RendererStep PROVE RendererInv'
  OBVIOUS
<1> USE RendererAssumption DEF RendererInv, SigInv, SigTypeOK, R!RendererAt, R!RendererLeave
<1>1. CASE R!Dialled
  BY <1>1 DEF R!Dialled, R!sigVars
<1>2. CASE R!DialFails
  BY <1>2 DEF R!DialFails
<1>3. CASE R!Notify
  BY <1>3 DEF R!Notify
<1>4. CASE R!StartRenderer
  BY <1>4 DEF R!StartRenderer, R!StartDue
<1>5. CASE R!StartFails
  BY <1>5 DEF R!StartFails, R!Raise
<1>6. CASE R!HandOver
  <2>1. pidChan = <<>> /\ pidChan' = <<"renderer">>
    BY <1>6 DEF R!HandOver
  <2> QED BY <1>6, <2>1 DEF R!HandOver
<1>7. CASE R!RendererEnds
  BY <1>7 DEF R!RendererEnds
<1> QED BY <1>1, <1>2, <1>3, <1>4, <1>5, <1>6, <1>7 DEF R!RendererStep

\* A step of anybody else keeps it too: a signal is fatal only before Notify.
LEMMA RendererSigTyped ==
  ASSUME RendererInv, SigNext, UNCHANGED pc PROVE RendererInv'
<1>1. SigInv'
  BY SigTyped DEF RendererInv
<1> USE RendererAssumption DEF RendererInv, SigInv, SigTypeOK
<1>2. CASE HandlerStep
  BY <1>1, <1>2 DEF HandlerStep, HandlerPid, HandlerSignal, HandlerKill, Termed,
     HandlerSpinEnd
<1>3. ASSUME NEW c \in Child, ChildExit(c) \/ WaitReap(c) \/ WaitKill(c)
      PROVE  RendererInv'
  BY <1>1, <1>3 DEF ChildExit, WaitReap, WaitKill, Raise
<1>4. CASE Stop
  BY <1>1, <1>4 DEF Stop, Raise
<1> QED BY <1>2, <1>3, <1>4 DEF SigNext

LaunchersInv ==
  \/ prog = "wl-send" /\ WlInv
  \/ prog = "renderer" /\ RendererInv /\ failed = FALSE /\ sent = 0

\* Both programs keep their types, and no channel of theirs holds more than
\* its capacity.
THEOREM LaunchersInvariant == LaunchersSpec => []LaunchersInv
<1>1. LaunchersInit => LaunchersInv
  <2>1. SigInit => SigInv
    <3>1. <<>> \in Seq(Child) /\ Len(<<>>) <= 2
      OBVIOUS
    <3> QED BY <3>1 DEF SigInit, SigInv, SigTypeOK
  <2>2. WlInit => WlInv
    <3>1. 0 \in 0..Len(Order)
      BY DEF Order
    <3> QED BY <2>1, <3>1 DEF WlInit, WlInv, WlTypeOK, SigInv
  <2>3. R!RendererInit => RendererInv
    BY <2>1, RendererAssumption
       DEF R!RendererInit, R!SigInit, SigInit, RendererInv
  <2> QED BY <2>2, <2>3 DEF LaunchersInit, LaunchersInv
<1>2. LaunchersInv /\ [LaunchersNext]_launcherVars => LaunchersInv'
  <2> SUFFICES ASSUME LaunchersInv, [LaunchersNext]_launcherVars
               PROVE  LaunchersInv'
    OBVIOUS
  <2>1. CASE prog = "wl-send" /\ LaunchersNext
    <3>1. WlInv /\ prog' = "wl-send"
      BY <2>1 DEF LaunchersInv, LaunchersNext
    <3>2. CASE MainStep
      BY <3>1, <3>2, WlMainTyped DEF LaunchersInv
    <3>3. CASE SigNext /\ UNCHANGED <<pc, failed, sent>>
      <4>1. SigInv'
        BY <3>1, <3>3, SigTyped DEF WlInv, WlTypeOK, SigInv
      <4> QED BY <3>1, <3>3, <4>1 DEF LaunchersInv, WlInv, WlTypeOK, SigInv
    <3> QED BY <2>1, <3>2, <3>3 DEF LaunchersNext, Main
  <2>2. CASE prog = "renderer" /\ LaunchersNext
    <3>1. RendererInv /\ failed = FALSE /\ sent = 0 /\ prog' = "renderer"
      BY <2>2 DEF LaunchersInv, LaunchersNext
    <3>2. CASE R!RendererStep /\ UNCHANGED <<failed, sent>>
      BY <3>1, <3>2, RendererMainTyped DEF LaunchersInv
    <3>3. CASE SigNext /\ UNCHANGED <<pc, failed, sent>>
      BY <3>1, <3>3, RendererSigTyped DEF LaunchersInv
    <3> QED BY <2>2, <3>2, <3>3 DEF LaunchersNext, Main
  <2>3. CASE UNCHANGED launcherVars
    BY <2>3 DEF LaunchersInv, WlInv, WlTypeOK, SigTypeOK, RendererInv, SigInv,
       launcherVars, wlVars, sigVars
  <2> QED BY <2>1, <2>2, <2>3 DEF LaunchersInv
<1> QED BY <1>1, <1>2, PTL DEF LaunchersSpec

\* Type correctness of all launchers.
THEOREM LaunchersTypeCorrect == LaunchersSpec => []LaunchersTypeOK
<1>1. LaunchersInv => LaunchersTypeOK
  BY DEF LaunchersInv, LaunchersTypeOK, WlInv, RendererInv, SigInv
<1> QED BY <1>1, LaunchersInvariant, PTL

-----------------------------------------------------------------------------
(* Nobody is left behind *)

\* The places of ucl-virtio-gpu-wl-send before it starts child c.
Before(c) ==
  CASE c = "proxy"   -> {"begin", "proxy"}
    [] c = "wlproxy" -> {"begin", "proxy", "devices", "connect", "wlproxy"}
    [] OTHER         -> {"begin", "proxy", "devices", "connect", "wlproxy",
                         "socket", "app"}

\* A child that runs has a WaitApp, which goes on only when it is reaped; the
\* exception is rvgpu-renderer between cmd.Start() and go WaitApp.
WaitInv(c) ==
  /\ waiter[c] = "off"
       => proc[c] \in {"none", "failed"} \/ (pc = "pid" /\ c = "renderer")
  /\ waiter[c] \in {"kill", "done"} => proc[c] = "reaped"
  /\ prog = "wl-send" /\ c \in {"proxy", "wlproxy", "app"} /\ pc \in Before(c)
       => waiter[c] = "off" /\ proc[c] = "none"
  /\ prog = "renderer" /\ c # "renderer" => waiter[c] = "off" /\ proc[c] = "none"
  /\ prog = "renderer" /\ pc \in {"dial", "notify", "renderer", "pid"}
       => waiter[c] = "off"
  /\ pc = "end" => self = "dead" /\ waiter[c] \in {"off", "done"}

\* Handler, waiters and children keep WaitInv: who is killed, ends or is reaped
\* is not started by it, and main does not move.
LEMMA SigWaits ==
  ASSUME SigTypeOK, NEW c \in Child, WaitInv(c), SigNext, UNCHANGED <<pc, prog>>
  PROVE  WaitInv(c)'
<1> USE DEF SigTypeOK, WaitInv
<1>1. CASE HandlerStep
  <2>1. UNCHANGED <<waiter, self>>
    BY <1>1 DEF HandlerStep, HandlerPid, HandlerSignal, HandlerKill, HandlerSpinEnd
  <2>2. proc'[c] = proc[c] \/ (proc[c] = "run" /\ proc'[c] = "termed")
    BY <1>1 DEF HandlerStep, HandlerPid, HandlerSignal, HandlerKill, Termed,
       HandlerSpinEnd
  <2> QED BY <2>1, <2>2
<1>2. ASSUME NEW d \in Child, ChildExit(d) PROVE WaitInv(c)'
  BY <1>2 DEF ChildExit
<1>3. ASSUME NEW d \in Child, WaitReap(d) PROVE WaitInv(c)'
  BY <1>3 DEF WaitReap
<1>4. ASSUME NEW d \in Child, WaitKill(d) PROVE WaitInv(c)'
  BY <1>4 DEF WaitKill, Raise
<1>5. CASE Stop
  BY <1>5 DEF Stop, Raise
<1> QED BY <1>1, <1>2, <1>3, <1>4, <1>5 DEF SigNext

\* Main of the sender launcher keeps it: a child is started with its waiter, and
\* main ends only when every waiter is done.
LEMMA WlMainWaits ==
  ASSUME WlTypeOK, prog = "wl-send", \A d \in Child : WaitInv(d), MainStep,
         UNCHANGED prog, NEW c \in Child
  PROVE  WaitInv(c)'
<1>1. WaitInv(c)
  OBVIOUS
<1> USE <1>1, ChildAssumption DEF WlTypeOK, SigTypeOK, WaitInv, At, Leave, Before
<1>2. CASE Begin
  BY <1>2 DEF Begin
<1>3. ASSUME NEW d \in {"proxy", "wlproxy", "app"}, NEW next,
             d = "proxy" => next = "devices",
             d = "wlproxy" => next = "socket",
             d = "app" => next = "collect",
             StartChild(d, next)
      PROVE  WaitInv(c)'
  <2>1. pc = d /\ pc' = next /\ UNCHANGED self
    BY <1>3 DEF StartChild
  <2>2. proc' = [proc EXCEPT ![d] = "run"] /\ waiter' = [waiter EXCEPT ![d] = "wait"]
    BY <1>3 DEF StartChild
  <2>3. CASE c = d
    BY <1>3, <2>1, <2>2, <2>3
  <2>4. CASE c # d
    BY <1>3, <2>1, <2>2, <2>4
  <2> QED BY <2>3, <2>4
<1>4. ASSUME NEW d \in {"proxy", "wlproxy", "app"}, StartFail(d)
      PROVE  WaitInv(c)'
  <2>1. pc = d /\ pc' = "collect" /\ UNCHANGED <<self, waiter>>
    BY <1>4 DEF StartFail
  <2>2. proc' = [proc EXCEPT ![d] = "failed"]
    BY <1>4 DEF StartFail
  <2>3. waiter[d] = "off"
    BY <1>4, <2>1
  <2> QED BY <1>4, <2>1, <2>2, <2>3
<1>5. ASSUME NEW where, NEW d, NotReady(where, d) PROVE WaitInv(c)'
  BY <1>5 DEF NotReady, sigVars
<1>6. ASSUME Ready("devices", "proxy", "connect") PROVE WaitInv(c)'
  BY <1>6 DEF Ready, sigVars
<1>7. ASSUME Ready("connect", "proxy", "wlproxy") PROVE WaitInv(c)'
  BY <1>7 DEF Ready, sigVars
<1>8. ASSUME Ready("socket", "wlproxy", "app") PROVE WaitInv(c)'
  BY <1>8 DEF Ready, sigVars
<1>9. CASE BadTarget \/ Panic
  BY <1>9 DEF BadTarget, Panic
<1>10. CASE SendPid
  BY <1>10 DEF SendPid
<1>11. CASE Collected
  BY <1>11 DEF Collected, Raise
<1>12. CASE Finish
  BY <1>12 DEF Finish, Waited
<1> QED BY <1>2, <1>3, <1>4, <1>5, <1>6, <1>7, <1>8, <1>9, <1>10, <1>11, <1>12
        DEF MainStep

\* Main of the renderer launcher keeps it; there the waiter starts a step later.
LEMMA RendererWaits ==
  ASSUME SigTypeOK, prog = "renderer", RendererInv, \A d \in Child : WaitInv(d),
         R!RendererStep, UNCHANGED prog, NEW c \in Child
  PROVE  WaitInv(c)'
<1>1. WaitInv(c)
  OBVIOUS
<1> USE <1>1, RendererAssumption
        DEF SigTypeOK, RendererInv, WaitInv, R!RendererAt, R!RendererLeave
<1>2. CASE R!Dialled
  BY <1>2 DEF R!Dialled, R!sigVars
<1>3. CASE R!DialFails
  BY <1>3 DEF R!DialFails
<1>4. CASE R!Notify
  BY <1>4 DEF R!Notify
<1>5. CASE R!StartRenderer
  <2>1. waiter["renderer"] = "off"
    BY <1>5 DEF R!StartRenderer, R!StartDue
  <2> QED BY <1>5, <2>1 DEF R!StartRenderer, R!StartDue
<1>6. CASE R!StartFails
  BY <1>6 DEF R!StartFails, R!Raise
<1>7. CASE R!HandOver
  BY <1>7 DEF R!HandOver
<1>8. CASE R!RendererEnds
  BY <1>8 DEF R!RendererEnds
<1> QED BY <1>2, <1>3, <1>4, <1>5, <1>6, <1>7, <1>8 DEF R!RendererStep

\* Every child that was started is waited for.
THEOREM WaitInvariant == LaunchersSpec => [](\A c \in Child : WaitInv(c))
<1> DEFINE Inv == \A c \in Child : WaitInv(c)
<1>1. LaunchersInit => Inv
  BY DEF LaunchersInit, WlInit, SigInit, R!RendererInit, R!SigInit, WaitInv, Before
<1>2. LaunchersInv /\ Inv /\ [LaunchersNext]_launcherVars => Inv'
  <2> SUFFICES ASSUME LaunchersInv, Inv, [LaunchersNext]_launcherVars,
                      NEW c \in Child
               PROVE  WaitInv(c)'
    OBVIOUS
  <2>1. SigTypeOK
    BY DEF LaunchersInv, WlInv, WlTypeOK, RendererInv, SigInv
  <2>2. CASE UNCHANGED launcherVars
    BY <2>2 DEF launcherVars, wlVars, sigVars, WaitInv
  <2>3. CASE SigNext /\ UNCHANGED <<pc, failed, sent, prog>>
    BY <2>1, <2>3, SigWaits
  <2>4. CASE prog = "wl-send" /\ MainStep /\ UNCHANGED prog
    BY <2>4, WlMainWaits DEF LaunchersInv, WlInv
  <2>5. CASE prog = "renderer" /\ R!RendererStep /\ UNCHANGED prog
    BY <2>1, <2>5, RendererWaits DEF LaunchersInv
  <2> QED BY <2>2, <2>3, <2>4, <2>5 DEF LaunchersNext, Main
<1> QED BY <1>1, <1>2, LaunchersInvariant, PTL DEF LaunchersSpec

\* A launcher that returns from main leaves no child.
THEOREM CleanEndHolds == LaunchersSpec => []CleanEnd
<1>1. (\A c \in Child : WaitInv(c)) => CleanEnd
  BY DEF WaitInv, CleanEnd, Alive
<1> QED BY <1>1, WaitInvariant, PTL

\* A renderer's launcher leaves its renderer in no way at all.
THEOREM RendererNoOrphanHolds == LaunchersSpec => []RendererNoOrphan
<1>1. LaunchersInv /\ (\A c \in Child : WaitInv(c)) => RendererNoOrphan
  <2> SUFFICES ASSUME LaunchersInv, \A c \in Child : WaitInv(c),
                      prog = "renderer", self = "dead"
               PROVE  proc["renderer"] # "run"
    BY DEF RendererNoOrphan
  <2>1. RendererInv /\ WaitInv("renderer")
    BY RendererAssumption DEF LaunchersInv
  <2> QED BY <2>1 DEF RendererInv, WaitInv
<1> QED BY <1>1, LaunchersInvariant, WaitInvariant, PTL

-----------------------------------------------------------------------------
(* The order of the kills *)

Ours == {"app", "wlproxy", "proxy"}

Rank == [c \in Ours |-> CASE c = "app" -> 1 [] c = "wlproxy" -> 2 [] OTHER -> 3]

\* WAIT_ALL hands the children over in the order of their ranks, rvgpu-proxy last.
LEMMA RankOfTurn ==
  /\ \A c \in Ours : Rank[c] \in 1..3
  /\ \A c, d \in Ours : Rank[c] = Rank[d] => c = d
  /\ Len(Order) = 3
  /\ \A n \in 0..2 : Turn(n) \in Ours /\ Rank[Turn(n)] = n + 1
  /\ Rank["proxy"] = 3
  BY DEF Ours, Rank, Order, Turn

\* Child c is in the channel or with the handler.
Known(c) ==
  \/ \E i \in 1..Len(children) : children[i] = c
  \/ \E j \in 1..Len(pidChan) : pidChan[j] = c

\* The handler's list and the channel behind it are in the order of WAIT_ALL,
\* and whoever had its turn is in them or gone.
KillInv ==
  /\ sent > 0 => pc \in {"collect", "wait", "end", "panic"}
  /\ \A i \in 1..Len(children) : children[i] \in Ours /\ Rank[children[i]] <= sent
  /\ \A j \in 1..Len(pidChan) : pidChan[j] \in Ours /\ Rank[pidChan[j]] <= sent
  /\ \A i, j \in 1..Len(children) : i < j => Rank[children[i]] < Rank[children[j]]
  /\ \A i, j \in 1..Len(pidChan) : i < j => Rank[pidChan[i]] < Rank[pidChan[j]]
  /\ \A i \in 1..Len(children), j \in 1..Len(pidChan) :
       Rank[children[i]] < Rank[pidChan[j]]
  /\ \A c \in Ours : Rank[c] <= sent /\ Alive(c) => Known(c)
  /\ proc["proxy"] = "termed" => sent = 3 /\ ~Alive("app") /\ ~Alive("wlproxy")

\* A step that leaves list, channel and turns alone keeps KillInv, if it
\* revives nobody and terminates nobody.
LEMMA KillInvStays ==
  ASSUME WlInv, KillInv, UNCHANGED <<children, pidChan, sent>>,
         sent > 0 => pc' \in {"collect", "wait", "end", "panic"},
         \A c \in Ours : Alive(c)' => Alive(c) \/ sent = 0,
         proc'["proxy"] = "termed" => proc["proxy"] = "termed"
  PROVE  KillInv'
<1>1. \A c \in Ours : Known(c)' <=> Known(c)
  BY DEF Known
<1>2. \A c \in Ours : Rank[c] \in Nat \ {0}
  BY RankOfTurn
<1>3. sent \in Nat
  BY RankOfTurn DEF WlInv, WlTypeOK
<1>4. \A c \in Ours : Rank[c] <= sent' /\ Alive(c)' => Known(c)'
  BY <1>1, <1>2, <1>3 DEF KillInv
<1>5. proc'["proxy"] = "termed" => sent' = 3 /\ ~Alive("app")' /\ ~Alive("wlproxy")'
  BY <1>3 DEF KillInv, Ours
<1> QED BY <1>4, <1>5 DEF KillInv

\* The handler takes the pid that is first in the channel.
LEMMA PidKeepsOrder ==
  ASSUME WlInv, KillInv, HandlerPid, UNCHANGED <<pc, sent>>
  PROVE  KillInv'
<1> DEFINE L == children
<1> DEFINE P == pidChan
<1>1. /\ L \in Seq(Child) /\ P \in Seq(Child) /\ P # <<>>
      /\ L' = Append(L, Head(P)) /\ P' = Tail(P)
      /\ UNCHANGED proc
  BY DEF WlInv, WlTypeOK, SigTypeOK, HandlerPid
<1>2. /\ Len(L') = Len(L) + 1 /\ L'[Len(L) + 1] = P[1]
      /\ \A i \in 1..Len(L) : L'[i] = L[i]
  BY <1>1
<1>3. /\ Len(P') = Len(P) - 1 /\ Len(P) >= 1
      /\ \A j \in 1..Len(P') : P'[j] = P[j + 1] /\ j + 1 \in 1..Len(P)
  BY <1>1
<1>4. Len(L) \in Nat /\ Len(P) \in Nat /\ sent \in Nat
  BY <1>1, RankOfTurn DEF WlInv, WlTypeOK
<1>5. ASSUME NEW c, Known(c) PROVE Known(c)'
  <2>1. CASE \E i \in 1..Len(L) : L[i] = c
    BY <1>2, <1>4, <2>1 DEF Known
  <2>2. CASE P[1] = c
    BY <1>2, <1>4, <2>2 DEF Known
  <2>3. ASSUME NEW j \in 1..Len(P), j # 1, P[j] = c PROVE Known(c)'
    <3>1. j - 1 \in 1..Len(P') /\ P'[j - 1] = c
      BY <1>3, <1>4, <2>3
    <3> QED BY <3>1 DEF Known
  <2> QED BY <1>5, <2>1, <2>2, <2>3 DEF Known
<1>6. \A c \in Ours : Rank[c] <= sent' /\ Alive(c)' => Known(c)'
  BY <1>1, <1>5 DEF KillInv, Alive
<1>7. /\ \A i \in 1..Len(L') : L'[i] \in Ours /\ Rank[L'[i]] <= sent
      /\ \A j \in 1..Len(P') : P'[j] \in Ours /\ Rank[P'[j]] <= sent
  <2>1. 1 \in 1..Len(P)
    BY <1>3, <1>4
  <2>2. ASSUME NEW i \in 1..Len(L')
        PROVE  L'[i] \in Ours /\ Rank[L'[i]] <= sent
    <3>1. CASE i \in 1..Len(L)
      BY <1>2, <3>1 DEF KillInv
    <3>2. CASE i = Len(L) + 1
      BY <1>2, <2>1, <3>2 DEF KillInv
    <3> QED BY <1>2, <1>4, <3>1, <3>2
  <2>3. ASSUME NEW j \in 1..Len(P')
        PROVE  P'[j] \in Ours /\ Rank[P'[j]] <= sent
    BY <1>3 DEF KillInv
  <2> QED BY <2>2, <2>3
<1>8. \A i, j \in 1..Len(L') : i < j => Rank[L'[i]] < Rank[L'[j]]
  <2>1. ASSUME NEW i \in 1..Len(L'), NEW j \in 1..Len(L'), i < j
        PROVE  Rank[L'[i]] < Rank[L'[j]]
    <3>1. i \in 1..Len(L)
      BY <1>2, <1>4, <2>1
    <3>2. CASE j \in 1..Len(L)
      BY <1>2, <2>1, <3>1, <3>2 DEF KillInv
    <3>3. CASE j = Len(L) + 1
      BY <1>2, <1>3, <3>1, <3>3 DEF KillInv
    <3> QED BY <1>2, <1>4, <3>2, <3>3
  <2> QED BY <2>1
<1>9. \A i, j \in 1..Len(P') : i < j => Rank[P'[i]] < Rank[P'[j]]
  <2>1. ASSUME NEW i \in 1..Len(P'), NEW j \in 1..Len(P'), i < j
        PROVE  Rank[P'[i]] < Rank[P'[j]]
    <3>1. P'[i] = P[i + 1] /\ P'[j] = P[j + 1]
      BY <1>3
    <3>2. i + 1 \in 1..Len(P) /\ j + 1 \in 1..Len(P) /\ i + 1 < j + 1
      BY <1>3, <1>4, <2>1
    <3> QED BY <3>1, <3>2 DEF KillInv
  <2> QED BY <2>1
<1>10. \A i \in 1..Len(L'), j \in 1..Len(P') : Rank[L'[i]] < Rank[P'[j]]
  <2>1. ASSUME NEW i \in 1..Len(L'), NEW j \in 1..Len(P')
        PROVE  Rank[L'[i]] < Rank[P'[j]]
    <3>1. P'[j] = P[j + 1] /\ j + 1 \in 1..Len(P) /\ 1 \in 1..Len(P) /\ 1 < j + 1
      BY <1>3, <1>4
    <3>2. CASE i \in 1..Len(L)
      BY <1>2, <3>1, <3>2 DEF KillInv
    <3>3. CASE i = Len(L) + 1
      BY <1>2, <3>1, <3>3 DEF KillInv
    <3> QED BY <1>2, <1>4, <3>2, <3>3
  <2> QED BY <2>1
<1> QED BY <1>1, <1>6, <1>7, <1>8, <1>9, <1>10 DEF KillInv, Alive

\* The handler goes on to the next child only when this one is gone.
LEMMA SpinEndKeepsOrder ==
  ASSUME WlInv, KillInv, HandlerSpinEnd, UNCHANGED <<pc, sent>>
  PROVE  KillInv'
<1> DEFINE L == children
<1>1. /\ L \in Seq(Child) /\ L # <<>> /\ L' = Tail(L) /\ ~Alive(L[1])
      /\ UNCHANGED <<proc, pidChan>>
  BY DEF WlInv, WlTypeOK, SigTypeOK, HandlerSpinEnd, Rest, Gone
<1>2. /\ Len(L') = Len(L) - 1 /\ Len(L) >= 1 /\ Len(L) \in Nat
      /\ \A i \in 1..Len(L') : L'[i] = L[i + 1] /\ i + 1 \in 1..Len(L)
  BY <1>1
<1>3. ASSUME NEW c, Known(c), Alive(c) PROVE Known(c)'
  <2>1. ASSUME NEW i \in 1..Len(L), L[i] = c PROVE Known(c)'
    <3>1. i # 1
      BY <1>1, <1>3, <2>1
    <3>2. i - 1 \in 1..Len(L') /\ L'[i - 1] = c
      BY <1>2, <2>1, <3>1
    <3> QED BY <3>2 DEF Known
  <2>2. CASE \E j \in 1..Len(pidChan) : pidChan[j] = c
    BY <1>1, <2>2 DEF Known
  <2> QED BY <1>3, <2>1, <2>2 DEF Known
<1>4. \A c \in Ours : Rank[c] <= sent' /\ Alive(c)' => Known(c)'
  BY <1>1, <1>3 DEF KillInv, Alive
<1>5. ASSUME NEW i \in 1..Len(L')
      PROVE  /\ L'[i] \in Ours /\ Rank[L'[i]] <= sent
             /\ \A j \in 1..Len(pidChan) : Rank[L'[i]] < Rank[pidChan[j]]
  <2>1. L'[i] = L[i + 1] /\ i + 1 \in 1..Len(L)
    BY <1>2
  <2> QED BY <2>1 DEF KillInv
<1>6. ASSUME NEW i \in 1..Len(L'), NEW j \in 1..Len(L'), i < j
      PROVE  Rank[L'[i]] < Rank[L'[j]]
  <2>1. L'[i] = L[i + 1] /\ L'[j] = L[j + 1]
        /\ i + 1 \in 1..Len(L) /\ j + 1 \in 1..Len(L)
    BY <1>2
  <2>2. i + 1 < j + 1
    BY <1>2, <1>6
  <2> QED BY <2>1, <2>2 DEF KillInv
<1> QED BY <1>1, <1>4, <1>5, <1>6 DEF KillInv, Alive

\* rvgpu-proxy has its turn when it is the only one left.
LEMMA KillKeepsOrder ==
  ASSUME WlInv, KillInv, HandlerKill, UNCHANGED <<pc, sent>>
  PROVE  KillInv'
<1>1. /\ children \in Seq(Child) /\ children # <<>> /\ Len(children) \in Nat
      /\ Len(children) >= 1 /\ 1 \in 1..Len(children)
      /\ Head(children) = children[1] /\ sent \in 0..3
  BY RankOfTurn DEF WlInv, WlTypeOK, SigTypeOK, HandlerKill
<1>2. proc' = Termed(children[1]) /\ UNCHANGED <<children, pidChan>>
  BY <1>1 DEF HandlerKill
<1>3. \A c \in Child : Alive(c)' <=> Alive(c)
  BY <1>2 DEF Alive, Termed, WlInv, WlTypeOK, SigTypeOK
<1>4. CASE children[1] # "proxy"
  <2>1. proc'["proxy"] = proc["proxy"]
    BY <1>2, <1>4, ChildAssumption DEF Termed, WlInv, WlTypeOK, SigTypeOK
  <2> QED BY <1>2, <1>3, <2>1, KillInvStays, ChildAssumption DEF KillInv, Ours
<1>5. CASE children[1] = "proxy"
  <2>1. sent = 3
    BY <1>1, <1>5, RankOfTurn DEF KillInv
  <2>2. ASSUME NEW c \in Ours, c # "proxy" PROVE ~Alive(c)
    <3>1. Rank[c] \in 1..3 /\ Rank[c] < 3
      BY <2>2, RankOfTurn DEF Ours
    <3>2. \A i \in 1..Len(children) : children[i] # c
      BY <1>1, <1>5, <2>2, <3>1, RankOfTurn DEF KillInv
    <3>3. \A j \in 1..Len(pidChan) : pidChan[j] # c
      BY <1>1, <1>5, <3>1, RankOfTurn DEF KillInv
    <3> QED BY <2>1, <3>1, <3>2, <3>3 DEF KillInv, Known
  <2>3. ~Alive("app")' /\ ~Alive("wlproxy")'
    BY <1>3, <2>2, ChildAssumption DEF Ours
  <2>4. \A c \in Ours : Rank[c] <= sent' /\ Alive(c)' => Known(c)'
    BY <1>2, <1>3, ChildAssumption DEF KillInv, Known, Ours
  <2> QED BY <1>2, <2>1, <2>3, <2>4 DEF KillInv
<1> QED BY <1>4, <1>5

\* WAIT_ALL appends the child whose turn it is.
LEMMA SendKeepsOrder ==
  ASSUME WlInv, KillInv, SendPid PROVE KillInv'
<1> DEFINE P == pidChan
<1>1. /\ sent \in 0..2 /\ sent' = sent + 1 /\ pc = "collect"
      /\ UNCHANGED <<proc, children, pc>>
      /\ P \in Seq(Child) /\ Len(P) \in Nat
      /\ children \in Seq(Child)
  BY RankOfTurn DEF SendPid, At, WlInv, WlTypeOK, SigTypeOK
<1>2. Turn(sent) \in Ours /\ Rank[Turn(sent)] = sent + 1
  BY <1>1, RankOfTurn
<1>3. \A c \in Ours : Rank[c] <= sent + 1 => Rank[c] <= sent \/ c = Turn(sent)
  BY <1>1, <1>2, RankOfTurn
<1>4. proc'["proxy"] = "termed" => FALSE
  BY <1>1 DEF KillInv
<1>5. \A c \in Ours : Rank[c] <= sent => Rank[c] < sent' /\ Rank[c] <= sent'
  BY <1>1, RankOfTurn
<1>6. CASE proc[Turn(sent)] = "none"
  <2>1. UNCHANGED pidChan
    BY <1>6 DEF SendPid
  <2>2. \A c \in Ours : Rank[c] <= sent' /\ Alive(c)' => Known(c)'
    BY <1>1, <1>3, <1>6, <2>1 DEF KillInv, Known, Alive
  <2>3. /\ \A i \in 1..Len(children) : Rank[children[i]] <= sent'
        /\ \A j \in 1..Len(P) : Rank[P[j]] <= sent'
    BY <1>5 DEF KillInv
  <2> QED BY <1>1, <1>4, <2>1, <2>2, <2>3 DEF KillInv
<1>7. CASE proc[Turn(sent)] # "none"
  <2>1. P' = Append(P, Turn(sent))
    BY <1>7 DEF SendPid
  <2>2. Turn(sent) \in Child
    BY <1>2, ChildAssumption DEF Ours
  <2>3. /\ Len(P') = Len(P) + 1 /\ P'[Len(P) + 1] = Turn(sent)
        /\ \A j \in 1..Len(P) : P'[j] = P[j]
    BY <1>1, <2>1, <2>2
  <2>4. ASSUME NEW c \in Ours, Rank[c] <= sent', Alive(c)' PROVE Known(c)'
    <3>1. CASE c = Turn(sent)
      BY <1>1, <2>3, <3>1 DEF Known
    <3>2. CASE Known(c)
      BY <1>1, <2>3, <3>2 DEF Known
    <3> QED BY <1>1, <1>3, <2>4, <3>1, <3>2 DEF KillInv, Alive
  <2>5. /\ \A i \in 1..Len(children) : Rank[children[i]] < sent'
        /\ \A j \in 1..Len(P) : P[j] \in Ours /\ Rank[P[j]] < sent'
    BY <1>5 DEF KillInv
  <2>6. /\ \A i \in 1..Len(children) : Rank[children[i]] <= sent'
        /\ \A j \in 1..Len(P') : P'[j] \in Ours /\ Rank[P'[j]] <= sent'
    <3>1. \A i \in 1..Len(children) : Rank[children[i]] <= sent'
      BY <1>5 DEF KillInv
    <3>2. ASSUME NEW j \in 1..Len(P')
          PROVE  P'[j] \in Ours /\ Rank[P'[j]] <= sent'
      <4>1. CASE j \in 1..Len(P)
        BY <1>5, <2>3, <4>1 DEF KillInv
      <4>2. CASE j = Len(P) + 1
        BY <1>1, <1>2, <2>3, <4>2
      <4> QED BY <1>1, <2>3, <4>1, <4>2
    <3> QED BY <3>1, <3>2
  <2>7. \A i, j \in 1..Len(P') : i < j => Rank[P'[i]] < Rank[P'[j]]
    <3>1. ASSUME NEW i \in 1..Len(P'), NEW j \in 1..Len(P'), i < j
          PROVE  Rank[P'[i]] < Rank[P'[j]]
      <4>1. i \in 1..Len(P)
        BY <1>1, <2>3, <3>1
      <4>2. CASE j \in 1..Len(P)
        BY <2>3, <3>1, <4>1, <4>2 DEF KillInv
      <4>3. CASE j = Len(P) + 1
        BY <1>1, <1>2, <2>3, <2>5, <4>1, <4>3
      <4> QED BY <1>1, <2>3, <4>2, <4>3
    <3> QED BY <3>1
  <2>8. \A i \in 1..Len(children), j \in 1..Len(P') : Rank[children[i]] < Rank[P'[j]]
    <3>1. ASSUME NEW i \in 1..Len(children), NEW j \in 1..Len(P')
          PROVE  Rank[children[i]] < Rank[P'[j]]
      <4>1. CASE j \in 1..Len(P)
        BY <2>3, <4>1 DEF KillInv
      <4>2. CASE j = Len(P) + 1
        BY <1>1, <1>2, <2>3, <2>5, <4>2
      <4> QED BY <1>1, <2>3, <4>1, <4>2
    <3> QED BY <3>1
  <2> QED BY <1>1, <1>4, <2>4, <2>6, <2>7, <2>8 DEF KillInv
<1> QED BY <1>6, <1>7

\* A step of the handler, of a waiter or of a child keeps KillInv.
LEMMA SigKeepsOrder ==
  ASSUME WlInv, KillInv, SigNext, UNCHANGED <<pc, sent>>
  PROVE  KillInv'
<1> USE DEF WlInv, WlTypeOK, SigTypeOK
<1>1. CASE HandlerPid
  BY <1>1, PidKeepsOrder
<1>2. CASE HandlerSignal
  <2>1. UNCHANGED <<proc, children, pidChan>>
    BY <1>2 DEF HandlerSignal
  <2> QED BY <2>1, KillInvStays DEF KillInv, Alive
<1>3. CASE HandlerKill
  BY <1>3, KillKeepsOrder
<1>4. CASE HandlerSpinEnd
  BY <1>4, SpinEndKeepsOrder
<1>5. ASSUME NEW d \in Child, ChildExit(d) PROVE KillInv'
  <2>1. UNCHANGED <<children, pidChan>> /\ proc' = [proc EXCEPT ![d] = "exited"]
        /\ Alive(d)
    BY <1>5 DEF ChildExit, Alive
  <2>2. \A c \in Ours : Alive(c)' => Alive(c)
    BY <2>1, ChildAssumption DEF Alive, Ours
  <2>3. proc'["proxy"] = "termed" => proc["proxy"] = "termed"
    BY <2>1
  <2> QED BY <2>1, <2>2, <2>3, KillInvStays DEF KillInv
<1>6. ASSUME NEW d \in Child, WaitReap(d) PROVE KillInv'
  <2>1. UNCHANGED <<children, pidChan>> /\ proc' = [proc EXCEPT ![d] = "reaped"]
    BY <1>6 DEF WaitReap
  <2>2. \A c \in Ours : Alive(c)' => Alive(c)
    BY <2>1, ChildAssumption DEF Alive, Ours
  <2>3. proc'["proxy"] = "termed" => proc["proxy"] = "termed"
    BY <2>1
  <2> QED BY <2>1, <2>2, <2>3, KillInvStays DEF KillInv
<1>7. ASSUME NEW d \in Child, WaitKill(d) PROVE KillInv'
  <2>1. UNCHANGED <<proc, children, pidChan>>
    BY <1>7 DEF WaitKill
  <2> QED BY <2>1, KillInvStays DEF KillInv, Alive
<1>8. CASE Stop
  <2>1. UNCHANGED <<proc, children, pidChan>>
    BY <1>8 DEF Stop
  <2> QED BY <2>1, KillInvStays DEF KillInv, Alive
<1> QED BY <1>1, <1>2, <1>3, <1>4, <1>5, <1>6, <1>7, <1>8 DEF SigNext, HandlerStep

\* A step of main keeps KillInv: only SendPid touches the channel.
LEMMA MainKeepsOrder ==
  ASSUME WlInv, KillInv, MainStep PROVE KillInv'
<1> USE DEF WlInv, WlTypeOK, SigTypeOK, At, Leave
<1>1. ASSUME UNCHANGED <<proc, children, pidChan, sent>>,
             sent > 0 => pc' \in {"collect", "wait", "end", "panic"}
      PROVE  KillInv'
  BY <1>1, KillInvStays DEF Alive
<1>2. CASE Begin
  BY <1>1, <1>2 DEF Begin, KillInv
<1>3. ASSUME NEW c \in Ours, NEW next, StartChild(c, next) PROVE KillInv'
  <2>1. sent = 0
    BY <1>3, RankOfTurn DEF StartChild, KillInv, Ours
  <2>2. proc' = [proc EXCEPT ![c] = "run"] /\ UNCHANGED <<children, pidChan, sent>>
    BY <1>3 DEF StartChild
  <2> QED BY <2>1, <2>2, KillInvStays, ChildAssumption DEF Ours
<1>4. ASSUME NEW c \in Ours, StartFail(c) PROVE KillInv'
  <2>1. /\ proc' = [proc EXCEPT ![c] = "failed"] /\ pc' = "collect"
        /\ UNCHANGED <<children, pidChan, sent>>
    BY <1>4 DEF StartFail
  <2>2. \A d \in Ours : Alive(d)' => Alive(d)
    BY <2>1, ChildAssumption DEF Alive, Ours
  <2> QED BY <2>1, <2>2, KillInvStays, ChildAssumption DEF Ours
<1>5. ASSUME NEW where \in {"devices", "connect", "socket"}, NEW c, NEW next,
             Ready(where, c, next) \/ NotReady(where, c)
      PROVE  KillInv'
  BY <1>1, <1>5 DEF Ready, NotReady, sigVars, KillInv
<1>6. CASE BadTarget
  BY <1>1, <1>6 DEF BadTarget, KillInv
<1>7. CASE SendPid
  BY <1>7, SendKeepsOrder
<1>8. CASE Panic
  BY <1>1, <1>8 DEF Panic
<1>9. CASE Collected
  BY <1>1, <1>9 DEF Collected
<1>10. CASE Finish
  BY <1>1, <1>10 DEF Finish
<1> QED BY <1>2, <1>3, <1>4, <1>5, <1>6, <1>7, <1>8, <1>9, <1>10
        DEF MainStep, Ours

\* The application and rvgpu-wlproxy are gone before rvgpu-proxy is sent
\* SIGTERM, whatever part of the start-up fails and whenever signals come.
THEOREM KillOrderHolds == LaunchersSpec => []KillOrder
<1> DEFINE Inv == /\ prog = "wl-send" => KillInv
                  /\ prog = "renderer" => proc["proxy"] = "none"
<1>1. LaunchersInit => Inv
  <2>1. ASSUME WlInit PROVE KillInv
    <3>1. Len(<<>>) = 0 /\ \A c \in Ours : ~Alive(c)
      BY <2>1, ChildAssumption DEF WlInit, SigInit, Alive, Ours
    <3> QED BY <2>1, <3>1, ChildAssumption DEF WlInit, SigInit, KillInv, Alive
  <2>2. ASSUME R!RendererInit PROVE proc["proxy"] = "none"
    BY <2>2, ChildAssumption DEF R!RendererInit, R!SigInit
  <2> QED BY <2>1, <2>2 DEF LaunchersInit
<1>2. LaunchersInv /\ (\A c \in Child : WaitInv(c))' /\ Inv
        /\ [LaunchersNext]_launcherVars => Inv'
  <2> SUFFICES ASSUME LaunchersInv, (\A c \in Child : WaitInv(c))', Inv,
                      [LaunchersNext]_launcherVars
               PROVE  Inv'
    OBVIOUS
  <2>1. UNCHANGED prog
    BY DEF LaunchersNext, launcherVars
  <2>2. CASE prog = "renderer"
    BY <2>1, <2>2, ChildAssumption DEF WaitInv
  <2>3. CASE prog = "wl-send"
    <3>1. WlInv /\ KillInv
      BY <2>3 DEF LaunchersInv
    <3>2. CASE UNCHANGED launcherVars
      <4>1. UNCHANGED <<proc, children, pidChan, sent, pc>>
        BY <3>2 DEF launcherVars, wlVars, sigVars
      <4> QED BY <2>1, <2>3, <3>1, <4>1, KillInvStays DEF KillInv, Alive
    <3>3. CASE SigNext /\ UNCHANGED <<pc, failed, sent>>
      BY <2>1, <2>3, <3>1, <3>3, SigKeepsOrder
    <3>4. CASE MainStep
      BY <2>1, <2>3, <3>1, <3>4, MainKeepsOrder
    <3> QED BY <2>3, <3>2, <3>3, <3>4 DEF LaunchersNext, Main
  <2> QED BY <2>2, <2>3 DEF LaunchersInv
<1>3. LaunchersInv /\ Inv => KillOrder
  BY DEF LaunchersInv, KillInv, KillOrder
<1> QED BY <1>1, <1>2, <1>3, LaunchersInvariant, WaitInvariant, PTL
        DEF LaunchersSpec
=============================================================================
