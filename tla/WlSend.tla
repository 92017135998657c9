-------------------------------- MODULE WlSend --------------------------------
(***************************************************************************)
(* ucl-virtio-gpu-wl-send, the process that ucl-node starts on the sender: it  *)
(* starts rvgpu-proxy, rvgpu-wlproxy and the application, each when the one    *)
(* before is ready, and tells its SignalHandler about them when all of that    *)
(* is over.  The lock file and the reserved card index, which several          *)
(* launchers share, are left out.                                            *)
(***************************************************************************)
EXTENDS SigHandler

ASSUME ChildAssumption == {"app", "wlproxy", "proxy"} \subseteq Child

VARIABLES
  pc,           \* main
  failed,       \*   err # nil or ret = -1
  sent          \*   how many of Order WAIT_ALL has dealt with

wlVars == <<sigVars, pc, failed, sent>>

\* "Should kill the proceses before rvgpu-proxy to prevent zombie processes."
Order == <<"app", "wlproxy", "proxy">>

WlTypeOK ==
  /\ SigTypeOK
  /\ pc \in {"begin", "proxy", "devices", "connect", "wlproxy", "socket", "app",
             "collect", "wait", "end", "exit", "panic"}
  /\ failed \in BOOLEAN
  /\ sent \in 0..Len(Order)

WlInit ==
  /\ SigInit
  /\ pc = "begin"
  /\ failed = FALSE
  /\ sent = 0

\* The process ends with its main: goroutines, channels and all.
Leave(how) ==
  /\ pc' = how
  /\ self' = "dead"

At(where) == self = "run" /\ pc = where

-----------------------------------------------------------------------------
(* main, up to WAIT_ALL *)

\* The index is reserved, SignalHandler started, signal.Notify called.
Begin ==
  /\ At("begin")
  /\ notified' = TRUE
  /\ pc' = "proxy"
  /\ UNCHANGED <<proc, waiter, sigChan, pidChan, children, hPc, self, stopped,
                 failed, sent>>

\* cmd.Start() and go WaitApp.
StartChild(c, next) ==
  /\ At(c)
  /\ proc' = [proc EXCEPT ![c] = "run"]
  /\ waiter' = [waiter EXCEPT ![c] = "wait"]
  /\ pc' = next
  /\ UNCHANGED <<notified, sigChan, pidChan, children, hPc, self, stopped,
                 failed, sent>>

\* cmd.Start() fails: goto WAIT_ALL, with an exec.Cmd that has no Process.
StartFail(c) ==
  /\ "start" \in Env
  /\ At(c)
  /\ proc' = [proc EXCEPT ![c] = "failed"]
  /\ failed' = TRUE
  /\ pc' = "collect"
  /\ UNCHANGED <<waiter, notified, sigChan, pidChan, children, hPc, self,
                 stopped, sent>>

\* waitRvgpuDevices, waitForConnectionEstablished, waitUnixSocketConnectable:
\* child c is there, and what it has to provide appeared ...
Ready(where, c, next) ==
  /\ At(where)
  /\ Alive(c)
  /\ pc' = next
  /\ UNCHANGED <<sigVars, failed, sent>>

\* ... or it is not, or it did not in time.
NotReady(where, c) ==
  /\ At(where)
  /\ "late" \in Env \/ ~Alive(c)
  /\ failed' = TRUE
  /\ pc' = "collect"
  /\ UNCHANGED <<sigVars, sent>>

\* net.SplitHostPort(target) fails: os.Exit(1).
BadTarget ==
  /\ "target" \in Env
  /\ At("connect")
  /\ Leave("exit")
  /\ UNCHANGED <<proc, waiter, notified, sigChan, pidChan, children, hPc,
                 stopped, failed, sent>>

-----------------------------------------------------------------------------
(* WAIT_ALL *)

\* Mutant: rvgpu-proxy is the first in the list.
ProxyFirst(n) == <<"proxy", "app", "wlproxy">>[n + 1]

Turn(n) == Order[n + 1]

\* Mutant: pidChan has no bound.
AlwaysRoom == TRUE

Room == Len(pidChan) < 2

\* pidChan <- pid, which blocks while two are in the channel.
SendPid ==
  /\ At("collect")
  /\ sent < Len(Order)
  /\ LET c == Turn(sent)
     IN  IF proc[c] = "none"
           THEN UNCHANGED pidChan
           ELSE /\ proc[c] # "failed"
                /\ Room
                /\ pidChan' = Append(pidChan, c)
  /\ sent' = sent + 1
  /\ UNCHANGED <<proc, waiter, notified, sigChan, children, hPc, self, stopped,
                 pc, failed>>

\* cmd.Process.Pid of a command whose Start() failed: Process is nil.
Panic ==
  /\ At("collect")
  /\ sent < Len(Order)
  /\ proc[Turn(sent)] = "failed"
  /\ Leave("panic")
  /\ UNCHANGED <<proc, waiter, notified, sigChan, pidChan, children, hPc,
                 stopped, failed, sent>>

\* After a failure the launcher signals itself; then wg.Wait().
Collected ==
  /\ At("collect")
  /\ sent = Len(Order)
  /\ pc' = "wait"
  /\ IF failed THEN Raise ELSE UNCHANGED <<sigChan, self>>
  /\ UNCHANGED <<proc, waiter, notified, pidChan, children, hPc, stopped,
                 failed, sent>>

\* Mutant: the WaitApp of rvgpu-wlproxy is not in the wait group.
Forgotten(c) == c = "wlproxy" \/ waiter[c] \in {"off", "done"}

Waited(c) == waiter[c] \in {"off", "done"}

\* wg.Wait() returns.
Finish ==
  /\ At("wait")
  /\ \A c \in Child : Waited(c)
  /\ Leave("end")
  /\ UNCHANGED <<proc, waiter, notified, sigChan, pidChan, children, hPc,
                 stopped, failed, sent>>

-----------------------------------------------------------------------------
MainStep ==
  \/ Begin
  \/ StartChild("proxy", "devices") \/ StartFail("proxy")
  \/ Ready("devices", "proxy", "connect") \/ NotReady("devices", "proxy")
  \/ Ready("connect", "proxy", "wlproxy") \/ NotReady("connect", "proxy")
  \/ BadTarget
  \/ StartChild("wlproxy", "socket") \/ StartFail("wlproxy")
  \/ Ready("socket", "wlproxy", "app") \/ NotReady("socket", "wlproxy")
  \/ StartChild("app", "collect") \/ StartFail("app")
  \/ SendPid \/ Panic \/ Collected \/ Finish

WlNext ==
  \/ MainStep
  \/ SigNext /\ UNCHANGED <<pc, failed, sent>>

WlSpec == WlInit /\ [][WlNext]_wlVars

WlFairSpec == WlSpec /\ WF_wlVars(MainStep) /\ SigFairness

-----------------------------------------------------------------------------
(* Properties *)

\* rvgpu-proxy is sent SIGTERM only when the application and rvgpu-wlproxy are
\* gone (the comment at WAIT_ALL), whenever the pids and the signals come.
KillOrder ==
  proc["proxy"] = "termed" => ~Alive("app") /\ ~Alive("wlproxy")

\* A launcher that returns from main leaves no child behind.
CleanEnd == pc = "end" => \A c \in Child : ~Alive(c)

\* With every pid handed over, a signal, or the end of any child, ends all
\* children and the launcher.
ReadyStops ==
  /\ pc = "wait"
  /\ pidChan = <<>>
  /\ sigChan = 1 \/ \E c \in Child : proc[c] = "exited"

ReadyStopEnds == ReadyStops ~> self = "dead"

\* "reliably reclaims resources" (README.md:4): SIGTERM ends the launcher, which
\* is what ucl-node waits for in watchDogKill.
StopEnds == stopped ~> self = "dead"

\* ... and however it ends, it leaves no child that was not told to end.
NoOrphanChild == self = "dead" => \A c \in Child : proc[c] # "run"
=============================================================================
