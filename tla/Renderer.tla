------------------------------- MODULE Renderer -------------------------------
(***************************************************************************)
(* ucl-virtio-gpu-wl-recv and ucl-virtio-gpu-rvgpu-compositor, the processes   *)
(* that ucl-node starts on a receiver.  Their mains differ in the arguments    *)
(* of rvgpu-renderer only: one child around SignalHandler, which is told of    *)
(* it as soon as it runs.                                                    *)
(***************************************************************************)
EXTENDS SigHandler

VARIABLE pc     \* main

RendererInit ==
  /\ SigInit
  /\ pc = "dial"

RendererAt(where) == self = "run" /\ pc = where

RendererLeave(how) ==
  /\ pc' = how
  /\ self' = "dead"
  /\ UNCHANGED <<proc, waiter, notified, sigChan, pidChan, children, hPc,
                 stopped>>

\* The wayland server is there ...
Dialled ==
  /\ RendererAt("dial")
  /\ pc' = "notify"
  /\ UNCHANGED sigVars

\* ... or it is not: os.Exit(1).
DialFails ==
  /\ "target" \in Env
  /\ RendererAt("dial")
  /\ RendererLeave("exit")

\* go SignalHandler, signal.Notify.
Notify ==
  /\ RendererAt("notify")
  /\ notified' = TRUE
  /\ pc' = "renderer"
  /\ UNCHANGED <<proc, waiter, sigChan, pidChan, children, hPc, self, stopped>>

\* Mutant: signal.Notify comes after cmd.Start().
StartedFirst == pc \in {"notify", "renderer"}

StartDue == pc = "renderer"

\* cmd.Start()
StartRenderer ==
  /\ self = "run"
  /\ StartDue
  /\ proc' = [proc EXCEPT !["renderer"] = "run"]
  /\ pc' = "pid"
  /\ UNCHANGED <<waiter, notified, sigChan, pidChan, children, hPc, self,
                 stopped>>

\* It fails: the launcher signals itself, and there is nothing to wait for.
StartFails ==
  /\ "start" \in Env
  /\ RendererAt("renderer")
  /\ pc' = "wait"
  /\ Raise
  /\ UNCHANGED <<proc, waiter, notified, pidChan, children, hPc, stopped>>

\* pidChan <- pid, which never blocks here, and go WaitApp.
HandOver ==
  /\ RendererAt("pid")
  /\ pidChan' = Append(pidChan, "renderer")
  /\ waiter' = [waiter EXCEPT !["renderer"] = "wait"]
  /\ pc' = "wait"
  /\ UNCHANGED <<proc, notified, sigChan, children, hPc, self, stopped>>

\* wg.Wait() returns.
RendererEnds ==
  /\ RendererAt("wait")
  /\ waiter["renderer"] \in {"off", "done"}
  /\ RendererLeave("end")

RendererStep ==
  \/ Dialled \/ DialFails \/ Notify
  \/ StartRenderer \/ StartFails \/ HandOver \/ RendererEnds
=============================================================================
