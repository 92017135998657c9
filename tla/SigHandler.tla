------------------------------ MODULE SigHandler ------------------------------
(***************************************************************************)
(* The part that the three launchers (ucl-virtio-gpu-wl-send, -wl-recv and    *)
(* -rvgpu-compositor) share: SignalHandler, one WaitApp for every child, and   *)
(* the two channels that lead to the handler.  SIGINT and SIGTERM have the    *)
(* same effect and are one message here; signal.Notify delivers it without    *)
(* blocking, so it is dropped while one waits in sigChan.                     *)
(***************************************************************************)
EXTENDS Naturals, Sequences

CONSTANTS
  Child,        \* the processes the launcher may start
  Env           \* what the environment does in this instance, out of EnvKinds

(***************************************************************************)
(* stop     the launcher is sent SIGTERM (by ucl-node) or SIGINT              *)
(* exit     a child ends by itself                                           *)
(* start    a child cannot be started                                        *)
(* late     a child is not ready in time                                     *)
(* target   a target address is no host:port                                 *)
(***************************************************************************)
EnvKinds == {"stop", "exit", "start", "late", "target"}

ASSUME EnvAssumption == Env \subseteq EnvKinds

VARIABLES
  proc,         \* each child; "failed": exec.Cmd made, but Start() failed
  waiter,       \* its WaitApp
  notified,     \* signal.Notify was called
  sigChan,      \* signals in sigChan, of capacity 1
  pidChan,      \* content of pidChan, of capacity 2
  children,     \* SignalHandler: its list, and what is left of it in a kill
  hPc,          \* SignalHandler: in its select, or in killAllChildren
  self,         \* the launcher process
  stopped       \* it was sent a signal from outside

sigVars ==
  <<proc, waiter, notified, sigChan, pidChan, children, hPc, self, stopped>>

SigTypeOK ==
  /\ proc \in [Child -> {"none", "failed", "run", "termed", "exited", "reaped"}]
  /\ waiter \in [Child -> {"off", "wait", "kill", "done"}]
  /\ notified \in BOOLEAN
  /\ sigChan \in {0, 1}
  /\ pidChan \in Seq(Child) /\ Len(pidChan) <= 2
  /\ children \in Seq(Child)
  /\ hPc \in {"select", "kill", "spin"}
  /\ self \in {"run", "dead"}
  /\ stopped \in BOOLEAN

SigInit ==
  /\ proc = [c \in Child |-> "none"]
  /\ waiter = [c \in Child |-> "off"]
  /\ notified = FALSE
  /\ sigChan = 0
  /\ pidChan = <<>>
  /\ children = <<>>
  /\ hPc = "select"
  /\ self = "run"
  /\ stopped = FALSE

\* CheckProcessAlive: signal 0 reaches a process until it is reaped.
Alive(c) == proc[c] \in {"run", "termed", "exited"}

\* The launcher is sent a signal; before signal.Notify that ends it.
Raise ==
  IF notified
    THEN sigChan' = 1 /\ UNCHANGED self
    ELSE self' = "dead" /\ UNCHANGED sigChan

Stop ==
  /\ "stop" \in Env
  /\ self = "run"
  /\ ~stopped
  /\ stopped' = TRUE
  /\ Raise
  /\ UNCHANGED <<proc, waiter, notified, pidChan, children, hPc>>

\* A child ends by itself or on SIGTERM.
ChildExit(c) ==
  /\ \/ proc[c] = "termed"
     \/ proc[c] = "run" /\ "exit" \in Env
  /\ proc' = [proc EXCEPT ![c] = "exited"]
  /\ UNCHANGED <<waiter, notified, sigChan, pidChan, children, hPc, self,
                 stopped>>

-----------------------------------------------------------------------------
(* WaitApp *)

\* cmd.Wait() returns.
WaitReap(c) ==
  /\ self = "run"
  /\ waiter[c] = "wait"
  /\ proc[c] = "exited"
  /\ proc' = [proc EXCEPT ![c] = "reaped"]
  /\ waiter' = [waiter EXCEPT ![c] = "kill"]
  /\ UNCHANGED <<notified, sigChan, pidChan, children, hPc, self, stopped>>

\* "kill my self", then wg.Done().
WaitKill(c) ==
  /\ self = "run"
  /\ waiter[c] = "kill"
  /\ waiter' = [waiter EXCEPT ![c] = "done"]
  /\ Raise
  /\ UNCHANGED <<proc, notified, pidChan, children, hPc, stopped>>

-----------------------------------------------------------------------------
(* SignalHandler: one goroutine, so no pid is taken while children are killed *)

HandlerPid ==
  /\ self = "run"
  /\ hPc = "select"
  /\ pidChan # <<>>
  /\ children' = Append(children, Head(pidChan))
  /\ pidChan' = Tail(pidChan)
  /\ UNCHANGED <<proc, waiter, notified, sigChan, hPc, self, stopped>>

\* A signal is for the children known by now, be it none.
HandlerSignal ==
  /\ self = "run"
  /\ hPc = "select"
  /\ sigChan = 1
  /\ sigChan' = 0
  /\ hPc' = IF children = <<>> THEN "select" ELSE "kill"
  /\ UNCHANGED <<proc, waiter, notified, pidChan, children, self, stopped>>

Termed(c) == [proc EXCEPT ![c] = IF @ = "run" THEN "termed" ELSE @]

\* watchDogKill(pid, true) on the next child: SIGTERM, if it is there.
HandlerKill ==
  /\ self = "run"
  /\ hPc = "kill"
  /\ proc' = Termed(Head(children))
  /\ hPc' = "spin"
  /\ UNCHANGED <<waiter, notified, sigChan, pidChan, children, self, stopped>>

\* Mutant: killWhenAlive does not wait for the child's end.
GoneAtOnce(c) == TRUE

Gone(c) == ~Alive(c)

\* Mutant: only the first child of the list is killed.
OnlyFirst(list) == <<>>

Rest(list) == Tail(list)

\* killWhenAlive spins until it is gone; the SIGKILL after it meets nothing.
HandlerSpinEnd ==
  /\ self = "run"
  /\ hPc = "spin"
  /\ Gone(Head(children))
  /\ children' = Rest(children)
  /\ hPc' = IF children' = <<>> THEN "select" ELSE "kill"
  /\ UNCHANGED <<proc, waiter, notified, sigChan, pidChan, self, stopped>>

HandlerStep == HandlerPid \/ HandlerSignal \/ HandlerKill \/ HandlerSpinEnd

SigNext ==
  \/ HandlerStep
  \/ \E c \in Child : ChildExit(c) \/ WaitReap(c) \/ WaitKill(c)
  \/ Stop

(***************************************************************************)
(* Goroutines run on, and a child that was sent SIGTERM ends.  Of the two     *)
(* cases of the handler's select, each is taken if it stays ready.            *)
(***************************************************************************)
SigFairness ==
  /\ WF_sigVars(HandlerKill \/ HandlerSpinEnd)
  /\ SF_sigVars(HandlerPid)
  /\ SF_sigVars(HandlerSignal)
  /\ \A c \in Child :
       /\ WF_sigVars(proc[c] = "termed" /\ ChildExit(c))
       /\ WF_sigVars(WaitReap(c))
       /\ WF_sigVars(WaitKill(c))
=============================================================================
