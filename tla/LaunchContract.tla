---------------------------- MODULE LaunchContract ----------------------------
(***************************************************************************)
(* What one launch promises to its user, without its messages, goroutines    *)
(* and timers: the processes of the targets that others depend on are         *)
(* started first, the barrier is released once, and the task's name becomes   *)
(* free only after the task was cancelled.                                   *)
(***************************************************************************)
CONSTANTS
  Targets,    \* the targets of the launch
  Waiters     \* those whose process waits for all the others

VARIABLES
  started,    \* targets whose process was started
  released,   \* the barrier was released
  cancelled,  \* the launch's context was cancelled
  registered  \* the task's name is taken

contractVars == <<started, released, cancelled, registered>>

Init ==
  /\ started = {}
  /\ released = FALSE
  /\ cancelled = FALSE
  /\ registered = TRUE

Release ==
  /\ Targets \ Waiters \subseteq started
  /\ released' = TRUE
  /\ UNCHANGED <<started, cancelled, registered>>

\* Cancellation does not take a started process back, and may race with a start.
Start(i) ==
  /\ i \notin started
  /\ i \in Waiters => released
  /\ started' = started \cup {i}
  /\ UNCHANGED <<released, cancelled, registered>>

Cancel ==
  /\ cancelled' = TRUE
  /\ UNCHANGED <<started, released, registered>>

End ==
  /\ registered
  /\ cancelled
  /\ registered' = FALSE
  /\ UNCHANGED <<started, released, cancelled>>

Next == Release \/ (\E i \in Targets : Start(i)) \/ Cancel \/ End

Spec == Init /\ [][Next]_contractVars
=============================================================================
