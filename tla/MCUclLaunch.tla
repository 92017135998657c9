----------------------------- MODULE MCUclLaunch -----------------------------
(***************************************************************************)
(* Instances of UclLaunch for TLC.  The environment is what makes the state   *)
(* space large, so the run with two targets leaves some of it out; the runs    *)
(* with one target have all of it.                                           *)
(***************************************************************************)
EXTENDS UclLaunch

\* Target 1 is the sender (or the local app), the others are receivers.
Sender == {1}
NoSender == {}

\* Nodes that fail to launch, processes that end: no timer, no lost link.
FailingNodes == {"reject", "dial", "refuse", "start", "exit", "period"}

Everything == EnvKinds
=============================================================================
