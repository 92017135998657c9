------------------------------- MODULE MCWlSend -------------------------------
(***************************************************************************)
(* Instances of WlSend for TLC.                                              *)
(***************************************************************************)
EXTENDS WlSend

ThreeChildren == {"app", "wlproxy", "proxy"}

Anything == EnvKinds

\* Everything but a target that net.SplitHostPort does not take: os.Exit(1) in
\* the middle of the start-up leaves children behind, too.
ButBadTarget == EnvKinds \ {"target"}
=============================================================================
