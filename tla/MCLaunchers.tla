----------------------------- MODULE MCLaunchers -----------------------------
(***************************************************************************)
(* Instances of Launchers for TLC.                                           *)
(***************************************************************************)
EXTENDS Launchers

AllChildren == {"app", "wlproxy", "proxy", "renderer"}

Anything == EnvKinds
=============================================================================
