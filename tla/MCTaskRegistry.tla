--------------------------- MODULE MCTaskRegistry ---------------------------
(***************************************************************************)
(* Instances of TaskRegistry for TLC.                                        *)
(***************************************************************************)
EXTENDS TaskRegistry, TLC

CONSTANTS c1, c2, c3, app, manageCompositors

ThreeCalls == {c1, c2, c3}
TwoNames == {app, manageCompositors}
=============================================================================
