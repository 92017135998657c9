---------------------------- MODULE MCClientCalls ----------------------------
(***************************************************************************)
(* Instances of ClientCalls for TLC.                                         *)
(***************************************************************************)
EXTENDS ClientCalls

CONSTANTS c1, c2, app, manageCompositors

TwoCalls == {c1, c2}
TwoNames == {app, manageCompositors}

Network(own, defined, target) ==
  [own |-> own, defined |-> defined, loopback |-> {"lo"}, target |-> target]

\* At home; away, where no address is the definition's; with no interface up;
\* and all on one machine.
SomeNetworks ==
  {Network(<<"lo", "eth">>, "eth", "eth"), Network(<<"lo", "wlan">>, "eth", "eth"),
   Network(<<"lo">>, "eth", "eth"), Network(<<"lo">>, "lo", "lo")}
=============================================================================
