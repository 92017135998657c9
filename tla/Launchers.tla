------------------------------ MODULE Launchers ------------------------------
(***************************************************************************)
(* The launchers that ucl-node starts, with what all of them promise: the      *)
(* sender's (WlSend), and the receiver's and the compositor's (Renderer).      *)
(***************************************************************************)
EXTENDS WlSend

ASSUME RendererAssumption == "renderer" \in Child

VARIABLE prog   \* which of them this process is

launcherVars == <<wlVars, prog>>

R == INSTANCE Renderer

LaunchersTypeOK ==
  \/ prog = "wl-send" /\ WlTypeOK
  \/ /\ prog = "renderer"
     /\ SigTypeOK
     /\ pc \in {"dial", "notify", "renderer", "pid", "wait", "end", "exit"}
     /\ failed = FALSE
     /\ sent = 0

LaunchersInit ==
  \/ prog = "wl-send" /\ WlInit
  \/ prog = "renderer" /\ R!RendererInit /\ failed = FALSE /\ sent = 0

Main ==
  \/ prog = "wl-send" /\ MainStep
  \/ prog = "renderer" /\ R!RendererStep /\ UNCHANGED <<failed, sent>>

LaunchersNext ==
  /\ \/ Main
     \/ SigNext /\ UNCHANGED <<pc, failed, sent>>
  /\ UNCHANGED prog

LaunchersSpec == LaunchersInit /\ [][LaunchersNext]_launcherVars

LaunchersFairSpec == LaunchersSpec /\ WF_wlVars(Main) /\ SigFairness

\* The launcher of a renderer leaves no renderer behind that was not told to
\* end, however it ends itself and whenever it is sent a signal: it has a
\* handler before it has a child.
RendererNoOrphan ==
  prog = "renderer" /\ self = "dead" => proc["renderer"] # "run"
=============================================================================
