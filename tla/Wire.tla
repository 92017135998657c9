-------------------------------- MODULE Wire --------------------------------
(***************************************************************************)
(* One launch of an application splits into N targets.  For each of them    *)
(* the lifecycle manager (ucl-lifecycle-manager, "LCM") opens one TCP        *)
(* connection to the ucl-node daemon of that target.  This module is the     *)
(* set of those connections as internal/ucl/ucl_node_conn.go uses them:      *)
(* every direction is a FIFO of framed messages, which stands for the socket *)
(* buffers and for the channel ConnReadLoop fills behind them.               *)
(*                                                                         *)
(* A reader meets end-of-file (the nil of ConnReadLoop) when the peer closed  *)
(* or the link was cut; it may meet it while messages are still queued,      *)
(* because a reset discards them.  A writer whose peer closed, or whose link *)
(* is cut, may either see its write succeed (the bytes are lost) or fail.    *)
(***************************************************************************)
EXTENDS Naturals, Sequences

CONSTANTS
  N,      \* targetNum: how many commands splitCommandforEachNode made
  Env     \* what the environment does in this instance, out of EnvKinds

(***************************************************************************)
(* reject   no usable command, or nodes       dial     a node cannot be reached *)
(* refuse   a node does not take its command  start    appCmd.Start() fails   *)
(* exit     a process ends by itself          stop     a user stops the task  *)
(* late     a timer fires before the answer   period   keep-alives repeat     *)
(* cut      a link goes away for good                                        *)
(***************************************************************************)
EnvKinds ==
  {"reject", "cut", "dial", "refuse", "start", "exit", "stop", "late", "period"}

ASSUME NAssumption == N \in Nat
ASSUME EnvAssumption == Env \subseteq EnvKinds

Targets == 1..N

VARIABLES
  toNode,       \* messages on their way from the LCM to each node
  toLcm,        \* messages on their way from each node to the LCM
  lcmEnd,       \* the LCM's end of each connection
  nodeEnd,      \* the node's end of each connection
  cut           \* the link between them is gone for good

wireVars == <<toNode, toLcm, lcmEnd, nodeEnd, cut>>

EndState == {"none", "open", "closed"}

\* The first four bytes that SendMagicCode writes ("magic"), the command that
\* SendCommand writes, and the two messages of type ConsistencyProtocol.
DownMsg == {"command", "ncount", "nkeep"}
UpMsg == {"magic", "ncount", "nkeep"}

WireTypeOK ==
  /\ toNode \in [Targets -> Seq(DownMsg)]
  /\ toLcm \in [Targets -> Seq(UpMsg)]
  /\ lcmEnd \in [Targets -> EndState]
  /\ nodeEnd \in [Targets -> EndState]
  /\ cut \in [Targets -> BOOLEAN]

WireInit ==
  /\ toNode = [i \in Targets |-> <<>>]
  /\ toLcm = [i \in Targets |-> <<>>]
  /\ lcmEnd = [i \in Targets |-> "none"]
  /\ nodeEnd = [i \in Targets |-> "none"]
  /\ cut = [i \in Targets |-> FALSE]

NodeGone(i) == nodeEnd[i] = "closed" \/ cut[i]
LcmGone(i) == lcmEnd[i] = "closed" \/ cut[i]

\* A write that the operating system accepts: delivered, or lost if the peer
\* is gone.
WriteDown(i, m) ==
  toNode' = IF NodeGone(i) THEN toNode
                           ELSE [toNode EXCEPT ![i] = Append(@, m)]
WriteUp(i, m) ==
  toLcm' = IF LcmGone(i) THEN toLcm
                         ELSE [toLcm EXCEPT ![i] = Append(@, m)]

\* conn.Close(): what this end had not read is discarded.
CloseLcm(i) ==
  /\ lcmEnd' = [lcmEnd EXCEPT ![i] = "closed"]
  /\ toLcm' = [toLcm EXCEPT ![i] = <<>>]
CloseNode(i) ==
  /\ nodeEnd' = [nodeEnd EXCEPT ![i] = "closed"]
  /\ toNode' = [toNode EXCEPT ![i] = <<>>]

\* The environment: the other host, or the network to it, goes away.
CutLink(i) ==
  /\ "cut" \in Env
  /\ lcmEnd[i] = "open"
  /\ ~cut[i]
  /\ cut' = [cut EXCEPT ![i] = TRUE]
  /\ UNCHANGED <<toNode, toLcm, lcmEnd, nodeEnd>>
=============================================================================
