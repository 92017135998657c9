--------------------------- MODULE CommandRouting ---------------------------
(***************************************************************************)
(* From the command of an application (its app.json) to the commands of the   *)
(* ucl-nodes: the functions of ucl_lifecycle_manager.go between               *)
(* dispatchCommToNodes and handleNodeConnection, and what a ucl-node makes of   *)
(* what it is sent.  A command is a record of                                *)
(*   type     command_type                                                   *)
(*   sender   who launches the sender, or Null                               *)
(*   recvs    a sequence of [launcher, port], or Null if there is no such key  *)
(*   local    who launches the local application, or Null                    *)
(* Launchers are host names until ExpandAlias makes them UclNodes.  Commands    *)
(* are well formed (CommandsAt): the section a type asks for is there and those    *)
(* of other types are not, every launcher is a string and every receiver has    *)
(* backend_params (the code panics otherwise); every section that is there names   *)
(* the program to start, whose absence or empty name is how ucl_node.go tells that   *)
(* it was sent no sender (Role).                                             *)
(***************************************************************************)
EXTENDS VScreen

CONSTANT Null     \* JSON null, or a key that is absent

ReceiversAt(launchers) == [launcher : launchers, port : Int]

ASSUME NullAssumption == Null \notin Seq(ReceiversAt(UclNodes))

Command(type, sender, recvs, local) ==
  [type |-> type, sender |-> sender, recvs |-> recvs, local |-> local]

Remote == {"remote_virtio_gpu", "transport", "launch_compositors"}

Routable == Remote \cup {"local"}

\* The well-formed commands, for launchers that are host names or UclNodes;
\* "unknown" stands for the types that no case is made of.
CommandsAt(launchers) ==
  {c \in [type : Routable \cup {"unknown"}, sender : {Null} \cup launchers,
          recvs : {Null} \cup Seq(ReceiversAt(launchers)),
          local : {Null} \cup launchers] :
     /\ c.type \in Remote => c.local = Null
     /\ c.type = "local" => c.sender = Null /\ c.recvs = Null
                                           /\ c.local \in launchers}

Receivers(c) == IF c.recvs = Null THEN <<>> ELSE c.recvs

\* expandAliasNode
ExpandAlias(v, c) ==
  LET Expand(r) == [r EXCEPT !.launcher = AliasIp(v, @)]
  IN CASE c.type \in Remote ->
            [c EXCEPT
               !.sender = IF @ = Null THEN Null ELSE AliasIp(v, @),
               !.recvs = IF @ = Null THEN Null
                         ELSE [k \in 1..Len(@) |-> Expand(@[k])]]
       [] c.type = "local" -> [c EXCEPT !.local = AliasIp(v, @)]
       [] OTHER -> c

\* getDistribNode: the nodes of a command, each once.
DistribNodes(c) ==
  CASE c.type \in Remote ->
         WithoutDuplicates(
           (IF c.sender = Null THEN <<>> ELSE <<c.sender>>)
             \o [k \in DOMAIN Receivers(c) |-> Receivers(c)[k].launcher])
    [] c.type = "local" -> <<c.local>>
    [] OTHER -> <<>>

\* removeDisconnectNode fails.
NotRoutable(c, cNodes) ==
  CASE c.type \in Remote ->
         \/ c.sender # Null /\ ~Contains(cNodes, c.sender)
         \/ /\ c.recvs # Null
            /\ ~\E r \in ToSet(c.recvs) : Contains(cNodes, r.launcher)
    [] c.type = "local" -> ~Contains(cNodes, c.local)
    [] OTHER -> TRUE

\* Mutant: every receiver stays.
RemoveNone(c, cNodes) == c

\* What it leaves of a command otherwise.
RemoveDisconnectNode(c, cNodes) ==
  IF c.type \in Remote /\ c.recvs # Null
    THEN [c EXCEPT !.recvs =
            Selected(@, {i \in DOMAIN @ : Contains(cNodes, @[i].launcher)})]
    ELSE c

\* The receiver is left to the compositor that launch_compositors started.
IsCompositor(v, c, r) ==
  c.type # "launch_compositors" /\ IsRecvCompositor(v, r.port)

-----------------------------------------------------------------------------
(* splitCommandforEachNode *)

\* "The sender needs the receiver's IP:port status."
SenderPart(c) == Command(c.type, c.sender, c.recvs, Null)

LocalPart(c) == Command(c.type, Null, Null, c.local)

\* The receivers that get a part of their own.
OwnReceivers(v, c) ==
  LET recvs == Receivers(c)
  IN Selected(recvs, {i \in DOMAIN recvs : ~IsCompositor(v, c, recvs[i])})

\* Mutant: the receivers of one part share it.
OneReceiverPart(v, c) ==
  LET own == OwnReceivers(v, c)
  IN IF own = <<>> THEN <<>> ELSE <<Command(c.type, Null, own, Null)>>

ReceiverParts(v, c) ==
  LET own == OwnReceivers(v, c)
  IN [k \in 1..Len(own) |-> Command(c.type, Null, <<own[k]>>, Null)]

SplitCommand(v, c) ==
  (IF c.sender = Null THEN <<>> ELSE <<SenderPart(c)>>)
    \o ReceiverParts(v, c)
    \o (IF c.local = Null THEN <<>> ELSE <<LocalPart(c)>>)

\* Mutant: the first receiver is addressed before the sender.
ReceiverFirst(part) ==
  CASE part.recvs # Null -> part.recvs[1].launcher
    [] part.sender # Null -> part.sender
    [] OTHER -> part.local

\* getDistribNodeAddr: where the lifecycle manager sends a part.
DistribNodeAddr(part) ==
  CASE part.sender # Null -> part.sender
    [] part.sender = Null /\ part.recvs # Null -> part.recvs[1].launcher
    [] OTHER -> part.local

-----------------------------------------------------------------------------
(* generateLaunchCompsitorsComm *)

LauncherName(v, id) ==
  IF PosOfId(v.node, id) = 0 THEN NoHost ELSE v.node[PosOfId(v.node, id)].host

\* Null if a compositor has no positive listen port.  Without any compositor the
\* receivers are a nil slice, which is written as null.
LaunchCompositorsComm(v) ==
  LET Comps(f) == [k \in 1..Len(f.comps) |->
                     [launcher |-> LauncherName(v, f.id), port |-> f.comps[k]]]
      recvs == FlattenSeq([k \in 1..Len(v.fw) |-> Comps(v.fw[k])])
  IN IF \E r \in ToSet(recvs) : r.port <= 0 THEN Null
     ELSE Command("launch_compositors", Null,
                  IF recvs = <<>> THEN Null ELSE recvs, Null)

-----------------------------------------------------------------------------
(* ucl_node.go *)

\* handleConnection: the program a node starts for a part.  Its test is
\* Sender.Command # "", which for a well-formed part is the presence of a sender.
Role(part) ==
  CASE part.type = "local" -> "local"
    [] part.type # "local" /\ part.sender # Null -> "sender"
    [] OTHER -> "receiver"

\* isWaitDeps: it is started only after the barrier.
WaitsDeps(part) == Role(part) \in {"sender", "local"}

LauncherExists(host, nodes) == \E n \in ToSet(nodes) : n.host = host

\* Mutant: only the sender is looked at.
SenderValidated(c, nodes) ==
  c.type \in {"remote_virtio_gpu", "transport"} /\ LauncherExists(c.sender, nodes)

\* validateAppInfo: can the application run on these nodes?
ValidateAppInfo(c, nodes) ==
  CASE c.type \in {"remote_virtio_gpu", "transport"} ->
         /\ c.sender # Null /\ LauncherExists(c.sender, nodes)
         /\ c.recvs # Null
         /\ \A r \in ToSet(c.recvs) : LauncherExists(r.launcher, nodes)
    [] c.type = "local" -> LauncherExists(c.local, nodes)
    [] OTHER -> FALSE
=============================================================================
