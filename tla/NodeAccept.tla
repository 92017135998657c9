----------------------------- MODULE NodeAccept -----------------------------
(***************************************************************************)
(* The ucl-node daemons as the lifecycle manager's questions meet them: each   *)
(* accepts one connection after the other and reads the whole command of one   *)
(* before it accepts the next (acceptLoop, dispatchComm).  A machine's queue    *)
(* holds the connections the daemon has not done with, the first of which it   *)
(* is reading.  An entry is                                                  *)
(*   [kind |-> "probe"]         a check by chkConnectableNode, still open      *)
(*   [kind |-> "ask", k |-> i]  a question: question[i] says how far it is     *)
(*   [kind |-> "stray"]         a connection that ConnectTarget gave up        *)
(*   [kind |-> "eof"]           one that the lifecycle manager has closed      *)
(***************************************************************************)
EXTENDS CommandRouting

CONSTANTS
  Hosts,      \* machines with a ucl-node daemon
  Apps,       \* application names
  MayFail,    \* those of them that may go away in this instance
  QueueMax    \* bound: strays join a queue shorter than this

ASSUME MayFailAssumption == MayFail \subseteq Hosts
ASSUME AppsAssumption == IsFiniteSet(Apps)
ASSUME QueueMaxAssumption == QueueMax \in Nat

VARIABLES
  vdef,       \* the virtual screen definition every program has read
  store,      \* $DCMPATH of each machine: the app.json of each application
  up,         \* the daemon runs and is reachable
  queue,      \* connections at each daemon
  question,   \* connection i of getAppInfoFromNode: "none", "open", "sent"
              \* (its command is written), "data" (the answer is written) or
              \* "eof" (closed without an answer, or reset)
  reply       \* the answer on connection i

nodeAccVars == <<vdef, store, up, queue, question, reply>>

\* The running daemon that listens at the address of a UclNode.
Listens(h, node) ==
  LET a == GetNodeAddr(vdef, {h}, h)
  IN up[h] /\ a # ZeroNode /\ a.ip = node.ip /\ a.port = node.port

Connect(h, entry) == queue' = [queue EXCEPT ![h] = Append(@, entry)]

\* Mutant: where there is no answer the connection stays open.
KeepsOpen(answer) == IF answer = Null THEN "sent" ELSE "data"

\* dispatchComm closes the connection, whether it has written to it or not.
AfterCommand(answer) == IF answer = Null THEN "eof" ELSE "data"

\* getExecutableAppList for the nodes in the question.
ExecutableApps(h, nodes) ==
  {a \in Apps : store[h][a] # Null /\ ValidateAppInfo(store[h][a], nodes)}

\* ReadAppComm, or getExecutableAppList, where an empty list is an error too.
Answer(h, ask) ==
  LET list == SetToSeq(ExecutableApps(h, ask.nodes))
  IN CASE ask.kind = "app" -> store[h][ask.app]
       [] ask.kind = "list" -> IF list = <<>> THEN Null ELSE list

\* dispatchComm reads and answers the question of the first connection, whose
\* content is ask, and closes it.
ServeAsk(h, ask) ==
  /\ queue[h] # <<>> /\ Head(queue[h]).kind = "ask"
  /\ LET i == Head(queue[h]).k IN
       /\ question[i] = "sent"
       /\ question' = [question EXCEPT ![i] = AfterCommand(Answer(h, ask))]
       /\ reply' = [reply EXCEPT ![i] = Answer(h, ask)]
  /\ queue' = [queue EXCEPT ![h] = Tail(@)]
  /\ UNCHANGED <<vdef, store, up>>

\* "An access check may have been performed by ucl-lifecycle-manager":
\* ReadCommand meets the end of the connection.
ServeEof(h) ==
  /\ queue[h] # <<>> /\ Head(queue[h]).kind = "eof"
  /\ queue' = [queue EXCEPT ![h] = Tail(@)]
  /\ UNCHANGED <<vdef, store, up, question, reply>>

\* The lifecycle manager closes a connection of this kind.
CloseOne(h, kind) ==
  LET k == SelectInSeq(queue[h], LAMBDA e : e.kind = kind)
  IN /\ k # 0
     /\ queue' = [queue EXCEPT ![h][k] = [kind |-> "eof"]]

\* The connection of an abandoned Dial is unreachable: the garbage collector of
\* the Go run time, which runs at least every two minutes, closes it.
CollectStray(h) ==
  /\ CloseOne(h, "stray")
  /\ UNCHANGED <<vdef, store, up, question, reply>>

\* The daemon stops, or the machine is lost.  Its connections are reset; what
\* it wrote before may still be read.
NodeDown(h) ==
  /\ h \in MayFail
  /\ up[h]
  /\ up' = [up EXCEPT ![h] = FALSE]
  /\ queue' = [queue EXCEPT ![h] = <<>>]
  /\ question' = [i \in DOMAIN question |->
                    IF \E e \in ToSet(queue[h]) : e.kind = "ask" /\ e.k = i
                      THEN "eof" ELSE question[i]]
  /\ UNCHANGED <<vdef, store, reply>>

NodeUp(h) ==
  /\ ~up[h]
  /\ up' = [up EXCEPT ![h] = TRUE]
  /\ UNCHANGED <<vdef, store, queue, question, reply>>
=============================================================================
