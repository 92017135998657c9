---------------------------- MODULE PrepareLaunch ----------------------------
(***************************************************************************)
(* From a request of a client to the plan of a launch, or to a list: the part  *)
(* of the gRPC handlers and of dispatchCommToNodes before the first connection  *)
(* that UclLaunch models.  Its plan is what UclLaunch is given as targets.     *)
(***************************************************************************)
EXTENDS AppLookup

CONSTANTS
  Settings,       \* [vdef, store]: a virtual screen definition, and the
                  \* contents of the machines' $DCMPATH
  Commands        \* commands a client may send with DcmRunAppCommand

ASSUME SettingsAssumption ==
  Settings \subseteq
    [vdef : Definitions, store : [Hosts -> [Apps -> {Null} \cup CommandsAt(Names)]]]

ASSUME CommandsAssumption == Commands \subseteq CommandsAt(Names)

VARIABLES
  command,    \* the command of the launch, its launchers expanded
  plan        \* mJsonList: the commands of the nodes

prepareVars == <<nodeAccVars, lookupVars, command, plan>>

NoAsk == [kind |-> "none", app |-> Null, nodes |-> <<>>]

PrepareInit ==
  /\ \E setting \in Settings :
       vdef = setting.vdef /\ store = setting.store
  /\ up = [h \in Hosts |-> TRUE]
  /\ queue = [h \in Hosts |-> <<>>]
  /\ phase = "idle" /\ ask = NoAsk
  /\ targets = <<>> /\ probe = <<>> /\ asker = <<>>
  /\ question = <<>> /\ reply = <<>>
  /\ counted = 0 /\ answer = Null
  /\ command = Null /\ plan = <<>>

\* dispatchCommToNodes: expandAliasNode, getDistribNode, getConnectableNode.
Dispatch(c) ==
  /\ phase' = "route"
  /\ command' = ExpandAlias(vdef, c)
  /\ StartProbes(DistribNodes(ExpandAlias(vdef, c)))
  /\ asker' = <<>> /\ question' = <<>> /\ reply' = <<>>
  /\ counted' = 0 /\ answer' = Null
  /\ UNCHANGED <<vdef, store, up, queue, ask, plan>>

-----------------------------------------------------------------------------
\* DcmRunApp(Async) of an application, DcmGetExecutableAppList.
AskNodes(kind, app) ==
  /\ phase = "idle"
  /\ phase' = "lookup"
  /\ ask' = [kind |-> kind, app |-> app, nodes |-> <<>>]
  /\ StartProbes(GetFrameworkNode(vdef))
  /\ UNCHANGED <<nodeAccVars, asker, counted, answer, command, plan>>

\* DcmLaunchCompositor(Async); without a command it answers at once.
RunCompositors ==
  /\ phase = "idle"
  /\ LaunchCompositorsComm(vdef) # Null
  /\ Dispatch(LaunchCompositorsComm(vdef))

\* DcmRunAppCommand
RunCommand(c) ==
  /\ phase = "idle"
  /\ Dispatch(c)

\* getAppCmd has a command, and the handler dispatches it.
Found ==
  /\ Gathered /\ ask.kind = "app" /\ answer # Null
  /\ Dispatch(answer)

NotFound ==
  /\ Gathered /\ ask.kind = "app" /\ answer = Null
  /\ phase' = "notfound"
  /\ UNCHANGED <<nodeAccVars, ask, targets, probe, asker, counted, answer>>
  /\ UNCHANGED <<command, plan>>

\* "Remove duplicate information"
Listed ==
  /\ Gathered /\ ask.kind = "list"
  /\ phase' = "listed"
  /\ answer' = IF answer = Null THEN Null ELSE WithoutDuplicates(answer)
  /\ UNCHANGED <<nodeAccVars, ask, targets, probe, asker, counted>>
  /\ UNCHANGED <<command, plan>>

\* removeDisconnectNode fails: the task is cancelled.
Reject ==
  /\ phase = "route" /\ Probed
  /\ NotRoutable(command, Connectable)
  /\ phase' = "rejected"
  /\ UNCHANGED <<nodeAccVars, ask, targets, probe, asker, counted, answer>>
  /\ UNCHANGED <<command, plan>>

\* removeDisconnectNode and splitCommandforEachNode.
Plan ==
  /\ phase = "route" /\ Probed
  /\ ~NotRoutable(command, Connectable)
  /\ plan' = SplitCommand(vdef, RemoveDisconnectNode(command, Connectable))
  /\ phase' = "planned"
  /\ UNCHANGED <<nodeAccVars, ask, targets, probe, asker, counted, answer>>
  /\ UNCHANGED command

\* The handler goes on in TaskRegistry and UclLaunch, or has answered; or it
\* hangs, and the next call is another handler's.  That one is followed next,
\* once the daemons have done with what was closed (a bound of the model).
NextCall ==
  /\ \/ phase \in {"notfound", "listed", "rejected", "planned"}
     \/ Hung
  /\ \A i \in DOMAIN asker : asker[i] \in {"done", "lost"}
  /\ \A h \in Hosts : \A e \in ToSet(queue[h]) : e.kind = "stray"
  /\ phase' = "idle" /\ ask' = NoAsk
  /\ targets' = <<>> /\ probe' = <<>> /\ asker' = <<>>
  /\ question' = <<>> /\ reply' = <<>>
  /\ counted' = 0 /\ answer' = Null
  /\ command' = Null /\ plan' = <<>>
  /\ UNCHANGED <<vdef, store, up, queue>>

PrepareNext ==
  \/ \E app \in Apps : AskNodes("app", app)
  \/ AskNodes("list", Null)
  \/ RunCompositors
  \/ \E c \in Commands : RunCommand(c)
  \/ Found \/ NotFound \/ Listed \/ Reject \/ Plan \/ NextCall
  \/ (LookupStep \/ DaemonStep) /\ UNCHANGED <<command, plan>>

PrepareSpec == PrepareInit /\ [][PrepareNext]_prepareVars

\* Goroutines and daemons run on.  A timer is an outcome like any other; nothing
\* is assumed of the machines, which may come and go for ever.
PrepareFairness ==
  /\ WF_prepareVars(LookupStep /\ UNCHANGED <<command, plan>>)
  /\ WF_prepareVars(Found \/ NotFound \/ Listed \/ Reject \/ Plan)
  /\ \A h \in Hosts :
       /\ WF_prepareVars(ProbeClose(h) /\ UNCHANGED <<command, plan>>)
       /\ WF_prepareVars(/\ ServeAsk(h, ask) \/ ServeEof(h)
                         /\ UNCHANGED <<lookupVars, command, plan>>)
       /\ WF_prepareVars(/\ CollectStray(h)
                         /\ UNCHANGED <<lookupVars, command, plan>>)

PrepareFairSpec == PrepareSpec /\ PrepareFairness

-----------------------------------------------------------------------------
(* Properties *)

Parts == DOMAIN plan

\* The node on which app.json wants that program.
Launcher(part) ==
  CASE Role(part) = "local" -> part.local
    [] Role(part) = "sender" -> part.sender
    [] OTHER -> part.recvs[1].launcher

\* Every variable keeps its type.
PrepareTypeOK ==
  /\ [vdef |-> vdef, store |-> store] \in Settings
  /\ up \in [Hosts -> BOOLEAN]
  /\ \A h \in Hosts : \A e \in ToSet(queue[h]) :
       e.kind \in {"probe", "ask", "stray", "eof"}
  /\ \A i \in DOMAIN question :
       question[i] \in {"none", "open", "sent", "data", "eof"}
  /\ phase \in {"idle", "lookup", "gather", "listed", "notfound", "route",
                "rejected", "planned"}
  /\ \A i \in DOMAIN targets : targets[i].port \in Nat
  /\ \A i \in DOMAIN probe : probe[i] \in {"dial", "yes", "no"}
  /\ \A i \in DOMAIN asker :
       asker[i] \in {"dial", "late", "write", "read", "done", "lost"}
  /\ counted \in 0..Len(targets)

\* What a plan is to contain, said without the way it is made: the sender, the
\* local application, and each receiver whose node answered and that is not
\* left to a compositor, each in exactly one part; and nothing else.
PlanComplete ==
  phase = "planned" =>
    LET own == {i \in DOMAIN Receivers(command) :
                  /\ Contains(Connectable, command.recvs[i].launcher)
                  /\ ~IsCompositor(vdef, command, command.recvs[i])}
        PartsOf(i) == {k \in Parts : /\ Role(plan[k]) = "receiver"
                                     /\ plan[k].recvs = <<command.recvs[i]>>}
        Copies(i) == {j \in own : command.recvs[j] = command.recvs[i]}
    IN /\ Len(plan) = Cardinality(own)
                        + (IF command.sender = Null THEN 0 ELSE 1)
                        + (IF command.local = Null THEN 0 ELSE 1)
       /\ \A i \in own : Cardinality(PartsOf(i)) = Cardinality(Copies(i))
       /\ command.sender # Null =>
            \E k \in Parts : /\ Role(plan[k]) = "sender"
                             /\ plan[k].sender = command.sender
       /\ command.local # Null =>
            \E k \in Parts : plan[k].local = command.local

\* The lifecycle manager and the ucl-node choose by case distinctions of their
\* own: where a part is sent, and what the daemon there starts for it.  They
\* agree, on a node that has just been reached; and what waits for the barrier is
\* the first part and no other, as UclLaunch has it (Waiters).
PlanDelivered ==
  phase = "planned" =>
    \A k \in Parts :
      /\ DistribNodeAddr(plan[k]) = Launcher(plan[k])
      /\ Contains(Connectable, DistribNodeAddr(plan[k]))
      /\ WaitsDeps(plan[k]) => k = 1

\* The sender is told (-n) only of receivers on nodes that have been reached, and
\* that this very launch starts or that have the listen port of a compositor.
SenderServed ==
  phase = "planned" =>
    \A s \in Parts : Role(plan[s]) = "sender" =>
      \A r \in ToSet(Receivers(plan[s])) :
        /\ Contains(Connectable, r.launcher)
        /\ \/ IsRecvCompositor(vdef, r.port)
           \/ \E k \in Parts : Role(plan[k]) = "receiver" /\ plan[k].recvs[1] = r

\* The addresses, as dispatchCommToNodes has them, of the nodes asked for a list.
AskedAliases ==
  LET Plain(n) == UclNode(n.ip, n.port, NoHost)
  IN [k \in 1..Len(ask.nodes) |-> Plain(ask.nodes[k])]

\* Entries of one name share the alias of the last of them, but each has a node.
HostNamesUnique ==
  \A i, j \in DOMAIN vdef.node : vdef.node[i].host = vdef.node[j].host => i = j

\* "Get a list of app names that have executable app.json" (README.md:363): an
\* application in the list is there once, and, as long as the same nodes can be
\* reached, some node's command for it is accepted and loses no receiver.  (An
\* empty list of receivers is listed and then rejected, and so may be a host whose
\* name has several entries in the definition: see the README.)
ListRunnable ==
  phase = "listed" /\ answer # Null =>
    /\ IsInjective(answer)
    /\ HostNamesUnique => \A a \in ToSet(answer) : \E h \in Hosts :
         /\ store[h][a] # Null
         /\ LET c == ExpandAlias(vdef, store[h][a])
            IN /\ c.recvs # <<>> => ~NotRoutable(c, AskedAliases)
               /\ RemoveDisconnectNode(c, AskedAliases) = c

\* A launch is not refused for want of a command as long as one of the nodes
\* asked has answered with one, in whatever order the answers came.
FoundWhereHeld ==
  [][NotFound => \A i \in DOMAIN reply : reply[i] = Null]_prepareVars

\* A question that a daemon has been sent is answered, or the daemon is lost:
\* connections that were opened to check it, or opened and abandoned, hold its
\* accept loop up but do not block it.
QuestionAnswered ==
  \A i \in 1..Cardinality(Hosts) :
    (i \in DOMAIN question /\ question[i] = "sent")
      ~> ~(i \in DOMAIN question /\ question[i] = "sent")

\* The handler does not wait for ever for its answers, unless a question was
\* given up before it was put (getAppInfoFromNode returns without sending).
GatherEnds == (phase = "gather") ~> (phase # "gather" \/ Hung)
=============================================================================
