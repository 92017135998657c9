------------------------------ MODULE AppLookup ------------------------------
(***************************************************************************)
(* The lifecycle manager's questions to the ucl-nodes: which of them can be     *)
(* reached (getConnectableNode), who has this application's command            *)
(* (getAppCmdFromEachNode), what can be executed (getAppListFromEachNode).      *)
(* One handler is followed at a time; every probe and every question is a      *)
(* goroutine of its own.  Answers are counted, in the order of their arrival,   *)
(* against the number of questions: nobody watches a deadline.                *)
(***************************************************************************)
EXTENDS NodeAccept

VARIABLES
  phase,      \* where the handler is; PrepareLaunch has the rest of it
  ask,        \* what it wants: [kind, app, nodes]
  targets,    \* the nodes it probes, then those it asks
  probe,      \* the goroutines of chkConnectableNode
  asker,      \* the goroutines of getAppInfoFromNode
  counted,    \* answers received
  answer      \* appCommand, or appList, as received so far

lookupVars == <<phase, ask, targets, probe, asker, counted, answer>>

\* getConnectableNode: one goroutine for each node.
StartProbes(nodes) ==
  /\ targets' = nodes
  /\ probe' = [i \in 1..Len(nodes) |-> "dial"]

\* net.DialTimeout succeeds: the result is reported, then the connection closed.
ProbeYes(i, h) ==
  /\ i \in DOMAIN probe /\ probe[i] = "dial"
  /\ Listens(h, targets[i])
  /\ probe' = [probe EXCEPT ![i] = "yes"]
  /\ Connect(h, [kind |-> "probe"])
  /\ UNCHANGED <<vdef, store, up, question, reply>>
  /\ UNCHANGED <<phase, ask, targets, asker, counted, answer>>

\* It fails, or takes more than 500 ms.
ProbeNo(i) ==
  /\ i \in DOMAIN probe /\ probe[i] = "dial"
  /\ probe' = [probe EXCEPT ![i] = "no"]
  /\ UNCHANGED nodeAccVars
  /\ UNCHANGED <<phase, ask, targets, asker, counted, answer>>

\* Mutant: conn.Close() is forgotten.
NeverClosed == {}

\* What chkConnectableNode closes.
ClosedAfterProbe == {"probe"}

ProbeClose(h) ==
  /\ \E kind \in ClosedAfterProbe : CloseOne(h, kind)
  /\ UNCHANGED <<vdef, store, up, question, reply, lookupVars>>

Probed == \A i \in DOMAIN probe : probe[i] # "dial"

\* getConnectableNode returns the nodes that answered, in their order.
Connectable == Selected(targets, {i \in DOMAIN probe : probe[i] = "yes"})

-----------------------------------------------------------------------------
(* getAppCmdFromEachNode, getAppListFromEachNode *)

\* One goroutine for each connectable node.
StartQuestions ==
  /\ phase = "lookup" /\ Probed
  /\ phase' = "gather"
  /\ targets' = Connectable
  /\ ask' = [ask EXCEPT !.nodes = targets']
  /\ asker' = [i \in DOMAIN targets' |-> "dial"]
  /\ question' = [i \in DOMAIN targets' |-> "none"]
  /\ reply' = [i \in DOMAIN targets' |-> Null]
  /\ probe' = <<>>
  /\ UNCHANGED <<vdef, store, up, queue, counted, answer>>

Asking(i, at) == i \in DOMAIN asker /\ asker[i] = at

AskerGoes(i, to) ==
  /\ asker' = [asker EXCEPT ![i] = to]
  /\ UNCHANGED <<phase, ask, targets, probe>>

\* ConnectTarget connects within its second.
AskConnect(i, h) ==
  /\ Asking(i, "dial")
  /\ Listens(h, targets[i])
  /\ AskerGoes(i, "write")
  /\ Connect(h, [kind |-> "ask", k |-> i])
  /\ question' = [question EXCEPT ![i] = "open"]
  /\ UNCHANGED <<vdef, store, up, reply, counted, answer>>

\* It does not: getAppInfoFromNode returns without sending anything to
\* rcvDataCh.  retryConnectTarget may be in net.Dial at that time.
AskTimeout(i) ==
  /\ Asking(i, "dial")
  /\ AskerGoes(i, "late")
  /\ UNCHANGED <<nodeAccVars, counted, answer>>

\* That Dial fails and the context is done ...
LateEnd(i) ==
  /\ Asking(i, "late")
  /\ AskerGoes(i, "lost")
  /\ UNCHANGED <<nodeAccVars, counted, answer>>

\* ... or succeeds: the connection goes into a channel nobody reads.
LateConnect(i, h) ==
  /\ Asking(i, "late")
  /\ Listens(h, targets[i])
  /\ Len(queue[h]) < QueueMax
  /\ AskerGoes(i, "lost")
  /\ Connect(h, [kind |-> "stray"])
  /\ UNCHANGED <<vdef, store, up, question, reply, counted, answer>>

\* SendCommand; on a connection that was reset its first writes may succeed.
AskWrite(i) ==
  /\ Asking(i, "write")
  /\ AskerGoes(i, "read")
  /\ question' = [question EXCEPT ![i] = IF @ = "open" THEN "sent" ELSE @]
  /\ UNCHANGED <<vdef, store, up, queue, reply, counted, answer>>

\* If they do not, the goroutine returns without sending to rcvDataCh.
AskWriteFails(i) ==
  /\ Asking(i, "write")
  /\ question[i] = "eof"
  /\ AskerGoes(i, "lost")
  /\ UNCHANGED <<nodeAccVars, counted, answer>>

\* Mutant: the last answer is taken although it is nil.
LastOfAll(sofar, data) == data

\* The command is that of the last node that had one; lists are joined.
Collected(sofar, data) ==
  CASE data = Null -> sofar
    [] data # Null /\ (ask.kind = "app" \/ sofar = Null) -> data
    [] OTHER -> sofar \o data

\* ConnReadWithSize returns, and the handler receives what it returned.
AskRead(i) ==
  /\ Asking(i, "read")
  /\ question[i] \in {"data", "eof"}
  /\ AskerGoes(i, "done")
  /\ question' = [question EXCEPT ![i] = "none"]
  /\ counted' = counted + 1
  /\ answer' = Collected(answer, reply[i])
  /\ UNCHANGED <<vdef, store, up, queue, reply>>

\* for i := 0; i < len(cNodes); i++
Gathered == phase = "gather" /\ counted = Len(targets)

\* A question was given up without an answer: the loop never ends.
Hung == phase = "gather" /\ \E i \in DOMAIN asker : asker[i] = "lost"

LookupStep ==
  \/ StartQuestions
  \/ \E i \in 1..Len(targets) :
       \/ ProbeNo(i) \/ AskTimeout(i) \/ LateEnd(i)
       \/ AskWrite(i) \/ AskWriteFails(i) \/ AskRead(i)
       \/ \E h \in Hosts : ProbeYes(i, h) \/ AskConnect(i, h) \/ LateConnect(i, h)

DaemonStep ==
  \E h \in Hosts :
    \/ ProbeClose(h)
    \/ (ServeAsk(h, ask) \/ ServeEof(h) \/ CollectStray(h)
        \/ NodeDown(h) \/ NodeUp(h)) /\ UNCHANGED lookupVars
=============================================================================
