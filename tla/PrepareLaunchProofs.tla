------------------------- MODULE PrepareLaunchProofs -------------------------
(***************************************************************************)
(* What PrepareLaunch promises of a plan and of a list, for every number of     *)
(* machines and applications, every virtual screen definition, every content   *)
(* of the $DCMPATHs and every command.                                        *)
(***************************************************************************)
EXTENDS PrepareLaunch, CommandRoutingProofs

(* The inductive invariant *)

\* Where the goroutines of chkConnectableNode and of getAppInfoFromNode exist.
Probing == {"lookup", "route", "rejected", "planned"}
Answering == {"gather", "notfound", "listed"}

Phases == Probing \cup Answering \cup {"idle"}

ProbePositions == IF phase \in Probing THEN 1..Len(targets) ELSE {}
AskPositions == IF phase \in Answering THEN 1..Len(targets) ELSE {}

ProbeStates == {"dial", "yes", "no"}
AskerStates == {"dial", "late", "write", "read", "done", "lost"}
QuestionStates == {"none", "open", "sent", "data", "eof"}

Entries == [kind : {"probe", "stray", "eof"}] \cup [kind : {"ask"}, k : Nat]

Asks == [kind : {"none", "app", "list"}, app : Apps \cup {Null}, nodes : Seq(UclNodes)]

StoredCommands == {Null} \cup CommandsAt(Names)

\* What a machine would list for the nodes in the question, and the answers.
RunnableApps == UNION {ExecutableApps(h, ask.nodes) : h \in Hosts}

Replies == IF ask.kind = "app" THEN StoredCommands ELSE {Null} \cup Seq(RunnableApps)

Done == {i \in DOMAIN asker : asker[i] = "done"}

TypeInv ==
  /\ [vdef |-> vdef, store |-> store] \in Settings
  /\ up \in [Hosts -> BOOLEAN]
  /\ queue \in [Hosts -> Seq(Entries)]
  /\ phase \in Phases
  /\ ask \in Asks
  /\ targets \in Seq(UclNodes)
  /\ probe \in [ProbePositions -> ProbeStates]
  /\ asker \in [AskPositions -> AskerStates]
  /\ question \in [AskPositions -> QuestionStates]
  /\ reply \in [AskPositions -> Replies]
  /\ answer \in Replies
  /\ counted = Cardinality(Done)

\* The nodes of a question are nodes of the definition; a daemon that has been
\* sent one has somebody waiting for it; the answer is that of those who are
\* done, all of them when it is given.
AskInv ==
  /\ phase \in {"lookup"} \cup Answering =>
       /\ ask.kind \in {"app", "list"}
       /\ ask.kind = "app" => ask.app \in Apps
  /\ ToSet(ask.nodes) \subseteq ToSet(GetFrameworkNode(vdef))
  /\ phase = "lookup" => targets = GetFrameworkNode(vdef)
  /\ phase \notin Answering => answer = Null
  /\ \A i \in AskPositions : question[i] = "sent" => asker[i] = "read"
  /\ phase \in {"listed", "notfound"} => Done = AskPositions
  /\ phase = "gather" /\ ask.kind = "app" /\ answer = Null =>
       \A i \in Done : reply[i] = Null
  /\ phase = "listed" => /\ ask.kind = "list"
                         /\ answer # Null => IsInjective(answer)

\* The plan is that of a command that could be routed, to the nodes that were
\* found then: no probe is under way any more.
RouteInv ==
  /\ phase \in {"route", "rejected", "planned"} /\ command.type \in Routable =>
       command \in CommandsAt(UclNodes)
  /\ phase = "planned" =>
       /\ Probed
       /\ ~NotRoutable(command, Connectable)
       /\ plan = SplitCommand(vdef, RemoveDisconnectNode(command, Connectable))

PrepareInv == TypeInv /\ AskInv /\ RouteInv

-----------------------------------------------------------------------------
(* Types of what the invariant is about *)

\* The definition and the contents of the machines are well formed.
LEMMA SettingsType ==
  ASSUME TypeInv
  PROVE  /\ vdef \in Definitions
         /\ store \in [Hosts -> [Apps -> StoredCommands]]
<1>1. [vdef |-> vdef, store |-> store] \in
        [vdef : Definitions, store : [Hosts -> [Apps -> StoredCommands]]]
  BY SettingsAssumption DEF TypeInv, StoredCommands
<1> QED
  BY <1>1

\* The nodes that answered are UclNodes, of those that were tried.
LEMMA ConnectableType ==
  ASSUME TypeInv, phase \in Probing
  PROVE  /\ Connectable \in Seq(UclNodes)
         /\ ToSet(Connectable) \subseteq ToSet(targets)
<1> DEFINE I == {i \in DOMAIN probe : probe[i] = "yes"}
<1>1. targets \in Seq(UclNodes) /\ I \in SUBSET (1..Len(targets))
  BY DEF TypeInv, ProbePositions
<1>2. Connectable = Selected(targets, I)
  BY DEF Connectable
<1> HIDE DEF I
<1>3. Connectable \in Seq(UclNodes) /\ ToSet(Connectable) = {targets[i] : i \in I}
  BY <1>1, <1>2, SelectedElements
<1>4. DOMAIN targets = 1..Len(targets)
  BY <1>1
<1> QED
  BY <1>1, <1>3, <1>4 DEF ToSet

\* A connection joins a queue.
LEMMA ConnectType ==
  ASSUME TypeInv, NEW h \in Hosts, NEW e \in Entries, Connect(h, e)
  PROVE  queue' \in [Hosts -> Seq(Entries)]
<1>1. queue \in [Hosts -> Seq(Entries)]
  BY DEF TypeInv
<1>2. queue' = [queue EXCEPT ![h] = Append(queue[h], e)]
  BY DEF Connect
<1>3. queue[h] \in Seq(Entries)
  BY <1>1
<1>4. Append(queue[h], e) \in Seq(Entries)
  BY <1>3, AppendProperties
<1> QED
  BY <1>1, <1>2, <1>4

\* The first connection leaves it.
LEMMA TailType ==
  ASSUME TypeInv, NEW h \in Hosts, queue[h] # <<>>,
         queue' = [queue EXCEPT ![h] = Tail(@)]
  PROVE  queue' \in [Hosts -> Seq(Entries)]
<1>1. queue \in [Hosts -> Seq(Entries)]
  BY DEF TypeInv
<1>2. queue[h] \in Seq(Entries)
  BY <1>1
<1>3. Tail(queue[h]) \in Seq(Entries)
  BY <1>2, HeadTailProperties
<1> QED
  BY <1>1, <1>3

\* The lifecycle manager closes one in it.
LEMMA CloseType ==
  ASSUME TypeInv, NEW h \in Hosts, NEW kind, CloseOne(h, kind)
  PROVE  queue' \in [Hosts -> Seq(Entries)]
<1>1. queue \in [Hosts -> Seq(Entries)]
  BY DEF TypeInv
<1>2. PICK k : queue' = [queue EXCEPT ![h][k] = [kind |-> "eof"]]
  BY DEF CloseOne
<1>3. queue[h] \in Seq(Entries)
  BY <1>1
<1>4. [kind |-> "eof"] \in Entries
  BY DEF Entries
<1> HIDE DEF Entries
<1>5. [queue[h] EXCEPT ![k] = [kind |-> "eof"]] \in Seq(Entries)
  <2> DEFINE s == queue[h]
             e == [kind |-> "eof"]
             t == [s EXCEPT ![k] = e]
  <2>1. s \in Seq(Entries) /\ e \in Entries
    BY <1>3, <1>4
  <2> HIDE DEF s, e
  <2>2. DOMAIN t = 1..Len(s) /\ Len(s) \in Nat
    BY <2>1
  <2>3. \A j \in 1..Len(s) : t[j] \in Entries
    BY <2>1
  <2>4. t = [j \in 1..Len(s) |-> t[j]]
    BY <2>2
  <2> HIDE DEF t
  <2>5. t \in Seq(Entries)
    BY <2>2, <2>3, <2>4
  <2> QED
    BY <2>5 DEF s, t, e
<1> QED
  BY <1>1, <1>2, <1>5

\* What is asked and what may be answered to it only depends on the handler's
\* request and on what the machines have.
LEMMA RepliesKept ==
  ASSUME UNCHANGED <<store, ask>>
  PROVE  Replies' = Replies
BY DEF Replies, RunnableApps, ExecutableApps

-----------------------------------------------------------------------------
(* Steps *)

\* A step of a daemon that only changes what is in a queue.
LEMMA QueueOnly ==
  ASSUME PrepareInv, queue' \in [Hosts -> Seq(Entries)], up' \in [Hosts -> BOOLEAN],
         UNCHANGED <<vdef, store, question, reply, lookupVars, command, plan>>
  PROVE  PrepareInv'
<1>1. TypeInv'
  BY RepliesKept DEF PrepareInv, TypeInv, lookupVars, ProbePositions, AskPositions, Done
<1>2. AskInv'
  BY DEF PrepareInv, AskInv, lookupVars, AskPositions, Done
<1>3. RouteInv'
  BY DEF PrepareInv, RouteInv, lookupVars, Probed, Connectable
<1> QED
  BY <1>1, <1>2, <1>3 DEF PrepareInv

\* A probe that is under way ends.
LEMMA ProbeEnds ==
  ASSUME PrepareInv, NEW i, i \in DOMAIN probe, probe[i] = "dial",
         NEW to \in {"yes", "no"}, probe' = [probe EXCEPT ![i] = to],
         queue' \in [Hosts -> Seq(Entries)],
         UNCHANGED <<vdef, store, up, question, reply>>,
         UNCHANGED <<phase, ask, targets, asker, counted, answer, command, plan>>
  PROVE  PrepareInv'
<1>1. TypeInv'
  BY RepliesKept DEF PrepareInv, TypeInv, ProbePositions, AskPositions, Done, ProbeStates
<1>2. AskInv'
  BY DEF PrepareInv, AskInv, AskPositions, Done
<1>3. phase # "planned"
  BY DEF PrepareInv, RouteInv, Probed
<1>4. RouteInv'
  BY <1>3 DEF PrepareInv, RouteInv
<1> QED
  BY <1>1, <1>2, <1>4 DEF PrepareInv

\* A goroutine that is not done yet runs while the handler gathers answers.
LEMMA AskerAt ==
  ASSUME TypeInv, AskInv, NEW i, NEW at, Asking(i, at), at # "done"
  PROVE  /\ phase = "gather" /\ AskPositions = 1..Len(targets)
         /\ i \in AskPositions /\ asker[i] = at
<1>1. i \in AskPositions /\ asker[i] = at
  BY DEF TypeInv, Asking
<1>2. phase \in Answering
  BY <1>1 DEF AskPositions
<1>3. i \notin Done
  BY <1>1 DEF Done
<1>4. phase \notin {"listed", "notfound"}
  BY <1>1, <1>3 DEF AskInv
<1> QED
  BY <1>1, <1>2, <1>4 DEF Answering, AskPositions

\* The handler gathers the answers: there is no route yet.
LEMMA GatherNoRoute ==
  ASSUME phase = "gather", phase' = phase
  PROVE  RouteInv'
BY DEF RouteInv

\* A goroutine moves on without an answer.
LEMMA AskerMoves ==
  ASSUME PrepareInv, NEW i, NEW at, Asking(i, at), at # "done",
         NEW to \in AskerStates \ {"done"}, AskerGoes(i, to),
         queue' \in [Hosts -> Seq(Entries)],
         question' \in [AskPositions -> QuestionStates],
         \A j \in AskPositions : question'[j] = "sent" => asker'[j] = "read",
         UNCHANGED <<vdef, store, up, reply, counted, answer, command, plan>>
  PROVE  PrepareInv'
<1>1. phase = "gather" /\ i \in AskPositions /\ asker[i] # "done"
  BY AskerAt DEF PrepareInv
<1>2. asker \in [AskPositions -> AskerStates]
  BY DEF PrepareInv, TypeInv
<1>3. /\ UNCHANGED <<phase, ask, targets, probe>>
      /\ asker' = [asker EXCEPT ![i] = to]
  BY DEF AskerGoes
<1>4. asker' \in [AskPositions -> AskerStates]
  BY <1>2, <1>3
<1>5. Done' = Done
  BY <1>1, <1>2, <1>3 DEF Done
<1>6. AskPositions' = AskPositions /\ ProbePositions' = ProbePositions
  BY <1>3 DEF AskPositions, ProbePositions
<1>7. TypeInv'
  <2> HIDE DEF Done
  <2> QED  BY <1>3, <1>4, <1>5, <1>6, RepliesKept DEF PrepareInv, TypeInv
<1>8. AskInv'
  BY <1>1, <1>3, <1>5, <1>6 DEF PrepareInv, AskInv, Answering
<1>9. RouteInv'
  BY <1>1, <1>3, GatherNoRoute
<1> QED
  BY <1>7, <1>8, <1>9 DEF PrepareInv

\* getAppInfoFromNode, for each way it can go on before its answer.
LEMMA AskerSteps ==
  ASSUME PrepareInv, NEW i \in 1..Len(targets), UNCHANGED <<command, plan>>,
         \/ AskTimeout(i) \/ LateEnd(i) \/ AskWrite(i) \/ AskWriteFails(i)
         \/ \E h \in Hosts : AskConnect(i, h) \/ LateConnect(i, h)
  PROVE  PrepareInv'
<1>1. /\ queue \in [Hosts -> Seq(Entries)]
      /\ asker \in [AskPositions -> AskerStates]
      /\ question \in [AskPositions -> QuestionStates]
      /\ \A j \in AskPositions : question[j] = "sent" => asker[j] = "read"
  BY DEF PrepareInv, TypeInv, AskInv
<1>2. ASSUME NEW at \in {"dial", "late", "write"}, Asking(i, at)
      PROVE  i \in AskPositions /\ asker[i] = at /\ question[i] # "sent"
  BY <1>1, <1>2, AskerAt DEF PrepareInv
<1>3. CASE AskTimeout(i)
  <2>1. Asking(i, "dial") /\ AskerGoes(i, "late") /\ UNCHANGED <<nodeAccVars, counted, answer>>
    BY <1>3 DEF AskTimeout
  <2>2. asker' = [asker EXCEPT ![i] = "late"]
    BY <2>1 DEF AskerGoes
  <2>3. \A j \in AskPositions : question'[j] = "sent" => asker'[j] = "read"
    BY <1>1, <1>2, <2>1, <2>2 DEF nodeAccVars
  <2> QED
    BY <1>1, <2>1, <2>3, AskerMoves DEF nodeAccVars, AskerStates
<1>4. CASE LateEnd(i)
  <2>1. Asking(i, "late") /\ AskerGoes(i, "lost") /\ UNCHANGED <<nodeAccVars, counted, answer>>
    BY <1>4 DEF LateEnd
  <2>2. asker' = [asker EXCEPT ![i] = "lost"]
    BY <2>1 DEF AskerGoes
  <2>3. \A j \in AskPositions : question'[j] = "sent" => asker'[j] = "read"
    BY <1>1, <1>2, <2>1, <2>2 DEF nodeAccVars
  <2> QED
    BY <1>1, <2>1, <2>3, AskerMoves DEF nodeAccVars, AskerStates
<1>5. CASE AskWriteFails(i)
  <2>1. Asking(i, "write") /\ AskerGoes(i, "lost") /\ UNCHANGED <<nodeAccVars, counted, answer>>
    BY <1>5 DEF AskWriteFails
  <2>2. asker' = [asker EXCEPT ![i] = "lost"]
    BY <2>1 DEF AskerGoes
  <2>3. \A j \in AskPositions : question'[j] = "sent" => asker'[j] = "read"
    BY <1>1, <1>2, <2>1, <2>2 DEF nodeAccVars
  <2> QED
    BY <1>1, <2>1, <2>3, AskerMoves DEF nodeAccVars, AskerStates
<1>6. CASE AskWrite(i)
  <2>1. /\ Asking(i, "write") /\ AskerGoes(i, "read")
        /\ question' = [question EXCEPT ![i] = IF @ = "open" THEN "sent" ELSE @]
        /\ UNCHANGED <<vdef, store, up, queue, reply, counted, answer>>
    BY <1>6 DEF AskWrite
  <2>2. asker' = [asker EXCEPT ![i] = "read"]
    BY <2>1 DEF AskerGoes
  <2>3. question' \in [AskPositions -> QuestionStates]
    BY <1>1, <2>1 DEF QuestionStates
  <2>4. \A j \in AskPositions : question'[j] = "sent" => asker'[j] = "read"
    BY <1>1, <1>2, <2>1, <2>2
  <2> QED
    BY <1>1, <2>1, <2>3, <2>4, AskerMoves DEF AskerStates
<1>7. ASSUME NEW h \in Hosts, AskConnect(i, h)
      PROVE  PrepareInv'
  <2>1. /\ Asking(i, "dial") /\ AskerGoes(i, "write")
        /\ Connect(h, [kind |-> "ask", k |-> i])
        /\ question' = [question EXCEPT ![i] = "open"]
        /\ UNCHANGED <<vdef, store, up, reply, counted, answer>>
    BY <1>7 DEF AskConnect
  <2>2. asker' = [asker EXCEPT ![i] = "write"]
    BY <2>1 DEF AskerGoes
  <2>3. question' \in [AskPositions -> QuestionStates]
    BY <1>1, <2>1 DEF QuestionStates
  <2>4. \A j \in AskPositions : question'[j] = "sent" => asker'[j] = "read"
    BY <1>1, <1>2, <2>1, <2>2
  <2>5. [kind |-> "ask", k |-> i] \in Entries
    BY DEF Entries
  <2>6. queue' \in [Hosts -> Seq(Entries)]
    BY <2>1, <2>5, ConnectType DEF PrepareInv
  <2> QED
    BY <2>1, <2>3, <2>4, <2>6, AskerMoves DEF AskerStates
<1>8. ASSUME NEW h \in Hosts, LateConnect(i, h)
      PROVE  PrepareInv'
  <2>1. /\ Asking(i, "late") /\ AskerGoes(i, "lost")
        /\ Connect(h, [kind |-> "stray"])
        /\ UNCHANGED <<vdef, store, up, question, reply, counted, answer>>
    BY <1>8 DEF LateConnect
  <2>2. asker' = [asker EXCEPT ![i] = "lost"]
    BY <2>1 DEF AskerGoes
  <2>3. \A j \in AskPositions : question'[j] = "sent" => asker'[j] = "read"
    BY <1>1, <1>2, <2>1, <2>2
  <2>4. [kind |-> "stray"] \in Entries
    BY DEF Entries
  <2>5. queue' \in [Hosts -> Seq(Entries)]
    BY <2>1, <2>4, ConnectType DEF PrepareInv
  <2> QED
    BY <1>1, <2>1, <2>3, <2>5, AskerMoves DEF AskerStates
<1> QED
  BY <1>3, <1>4, <1>5, <1>6, <1>7, <1>8

\* The answers that are counted are those of the goroutines that are done.
LEMMA DoneCounted ==
  ASSUME TypeInv
  PROVE  /\ IsFiniteSet(Done) /\ Done \subseteq AskPositions
         /\ counted \in 0..Len(targets)
         /\ phase \in Answering /\ counted = Len(targets) => Done = AskPositions
<1>1. Len(targets) \in Nat /\ counted = Cardinality(Done)
  BY DEF TypeInv
<1>2. Done \in SUBSET AskPositions /\ AskPositions \in SUBSET (1..Len(targets))
  BY DEF TypeInv, Done, AskPositions
<1>3. IsFiniteSet(1..Len(targets)) /\ Cardinality(1..Len(targets)) = Len(targets)
  <2> DEFINE n == Len(targets)
  <2>1. n \in Nat
    BY <1>1
  <2> HIDE DEF n
  <2>2. IsFiniteSet(1..n) /\ Cardinality(1..n) = IF 1 > n THEN 0 ELSE n - 1 + 1
    BY <2>1, FS_Interval
  <2>3. Cardinality(1..n) = n
    BY <2>1, <2>2
  <2> QED
    BY <2>2, <2>3 DEF n
<1> HIDE DEF Done
<1>4. /\ IsFiniteSet(Done) /\ Cardinality(Done) <= Len(targets)
      /\ Cardinality(Done) = Len(targets) => Done = 1..Len(targets)
  BY <1>2, <1>3, FS_Subset
<1>5. Cardinality(Done) \in Nat
  BY <1>4, FS_CardinalityType
<1> QED
  BY <1>1, <1>2, <1>4, <1>5 DEF AskPositions

\* What has been received stays an answer.
LEMMA CollectedType ==
  ASSUME TypeInv, ask.kind \in {"app", "list"}, NEW data \in Replies
  PROVE  /\ Collected(answer, data) \in Replies
         /\ ask.kind = "app" /\ Collected(answer, data) = Null =>
              answer = Null /\ data = Null
<1>1. answer \in Replies
  BY DEF TypeInv
<1>2. CASE data = Null
  BY <1>1, <1>2, Zenon DEF Collected
<1>3. CASE data # Null /\ (ask.kind = "app" \/ answer = Null)
  <2>1. Collected(answer, data) = data
    BY <1>3, Zenon DEF Collected
  <2> QED
    BY <1>3, <2>1
<1>4. CASE data # Null /\ ask.kind # "app" /\ answer # Null
  <2>1. Collected(answer, data) = answer \o data
    BY <1>4, Zenon DEF Collected
  <2>2. answer \in Seq(RunnableApps) /\ data \in Seq(RunnableApps)
    BY <1>1, <1>4 DEF Replies
  <2>3. answer \o data \in Seq(RunnableApps)
    BY <2>2, ConcatProperties
  <2> QED
    BY <1>4, <2>1, <2>3 DEF Replies
<1> QED
  BY <1>2, <1>3, <1>4

\* The handler receives what a goroutine has read.
LEMMA AskReadStep ==
  ASSUME PrepareInv, NEW i, AskRead(i), UNCHANGED <<command, plan>>
  PROVE  PrepareInv'
<1>1. /\ Asking(i, "read") /\ AskerGoes(i, "done")
      /\ question' = [question EXCEPT ![i] = "none"]
      /\ counted' = counted + 1
      /\ answer' = Collected(answer, reply[i])
      /\ UNCHANGED <<vdef, store, up, queue, reply>>
  BY DEF AskRead
<1>2. TypeInv /\ AskInv
  BY DEF PrepareInv
<1>3. phase = "gather" /\ i \in AskPositions /\ asker[i] = "read"
  BY <1>1, <1>2, AskerAt
<1>4. /\ asker \in [AskPositions -> AskerStates]
      /\ question \in [AskPositions -> QuestionStates]
      /\ reply \in [AskPositions -> Replies]
  BY <1>2 DEF TypeInv
<1>5. /\ UNCHANGED <<phase, ask, targets, probe>>
      /\ asker' = [asker EXCEPT ![i] = "done"]
  BY <1>1 DEF AskerGoes
<1>6. /\ asker' \in [AskPositions -> AskerStates]
      /\ question' \in [AskPositions -> QuestionStates]
  BY <1>1, <1>4, <1>5 DEF AskerStates, QuestionStates
<1>7. Done' = Done \cup {i} /\ i \notin Done
  BY <1>3, <1>4, <1>5 DEF Done
<1>8. counted' = Cardinality(Done')
  <2>1. IsFiniteSet(Done) /\ counted = Cardinality(Done)
    BY <1>2, DoneCounted DEF TypeInv
  <2> HIDE DEF Done
  <2>2. Cardinality(Done \cup {i}) = Cardinality(Done) + 1
    BY <1>7, <2>1, FS_AddElement
  <2> QED
    BY <1>1, <1>7, <2>1, <2>2
<1>9. /\ AskPositions' = AskPositions /\ ProbePositions' = ProbePositions
      /\ Replies' = Replies
  BY <1>1, <1>5, RepliesKept DEF AskPositions, ProbePositions
<1>10. ask.kind \in {"app", "list"}
  BY <1>2, <1>3 DEF AskInv, Answering
<1>11. /\ answer' \in Replies
       /\ ask.kind = "app" /\ answer' = Null => answer = Null /\ reply[i] = Null
  BY <1>1, <1>2, <1>3, <1>4, <1>10, CollectedType
<1>12. TypeInv'
  <2> HIDE DEF Done
  <2> QED  BY <1>1, <1>2, <1>5, <1>6, <1>8, <1>9, <1>11 DEF TypeInv
<1>13. \A j \in AskPositions : question'[j] = "sent" => asker'[j] = "read"
  BY <1>1, <1>2, <1>4, <1>5 DEF AskInv
<1>14. phase = "gather" /\ ask.kind = "app" /\ answer' = Null =>
         \A j \in Done' : reply[j] = Null
  BY <1>2, <1>7, <1>11 DEF AskInv
<1>15. AskInv'
  BY <1>1, <1>2, <1>3, <1>5, <1>9, <1>13, <1>14 DEF AskInv, Answering
<1>16. RouteInv'
  BY <1>3, <1>5, GatherNoRoute
<1> QED
  BY <1>12, <1>15, <1>16 DEF PrepareInv

\* An answer is a command that is stored there, or what can be executed there.
LEMMA AnswerType ==
  ASSUME TypeInv, AskInv, phase \in Answering, NEW h \in Hosts
  PROVE  Answer(h, ask) \in Replies
<1>1. ask.kind \in {"app", "list"} /\ (ask.kind = "app" => ask.app \in Apps)
  BY DEF AskInv
<1>2. store \in [Hosts -> [Apps -> StoredCommands]]
  BY SettingsType
<1>3. CASE ask.kind = "app"
  <2>1. Answer(h, ask) = store[h][ask.app]
    BY <1>3 DEF Answer
  <2> QED
    BY <1>1, <1>2, <1>3, <2>1 DEF Replies
<1>4. CASE ask.kind = "list"
  <2> DEFINE apps == ExecutableApps(h, ask.nodes)
  <2>1. apps \in SUBSET Apps /\ apps \subseteq RunnableApps
    BY DEF ExecutableApps, RunnableApps
  <2>2. Answer(h, ask) = IF SetToSeq(apps) = <<>> THEN Null ELSE SetToSeq(apps)
    BY <1>4 DEF Answer
  <2> HIDE DEF apps
  <2>3. IsFiniteSet(apps)
    BY <2>1, AppsAssumption, FS_Subset
  <2>4. SetToSeq(apps) \in Seq(apps)
    BY <2>3, SetToSeqElements
  <2>5. SetToSeq(apps) \in Seq(RunnableApps)
    BY <2>1, <2>4
  <2> QED
    BY <1>4, <2>2, <2>5 DEF Replies
<1> QED
  BY <1>1, <1>3, <1>4

\* A daemon answers the question it has been sent.
LEMMA ServeAskStep ==
  ASSUME PrepareInv, NEW h \in Hosts, ServeAsk(h, ask),
         UNCHANGED <<lookupVars, command, plan>>
  PROVE  PrepareInv'
<1> DEFINE i == Head(queue[h]).k
<1>1. /\ queue[h] # <<>>
      /\ question[i] = "sent"
      /\ question' = [question EXCEPT ![i] = AfterCommand(Answer(h, ask))]
      /\ reply' = [reply EXCEPT ![i] = Answer(h, ask)]
      /\ queue' = [queue EXCEPT ![h] = Tail(@)]
      /\ UNCHANGED <<vdef, store, up>>
  BY DEF ServeAsk
<1> HIDE DEF i
<1>2. TypeInv /\ AskInv
  BY DEF PrepareInv
<1>3. queue' \in [Hosts -> Seq(Entries)]
  BY <1>1, <1>2, TailType
<1>4. /\ asker \in [AskPositions -> AskerStates]
      /\ question \in [AskPositions -> QuestionStates]
      /\ reply \in [AskPositions -> Replies]
      /\ \A j \in AskPositions : question[j] = "sent" => asker[j] = "read"
  BY <1>2 DEF TypeInv, AskInv
<1>5. AfterCommand(Answer(h, ask)) \in QuestionStates \ {"sent"}
  BY DEF AfterCommand, QuestionStates
<1>6. question' \in [AskPositions -> QuestionStates]
  BY <1>1, <1>4, <1>5
<1>7. reply' \in [AskPositions -> Replies]
  <2>1. CASE i \in AskPositions
    <3>1. phase \in Answering
      BY <2>1 DEF AskPositions
    <3>2. Answer(h, ask) \in Replies
      BY <1>2, <3>1, AnswerType
    <3> HIDE DEF Replies
    <3> QED
      BY <1>1, <1>4, <3>2
  <2>2. CASE i \notin AskPositions
    BY <1>1, <1>4, <2>2
  <2> QED
    BY <2>1, <2>2
<1>8. /\ AskPositions' = AskPositions /\ ProbePositions' = ProbePositions
      /\ Replies' = Replies /\ Done' = Done
  BY <1>1, RepliesKept DEF AskPositions, ProbePositions, Done, lookupVars
<1>9. TypeInv'
  <2> HIDE DEF Done
  <2> QED  BY <1>1, <1>2, <1>3, <1>6, <1>7, <1>8 DEF TypeInv, lookupVars
<1>10. \A j \in AskPositions : question'[j] = "sent" => asker'[j] = "read"
  BY <1>1, <1>4, <1>5 DEF lookupVars
<1>11. \A j \in Done : reply'[j] = reply[j]
  <2> SUFFICES ASSUME NEW j \in Done PROVE reply'[j] = reply[j]
    OBVIOUS
  <2>1. j \in AskPositions /\ asker[j] = "done"
    BY <1>4 DEF Done
  <2>2. j # i
    BY <1>1, <1>4, <2>1
  <2> QED
    BY <1>1, <1>4, <2>1, <2>2
<1>12. AskInv'
  <2> HIDE DEF Done
  <2> QED  BY <1>1, <1>2, <1>8, <1>10, <1>11 DEF AskInv, lookupVars
<1>13. RouteInv'
  BY <1>1 DEF PrepareInv, RouteInv, lookupVars, Probed, Connectable
<1> QED
  BY <1>9, <1>12, <1>13 DEF PrepareInv

\* A machine goes away with its connections.
LEMMA NodeDownStep ==
  ASSUME PrepareInv, NEW h \in Hosts, NodeDown(h), UNCHANGED <<lookupVars, command, plan>>
  PROVE  PrepareInv'
<1>1. /\ up' = [up EXCEPT ![h] = FALSE]
      /\ queue' = [queue EXCEPT ![h] = <<>>]
      /\ question' = [i \in DOMAIN question |->
                        IF \E e \in ToSet(queue[h]) : e.kind = "ask" /\ e.k = i
                          THEN "eof" ELSE question[i]]
      /\ UNCHANGED <<vdef, store, reply>>
  BY DEF NodeDown
<1>2. TypeInv /\ AskInv
  BY DEF PrepareInv
<1>3. up' \in [Hosts -> BOOLEAN] /\ queue' \in [Hosts -> Seq(Entries)]
  BY <1>1, <1>2 DEF TypeInv
<1>4. question \in [AskPositions -> QuestionStates]
  BY <1>2 DEF TypeInv
<1>5. \A i \in AskPositions : question'[i] \in {"eof", question[i]}
  BY <1>1, <1>4
<1>6. question' \in [AskPositions -> QuestionStates]
  BY <1>1, <1>4 DEF QuestionStates
<1>7. /\ AskPositions' = AskPositions /\ ProbePositions' = ProbePositions
      /\ Replies' = Replies /\ Done' = Done
  BY <1>1, RepliesKept DEF AskPositions, ProbePositions, Done, lookupVars
<1>8. TypeInv'
  <2> HIDE DEF Done
  <2> QED  BY <1>1, <1>2, <1>3, <1>6, <1>7 DEF TypeInv, lookupVars
<1>9. AskInv'
  <2> HIDE DEF Done
  <2> QED  BY <1>1, <1>2, <1>5, <1>7 DEF AskInv, lookupVars
<1>10. RouteInv'
  BY <1>1 DEF PrepareInv, RouteInv, lookupVars, Probed, Connectable
<1> QED
  BY <1>8, <1>9, <1>10 DEF PrepareInv

\* Before there are goroutines, and after them, there is nothing of them.
LEMMA NoGoroutines ==
  ASSUME NEW S
  PROVE  <<>> \in [{} -> S] /\ {i \in DOMAIN <<>> : <<>>[i] = "done"} = {}
OBVIOUS

\* The handler asks which nodes can be reached.
LEMMA AskNodesStep ==
  ASSUME PrepareInv, NEW kind \in {"app", "list"}, NEW app \in Apps \cup {Null},
         kind = "app" => app \in Apps, AskNodes(kind, app)
  PROVE  PrepareInv'
<1>1. /\ phase = "idle" /\ phase' = "lookup"
      /\ ask' = [kind |-> kind, app |-> app, nodes |-> <<>>]
      /\ targets' = GetFrameworkNode(vdef)
      /\ probe' = [i \in 1..Len(targets') |-> "dial"]
      /\ UNCHANGED <<vdef, store, up, queue, question, reply>>
      /\ UNCHANGED <<asker, counted, answer, command, plan>>
  BY DEF AskNodes, StartProbes, nodeAccVars
<1>2. TypeInv /\ AskInv
  BY DEF PrepareInv
<1>3. GetFrameworkNode(vdef) \in Seq(UclNodes)
  BY <1>2, SettingsType, FrameworkNodes
<1>4. AskPositions = {} /\ AskPositions' = {} /\ ProbePositions' = 1..Len(targets')
  BY <1>1 DEF AskPositions, ProbePositions, Answering, Probing
<1>5. /\ probe' \in [ProbePositions' -> ProbeStates]
      /\ reply' \in [AskPositions' -> Replies']
      /\ Done' = Done
  <2>1. reply \in [{} -> Replies]
    BY <1>2, <1>4 DEF TypeInv
  <2>2. reply \in [{} -> Replies']
    BY <2>1
  <2> QED
    BY <1>1, <1>4, <2>2 DEF ProbeStates, Done
<1>6. answer' = Null /\ Null \in Replies'
  BY <1>1, <1>2 DEF AskInv, Answering, Replies, StoredCommands
<1>7. ask' \in Asks
  BY <1>1 DEF Asks
<1>8. phase' \in Phases
  BY <1>1 DEF Phases, Probing
<1>9. TypeInv'
  <2> HIDE DEF Done
  <2> QED  BY <1>1, <1>2, <1>3, <1>4, <1>5, <1>6, <1>7, <1>8 DEF TypeInv
<1>10. ToSet(ask'.nodes) = {}
  BY <1>1 DEF ToSet
<1>11. AskInv'
  BY <1>1, <1>4, <1>6, <1>10 DEF AskInv, Answering
<1>12. RouteInv'
  BY <1>1 DEF RouteInv
<1> QED
  BY <1>9, <1>11, <1>12 DEF PrepareInv

\* The nodes that answered are asked.
LEMMA StartQuestionsStep ==
  ASSUME PrepareInv, StartQuestions, UNCHANGED <<command, plan>>
  PROVE  PrepareInv'
<1>1. /\ phase = "lookup" /\ phase' = "gather"
      /\ targets' = Connectable
      /\ ask' = [ask EXCEPT !.nodes = targets']
      /\ asker' = [i \in DOMAIN targets' |-> "dial"]
      /\ question' = [i \in DOMAIN targets' |-> "none"]
      /\ reply' = [i \in DOMAIN targets' |-> Null]
      /\ probe' = <<>>
      /\ UNCHANGED <<vdef, store, up, queue, counted, answer>>
  BY DEF StartQuestions
<1>2. TypeInv /\ AskInv
  BY DEF PrepareInv
<1>3. targets' \in Seq(UclNodes) /\ ToSet(targets') \subseteq ToSet(targets)
  BY <1>1, <1>2, ConnectableType DEF Probing
<1>4. DOMAIN targets' = 1..Len(targets') /\ AskPositions' = 1..Len(targets')
      /\ ProbePositions' = {} /\ AskPositions = {}
  BY <1>1, <1>3 DEF AskPositions, ProbePositions, Answering, Probing
<1>5. answer' = Null /\ Null \in Replies'
  BY <1>1, <1>2 DEF AskInv, Answering, Replies, StoredCommands
<1>6. /\ asker' \in [AskPositions' -> AskerStates]
      /\ question' \in [AskPositions' -> QuestionStates]
      /\ reply' \in [AskPositions' -> Replies']
      /\ probe' \in [ProbePositions' -> ProbeStates]
  <2>1. /\ asker' \in [AskPositions' -> AskerStates]
        /\ question' \in [AskPositions' -> QuestionStates]
    BY <1>1, <1>4 DEF AskerStates, QuestionStates
  <2>2. reply' \in [AskPositions' -> Replies']
    BY <1>1, <1>4, <1>5
  <2> QED
    BY <1>1, <1>4, <2>1, <2>2, NoGoroutines
<1>7. Done = {} /\ Done' = {}
  BY <1>1, <1>2, <1>4 DEF Done, TypeInv
<1>8. ask' \in Asks /\ ask'.kind = ask.kind /\ ask'.app = ask.app
      /\ ask'.nodes = targets'
  BY <1>1, <1>2, <1>3 DEF TypeInv, Asks
<1>9. phase' \in Phases
  BY <1>1 DEF Phases, Answering
<1>10. TypeInv'
  <2> HIDE DEF Done
  <2> QED
    BY <1>1, <1>2, <1>3, <1>4, <1>5, <1>6, <1>7, <1>8, <1>9 DEF TypeInv
<1>11. ToSet(ask'.nodes) \subseteq ToSet(GetFrameworkNode(vdef))
  BY <1>1, <1>2, <1>3, <1>8 DEF AskInv
<1>12. \A i \in AskPositions' : question'[i] # "sent"
  BY <1>1, <1>4
<1>13. AskInv'
  <2> HIDE DEF Done
  <2> QED
    BY <1>1, <1>2, <1>5, <1>7, <1>8, <1>11, <1>12 DEF AskInv, Answering
<1>14. RouteInv'
  BY <1>1 DEF RouteInv
<1> QED
  BY <1>10, <1>13, <1>14 DEF PrepareInv

\* A well-formed command is dispatched.
LEMMA DispatchStep ==
  ASSUME PrepareInv, NEW c \in CommandsAt(Names), Dispatch(c)
  PROVE  PrepareInv'
<1> DEFINE d == ExpandAlias(vdef, c)
<1>1. /\ phase' = "route"
      /\ command' = d
      /\ targets' = DistribNodes(d)
      /\ probe' = [i \in 1..Len(targets') |-> "dial"]
      /\ asker' = <<>> /\ question' = <<>> /\ reply' = <<>>
      /\ counted' = 0 /\ answer' = Null
      /\ UNCHANGED <<vdef, store, up, queue, ask, plan>>
  BY DEF Dispatch, StartProbes
<1>2. TypeInv /\ AskInv
  BY DEF PrepareInv
<1>3. d.type \in Routable => d \in CommandsAt(UclNodes)
  <2>1. CASE c.type \in Routable
    BY <1>2, <2>1, SettingsType, ExpandAliasType
  <2>2. CASE c.type \notin Routable
    <3>1. c.type \notin Remote /\ c.type # "local"
      BY <2>2 DEF Routable
    <3>2. d = c
      BY <3>1, Zenon DEF ExpandAlias
    <3> QED
      BY <2>2, <3>2
  <2> QED
    BY <2>1, <2>2
<1> HIDE DEF d
<1>4. targets' \in Seq(UclNodes)
  BY <1>1, <1>3, DistribNodesType
<1>5. AskPositions' = {} /\ ProbePositions' = 1..Len(targets')
  BY <1>1 DEF AskPositions, ProbePositions, Answering, Probing
<1>6. probe' \in [ProbePositions' -> ProbeStates]
  BY <1>1, <1>5 DEF ProbeStates
<1>7. /\ asker' \in [AskPositions' -> AskerStates]
      /\ question' \in [AskPositions' -> QuestionStates]
      /\ reply' \in [AskPositions' -> Replies']
  BY <1>1, <1>5, NoGoroutines
<1>8. Done' = {} /\ counted' = Cardinality(Done')
  BY <1>1, NoGoroutines, FS_EmptySet DEF Done
<1>9. answer' = Null /\ Null \in Replies'
  BY <1>1 DEF Replies, StoredCommands
<1>10. phase' \in Phases
  BY <1>1 DEF Phases, Probing
<1>11. TypeInv'
  <2> HIDE DEF Done
  <2> QED
    BY <1>1, <1>2, <1>4, <1>6, <1>7, <1>8, <1>9, <1>10 DEF TypeInv
<1>12. AskInv'
  BY <1>1, <1>2, <1>5 DEF AskInv, Answering
<1>13. RouteInv'
  BY <1>1, <1>3 DEF RouteInv
<1> QED
  BY <1>11, <1>12, <1>13 DEF PrepareInv

\* All answers are there, and the handler ends, or goes on.
LEMMA GatheredStep ==
  ASSUME PrepareInv, Found \/ NotFound \/ Listed
  PROVE  PrepareInv'
<1>1. TypeInv /\ AskInv
  BY DEF PrepareInv
<1>2. Gathered
  BY DEF Found, NotFound, Listed
<1>3. phase = "gather" /\ Done = AskPositions
  BY <1>1, <1>2, DoneCounted DEF Gathered, Answering
<1>4. CASE Found
  <2>1. ask.kind = "app" /\ answer # Null /\ Dispatch(answer)
    BY <1>4 DEF Found
  <2>2. answer \in CommandsAt(Names)
    BY <1>1, <2>1 DEF TypeInv, Replies, StoredCommands
  <2> QED
    BY <2>1, <2>2, DispatchStep
<1>5. CASE NotFound \/ Listed
  <2>1. /\ phase' \in {"notfound", "listed"}
        /\ UNCHANGED <<vdef, store, up, queue, question, reply>>
        /\ UNCHANGED <<ask, targets, probe, asker, counted, command, plan>>
    BY <1>5 DEF NotFound, Listed, nodeAccVars
  <2>2. /\ AskPositions' = AskPositions /\ ProbePositions' = ProbePositions
        /\ Replies' = Replies /\ Done' = Done
    BY <1>3, <2>1, RepliesKept
       DEF AskPositions, ProbePositions, Done, Answering, Probing
  <2>3. answer' \in Replies /\ (phase' = "listed" =>
          ask.kind = "list" /\ (answer' # Null => IsInjective(answer')))
    <3>1. CASE NotFound
      BY <1>1, <3>1 DEF NotFound, TypeInv
    <3>2. CASE Listed
      <4>1. /\ ask.kind = "list"
            /\ answer' = IF answer = Null THEN Null ELSE WithoutDuplicates(answer)
        BY <3>2 DEF Listed
      <4>2. Replies = {Null} \cup Seq(RunnableApps)
        BY <4>1 DEF Replies
      <4>3. CASE answer = Null
        BY <4>1, <4>2, <4>3
      <4>4. CASE answer # Null
        <5>1. answer \in Seq(RunnableApps)
          BY <1>1, <4>2, <4>4 DEF TypeInv
        <5>2. /\ WithoutDuplicates(answer) \in Seq(RunnableApps)
              /\ IsInjective(WithoutDuplicates(answer))
          BY <5>1, WithoutDuplicatesElements
        <5> QED
          BY <4>1, <4>2, <4>4, <5>2
      <4> QED
        BY <4>3, <4>4
    <3> QED
      BY <1>5, <3>1, <3>2
  <2>4. phase' \in Phases
    BY <2>1 DEF Phases, Answering
  <2>5. TypeInv'
    <3> HIDE DEF Done
    <3> QED  BY <1>1, <2>1, <2>2, <2>3, <2>4 DEF TypeInv
  <2>6. AskInv'
    <3> HIDE DEF Done
    <3> QED
      BY <1>1, <1>3, <2>1, <2>2, <2>3 DEF AskInv, Answering
  <2>7. RouteInv'
    BY <2>1 DEF RouteInv
  <2> QED
    BY <2>5, <2>6, <2>7 DEF PrepareInv
<1> QED
  BY <1>4, <1>5

\* The command is planned, or cannot be routed.
LEMMA RouteStep ==
  ASSUME PrepareInv, Reject \/ Plan
  PROVE  PrepareInv'
<1>1. /\ phase = "route" /\ phase' \in {"rejected", "planned"} /\ Probed
      /\ UNCHANGED <<vdef, store, up, queue, question, reply>>
      /\ UNCHANGED <<ask, targets, probe, asker, counted, answer, command>>
  BY DEF Reject, Plan, nodeAccVars
<1>2. /\ AskPositions' = AskPositions /\ ProbePositions' = ProbePositions
      /\ Replies' = Replies /\ Done' = Done
  BY <1>1, RepliesKept DEF AskPositions, ProbePositions, Done, Answering, Probing
<1>3. phase' \in Phases
  BY <1>1 DEF Phases, Probing
<1>4. TypeInv'
  <2> HIDE DEF Done
  <2> QED  BY <1>1, <1>2, <1>3 DEF PrepareInv, TypeInv
<1>5. AskInv'
  <2> HIDE DEF Done
  <2> QED  BY <1>1, <1>2 DEF PrepareInv, AskInv, Answering
<1>6. Probed' /\ Connectable' = Connectable
  BY <1>1 DEF Probed, Connectable
<1>7. phase' = "planned" =>
        /\ ~NotRoutable(command, Connectable)
        /\ plan' = SplitCommand(vdef, RemoveDisconnectNode(command, Connectable))
  BY DEF Reject, Plan
<1>8. RouteInv'
  BY <1>1, <1>6, <1>7 DEF PrepareInv, RouteInv
<1> QED
  BY <1>4, <1>5, <1>8 DEF PrepareInv

\* Nothing of a call is left for the next one.
LEMMA NoCall ==
  ASSUME [vdef |-> vdef, store |-> store]' \in Settings,
         up' \in [Hosts -> BOOLEAN], queue' \in [Hosts -> Seq(Entries)],
         phase' = "idle", ask' = NoAsk,
         targets' = <<>>, probe' = <<>>, asker' = <<>>,
         question' = <<>>, reply' = <<>>, counted' = 0, answer' = Null
  PROVE  PrepareInv'
<1>1. AskPositions' = {} /\ ProbePositions' = {}
  BY DEF AskPositions, ProbePositions, Answering, Probing
<1>2. /\ asker' \in [AskPositions' -> AskerStates]
      /\ question' \in [AskPositions' -> QuestionStates]
      /\ reply' \in [AskPositions' -> Replies']
      /\ probe' \in [ProbePositions' -> ProbeStates]
  BY <1>1, NoGoroutines
<1>3. Done' = {} /\ counted' = Cardinality(Done')
  BY NoGoroutines, FS_EmptySet DEF Done
<1>4. Null \in Replies' /\ ask' \in Asks /\ phase' \in Phases /\ targets' \in Seq(UclNodes)
  BY DEF Replies, StoredCommands, Asks, NoAsk, Phases
<1>5. TypeInv'
  <2> HIDE DEF Done
  <2> QED  BY <1>2, <1>3, <1>4 DEF TypeInv
<1>6. ToSet(ask'.nodes) = {}
  BY DEF NoAsk, ToSet
<1>7. AskInv'
  BY <1>1, <1>6 DEF AskInv, Answering
<1>8. RouteInv'
  BY DEF RouteInv
<1> QED
  BY <1>5, <1>7, <1>8 DEF PrepareInv

\* The initial states satisfy the invariant.
LEMMA InitInv == PrepareInit => PrepareInv
<1> SUFFICES ASSUME PrepareInit PROVE PrepareInv
  OBVIOUS
<1> USE DEF PrepareInit
<1>1. AskPositions = {} /\ ProbePositions = {}
  BY DEF AskPositions, ProbePositions, Answering, Probing
<1>2. /\ asker \in [AskPositions -> AskerStates]
      /\ question \in [AskPositions -> QuestionStates]
      /\ reply \in [AskPositions -> Replies]
      /\ probe \in [ProbePositions -> ProbeStates]
  BY <1>1, NoGoroutines
<1>3. Done = {} /\ counted = Cardinality(Done)
  BY NoGoroutines, FS_EmptySet DEF Done
<1>4. [vdef |-> vdef, store |-> store] \in Settings
  <2>1. PICK setting \in Settings : vdef = setting.vdef /\ store = setting.store
    OBVIOUS
  <2>2. setting = [vdef |-> vdef, store |-> store]
    BY <2>1, SettingsAssumption
  <2> QED
    BY <2>2
<1>5. up \in [Hosts -> BOOLEAN] /\ queue \in [Hosts -> Seq(Entries)]
  OBVIOUS
<1>6. Null \in Replies /\ ask \in Asks /\ phase \in Phases /\ targets \in Seq(UclNodes)
  BY DEF Replies, StoredCommands, Asks, NoAsk, Phases
<1>7. TypeInv
  <2> HIDE DEF Done
  <2> QED  BY <1>2, <1>3, <1>4, <1>5, <1>6 DEF TypeInv
<1>8. ToSet(ask.nodes) = {}
  BY DEF NoAsk, ToSet
<1>9. AskInv
  BY <1>1, <1>8 DEF AskInv, Answering
<1>10. RouteInv
  BY DEF RouteInv
<1> QED
  BY <1>7, <1>9, <1>10 DEF PrepareInv

\* Every step keeps it.
LEMMA NextInv == PrepareInv /\ [PrepareNext]_prepareVars => PrepareInv'
<1> SUFFICES ASSUME PrepareInv, [PrepareNext]_prepareVars PROVE PrepareInv'
  OBVIOUS
<1>1. /\ TypeInv
      /\ [vdef |-> vdef, store |-> store] \in Settings
      /\ up \in [Hosts -> BOOLEAN] /\ queue \in [Hosts -> Seq(Entries)]
  BY DEF PrepareInv, TypeInv
<1>2. CASE (\E app \in Apps : AskNodes("app", app)) \/ AskNodes("list", Null)
  <2>1. ASSUME NEW app \in Apps, AskNodes("app", app) PROVE PrepareInv'
    BY <2>1, AskNodesStep
  <2>2. ASSUME AskNodes("list", Null) PROVE PrepareInv'
    BY <2>2, AskNodesStep
  <2> QED
    BY <1>2, <2>1, <2>2
<1>3. CASE RunCompositors
  <2>1. LaunchCompositorsComm(vdef) \in CommandsAt(Names)
    BY <1>1, <1>3, SettingsType, LaunchCompositorsCommType DEF RunCompositors
  <2> QED
    BY <1>3, <2>1, DispatchStep DEF RunCompositors
<1>4. CASE \E c \in Commands : RunCommand(c)
  BY <1>4, CommandsAssumption, DispatchStep DEF RunCommand
<1>5. CASE Found \/ NotFound \/ Listed
  BY <1>5, GatheredStep
<1>6. CASE Reject \/ Plan
  BY <1>6, RouteStep
<1>7. CASE NextCall
  <2>1. /\ phase' = "idle" /\ ask' = NoAsk
        /\ targets' = <<>> /\ probe' = <<>> /\ asker' = <<>>
        /\ question' = <<>> /\ reply' = <<>> /\ counted' = 0 /\ answer' = Null
        /\ UNCHANGED <<vdef, store, up, queue>>
    BY <1>7 DEF NextCall
  <2>2. /\ [vdef |-> vdef, store |-> store]' \in Settings
        /\ up' \in [Hosts -> BOOLEAN] /\ queue' \in [Hosts -> Seq(Entries)]
    BY <1>1, <2>1
  <2> QED
    BY <2>1, <2>2, NoCall
<1>8. CASE LookupStep /\ UNCHANGED <<command, plan>>
  <2>1. CASE StartQuestions
    BY <1>8, <2>1, StartQuestionsStep
  <2>2. ASSUME NEW i \in 1..Len(targets), ProbeNo(i)
        PROVE  PrepareInv'
    BY <1>1, <1>8, <2>2, ProbeEnds DEF ProbeNo, nodeAccVars
  <2>3. ASSUME NEW i \in 1..Len(targets), NEW h \in Hosts, ProbeYes(i, h)
        PROVE  PrepareInv'
    <3>1. /\ i \in DOMAIN probe /\ probe[i] = "dial"
          /\ probe' = [probe EXCEPT ![i] = "yes"]
          /\ Connect(h, [kind |-> "probe"])
          /\ UNCHANGED <<vdef, store, up, question, reply>>
          /\ UNCHANGED <<phase, ask, targets, asker, counted, answer>>
      BY <2>3 DEF ProbeYes
    <3>2. [kind |-> "probe"] \in Entries
      BY DEF Entries
    <3>3. queue' \in [Hosts -> Seq(Entries)]
      BY <1>1, <3>1, <3>2, ConnectType
    <3> QED
      BY <1>8, <3>1, <3>3, ProbeEnds
  <2>4. ASSUME NEW i \in 1..Len(targets), AskRead(i)
        PROVE  PrepareInv'
    BY <1>8, <2>4, AskReadStep
  <2>5. ASSUME NEW i \in 1..Len(targets),
               \/ AskTimeout(i) \/ LateEnd(i) \/ AskWrite(i) \/ AskWriteFails(i)
               \/ \E h \in Hosts : AskConnect(i, h) \/ LateConnect(i, h)
        PROVE  PrepareInv'
    BY <1>8, <2>5, AskerSteps
  <2> QED
    BY <1>8, <2>1, <2>2, <2>3, <2>4, <2>5 DEF LookupStep
<1>9. CASE DaemonStep /\ UNCHANGED <<command, plan>>
  <2>1. ASSUME NEW h \in Hosts, ProbeClose(h)
        PROVE  PrepareInv'
    <3>1. PICK kind \in ClosedAfterProbe : CloseOne(h, kind)
      BY <2>1 DEF ProbeClose
    <3>2. queue' \in [Hosts -> Seq(Entries)]
      BY <1>1, <3>1, CloseType
    <3> QED
      BY <1>1, <1>9, <2>1, <3>2, QueueOnly DEF ProbeClose
  <2>2. ASSUME NEW h \in Hosts, ServeAsk(h, ask), UNCHANGED lookupVars
        PROVE  PrepareInv'
    BY <1>9, <2>2, ServeAskStep
  <2>3. ASSUME NEW h \in Hosts, ServeEof(h), UNCHANGED lookupVars
        PROVE  PrepareInv'
    <3>1. queue' \in [Hosts -> Seq(Entries)]
      BY <1>1, <2>3, TailType DEF ServeEof
    <3> QED
      BY <1>1, <1>9, <2>3, <3>1, QueueOnly DEF ServeEof
  <2>4. ASSUME NEW h \in Hosts, CollectStray(h), UNCHANGED lookupVars
        PROVE  PrepareInv'
    <3>1. queue' \in [Hosts -> Seq(Entries)]
      BY <1>1, <2>4, CloseType DEF CollectStray
    <3> QED
      BY <1>1, <1>9, <2>4, <3>1, QueueOnly DEF CollectStray
  <2>5. ASSUME NEW h \in Hosts, NodeDown(h), UNCHANGED lookupVars
        PROVE  PrepareInv'
    BY <1>9, <2>5, NodeDownStep
  <2>6. ASSUME NEW h \in Hosts, NodeUp(h), UNCHANGED lookupVars
        PROVE  PrepareInv'
    <3>1. up' \in [Hosts -> BOOLEAN]
      BY <1>1, <2>6 DEF NodeUp
    <3> QED
      BY <1>1, <1>9, <2>6, <3>1, QueueOnly DEF NodeUp
  <2> QED
    BY <1>9, <2>1, <2>2, <2>3, <2>4, <2>5, <2>6 DEF DaemonStep
<1>10. CASE UNCHANGED prepareVars
  BY <1>1, <1>10, QueueOnly DEF prepareVars, nodeAccVars
<1> QED
  BY <1>2, <1>3, <1>4, <1>5, <1>6, <1>7, <1>8, <1>9, <1>10 DEF PrepareNext

\* The invariant holds in every behaviour.
LEMMA PrepareInvariant == PrepareSpec => []PrepareInv
BY InitInv, NextInv, PTL DEF PrepareSpec

-----------------------------------------------------------------------------
(* Theorems about the questions *)

\* PrepareTypeOK: every variable keeps its type, and no more answers are counted
\* than questions were put.
THEOREM TypeCorrect == PrepareSpec => []PrepareTypeOK
<1>1. PrepareInv => PrepareTypeOK
  <2> SUFFICES ASSUME PrepareInv PROVE PrepareTypeOK
    OBVIOUS
  <2>1. TypeInv
    BY DEF PrepareInv
  <2>2. \A h \in Hosts : \A e \in ToSet(queue[h]) :
          e.kind \in {"probe", "ask", "stray", "eof"}
    <3> SUFFICES ASSUME NEW h \in Hosts, NEW e \in ToSet(queue[h])
                 PROVE  e.kind \in {"probe", "ask", "stray", "eof"}
      OBVIOUS
    <3>1. queue[h] \in Seq(Entries)
      BY <2>1 DEF TypeInv
    <3> HIDE DEF Entries
    <3>2. e \in Entries
      BY <3>1 DEF ToSet
    <3> QED
      BY <3>2 DEF Entries
  <2>3. \A i \in DOMAIN targets : targets[i].port \in Nat
    <3> SUFFICES ASSUME NEW i \in DOMAIN targets PROVE targets[i].port \in Nat
      OBVIOUS
    <3>1. targets \in Seq(UclNodes)
      BY <2>1 DEF TypeInv
    <3>2. targets[i] \in UclNodes
      BY <3>1, ElementOfSeq, LenProperties
    <3> QED
      BY <3>2 DEF UclNodes
  <2>4. counted \in 0..Len(targets)
    BY <2>1, DoneCounted
  <2> QED
    BY <2>1, <2>2, <2>3, <2>4
       DEF TypeInv, PrepareTypeOK, Phases, Probing, Answering, ProbeStates,
           AskerStates, QuestionStates
<1> QED
  BY <1>1, PrepareInvariant, PTL

\* FoundWhereHeld: getAppCmd only comes back without a command when no node that
\* was asked has answered with one.
THEOREM AnswerTaken == PrepareSpec => FoundWhereHeld
<1>1. PrepareInv /\ NotFound => \A i \in DOMAIN reply : reply[i] = Null
  <2> SUFFICES ASSUME PrepareInv, NotFound
               PROVE  \A i \in DOMAIN reply : reply[i] = Null
    OBVIOUS
  <2>1. TypeInv /\ AskInv
    BY DEF PrepareInv
  <2>2. phase = "gather" /\ counted = Len(targets) /\ ask.kind = "app" /\ answer = Null
    BY DEF NotFound, Gathered
  <2>3. Done = AskPositions
    BY <2>1, <2>2, DoneCounted DEF Answering
  <2>4. DOMAIN reply = AskPositions
    BY <2>1 DEF TypeInv
  <2> QED
    BY <2>1, <2>2, <2>3, <2>4 DEF AskInv
<1>2. PrepareInv /\ [PrepareNext]_prepareVars =>
        [NotFound => \A i \in DOMAIN reply : reply[i] = Null]_prepareVars
  BY <1>1
<1> QED
  BY <1>2, PrepareInvariant, PTL DEF PrepareSpec, FoundWhereHeld

\* ListRunnable: what is listed is there once, and some machine has a command
\* for it that loses no receiver and is accepted (unless it has an empty list of
\* receivers) as long as the nodes that were asked can be reached and every host
\* has a name of its own.
THEOREM ListsRunnable == PrepareSpec => []ListRunnable
<1>1. PrepareInv => ListRunnable
  <2> SUFFICES ASSUME PrepareInv, phase = "listed", answer # Null
               PROVE  /\ IsInjective(answer)
                      /\ HostNamesUnique => \A a \in ToSet(answer) : \E h \in Hosts :
                           /\ store[h][a] # Null
                           /\ LET c == ExpandAlias(vdef, store[h][a])
                              IN /\ c.recvs # <<>> => ~NotRoutable(c, AskedAliases)
                                 /\ RemoveDisconnectNode(c, AskedAliases) = c
    BY DEF ListRunnable
  <2>1. TypeInv /\ AskInv
    BY DEF PrepareInv
  <2>2. /\ ask.kind = "list" /\ IsInjective(answer)
        /\ ToSet(ask.nodes) \subseteq ToSet(GetFrameworkNode(vdef))
    BY <2>1 DEF AskInv
  <2>3. answer \in Seq(RunnableApps)
    BY <2>1, <2>2 DEF TypeInv, Replies
  <2>4. /\ vdef \in Definitions
        /\ store \in [Hosts -> [Apps -> StoredCommands]]
    BY <2>1, SettingsType
  <2>5. HostNamesUnique =>
          \A i, j \in DOMAIN vdef.node : vdef.node[i].host = vdef.node[j].host => i = j
    BY DEF HostNamesUnique
  <2>6. HostNamesUnique => \A host : LauncherExists(host, ask.nodes) =>
                             Contains(AskedAliases, AliasIp(vdef, host))
    <3> SUFFICES ASSUME HostNamesUnique, NEW host, LauncherExists(host, ask.nodes)
                 PROVE  Contains(AskedAliases, AliasIp(vdef, host))
      OBVIOUS
    <3>1. PICK n \in ToSet(ask.nodes) : n.host = host
      BY DEF LauncherExists
    <3>2. AliasIp(vdef, host) = UclNode(n.ip, n.port, NoHost)
      BY <2>2, <2>4, <2>5, <3>1, AliasOfNode
    <3>3. ask.nodes \in Seq(UclNodes)
      BY <2>1 DEF TypeInv, Asks
    <3>4. PICK k \in 1..Len(ask.nodes) : ask.nodes[k] = n
      BY <3>1, <3>3 DEF ToSet
    <3>5. /\ Len(AskedAliases) = Len(ask.nodes)
          /\ AskedAliases[k] = UclNode(n.ip, n.port, NoHost)
      BY <3>3, <3>4 DEF AskedAliases
    <3> QED
      BY <3>2, <3>4, <3>5 DEF Contains
  <2>7. ASSUME HostNamesUnique, NEW a \in ToSet(answer)
        PROVE  \E h \in Hosts :
                 /\ store[h][a] # Null
                 /\ LET c == ExpandAlias(vdef, store[h][a])
                    IN /\ c.recvs # <<>> => ~NotRoutable(c, AskedAliases)
                       /\ RemoveDisconnectNode(c, AskedAliases) = c
    <3>1. a \in RunnableApps
      BY <2>3, <2>7 DEF ToSet
    <3>2. PICK h \in Hosts : a \in ExecutableApps(h, ask.nodes)
      BY <3>1 DEF RunnableApps
    <3>3. a \in Apps /\ store[h][a] # Null /\ ValidateAppInfo(store[h][a], ask.nodes)
      BY <3>2 DEF ExecutableApps
    <3>4. store[h][a] \in CommandsAt(Names)
      BY <2>4, <3>3 DEF StoredCommands
    <3> DEFINE c == ExpandAlias(vdef, store[h][a])
    <3>5. /\ c.recvs # <<>> => ~NotRoutable(c, AskedAliases)
          /\ RemoveDisconnectNode(c, AskedAliases) = c
      BY <2>4, <2>6, <2>7, <3>3, <3>4, ValidatedKept
    <3> QED
      BY <3>3, <3>5
  <2> QED
    BY <2>2, <2>7
<1> QED
  BY <1>1, PrepareInvariant, PTL

-----------------------------------------------------------------------------
(* What is sent and what is started for a part *)

\* The sender's part.
LEMMA SenderPartRole ==
  ASSUME NEW c \in CommandsAt(UclNodes), c.type \in Remote, c.sender # Null,
         NEW recvs, NEW part, part = Command(c.type, c.sender, recvs, Null)
  PROVE  /\ Role(part) = "sender" /\ part.sender = c.sender /\ part.recvs = recvs
         /\ DistribNodeAddr(part) = c.sender /\ Launcher(part) = c.sender
<1>1. part.type = c.type /\ part.sender = c.sender /\ part.recvs = recvs
  BY DEF Command
<1>2. part.type # "local"
  BY <1>1 DEF Remote
<1>3. Role(part) = "sender" /\ "sender" # "local"
  BY <1>1, <1>2 DEF Role
<1>4. Launcher(part) = part.sender
  BY <1>3, Zenon DEF Launcher
<1>5. DistribNodeAddr(part) = part.sender
  BY <1>1, Zenon DEF DistribNodeAddr
<1> QED
  BY <1>1, <1>3, <1>4, <1>5

\* That of one receiver.
LEMMA ReceiverPartRole ==
  ASSUME NEW c \in CommandsAt(UclNodes), c.type \in Remote,
         NEW r \in ReceiversAt(UclNodes), NEW part,
         part = Command(c.type, Null, <<r>>, Null)
  PROVE  /\ Role(part) = "receiver" /\ part.recvs = <<r>> /\ part.recvs[1] = r
         /\ DistribNodeAddr(part) = r.launcher /\ Launcher(part) = r.launcher
<1>1. /\ part.type = c.type /\ part.sender = Null /\ part.recvs = <<r>>
      /\ part.recvs[1] = r
  BY DEF Command
<1>2. part.type # "local"
  BY <1>1 DEF Remote
<1>3. Role(part) = "receiver" /\ "receiver" \notin {"local", "sender"}
  BY <1>1, <1>2 DEF Role
<1>4. Launcher(part) = part.recvs[1].launcher
  BY <1>3, Zenon DEF Launcher
<1>5. part.recvs # Null
  <2>1. <<r>> \in Seq(ReceiversAt(UclNodes))
    OBVIOUS
  <2> QED
    BY <1>1, <2>1, NullAssumption
<1>6. DistribNodeAddr(part) = part.recvs[1].launcher
  BY <1>1, <1>5, Zenon DEF DistribNodeAddr
<1> QED
  BY <1>1, <1>3, <1>4, <1>6

\* That of a local application.
LEMMA LocalPartRole ==
  ASSUME NEW local, NEW part, part = Command("local", Null, Null, local)
  PROVE  /\ Role(part) = "local" /\ part.local = local
         /\ DistribNodeAddr(part) = local /\ Launcher(part) = local
<1>1. /\ part.type = "local" /\ part.sender = Null /\ part.recvs = Null
      /\ part.local = local
  BY DEF Command
<1>2. Role(part) = "local"
  BY <1>1 DEF Role
<1>3. Launcher(part) = part.local
  BY <1>2, Zenon DEF Launcher
<1>4. DistribNodeAddr(part) = part.local
  BY <1>1, Zenon DEF DistribNodeAddr
<1> QED
  BY <1>1, <1>2, <1>3, <1>4

\* A receiver of a command is one.
LEMMA ReceiverAt ==
  ASSUME NEW c \in CommandsAt(UclNodes), NEW i \in DOMAIN Receivers(c)
  PROVE  /\ c.recvs[i] \in ReceiversAt(UclNodes)
         /\ Receivers(c) = c.recvs
<1>1. Receivers(c) \in Seq(ReceiversAt(UclNodes))
  BY DEF CommandsAt, Receivers
<1>2. Receivers(c)[i] \in ReceiversAt(UclNodes)
  BY <1>1, ElementOfSeq, LenProperties
<1>3. c.recvs # Null
  BY DEF Receivers
<1> QED
  BY <1>2, <1>3 DEF Receivers

-----------------------------------------------------------------------------
(* Theorems about the plan *)

\* A plan is that of a well-formed command for the nodes that have been reached.
LEMMA Planned ==
  ASSUME PrepareInv, phase = "planned"
  PROVE  /\ command \in CommandsAt(UclNodes) /\ command.type \in Routable
         /\ ~NotRoutable(command, Connectable)
         /\ plan = SplitCommand(vdef, RemoveDisconnectNode(command, Connectable))
<1>1. /\ ~NotRoutable(command, Connectable)
      /\ plan = SplitCommand(vdef, RemoveDisconnectNode(command, Connectable))
  BY DEF PrepareInv, RouteInv
<1>2. command.type \in Routable
  BY <1>1, RoutableReached
<1> QED
  BY <1>1, <1>2 DEF PrepareInv, RouteInv

\* The same of a part, by what is started for it.
LEMMA PartsByRole ==
  ASSUME PrepareInv, phase = "planned", NEW k \in DOMAIN plan
  PROVE  \/ /\ k = 1 /\ command.type \in Remote /\ command.sender # Null
            /\ Contains(Connectable, command.sender)
            /\ Role(plan[k]) = "sender" /\ plan[k].sender = command.sender
            /\ plan[k].recvs = RemoveDisconnectNode(command, Connectable).recvs
            /\ DistribNodeAddr(plan[k]) = command.sender
            /\ Launcher(plan[k]) = command.sender
         \/ \E i \in Own(vdef, command, Connectable) :
              LET r == command.recvs[i]
              IN  /\ Contains(Connectable, r.launcher)
                  /\ Role(plan[k]) = "receiver"
                  /\ plan[k].recvs = <<r>> /\ plan[k].recvs[1] = r
                  /\ DistribNodeAddr(plan[k]) = r.launcher
                  /\ Launcher(plan[k]) = r.launcher
         \/ /\ k = 1 /\ command.type = "local"
            /\ Contains(Connectable, command.local)
            /\ Role(plan[k]) = "local" /\ plan[k].local = command.local
            /\ DistribNodeAddr(plan[k]) = command.local
            /\ Launcher(plan[k]) = command.local
<1> DEFINE c == command
           C == Connectable
           d == RemoveDisconnectNode(c, C)
<1>1. c \in CommandsAt(UclNodes) /\ ~NotRoutable(c, C) /\ plan = SplitCommand(vdef, d)
  BY Planned
<1>2. \/ /\ k = 1 /\ c.type \in Remote /\ c.sender # Null
         /\ Contains(C, c.sender)
         /\ plan[k] = Command(c.type, c.sender, d.recvs, Null)
      \/ /\ c.type \in Remote
         /\ \E i \in Own(vdef, c, C) :
              plan[k] = Command(c.type, Null, <<c.recvs[i]>>, Null)
      \/ /\ k = 1 /\ c.type = "local"
         /\ Contains(C, c.local)
         /\ plan[k] = Command(c.type, Null, Null, c.local)
  BY <1>1, PlanParts
<1>3. CASE /\ k = 1 /\ c.type \in Remote /\ c.sender # Null
           /\ Contains(C, c.sender)
           /\ plan[k] = Command(c.type, c.sender, d.recvs, Null)
  <2>1. /\ Role(plan[k]) = "sender" /\ plan[k].sender = c.sender
        /\ plan[k].recvs = d.recvs
        /\ DistribNodeAddr(plan[k]) = c.sender /\ Launcher(plan[k]) = c.sender
    <3> HIDE DEF c, C, d
    <3> QED  BY <1>1, <1>3, SenderPartRole
  <2> QED
    BY <1>3, <2>1
<1>4. CASE /\ c.type \in Remote
           /\ \E i \in Own(vdef, c, C) :
                plan[k] = Command(c.type, Null, <<c.recvs[i]>>, Null)
  <2>1. PICK i \in Own(vdef, c, C) :
          plan[k] = Command(c.type, Null, <<c.recvs[i]>>, Null)
    BY <1>4
  <2>2. i \in DOMAIN Receivers(c) /\ Contains(C, c.recvs[i].launcher)
    BY <2>1 DEF Own
  <2> DEFINE r == c.recvs[i]
  <2>3. r \in ReceiversAt(UclNodes)
    BY <1>1, <2>2, ReceiverAt
  <2>4. /\ Role(plan[k]) = "receiver" /\ plan[k].recvs = <<r>> /\ plan[k].recvs[1] = r
        /\ DistribNodeAddr(plan[k]) = r.launcher /\ Launcher(plan[k]) = r.launcher
    <3> HIDE DEF c, C, r
    <3>1. plan[k] = Command(c.type, Null, <<r>>, Null)
      BY <2>1 DEF r
    <3> QED
      BY <1>1, <1>4, <2>3, <3>1, ReceiverPartRole
  <2> QED
    BY <2>2, <2>4
<1>5. CASE /\ k = 1 /\ c.type = "local"
           /\ Contains(C, c.local)
           /\ plan[k] = Command(c.type, Null, Null, c.local)
  <2>1. /\ Role(plan[k]) = "local" /\ plan[k].local = c.local
        /\ DistribNodeAddr(plan[k]) = c.local /\ Launcher(plan[k]) = c.local
    BY <1>5, LocalPartRole
  <2> QED
    BY <1>5, <2>1
<1> QED
  BY <1>2, <1>3, <1>4, <1>5

\* PlanDelivered: a part is sent to the node whose program the daemon there
\* starts for it, a node that has been reached; and only the first part waits
\* for the barrier.
THEOREM PlansDelivered == PrepareSpec => []PlanDelivered
<1>1. PrepareInv => PlanDelivered
  <2> SUFFICES ASSUME PrepareInv, phase = "planned", NEW k \in DOMAIN plan
               PROVE  /\ DistribNodeAddr(plan[k]) = Launcher(plan[k])
                      /\ Contains(Connectable, DistribNodeAddr(plan[k]))
                      /\ WaitsDeps(plan[k]) => k = 1
    BY DEF PlanDelivered, Parts
  <2> HIDE DEF Connectable
  <2>1. \/ /\ k = 1
           /\ Contains(Connectable, DistribNodeAddr(plan[k]))
           /\ DistribNodeAddr(plan[k]) = Launcher(plan[k])
        \/ /\ Role(plan[k]) = "receiver"
           /\ Contains(Connectable, DistribNodeAddr(plan[k]))
           /\ DistribNodeAddr(plan[k]) = Launcher(plan[k])
    BY PartsByRole
  <2>2. Role(plan[k]) = "receiver" => ~WaitsDeps(plan[k])
    BY DEF WaitsDeps
  <2> QED
    BY <2>1, <2>2
<1> QED
  BY <1>1, PrepareInvariant, PTL

\* SenderServed: every receiver that the sender is told of is on a node that has
\* been reached, and has a part in the plan or is left to a compositor.
THEOREM SendersServed == PrepareSpec => []SenderServed
<1>1. PrepareInv => SenderServed
  <2> SUFFICES ASSUME PrepareInv, phase = "planned", NEW s \in DOMAIN plan,
                      Role(plan[s]) = "sender", NEW r \in ToSet(Receivers(plan[s]))
               PROVE  /\ Contains(Connectable, r.launcher)
                      /\ \/ IsRecvCompositor(vdef, r.port)
                         \/ \E k \in DOMAIN plan : /\ Role(plan[k]) = "receiver"
                                                   /\ plan[k].recvs[1] = r
    BY DEF SenderServed, Parts
  <2> DEFINE c == command
             C == Connectable
             d == RemoveDisconnectNode(c, C)
             own == Own(vdef, c, C)
             n == Cardinality(own)
             first == IF c.sender = Null THEN 0 ELSE 1
             last == IF c.local = Null THEN 0 ELSE 1
  <2>1. /\ c \in CommandsAt(UclNodes) /\ c.type \in Routable
        /\ plan = SplitCommand(vdef, d)
    BY Planned
  <2>2. plan[s].recvs = d.recvs /\ c.type \in Remote
    <3> HIDE DEF own, d
    <3>1. "sender" # "receiver" /\ "sender" # "local"
      OBVIOUS
    <3> QED
      BY <3>1, PartsByRole DEF d, own
  <2>3. /\ Receivers(c) \in Seq(ReceiversAt(UclNodes))
        /\ Reached(c, C) \in SUBSET (1..Len(Receivers(c)))
        /\ Receivers(d) = Selected(Receivers(c), Reached(c, C))
    <3> HIDE DEF c, C
    <3> QED  BY <2>1, ReceiversLeft
  <2>4. Receivers(plan[s]) = Receivers(d)
    <3> HIDE DEF d
    <3> QED  BY <2>2 DEF Receivers
  <2>5. PICK i \in Reached(c, C) : r = Receivers(c)[i]
    <3> HIDE DEF c, C, d
    <3>1. ToSet(Receivers(d)) = {Receivers(c)[i] : i \in Reached(c, C)}
      BY <2>3, SelectedElements
    <3> QED
      BY <2>4, <3>1
  <2>6. /\ i \in DOMAIN Receivers(c) /\ r = c.recvs[i] /\ r \in ReceiversAt(UclNodes)
        /\ Contains(C, r.launcher)
    <3>1. i \in DOMAIN Receivers(c) /\ Contains(C, c.recvs[i].launcher)
      BY <2>5 DEF Reached
    <3>2. c.recvs[i] \in ReceiversAt(UclNodes) /\ Receivers(c) = c.recvs
      BY <2>1, <3>1, ReceiverAt
    <3> QED
      BY <2>5, <3>1, <3>2
  <2>7. CASE IsCompositor(vdef, c, r)
    BY <2>6, <2>7 DEF IsCompositor
  <2>8. CASE ~IsCompositor(vdef, c, r)
    <3>1. i \in own
      BY <2>6, <2>8 DEF Own
    <3>2. /\ n \in Nat /\ DOMAIN plan = 1..first + n + last
          /\ \E g \in Bijection(1..n, own) : \A k \in 1..n :
               plan[first + k] = Command(c.type, Null, <<c.recvs[g[k]]>>, Null)
      <4> HIDE DEF c, C
      <4> QED  BY <2>1, PlanShape
    <3>3. PICK g \in Bijection(1..n, own) : \A k \in 1..n :
            plan[first + k] = Command(c.type, Null, <<c.recvs[g[k]]>>, Null)
      BY <3>2
    <3>4. \A j \in own : \E k \in 1..n : g[k] = j
      <4> HIDE DEF own, n
      <4> QED  BY <3>3 DEF Bijection, Surjection
    <3>5. PICK k \in 1..n : g[k] = i
      BY <3>1, <3>4
    <3>6. first + k \in DOMAIN plan
      <4> HIDE DEF own, n
      <4> QED  BY <3>2
    <3>7. plan[first + k] = Command(c.type, Null, <<r>>, Null)
      BY <2>6, <3>3, <3>5
    <3>8. Role(plan[first + k]) = "receiver" /\ plan[first + k].recvs[1] = r
      <4> HIDE DEF c
      <4> QED  BY <2>1, <2>2, <2>6, <3>7, ReceiverPartRole
    <3> QED
      BY <2>6, <3>6, <3>8
  <2> QED
    BY <2>7, <2>8
<1> QED
  BY <1>1, PrepareInvariant, PTL

\* The parts with a receiver alone, and the entries it has among those of a set.
PartsWith(parts, r) ==
  {k \in DOMAIN parts : Role(parts[k]) = "receiver" /\ parts[k].recvs = <<r>>}

EntriesOf(c, r, own) == {j \in own : c.recvs[j] = r}

\* Of each receiver there are as many parts as it has entries in the command.
LEMMA PartsOfReceiver ==
  ASSUME NEW c \in CommandsAt(UclNodes), c.type \in Routable, NEW C, NEW v,
         NEW i \in Own(v, c, C), NEW parts,
         parts = SplitCommand(v, RemoveDisconnectNode(c, C))
  PROVE  Cardinality(PartsWith(parts, c.recvs[i]))
           = Cardinality(EntriesOf(c, c.recvs[i], Own(v, c, C)))
<1> DEFINE own == Own(v, c, C)
           n == Cardinality(own)
           d == RemoveDisconnectNode(c, C)
           first == IF c.sender = Null THEN 0 ELSE 1
           last == IF c.local = Null THEN 0 ELSE 1
           PartsOf == PartsWith(parts, c.recvs[i])
           Copies == EntriesOf(c, c.recvs[i], own)
<1>1. /\ n \in Nat
      /\ DOMAIN parts = 1..first + n + last
      /\ c.sender # Null => parts[1] = Command(c.type, c.sender, d.recvs, Null)
      /\ c.local # Null => parts[first + n + 1] = Command(c.type, Null, Null, c.local)
      /\ \E g \in Bijection(1..n, own) : \A k \in 1..n :
           parts[first + k] = Command(c.type, Null, <<c.recvs[g[k]]>>, Null)
  BY PlanShape, SMTT(30)
<1>2. PICK g \in Bijection(1..n, own) : \A k \in 1..n :
        parts[first + k] = Command(c.type, Null, <<c.recvs[g[k]]>>, Null)
  BY <1>1
<1>3. \A j \in own : /\ j \in DOMAIN Receivers(c)
                     /\ c.recvs[j] \in ReceiversAt(UclNodes)
  BY ReceiverAt DEF Own
<1>4. c.type \in Remote
  <2>1. c.recvs # Null
    BY DEF Own, Receivers
  <2> QED
    BY <2>1 DEF CommandsAt, Routable
<1>5. i \in own /\ first \in 0..1 /\ last \in 0..1
  OBVIOUS
<1> HIDE DEF own, n, d
<1> USE DEF PartsWith, EntriesOf
<1>6. /\ g \in [1..n -> own]
      /\ \A k, l \in 1..n : g[k] = g[l] => k = l
      /\ \A j \in own : \E k \in 1..n : g[k] = j
  BY <1>2 DEF Bijection, Injection, Surjection, IsInjective
<1>7. \A k \in 1..n : /\ Role(parts[first + k]) = "receiver"
                      /\ parts[first + k].recvs = <<c.recvs[g[k]]>>
  <2> SUFFICES ASSUME NEW k \in 1..n
               PROVE  /\ Role(parts[first + k]) = "receiver"
                      /\ parts[first + k].recvs = <<c.recvs[g[k]]>>
    OBVIOUS
  <2> DEFINE r == c.recvs[g[k]]
             part == parts[first + k]
  <2>1. r \in ReceiversAt(UclNodes)
    BY <1>3, <1>6
  <2>2. part = Command(c.type, Null, <<r>>, Null)
    BY <1>2
  <2> HIDE DEF r, part
  <2>3. Role(part) = "receiver" /\ part.recvs = <<r>>
    BY <1>4, <2>1, <2>2, ReceiverPartRole
  <2> QED
    BY <2>3 DEF r, part
<1>8. ASSUME NEW k \in PartsOf
      PROVE  /\ k - first \in 1..n /\ k = first + (k - first)
             /\ g[k - first] \in Copies
  <2>1. ~(k <= first)
    <3> SUFFICES ASSUME k <= first PROVE FALSE
      OBVIOUS
    <3>1. k = 1 /\ c.sender # Null
      BY <1>1
    <3>2. Role(parts[k]) = "sender"
      BY <1>1, <1>4, <3>1, SenderPartRole
    <3> QED
      BY <3>2
  <2>2. ~(first + n < k)
    <3> SUFFICES ASSUME first + n < k PROVE FALSE
      OBVIOUS
    <3>1. k = first + n + 1 /\ c.local # Null
      BY <1>1
    <3>2. parts[k].recvs = Null
      BY <1>1, <3>1 DEF Command
    <3>3. <<c.recvs[i]>> \in Seq(ReceiversAt(UclNodes))
      BY <1>3, <1>5
    <3> QED
      BY <3>2, <3>3, NullAssumption
  <2>3. k - first \in 1..n /\ k = first + (k - first)
    BY <1>1, <2>1, <2>2
  <2>4. <<c.recvs[g[k - first]]>> = <<c.recvs[i]>>
    BY <1>7, <2>3
  <2> QED
    BY <1>6, <2>3, <2>4
<1>9. \A j \in Copies : \E k \in PartsOf : g[k - first] = j
  <2> SUFFICES ASSUME NEW j \in Copies PROVE \E k \in PartsOf : g[k - first] = j
    OBVIOUS
  <2>1. PICK k \in 1..n : g[k] = j
    BY <1>6
  <2>2. first + k \in DOMAIN parts /\ (first + k) - first = k
    BY <1>1
  <2>3. parts[first + k].recvs = <<c.recvs[i]>>
    BY <1>7, <2>1
  <2>4. first + k \in PartsOf
    BY <1>7, <2>2, <2>3
  <2> QED
    BY <2>1, <2>2, <2>4
<1> DEFINE f == [k \in PartsOf |-> g[k - first]]
<1>10. IsFiniteSet(PartsOf)
  <2>1. IsFiniteSet(1..first + n + last)
    BY <1>1, FS_Interval
  <2>2. PartsOf \in SUBSET (1..first + n + last)
    BY <1>1
  <2> QED
    BY <2>1, <2>2, FS_Subset
<1> HIDE DEF PartsWith, EntriesOf, PartsOf, Copies, first
<1>11. f \in Bijection(PartsOf, Copies)
  <2>1. f \in [PartsOf -> Copies]
    BY <1>8
  <2>2. \A k, l \in PartsOf : f[k] = f[l] => k = l
    <3> SUFFICES ASSUME NEW k \in PartsOf, NEW l \in PartsOf,
                        g[k - first] = g[l - first]
                 PROVE  k = l
      OBVIOUS
    <3>1. k - first = l - first
      BY <1>6, <1>8
    <3> QED
      BY <1>8, <3>1
  <2>3. \A j \in Copies : \E k \in PartsOf : f[k] = j
    BY <1>9
  <2> QED
    BY <2>1, <2>2, <2>3, Fun_IsBij
<1>12. Cardinality(PartsOf) = Cardinality(Copies)
  <2>1. ExistsBijection(PartsOf, Copies)
    BY <1>11 DEF ExistsBijection
  <2> QED
    BY <1>10, <2>1, FS_Bijection
<1> QED
  BY <1>12 DEF PartsOf, Copies, own

\* PlanComplete: the plan has the sender, the local application and each receiver
\* that was reached and is not left to a compositor, each in exactly one part,
\* and nothing else.
THEOREM PlansComplete == PrepareSpec => []PlanComplete
<1>1. PrepareInv => PlanComplete
  <2> SUFFICES ASSUME PrepareInv, phase = "planned" PROVE PlanComplete
    BY DEF PlanComplete
  <2> DEFINE c == command
             C == Connectable
             own == Own(vdef, c, C)
             n == Cardinality(own)
             first == IF c.sender = Null THEN 0 ELSE 1
             last == IF c.local = Null THEN 0 ELSE 1
             PartsOf(i) == {k \in Parts : /\ Role(plan[k]) = "receiver"
                                          /\ plan[k].recvs = <<c.recvs[i]>>}
             Copies(i) == {j \in own : c.recvs[j] = c.recvs[i]}
  <2>1. /\ c \in CommandsAt(UclNodes) /\ c.type \in Routable /\ ~NotRoutable(c, C)
        /\ plan = SplitCommand(vdef, RemoveDisconnectNode(c, C))
    BY Planned
  <2>2. own = {i \in DOMAIN Receivers(c) : /\ Contains(C, c.recvs[i].launcher)
                                           /\ ~IsCompositor(vdef, c, c.recvs[i])}
    BY DEF Own
  <2> HIDE DEF c, C, own
  <2>3. /\ n \in Nat
        /\ DOMAIN plan = 1..first + n + last /\ Len(plan) = first + n + last
        /\ c.sender # Null =>
             plan[1] = Command(c.type, c.sender, RemoveDisconnectNode(c, C).recvs, Null)
        /\ c.local # Null =>
             plan[first + n + 1] = Command(c.type, Null, Null, c.local)
    BY <2>1, PlanShape DEF own
  <2>4. Len(plan) = n + first + last
    <3> HIDE DEF n
    <3> QED  BY <2>3
  <2>5. \A i \in own : Cardinality(PartsOf(i)) = Cardinality(Copies(i))
    <3> SUFFICES ASSUME NEW i \in own
                 PROVE  Cardinality(PartsOf(i)) = Cardinality(Copies(i))
      OBVIOUS
    <3>1. i \in Own(vdef, c, C)
      BY DEF own
    <3>2. Cardinality(PartsWith(plan, c.recvs[i]))
            = Cardinality(EntriesOf(c, c.recvs[i], own))
      BY <2>1, <3>1, PartsOfReceiver DEF own
    <3> QED
      BY <3>2 DEF Parts, PartsWith, EntriesOf
  <2>6. c.sender # Null => \E k \in Parts : /\ Role(plan[k]) = "sender"
                                            /\ plan[k].sender = c.sender
    <3> SUFFICES ASSUME c.sender # Null
                 PROVE  \E k \in Parts : /\ Role(plan[k]) = "sender"
                                         /\ plan[k].sender = c.sender
      OBVIOUS
    <3>1. c.type \in Remote
      BY <2>1 DEF CommandsAt, Routable
    <3>2. Role(plan[1]) = "sender" /\ plan[1].sender = c.sender
      BY <2>1, <2>3, <3>1, SenderPartRole
    <3>3. 1 \in Parts
      <4> HIDE DEF n
      <4> QED  BY <2>3 DEF Parts
    <3> QED
      BY <3>2, <3>3
  <2>7. c.local # Null => \E k \in Parts : plan[k].local = c.local
    <3> SUFFICES ASSUME c.local # Null PROVE \E k \in Parts : plan[k].local = c.local
      OBVIOUS
    <3>1. plan[first + n + 1].local = c.local
      BY <2>3 DEF Command
    <3>2. first + n + 1 \in Parts
      <4> HIDE DEF n
      <4> QED  BY <2>3 DEF Parts
    <3> QED
      BY <3>1, <3>2
  <2> QED
    BY <2>2, <2>4, <2>5, <2>6, <2>7 DEF PlanComplete, c, C
<1> QED
  BY <1>1, PrepareInvariant, PTL
=============================================================================
