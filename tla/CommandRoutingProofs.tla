------------------------ MODULE CommandRoutingProofs ------------------------
(***************************************************************************)
(* What the functions of VScreen and CommandRouting return, for every virtual *)
(* screen definition and every well-formed command.                          *)
(***************************************************************************)
EXTENDS CommandRouting, SelectionProofs

(* Questions to the virtual screen definition *)

\* A machine with a ucl-node has a port.
LEMMA GetNodePortType ==
  ASSUME NEW v \in Definitions, NEW id, HasUclNode(v, id)
  PROVE  GetNodePort(v, id) \in Nat
<1>1. v.fw \in Seq(Frameworks)
  BY DEF Definitions
<1>2. PosOfId(v.fw, id) \in 1..Len(v.fw)
  <2>1. PosOfId(v.fw, id) \in 0..Len(v.fw)
    BY <1>1, PosOfIdFound
  <2> QED
    BY <1>1, <2>1 DEF HasUclNode
<1>3. v.fw[PosOfId(v.fw, id)] \in Frameworks
  BY <1>1, <1>2, ElementOfSeq
<1> QED
  BY <1>3 DEF GetNodePort, Frameworks

\* An alias is a UclNode, whatever host it is asked for.
LEMMA AliasIpType ==
  ASSUME NEW v \in Definitions, NEW host
  PROVE  AliasIp(v, host) \in UclNodes
<1> DEFINE k == PosOfHost(v.node, host)
           port == IF HasUclNode(v, v.node[k].id) THEN GetNodePort(v, v.node[k].id)
                                                  ELSE 0
<1>1. AliasIp(v, host) = IF k = 0 THEN ZeroNode ELSE UclNode(v.node[k].ip, port, NoHost)
  BY DEF AliasIp
<1>2. v.node \in Seq(Machines)
  BY DEF Definitions
<1>3. k \in 0..Len(v.node)
  BY <1>2, PosOfHostFound
<1> HIDE DEF k
<1>4. k # 0 => v.node[k].ip \in Names
  <2> SUFFICES ASSUME k # 0 PROVE v.node[k].ip \in Names
    OBVIOUS
  <2>1. k \in 1..Len(v.node)
    BY <1>2, <1>3
  <2>2. v.node[k] \in Machines
    BY <1>2, <2>1, ElementOfSeq
  <2> QED
    BY <2>2 DEF Machines
<1>5. port \in Nat
  BY GetNodePortType
<1> HIDE DEF port
<1> QED
  BY <1>1, <1>4, <1>5, NoHostAssumption DEF ZeroNode, UclNode, UclNodes

\* The nodes that are asked are UclNodes, each of a machine with a ucl-node.
LEMMA FrameworkNodes ==
  ASSUME NEW v \in Definitions
  PROVE  /\ GetFrameworkNode(v) \in Seq(UclNodes)
         /\ \A n \in ToSet(GetFrameworkNode(v)) : \E i \in 1..Len(v.node) :
              /\ HasUclNode(v, v.node[i].id)
              /\ n = UclNode(v.node[i].ip, GetNodePort(v, v.node[i].id),
                             v.node[i].host)
<1> DEFINE I == {i \in DOMAIN v.node : HasUclNode(v, v.node[i].id)}
           known == Selected(v.node, I)
           Node(r) == UclNode(r.ip, GetNodePort(v, r.id), r.host)
<1>1. GetFrameworkNode(v) = [k \in 1..Len(known) |-> Node(known[k])]
  BY DEF GetFrameworkNode
<1>2. v.node \in Seq(Machines) /\ I \in SUBSET (1..Len(v.node))
  BY DEF Definitions
<1>3. \A i \in I : HasUclNode(v, v.node[i].id)
  OBVIOUS
<1> HIDE DEF I
<1>4. known \in Seq(Machines) /\ ToSet(known) = {v.node[i] : i \in I}
  BY <1>2, SelectedElements
<1> HIDE DEF known
<1>5. \A k \in 1..Len(known) : \E i \in I : known[k] = v.node[i]
  <2>1. \A k \in 1..Len(known) : known[k] \in ToSet(known)
    BY <1>4 DEF ToSet
  <2> QED
    BY <1>4, <2>1
<1>6. \A i \in I : Node(v.node[i]) \in UclNodes
  <2> SUFFICES ASSUME NEW i \in I PROVE Node(v.node[i]) \in UclNodes
    OBVIOUS
  <2>1. v.node[i] \in Machines
    BY <1>2, ElementOfSeq
  <2>2. GetNodePort(v, v.node[i].id) \in Nat
    BY <1>3, GetNodePortType
  <2> QED
    BY <2>1, <2>2 DEF Machines, UclNode, UclNodes
<1> HIDE DEF Node
<1>7. \A k \in 1..Len(known) : Node(known[k]) \in UclNodes
  BY <1>5, <1>6
<1>8. Len(known) \in Nat
  BY <1>4
<1>9. GetFrameworkNode(v) \in Seq(UclNodes)
  BY <1>1, <1>7, <1>8
<1>10. \A n \in ToSet(GetFrameworkNode(v)) : \E i \in I : n = Node(v.node[i])
  BY <1>1, <1>5 DEF ToSet
<1> QED
  BY <1>2, <1>3, <1>9, <1>10 DEF Node

-----------------------------------------------------------------------------
(* Commands *)

\* The command that starts the compositors is well formed.
LEMMA LaunchCompositorsCommType ==
  ASSUME NEW v \in Definitions, LaunchCompositorsComm(v) # Null
  PROVE  LaunchCompositorsComm(v) \in CommandsAt(Names)
<1> DEFINE Recvs == ReceiversAt(Names)
           Comps(f) == [k \in 1..Len(f.comps) |->
                          [launcher |-> LauncherName(v, f.id), port |-> f.comps[k]]]
           seqs == [k \in 1..Len(v.fw) |-> Comps(v.fw[k])]
           recvs == FlattenSeq(seqs)
<1>1. \A id : LauncherName(v, id) \in Names
  <2> SUFFICES ASSUME NEW id PROVE LauncherName(v, id) \in Names
    OBVIOUS
  <2>1. v.node \in Seq(Machines)
    BY DEF Definitions
  <2>2. PosOfId(v.node, id) \in 0..Len(v.node)
    BY <2>1, PosOfIdFound
  <2>3. PosOfId(v.node, id) # 0 => PosOfId(v.node, id) \in 1..Len(v.node)
    BY <2>1, <2>2
  <2>4. PosOfId(v.node, id) # 0 => v.node[PosOfId(v.node, id)] \in Machines
    BY <2>1, <2>3, ElementOfSeq
  <2> QED
    BY <2>4, NoHostAssumption DEF LauncherName, Machines
<1>2. v.fw \in Seq(Frameworks)
  BY DEF Definitions
<1>3. \A k \in 1..Len(v.fw) : Comps(v.fw[k]) \in Seq(Recvs)
  <2> SUFFICES ASSUME NEW k \in 1..Len(v.fw) PROVE Comps(v.fw[k]) \in Seq(Recvs)
    OBVIOUS
  <2> DEFINE comps == v.fw[k].comps
             name == LauncherName(v, v.fw[k].id)
  <2>1. comps \in Seq(Int)
    <3>1. v.fw[k] \in Frameworks
      BY <1>2, ElementOfSeq
    <3> QED
      BY <3>1 DEF Frameworks
  <2>2. name \in Names
    BY <1>1
  <2>3. Comps(v.fw[k]) = [j \in 1..Len(comps) |-> [launcher |-> name, port |-> comps[j]]]
    OBVIOUS
  <2> HIDE DEF comps, name, Comps
  <2>4. \A j \in 1..Len(comps) : [launcher |-> name, port |-> comps[j]] \in Recvs
    <3>1. \A j \in 1..Len(comps) : comps[j] \in Int
      BY <2>1
    <3> QED
      BY <2>2, <3>1 DEF ReceiversAt
  <2>5. Len(comps) \in Nat
    BY <2>1
  <2> HIDE DEF Recvs
  <2> QED
    BY <2>3, <2>4, <2>5
<1>4. seqs \in Seq(Seq(Recvs))
  <2>1. Len(v.fw) \in Nat
    BY <1>2
  <2> HIDE DEF Comps, Recvs
  <2> QED  BY <1>3, <2>1
<1>5. recvs \in Seq(Recvs)
  <2> HIDE DEF seqs, Recvs
  <2> QED  BY <1>4, FlattenSeqElements
<1>6. LaunchCompositorsComm(v)
        = IF \E r \in ToSet(recvs) : r.port <= 0 THEN Null
          ELSE Command("launch_compositors", Null,
                       IF recvs = <<>> THEN Null ELSE recvs, Null)
  BY DEF LaunchCompositorsComm
<1> HIDE DEF recvs, Recvs
<1>7. LaunchCompositorsComm(v)
        = Command("launch_compositors", Null,
                  IF recvs = <<>> THEN Null ELSE recvs, Null)
  BY <1>6
<1>8. (IF recvs = <<>> THEN Null ELSE recvs) \in {Null} \cup Seq(Recvs)
  BY <1>5
<1>9. "launch_compositors" # "local"
  OBVIOUS
<1>10. "launch_compositors" \in Routable
  BY DEF Routable, Remote
<1> QED
  BY <1>7, <1>8, <1>9, <1>10 DEF Command, CommandsAt, Recvs

\* Expanding the aliases of a routable command keeps it well formed.
LEMMA ExpandAliasType ==
  ASSUME NEW v \in Definitions, NEW c \in CommandsAt(Names), c.type \in Routable
  PROVE  /\ ExpandAlias(v, c) \in CommandsAt(UclNodes)
         /\ ExpandAlias(v, c).type = c.type
<1> DEFINE Expand(r) == [r EXCEPT !.launcher = AliasIp(v, @)]
<1>1. \A host : AliasIp(v, host) \in UclNodes
  BY AliasIpType
<1>2. CASE c.type \in Remote
  <2> DEFINE sender == IF c.sender = Null THEN Null ELSE AliasIp(v, c.sender)
             recvs == IF c.recvs = Null THEN Null
                      ELSE [k \in 1..Len(c.recvs) |-> Expand(c.recvs[k])]
  <2>1. ExpandAlias(v, c) = [c EXCEPT !.sender = sender, !.recvs = recvs]
    <3>1. c.type # "local"
      BY <1>2 DEF Remote
    <3> QED
      BY <1>2, <3>1, Zenon DEF ExpandAlias
  <2>2. c.recvs # Null => c.recvs \in Seq(ReceiversAt(Names))
    BY DEF CommandsAt
  <2>3. recvs \in {Null} \cup Seq(ReceiversAt(UclNodes))
    <3>1. CASE c.recvs = Null
      BY <3>1
    <3>2. CASE c.recvs # Null
      <4>1. \A k \in 1..Len(c.recvs) : Expand(c.recvs[k]) \in ReceiversAt(UclNodes)
        <5> SUFFICES ASSUME NEW k \in 1..Len(c.recvs)
                     PROVE  Expand(c.recvs[k]) \in ReceiversAt(UclNodes)
          OBVIOUS
        <5>1. c.recvs[k] \in ReceiversAt(Names)
          BY <2>2, <3>2
        <5> QED
          BY <1>1, <5>1 DEF ReceiversAt
      <4>2. Len(c.recvs) \in Nat
        BY <2>2, <3>2
      <4> HIDE DEF Expand
      <4>3. [k \in 1..Len(c.recvs) |-> Expand(c.recvs[k])] \in Seq(ReceiversAt(UclNodes))
        BY <4>1, <4>2
      <4> QED
        BY <3>2, <4>3
    <3> QED
      BY <3>1, <3>2
  <2>4. sender \in {Null} \cup UclNodes
    BY <1>1
  <2>5. c.type # "local" /\ c.local = Null
    BY <1>2 DEF Remote, CommandsAt
  <2> HIDE DEF sender, recvs
  <2>6. /\ c.type \in Routable /\ c.local \in {Null}
        /\ c = [type |-> c.type, sender |-> c.sender, recvs |-> c.recvs,
               local |-> c.local]
    BY <2>5 DEF CommandsAt
  <2>7. ExpandAlias(v, c) = [type |-> c.type, sender |-> sender, recvs |-> recvs,
                             local |-> c.local]
    BY <2>1, <2>6
  <2> QED
    BY <2>3, <2>4, <2>5, <2>6, <2>7 DEF CommandsAt
<1>3. CASE c.type = "local"
  <2>1. ExpandAlias(v, c) = [c EXCEPT !.local = AliasIp(v, c.local)]
    BY <1>3 DEF ExpandAlias, Remote
  <2>2. c.type \notin Remote
    BY <1>3 DEF Remote
  <2> QED
    BY <1>1, <1>3, <2>1, <2>2 DEF CommandsAt
<1> QED
  BY <1>2, <1>3 DEF Routable

\* The nodes of an expanded command are UclNodes.
LEMMA DistribNodesType ==
  ASSUME NEW c, c.type \in Routable => c \in CommandsAt(UclNodes)
  PROVE  DistribNodes(c) \in Seq(UclNodes)
<1>1. CASE c.type \in Remote
  <2> DEFINE sender == IF c.sender = Null THEN <<>> ELSE <<c.sender>>
             recvs == [k \in DOMAIN Receivers(c) |-> Receivers(c)[k].launcher]
  <2>1. DistribNodes(c) = WithoutDuplicates(sender \o recvs)
    <3>1. c.type # "local"
      BY <1>1 DEF Remote
    <3> QED
      BY <1>1, <3>1, Zenon DEF DistribNodes
  <2>2. c \in CommandsAt(UclNodes)
    BY <1>1 DEF Routable
  <2>3. sender \in Seq(UclNodes)
    BY <2>2 DEF CommandsAt
  <2>4. Receivers(c) \in Seq(ReceiversAt(UclNodes))
    BY <2>2 DEF CommandsAt, Receivers
  <2>5. recvs \in Seq(UclNodes)
    <3>1. \A k \in DOMAIN Receivers(c) : Receivers(c)[k].launcher \in UclNodes
      <4> SUFFICES ASSUME NEW k \in DOMAIN Receivers(c)
                   PROVE  Receivers(c)[k].launcher \in UclNodes
        OBVIOUS
      <4>1. Receivers(c)[k] \in ReceiversAt(UclNodes)
        BY <2>4, ElementOfSeq, LenProperties
      <4> QED
        BY <4>1 DEF ReceiversAt
    <3>2. DOMAIN Receivers(c) = 1..Len(Receivers(c)) /\ Len(Receivers(c)) \in Nat
      BY <2>4, LenProperties
    <3> QED
      BY <3>1, <3>2
  <2>6. sender \o recvs \in Seq(UclNodes)
    <3> HIDE DEF sender, recvs
    <3> QED  BY <2>3, <2>5, ConcatProperties
  <2> HIDE DEF sender, recvs
  <2> QED
    BY <2>1, <2>6, WithoutDuplicatesElements
<1>2. CASE c.type = "local"
  <2>1. c \in CommandsAt(UclNodes)
    BY <1>2 DEF Routable
  <2>2. c.local \in UclNodes
    BY <1>2, <2>1 DEF CommandsAt
  <2>3. DistribNodes(c) = <<c.local>>
    BY <1>2 DEF DistribNodes, Remote
  <2> QED
    BY <2>2, <2>3
<1>3. CASE c.type \notin Routable
  BY <1>3 DEF DistribNodes, Routable
<1> QED
  BY <1>1, <1>2, <1>3 DEF Routable

-----------------------------------------------------------------------------
(* Routing: removeDisconnectNode, then splitCommandforEachNode *)

\* The receivers on nodes that answered, and those that get a part.
Reached(c, cNodes) ==
  {i \in DOMAIN Receivers(c) : Contains(cNodes, c.recvs[i].launcher)}

Own(v, c, cNodes) ==
  {i \in DOMAIN Receivers(c) : /\ Contains(cNodes, c.recvs[i].launcher)
                               /\ ~IsCompositor(v, c, c.recvs[i])}

\* A command keeps the receivers that have been reached and all else.
LEMMA ReceiversLeft ==
  ASSUME NEW c \in CommandsAt(UclNodes), c.type \in Routable, NEW cNodes
  PROVE  LET d == RemoveDisconnectNode(c, cNodes)
         IN  /\ d.type = c.type /\ d.sender = c.sender /\ d.local = c.local
             /\ Receivers(c) \in Seq(ReceiversAt(UclNodes))
             /\ Reached(c, cNodes) \in SUBSET (1..Len(Receivers(c)))
             /\ Receivers(d) = Selected(Receivers(c), Reached(c, cNodes))
<1> DEFINE d == RemoveDisconnectNode(c, cNodes)
           R == ReceiversAt(UclNodes)
           kept == Selected(c.recvs, {i \in DOMAIN c.recvs :
                                        Contains(cNodes, c.recvs[i].launcher)})
<1>1. Receivers(c) \in Seq(R)
  BY DEF CommandsAt, Receivers
<1>2. Reached(c, cNodes) \in SUBSET (1..Len(Receivers(c)))
  BY <1>1 DEF Reached
<1>3. CASE c.type \in Remote /\ c.recvs # Null
  <2>1. d = [c EXCEPT !.recvs = kept]
    BY <1>3 DEF RemoveDisconnectNode
  <2>2. Receivers(c) = c.recvs /\ kept = Selected(Receivers(c), Reached(c, cNodes))
    BY <1>3 DEF Receivers, Reached
  <2>3. kept \in Seq(R)
    BY <1>1, <1>2, <2>2, SelectedElements
  <2>4. c = [type |-> c.type, sender |-> c.sender, recvs |-> c.recvs,
             local |-> c.local]
    BY DEF CommandsAt
  <2> HIDE DEF kept
  <2>5. d = [type |-> c.type, sender |-> c.sender, recvs |-> kept, local |-> c.local]
    BY <2>1, <2>4
  <2>6. d.recvs = kept /\ d.type = c.type /\ d.sender = c.sender /\ d.local = c.local
    BY <2>5
  <2>7. Receivers(d) = kept
    BY <2>3, <2>6, NullAssumption DEF Receivers
  <2> QED
    BY <1>1, <1>2, <2>2, <2>6, <2>7
<1>4. CASE ~(c.type \in Remote /\ c.recvs # Null)
  <2>1. d = c
    BY <1>4 DEF RemoveDisconnectNode
  <2>2. CASE c.recvs = Null
    <3>1. Receivers(c) = <<>> /\ Reached(c, cNodes) = {}
      BY <2>2 DEF Receivers, Reached
    <3>2. Len(Selected(<<>>, {})) = 0 /\ Selected(<<>>, {}) \in Seq(R)
      <4> HIDE DEF R
      <4>1. <<>> \in Seq(R) /\ {} \in SUBSET (1..Len(<<>>))
        OBVIOUS
      <4>2. Cardinality({}) = 0
        BY FS_EmptySet
      <4>3. /\ Selected(<<>>, {}) \in Seq(R)
            /\ Len(Selected(<<>>, {})) = Cardinality({})
        BY <4>1, SelectedElements
      <4> QED
        BY <4>2, <4>3
    <3>3. Selected(<<>>, {}) = <<>>
      BY <3>2
    <3> QED
      BY <1>1, <1>2, <2>1, <3>1, <3>3
  <2>3. CASE c.recvs # Null
    BY <1>4, <2>3 DEF Routable, CommandsAt
  <2> QED
    BY <2>2, <2>3
<1> QED
  BY <1>3, <1>4

\* Every receiver of its own that was reached gets one part, with it alone.
LEMMA ReceiverPartsOwn ==
  ASSUME NEW v, NEW c \in CommandsAt(UclNodes), c.type \in Routable, NEW cNodes
  PROVE  LET own == Own(v, c, cNodes)
         IN  /\ IsFiniteSet(own) /\ Cardinality(own) \in Nat
             /\ \E g \in Bijection(1..Cardinality(own), own) :
                  ReceiverParts(v, RemoveDisconnectNode(c, cNodes))
                    = [k \in 1..Cardinality(own) |->
                         Command(c.type, Null, <<c.recvs[g[k]]>>, Null)]
<1> DEFINE d == RemoveDisconnectNode(c, cNodes)
           R == ReceiversAt(UclNodes)
           I == Reached(c, cNodes)
           n == Cardinality(I)
           J == {k \in DOMAIN Receivers(d) : ~IsCompositor(v, d, Receivers(d)[k])}
           m == Cardinality(J)
           own == Own(v, c, cNodes)
           parts == ReceiverParts(v, d)
<1>1. /\ d.type = c.type
      /\ Receivers(c) \in Seq(R)
      /\ I \in SUBSET (1..Len(Receivers(c)))
      /\ Receivers(d) = Selected(Receivers(c), I)
  BY ReceiversLeft
<1>2. /\ IsFiniteSet(I) /\ n \in Nat
      /\ Receivers(d) \in Seq(R)
      /\ Len(Receivers(d)) = n
  <2> HIDE DEF d, R, I
  <2> QED  BY <1>1, SelectedElements, FS_CardinalityType
<1>3. J \in SUBSET (1..n) /\ J \in SUBSET (1..Len(Receivers(d)))
  BY <1>2
<1>4. IsFiniteSet(J) /\ m \in Nat
  <2> HIDE DEF J, n
  <2>1. IsFiniteSet(1..n)
    BY <1>2, FS_Interval
  <2> QED
    BY <1>3, <2>1, FS_Subset, FS_CardinalityType
<1>5. PICK p \in Bijection(1..n, I) :
        Receivers(d) = [k \in 1..n |-> Receivers(c)[p[k]]]
  <2> HIDE DEF d, R, I
  <2> QED  BY <1>1, SelectedPositions
<1>6. PICK q \in Bijection(1..m, J) :
        Selected(Receivers(d), J) = [k \in 1..m |-> Receivers(d)[q[k]]]
  <2> HIDE DEF d, R, J
  <2> QED  BY <1>2, <1>3, SelectedPositions
<1>7. /\ p \in [1..n -> I]
      /\ \A k, l \in 1..n : p[k] = p[l] => k = l
      /\ \A i \in I : \E k \in 1..n : p[k] = i
  <2> HIDE DEF I, n
  <2> QED  BY <1>5 DEF Bijection, Injection, Surjection, IsInjective
<1>8. /\ q \in [1..m -> J]
      /\ \A k, l \in 1..m : q[k] = q[l] => k = l
      /\ \A i \in J : \E k \in 1..m : q[k] = i
  <2> HIDE DEF J, m
  <2> QED  BY <1>6 DEF Bijection, Injection, Surjection, IsInjective
<1> DEFINE g == [k \in 1..m |-> p[q[k]]]
<1>9. \A k \in 1..n : k \in J <=> p[k] \in own
  <2> SUFFICES ASSUME NEW k \in 1..n PROVE k \in J <=> p[k] \in own
    OBVIOUS
  <2>1. p[k] \in I
    BY <1>7
  <2>2. p[k] \in DOMAIN Receivers(c) /\ Receivers(c) = c.recvs
    BY <2>1 DEF Reached, Receivers
  <2>3. Receivers(d)[k] = c.recvs[p[k]] /\ k \in DOMAIN Receivers(d)
    BY <1>5, <2>2
  <2>4. IsCompositor(v, d, Receivers(d)[k]) <=> IsCompositor(v, c, c.recvs[p[k]])
    BY <1>1, <2>3 DEF IsCompositor
  <2> HIDE DEF d
  <2> QED
    BY <2>1, <2>2, <2>3, <2>4 DEF Own, Reached
<1>10. own \subseteq I
  BY DEF Own, Reached
<1>11. g \in Bijection(1..m, own)
  <2> HIDE DEF I, J, n, m, own
  <2>1. g \in [1..m -> own]
    BY <1>3, <1>8, <1>9
  <2>2. \A k, l \in 1..m : g[k] = g[l] => k = l
    <3> SUFFICES ASSUME NEW k \in 1..m, NEW l \in 1..m, p[q[k]] = p[q[l]]
                 PROVE  k = l
      OBVIOUS
    <3>1. q[k] \in 1..n /\ q[l] \in 1..n
      BY <1>3, <1>8
    <3>2. q[k] = q[l]
      BY <1>7, <3>1
    <3> QED
      BY <1>8, <3>2
  <2>3. \A i \in own : \E k \in 1..m : g[k] = i
    <3> SUFFICES ASSUME NEW i \in own PROVE \E k \in 1..m : g[k] = i
      OBVIOUS
    <3>1. PICK l \in 1..n : p[l] = i
      BY <1>7, <1>10
    <3>2. l \in J
      BY <1>9, <3>1
    <3>3. PICK k \in 1..m : q[k] = l
      BY <1>8, <3>2
    <3> QED
      BY <3>1, <3>3
  <2> QED
    BY <2>1, <2>2, <2>3, Fun_IsBij
<1>12. Cardinality(own) = m /\ IsFiniteSet(own)
  <2> HIDE DEF own, m
  <2>1. ExistsBijection(1..m, own)
    BY <1>11 DEF ExistsBijection
  <2> QED
    BY <1>4, <2>1, FS_CountingElements, FS_NatBijection
<1>13. parts = [k \in 1..m |-> Command(c.type, Null, <<c.recvs[g[k]]>>, Null)]
  <2> DEFINE mine == Selected(Receivers(d), J)
  <2>1. OwnReceivers(v, d) = mine
    BY DEF OwnReceivers
  <2>2. mine = [k \in 1..m |-> Receivers(d)[q[k]]]
    BY <1>6
  <2>3. Len(mine) = m
    <3> HIDE DEF d, R, J
    <3> QED  BY <1>2, <1>3, SelectedElements
  <2>4. \A k \in 1..m : mine[k] = c.recvs[g[k]]
    <3> SUFFICES ASSUME NEW k \in 1..m PROVE mine[k] = c.recvs[g[k]]
      OBVIOUS
    <3>1. q[k] \in 1..n
      BY <1>3, <1>8
    <3>2. Receivers(d)[q[k]] = Receivers(c)[p[q[k]]]
      BY <1>5, <3>1
    <3>3. p[q[k]] \in DOMAIN Receivers(c)
      BY <1>7, <3>1 DEF Reached
    <3>4. Receivers(c) = c.recvs
      BY <3>3 DEF Receivers
    <3> HIDE DEF d, J, mine, m
    <3> QED
      BY <2>2, <3>2, <3>4
  <2>5. parts = [k \in 1..Len(mine) |-> Command(d.type, Null, <<mine[k]>>, Null)]
    BY <2>1 DEF ReceiverParts
  <2> HIDE DEF mine, d, m, parts, g
  <2> QED
    BY <1>1, <2>3, <2>4, <2>5
<1> HIDE DEF own, m, parts, g
<1>14. /\ IsFiniteSet(own) /\ Cardinality(own) \in Nat
       /\ \E h \in Bijection(1..Cardinality(own), own) :
            parts = [k \in 1..Cardinality(own) |->
                       Command(c.type, Null, <<c.recvs[h[k]]>>, Null)]
  BY <1>4, <1>11, <1>12, <1>13
<1> QED
  BY <1>14 DEF own, parts

\* The plan: the sender's part first if there is one, then those of the
\* receivers, then that of the local application.
LEMMA PlanShape ==
  ASSUME NEW v, NEW c \in CommandsAt(UclNodes), c.type \in Routable, NEW cNodes
  PROVE  LET own == Own(v, c, cNodes)
             n == Cardinality(own)
             d == RemoveDisconnectNode(c, cNodes)
             parts == SplitCommand(v, d)
             first == IF c.sender = Null THEN 0 ELSE 1
             last == IF c.local = Null THEN 0 ELSE 1
         IN  /\ n \in Nat
             /\ DOMAIN parts = 1..first + n + last /\ Len(parts) = first + n + last
             /\ c.sender # Null =>
                  parts[1] = Command(c.type, c.sender, d.recvs, Null)
             /\ c.local # Null =>
                  parts[first + n + 1] = Command(c.type, Null, Null, c.local)
             /\ \E g \in Bijection(1..n, own) : \A k \in 1..n :
                  parts[first + k] = Command(c.type, Null, <<c.recvs[g[k]]>>, Null)
<1> DEFINE own == Own(v, c, cNodes)
           n == Cardinality(own)
           d == RemoveDisconnectNode(c, cNodes)
           parts == SplitCommand(v, d)
           first == IF c.sender = Null THEN 0 ELSE 1
           last == IF c.local = Null THEN 0 ELSE 1
           Part(r) == Command(c.type, Null, <<r>>, Null)
<1>1. d.type = c.type /\ d.sender = c.sender /\ d.local = c.local
  BY ReceiversLeft
<1>2. n \in Nat
  BY ReceiverPartsOwn
<1>3. PICK g \in Bijection(1..n, own) :
        ReceiverParts(v, d) = [k \in 1..n |-> Part(c.recvs[g[k]])]
  BY ReceiverPartsOwn
<1> DEFINE senders == IF d.sender = Null THEN <<>> ELSE <<SenderPart(d)>>
           middle == ReceiverParts(v, d)
           locals == IF d.local = Null THEN <<>> ELSE <<LocalPart(d)>>
           Parts == {SenderPart(d), LocalPart(d)} \cup {Part(c.recvs[g[k]]) : k \in 1..n}
<1>4. senders \in Seq(Parts) /\ Len(senders) = first
  <2>1. SenderPart(d) \in Parts
    OBVIOUS
  <2> HIDE DEF Parts
  <2> QED  BY <1>1, <2>1
<1>5. locals \in Seq(Parts) /\ Len(locals) = last
  <2>1. LocalPart(d) \in Parts
    OBVIOUS
  <2> HIDE DEF Parts
  <2> QED  BY <1>1, <2>1
<1>6. middle \in Seq(Parts) /\ Len(middle) = n
  <2>1. \A k \in 1..n : Part(c.recvs[g[k]]) \in Parts
    OBVIOUS
  <2> HIDE DEF Parts, Part, n, d
  <2> QED  BY <1>2, <1>3, <2>1
<1> DEFINE front == senders \o middle
<1>7. parts = front \o locals
  BY DEF SplitCommand
<1>8. first \in 0..1 /\ last \in 0..1
  OBVIOUS
<1>9. \A k \in 1..n : middle[k] = Part(c.recvs[g[k]])
  BY <1>3
<1>10. c.sender # Null => first = 1 /\ senders[1] = SenderPart(d)
  BY <1>1
<1>11. c.local # Null => last = 1 /\ locals[1] = LocalPart(d)
  BY <1>1
<1>12. /\ SenderPart(d) = Command(c.type, c.sender, d.recvs, Null)
       /\ LocalPart(d) = Command(c.type, Null, Null, c.local)
  BY <1>1 DEF SenderPart, LocalPart
<1> HIDE DEF senders, middle, locals, Parts, first, last, n, parts, Part, own, d
<1>13. /\ front \in Seq(Parts)
       /\ Len(front) = first + n
       /\ \A i \in 1..first + n : front[i]
            = IF i <= first THEN senders[i] ELSE middle[i - first]
  BY <1>4, <1>6, ConcatProperties
<1> HIDE DEF front
<1>14. /\ parts \in Seq(Parts)
       /\ Len(parts) = first + n + last
       /\ \A i \in 1..first + n + last : parts[i]
            = IF i <= first + n THEN front[i] ELSE locals[i - (first + n)]
  <2>1. /\ front \o locals \in Seq(Parts)
        /\ Len(front \o locals) = Len(front) + Len(locals)
        /\ \A i \in 1..Len(front) + Len(locals) : (front \o locals)[i]
             = IF i <= Len(front) THEN front[i] ELSE locals[i - Len(front)]
    BY <1>5, <1>13, ConcatProperties
  <2> QED
    BY <1>5, <1>7, <1>13, <2>1
<1>15. DOMAIN parts = 1..first + n + last
  BY <1>14
<1>16. c.sender # Null => parts[1] = SenderPart(d)
  <2> SUFFICES ASSUME c.sender # Null PROVE parts[1] = SenderPart(d)
    OBVIOUS
  <2>1. first = 1 /\ 1 \in 1..first + n /\ 1 \in 1..first + n + last /\ 1 <= first + n
    BY <1>2, <1>8, <1>10
  <2>2. parts[1] = front[1]
    BY <1>14, <2>1
  <2> QED
    BY <1>10, <1>13, <2>1, <2>2
<1>17. c.local # Null => parts[first + n + 1] = LocalPart(d)
  <2> SUFFICES ASSUME c.local # Null PROVE parts[first + n + 1] = LocalPart(d)
    OBVIOUS
  <2>1. /\ first + n + 1 \in 1..first + n + last
        /\ ~(first + n + 1 <= first + n)
        /\ (first + n + 1) - (first + n) = 1
    BY <1>2, <1>8, <1>11
  <2> QED
    BY <1>11, <1>14, <2>1
<1>18. \A k \in 1..n : parts[first + k] = Part(c.recvs[g[k]])
  <2> SUFFICES ASSUME NEW k \in 1..n PROVE parts[first + k] = middle[k]
    BY <1>9
  <2>1. /\ first + k \in 1..first + n /\ first + k \in 1..first + n + last
        /\ first + k <= first + n /\ ~(first + k <= first)
        /\ (first + k) - first = k
    BY <1>2, <1>8
  <2>2. parts[first + k] = front[first + k]
    BY <1>14, <2>1
  <2> QED
    BY <1>13, <2>1, <2>2
<1>19. \E h \in Bijection(1..n, own) : \A k \in 1..n :
         parts[first + k] = Part(c.recvs[h[k]])
  BY <1>3, <1>18
<1> QED
  BY <1>2, <1>12, <1>14, <1>15, <1>16, <1>17, <1>19
     DEF own, n, d, parts, first, last, Part

\* What removeDisconnectNode has seen to when it does not fail.
LEMMA RoutableReached ==
  ASSUME NEW c, NEW cNodes, ~NotRoutable(c, cNodes)
  PROVE  /\ c.type \in Routable
         /\ c.type \in Remote /\ c.sender # Null => Contains(cNodes, c.sender)
         /\ c.type = "local" => Contains(cNodes, c.local)
<1>1. CASE c.type \in Remote
  <2>1. c.type # "local"
    BY <1>1 DEF Remote
  <2> QED
    BY <1>1, <2>1, Zenon DEF NotRoutable, Routable
<1>2. CASE c.type \notin Remote
  BY <1>2, Zenon DEF NotRoutable, Routable
<1> QED
  BY <1>1, <1>2

\* A part of a plan is the sender's, which is the first, or a receiver's, or that
\* of a local application, which is alone; and its node has been reached.
LEMMA PlanParts ==
  ASSUME NEW v, NEW c \in CommandsAt(UclNodes), NEW cNodes, ~NotRoutable(c, cNodes)
  PROVE  LET d == RemoveDisconnectNode(c, cNodes)
             parts == SplitCommand(v, d)
         IN  \A k \in DOMAIN parts :
               \/ /\ k = 1 /\ c.type \in Remote /\ c.sender # Null
                  /\ Contains(cNodes, c.sender)
                  /\ parts[k] = Command(c.type, c.sender, d.recvs, Null)
               \/ /\ c.type \in Remote
                  /\ \E i \in Own(v, c, cNodes) :
                       parts[k] = Command(c.type, Null, <<c.recvs[i]>>, Null)
               \/ /\ k = 1 /\ c.type = "local"
                  /\ Contains(cNodes, c.local)
                  /\ parts[k] = Command(c.type, Null, Null, c.local)
<1> DEFINE own == Own(v, c, cNodes)
           n == Cardinality(own)
           d == RemoveDisconnectNode(c, cNodes)
           parts == SplitCommand(v, d)
           first == IF c.sender = Null THEN 0 ELSE 1
           last == IF c.local = Null THEN 0 ELSE 1
<1>1. /\ c.type \in Routable
      /\ c.type \in Remote /\ c.sender # Null => Contains(cNodes, c.sender)
      /\ c.type = "local" => Contains(cNodes, c.local)
  BY RoutableReached
<1>2. /\ n \in Nat
      /\ DOMAIN parts = 1..first + n + last
      /\ c.sender # Null => parts[1] = Command(c.type, c.sender, d.recvs, Null)
      /\ c.local # Null => parts[first + n + 1] = Command(c.type, Null, Null, c.local)
      /\ \E g \in Bijection(1..n, own) : \A k \in 1..n :
           parts[first + k] = Command(c.type, Null, <<c.recvs[g[k]]>>, Null)
  BY <1>1, PlanShape
<1>3. PICK g \in Bijection(1..n, own) : \A k \in 1..n :
        parts[first + k] = Command(c.type, Null, <<c.recvs[g[k]]>>, Null)
  BY <1>2
<1>4. g \in [1..n -> own]
  <2> HIDE DEF own, n
  <2> QED  BY DEF Bijection, Injection
<1>5. c.type = "local" => c.sender = Null /\ own = {} /\ n = 0
  BY FS_EmptySet DEF CommandsAt, Own, Receivers
<1>6. c.type \in Remote => c.local = Null /\ c.type # "local"
  BY DEF CommandsAt, Remote
<1> HIDE DEF own, n, d, parts
<1>7. ASSUME NEW k \in DOMAIN parts
      PROVE  \/ k = 1 /\ c.sender # Null
             \/ \E j \in 1..n : k = first + j
             \/ k = first + n + 1 /\ c.local # Null
  <2>1. CASE k <= first
    BY <1>2, <2>1
  <2>2. CASE first < k /\ k <= first + n
    <3>1. k - first \in 1..n /\ k = first + (k - first)
      BY <1>2, <2>2
    <3> QED
      BY <3>1
  <2>3. CASE first + n < k
    BY <1>2, <2>3
  <2> QED
    BY <1>2, <2>1, <2>2, <2>3
<1>8. ASSUME NEW k \in DOMAIN parts
      PROVE  \/ /\ k = 1 /\ c.type \in Remote /\ c.sender # Null
                /\ Contains(cNodes, c.sender)
                /\ parts[k] = Command(c.type, c.sender, d.recvs, Null)
             \/ /\ c.type \in Remote
                /\ \E i \in own :
                     parts[k] = Command(c.type, Null, <<c.recvs[i]>>, Null)
             \/ /\ k = 1 /\ c.type = "local"
                /\ Contains(cNodes, c.local)
                /\ parts[k] = Command(c.type, Null, Null, c.local)
  <2>1. CASE k = 1 /\ c.sender # Null
    BY <1>1, <1>2, <1>5, <2>1 DEF Routable
  <2>2. CASE \E j \in 1..n : k = first + j
    <3>1. PICK j \in 1..n : k = first + j
      BY <2>2
    <3>2. c.type \in Remote
      BY <1>1, <1>5, <3>1 DEF Routable
    <3>3. g[j] \in own
      BY <1>4
    <3> QED
      BY <1>3, <3>1, <3>2, <3>3
  <2>3. CASE k = first + n + 1 /\ c.local # Null
    <3>1. c.type = "local"
      BY <1>1, <1>6, <2>3 DEF Routable
    <3>2. k = 1
      BY <1>5, <2>3, <3>1
    <3> QED
      BY <1>1, <1>2, <2>3, <3>1, <3>2
  <2> QED
    BY <1>7, <2>1, <2>2, <2>3
<1> QED
  BY <1>8 DEF own, d, parts

-----------------------------------------------------------------------------
(* What validateAppInfo accepts *)

\* The alias of a node that GetFrameworkNode returns is its address, if no two
\* machines have one name.
LEMMA AliasOfNode ==
  ASSUME NEW v \in Definitions,
         \A i, j \in DOMAIN v.node : v.node[i].host = v.node[j].host => i = j,
         NEW n \in ToSet(GetFrameworkNode(v))
  PROVE  AliasIp(v, n.host) = UclNode(n.ip, n.port, NoHost)
<1> DEFINE k == PosOfHost(v.node, n.host)
<1>1. v.node \in Seq(Machines) /\ DOMAIN v.node = 1..Len(v.node)
  BY DEF Definitions
<1>2. PICK i \in 1..Len(v.node) :
        /\ HasUclNode(v, v.node[i].id)
        /\ n = UclNode(v.node[i].ip, GetNodePort(v, v.node[i].id), v.node[i].host)
  BY FrameworkNodes
<1>3. /\ n.ip = v.node[i].ip /\ n.port = GetNodePort(v, v.node[i].id)
      /\ n.host = v.node[i].host
  BY <1>2 DEF UclNode
<1>4. /\ k \in 0..Len(v.node)
      /\ k # 0 => v.node[k].host = n.host
      /\ k = 0 => \A j \in 1..Len(v.node) : v.node[j].host # n.host
  BY <1>1, PosOfHostFound
<1>5. AliasIp(v, n.host)
        = IF k = 0 THEN ZeroNode
          ELSE UclNode(v.node[k].ip,
                       IF HasUclNode(v, v.node[k].id) THEN GetNodePort(v, v.node[k].id)
                                                      ELSE 0, NoHost)
  BY DEF AliasIp
<1> HIDE DEF k
<1>6. k # 0
  BY <1>3, <1>4
<1>7. k = i
  BY <1>1, <1>3, <1>4, <1>6
<1> QED
  BY <1>2, <1>3, <1>5, <1>6, <1>7

\* A receiver whose launcher is asked for in a command is where it was.
LEMMA ExpandedReceivers ==
  ASSUME NEW v \in Definitions, NEW c \in CommandsAt(Names), c.type \in Remote
  PROVE  LET d == ExpandAlias(v, c)
         IN  /\ d.sender = IF c.sender = Null THEN Null ELSE AliasIp(v, c.sender)
             /\ c.recvs # Null =>
                  /\ d.recvs \in Seq(ReceiversAt(UclNodes))
                  /\ Len(d.recvs) = Len(c.recvs)
                  /\ \A k \in 1..Len(c.recvs) :
                       d.recvs[k].launcher = AliasIp(v, c.recvs[k].launcher)
<1> DEFINE Expand(r) == [r EXCEPT !.launcher = AliasIp(v, @)]
           sender == IF c.sender = Null THEN Null ELSE AliasIp(v, c.sender)
           recvs == IF c.recvs = Null THEN Null
                    ELSE [k \in 1..Len(c.recvs) |-> Expand(c.recvs[k])]
           d == ExpandAlias(v, c)
<1>1. d = [c EXCEPT !.sender = sender, !.recvs = recvs]
  <2>1. c.type # "local"
    BY DEF Remote
  <2> QED
    BY <2>1, Zenon DEF ExpandAlias
<1>2. c = [type |-> c.type, sender |-> c.sender, recvs |-> c.recvs, local |-> c.local]
  BY DEF CommandsAt
<1>3. d.sender = sender /\ d.recvs = recvs
  <2> HIDE DEF sender, recvs
  <2> QED  BY <1>1, <1>2
<1>4. ASSUME c.recvs # Null
      PROVE  /\ d.recvs \in Seq(ReceiversAt(UclNodes))
             /\ Len(d.recvs) = Len(c.recvs)
             /\ \A k \in 1..Len(c.recvs) :
                  d.recvs[k].launcher = AliasIp(v, c.recvs[k].launcher)
  <2>1. c.recvs \in Seq(ReceiversAt(Names))
    BY <1>4 DEF CommandsAt
  <2>2. \A k \in 1..Len(c.recvs) :
          /\ Expand(c.recvs[k]) \in ReceiversAt(UclNodes)
          /\ Expand(c.recvs[k]).launcher = AliasIp(v, c.recvs[k].launcher)
    <3> SUFFICES ASSUME NEW k \in 1..Len(c.recvs)
                 PROVE  /\ Expand(c.recvs[k]) \in ReceiversAt(UclNodes)
                        /\ Expand(c.recvs[k]).launcher = AliasIp(v, c.recvs[k].launcher)
      OBVIOUS
    <3>1. c.recvs[k] \in ReceiversAt(Names)
      BY <2>1
    <3>2. AliasIp(v, c.recvs[k].launcher) \in UclNodes
      BY AliasIpType
    <3> QED
      BY <3>1, <3>2 DEF ReceiversAt
  <2>3. Len(c.recvs) \in Nat
    BY <2>1
  <2>4. d.recvs = [k \in 1..Len(c.recvs) |-> Expand(c.recvs[k])]
    BY <1>3, <1>4
  <2> HIDE DEF Expand, d
  <2> QED
    BY <2>2, <2>3, <2>4
<1> QED
  BY <1>3, <1>4

\* An application that is listed keeps all its receivers, and is not refused
\* unless its list of receivers is empty, as long as the nodes it was listed
\* for can be reached.
LEMMA ValidatedKept ==
  ASSUME NEW v \in Definitions, NEW c \in CommandsAt(Names), NEW nodes,
         ValidateAppInfo(c, nodes), NEW cNodes,
         \A host : LauncherExists(host, nodes) => Contains(cNodes, AliasIp(v, host))
  PROVE  LET d == ExpandAlias(v, c)
         IN  /\ d.recvs # <<>> => ~NotRoutable(d, cNodes)
             /\ RemoveDisconnectNode(d, cNodes) = d
<1> DEFINE d == ExpandAlias(v, c)
           R == ReceiversAt(UclNodes)
<1>1. c.type \in {"remote_virtio_gpu", "transport", "local"}
  BY Zenon DEF ValidateAppInfo
<1>2. c.type \in Routable
  BY <1>1 DEF Routable, Remote
<1>3. d \in CommandsAt(UclNodes) /\ d.type = c.type
  BY <1>2, ExpandAliasType
<1>4. CASE c.type # "local"
  <2>1. c.type \in {"remote_virtio_gpu", "transport"} /\ c.type \in Remote
    BY <1>1, <1>4 DEF Remote
  <2>2. /\ c.sender # Null /\ LauncherExists(c.sender, nodes)
        /\ c.recvs # Null
        /\ \A r \in ToSet(c.recvs) : LauncherExists(r.launcher, nodes)
    BY <1>4, <2>1, Zenon DEF ValidateAppInfo
  <2>3. /\ d.sender = AliasIp(v, c.sender)
        /\ d.recvs \in Seq(R)
        /\ Len(d.recvs) = Len(c.recvs)
        /\ \A k \in 1..Len(c.recvs) :
             d.recvs[k].launcher = AliasIp(v, c.recvs[k].launcher)
    BY <2>1, <2>2, ExpandedReceivers
  <2>4. c.recvs \in Seq(ReceiversAt(Names))
    BY <2>2 DEF CommandsAt
  <2>5. Contains(cNodes, d.sender)
    BY <2>2, <2>3
  <2>6. \A k \in 1..Len(d.recvs) : Contains(cNodes, d.recvs[k].launcher)
    <3> SUFFICES ASSUME NEW k \in 1..Len(d.recvs)
                 PROVE  Contains(cNodes, d.recvs[k].launcher)
      OBVIOUS
    <3>1. k \in 1..Len(c.recvs) /\ c.recvs[k] \in ToSet(c.recvs)
      <4>1. k \in 1..Len(c.recvs)
        BY <2>3
      <4> QED
        BY <2>4, <4>1 DEF ToSet
    <3>2. LauncherExists(c.recvs[k].launcher, nodes)
      BY <2>2, <3>1
    <3> QED
      BY <2>3, <3>1, <3>2
  <2>7. DOMAIN d.recvs = 1..Len(d.recvs) /\ Len(d.recvs) \in Nat
    <3> HIDE DEF R, d
    <3> QED  BY <2>3, LenProperties
  <2>8. d.type \in Remote /\ d.type # "local" /\ d.recvs # Null
    <3> HIDE DEF d
    <3> QED  BY <1>3, <1>4, <2>1, <2>3, NullAssumption
  <2>9. d.recvs # <<>> => ~NotRoutable(d, cNodes)
    <3> SUFFICES ASSUME d.recvs # <<>> PROVE ~NotRoutable(d, cNodes)
      OBVIOUS
    <3>1. NotRoutable(d, cNodes) <=>
            \/ d.sender # Null /\ ~Contains(cNodes, d.sender)
            \/ d.recvs # Null /\ ~\E r \in ToSet(d.recvs) : Contains(cNodes, r.launcher)
      <4> HIDE DEF d
      <4> QED  BY <2>8, Zenon DEF NotRoutable
    <3>2. 1 \in 1..Len(d.recvs)
      <4> HIDE DEF d, R
      <4>1. Len(d.recvs) # 0
        BY <2>3
      <4> QED
        BY <2>7, <4>1
    <3>3. d.recvs[1] \in ToSet(d.recvs)
      <4> HIDE DEF d
      <4> QED  BY <2>7, <3>2 DEF ToSet
    <3>4. \E r \in ToSet(d.recvs) : Contains(cNodes, r.launcher)
      BY <2>6, <3>2, <3>3
    <3> HIDE DEF d
    <3> QED
      BY <2>5, <3>1, <3>4
  <2>10. RemoveDisconnectNode(d, cNodes) = d
    <3> DEFINE I == {i \in DOMAIN d.recvs : Contains(cNodes, d.recvs[i].launcher)}
    <3>1. RemoveDisconnectNode(d, cNodes) = [d EXCEPT !.recvs = Selected(d.recvs, I)]
      <4> HIDE DEF d
      <4> QED  BY <2>8 DEF RemoveDisconnectNode
    <3>2. I = 1..Len(d.recvs)
      BY <2>6, <2>7
    <3>3. Selected(d.recvs, I) = d.recvs
      <4> HIDE DEF d, R, I
      <4> QED  BY <2>3, <3>2, SelectedAll
    <3>4. d = [type |-> d.type, sender |-> d.sender, recvs |-> d.recvs, local |-> d.local]
      <4> HIDE DEF d
      <4> QED  BY <1>3 DEF CommandsAt
    <3> HIDE DEF d, I
    <3> QED
      BY <3>1, <3>3, <3>4
  <2> QED
    BY <2>9, <2>10
<1>5. CASE c.type = "local"
  <2>1. LauncherExists(c.local, nodes)
    BY <1>5, Zenon DEF ValidateAppInfo
  <2>2. d = [c EXCEPT !.local = AliasIp(v, c.local)]
    BY <1>5 DEF ExpandAlias, Remote
  <2>3. d.local = AliasIp(v, c.local)
    BY <2>2 DEF CommandsAt
  <2>4. d.type = "local" /\ d.type \notin Remote
    BY <1>3, <1>5 DEF Remote
  <2>5. Contains(cNodes, d.local)
    BY <2>1, <2>3
  <2>6. ~NotRoutable(d, cNodes) /\ RemoveDisconnectNode(d, cNodes) = d
    <3> HIDE DEF d
    <3> QED  BY <2>4, <2>5 DEF NotRoutable, RemoveDisconnectNode
  <2> QED
    BY <2>6
<1> QED
  BY <1>4, <1>5
=============================================================================
