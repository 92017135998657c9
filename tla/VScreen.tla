------------------------------- MODULE VScreen -------------------------------
(***************************************************************************)
(* The virtual screen definition (virtual-screen-def.json), which every       *)
(* program of the framework reads once, and the questions they ask of it:     *)
(* internal/ucl/virtual_screen_def.go.  A definition v is a record of          *)
(*   node   a sequence of [id, host, ip]                                     *)
(*   fw     a sequence of [id, port, comps], the machines that run a ucl-node,  *)
(*          with the listen ports of their compositors                       *)
(*   lcm    [id, port] of the lifecycle manager                              *)
(* An IP address stands for the machine that has it, so a definition that is   *)
(* out of date gives a host the address of another machine, or of none.       *)
(* Lookups are by id or by host name and take the first entry, except the      *)
(* alias table, whose entries overwrite each other: the last entry stays.     *)
(***************************************************************************)
EXTENDS Selection

CONSTANTS
  NoHost,   \* no machine: the empty host name, and an address of nobody
  Names     \* the host names and the IP addresses, NoHost among them

ASSUME NoHostAssumption == NoHost \in Names

UclNodes == [ip : Names, port : Nat, host : Names]

Machines == [id : Int, host : Names, ip : Names]
Frameworks == [id : Int, port : Nat, comps : Seq(Int)]

Definitions ==
  [node : Seq(Machines), fw : Seq(Frameworks), lcm : [id : Int, port : Nat]]

UclNode(ip, port, host) == [ip |-> ip, port |-> port, host |-> host]

\* The zero value of UclNode, which a lookup in a map returns for no key.
ZeroNode == UclNode(NoHost, 0, NoHost)

PosOfId(s, id) == SelectInSeq(s, LAMBDA r : r.id = id)

PosOfHost(s, host) == SelectLastInSeq(s, LAMBDA r : r.host = host)

HasUclNode(v, id) == PosOfId(v.fw, id) # 0

\* -1 with an error if the machine runs no ucl-node.
GetNodePort(v, id) ==
  IF HasUclNode(v, id) THEN v.fw[PosOfId(v.fw, id)].port ELSE -1

\* GetNodeIdAndIpAddr of a machine with the addresses ips: a position in v.node,
\* 0 for the error.
GetNodeIdAndIpAddr(v, ips, host) ==
  SelectInSeq(v.node, LAMBDA r : r.host = host /\ r.ip \in ips)

\* The address on which the ucl-node of a machine listens; ZeroNode for the
\* errors, with which the daemon exits.
GetNodeAddr(v, ips, host) ==
  LET k == GetNodeIdAndIpAddr(v, ips, host)
  IN IF k = 0 \/ ~HasUclNode(v, v.node[k].id)
       THEN ZeroNode
       ELSE UclNode(v.node[k].ip, GetNodePort(v, v.node[k].id), NoHost)

\* GetFrameworkNode: the machines with a ucl-node, in the order of v.node.
GetFrameworkNode(v) ==
  LET Node(r) == UclNode(r.ip, GetNodePort(v, r.id), r.host)
      known == Selected(v.node, {i \in DOMAIN v.node : HasUclNode(v, v.node[i].id)})
  IN [k \in 1..Len(known) |-> Node(known[k])]

\* Mutant: a machine without a ucl-node gets the port of the error.
MinusOnePort(v, host) ==
  LET k == PosOfHost(v.node, host)
  IN IF k = 0 THEN ZeroNode
     ELSE UclNode(v.node[k].ip, GetNodePort(v, v.node[k].id), NoHost)

\* ReadAliasIp(v)[host]: without the host name, with port 0 if the machine runs
\* no ucl-node.
AliasIp(v, host) ==
  LET k == PosOfHost(v.node, host)
  IN IF k = 0 THEN ZeroNode
     ELSE UclNode(v.node[k].ip,
                  IF HasUclNode(v, v.node[k].id) THEN GetNodePort(v, v.node[k].id)
                                                 ELSE 0, NoHost)

\* GetLcmNodeAddr; ZeroNode for the error.
GetLcmNodeAddr(v) ==
  LET k == PosOfId(v.node, v.lcm.id)
  IN IF k = 0 THEN ZeroNode ELSE UclNode(v.node[k].ip, v.lcm.port, NoHost)

\* IsRecvCompositor: on any machine.
IsRecvCompositor(v, port) ==
  \E f \in ToSet(v.fw) : port \in ToSet(f.comps)
=============================================================================
