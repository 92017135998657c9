-------------------------- MODULE MCPrepareLaunch --------------------------
(***************************************************************************)
(* Instances of PrepareLaunch for TLC: definitions and commands after those of  *)
(* example/, with the cases that set them apart.                             *)
(***************************************************************************)
EXTENDS PrepareLaunch

CONSTANTS h1, h2, app, other

TwoHosts == {h1, h2}
SomeNames == {h1, h2, NoHost}
TwoApps == {app, other}

Machine(id, host) == [id |-> id, host |-> host, ip |-> host]
Framework(id, comps) == [id |-> id, port |-> 7654, comps |-> comps]

Definition(fw) ==
  [node |-> <<Machine(0, h1), Machine(1, h2)>>, fw |-> fw,
   lcm |-> [id |-> 0, port |-> 6543]]

\* Without compositors (rvgpu-1.2.0), with them (rvgpu-2.0.0), and with a
\* machine that runs no ucl-node and a compositor that has no port.
Plain == Definition(<<Framework(0, <<>>), Framework(1, <<>>)>>)
Composited == Definition(<<Framework(0, <<36000>>), Framework(1, <<36001>>)>>)
\* The address of h2 is out of date, and h1 has it.
Outdated ==
  [Plain EXCEPT !.node = <<Machine(0, h1), [id |-> 1, host |-> h2, ip |-> h1]>>]
Partial == Definition(<<Framework(0, <<36000, 0>>)>>)

At(host, port) == [launcher |-> host, port |-> port]

Both == Command("remote_virtio_gpu", h1, <<At(h1, 36000), At(h2, 36001)>>, Null)
Across == Command("transport", h1, <<At(h2, 36002)>>, Null)
Local == Command("local", Null, Null, h2)

SomeCommands ==
  {Both, Across, Local,
   Command("remote_virtio_gpu", h2, <<At(h1, 36002), At(h1, 36002), At(h1, 36003)>>,
           Null),
   Command("remote_virtio_gpu", Null, <<At(h2, 36000), At(h1, 36002)>>, Null),
   Command("remote_virtio_gpu", h1, Null, Null),
   Command("transport", h1, <<>>, Null),
   Command("unknown", h1, Null, Null)}

Holding(one, two) ==
  (h1 :> (app :> one @@ other :> Null)) @@ (h2 :> (app :> two @@ other :> Local))

Setting(v, one, two) == [vdef |-> v, store |-> Holding(one, two)]

SomeSettings ==
  {Setting(Plain, Across, Both), Setting(Composited, Both, Null),
   Setting(Composited, Local, Across), Setting(Partial, Both, Null),
   Setting(Outdated, Both, Null)}

=============================================================================
