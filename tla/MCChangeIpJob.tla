---------------------------- MODULE MCChangeIpJob ----------------------------
(* Instances of ChangeIpJob for TLC.                                       *)
EXTENDS ChangeIpJob, TLC

CONSTANTS v1, v2, v3, b1, b2, b3, p1, p2, p3, p4, p5, p6, h1, h2, n1, n2, n3, nx

MCVms == {v1, v2, v3}
MCPool == {p1, p2, p3}
MCIps == {b1, b2, b3} \cup MCPool
\* More than the instances and two static IPs can hold.
WidePool == MCPool \cup {p4, p5, p6}
WideIps == {b1, b2, b3} \cup WidePool
MCStaticNames == {n1, n2, n3, nx}
MCNameFor == (v1 :> n1) @@ (v2 :> n2) @@ (v3 :> n3)
MCHosts == {h1, h2}

AllRunning == [v \in MCVms |-> "running"]
At(x, y, z) == (v1 :> x) @@ (v2 :> y) @@ (v3 :> z)
Statics(x, y, z, f) == (n1 :> x) @@ (n2 :> y) @@ (n3 :> z) @@ (nx :> f)
World(s, a, d) ==
  [pubIp |-> At(b1, b2, b3), power |-> AllRunning, statics |-> s, att |-> a, dns |-> d]

\* One instance has a static IP, named by the job or by hand; the others have none.
MixedWorlds ==
  {World(Statics(b1, NoIp, NoIp, NoIp), Statics(v1, NoVm, NoVm, NoVm),
         {<<h1, b1>>, <<h1, b2>>, <<h2, b3>>}),
   World(Statics(NoIp, NoIp, NoIp, b1), Statics(NoVm, NoVm, NoVm, v1),
         {<<h1, b1>>, <<h2, b3>>})}

\* Three items on three instances, two of them behind one host.
DistinctBanned ==
  <<[host |-> h1, ip |-> b1], [host |-> h1, ip |-> b2], [host |-> h2, ip |-> b3]>>

\* An instance of its own next to two items on one instance, then an item with no DNS
\* host and one with no instance.  The region is empty, half full, or full with a static
\* IP nobody uses; at most one of the items can be left to restart its instance twice.
OddWorlds ==
  {[w EXCEPT !.pubIp = At(b1, b2, NoIp), !.power = [AllRunning EXCEPT ![v3] = "stopped"]] :
     w \in MixedWorlds
             \cup {World(Statics(NoIp, NoIp, NoIp, NoIp), Statics(NoVm, NoVm, NoVm, NoVm),
                         {<<h1, b1>>, <<h2, b3>>}),
                   World(Statics(b1, NoIp, NoIp, p1), Statics(v1, NoVm, NoVm, NoVm),
                         {<<h1, b1>>, <<h2, b2>>})}}
OddBanned ==
  <<[host |-> h2, ip |-> b2], [host |-> h1, ip |-> b1], [host |-> h1, ip |-> b1],
    [host |-> NoHost, ip |-> b2], [host |-> h2, ip |-> b3]>>

\* Two items on one instance without a static IP, in a region that is full.
FullWorlds ==
  {World(Statics(b1, NoIp, NoIp, NoIp), Statics(v1, NoVm, NoVm, NoVm), {<<h1, b2>>})}
SharedBanned == <<[host |-> h1, ip |-> b2], [host |-> h1, ip |-> b2]>>

Addresses == Permutations(MCPool)
WideAddresses == Permutations(WidePool)
=============================================================================
