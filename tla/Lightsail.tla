------------------------------ MODULE Lightsail ------------------------------
(***************************************************************************)
(* The AWS Lightsail region the change-ip job works in, modelled from how  *)
(* internal/app/change_ip uses it (the service itself is not in src/).     *)
(* A call is given by the condition under which the service accepts it     *)
(* (CanX) and by its effect (X).  Names of static IPs, addresses and       *)
(* instances are model values; an address is drawn from Pool.              *)
(***************************************************************************)
EXTENDS Naturals, FiniteSets

CONSTANTS
  Vms,          \* instances, by name
  Ips,          \* every address there is
  Pool,         \* the addresses the service may hand out from now on
  StaticNames,  \* names a static IP can have
  NoIp, NoVm,   \* "no public address", "not attached"
  MaxStaticIp   \* the static IPs a region may hold (LightsailMaxStaticIp)

ASSUME MaxStaticIpAssumption == MaxStaticIp \in Nat
ASSUME PoolAssumption == Pool \subseteq Ips
ASSUME IpsAssumption == IsFiniteSet(Ips) /\ NoIp \notin Ips
ASSUME NoVmAssumption == NoVm \notin Vms

VARIABLES
  pubIp,    \* public address of each instance, NoIp when it has none
  power,    \* state GetInstanceState reports
  statics,  \* address of each static IP, NoIp when the name is not allocated
  att       \* instance a static IP is attached to, or NoVm

aws == <<pubIp, power, statics, att>>

PowerStates == {"running", "stopping", "stopped", "pending"}

Live == {n \in StaticNames : statics[n] # NoIp}
HasStatic(v) == \E n \in Live : att[n] = v

\* The address is in somebody's use: a server answers on it, or it is reserved.
Owned(ip) == (\E v \in Vms : pubIp[v] = ip) \/ (\E n \in StaticNames : statics[n] = ip)
Free == {ip \in Pool : ~ Owned(ip)}

AwsTypeOK ==
  /\ pubIp \in [Vms -> Ips \cup {NoIp}]
  /\ power \in [Vms -> PowerStates]
  /\ statics \in [StaticNames -> Ips \cup {NoIp}]
  /\ att \in [StaticNames -> Vms \cup {NoVm}]

\* No address serves two instances, or an instance and a static IP that is not
\* attached to it; the quota is kept.
WellFormed(p, s, a) ==
  LET live == {n \in StaticNames : s[n] # NoIp}
  IN /\ \A v, w \in Vms : p[v] = p[w] /\ p[v] # NoIp => v = w
     /\ \A m, n \in live : s[m] = s[n] => m = n
     /\ \A n \in live, v \in Vms : p[v] = s[n] <=> a[n] = v
     /\ \A n \in StaticNames \ live : a[n] = NoVm
     /\ \A m, n \in StaticNames : a[m] = a[n] /\ a[m] # NoVm => m = n
     /\ Cardinality(live) <= MaxStaticIp

-----------------------------------------------------------------------------
CanAllocate(n) == statics[n] = NoIp /\ Cardinality(Live) < MaxStaticIp /\ Free # {}
Allocate(n) ==
  /\ \E ip \in Free : statics' = [statics EXCEPT ![n] = ip]
  /\ UNCHANGED <<pubIp, power, att>>

CanAttach(n, v) == statics[n] # NoIp /\ att[n] = NoVm /\ ~ HasStatic(v)
Attach(n, v) ==
  /\ att' = [att EXCEPT ![n] = v]
  /\ pubIp' = [pubIp EXCEPT ![v] = statics[n]]
  /\ UNCHANGED <<power, statics>>

\* A running instance gets a dynamic address again; a stopped one has none.
CanDetach(n) == att[n] # NoVm /\ (power[att[n]] = "running" => Free # {})
Detach(n) ==
  /\ att' = [att EXCEPT ![n] = NoVm]
  /\ IF power[att[n]] = "running"
       THEN \E ip \in Free : pubIp' = [pubIp EXCEPT ![att[n]] = ip]
       ELSE pubIp' = [pubIp EXCEPT ![att[n]] = NoIp]
  /\ UNCHANGED <<power, statics>>

CanRelease(n) == statics[n] # NoIp /\ att[n] = NoVm
Release(n) ==
  /\ statics' = [statics EXCEPT ![n] = NoIp]
  /\ UNCHANGED <<pubIp, power, att>>

\* StopInstance and StartInstance begin a transition that AWS completes later.
Stop(v) ==
  /\ power' = [power EXCEPT ![v] = "stopping"]
  /\ UNCHANGED <<pubIp, statics, att>>
Start(v) ==
  /\ power' = [power EXCEPT ![v] = "pending"]
  /\ UNCHANGED <<pubIp, statics, att>>

-----------------------------------------------------------------------------
\* A stopped instance gives its dynamic address back, a started one gets another.
Stopped(v) ==
  /\ power[v] = "stopping"
  /\ power' = [power EXCEPT ![v] = "stopped"]
  /\ pubIp' = [pubIp EXCEPT ![v] = IF HasStatic(v) THEN @ ELSE NoIp]
  /\ UNCHANGED <<statics, att>>

Running(v) ==
  /\ power[v] = "pending"
  /\ power' = [power EXCEPT ![v] = "running"]
  /\ IF HasStatic(v)
       THEN UNCHANGED pubIp
       ELSE \E ip \in Free : pubIp' = [pubIp EXCEPT ![v] = ip]
  /\ UNCHANGED <<statics, att>>
=============================================================================
