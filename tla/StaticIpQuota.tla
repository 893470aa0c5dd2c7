---------------------------- MODULE StaticIpQuota ----------------------------
(***************************************************************************)
(* What the change-ip job promises of a region's static IPs: requests give *)
(* one back or take one while there is room, and only when the region is   *)
(* full is an instance taken down for a restart instead.  As long as no    *)
(* call is lost no request fails; each lost call may make the job believe  *)
(* one static IP too many.                                                 *)
(***************************************************************************)
EXTENDS Naturals, FiniteSets

CONSTANTS Requests, Names, MaxStaticIp

VARIABLES
  used,       \* names of the static IPs of the region
  restarting, \* requests that take their instance down
  failed,     \* requests that have ended without a new address
  lost        \* calls lost so far

Init ==
  /\ used \in SUBSET Names
  /\ Cardinality(used) <= MaxStaticIp
  /\ restarting = {} /\ failed = {} /\ lost = 0

\* A step of a request r: it goes on, or a call of it is lost, which ends it.
Step(r) ==
  \/ UNCHANGED <<failed, lost>>
  \/ failed' = failed \cup {r} /\ lost' = lost + 1

Take(r) ==
  /\ Cardinality(used) < MaxStaticIp
  /\ \E n \in Names \ used : used' = used \cup {n}
  /\ Step(r) /\ UNCHANGED restarting

Give(r) ==
  /\ \E n \in used : used' = used \ {n}
  /\ Step(r) /\ UNCHANGED restarting

Restart(r) ==
  /\ Cardinality(used) + lost >= MaxStaticIp
  /\ restarting' = restarting \cup {r}
  /\ UNCHANGED <<used, failed, lost>>

Restarted(r) ==
  /\ r \in restarting
  /\ restarting' = restarting \ {r}
  /\ Step(r) /\ UNCHANGED used

\* A call of r is lost, or is refused for what an earlier one has left behind.
Fail(r) ==
  /\ failed' = failed \cup {r}
  /\ lost' \in {lost, lost + 1} /\ lost' > 0
  /\ UNCHANGED <<used, restarting>>

\* A lost call that is no business of the region's.
Lose == lost' = lost + 1 /\ UNCHANGED <<used, restarting, failed>>

Next ==
  \/ Lose
  \/ \E r \in Requests : Take(r) \/ Give(r) \/ Restart(r) \/ Restarted(r) \/ Fail(r)

Spec == Init /\ [][Next]_<<used, restarting, failed, lost>>
=============================================================================
