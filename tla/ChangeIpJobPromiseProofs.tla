----------------------- MODULE ChangeIpJobPromiseProofs -----------------------
(***************************************************************************)
(* Theorems about what ChangeIpJob achieves when no two banned items are   *)
(* on one instance: it implements StaticIpQuota, and a run in which no     *)
(* call failed has moved every unreachable item.  They hold for every such *)
(* list, world, quota, batch size and bound on faults.                     *)
(***************************************************************************)
EXTENDS ChangeIpJobAddressProofs

\* AWS never runs out of addresses: it has more than instances and static IPs can hold.
AmplePool == IsFiniteSet(Vms) /\ Cardinality(Pool) > Cardinality(Vms) + MaxStaticIp

\* The name the job gives a static IP is not taken by one that lies about unattached, as
\* an earlier run that lost a call may have left it.
NoLeftovers ==
  \A w \in Worlds, v \in Vms : w.statics[NameFor[v]] # NoIp => w.att[NameFor[v]] = v

-----------------------------------------------------------------------------
(* The region.                                                             *)

RegionInv == Cardinality(Live) <= MaxStaticIp

LEMMA LiveFinite ==
  ASSUME AwsTypeOK, LinkInv
  PROVE  IsFiniteSet(Live) /\ Cardinality(Live) \in Nat
<1> DEFINE g == [n \in Live |-> statics[n]]
<1>1. g \in Injection(Live, Ips)
  BY DEF AwsTypeOK, Live, LinkInv, Injection, IsInjective
<1> QED
  BY <1>1, IpsAssumption, FS_Injection, FS_CardinalityType

\* AWS never has more static IPs than its quota.
LEMMA RegionNext ==
  ASSUME AddressInv, RegionInv, [Next]_vars
  PROVE  RegionInv'
<1> USE DEF AddressInv, TypeInv, TypeOK, AwsTypeOK
<1>0. IsFiniteSet(Live) /\ Cardinality(Live) \in Nat /\ MaxStaticIp \in Nat
  BY LiveFinite, MaxStaticIpAssumption
<1>1. CASE Live' \subseteq Live
  <2>1. IsFiniteSet(Live') /\ Cardinality(Live') <= Cardinality(Live)
    BY <1>0, <1>1, FS_Subset
  <2>2. Cardinality(Live') \in Nat
    BY <2>1, FS_CardinalityType
  <2> QED
    BY <1>0, <2>1, <2>2 DEF RegionInv
<1>2. ASSUME NEW n \in StaticNames, Cardinality(Live) < MaxStaticIp, Live' = Live \cup {n}
      PROVE  RegionInv'
  <2>1. Cardinality(Live') \in {Cardinality(Live), Cardinality(Live) + 1}
    BY <1>0, <1>2, FS_AddElement
  <2> QED
    BY <1>0, <1>2, <2>1 DEF RegionInv
<1>3. ASSUME NEW i \in Items, ItemEffect(i) PROVE RegionInv'
  <2> DEFINE n == NameFor[VmOf(i)]
             m == staticIps[OldIp(i)]
  <2>1. CASE Detach(m) \/ Attach(n, VmOf(i)) \/ Stop(VmOf(i)) \/ Start(VmOf(i))
    BY <1>1, <2>1 DEF Detach, Attach, Stop, Start, Live
  <2>2. CASE Release(m)
    BY <1>1, <2>2 DEF Release, Live
  <2>3. CASE pc[i] = "allocate" /\ CanAllocate(n) /\ Allocate(n)
    <3>1. n \in StaticNames
      BY <2>3, ItemArguments DEF LockedPcs
    <3>2. PICK ip \in Free : statics' = [statics EXCEPT ![n] = ip]
      BY <2>3 DEF Allocate
    <3>3. ip # NoIp
      BY PoolAssumption, IpsAssumption DEF Free
    <3>4. Live' = Live \cup {n}
      BY <3>1, <3>2, <3>3 DEF Live
    <3> QED
      BY <1>2, <2>3, <3>1, <3>4 DEF CanAllocate
  <2> QED
    BY <1>3, <2>1, <2>2, <2>3 DEF ItemEffect
<1>4. ASSUME NEW v \in Vms, VmEffect(v) PROVE RegionInv'
  BY <1>1, <1>4 DEF VmEffect, Stopped, Running, Live
<1>5. CASE UNCHANGED aws
  BY <1>1, <1>5 DEF aws, Live
<1> QED
  BY <1>3, <1>4, <1>5, AwsStep

LEMMA FreeNonEmpty == ASSUME AmplePool, AwsTypeOK, LinkInv, RegionInv PROVE Free # {}
<1> DEFINE P == {pubIp[v] : v \in Vms}
           S == {statics[n] : n \in Live}
           p == [v \in Vms |-> pubIp[v]]
           s == [n \in Live |-> statics[n]]
<1>1. IsFiniteSet(Vms) /\ p \in Surjection(Vms, P)
  BY DEF Surjection, AmplePool
<1>2. IsFiniteSet(Live) /\ s \in Surjection(Live, S)
  BY LiveFinite DEF Surjection
<1>3. IsFiniteSet(P) /\ Cardinality(P) <= Cardinality(Vms)
  BY <1>1, FS_Surjection
<1>4. IsFiniteSet(S) /\ Cardinality(S) <= Cardinality(Live)
  BY <1>2, FS_Surjection
<1>5. Free = Pool \ (P \cup S)
  BY PoolAssumption, IpsAssumption DEF Free, Owned, Live
<1> HIDE DEF P, S
<1>6. /\ IsFiniteSet(P \cup S)
      /\ Cardinality(P \cup S) = Cardinality(P) + Cardinality(S) - Cardinality(P \cap S)
  BY <1>3, <1>4, FS_Union
<1>7. IsFiniteSet(P \cap S)
  BY <1>3, FS_Subset
<1>8. /\ Cardinality(P) \in Nat /\ Cardinality(S) \in Nat /\ Cardinality(P \cap S) \in Nat
      /\ Cardinality(Vms) \in Nat /\ Cardinality(Live) \in Nat /\ MaxStaticIp \in Nat
  BY <1>1, <1>2, <1>3, <1>4, <1>7, FS_CardinalityType, MaxStaticIpAssumption
<1>9. ASSUME Pool \subseteq P \cup S PROVE FALSE
  <2>1. IsFiniteSet(Pool) /\ Cardinality(Pool) <= Cardinality(P \cup S)
    BY <1>6, <1>9, FS_Subset
  <2>2. Cardinality(Pool) \in Nat
    BY <2>1, FS_CardinalityType
  <2> QED
    BY <1>3, <1>4, <1>6, <1>8, <2>1, <2>2 DEF AmplePool, RegionInv
<1> QED
  BY <1>5, <1>9

-----------------------------------------------------------------------------
(* What an item finds when its turn comes.                                 *)

WaitPcs == {"queued", "begin", "lock"}

\* What an item that has not begun its work on AWS will find there.
Ready(i) ==
  LET v == VmOf(i)
      n == NameFor[v]
      m == staticIps[OldIp(i)]
  IN /\ pc[i] \in WaitPcs \cup {"detach"} /\ v \in isStatic => m \in StaticNames /\ att[m] = v
     /\ pc[i] \in WaitPcs \cup {"allocate"} /\ v \in Vms \ isStatic => statics[n] = NoIp
     /\ pc[i] \in WaitPcs \cup {"stop"} /\ v \in Vms => power[v] = "running"
     /\ pc[i] = "startVm" => power[v] = "stopped"

ReadyInv == \A i \in Items : Ready(i)

LEMMA ReadyInit == ASSUME NoIdleListed, NoLeftovers, AllUp, Init PROVE ReadyInv
<1> SUFFICES ASSUME NEW i \in Items PROVE Ready(i)
  BY DEF ReadyInv
<1> DEFINE v == VmOf(i)
           n == NameFor[v]
           m == staticIps[OldIp(i)]
<1>1. AddressInv /\ pc[i] = "queued" /\ isStatic = {u \in Vms : HasStatic(u)}
  BY AddressInit DEF Init
<1>2. ASSUME v \in isStatic PROVE m \in StaticNames /\ att[m] = v
  <2>1. PICK k \in StaticNames : statics[k] # NoIp /\ att[k] = v
    BY <1>1, <1>2 DEF HasStatic, Live
  <2>2. pubIp[v] = statics[k]
    BY <1>1, <1>2, <2>1 DEF AddressInv, LinkInv
  <2>3. pubIp[v] = OldIp(i)
    <3>1. v = IF \E u \in Vms : pubIp[u] = OldIp(i)
                THEN CHOOSE u \in Vms : pubIp[u] = OldIp(i) ELSE NoVm
      BY ItemsType DEF Init, SnapshotInstances, VmOf
    <3> QED
      BY <1>1, <1>2, <3>1, NoVmAssumption
  <2>4. m = k
    BY <1>1, <2>1, <2>2, <2>3 DEF AddressInv, OwnerInv
  <2> QED
    BY <2>1, <2>4
<1>3. ASSUME v \in Vms, v \notin isStatic PROVE statics[n] = NoIp
  <2>1. n \in StaticNames /\ (statics[n] # NoIp => att[n] = v)
    BY <1>3, NameForAssumption DEF Init, NoLeftovers
  <2> QED
    BY <1>1, <1>3, <2>1 DEF HasStatic, Live
<1>4. ASSUME v \in Vms PROVE power[v] = "running"
  BY <1>4 DEF Init, AllUp
<1> QED
  BY <1>1, <1>2, <1>3, <1>4 DEF Ready

\* The entry of an item in the cache stays until its own static IP is released.
LEMMA EntryKept ==
  ASSUME FreshPool, DistinctAddresses, ServedInv, [Next]_vars, NEW i \in Items, pc[i] # "release"
  PROVE  staticIps'[OldIp(i)] = staticIps[OldIp(i)]
<1> USE IpsAssumption DEF ServedInv, AddressInv, TypeInv, TypeOK, AwsTypeOK
<1>0. OldIp(i) \in Ips /\ OldIp(i) # NoIp
  BY ItemsType
<1>1. ASSUME NEW j \in Items, pc[j] = "release", Forget(j)
      PROVE  staticIps'[OldIp(i)] = staticIps[OldIp(i)]
  BY <1>0, <1>1 DEF Forget, DistinctAddresses
<1>2. ASSUME NEW j \in Items, pc[j] = "getStatic", statics[NameFor[VmOf(j)]] # NoIp,
             staticIps' = [staticIps EXCEPT ![statics[NameFor[VmOf(j)]]] = NameFor[VmOf(j)]]
      PROVE  staticIps'[OldIp(i)] = staticIps[OldIp(i)]
  BY <1>0, <1>2 DEF ReachedInv, FreshPool
<1> QED
  BY <1>1, <1>2, CacheStep

\* Nobody takes the name of another item's static IP.
LEMMA NameKept ==
  ASSUME ServedInv, [Next]_vars, NEW i \in Items, VmOf(i) \in Vms, ~ ItemEffect(i),
         statics[NameFor[VmOf(i)]] = NoIp
  PROVE  statics'[NameFor[VmOf(i)]] = NoIp
<1> USE DEF ServedInv, AddressInv, TypeInv, TypeOK, AwsTypeOK
<1> DEFINE n == NameFor[VmOf(i)]
<1>1. n \in StaticNames
  BY NameForAssumption
<1>2. ASSUME NEW j \in Items, ItemEffect(j) PROVE statics'[n] = NoIp
  <2>1. VmOf(j) \in Vms /\ NameFor[VmOf(j)] # n
    <3>1. VmOf(j) \in Vms /\ i # j
      BY <1>1, <1>2, ItemArguments DEF ItemEffect, LockedPcs, RestartPcs
    <3> QED
      BY <3>1, NameForAssumption DEF DistinctVms
  <2> QED
    BY <1>1, <1>2, <2>1 DEF ItemEffect, Detach, Release, Allocate, Attach, Stop, Start
<1>3. ASSUME NEW u \in Vms, VmEffect(u) PROVE statics'[n] = NoIp
  BY <1>3 DEF VmEffect, Stopped, Running
<1> QED
  BY <1>1, <1>2, <1>3, AwsStep DEF aws

\* How an item gets to the steps Ready speaks of.
LEMMA WaitStep ==
  ASSUME TypeInv, [Next]_vars, NEW i \in Items
  PROVE  /\ pc'[i] \in WaitPcs => pc[i] \in WaitPcs
         /\ pc'[i] = "detach" => pc[i] = "detach" \/ pc[i] = "lock"
         /\ pc'[i] \in {"allocate", "stop"} =>
              pc[i] = pc'[i] \/ (pc[i] = "lock" /\ VmOf(i) \in Vms \ isStatic)
         /\ pc'[i] = "startVm" =>
              pc[i] = pc'[i] \/ (pc[i] = "awaitStopped" /\ power[VmOf(i)] = "stopped" /\ UNCHANGED aws)
<1> USE DEF WaitPcs
<1>1. pc'[i] \in WaitPcs => pc[i] \in WaitPcs
  <2> USE DEF TypeInv, TypeOK
  <2>1. CASE \E j \in Items : processBannedItem(j)
    <3>1. PICK j \in Items : processBannedItem(j)
      BY <2>1
    <3>2. CASE Begin(j) \/ Verify(j) \/ ChangeIP(j)
      BY <3>2 DEF Begin, Verify, ChangeIP, Goto
    <3>3. CASE DropOrphan(j) \/ DropOld(j) \/ CreateDnsRecord(j)
      BY <3>3 DEF DropOrphan, DropOld, DropDnsRecord, CreateDnsRecord, Goto
    <3>4. CASE Lock(j)
      BY <3>4 DEF Lock, LockToRelease, LockToAllocate, LockToRestart, Goto
    <3>5. CASE StopInstance(j) \/ StartInstance(j)
      BY <3>5 DEF StopInstance, StartInstance, Call, Goto, GiveUp, Leave, Unlock
    <3>6. CASE AwaitStopped(j) \/ AwaitRunning(j) \/ GetInstance(j)
      BY <3>6 DEF AwaitStopped, AwaitRunning, AwaitState, GetInstance, Call, Goto, GiveUp, Receive,
         Leave, Unlock
    <3>7. CASE DetachStaticIp(j) \/ ReleaseStaticIp(j) \/ AllocateStaticIp(j)
      BY <3>7 DEF DetachStaticIp, ReleaseStaticIp, AllocateStaticIp, Call, Goto, GiveUp, Leave, Unlock
    <3>8. CASE AttachStaticIp(j) \/ GetStaticIp(j)
      BY <3>8 DEF AttachStaticIp, GetStaticIp, Call, Goto, GiveUp, Receive, Leave, Unlock
    <3> QED
      BY <3>1, <3>2, <3>3, <3>4, <3>5, <3>6, <3>7, <3>8 DEF processBannedItem, processInstance
  <2>2. CASE Query \/ Return \/ Kill \/ Terminated \/ UNCHANGED vars
    BY <2>2 DEF Query, Return, Kill, Terminated, vars
  <2>3. CASE PingBatch
    BY <2>3 DEF PingBatch, Placed
  <2>4. CASE \E v \in Vms : Transition(v)
    BY <2>4 DEF Transition
  <2> QED
    BY <2>1, <2>2, <2>3, <2>4 DEF Next
<1>2. pc'[i] = pc[i] \/ pc'[i] \notin TrackedPcs \/ Reaches(i)
  BY PcStep
<1>3. pc[i] = "lock" => VmOf(i) \in Vms
  BY DEF TypeInv, Placed, ActivePcs
<1> QED
  BY <1>1, <1>2, <1>3 DEF Reaches, TrackedPcs, RestartPcs, DeadPcs, RotatedPcs

LEMMA ReadyNext ==
  ASSUME FreshPool, DistinctAddresses, ServedInv, ReadyInv, [Next]_vars
  PROVE  ReadyInv'
<1> SUFFICES ASSUME NEW i \in Items PROVE Ready(i)'
  BY DEF ReadyInv
<1> USE DEF ServedInv, AddressInv, TypeInv, TypeOK, AwsTypeOK
<1> DEFINE v == VmOf(i)
           n == NameFor[v]
           m == staticIps[OldIp(i)]
<1>0. VmOf(i)' = v /\ OldIp(i)' = OldIp(i) /\ UNCHANGED isStatic
  BY SnapshotKept DEF VmOf, OldIp
<1>1. ASSUME pc'[i] \in WaitPcs \cup {"detach"}, v \in isStatic
      PROVE  staticIps'[OldIp(i)] \in StaticNames /\ att'[staticIps'[OldIp(i)]] = v
  <2>1. pc[i] \in WaitPcs \cup {"detach"} /\ (pc[i] = pc'[i] \/ pc[i] # "detach")
    BY <1>1, WaitStep DEF WaitPcs
  <2>2. m \in StaticNames /\ att[m] = v /\ v \in Vms
    BY <1>1, <2>1 DEF ReadyInv, Ready
  <2>3. staticIps'[OldIp(i)] = m /\ statics[m] = OldIp(i) /\ OldIp(i) # NoIp
    BY <2>1, <2>2, EntryKept, ItemsType, IpsAssumption, NameForAssumption DEF Mine, EarlyPcs, WaitPcs
  <2>4. ~ ItemEffect(i)
    BY <2>1 DEF ItemEffect, WaitPcs
  <2> QED
    BY <2>2, <2>3, <2>4, KeptMeanwhile
<1>2. ASSUME pc'[i] \in WaitPcs \cup {"allocate"}, v \in Vms \ isStatic
      PROVE  statics'[n] = NoIp
  <2>1. pc[i] \in WaitPcs \cup {"allocate"} /\ (pc[i] = pc'[i] \/ pc[i] # "allocate")
    BY <1>2, WaitStep DEF WaitPcs
  <2>2. ~ ItemEffect(i)
    BY <2>1 DEF ItemEffect, WaitPcs
  <2> QED
    BY <1>2, <2>1, <2>2, NameKept DEF ReadyInv, Ready
<1>3. ASSUME pc'[i] \in WaitPcs \cup {"stop"}, v \in Vms
      PROVE  power'[v] = "running"
  <2>1. pc[i] \in WaitPcs \cup {"stop"} /\ (pc[i] = pc'[i] \/ pc[i] # "stop")
    BY <1>3, WaitStep DEF WaitPcs
  <2>2. ~ ItemEffect(i)
    BY <2>1 DEF ItemEffect, WaitPcs
  <2> QED
    BY <1>3, <2>1, <2>2, KeptMeanwhile DEF ReadyInv, Ready
<1>4. ASSUME pc'[i] = "startVm" PROVE power'[v] = "stopped"
  <2>1. CASE pc[i] = "awaitStopped" /\ power[v] = "stopped" /\ UNCHANGED aws
    BY <2>1 DEF aws
  <2>2. CASE pc[i] = "startVm" /\ pc'[i] = pc[i]
    <3>1. power[v] = "stopped" /\ v \in Vms
      BY <2>2, ItemArguments DEF ReadyInv, Ready, RestartPcs
    <3>2. ASSUME NEW j \in Items, ItemEffect(j) PROVE power'[v] = power[v]
      <4>1. j # i
        BY <2>2, <3>2 DEF ItemEffect
      <4> QED
        BY <3>1, <3>2, <4>1, OthersApart
    <3>3. ASSUME NEW u \in Vms, VmEffect(u) PROVE power'[v] = power[v]
      BY <3>1, <3>3 DEF VmEffect, Stopped, Running
    <3> QED
      BY <3>1, <3>2, <3>3, AwsStep DEF aws
  <2> QED
    BY <1>4, <2>1, <2>2, WaitStep
<1> QED
  BY <1>0, <1>1, <1>2, <1>3, <1>4 DEF Ready

-----------------------------------------------------------------------------
(* How wrong the cache can be.                                             *)

\* Entries of the cache whose static IP is no longer there.
Ghosts == {ip \in Cached : statics[staticIps[ip]] # ip}
GhostInv == Cardinality(Ghosts) <= faults

LEMMA FaultsOnlyGrow ==
  ASSUME TypeInv, [Next]_vars
  PROVE  faults' \in {faults, faults + 1} /\ (faults' = 0 => faults = 0)
<1>1. faults \in Nat
  BY MaxFaultsAssumption DEF TypeInv, TypeOK
<1>2. faults' \in {faults, faults + 1}
  BY DEF Next, vars, Query, PingBatch, Return, Kill, Terminated, Transition, processBannedItem,
     processInstance, Begin, Lock, DropOrphan, DropOld, DropDnsRecord, Verify, ChangeIP,
     CreateDnsRecord, DetachStaticIp, ReleaseStaticIp, AllocateStaticIp, AttachStaticIp,
     GetStaticIp, StopInstance, StartInstance, AwaitStopped, AwaitRunning, AwaitState,
     GetInstance, Call, Fault
<1> QED
  BY <1>1, <1>2

\* A call that released a static IP, but whose reply was lost, leaves one such entry.
LEMMA GhostStep ==
  ASSUME ServedInv, [Next]_vars
  PROVE  \/ Ghosts' \subseteq Ghosts /\ faults' \in {faults, faults + 1}
         \/ \E ip \in Ips : Ghosts' \subseteq Ghosts \cup {ip} /\ faults' = faults + 1
<1> USE IpsAssumption DEF ServedInv, AddressInv, TypeInv, TypeOK, AwsTypeOK
<1>0. \A ip \in Ghosts : ip \in Ips /\ staticIps[ip] \in StaticNames /\ statics[staticIps[ip]] # ip
  BY DEF Ghosts, Cached
<1>1. \A ip \in Ghosts' : ip \in Ips /\ staticIps'[ip] # NoName /\ statics'[staticIps'[ip]] # ip
  BY DEF Ghosts, Cached
<1>2. \A ip \in Ips : staticIps[ip] # NoName /\ statics[staticIps[ip]] # ip => ip \in Ghosts
  BY DEF Ghosts, Cached
<1>3. faults' \in {faults, faults + 1}
  BY FaultsOnlyGrow
<1>4. CASE \A i \in Items : ~ StaticStep(i)
  <2>1. UNCHANGED <<statics, staticIps>>
    BY <1>4, StaticFrame
  <2> QED
    BY <1>3, <2>1 DEF Ghosts, Cached
<1>5. ASSUME NEW i \in Items, StaticStep(i)
      PROVE  \/ Ghosts' \subseteq Ghosts
             \/ \E ip \in Ips : Ghosts' \subseteq Ghosts \cup {ip} /\ faults' = faults + 1
  <2> DEFINE n == NameFor[VmOf(i)]
             m == staticIps[OldIp(i)]
  <2>1. VmOf(i) \in Vms /\ n \in StaticNames /\ OldIp(i) \in Ips /\ NoName \notin StaticNames
    BY <1>5, StaticStepShape, ItemsType, NameForAssumption
  <2>2. CASE DetachStaticIp(i) \/ AttachStaticIp(i)
    <3>1. UNCHANGED <<statics, staticIps>>
      BY <2>2 DEF DetachStaticIp, AttachStaticIp, Call, Detach, Attach, GiveUp, aws
    <3> QED
      BY <3>1 DEF Ghosts, Cached
  <2>3. CASE AllocateStaticIp(i)
    <3>1. UNCHANGED staticIps /\ \A k \in StaticNames : statics[k] # NoIp => statics'[k] = statics[k]
      BY <2>1, <2>3 DEF AllocateStaticIp, Call, CanAllocate, Allocate, GiveUp, aws
    <3>2. ASSUME NEW ip \in Ghosts' PROVE ip \in Ghosts
      <4>1. ip \in Ips /\ staticIps[ip] \in StaticNames /\ statics'[staticIps[ip]] # ip
        BY <1>1, <3>1
      <4> QED
        BY <1>2, <3>1, <4>1, <2>1
    <3> QED
      BY <3>2
  <2>4. CASE GetStaticIp(i)
    <3>1. statics' = statics
      BY <2>4 DEF GetStaticIp, Call, aws
    <3>2. UNCHANGED staticIps \/ (statics[n] # NoIp /\ staticIps' = [staticIps EXCEPT ![statics[n]] = n])
      BY <2>4 DEF GetStaticIp, Call, GiveUp
    <3>3. ASSUME NEW ip \in Ghosts' PROVE ip \in Ghosts
      BY <1>1, <1>2, <2>1, <3>1, <3>2
    <3> QED
      BY <3>3
  <2>5. CASE ReleaseStaticIp(i)
    <3>1. m \in StaticNames /\ statics[m] = OldIp(i)
      BY <2>5, OwnStaticIp DEF ReleaseStaticIp
    <3>2. CASE UNCHANGED <<statics, staticIps>>
      BY <3>2 DEF Ghosts, Cached
    <3>3. CASE Release(m) /\ Forget(i)
      <4>1. statics' = [statics EXCEPT ![m] = NoIp] /\ staticIps' = [staticIps EXCEPT ![OldIp(i)] = NoName]
        BY <3>3 DEF Release, Forget
      <4>2. ASSUME NEW ip \in Ghosts' PROVE ip \in Ghosts
        BY <1>1, <1>2, <2>1, <3>1, <4>1
      <4> QED
        BY <4>2
    <3>4. CASE Release(m) /\ UNCHANGED staticIps /\ faults' = faults + 1
      <4>1. statics' = [statics EXCEPT ![m] = NoIp]
        BY <3>4 DEF Release
      <4>2. ASSUME NEW ip \in Ghosts', ip # OldIp(i) PROVE ip \in Ghosts
        BY <1>1, <1>2, <2>1, <3>1, <3>4, <4>1, <4>2
      <4> QED
        BY <2>1, <3>4, <4>2
    <3> QED
      BY <2>5, <3>2, <3>3, <3>4 DEF ReleaseStaticIp, Call, GiveUp, Fault, aws
  <2> QED
    BY <1>5, <2>2, <2>3, <2>4, <2>5 DEF StaticStep
<1> QED
  BY <1>3, <1>4, <1>5

LEMMA GhostInit == Init => GhostInv
<1> SUFFICES ASSUME Init PROVE GhostInv
  OBVIOUS
<1>1. TypeInv
  BY TypeInvInit
<1>2. ASSUME NEW ip \in Ghosts PROVE FALSE
  <2>1. ip \in Ips /\ staticIps[ip] # NoName /\ statics[staticIps[ip]] # ip
    BY DEF Ghosts, Cached
  <2>2. staticIps[ip] = IF \E k \in StaticNames : statics[k] = ip
                          THEN CHOOSE k \in StaticNames : statics[k] = ip ELSE NoName
    BY <2>1 DEF Init, SnapshotStaticIps
  <2> QED
    BY <2>1, <2>2
<1>3. Ghosts = {}
  BY <1>2
<1> QED
  BY <1>3, FS_EmptySet DEF GhostInv, Init

LEMMA CachedFinite ==
  /\ IsFiniteSet(Cached) /\ IsFiniteSet(Ghosts)
  /\ lenStaticIps \in Nat /\ Cardinality(Ghosts) \in Nat
<1>1. IsFiniteSet(Cached)
  BY IpsAssumption, FS_Subset DEF Cached
<1>2. IsFiniteSet(Ghosts)
  BY <1>1, FS_Subset DEF Ghosts
<1> QED
  BY <1>1, <1>2, FS_CardinalityType DEF lenStaticIps

LEMMA GhostNext ==
  ASSUME ServedInv, GhostInv, [Next]_vars
  PROVE  GhostInv'
<1>1. faults \in Nat
  BY MaxFaultsAssumption DEF ServedInv, AddressInv, TypeInv, TypeOK
<1>2. IsFiniteSet(Ghosts) /\ Cardinality(Ghosts) \in Nat
  BY CachedFinite
<1>3. CASE Ghosts' \subseteq Ghosts /\ faults' \in {faults, faults + 1}
  <2>1. IsFiniteSet(Ghosts') /\ Cardinality(Ghosts') <= Cardinality(Ghosts)
    BY <1>2, <1>3, FS_Subset
  <2>2. Cardinality(Ghosts') \in Nat
    BY <2>1, FS_CardinalityType
  <2> QED
    BY <1>1, <1>2, <1>3, <2>1, <2>2 DEF GhostInv
<1>4. ASSUME NEW ip \in Ips, Ghosts' \subseteq Ghosts \cup {ip}, faults' = faults + 1
      PROVE  GhostInv'
  <2>1. /\ IsFiniteSet(Ghosts \cup {ip})
        /\ Cardinality(Ghosts \cup {ip}) \in {Cardinality(Ghosts), Cardinality(Ghosts) + 1}
    BY <1>2, FS_AddElement
  <2>2. IsFiniteSet(Ghosts') /\ Cardinality(Ghosts') <= Cardinality(Ghosts \cup {ip})
    BY <1>4, <2>1, FS_Subset
  <2>3. Cardinality(Ghosts') \in Nat
    BY <2>2, FS_CardinalityType
  <2> QED
    BY <1>1, <1>2, <1>4, <2>1, <2>2, <2>3 DEF GhostInv
<1> QED
  BY <1>3, <1>4, GhostStep

\* The count an item decides by is too high by one for each lost call at most.
LEMMA CountsTooHigh ==
  ASSUME TypeInv, LinkInv, GhostInv
  PROVE  /\ lenStaticIps <= Cardinality(Live) + faults
         /\ lenStaticIps \in Nat /\ Cardinality(Live) \in Nat /\ faults \in Nat
<1> USE IpsAssumption DEF TypeInv, TypeOK, AwsTypeOK
<1> DEFINE S == Cached \ Ghosts
           f == [ip \in S |-> staticIps[ip]]
<1>2. IsFiniteSet(Live) /\ Cardinality(Live) \in Nat
  BY LiveFinite
<1>3. \A ip \in S : staticIps[ip] \in StaticNames /\ statics[staticIps[ip]] = ip /\ ip # NoIp
  BY DEF Cached, Ghosts
<1>4. f \in Injection(S, Live)
  BY <1>3 DEF Live, Injection, IsInjective
<1>5. IsFiniteSet(S) /\ Cardinality(S) <= Cardinality(Live) /\ Cardinality(S) \in Nat
  BY <1>2, <1>4, FS_Injection, FS_CardinalityType
<1>6. Cached \cap Ghosts = Ghosts
  BY DEF Ghosts
<1>7. Cardinality(S) = lenStaticIps - Cardinality(Ghosts)
  BY <1>6, CachedFinite, FS_Difference DEF lenStaticIps
<1>8. faults \in Nat
  BY MaxFaultsAssumption
<1> HIDE DEF S
<1> QED
  BY <1>2, <1>5, <1>7, <1>8, CachedFinite DEF GhostInv

-----------------------------------------------------------------------------
(* The promise of StaticIpQuota.                                           *)

QuotaInv == ServedInv /\ StaticInv /\ CacheInv /\ RoomInv /\ RegionInv /\ ReadyInv /\ GhostInv

Restarting == {i \in Items : pc[i] \in RestartPcs}
GaveUp == {i \in Items : pc[i] = "gaveUp"}
promised == <<Live, Restarting, GaveUp, faults>>

\* Cardinality by the name it has in the instance of StaticIpQuota.
LEMMA SameCardinality == \A S : Quota!Cardinality(S) = Cardinality(S)
BY DEF Quota!Cardinality, Cardinality

LEMMA PromiseInit == Init => Quota!Init
<1> SUFFICES ASSUME Init PROVE Quota!Init
  OBVIOUS
<1>1. Cardinality(Live) <= MaxStaticIp
  BY WorldsAssumption DEF Init, WellFormed, Live
<1>2. Restarting = {} /\ GaveUp = {} /\ faults = 0
  BY DEF Init, Restarting, GaveUp, RestartPcs
<1> QED
  BY <1>1, <1>2, SameCardinality DEF Quota!Init, Restarting, GaveUp, Live

LEMMA QuotaInit ==
  ASSUME NoIdleListed, DistinctAddresses, AllUp, NoLeftovers, Init
  PROVE  QuotaInv
<1>1. RegionInv
  BY WorldsAssumption DEF Init, WellFormed, Live, RegionInv
<1> QED
  BY <1>1, ServedInit, StaticInvInit, ReadyInit, GhostInit DEF QuotaInv, Init, RoomInv

LEMMA QuotaInvNext ==
  ASSUME FreshPool, DistinctAddresses, QuotaInv, [Next]_vars
  PROVE  QuotaInv'
BY ServedInvNext, StaticInvNext, CacheInvNext, RoomInvNext, RegionNext, ReadyNext, GhostNext
   DEF QuotaInv, ServedInv, AddressInv

\* What the two sets of items become when one item moves.
LEMMA OneMoves ==
  ASSUME TypeInv, NEW i \in Items, NEW to, pc' = [pc EXCEPT ![i] = to]
  PROVE  /\ (to \in RestartPcs <=> pc[i] \in RestartPcs) => Restarting' = Restarting
         /\ to \in RestartPcs => Restarting' = Restarting \cup {i}
         /\ to \notin RestartPcs => Restarting' = Restarting \ {i}
         /\ to = "gaveUp" => GaveUp' = GaveUp \cup {i}
         /\ to # "gaveUp" /\ pc[i] # "gaveUp" => GaveUp' = GaveUp
BY DEF TypeInv, TypeOK, Restarting, GaveUp

LEMMA StaysPromised ==
  ASSUME TypeInv, NEW i \in Items, NEW to \in {"detach", "allocate"}, pc[i] = "lock",
         pc' = [pc EXCEPT ![i] = to], UNCHANGED <<Live, faults>>
  PROVE  UNCHANGED promised
<1>1. Restarting' = Restarting
  BY OneMoves DEF RestartPcs
<1>2. GaveUp' = GaveUp
  BY OneMoves
<1> QED
  BY <1>1, <1>2 DEF promised

\* Nothing is promised of the steps that concern neither AWS nor the mutex.
LEMMA OutsidePromised ==
  ASSUME QuotaInv,
         \/ Query \/ PingBatch \/ Return \/ Kill \/ Terminated \/ UNCHANGED vars
         \/ \E v \in Vms : Transition(v)
         \/ \E i \in Items : \/ Begin(i) \/ DropOrphan(i) \/ Verify(i) \/ ChangeIP(i)
                             \/ DropOld(i) \/ CreateDnsRecord(i)
  PROVE  Quota!Lose \/ UNCHANGED promised
<1>1. TypeInv
  BY DEF QuotaInv, ServedInv, AddressInv
<1>2. UNCHANGED Live
  BY DEF Query, PingBatch, Return, Kill, Terminated, vars, Transition, Stopped, Running, Begin,
     DropOrphan, Verify, ChangeIP, DropOld, CreateDnsRecord, DropDnsRecord, aws, Live
<1>3. faults' \in {faults, faults + 1}
  BY DEF Query, PingBatch, Return, Kill, Terminated, vars, Transition, Begin,
     DropOrphan, Verify, ChangeIP, DropOld, CreateDnsRecord, DropDnsRecord, Call, Fault
<1>4. UNCHANGED <<Restarting, GaveUp>>
  <2>1. CASE PingBatch
    <3>1. \A i \in Items : pc'[i] = pc[i] \/ (pc[i] = "queued" /\ pc'[i] \in {"skipped", "begin"})
      BY <1>1, <2>1 DEF PingBatch, TypeInv, Placed
    <3> QED
      BY <3>1 DEF Restarting, GaveUp, RestartPcs
  <2>2. CASE \/ Query \/ Return \/ Kill \/ Terminated \/ UNCHANGED vars
             \/ \E v \in Vms : Transition(v)
    BY <2>2 DEF Query, Return, Kill, Terminated, vars, Transition, Restarting, GaveUp
  <2>3. ASSUME NEW i \in Items, \/ Begin(i) \/ DropOrphan(i) \/ Verify(i) \/ ChangeIP(i)
                                \/ DropOld(i) \/ CreateDnsRecord(i)
        PROVE  UNCHANGED <<Restarting, GaveUp>>
    <3>1. pc[i] \in {"begin", "orphan"} \cup RotatedPcs
      BY <2>3 DEF Begin, DropOrphan, Verify, ChangeIP, DropOld, CreateDnsRecord, RotatedPcs
    <3>2. \E to \in {"aborted", "orphan", "lock", "orphaned", "done"} \cup RotatedPcs : Goto(i, to)
      BY <2>3 DEF Begin, DropOrphan, Verify, ChangeIP, DropOld, CreateDnsRecord, DropDnsRecord,
         RotatedPcs
    <3> QED
      BY <1>1, <3>1, <3>2, OneMoves DEF Goto, RotatedPcs, RestartPcs, Restarting
  <2> QED
    BY <2>1, <2>2, <2>3
<1> QED
  BY <1>2, <1>3, <1>4 DEF Quota!Lose, promised, Restarting, GaveUp

LEMMA LockPromised ==
  ASSUME QuotaInv, NEW i \in Items, Lock(i)
  PROVE  Quota!Restart(i) \/ UNCHANGED promised
<1>1. TypeInv /\ LinkInv /\ GhostInv /\ pc[i] = "lock" /\ Ready(i)
  BY DEF QuotaInv, ServedInv, AddressInv, ReadyInv, Lock
<1>2. UNCHANGED <<Live, faults>> /\ pc[i] \notin RestartPcs /\ pc[i] # "gaveUp"
  BY <1>1 DEF Lock, aws, Live, RestartPcs
<1>3. CASE LockToRelease(i)
  <2>1. staticIps[OldIp(i)] # NoName
    BY <1>1, <1>3, NameForAssumption DEF LockToRelease, Ready, WaitPcs
  <2>2. pc' = [pc EXCEPT ![i] = "detach"]
    BY <1>3, <2>1 DEF LockToRelease
  <2> QED
    BY <1>1, <1>2, <2>2, StaysPromised
<1>4. CASE LockToAllocate(i)
  <2>1. pc' = [pc EXCEPT ![i] = "allocate"]
    BY <1>4 DEF LockToAllocate
  <2> QED
    BY <1>1, <1>2, <2>1, StaysPromised
<1>5. CASE LockToRestart(i)
  <2>1. pc' = [pc EXCEPT ![i] = "stop"] /\ lenStaticIps >= MaxStaticIp
    BY <1>5 DEF LockToRestart, Goto
  <2>2. /\ Cardinality(Live) + faults >= MaxStaticIp
        /\ Cardinality(Live) \in Nat /\ faults \in Nat
    BY <1>1, <2>1, CountsTooHigh, MaxStaticIpAssumption
  <2>3. Restarting' = Restarting \cup {i} /\ UNCHANGED GaveUp
    BY <1>1, <1>2, <2>1, OneMoves DEF RestartPcs
  <2> QED
    BY <1>2, <2>2, <2>3, SameCardinality DEF Quota!Restart, Restarting, GaveUp
<1> QED
  BY <1>3, <1>4, <1>5 DEF Lock

\* The ways a call ends for its item, as the promise sees them.
Goes(i, to) == pc' = [pc EXCEPT ![i] = to] /\ to # "gaveUp" /\ UNCHANGED faults
Ends(i) == pc' = [pc EXCEPT ![i] = "gaveUp"] /\ faults' = faults + 1

LEMMA GoesStep ==
  ASSUME TypeInv, NEW i \in Items, NEW to, pc[i] # "gaveUp", Goes(i, to)
  PROVE  Quota!Step(i)
BY OneMoves DEF Goes, Quota!Step, GaveUp

LEMMA EndsStep ==
  ASSUME TypeInv, NEW i \in Items, Ends(i)
  PROVE  Quota!Step(i)
BY OneMoves DEF Ends, Quota!Step, GaveUp

\* A call that changes no set of static IPs, made outside a restart.
LEMMA PlainPromised ==
  ASSUME TypeInv, NEW i \in Items, NEW to,
         pc[i] \notin RestartPcs \cup {"gaveUp"}, to \notin RestartPcs,
         Goes(i, to) \/ Ends(i), UNCHANGED Live
  PROVE  Quota!Fail(i) \/ UNCHANGED promised
<1>0. faults \in Nat
  BY MaxFaultsAssumption DEF TypeInv, TypeOK
<1>1. CASE Goes(i, to)
  BY <1>1, OneMoves DEF Goes, promised
<1>2. CASE Ends(i)
  <2>1. pc' = [pc EXCEPT ![i] = "gaveUp"] /\ faults' = faults + 1 /\ "gaveUp" \notin RestartPcs
    BY <1>2 DEF Ends, RestartPcs
  <2>2. Restarting' = Restarting /\ GaveUp' = GaveUp \cup {i}
    BY <2>1, OneMoves
  <2> QED
    BY <1>0, <2>1, <2>2 DEF Quota!Fail, Restarting, GaveUp
<1> QED
  BY <1>1, <1>2

\* A call made while the instance is down.
LEMMA RestartPromised ==
  ASSUME TypeInv, NEW i \in Items, NEW to,
         pc[i] \in RestartPcs, Goes(i, to) \/ Ends(i), UNCHANGED Live
  PROVE  Quota!Restarted(i) \/ UNCHANGED promised
<1>0. pc[i] # "gaveUp" /\ i \in Restarting
  BY DEF RestartPcs, Restarting
<1>1. CASE Goes(i, to) /\ to \in RestartPcs
  BY <1>0, <1>1, OneMoves DEF Goes, promised
<1>2. CASE Goes(i, to) /\ to \notin RestartPcs
  <2>1. Restarting' = Restarting \ {i} /\ Quota!Step(i)
    BY <1>0, <1>2, OneMoves, GoesStep DEF Goes
  <2> QED
    BY <1>0, <2>1 DEF Quota!Restarted, Restarting
<1>3. CASE Ends(i)
  <2>1. pc' = [pc EXCEPT ![i] = "gaveUp"] /\ "gaveUp" \notin RestartPcs
    BY <1>3 DEF Ends, RestartPcs
  <2>2. Restarting' = Restarting \ {i} /\ Quota!Step(i)
    BY <1>3, <2>1, OneMoves, EndsStep
  <2> QED
    BY <1>0, <2>2 DEF Quota!Restarted, Restarting
<1> QED
  BY <1>1, <1>2, <1>3

\* A call that is refused after one was lost ends its item too.
LEMMA RefusedPromised ==
  ASSUME TypeInv, NEW i \in Items, pc[i] \notin RestartPcs,
         pc' = [pc EXCEPT ![i] = "gaveUp"], faults > 0, UNCHANGED <<Live, faults>>
  PROVE  Quota!Fail(i)
<1>1. Restarting' = Restarting /\ GaveUp' = GaveUp \cup {i}
  BY OneMoves DEF RestartPcs
<1> QED
  BY <1>1 DEF Quota!Fail, Restarting, GaveUp

LEMMA LeaveMoves ==
  ASSUME NEW i, NEW to
  PROVE  /\ Goto(i, to) => pc' = [pc EXCEPT ![i] = to]
         /\ Leave(i, to) => pc' = [pc EXCEPT ![i] = to]
BY DEF Goto, Leave, Unlock

LEMMA DetachPromised ==
  ASSUME AmplePool, QuotaInv, NEW i \in Items, DetachStaticIp(i)
  PROVE  Quota!Fail(i) \/ UNCHANGED promised
<1>1. TypeInv /\ AwsTypeOK /\ LinkInv /\ RegionInv /\ ReachedInv /\ pc[i] = "detach" /\ Ready(i)
  BY DEF QuotaInv, ServedInv, AddressInv, TypeInv, TypeOK, ReadyInv, DetachStaticIp
<1>2. CanDetach(staticIps[OldIp(i)])
  <2>1. VmOf(i) \in Vms /\ VmOf(i) \in isStatic
    BY <1>1, ItemArguments DEF ReachedInv, LockedPcs
  <2> QED
    BY <1>1, <2>1, FreeNonEmpty, NoVmAssumption DEF Ready, CanDetach
<1>3. UNCHANGED Live /\ (Goes(i, "release") \/ Ends(i))
  BY <1>2, LeaveMoves DEF DetachStaticIp, Call, Fault, Detach, GiveUp, Goes, Ends, Live, aws
<1> QED
  BY <1>1, <1>3, PlainPromised DEF RestartPcs

LEMMA AttachPromised ==
  ASSUME QuotaInv, NEW i \in Items, AttachStaticIp(i)
  PROVE  Quota!Fail(i) \/ UNCHANGED promised
<1>1. TypeInv /\ faults \in Nat /\ pc[i] = "attach"
  BY MaxFaultsAssumption DEF QuotaInv, ServedInv, AddressInv, TypeInv, TypeOK, AttachStaticIp
<1>2. faults = 0 => CanAttach(NameFor[VmOf(i)], VmOf(i))
  BY <1>1, AttachAccepted DEF QuotaInv
<1>3. UNCHANGED Live
  BY DEF AttachStaticIp, Call, Attach, Live, aws
<1>4. \/ Goes(i, "getStatic") \/ Ends(i)
      \/ faults > 0 /\ UNCHANGED faults /\ pc' = [pc EXCEPT ![i] = "gaveUp"]
  BY <1>1, <1>2, LeaveMoves DEF AttachStaticIp, Call, Fault, GiveUp, Goes, Ends
<1> QED
  BY <1>1, <1>3, <1>4, PlainPromised, RefusedPromised DEF RestartPcs

LEMMA GetStaticPromised ==
  ASSUME QuotaInv, NEW i \in Items, GetStaticIp(i)
  PROVE  Quota!Fail(i) \/ UNCHANGED promised
<1>1. TypeInv /\ faults \in Nat /\ pc[i] = "getStatic"
  BY MaxFaultsAssumption DEF QuotaInv, ServedInv, AddressInv, TypeInv, TypeOK, GetStaticIp
<1>2. faults = 0 => statics[NameFor[VmOf(i)]] # NoIp
  BY <1>1 DEF QuotaInv, CacheInv
<1>3. UNCHANGED Live
  BY DEF GetStaticIp, Call, Live, aws
<1>4. \/ Goes(i, "verify") \/ Ends(i)
      \/ faults > 0 /\ UNCHANGED faults /\ pc' = [pc EXCEPT ![i] = "gaveUp"]
  BY <1>1, <1>2, LeaveMoves DEF GetStaticIp, Receive, Call, Fault, GiveUp, Goes, Ends
<1> QED
  BY <1>1, <1>3, <1>4, PlainPromised, RefusedPromised DEF RestartPcs

LEMMA ReleasePromised ==
  ASSUME QuotaInv, NEW i \in Items, ReleaseStaticIp(i)
  PROVE  Quota!Give(i) \/ Quota!Fail(i) \/ UNCHANGED promised
<1> DEFINE m == staticIps[OldIp(i)]
<1>1. TypeInv /\ faults \in Nat /\ pc[i] = "release"
  BY MaxFaultsAssumption DEF QuotaInv, ServedInv, AddressInv, TypeInv, TypeOK, ReleaseStaticIp
<1>2. m \in StaticNames /\ OldIp(i) # NoIp
  BY <1>1, ItemArguments, ItemsType, IpsAssumption DEF LockedPcs
<1>3. faults = 0 => CanRelease(m)
  BY <1>1, <1>2 DEF QuotaInv, CacheInv, CanRelease
<1>4. \/ CanRelease(m) /\ Release(m) /\ (Goes(i, "getReleased") \/ Ends(i))
      \/ UNCHANGED aws /\ Ends(i)
      \/ UNCHANGED aws /\ faults > 0 /\ UNCHANGED faults /\ pc' = [pc EXCEPT ![i] = "gaveUp"]
  BY <1>1, <1>3, LeaveMoves DEF ReleaseStaticIp, Call, Fault, GiveUp, Goes, Ends
<1>5. CASE CanRelease(m) /\ Release(m) /\ (Goes(i, "getReleased") \/ Ends(i))
  <2>1. m \in Live /\ Live' = Live \ {m}
    BY <1>1, <1>2, <1>5 DEF CanRelease, Release, Live, TypeInv, TypeOK, AwsTypeOK
  <2>2. Quota!Step(i)
    BY <1>1, <1>5, GoesStep, EndsStep
  <2>3. \E to \in {"getReleased", "gaveUp"} : pc' = [pc EXCEPT ![i] = to]
    BY <1>5 DEF Goes, Ends
  <2>4. Restarting' = Restarting
    BY <1>1, <2>3, OneMoves DEF RestartPcs
  <2> QED
    BY <2>1, <2>2, <2>4 DEF Quota!Give, Restarting
<1>6. CASE UNCHANGED aws /\ Ends(i)
  <2>1. UNCHANGED Live
    BY <1>6 DEF aws, Live
  <2> QED
    BY <1>1, <1>6, <2>1, PlainPromised DEF RestartPcs
<1>7. CASE UNCHANGED aws /\ faults > 0 /\ UNCHANGED faults /\ pc' = [pc EXCEPT ![i] = "gaveUp"]
  <2>1. UNCHANGED Live
    BY <1>7 DEF aws, Live
  <2> QED
    BY <1>1, <1>7, <2>1, RefusedPromised DEF RestartPcs
<1> QED
  BY <1>4, <1>5, <1>6, <1>7

LEMMA AllocatePromised ==
  ASSUME AmplePool, QuotaInv, NEW i \in Items, AllocateStaticIp(i)
  PROVE  Quota!Take(i) \/ Quota!Fail(i) \/ UNCHANGED promised
<1> DEFINE n == NameFor[VmOf(i)]
<1>1. /\ TypeInv /\ AwsTypeOK /\ LinkInv /\ RegionInv /\ ReachedInv
      /\ faults \in Nat /\ pc[i] = "allocate" /\ Ready(i)
  BY MaxFaultsAssumption
     DEF QuotaInv, ServedInv, AddressInv, TypeInv, TypeOK, ReadyInv, AllocateStaticIp
<1>2. n \in StaticNames /\ statics[n] = NoIp
  BY <1>1, ItemArguments DEF Ready, ReachedInv, LockedPcs
<1>3. faults = 0 => CanAllocate(n)
  BY <1>1, <1>2, FreeNonEmpty, FitsWhileAllocating DEF QuotaInv, ServedInv, AddressInv, IInv,
     AllocateWithinQuota, CanAllocate
<1>4. \/ CanAllocate(n) /\ Allocate(n) /\ (Goes(i, "attach") \/ Ends(i))
      \/ UNCHANGED aws /\ Ends(i)
      \/ UNCHANGED aws /\ faults > 0 /\ UNCHANGED faults /\ pc' = [pc EXCEPT ![i] = "gaveUp"]
  BY <1>1, <1>3, LeaveMoves DEF AllocateStaticIp, Call, Fault, GiveUp, Goes, Ends
<1>5. CASE CanAllocate(n) /\ Allocate(n) /\ (Goes(i, "attach") \/ Ends(i))
  <2>1. n \notin Live /\ Live' = Live \cup {n} /\ Cardinality(Live) < MaxStaticIp
    <3>1. PICK ip \in Free : statics' = [statics EXCEPT ![n] = ip]
      BY <1>5 DEF Allocate
    <3>2. ip # NoIp
      BY PoolAssumption, IpsAssumption DEF Free
    <3> QED
      BY <1>1, <1>2, <1>5, <3>1, <3>2 DEF CanAllocate, Live, AwsTypeOK
  <2>2. Quota!Step(i)
    BY <1>1, <1>5, GoesStep, EndsStep
  <2>3. \E to \in {"attach", "gaveUp"} : pc' = [pc EXCEPT ![i] = to]
    BY <1>5 DEF Goes, Ends
  <2>4. Restarting' = Restarting
    BY <1>1, <2>3, OneMoves DEF RestartPcs
  <2> QED
    BY <1>2, <2>1, <2>2, <2>4, SameCardinality DEF Quota!Take, Restarting
<1>6. CASE UNCHANGED aws /\ Ends(i)
  <2>1. UNCHANGED Live
    BY <1>6 DEF aws, Live
  <2> QED
    BY <1>1, <1>6, <2>1, PlainPromised DEF RestartPcs
<1>7. CASE UNCHANGED aws /\ faults > 0 /\ UNCHANGED faults /\ pc' = [pc EXCEPT ![i] = "gaveUp"]
  <2>1. UNCHANGED Live
    BY <1>7 DEF aws, Live
  <2> QED
    BY <1>1, <1>7, <2>1, RefusedPromised DEF RestartPcs
<1> QED
  BY <1>4, <1>5, <1>6, <1>7

LEMMA GetPromised ==
  ASSUME QuotaInv, NEW i \in Items, GetInstance(i)
  PROVE  Quota!Restarted(i) \/ Quota!Fail(i) \/ UNCHANGED promised
<1>1. TypeInv /\ pc[i] \in {"getReleased", "getRestarted"}
  BY DEF QuotaInv, ServedInv, AddressInv, GetInstance
<1>2. UNCHANGED Live /\ (Goes(i, "verify") \/ Ends(i))
  BY LeaveMoves DEF GetInstance, Call, Fault, Receive, GiveUp, Goes, Ends, Live, aws
<1> QED
  BY <1>1, <1>2, PlainPromised, RestartPromised DEF RestartPcs

LEMMA PowerPromised ==
  ASSUME QuotaInv, NEW i \in Items,
         StopInstance(i) \/ StartInstance(i) \/ AwaitStopped(i) \/ AwaitRunning(i)
  PROVE  Quota!Restarted(i) \/ UNCHANGED promised
<1>1. TypeInv /\ pc[i] \in RestartPcs
  BY DEF QuotaInv, ServedInv, AddressInv, StopInstance, StartInstance, AwaitStopped, AwaitRunning,
     AwaitState, RestartPcs
<1>2. VmOf(i) \in Vms
  BY <1>1, ItemArguments
<1>3. UNCHANGED Live
  BY DEF StopInstance, StartInstance, AwaitStopped, AwaitRunning, AwaitState, Call, Stop, Start,
     Live, aws
<1>4. UNCHANGED <<pc, faults>> \/ \E to \in RestartPcs : Goes(i, to) \/ Ends(i)
  <2>1. CASE StopInstance(i)
    <3>1. power[VmOf(i)] = "running"
      BY <1>2, <2>1 DEF QuotaInv, ReadyInv, Ready, StopInstance
    <3>2. Goes(i, "awaitStopped") \/ Ends(i)
      BY <2>1, <3>1, LeaveMoves DEF StopInstance, Call, Fault, GiveUp, Goes, Ends
    <3> QED
      BY <3>2 DEF RestartPcs
  <2>2. CASE StartInstance(i)
    <3>1. power[VmOf(i)] = "stopped"
      BY <1>2, <2>2 DEF QuotaInv, ReadyInv, Ready, StartInstance
    <3>2. Goes(i, "awaitRunning") \/ Ends(i)
      BY <2>2, <3>1, LeaveMoves DEF StartInstance, Call, Fault, GiveUp, Goes, Ends
    <3> QED
      BY <3>2 DEF RestartPcs
  <2>3. CASE AwaitStopped(i)
    <3>1. UNCHANGED <<pc, faults>> \/ Goes(i, "startVm") \/ Ends(i)
      BY <2>3, LeaveMoves DEF AwaitStopped, AwaitState, Fault, GiveUp, Goes, Ends
    <3> QED
      BY <3>1 DEF RestartPcs
  <2>4. CASE AwaitRunning(i)
    <3>1. UNCHANGED <<pc, faults>> \/ Goes(i, "getRestarted") \/ Ends(i)
      BY <2>4, LeaveMoves DEF AwaitRunning, AwaitState, Fault, GiveUp, Goes, Ends
    <3> QED
      BY <3>1 DEF RestartPcs
  <2> QED
    BY <2>1, <2>2, <2>3, <2>4
<1>5. CASE UNCHANGED <<pc, faults>>
  BY <1>3, <1>5 DEF promised, Restarting, GaveUp
<1> QED
  BY <1>1, <1>3, <1>4, <1>5, RestartPromised

LEMMA StepPromised ==
  ASSUME AmplePool, QuotaInv, [Next]_vars
  PROVE  [Quota!Next]_promised
<1>1. ASSUME NEW i \in Items, processInstance(i) PROVE Quota!Next \/ UNCHANGED promised
  <2>1. \/ Quota!Take(i) \/ Quota!Give(i) \/ Quota!Restart(i) \/ Quota!Restarted(i)
        \/ Quota!Fail(i) \/ UNCHANGED promised
    BY <1>1, LockPromised, DetachPromised, ReleasePromised, AllocatePromised, AttachPromised,
       GetStaticPromised, PowerPromised, GetPromised DEF processInstance
  <2> QED
    BY <2>1 DEF Quota!Next
<1>2. Quota!Lose => Quota!Next
  BY DEF Quota!Next
<1> QED
  BY <1>1, <1>2, OutsidePromised DEF Next, processBannedItem

\* Every way of an item through AWS keeps the promise of StaticIpQuota: no item fails and
\* no instance is taken down without need unless a call was lost, however the goroutines
\* of a batch interleave (processInstance).
THEOREM QuotaIsKept ==
  ASSUME FreshPool, AmplePool, NoIdleListed, NoLeftovers, DistinctAddresses, AllUp
  PROVE  Spec => KeepsQuotaPromise
<1>1. Init => QuotaInv
  BY QuotaInit
<1>2. QuotaInv /\ [Next]_vars => QuotaInv'
  BY QuotaInvNext
<1>3. QuotaInv /\ [Next]_vars =>
        [Quota!Next]_<<Live, {i \in Items : pc[i] \in RestartPcs},
                       {i \in Items : pc[i] = "gaveUp"}, faults>>
  BY StepPromised DEF promised, Restarting, GaveUp
<1> QED
  BY <1>1, <1>2, <1>3, PromiseInit, PTL DEF Spec, KeepsQuotaPromise, Quota!Spec

-----------------------------------------------------------------------------
(* What a run without a failed call achieves.                              *)

FiledPcs == {"drop", "create", "done"}

\* The job knows every record of the listed hosts.
RecordsKnown == run \in {"loop", "returned"} => dnsRecords = {r \in dns : r[1] \in HostsBanned}

\* What is behind an item at each step.
Finished(i) ==
  /\ pc[i] # "gaveUp"
  /\ pc[i] \in LatePcs => new[i] # NoIp
  /\ pc[i] \in FiledPcs => panel[i] = new[i]
  /\ pc[i] \in {"create", "done", "orphaned"} => Dead(i) /\ Old(i) \notin dns
  /\ pc[i] = "done" => New(i) \in dns
  /\ pc[i] \in {"orphan", "orphaned"} => VmOf(i) = NoVm

ConvergeInv ==
  /\ run = "returned" => \A i \in Items : pc[i] \in EndedPcs
  /\ faults = 0 => RecordsKnown /\ \A i \in Items : Finished(i)

LEMMA ConvergeInit == Init => ConvergeInv
BY DEF Init, ConvergeInv, RecordsKnown, Finished, LatePcs, FiledPcs, RotatedPcs

\* How an item gets from a step to the next, and what of its work is done then.
LEMMA LateStep ==
  ASSUME TypeInv, [Next]_vars, NEW i \in Items
  PROVE  /\ pc'[i] \in LatePcs =>
              pc[i] \in LatePcs \/ (pc'[i] = "verify" /\ run' \in {"loop", "panicked"})
         /\ pc'[i] \in FiledPcs =>
              \/ pc[i] \in FiledPcs
              \/ pc[i] = "changeIp" /\ (panel'[i] = new[i] \/ faults' = faults + 1)
         /\ pc'[i] \in {"orphan", "orphaned"} =>
              pc[i] \in {"orphan", "orphaned"} \/ VmOf(i) = NoVm
         /\ run' = "returned" =>
              UNCHANGED pc /\ (run = "returned" \/ \A j \in Items : pc[j] \in EndedPcs)
<1> USE DEF TypeInv, TypeOK, LatePcs, FiledPcs, RotatedPcs
<1>1. CASE \E j \in Items : processBannedItem(j)
  <2>1. PICK j \in Items : processBannedItem(j)
    BY <1>1
  <2>2. run = "loop"
    BY <2>1 DEF processBannedItem
  <2>3. CASE Begin(j) \/ Lock(j)
    BY <2>2, <2>3 DEF Begin, Lock, LockToRelease, LockToAllocate, LockToRestart, Goto
  <2>4. CASE Verify(j)
    BY <2>2, <2>4 DEF Verify, Goto
  <2>5. CASE ChangeIP(j)
    BY <2>2, <2>5 DEF ChangeIP, Goto, Fault
  <2>6. CASE DropOrphan(j) \/ DropOld(j) \/ CreateDnsRecord(j)
    BY <2>2, <2>6 DEF DropOrphan, DropOld, DropDnsRecord, CreateDnsRecord, Goto
  <2>7. CASE StopInstance(j) \/ StartInstance(j)
    BY <2>2, <2>7 DEF StopInstance, StartInstance, Call, Goto, GiveUp, Leave, Unlock
  <2>8. CASE AwaitStopped(j) \/ AwaitRunning(j)
    BY <2>2, <2>8 DEF AwaitStopped, AwaitRunning, AwaitState, Goto, GiveUp, Leave, Unlock
  <2>9. CASE GetInstance(j)
    BY <2>2, <2>9 DEF GetInstance, Call, Receive, Goto, GiveUp, Leave, Unlock
  <2>10. CASE DetachStaticIp(j) \/ ReleaseStaticIp(j)
    BY <2>2, <2>10 DEF DetachStaticIp, ReleaseStaticIp, Call, Goto, GiveUp, Leave, Unlock
  <2>11. CASE AllocateStaticIp(j) \/ AttachStaticIp(j)
    BY <2>2, <2>11 DEF AllocateStaticIp, AttachStaticIp, Call, Goto, GiveUp, Leave, Unlock
  <2>12. CASE GetStaticIp(j)
    BY <2>2, <2>12 DEF GetStaticIp, Call, Receive, Goto, GiveUp, Leave, Unlock
  <2> QED
    BY <2>1, <2>3, <2>4, <2>5, <2>6, <2>7, <2>8, <2>9, <2>10, <2>11, <2>12
       DEF processBannedItem, processInstance
<1>2. CASE Query \/ Kill \/ Terminated \/ UNCHANGED vars
  BY <1>2 DEF Query, Kill, Terminated, vars
<1>3. CASE PingBatch
  BY <1>3 DEF PingBatch
<1>4. CASE \E v \in Vms : Transition(v)
  BY <1>4 DEF Transition
<1>5. CASE Return
  <2>1. \A j \in Items : j < lo
    BY <1>5, ItemsType DEF Return, MoreItems, Items
  <2> QED
    BY <1>5, <2>1 DEF Return, Waited
<1> QED
  BY <1>1, <1>2, <1>3, <1>4, <1>5 DEF Next

\* A record of the item is known to the job exactly when Cloudflare has it.
LEMMA OwnRecords ==
  ASSUME TypeInv, RecordsKnown, run = "loop", NEW i \in Items, HostOf(i) \in Hosts
  PROVE  \A ip : <<HostOf(i), ip>> \in dns <=> <<HostOf(i), ip>> \in dnsRecords
<1>1. HostOf(i) \in HostsBanned
  BY HostsAssumption DEF HostsBanned
<1> QED
  BY <1>1 DEF RecordsKnown

\* An item deletes its old record and creates its new one; a refusal changes nothing,
\* as what it asks for is so already.
Dropped(i) ==
  /\ pc[i] \in {"orphan", "drop"} /\ pc'[i] \in {"orphaned", "create"}
  /\ dns' = dns \ {Old(i)} /\ dnsRecords' = dnsRecords \ {Old(i)}
  /\ \A j \in Items : j # i => pc'[j] = pc[j]
Created(i) ==
  /\ pc[i] = "create" /\ pc'[i] = "done"
  /\ dns' = dns \cup {New(i)} /\ dnsRecords' = dnsRecords \cup {New(i)}
  /\ \A j \in Items : j # i => pc'[j] = pc[j]

LEMMA DnsStep ==
  ASSUME TypeInv, RecordsKnown, [Next]_vars, faults' = 0
  PROVE  /\ faults = 0
         /\ \/ \E i \in Items : HostOf(i) \in Hosts /\ (Dropped(i) \/ Created(i)) /\ UNCHANGED <<run, new>>
            \/ /\ UNCHANGED dns
               /\ \/ UNCHANGED dnsRecords /\ (run' \in {"loop", "returned"} => run \in {"loop", "returned"})
                  \/ dnsRecords' = {r \in dns : r[1] \in HostsBanned}
               /\ \A i \in Items : pc'[i] \in {"create", "done", "orphaned"} => pc'[i] = pc[i]
<1> USE DEF TypeInv, TypeOK
<1>0. faults \in Nat
  BY MaxFaultsAssumption
<1>1. CASE \E j \in Items : processBannedItem(j)
  <2>1. PICK i \in Items : processBannedItem(i)
    BY <1>1
  <2>2. run = "loop"
    BY <2>1 DEF processBannedItem
  <2>3. CASE Begin(i) \/ Lock(i) \/ Verify(i) \/ ChangeIP(i)
    BY <1>0, <2>2, <2>3 DEF Begin, Lock, LockToRelease, LockToAllocate, LockToRestart, Verify,
       ChangeIP, Goto, Fault, caches
  <2>4. CASE StopInstance(i) \/ StartInstance(i) \/ AwaitStopped(i) \/ AwaitRunning(i)
    BY <1>0, <2>2, <2>4 DEF StopInstance, StartInstance, AwaitStopped, AwaitRunning, AwaitState,
       Call, Goto, GiveUp, Leave, Unlock, Fault, inInstance
  <2>5. CASE DetachStaticIp(i) \/ ReleaseStaticIp(i) \/ AllocateStaticIp(i)
    BY <1>0, <2>2, <2>5 DEF DetachStaticIp, ReleaseStaticIp, AllocateStaticIp, Call, Goto, GiveUp,
       Leave, Unlock, Fault, inInstance
  <2>6. CASE AttachStaticIp(i) \/ GetStaticIp(i) \/ GetInstance(i)
    BY <1>0, <2>2, <2>6 DEF AttachStaticIp, GetStaticIp, GetInstance, Receive, Call, Goto, GiveUp,
       Leave, Unlock, Fault, inInstance
  <2>7. CASE DropOrphan(i) \/ DropOld(i)
    <3>1. pc[i] \in {"orphan", "drop"} /\ HostOf(i) \in Hosts
      BY <2>7 DEF DropOrphan, DropOld, Placed, ActivePcs, RotatedPcs
    <3>2. Old(i) \in dns <=> Old(i) \in dnsRecords
      BY <2>2, <3>1, OwnRecords DEF Old
    <3>3. /\ UNCHANGED <<run, new>> /\ pc'[i] \in {"orphaned", "create"}
          /\ \A j \in Items : j # i => pc'[j] = pc[j]
      BY <2>7 DEF DropOrphan, DropOld, DropDnsRecord, Goto
    <3>4. faults = 0 /\ dns' = dns \ {Old(i)} /\ dnsRecords' = dnsRecords \ {Old(i)}
      <4>1. \/ Old(i) \notin dnsRecords /\ UNCHANGED <<dns, dnsRecords, faults>>
            \/ Old(i) \in dnsRecords /\ Call(dns, Old(i) \in dns, dns' = dns \ {Old(i)},
                 dnsRecords' = dnsRecords \ {Old(i)}, UNCHANGED dnsRecords)
        BY <2>7 DEF DropOrphan, DropOld, DropDnsRecord
      <4> QED
        BY <1>0, <3>2, <4>1 DEF Call, Fault
    <3> QED
      BY <3>1, <3>3, <3>4 DEF Dropped
  <2>8. CASE CreateDnsRecord(i)
    <3>1. pc[i] = "create" /\ HostOf(i) \in Hosts
      BY <2>8 DEF CreateDnsRecord, Placed, ActivePcs, RotatedPcs
    <3>2. New(i) \in dns <=> New(i) \in dnsRecords
      BY <2>2, <3>1, OwnRecords DEF New
    <3>3. UNCHANGED <<run, new>> /\ pc'[i] = "done" /\ \A j \in Items : j # i => pc'[j] = pc[j]
      BY <2>8 DEF CreateDnsRecord, Goto
    <3>4. faults = 0 /\ dns' = dns \cup {New(i)} /\ dnsRecords' = dnsRecords \cup {New(i)}
      <4>1. Call(dns, New(i) \notin dns, dns' = dns \cup {New(i)},
                 dnsRecords' = dnsRecords \cup {New(i)}, UNCHANGED dnsRecords)
        BY <2>8 DEF CreateDnsRecord
      <4> QED
        BY <1>0, <3>2, <4>1 DEF Call, Fault
    <3> QED
      BY <3>1, <3>3, <3>4 DEF Created
  <2> QED
    BY <2>1, <2>3, <2>4, <2>5, <2>6, <2>7, <2>8 DEF processBannedItem, processInstance
<1>2. CASE Query \/ Return \/ Kill \/ Terminated \/ UNCHANGED vars
  BY <1>0, <1>2 DEF Query, Return, Kill, Terminated, Fault, vars, caches
<1>3. CASE PingBatch
  BY <1>3 DEF PingBatch, caches
<1>4. CASE \E v \in Vms : Transition(v)
  BY <1>4 DEF Transition, caches
<1> QED
  BY <1>1, <1>2, <1>3, <1>4 DEF Next

LEMMA RecordsNext ==
  ASSUME TypeInv, RecordsKnown, [Next]_vars, faults' = 0
  PROVE  RecordsKnown'
<1> SUFFICES ASSUME run' \in {"loop", "returned"}
             PROVE  dnsRecords' = {r \in dns' : r[1] \in HostsBanned}
  BY DEF RecordsKnown, HostsBanned, HostOf
<1>1. ASSUME NEW i \in Items, HostOf(i) \in Hosts, Dropped(i) \/ Created(i), UNCHANGED <<run, new>>
      PROVE  dnsRecords' = {r \in dns' : r[1] \in HostsBanned}
  <2>1. New(i)[1] \in HostsBanned
    BY <1>1, HostsAssumption DEF HostsBanned, New
  <2>2. dnsRecords = {r \in dns : r[1] \in HostsBanned}
    BY <1>1 DEF RecordsKnown
  <2> QED
    BY <1>1, <2>1, <2>2 DEF Dropped, Created
<1> QED
  BY <1>1, DnsStep DEF RecordsKnown

LEMMA FinishedNext ==
  ASSUME FreshPool, DistinctAddresses, QuotaInv, UpInv, AmplePool, ConvergeInv,
         QuotaInv', UpInv', [Next]_vars, faults' = 0, NEW i \in Items
  PROVE  Finished(i)'
<1> USE IpsAssumption DEF QuotaInv, ServedInv, AddressInv, TypeInv, TypeOK
<1>1. faults = 0 /\ RecordsKnown /\ \A j \in Items : Finished(j)
  BY FaultsOnlyGrow DEF ConvergeInv
<1>2. pc'[i] # "gaveUp"
  <2>1. GaveUp' \subseteq GaveUp
    <3>1. Quota!Next \/ UNCHANGED promised
      BY StepPromised
    <3> QED
      BY <1>1, <3>1 DEF Quota!Next, Quota!Lose, Quota!Take, Quota!Give, Quota!Restart,
         Quota!Restarted, Quota!Fail, Quota!Step, promised, GaveUp
  <2> QED
    BY <1>1, <2>1 DEF GaveUp, Finished
<1>3. \A j \in Items : new[j] # NoIp =>
        /\ pc[j] \in LatePcs /\ VmOf(j) \in Vms /\ pubIp[VmOf(j)] = new[j]
        /\ \A k \in Items : Dead(k) => OldIp(k) # new[j]
  BY DEF Served, Dead, Owned
<1>4. pc'[i] \in LatePcs => new'[i] # NoIp
  <2>1. CASE pc[i] \in LatePcs
    BY <1>1, <2>1, ItemMoves DEF Finished, LatePcs, RotatedPcs
  <2>2. CASE pc'[i] = "verify" /\ run' \in {"loop", "panicked"}
    BY <2>2 DEF UpInv, Placed, RotatedPcs
  <2> QED
    BY <2>1, <2>2, LateStep
<1>5. ASSUME pc'[i] \in FiledPcs PROVE panel'[i] = new'[i]
  <2>1. pc[i] \in LatePcs /\ (panel'[i] = new[i] \/ (pc[i] \in FiledPcs /\ panel[i] = new[i]))
    BY <1>1, <1>5, LateStep DEF FiledPcs, LatePcs, RotatedPcs, Finished
  <2> QED
    BY <2>1, ItemMoves DEF LatePcs, RotatedPcs
<1>6. pc'[i] \in {"orphan", "orphaned"} => VmOf(i)' = NoVm
  BY <1>1, LateStep, SnapshotKept DEF Finished, VmOf
<1>7. ASSUME pc'[i] \in {"create", "done", "orphaned"}
      PROVE  Dead(i)' /\ Old(i) \notin dns' /\ (pc'[i] = "done" => New(i)' \in dns')
  <2>1. ASSUME NEW j \in Items, Dropped(j)
        PROVE  Dead(i)' /\ Old(i) \notin dns' /\ (pc'[i] = "done" => New(i) \in dns')
    <3>1. Dead(j) /\ Dead(i)
      BY <1>1, <1>7, <2>1 DEF Dropped, ReachedInv, DeadPcs, RotatedPcs, Finished
    <3>2. Old(i) \notin dns'
      BY <1>1, <1>7, <2>1 DEF Dropped, Finished
    <3>3. ASSUME pc'[i] = "done" PROVE New(i) \in dns'
      <4>1. pc[i] = "done" /\ New(i) \in dns /\ new[i] # NoIp
        BY <1>1, <2>1, <3>3 DEF Dropped, Finished, LatePcs
      <4>2. New(i) # Old(j)
        BY <1>3, <3>1, <4>1 DEF New, Old
      <4> QED
        BY <2>1, <4>1, <4>2 DEF Dropped
    <3> QED
      BY <3>1, <3>2, <3>3, DeadForever
  <2>2. ASSUME NEW j \in Items, Created(j)
        PROVE  Dead(i)' /\ Old(i) \notin dns' /\ (pc'[i] = "done" => New(i) \in dns')
    <3>1. Dead(i) /\ Old(i) \notin dns
      BY <1>1, <1>7, <2>2 DEF Created, Finished
    <3>2. New(j) # Old(i)
      BY <1>1, <1>3, <2>2, <3>1 DEF Created, Finished, LatePcs, RotatedPcs, New, Old
    <3>3. pc'[i] = "done" => New(i) \in dns'
      BY <1>1, <2>2 DEF Created, Finished
    <3> QED
      BY <2>2, <3>1, <3>2, <3>3, DeadForever DEF Created
  <2>3. ASSUME UNCHANGED dns, pc'[i] = pc[i]
        PROVE  Dead(i)' /\ Old(i) \notin dns' /\ (pc'[i] = "done" => New(i) \in dns')
    <3>1. Dead(i) /\ Old(i) \notin dns /\ (pc[i] = "done" => New(i) \in dns)
      BY <1>1, <1>7, <2>3 DEF Finished
    <3>2. Dead(i)'
      BY <3>1, DeadForever
    <3> QED
      BY <2>3, <3>1, <3>2
  <2>4. Dead(i)' /\ Old(i) \notin dns' /\ (pc'[i] = "done" => New(i) \in dns')
    <3>1. (\E j \in Items : Dropped(j) \/ Created(j)) \/ (UNCHANGED dns /\ pc'[i] = pc[i])
      BY <1>1, <1>7, DnsStep
    <3> QED
      BY <2>1, <2>2, <2>3, <3>1
  <2>5. ASSUME pc'[i] = "done" PROVE New(i)' = New(i)
    <3>1. pc[i] \in LatePcs
      BY <2>5, LateStep DEF LatePcs
    <3>2. new'[i] = new[i]
      BY <3>1, ItemMoves DEF LatePcs, RotatedPcs
    <3> QED
      BY <3>2 DEF New, HostOf
  <2> QED
    BY <2>4, <2>5
<1> QED
  BY <1>2, <1>4, <1>5, <1>6, <1>7 DEF Finished, Old, HostOf, OldIp

LEMMA ConvergeNext ==
  ASSUME FreshPool, DistinctAddresses, QuotaInv, UpInv, AmplePool, ConvergeInv,
         QuotaInv', UpInv', [Next]_vars
  PROVE  ConvergeInv'
<1>1. TypeInv
  BY DEF QuotaInv, ServedInv, AddressInv
<1>2. ASSUME run' = "returned", NEW i \in Items PROVE pc'[i] \in EndedPcs
  BY <1>1, <1>2, LateStep DEF ConvergeInv
<1>3. ASSUME faults' = 0 PROVE RecordsKnown' /\ \A i \in Items : Finished(i)'
  <2>1. faults = 0
    BY <1>1, <1>3, FaultsOnlyGrow
  <2> QED
    BY <1>1, <1>3, <2>1, RecordsNext, FinishedNext DEF ConvergeInv
<1> QED
  BY <1>2, <1>3 DEF ConvergeInv

\* A run in which no call failed has done for every unreachable item all that
\* processBannedItem is there for.
THEOREM RunsConverge ==
  ASSUME FreshPool, AmplePool, NoIdleListed, NoLeftovers, DistinctAddresses, AllUp
  PROVE  Spec => []Converged
<1>1. Init => QuotaInv /\ UpInv /\ ConvergeInv
  BY QuotaInit, UpInit, ConvergeInit
<1>2. QuotaInv /\ UpInv /\ ConvergeInv /\ [Next]_vars => QuotaInv' /\ UpInv' /\ ConvergeInv'
  <2> SUFFICES ASSUME QuotaInv, UpInv, ConvergeInv, [Next]_vars
               PROVE  QuotaInv' /\ UpInv' /\ ConvergeInv'
    OBVIOUS
  <2>1. QuotaInv' /\ UpInv'
    BY QuotaInvNext, UpInvNext DEF QuotaInv
  <2> QED
    BY <2>1, ConvergeNext
<1>3. ASSUME QuotaInv, ConvergeInv PROVE Converged
  <2> SUFFICES ASSUME run = "returned", faults = 0, NEW i \in Items,
                      pc[i] \notin {"skipped", "aborted"}
               PROVE  /\ Old(i) \notin dns
                      /\ VmOf(i) # NoVm =>
                           pc[i] = "done" /\ panel[i] = pubIp[VmOf(i)]
                             /\ <<HostOf(i), panel[i]>> \in dns
    BY DEF Converged
  <2>1. pc[i] \in {"done", "orphaned"} /\ Finished(i)
    BY <1>3 DEF ConvergeInv, EndedPcs, Finished
  <2>2. Old(i) \notin dns /\ (VmOf(i) # NoVm => pc[i] = "done")
    BY <2>1 DEF Finished
  <2>3. ASSUME pc[i] = "done"
        PROVE  panel[i] = pubIp[VmOf(i)] /\ <<HostOf(i), panel[i]>> \in dns
    <3>1. new[i] # NoIp /\ panel[i] = new[i] /\ New(i) \in dns
      BY <2>1, <2>3 DEF Finished, LatePcs, FiledPcs
    <3>2. pubIp[VmOf(i)] = new[i]
      BY <1>3, <3>1 DEF QuotaInv, ServedInv, Served
    <3> QED
      BY <3>1, <3>2 DEF New
  <2> QED
    BY <2>2, <2>3
<1> QED
  BY <1>1, <1>2, <1>3, PTL DEF Spec
================================================================================
