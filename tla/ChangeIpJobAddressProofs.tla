----------------------- MODULE ChangeIpJobAddressProofs -----------------------
(***************************************************************************)
(* Theorems about the addresses ChangeIpJob deals with, for every world,   *)
(* quota, batch size and bound on faults: a record is only deleted when    *)
(* its address is dead, whatever the banned list (instances listed twice   *)
(* included), and what the panel and DNS are told is served when no two    *)
(* banned items are on one instance.                                       *)
(***************************************************************************)
EXTENDS ChangeIpJobProofs

\* AWS hands out addresses that are not on the list.
FreshPool == \A i \in Items : OldIp(i) \notin Pool

\* No static IP with a listed address lies about unattached when the job starts.
NoIdleListed ==
  \A w \in Worlds, n \in StaticNames, i \in Items :
    w.statics[n] = OldIp(i) => w.att[n] # NoVm

\* An instance has the address of a static IP exactly while the static IP is attached.
LinkInv ==
  /\ \A m, n \in StaticNames : statics[m] = statics[n] /\ statics[m] # NoIp => m = n
  /\ \A n \in StaticNames, v \in Vms : statics[n] # NoIp => (pubIp[v] = statics[n] <=> att[n] = v)
  /\ \A n \in StaticNames : statics[n] = NoIp => att[n] = NoVm

\* Who can still have the listed address of i: its instance, and its static IP when that
\* is what Init has seen.
OwnerInv ==
  \A i \in Items :
    /\ \A v \in Vms : pubIp[v] = OldIp(i) => v = VmOf(i)
    /\ \A n \in StaticNames :
         statics[n] = OldIp(i) => VmOf(i) \in isStatic /\ staticIps[OldIp(i)] = n
    /\ VmOf(i) \in isStatic /\ pubIp[VmOf(i)] = OldIp(i) => \E n \in StaticNames : statics[n] = OldIp(i)

Dead(i) == ~ Owned(OldIp(i))
DeadPcs == {"orphan", "getReleased", "getStatic", "getRestarted"} \cup RotatedPcs

\* What an item has achieved at each step: an instance that was seen stopped comes back
\* with another address, and from DeadPcs on nobody has the listed one.
ReachedInv ==
  \A i \in Items :
    /\ pc[i] \in {"detach", "release", "getReleased"} => VmOf(i) \in isStatic
    /\ pc[i] \in {"allocate", "attach", "getStatic"} \cup RestartPcs => VmOf(i) \notin isStatic
    /\ pc[i] \in {"attach", "getStatic"} => statics[NameFor[VmOf(i)]] \in Pool \cup {NoIp}
    /\ pc[i] \in {"startVm", "awaitRunning"} /\ pubIp[VmOf(i)] = OldIp(i) =>
         power[VmOf(i)] \in {"stopped", "pending"}
    /\ pc[i] \in DeadPcs => Dead(i)

AddressInv == TypeInv /\ isStatic \subseteq Vms /\ LinkInv /\ OwnerInv /\ ReachedInv

LEMMA AddressInit == ASSUME NoIdleListed, Init PROVE AddressInv
<1>1. TypeInv
  BY TypeInvInit
<1>2. PICK w \in Worlds : pubIp = w.pubIp /\ statics = w.statics /\ att = w.att
  BY DEF Init
<1>3. WellFormed(pubIp, statics, att)
  BY <1>2, WorldsAssumption
<1>4. LinkInv
  BY <1>3 DEF WellFormed, LinkInv
<1>5. \A v \in Vms : v \in isStatic => \E n \in StaticNames : statics[n] # NoIp /\ pubIp[v] = statics[n]
  BY <1>4 DEF Init, HasStatic, Live, LinkInv
<1>6. ASSUME NEW i \in Items, NEW v \in Vms, pubIp[v] = OldIp(i) PROVE v = VmOf(i)
  <2>1. OldIp(i) \in Ips /\ OldIp(i) # NoIp
    BY ItemsType, IpsAssumption
  <2>2. VmOf(i) = CHOOSE u \in Vms : pubIp[u] = OldIp(i)
    BY <1>6, <2>1 DEF Init, SnapshotInstances, VmOf
  <2> QED
    BY <1>3, <1>6, <2>1, <2>2 DEF WellFormed
<1>7. ASSUME NEW i \in Items, NEW n \in StaticNames, statics[n] = OldIp(i)
      PROVE  VmOf(i) \in isStatic /\ staticIps[OldIp(i)] = n
  <2>1. OldIp(i) \in Ips /\ OldIp(i) # NoIp
    BY ItemsType, IpsAssumption
  <2>2. att[n] \in Vms /\ pubIp[att[n]] = OldIp(i)
    BY <1>1, <1>2, <1>4, <1>7, <2>1 DEF NoIdleListed, LinkInv, TypeInv, TypeOK, AwsTypeOK
  <2>3. att[n] \in isStatic
    BY <1>7, <2>1, <2>2 DEF Init, HasStatic, Live
  <2>4. staticIps[OldIp(i)] = CHOOSE m \in StaticNames : statics[m] = OldIp(i)
    BY <1>7, <2>1 DEF Init, SnapshotStaticIps
  <2> QED
    BY <1>4, <1>6, <1>7, <2>1, <2>2, <2>3, <2>4 DEF LinkInv
<1>8. OwnerInv
  BY <1>5, <1>6, <1>7 DEF OwnerInv, Init
<1>9. ReachedInv
  BY DEF Init, ReachedInv, DeadPcs, RestartPcs, RotatedPcs
<1> QED
  BY <1>1, <1>4, <1>8, <1>9 DEF AddressInv, Init

-----------------------------------------------------------------------------
(* What a step does to AWS.                                                *)

LEMMA LinkKept ==
  ASSUME AwsTypeOK, LinkInv, NEW n \in StaticNames, NEW v \in Vms,
         \/ CanDetach(n) /\ Detach(n)
         \/ CanRelease(n) /\ Release(n)
         \/ CanAllocate(n) /\ Allocate(n)
         \/ CanAttach(n, v) /\ Attach(n, v)
         \/ Stop(v) \/ Start(v) \/ Stopped(v) \/ Running(v)
         \/ UNCHANGED aws
  PROVE  LinkInv'
<1> USE IpsAssumption, NoVmAssumption DEF AwsTypeOK
<1>0. \A ip \in Free : /\ ip \in Ips
                       /\ \A u \in Vms : pubIp[u] # ip
                       /\ \A k \in StaticNames : statics[k] # ip
  BY PoolAssumption DEF Free, Owned
<1>1. CASE CanDetach(n) /\ Detach(n)
  <2>1. att[n] \in Vms /\ statics[n] \in Ips
    BY <1>1 DEF CanDetach, LinkInv
  <2>2. PICK ip \in Free \cup {NoIp} : pubIp' = [pubIp EXCEPT ![att[n]] = ip]
    BY <1>1 DEF Detach
  <2>3. att' = [att EXCEPT ![n] = NoVm] /\ statics' = statics
    BY <1>1 DEF Detach
  <2>4. \A k \in StaticNames : k # n /\ statics[k] # NoIp => att[k] # att[n]
    BY <2>1 DEF LinkInv
  <2> QED
    BY <1>0, <2>1, <2>2, <2>3, <2>4 DEF LinkInv
<1>2. CASE CanRelease(n) /\ Release(n)
  BY <1>2 DEF CanRelease, Release, LinkInv
<1>3. CASE CanAllocate(n) /\ Allocate(n)
  <2>1. PICK ip \in Free : statics' = [statics EXCEPT ![n] = ip]
    BY <1>3 DEF Allocate
  <2>2. att[n] = NoVm /\ pubIp' = pubIp /\ att' = att
    BY <1>3 DEF CanAllocate, Allocate, LinkInv
  <2> QED
    BY <1>0, <2>1, <2>2 DEF LinkInv
<1>4. CASE CanAttach(n, v) /\ Attach(n, v)
  <2>1. statics[n] # NoIp /\ att[n] = NoVm /\ \A k \in StaticNames : statics[k] # NoIp => att[k] # v
    BY <1>4 DEF CanAttach, HasStatic, Live
  <2>2. /\ att' = [att EXCEPT ![n] = v]
        /\ pubIp' = [pubIp EXCEPT ![v] = statics[n]]
        /\ statics' = statics
    BY <1>4 DEF Attach
  <2> QED
    BY <2>1, <2>2 DEF LinkInv
<1>5. CASE Stop(v) \/ Start(v) \/ UNCHANGED aws
  BY <1>5 DEF Stop, Start, LinkInv, aws
<1>6. CASE Stopped(v) \/ Running(v)
  <2>1. statics' = statics /\ att' = att
    BY <1>6 DEF Stopped, Running
  <2>2. CASE HasStatic(v)
    BY <1>6, <2>1, <2>2 DEF Stopped, Running, LinkInv
  <2>3. CASE ~ HasStatic(v)
    <3>1. \A k \in StaticNames : statics[k] # NoIp => att[k] # v
      BY <2>3 DEF HasStatic, Live
    <3>2. PICK ip \in Free \cup {NoIp} : pubIp' = [pubIp EXCEPT ![v] = ip]
      BY <1>6, <2>3 DEF Stopped, Running
    <3> QED
      BY <1>0, <2>1, <3>1, <3>2 DEF LinkInv
  <2> QED
    BY <2>2, <2>3
<1> QED
  BY <1>1, <1>2, <1>3, <1>4, <1>5, <1>6

\* The calls of an item, with the step that makes them, and what AWS does by itself.
ItemEffect(i) ==
  LET v == VmOf(i)
      n == NameFor[v]
      m == staticIps[OldIp(i)]
  IN /\ pc'[i] # pc[i]
     /\ \/ pc[i] = "detach" /\ CanDetach(m) /\ Detach(m)
        \/ pc[i] = "release" /\ CanRelease(m) /\ Release(m)
        \/ pc[i] = "allocate" /\ CanAllocate(n) /\ Allocate(n)
        \/ pc[i] = "attach" /\ CanAttach(n, v) /\ Attach(n, v)
        \/ pc[i] = "stop" /\ power[v] = "running" /\ Stop(v)
        \/ pc[i] = "startVm" /\ power[v] = "stopped" /\ Start(v)
VmEffect(v) == Stopped(v) \/ Running(v)

LEMMA AwsStep ==
  ASSUME TypeInv, [Next]_vars
  PROVE  \/ UNCHANGED aws
         \/ \E i \in Items : ItemEffect(i)
         \/ \E v \in Vms : VmEffect(v)
<1>1. CASE \E i \in Items : processBannedItem(i)
  <2>1. PICK i \in Items : processBannedItem(i)
    BY <1>1
  <2>2. CASE Begin(i) \/ Verify(i) \/ ChangeIP(i) \/ Lock(i) \/ DropOrphan(i) \/ DropOld(i)
               \/ CreateDnsRecord(i) \/ AwaitStopped(i) \/ AwaitRunning(i)
    BY <2>2 DEF Begin, Verify, ChangeIP, Lock, DropOrphan, DropOld, DropDnsRecord, CreateDnsRecord,
       AwaitStopped, AwaitRunning, AwaitState
  <2>3. CASE GetStaticIp(i) \/ GetInstance(i)
    BY <2>3 DEF GetStaticIp, GetInstance, Call
  <2>4. CASE DetachStaticIp(i) \/ ReleaseStaticIp(i) \/ AllocateStaticIp(i) \/ AttachStaticIp(i)
    BY <2>4 DEF DetachStaticIp, ReleaseStaticIp, AllocateStaticIp, AttachStaticIp, Call, ItemEffect,
       Goto, GiveUp, Leave, Unlock, TypeInv, TypeOK
  <2>5. CASE StopInstance(i) \/ StartInstance(i)
    BY <2>5 DEF StopInstance, StartInstance, Call, ItemEffect, Goto, GiveUp, Leave, Unlock,
       TypeInv, TypeOK
  <2> QED
    BY <2>1, <2>2, <2>3, <2>4, <2>5 DEF processBannedItem, processInstance
<1>2. CASE Query \/ PingBatch \/ Return \/ Kill \/ Terminated \/ UNCHANGED vars
  BY <1>2 DEF Query, PingBatch, Return, Kill, Terminated, vars
<1>3. CASE \E v \in Vms : Transition(v)
  BY <1>3 DEF Transition, VmEffect
<1> QED
  BY <1>1, <1>2, <1>3 DEF Next

LEMMA ItemArguments ==
  ASSUME TypeInv, NEW i \in Items, pc[i] \in LockedPcs \cup RestartPcs
  PROVE  /\ VmOf(i) \in Vms /\ NameFor[VmOf(i)] \in StaticNames
         /\ pc[i] \in {"detach", "release"} => staticIps[OldIp(i)] \in StaticNames
BY NameForAssumption DEF TypeInv, Placed, ActivePcs

LEMMA LinkInvNext ==
  ASSUME AddressInv, [Next]_vars
  PROVE  LinkInv'
<1> USE DEF AddressInv, TypeInv, TypeOK
<1>1. CASE UNCHANGED aws
  BY <1>1 DEF LinkInv, aws
<1>2. ASSUME NEW i \in Items, ItemEffect(i) PROVE LinkInv'
  <2>1. pc[i] \in LockedPcs \cup RestartPcs
    BY <1>2 DEF ItemEffect, LockedPcs, RestartPcs
  <2> QED
    BY <1>2, <2>1, ItemArguments, LinkKept DEF ItemEffect, LockedPcs
<1>3. ASSUME NEW v \in Vms, VmEffect(v) PROVE LinkInv'
  <2>1. StaticNames # {}
    BY <1>3, NameForAssumption
  <2> QED
    BY <1>3, <2>1, LinkKept DEF VmEffect
<1> QED
  BY <1>1, <1>2, <1>3, AwsStep

\* A listed address that is lost does not come back.
LEMMA OldOnlyLost ==
  ASSUME FreshPool, AddressInv, [Next]_vars, NEW i \in Items
  PROVE  /\ \A v \in Vms : pubIp'[v] = OldIp(i) => pubIp[v] = OldIp(i)
         /\ \A n \in StaticNames : statics'[n] = OldIp(i) => statics[n] = OldIp(i)
<1> USE IpsAssumption DEF AddressInv, TypeInv, TypeOK, AwsTypeOK
<1>0. OldIp(i) # NoIp /\ OldIp(i) \notin Free
  BY ItemsType, PoolAssumption DEF FreshPool, Free
<1>1. CASE UNCHANGED aws
  BY <1>1 DEF aws
<1>2. ASSUME NEW j \in Items, ItemEffect(j)
      PROVE  /\ \A v \in Vms : pubIp'[v] = OldIp(i) => pubIp[v] = OldIp(i)
             /\ \A n \in StaticNames : statics'[n] = OldIp(i) => statics[n] = OldIp(i)
  <2> DEFINE m == staticIps[OldIp(j)]
             k == NameFor[VmOf(j)]
  <2>1. CASE pc[j] = "detach" /\ CanDetach(m) /\ Detach(m)
    BY <1>0, <2>1 DEF Detach
  <2>2. CASE pc[j] = "release" /\ Release(m)
    BY <1>0, <2>2 DEF Release
  <2>3. CASE Allocate(k)
    BY <1>0, <2>3 DEF Allocate
  <2>4. CASE pc[j] = "attach" /\ CanAttach(k, VmOf(j)) /\ Attach(k, VmOf(j))
    <3>1. statics[k] # OldIp(i)
      BY <1>0, <2>4 DEF FreshPool, ReachedInv
    <3> QED
      BY <2>4, <3>1 DEF Attach
  <2>5. CASE Stop(VmOf(j)) \/ Start(VmOf(j))
    BY <2>5 DEF Stop, Start
  <2> QED
    BY <1>2, <2>1, <2>2, <2>3, <2>4, <2>5 DEF ItemEffect
<1>3. ASSUME NEW v \in Vms, VmEffect(v)
      PROVE  /\ \A u \in Vms : pubIp'[u] = OldIp(i) => pubIp[u] = OldIp(i)
             /\ \A n \in StaticNames : statics'[n] = OldIp(i) => statics[n] = OldIp(i)
  BY <1>0, <1>3 DEF VmEffect, Stopped, Running
<1> QED
  BY <1>1, <1>2, <1>3, AwsStep

LEMMA DeadForever ==
  ASSUME FreshPool, AddressInv, [Next]_vars, NEW i \in Items, Dead(i)
  PROVE  Dead(i)'
BY OldOnlyLost DEF Dead, Owned, OldIp

\* The cache entry of a listed address is only lost with the static IP itself.
LEMMA CacheStep ==
  ASSUME TypeInv, [Next]_vars
  PROVE  \/ UNCHANGED staticIps
         \/ \E j \in Items : /\ pc[j] = "release" /\ Forget(j)
                             /\ Release(staticIps[OldIp(j)]) /\ staticIps[OldIp(j)] \in StaticNames
         \/ \E j \in Items : LET n == NameFor[VmOf(j)] IN
              /\ pc[j] = "getStatic" /\ statics[n] # NoIp /\ UNCHANGED aws
              /\ n \in StaticNames /\ staticIps' = [staticIps EXCEPT ![statics[n]] = n]
<1>1. CASE \A j \in Items : ~ StaticStep(j)
  BY <1>1, StaticFrame
<1>2. ASSUME NEW j \in Items, StaticStep(j) PROVE
         \/ UNCHANGED staticIps
         \/ pc[j] = "release" /\ Forget(j) /\ Release(staticIps[OldIp(j)])
         \/ LET n == NameFor[VmOf(j)] IN
              /\ pc[j] = "getStatic" /\ statics[n] # NoIp /\ UNCHANGED aws
              /\ staticIps' = [staticIps EXCEPT ![statics[n]] = n]
  BY <1>2 DEF StaticStep, DetachStaticIp, ReleaseStaticIp, AllocateStaticIp, AttachStaticIp,
     GetStaticIp, Call, GiveUp
<1> QED
  BY <1>1, <1>2, StaticStepShape

LEMMA OwnerInvNext ==
  ASSUME FreshPool, AddressInv, [Next]_vars
  PROVE  OwnerInv'
<1> USE IpsAssumption DEF AddressInv, TypeInv, TypeOK, AwsTypeOK
<1> SUFFICES ASSUME NEW i \in Items
             PROVE  /\ \A v \in Vms : pubIp'[v] = OldIp(i) => v = VmOf(i)
                    /\ \A n \in StaticNames : statics'[n] = OldIp(i) =>
                         VmOf(i) \in isStatic /\ staticIps'[OldIp(i)] = n
                    /\ VmOf(i) \in isStatic /\ pubIp'[VmOf(i)] = OldIp(i) =>
                         \E n \in StaticNames : statics'[n] = OldIp(i)
  BY SnapshotKept DEF OwnerInv, VmOf, OldIp
<1>0. OldIp(i) \in Ips /\ OldIp(i) # NoIp
  BY ItemsType
<1>1. ASSUME NEW v \in Vms, pubIp'[v] = OldIp(i) PROVE v = VmOf(i)
  BY <1>1, OldOnlyLost DEF OwnerInv
<1>2. ASSUME NEW n \in StaticNames, statics'[n] = OldIp(i)
      PROVE  VmOf(i) \in isStatic /\ staticIps'[OldIp(i)] = n
  <2>1. statics[n] = OldIp(i)
    BY <1>2, OldOnlyLost
  <2>2. VmOf(i) \in isStatic /\ staticIps[OldIp(i)] = n
    BY <2>1 DEF OwnerInv
  <2>3. ASSUME NEW j \in Items, pc[j] = "release", Forget(j), Release(staticIps[OldIp(j)])
        PROVE  staticIps'[OldIp(i)] = n
    BY <1>0, <1>2, <2>2, <2>3 DEF Forget, Release
  <2>4. ASSUME NEW j \in Items, pc[j] = "getStatic", statics[NameFor[VmOf(j)]] # NoIp,
               staticIps' = [staticIps EXCEPT ![statics[NameFor[VmOf(j)]]] = NameFor[VmOf(j)]]
        PROVE  staticIps'[OldIp(i)] = n
    BY <1>0, <2>2, <2>4 DEF ReachedInv, FreshPool
  <2> QED
    BY <2>2, <2>3, <2>4, CacheStep
<1>3. ASSUME VmOf(i) \in isStatic, pubIp'[VmOf(i)] = OldIp(i)
      PROVE  \E n \in StaticNames : statics'[n] = OldIp(i)
  <2>1. VmOf(i) \in Vms /\ pubIp[VmOf(i)] = OldIp(i)
    BY <1>3, OldOnlyLost
  <2>2. PICK n \in StaticNames : statics[n] = OldIp(i)
    BY <1>3, <2>1 DEF OwnerInv
  <2>3. att[n] = VmOf(i)
    BY <1>0, <2>1, <2>2 DEF LinkInv
  <2>4. ASSUME NEW j \in Items, ItemEffect(j) PROVE statics'[n] = OldIp(i)
    <3>1. pc[j] \in LockedPcs \cup RestartPcs
      BY <2>4 DEF ItemEffect, LockedPcs, RestartPcs
    <3> QED
      BY <1>0, <2>1, <2>2, <2>3, <2>4, <3>1, ItemArguments, NoVmAssumption
         DEF ItemEffect, Detach, CanRelease, Release, CanAllocate, Allocate, Attach, Stop, Start
  <2>5. ASSUME NEW v \in Vms, VmEffect(v) PROVE statics'[n] = OldIp(i)
    BY <2>2, <2>5 DEF VmEffect, Stopped, Running
  <2> QED
    BY <2>2, <2>4, <2>5, AwsStep DEF aws
<1> QED
  BY <1>1, <1>2, <1>3

-----------------------------------------------------------------------------
(* How an item gets to each step.                                          *)

TrackedPcs == {"detach", "release", "allocate", "attach", "getStatic"} \cup RestartPcs \cup DeadPcs

Reaches(i) ==
  LET v == VmOf(i)
      n == NameFor[v]
      m == staticIps[OldIp(i)]
  IN \/ pc[i] = "begin" /\ pc'[i] = "orphan" /\ v = NoVm
     \/ pc[i] = "lock" /\ pc'[i] = "detach" /\ v \in isStatic
     \/ pc[i] = "lock" /\ pc'[i] \in {"allocate", "stop"} /\ v \notin isStatic
     \/ pc[i] = "detach" /\ pc'[i] = "release" /\ CanDetach(m) /\ Detach(m)
     \/ pc[i] = "release" /\ pc'[i] = "getReleased" /\ CanRelease(m) /\ Release(m)
     \/ pc[i] = "allocate" /\ pc'[i] = "attach" /\ Allocate(n)
     \/ pc[i] = "attach" /\ pc'[i] = "getStatic" /\ CanAttach(n, v) /\ Attach(n, v)
     \/ pc[i] = "stop" /\ pc'[i] = "awaitStopped"
     \/ pc[i] = "awaitStopped" /\ pc'[i] = "startVm" /\ power[v] = "stopped" /\ UNCHANGED aws
     \/ pc[i] = "startVm" /\ pc'[i] = "awaitRunning"
     \/ pc[i] = "awaitRunning" /\ pc'[i] = "getRestarted" /\ power[v] = "running" /\ UNCHANGED aws
     \/ pc[i] \in DeadPcs /\ pc'[i] \in RotatedPcs

LEMMA PcStep ==
  ASSUME TypeInv, [Next]_vars, NEW i \in Items
  PROVE  pc'[i] = pc[i] \/ pc'[i] \notin TrackedPcs \/ Reaches(i)
<1> USE DEF TypeInv, TypeOK, TrackedPcs, RestartPcs, DeadPcs, RotatedPcs
<1>1. CASE \E j \in Items : processBannedItem(j)
  <2>1. PICK j \in Items : processBannedItem(j)
    BY <1>1
  <2>2. CASE Begin(j)
    BY <2>2 DEF Begin, Goto, Reaches
  <2>3. CASE Verify(j) \/ ChangeIP(j)
    BY <2>3 DEF Verify, ChangeIP, Goto, Reaches
  <2>4. CASE DropOrphan(j) \/ DropOld(j) \/ CreateDnsRecord(j)
    BY <2>4 DEF DropOrphan, DropOld, DropDnsRecord, CreateDnsRecord, Goto, Reaches
  <2>5. CASE Lock(j)
    BY <2>5 DEF Lock, LockToRelease, LockToAllocate, LockToRestart, Goto, Reaches
  <2>6. CASE StopInstance(j)
    BY <2>6 DEF StopInstance, Call, Goto, GiveUp, Leave, Unlock, Reaches
  <2>7. CASE StartInstance(j)
    BY <2>7 DEF StartInstance, Call, Goto, GiveUp, Leave, Unlock, Reaches
  <2>8. CASE AwaitStopped(j)
    BY <2>8 DEF AwaitStopped, AwaitState, Goto, GiveUp, Leave, Unlock, Reaches
  <2>9. CASE AwaitRunning(j)
    BY <2>9 DEF AwaitRunning, AwaitState, Goto, GiveUp, Leave, Unlock, Reaches
  <2>10. CASE GetInstance(j)
    BY <2>10 DEF GetInstance, Call, Receive, Goto, GiveUp, Leave, Unlock, Reaches
  <2>11. CASE DetachStaticIp(j)
    BY <2>11 DEF DetachStaticIp, Call, Goto, GiveUp, Leave, Unlock, Reaches
  <2>12. CASE ReleaseStaticIp(j)
    BY <2>12 DEF ReleaseStaticIp, Call, Goto, GiveUp, Leave, Unlock, Reaches
  <2>13. CASE AllocateStaticIp(j)
    BY <2>13 DEF AllocateStaticIp, Call, Goto, GiveUp, Leave, Unlock, Reaches
  <2>14. CASE AttachStaticIp(j)
    BY <2>14 DEF AttachStaticIp, Call, Goto, GiveUp, Leave, Unlock, Reaches
  <2>15. CASE GetStaticIp(j)
    BY <2>15 DEF GetStaticIp, Call, Receive, Goto, GiveUp, Leave, Unlock, Reaches
  <2> QED
    BY <2>1, <2>2, <2>3, <2>4, <2>5, <2>6, <2>7, <2>8, <2>9, <2>10, <2>11, <2>12, <2>13, <2>14,
       <2>15 DEF processBannedItem, processInstance
<1>2. CASE Query \/ Return \/ Kill \/ Terminated \/ UNCHANGED vars
  BY <1>2 DEF Query, Return, Kill, Terminated, vars
<1>3. CASE PingBatch
  BY <1>3 DEF PingBatch
<1>4. CASE \E v \in Vms : Transition(v)
  BY <1>4 DEF Transition
<1> QED
  BY <1>1, <1>2, <1>3, <1>4 DEF Next

\* The ways an address dies.
LEMMA ReleaseKills ==
  ASSUME FreshPool, AddressInv, [Next]_vars, NEW i \in Items,
         pc[i] = "release", CanRelease(staticIps[OldIp(i)]), Release(staticIps[OldIp(i)])
  PROVE  Dead(i)'
<1> USE DEF AddressInv, TypeInv, TypeOK, AwsTypeOK
<1> DEFINE m == staticIps[OldIp(i)]
<1>1. m \in StaticNames /\ att[m] = NoVm
  BY ItemArguments DEF LockedPcs, CanRelease
<1>2. OldIp(i) \in Ips /\ OldIp(i) # NoIp
  BY ItemsType, IpsAssumption
<1>3. ASSUME NEW n \in StaticNames, statics'[n] = OldIp(i) PROVE FALSE
  <2>1. n = m
    BY <1>3, OldOnlyLost DEF OwnerInv
  <2> QED
    BY <1>1, <1>2, <1>3, <2>1 DEF Release
<1>4. ASSUME NEW v \in Vms, pubIp'[v] = OldIp(i) PROVE FALSE
  <2>1. v = VmOf(i) /\ pubIp[v] = OldIp(i) /\ v \in isStatic
    BY <1>4, OldOnlyLost DEF OwnerInv, ReachedInv
  <2>2. statics[m] = OldIp(i)
    BY <2>1 DEF OwnerInv
  <2> QED
    BY <1>1, <1>2, <2>1, <2>2, NoVmAssumption DEF LinkInv
<1> QED
  BY <1>3, <1>4 DEF Dead, Owned, OldIp

\* Without a static IP of its own when the job started, only its instance can have it.
LEMMA OnlyTheInstance ==
  ASSUME AddressInv, NEW i \in Items, VmOf(i) \notin isStatic, pubIp[VmOf(i)] # OldIp(i)
  PROVE  Dead(i)
BY DEF AddressInv, OwnerInv, Dead, Owned

LEMMA AttachKills ==
  ASSUME FreshPool, AddressInv, [Next]_vars, NEW i \in Items, VmOf(i) \in Vms,
         pc[i] = "attach", Attach(NameFor[VmOf(i)], VmOf(i))
  PROVE  Dead(i)'
<1> USE DEF AddressInv, TypeInv, TypeOK, AwsTypeOK
<1>1. VmOf(i) \notin isStatic /\ statics[NameFor[VmOf(i)]] # OldIp(i)
  BY ItemsType, IpsAssumption DEF ReachedInv, FreshPool
<1>2. pubIp'[VmOf(i)] # OldIp(i)
  BY <1>1 DEF Attach
<1> QED
  BY <1>1, <1>2, OldOnlyLost DEF OwnerInv, Dead, Owned, OldIp

\* An instance that keeps the listed address has not come back from its restart.
LEMMA NotYetBack ==
  ASSUME FreshPool, AddressInv, [Next]_vars, NEW i \in Items, VmOf(i) \in Vms,
         VmOf(i) \notin isStatic, pubIp'[VmOf(i)] = OldIp(i),
         power[VmOf(i)] \in {"stopped", "pending"}
  PROVE  power'[VmOf(i)] \in {"stopped", "pending"}
<1> USE DEF AddressInv, TypeInv, TypeOK, AwsTypeOK
<1>1. pubIp[VmOf(i)] = OldIp(i) /\ OldIp(i) # NoIp /\ OldIp(i) \notin Free
  BY ItemsType, IpsAssumption, OldOnlyLost DEF FreshPool, Free
<1>2. ~ HasStatic(VmOf(i))
  BY <1>1 DEF HasStatic, Live, LinkInv, OwnerInv
<1>3. ASSUME NEW v \in Vms, VmEffect(v) PROVE power'[VmOf(i)] \in {"stopped", "pending"}
  BY <1>1, <1>2, <1>3 DEF VmEffect, Stopped, Running
<1>4. ASSUME NEW j \in Items, ItemEffect(j) PROVE power'[VmOf(i)] \in {"stopped", "pending"}
  BY <1>4 DEF ItemEffect, Detach, Release, Allocate, Attach, Stop, Start
<1> QED
  BY <1>3, <1>4, AwsStep DEF aws

\* A name the job allocates for an instance stays with an address of the pool.
LEMMA PoolKept ==
  ASSUME AddressInv, [Next]_vars, NEW n \in StaticNames, statics[n] \in Pool \cup {NoIp}
  PROVE  statics'[n] \in Pool \cup {NoIp}
<1> USE DEF AddressInv, TypeInv, TypeOK, AwsTypeOK
<1>1. ASSUME NEW j \in Items, ItemEffect(j) PROVE statics'[n] \in Pool \cup {NoIp}
  BY <1>1 DEF ItemEffect, Detach, Release, Allocate, Attach, Stop, Start, Free
<1>2. ASSUME NEW v \in Vms, VmEffect(v) PROVE UNCHANGED statics
  BY <1>2 DEF VmEffect, Stopped, Running
<1> QED
  BY <1>1, <1>2, AwsStep DEF aws

LEMMA ReachedInvNext ==
  ASSUME FreshPool, AddressInv, [Next]_vars
  PROVE  ReachedInv'
<1> USE DEF AddressInv, TypeInv, TypeOK
<1> SUFFICES ASSUME NEW i \in Items
             PROVE  LET v == VmOf(i) IN
                    /\ pc'[i] \in {"detach", "release", "getReleased"} => v \in isStatic
                    /\ pc'[i] \in {"allocate", "attach", "getStatic"} \cup RestartPcs => v \notin isStatic
                    /\ pc'[i] \in {"attach", "getStatic"} => statics'[NameFor[v]] \in Pool \cup {NoIp}
                    /\ pc'[i] \in {"startVm", "awaitRunning"} /\ pubIp'[v] = OldIp(i) =>
                         power'[v] \in {"stopped", "pending"}
                    /\ pc'[i] \in DeadPcs => Dead(i)'
  BY SnapshotKept DEF ReachedInv, VmOf, OldIp
<1> USE DEF DeadPcs, RestartPcs, RotatedPcs
<1> DEFINE v == VmOf(i)
           n == NameFor[v]
<1>0. pc[i] \in {"lock"} \cup LockedPcs \cup RestartPcs => v \in Vms /\ n \in StaticNames
  BY NameForAssumption DEF Placed, ActivePcs
<1>1. /\ pc'[i] \in {"detach", "release", "getReleased"} => v \in isStatic
      /\ pc'[i] \in {"allocate", "attach", "getStatic"} \cup RestartPcs => v \notin isStatic
  BY PcStep DEF Reaches, TrackedPcs, ReachedInv
<1>2. ASSUME pc'[i] \in {"attach", "getStatic"}
      PROVE  statics'[n] \in Pool \cup {NoIp}
  <2>1. pc[i] \in {"allocate", "attach", "getStatic"} /\ n \in StaticNames
    BY <1>0, <1>2, PcStep DEF Reaches, TrackedPcs, LockedPcs
  <2>2. CASE pc[i] \in {"attach", "getStatic"}
    BY <2>1, <2>2, PoolKept DEF ReachedInv
  <2>3. CASE pc[i] = "allocate"
    <3>1. Allocate(n)
      BY <1>2, <2>3, PcStep DEF Reaches, TrackedPcs
    <3> QED
      BY <2>1, <3>1 DEF Allocate, Free, AwsTypeOK
  <2> QED
    BY <2>1, <2>2, <2>3
<1>3. ASSUME pc'[i] \in {"startVm", "awaitRunning"}, pubIp'[v] = OldIp(i)
      PROVE  power'[v] \in {"stopped", "pending"}
  <2>1. \/ pc[i] \in {"startVm", "awaitRunning"}
        \/ pc[i] = "awaitStopped" /\ power[v] = "stopped"
    BY <1>3, PcStep DEF Reaches, TrackedPcs
  <2>2. v \in Vms /\ v \notin isStatic
    BY <1>0, <2>1 DEF ReachedInv
  <2>3. pubIp[v] = OldIp(i)
    BY <1>3, <2>2, OldOnlyLost
  <2>4. power[v] \in {"stopped", "pending"}
    BY <2>1, <2>3 DEF ReachedInv
  <2> QED
    BY <1>3, <2>2, <2>4, NotYetBack
<1>4. ASSUME pc'[i] \in DeadPcs PROVE Dead(i)'
  <2>1. CASE pc[i] \in DeadPcs
    BY <2>1, DeadForever DEF ReachedInv
  <2>2. CASE pc[i] = "begin" /\ v = NoVm
    BY <2>2, OnlyTheInstance, NoVmAssumption, DeadForever DEF OwnerInv, Dead, Owned
  <2>3. CASE pc[i] = "release" /\ CanRelease(staticIps[OldIp(i)]) /\ Release(staticIps[OldIp(i)])
    BY <2>3, ReleaseKills
  <2>4. CASE pc[i] = "attach" /\ Attach(n, v)
    BY <1>0, <2>4, AttachKills DEF LockedPcs
  <2>5. CASE pc[i] = "awaitRunning" /\ power[v] = "running"
    BY <2>5, OnlyTheInstance, DeadForever DEF ReachedInv
  <2> QED
    BY <1>4, <2>1, <2>2, <2>3, <2>4, <2>5, PcStep DEF Reaches, TrackedPcs
<1> QED
  BY <1>1, <1>2, <1>3, <1>4

-----------------------------------------------------------------------------
LEMMA DropsOldOnly ==
  ASSUME AddressInv, [Next]_vars, NEW r \in dns, r \notin dns'
  PROVE  \E i \in Items : pc[i] \in {"orphan", "drop"} /\ r = Old(i) /\ UNCHANGED aws
BY DEF Next, vars, Query, PingBatch, Return, Kill, Terminated, Transition, processBannedItem,
   processInstance, Begin, Lock, DropOrphan, DropOld, DropDnsRecord, Verify, ChangeIP,
   CreateDnsRecord, DetachStaticIp, ReleaseStaticIp, AllocateStaticIp, AttachStaticIp,
   GetStaticIp, StopInstance, StartInstance, AwaitStopped, AwaitRunning, AwaitState,
   GetInstance, inInstance, caches, Call

\* Whatever calls fail, and however often an instance is listed, a DNS record is only
\* deleted when nobody has its address any more (dropDnsRecord in processBannedItem),
\* provided AWS hands out no listed address and none belonged to an idle static IP.
THEOREM DropsAreDead ==
  ASSUME FreshPool, NoIdleListed
  PROVE  Spec => DropsOnlyDeadAddresses
<1>1. Init => AddressInv
  BY AddressInit
<1>2. AddressInv /\ [Next]_vars => AddressInv'
  BY TypeInvNext, LinkInvNext, OwnerInvNext, ReachedInvNext, SnapshotKept DEF AddressInv
<1>3. AddressInv /\ [Next]_vars => [\A r \in dns \ dns' : ~ Owned(r[2])]_vars
  <2> SUFFICES ASSUME AddressInv, [Next]_vars, NEW r \in dns, r \notin dns' PROVE ~ Owned(r[2])
    OBVIOUS
  <2>1. PICK i \in Items : pc[i] \in {"orphan", "drop"} /\ r = Old(i)
    BY DropsOldOnly
  <2>2. Dead(i)
    BY <2>1 DEF AddressInv, ReachedInv, DeadPcs, RotatedPcs
  <2> QED
    BY <2>1, <2>2 DEF Dead, Old
<1> QED
  BY <1>1, <1>2, <1>3, PTL DEF Spec, DropsOnlyDeadAddresses

-----------------------------------------------------------------------------
(* What the job tells the panel and DNS.                                   *)

\* No address is listed twice.
DistinctAddresses == \A i, j \in Items : OldIp(i) = OldIp(j) => i = j

\* Every instance runs and has an address when the job starts.
AllUp == \A w \in Worlds, v \in Vms : w.power[v] = "running" /\ w.pubIp[v] # NoIp

DistinctVms == \A i, j \in Items : VmOf(i) \in Vms /\ VmOf(i) = VmOf(j) => i = j

EarlyPcs == {"queued", "begin", "lock", "detach", "release"}
LatePcs == RotatedPcs \cup {"done"}

\* The static IP the cache names for an item is the one to release.
Mine(i) ==
  pc[i] \in EarlyPcs /\ staticIps[OldIp(i)] # NoName => statics[staticIps[OldIp(i)]] = OldIp(i)

\* The address of an instance no longer moves: it runs, or the address is static.
Settled(v) == power[v] = "running" \/ HasStatic(v)

Served(i) ==
  LET v == VmOf(i)
      n == NameFor[v]
  IN /\ pc[i] \in {"release", "getReleased"} /\ pubIp[v] # NoIp => power[v] = "running"
     /\ pc[i] = "getStatic" => att[n] = v /\ statics[n] # NoIp
     /\ pc[i] = "getRestarted" => power[v] = "running"
     /\ new[i] # NoIp => pc[i] \in LatePcs /\ v \in Vms /\ pubIp[v] = new[i] /\ Settled(v)
     /\ panel[i] # OldIp(i) => panel[i] = new[i] /\ new[i] # NoIp

ServedInv == AddressInv /\ DistinctVms /\ \A i \in Items : Mine(i) /\ Served(i)

LEMMA ServedInit == ASSUME NoIdleListed, DistinctAddresses, Init PROVE ServedInv
<1>1. AddressInv
  BY AddressInit
<1>2. ASSUME NEW i \in Items, VmOf(i) \in Vms PROVE pubIp[VmOf(i)] = OldIp(i)
  <2>1. OldIp(i) \in Ips
    BY ItemsType
  <2>2. VmOf(i) = IF \E v \in Vms : pubIp[v] = OldIp(i)
                    THEN CHOOSE v \in Vms : pubIp[v] = OldIp(i) ELSE NoVm
    BY <2>1 DEF Init, SnapshotInstances, VmOf
  <2> QED
    BY <1>2, <2>2, NoVmAssumption
<1>3. DistinctVms
  BY <1>2 DEF DistinctVms, DistinctAddresses
<1>4. ASSUME NEW i \in Items PROVE Mine(i)
  <2>1. OldIp(i) \in Ips
    BY ItemsType
  <2>2. staticIps[OldIp(i)] = IF \E n \in StaticNames : statics[n] = OldIp(i)
                                THEN CHOOSE n \in StaticNames : statics[n] = OldIp(i) ELSE NoName
    BY <2>1 DEF Init, SnapshotStaticIps
  <2> QED
    BY <2>2 DEF Mine
<1>5. ASSUME NEW i \in Items PROVE Served(i)
  BY DEF Init, Served, LatePcs
<1> QED
  BY <1>1, <1>3, <1>4, <1>5 DEF ServedInv

\* How the item's own records move.
LEMMA ItemMoves ==
  ASSUME TypeInv, [Next]_vars, NEW i \in Items
  PROVE  LET v == VmOf(i)
             n == NameFor[v]
         IN /\ pc'[i] \in EarlyPcs => pc[i] \in EarlyPcs
            /\ pc[i] = "release" /\ pc'[i] \in EarlyPcs => pc'[i] = pc[i]
            /\ pc[i] \in LatePcs => pc'[i] \in LatePcs
            /\ \/ new'[i] = new[i]
               \/ /\ pc[i] \in {"getReleased", "getRestarted"} /\ pc'[i] = "verify"
                  /\ new'[i] = pubIp[v] /\ UNCHANGED aws
               \/ /\ pc[i] = "getStatic" /\ pc'[i] = "verify"
                  /\ new'[i] = statics[n] /\ UNCHANGED aws
            /\ \/ panel'[i] = panel[i]
               \/ panel'[i] = new[i] /\ pc[i] = "changeIp" /\ run = "loop" /\ UNCHANGED new
<1> USE DEF TypeInv, TypeOK, EarlyPcs, LatePcs, RotatedPcs, EndedPcs
<1>1. CASE \E j \in Items : processBannedItem(j)
  <2>1. PICK j \in Items : processBannedItem(j)
    BY <1>1
  <2>2. CASE Begin(j) \/ Lock(j)
    BY <2>2 DEF Begin, Lock, LockToRelease, LockToAllocate, LockToRestart, Goto
  <2>3. CASE Verify(j)
    BY <2>3 DEF Verify, Goto
  <2>4. CASE ChangeIP(j)
    BY <2>1, <2>4 DEF ChangeIP, Goto, processBannedItem
  <2>5. CASE DropOrphan(j) \/ DropOld(j) \/ CreateDnsRecord(j)
    BY <2>5 DEF DropOrphan, DropOld, DropDnsRecord, CreateDnsRecord, Goto
  <2>6. CASE StopInstance(j) \/ StartInstance(j)
    BY <2>6 DEF StopInstance, StartInstance, Call, Goto, GiveUp, Leave, Unlock, inInstance
  <2>7. CASE AwaitStopped(j) \/ AwaitRunning(j)
    BY <2>7 DEF AwaitStopped, AwaitRunning, AwaitState, Goto, GiveUp, Leave, Unlock, inInstance
  <2>8. CASE GetInstance(j)
    BY <2>8 DEF GetInstance, Call, Receive, Goto, GiveUp, Leave, Unlock, inInstance
  <2>9. CASE DetachStaticIp(j) \/ ReleaseStaticIp(j)
    BY <2>9 DEF DetachStaticIp, ReleaseStaticIp, Call, Goto, GiveUp, Leave, Unlock, inInstance
  <2>10. CASE AllocateStaticIp(j) \/ AttachStaticIp(j)
    BY <2>10 DEF AllocateStaticIp, AttachStaticIp, Call, Goto, GiveUp, Leave, Unlock, inInstance
  <2>11. CASE GetStaticIp(j)
    BY <2>11 DEF GetStaticIp, Call, Receive, Goto, GiveUp, Leave, Unlock, inInstance
  <2> QED
    BY <2>1, <2>2, <2>3, <2>4, <2>5, <2>6, <2>7, <2>8, <2>9, <2>10, <2>11
       DEF processBannedItem, processInstance
<1>2. CASE Query \/ Return \/ Kill \/ Terminated \/ UNCHANGED vars
  BY <1>2 DEF Query, Return, Kill, Terminated, vars
<1>3. CASE PingBatch
  BY <1>3 DEF PingBatch, Placed
<1>4. CASE \E v \in Vms : Transition(v)
  BY <1>4 DEF Transition
<1> QED
  BY <1>1, <1>2, <1>3, <1>4 DEF Next

\* The static IP an item detaches or releases is the one with its own address.
LEMMA OwnStaticIp ==
  ASSUME ServedInv, NEW i \in Items, pc[i] \in {"detach", "release"}
  PROVE  LET m == staticIps[OldIp(i)]
         IN m \in StaticNames /\ statics[m] = OldIp(i) /\ (att[m] # NoVm => att[m] = VmOf(i))
<1> DEFINE m == staticIps[OldIp(i)]
<1>1. m \in StaticNames /\ statics[m] = OldIp(i) /\ OldIp(i) # NoIp
  BY ItemArguments, ItemsType, IpsAssumption, NameForAssumption
     DEF ServedInv, AddressInv, Mine, EarlyPcs, LockedPcs
<1>2. ASSUME att[m] # NoVm PROVE att[m] = VmOf(i)
  <2>1. att[m] \in Vms
    BY <1>1, <1>2 DEF ServedInv, AddressInv, TypeInv, TypeOK, AwsTypeOK
  <2> QED
    BY <1>1, <2>1 DEF ServedInv, AddressInv, LinkInv, OwnerInv
<1> QED
  BY <1>1, <1>2

\* What another item does to AWS leaves an instance and its static IP alone.
LEMMA OthersApart ==
  ASSUME ServedInv, DistinctAddresses, NEW i \in Items, NEW j \in Items, i # j, ItemEffect(j)
  PROVE  /\ \A v \in Vms : v = VmOf(i) =>
              /\ pubIp'[v] = pubIp[v] /\ power'[v] = power[v]
              /\ \A k \in StaticNames :
                   att[k] = v /\ statics[k] # NoIp => att'[k] = v /\ statics'[k] = statics[k]
         /\ \A k \in StaticNames : statics[k] = OldIp(i) => statics'[k] = OldIp(i)
<1> USE DEF ServedInv, AddressInv, TypeInv, TypeOK, AwsTypeOK
<1> DEFINE u == VmOf(j)
           n == NameFor[u]
           m == staticIps[OldIp(j)]
<1>1. u \in Vms /\ n \in StaticNames
  BY ItemArguments DEF ItemEffect, LockedPcs, RestartPcs
<1>2. u # VmOf(i) /\ OldIp(i) # OldIp(j) /\ OldIp(i) # NoIp /\ NoVm \notin Vms
  BY <1>1, ItemsType, IpsAssumption, NoVmAssumption DEF DistinctVms, DistinctAddresses
<1>3. CASE pc[j] = "detach" /\ CanDetach(m) /\ Detach(m)
  <2>1. m \in StaticNames /\ att[m] = u
    BY <1>3, OwnStaticIp DEF CanDetach
  <2> QED
    BY <1>1, <1>2, <1>3, <2>1 DEF Detach
<1>4. CASE pc[j] = "release" /\ CanRelease(m) /\ Release(m)
  <2>1. m \in StaticNames /\ att[m] = NoVm /\ statics[m] = OldIp(j)
    BY <1>4, OwnStaticIp DEF CanRelease
  <2> QED
    BY <1>1, <1>2, <1>4, <2>1 DEF Release
<1>5. CASE CanAllocate(n) /\ Allocate(n)
  BY <1>1, <1>2, <1>5 DEF CanAllocate, Allocate
<1>6. CASE CanAttach(n, u) /\ Attach(n, u)
  BY <1>1, <1>2, <1>6 DEF CanAttach, Attach
<1>7. CASE Stop(u) \/ Start(u)
  BY <1>1, <1>2, <1>7 DEF Stop, Start
<1> QED
  BY <1>3, <1>4, <1>5, <1>6, <1>7 DEF ItemEffect

\* While an item makes no call with an effect, a settled instance keeps its address.
LEMMA KeptMeanwhile ==
  ASSUME ServedInv, DistinctAddresses, [Next]_vars,
         NEW i \in Items, VmOf(i) \in Vms, ~ ItemEffect(i)
  PROVE  LET v == VmOf(i)
         IN /\ (pubIp[v] # NoIp => power[v] = "running") =>
                 (pubIp'[v] # NoIp => power'[v] = "running")
            /\ power[v] = "running" => power'[v] = "running"
            /\ \A k \in StaticNames :
                 att[k] = v /\ statics[k] # NoIp => att'[k] = v /\ statics'[k] # NoIp
            /\ power[v] = "running" \/ HasStatic(v) => pubIp'[v] = pubIp[v]
<1> USE DEF ServedInv, AddressInv, TypeInv, TypeOK, AwsTypeOK
<1>1. CASE UNCHANGED aws
  BY <1>1 DEF aws
<1>2. ASSUME NEW j \in Items, ItemEffect(j), j # i
      PROVE  LET v == VmOf(i)
             IN /\ pubIp'[v] = pubIp[v] /\ power'[v] = power[v]
                /\ \A k \in StaticNames :
                     att[k] = v /\ statics[k] # NoIp => att'[k] = v /\ statics'[k] # NoIp
  BY <1>2, OthersApart
<1>3. ASSUME NEW u \in Vms, VmEffect(u)
      PROVE  LET v == VmOf(i)
             IN /\ (pubIp[v] # NoIp => power[v] = "running") =>
                     (pubIp'[v] # NoIp => power'[v] = "running")
                /\ power[v] = "running" => power'[v] = "running"
                /\ UNCHANGED <<att, statics>>
                /\ power[v] = "running" \/ HasStatic(v) => pubIp'[v] = pubIp[v]
  BY <1>3 DEF VmEffect, Stopped, Running
<1> QED
  BY <1>1, <1>2, <1>3, AwsStep

LEMMA MineNext ==
  ASSUME FreshPool, DistinctAddresses, ServedInv, [Next]_vars, NEW i \in Items
  PROVE  Mine(i)'
<1> USE IpsAssumption DEF ServedInv, AddressInv, TypeInv, TypeOK, AwsTypeOK
<1> SUFFICES ASSUME pc'[i] \in EarlyPcs, staticIps'[OldIp(i)] # NoName
             PROVE  statics'[staticIps'[OldIp(i)]] = OldIp(i)
  BY DEF Mine, OldIp
<1>0. pc[i] \in EarlyPcs /\ OldIp(i) \in Ips /\ OldIp(i) # NoIp
  BY ItemMoves, ItemsType
<1>1. staticIps'[OldIp(i)] = staticIps[OldIp(i)]
  <2>1. ASSUME NEW j \in Items, pc[j] = "release", Forget(j)
        PROVE  staticIps'[OldIp(i)] = staticIps[OldIp(i)] \/ staticIps'[OldIp(i)] = NoName
    BY <1>0, <2>1 DEF Forget
  <2>2. ASSUME NEW j \in Items, pc[j] = "getStatic", statics[NameFor[VmOf(j)]] # NoIp,
               staticIps' = [staticIps EXCEPT ![statics[NameFor[VmOf(j)]]] = NameFor[VmOf(j)]]
        PROVE  staticIps'[OldIp(i)] = staticIps[OldIp(i)]
    BY <1>0, <2>2 DEF ReachedInv, FreshPool
  <2> QED
    BY <2>1, <2>2, CacheStep
<1> DEFINE m == staticIps[OldIp(i)]
<1>2. m \in StaticNames /\ statics[m] = OldIp(i)
  BY <1>0, <1>1 DEF Mine
<1>3. ASSUME ItemEffect(i) PROVE statics'[m] = OldIp(i)
  BY <1>0, <1>2, <1>3, ItemMoves DEF ItemEffect, EarlyPcs, Detach
<1>4. ASSUME NEW j \in Items, j # i, ItemEffect(j) PROVE statics'[m] = OldIp(i)
  BY <1>2, <1>4, OthersApart
<1>5. ASSUME NEW u \in Vms, VmEffect(u) PROVE statics'[m] = OldIp(i)
  BY <1>2, <1>5 DEF VmEffect, Stopped, Running
<1> QED
  BY <1>1, <1>2, <1>3, <1>4, <1>5, AwsStep DEF aws

LEMMA ServedNext ==
  ASSUME FreshPool, DistinctAddresses, ServedInv, [Next]_vars, NEW i \in Items
  PROVE  Served(i)'
<1> USE DEF ServedInv, AddressInv, TypeInv, TypeOK, AwsTypeOK
<1> DEFINE v == VmOf(i)
           n == NameFor[v]
           m == staticIps[OldIp(i)]
<1>0. VmOf(i)' = v /\ OldIp(i)' = OldIp(i)
  BY SnapshotKept DEF VmOf, OldIp
<1>1. pc[i] \in LockedPcs \cup RestartPcs => v \in Vms /\ n \in StaticNames
  BY ItemArguments
<1>2. ASSUME pc'[i] \in {"release", "getReleased"}, pubIp'[v] # NoIp
      PROVE  power'[v] = "running"
  <2>1. \/ pc[i] = "detach" /\ CanDetach(m) /\ Detach(m)
        \/ pc[i] = "release" /\ Release(m)
        \/ pc[i] = pc'[i] /\ ~ ItemEffect(i)
    BY <1>2, PcStep DEF TrackedPcs, DeadPcs, RotatedPcs, Reaches, ItemEffect
  <2>2. v \in Vms
    BY <1>1, <1>2, <2>1 DEF LockedPcs
  <2>3. CASE pc[i] = "detach" /\ CanDetach(m) /\ Detach(m)
    <3>1. m \in StaticNames /\ att[m] = v
      BY <2>3, OwnStaticIp DEF CanDetach
    <3> QED
      BY <1>2, <2>2, <2>3, <3>1 DEF Detach
  <2>4. CASE pc[i] = "release" /\ Release(m)
    BY <1>2, <2>4 DEF Release, Served
  <2>5. CASE pc[i] = pc'[i] /\ ~ ItemEffect(i)
    BY <1>2, <2>2, <2>5, KeptMeanwhile DEF Served
  <2> QED
    BY <2>1, <2>3, <2>4, <2>5
<1>3. ASSUME pc'[i] = "getStatic" PROVE att'[n] = v /\ statics'[n] # NoIp
  <2>1. \/ pc[i] = "attach" /\ CanAttach(n, v) /\ Attach(n, v)
        \/ pc[i] = "getStatic" /\ ~ ItemEffect(i)
    BY <1>3, PcStep DEF TrackedPcs, RotatedPcs, Reaches, ItemEffect
  <2>2. v \in Vms /\ n \in StaticNames
    BY <1>1, <2>1 DEF LockedPcs
  <2>3. CASE pc[i] = "attach" /\ CanAttach(n, v) /\ Attach(n, v)
    BY <2>2, <2>3 DEF CanAttach, Attach
  <2>4. CASE pc[i] = "getStatic" /\ ~ ItemEffect(i)
    BY <2>2, <2>4, KeptMeanwhile DEF Served
  <2> QED
    BY <2>1, <2>3, <2>4
<1>4. ASSUME pc'[i] = "getRestarted" PROVE power'[v] = "running"
  <2>1. \/ pc[i] = "awaitRunning" /\ power[v] = "running" /\ UNCHANGED aws
        \/ pc[i] = "getRestarted" /\ ~ ItemEffect(i)
    BY <1>4, PcStep DEF TrackedPcs, RestartPcs, DeadPcs, RotatedPcs, Reaches, ItemEffect
  <2> QED
    BY <1>1, <2>1, KeptMeanwhile DEF Served, RestartPcs, aws
<1>5. ASSUME new'[i] # NoIp
      PROVE  pc'[i] \in LatePcs /\ v \in Vms /\ pubIp'[v] = new'[i] /\ Settled(v)'
  <2>1. CASE new'[i] = new[i]
    <3>1. pc[i] \in LatePcs /\ v \in Vms /\ pubIp[v] = new[i] /\ Settled(v)
      BY <1>5, <2>1 DEF Served
    <3>2. ~ ItemEffect(i) /\ pc'[i] \in LatePcs
      BY <3>1, ItemMoves DEF ItemEffect, LatePcs, RotatedPcs
    <3>3. pubIp'[v] = pubIp[v] /\ (power[v] = "running" => power'[v] = "running")
      BY <3>1, <3>2, KeptMeanwhile DEF Settled
    <3>4. HasStatic(v) => HasStatic(v)'
      BY <1>0, <3>1, <3>2, KeptMeanwhile DEF HasStatic, Live
    <3> QED
      BY <1>0, <2>1, <3>1, <3>2, <3>3, <3>4 DEF Settled
  <2>2. CASE /\ pc[i] \in {"getReleased", "getRestarted"} /\ pc'[i] = "verify"
             /\ new'[i] = pubIp[v] /\ UNCHANGED aws
    <3>1. v \in Vms /\ power[v] = "running"
      BY <1>1, <1>5, <2>2 DEF Served, LockedPcs, RestartPcs
    <3> QED
      BY <1>0, <2>2, <3>1 DEF Settled, LatePcs, RotatedPcs, aws
  <2>3. CASE /\ pc[i] = "getStatic" /\ pc'[i] = "verify"
             /\ new'[i] = statics[n] /\ UNCHANGED aws
    <3>1. v \in Vms /\ n \in StaticNames /\ att[n] = v /\ statics[n] # NoIp
      BY <1>1, <2>3 DEF Served, LockedPcs
    <3>2. pubIp[v] = statics[n] /\ HasStatic(v)
      BY <3>1 DEF LinkInv, HasStatic, Live
    <3> QED
      BY <1>0, <2>3, <3>1, <3>2 DEF Settled, LatePcs, RotatedPcs, HasStatic, Live, aws
  <2> QED
    BY <2>1, <2>2, <2>3, ItemMoves
<1>6. ASSUME panel'[i] # OldIp(i) PROVE panel'[i] = new'[i] /\ new'[i] # NoIp
  <2>1. CASE panel'[i] = panel[i]
    <3>1. panel[i] = new[i] /\ new[i] # NoIp /\ pc[i] \in LatePcs
      BY <1>6, <2>1 DEF Served
    <3> QED
      BY <2>1, <3>1, ItemMoves DEF LatePcs, RotatedPcs
  <2>2. CASE panel'[i] = new[i] /\ pc[i] = "changeIp" /\ run = "loop" /\ UNCHANGED new
    BY <2>2, IpsAssumption DEF Placed, RotatedPcs
  <2> QED
    BY <2>1, <2>2, ItemMoves
<1> QED
  BY <1>0, <1>2, <1>3, <1>4, <1>5, <1>6 DEF Served

LEMMA ServedInvNext ==
  ASSUME FreshPool, DistinctAddresses, ServedInv, [Next]_vars
  PROVE  ServedInv'
<1>1. AddressInv'
  BY TypeInvNext, LinkInvNext, OwnerInvNext, ReachedInvNext, SnapshotKept DEF ServedInv, AddressInv
<1>2. DistinctVms'
  BY SnapshotKept DEF ServedInv, DistinctVms, VmOf, OldIp
<1> QED
  BY <1>1, <1>2, MineNext, ServedNext DEF ServedInv

\* Whatever calls fail, the address the job tells the panel or puts into DNS is the one
\* the item's instance has, now and from then on (processBannedItem after processInstance).
THEOREM AnnouncedAreServed ==
  ASSUME FreshPool, NoIdleListed, DistinctAddresses
  PROVE  Spec => []AnnouncedIsServed
<1>1. Init => ServedInv
  BY ServedInit
<1>2. ServedInv /\ [Next]_vars => ServedInv'
  BY ServedInvNext
<1>3. ServedInv => AnnouncedIsServed
  <2> SUFFICES ASSUME ServedInv, NEW i \in Items
               PROVE  /\ panel[i] # OldIp(i) => panel[i] = pubIp[VmOf(i)]
                      /\ New(i) \in dns => new[i] = pubIp[VmOf(i)]
    BY DEF AnnouncedIsServed
  <2>1. New(i) \in dns => new[i] # NoIp
    BY IpsAssumption DEF ServedInv, AddressInv, TypeInv, TypeOK, New
  <2> QED
    BY <2>1 DEF ServedInv, Served
<1> QED
  BY <1>1, <1>2, <1>3, PTL DEF Spec

-----------------------------------------------------------------------------
(* The dereference of the new address.                                     *)

\* An instance is without an address only while it is down, and nobody takes down one
\* that had a static IP when the job started.
UpInv ==
  /\ \A v \in Vms : power[v] \in {"running", "stopping"} => pubIp[v] # NoIp
  /\ \A v \in isStatic : power[v] = "running"
  /\ run # "panicked"

LEMMA UpInit == ASSUME AllUp, Init PROVE UpInv
BY WorldsAssumption DEF AllUp, Init, UpInv

LEMMA UpNext ==
  ASSUME ServedInv, UpInv, [Next]_vars
  PROVE  /\ \A v \in Vms : power'[v] \in {"running", "stopping"} => pubIp'[v] # NoIp
         /\ \A v \in isStatic : power'[v] = "running"
<1> USE IpsAssumption DEF ServedInv, AddressInv, TypeInv, TypeOK, AwsTypeOK, UpInv
<1>0. NoIp \notin Free
  BY PoolAssumption DEF Free
<1>1. CASE UNCHANGED aws
  BY <1>1 DEF aws
<1>2. ASSUME NEW i \in Items, ItemEffect(i)
      PROVE  /\ \A v \in Vms : power'[v] \in {"running", "stopping"} => pubIp'[v] # NoIp
             /\ \A v \in isStatic : power'[v] = "running"
  <2> DEFINE u == VmOf(i)
             n == NameFor[u]
             m == staticIps[OldIp(i)]
  <2>1. u \in Vms /\ n \in StaticNames
    BY <1>2, ItemArguments DEF ItemEffect, LockedPcs, RestartPcs
  <2>2. CASE pc[i] = "detach" /\ CanDetach(m) /\ Detach(m)
    <3>1. att[m] = u /\ power[u] = "running"
      BY <2>2, OwnStaticIp DEF CanDetach, ReachedInv
    <3> QED
      BY <1>0, <2>1, <2>2, <3>1 DEF Detach
  <2>3. CASE Release(m) \/ Allocate(n)
    BY <2>3 DEF Release, Allocate
  <2>4. CASE CanAttach(n, u) /\ Attach(n, u)
    BY <2>1, <2>4 DEF CanAttach, Attach
  <2>5. CASE pc[i] = "stop" /\ power[u] = "running" /\ Stop(u)
    <3>1. u \notin isStatic
      BY <2>5 DEF ReachedInv, RestartPcs
    <3> QED
      BY <2>1, <2>5, <3>1 DEF Stop
  <2>6. CASE power[u] = "stopped" /\ Start(u)
    BY <2>1, <2>6 DEF Start
  <2> QED
    BY <1>2, <2>2, <2>3, <2>4, <2>5, <2>6 DEF ItemEffect
<1>3. ASSUME NEW u \in Vms, VmEffect(u)
      PROVE  /\ \A v \in Vms : power'[v] \in {"running", "stopping"} => pubIp'[v] # NoIp
             /\ \A v \in isStatic : power'[v] = "running"
  <2>1. HasStatic(u) => pubIp[u] # NoIp
    BY DEF HasStatic, Live, LinkInv
  <2> QED
    BY <1>0, <1>3, <2>1 DEF VmEffect, Stopped, Running
<1> QED
  BY <1>1, <1>2, <1>3, AwsStep

\* Only the receiver of a nil address panics.
LEMMA PanicStep ==
  ASSUME TypeInv, [Next]_vars, run # "panicked", run' = "panicked"
  PROVE  \E i \in Items : pc[i] \in {"getReleased", "getRestarted"} /\ pubIp[VmOf(i)] = NoIp
<1>1. CASE \E i \in Items : processBannedItem(i)
  <2>1. PICK i \in Items : processBannedItem(i)
    BY <1>1
  <2>2. CASE Begin(i) \/ Lock(i) \/ Verify(i) \/ ChangeIP(i) \/ DropOrphan(i) \/ DropOld(i)
               \/ CreateDnsRecord(i)
    BY <2>2 DEF Begin, Lock, Verify, ChangeIP, DropOrphan, DropOld, DropDnsRecord, CreateDnsRecord
  <2>3. CASE StopInstance(i) \/ StartInstance(i) \/ AwaitStopped(i) \/ AwaitRunning(i)
    BY <2>3 DEF StopInstance, StartInstance, AwaitStopped, AwaitRunning, AwaitState, Call, GiveUp
  <2>4. CASE DetachStaticIp(i) \/ ReleaseStaticIp(i) \/ AllocateStaticIp(i) \/ AttachStaticIp(i)
    BY <2>4 DEF DetachStaticIp, ReleaseStaticIp, AllocateStaticIp, AttachStaticIp, Call, GiveUp
  <2>5. CASE GetStaticIp(i)
    BY <2>5 DEF GetStaticIp, Call, Receive, GiveUp
  <2>6. CASE GetInstance(i)
    BY <2>6 DEF GetInstance, Call, Receive, GiveUp
  <2> QED
    BY <2>1, <2>2, <2>3, <2>4, <2>5, <2>6 DEF processBannedItem, processInstance
<1>2. CASE Query \/ PingBatch \/ Return \/ Kill \/ Terminated \/ UNCHANGED vars
  BY <1>2 DEF Query, PingBatch, Return, Kill, Terminated, vars
<1>3. CASE \E v \in Vms : Transition(v)
  BY <1>3 DEF Transition
<1> QED
  BY <1>1, <1>2, <1>3 DEF Next

LEMMA UpInvNext ==
  ASSUME ServedInv, UpInv, [Next]_vars
  PROVE  UpInv'
<1>1. run' # "panicked"
  <2> SUFFICES ASSUME NEW i \in Items, pc[i] \in {"getReleased", "getRestarted"},
                      pubIp[VmOf(i)] = NoIp
               PROVE  FALSE
    BY PanicStep DEF UpInv, ServedInv, AddressInv
  <2>1. VmOf(i) \in Vms
    BY ItemArguments DEF ServedInv, AddressInv, LockedPcs, RestartPcs
  <2>2. power[VmOf(i)] = "running"
    BY DEF ServedInv, AddressInv, ReachedInv, Served, UpInv
  <2> QED
    BY <2>1, <2>2 DEF UpInv
<1> QED
  BY <1>1, UpNext, SnapshotKept DEF UpInv

\* Whatever calls fail, the new address of an item is never nil when it is dereferenced
\* (after processInstance in processBannedItem), if all instances were up.
THEOREM NeverPanics ==
  ASSUME FreshPool, NoIdleListed, DistinctAddresses, AllUp
  PROVE  Spec => []NoPanic
<1>1. Init => ServedInv /\ UpInv
  BY ServedInit, UpInit
<1>2. ServedInv /\ UpInv /\ [Next]_vars => ServedInv' /\ UpInv'
  BY ServedInvNext, UpInvNext
<1>3. UpInv => NoPanic
  BY DEF UpInv, NoPanic
<1> QED
  BY <1>1, <1>2, <1>3, PTL DEF Spec
================================================================================
