--------------------------- MODULE ChangeIpJobProofs ---------------------------
(***************************************************************************)
(* Theorems about ChangeIpJob for every banned list, world, quota, batch   *)
(* size and bound on faults.                                               *)
(***************************************************************************)
EXTENDS ChangeIpJob, FiniteSetTheorems, SequenceTheorems, TLAPS

\* The steps from which an item has a DNS host and an instance.
ActivePcs == {"lock"} \cup LockedPcs \cup RestartPcs \cup RotatedPcs

\* What each step knows of its item, and the holder of staticIpMu of its step.
Placed ==
  /\ run = "query" => lo = 1
  /\ \A i \in Items :
    /\ i >= lo => pc[i] = "queued"
    /\ pc[i] \in ActivePcs => HostOf(i) \in Hosts /\ VmOf(i) \in Vms
    /\ pc[i] = "orphan" => HostOf(i) \in Hosts
    /\ pc[i] \in {"detach", "release"} => staticIps[OldIp(i)] \in StaticNames
    /\ pc[i] \in RotatedPcs /\ run = "loop" => new[i] \in Ips
    /\ pc[i] \in LockedPcs <=> mu = i

TypeInv == TypeOK /\ Placed

LEMMA ItemsType ==
  /\ Len(Banned) \in Nat
  /\ Items \subseteq Nat \ {0}
  /\ \A i \in Items : HostOf(i) \in Hosts \cup {NoHost} /\ OldIp(i) \in Ips
<1>1. Len(Banned) \in Nat /\ Items \subseteq Nat \ {0}
  BY BannedAssumption DEF Items
<1>2. ASSUME NEW i \in Items PROVE Banned[i] \in [host : Hosts \cup {NoHost}, ip : Ips]
  BY BannedAssumption, ElementOfSeq DEF Items
<1> QED
  BY <1>1, <1>2 DEF HostOf, OldIp

LEMMA TypeInvInit == Init => TypeInv
<1> SUFFICES ASSUME Init PROVE TypeInv
  OBVIOUS
<1> USE ItemsType
<1>1. AwsTypeOK /\ dns \subseteq Hosts \X Ips
  BY WorldsAssumption DEF Init, AwsTypeOK
<1>2. instances \in [Ips -> Vms \cup {NoVm}]
  BY DEF Init, SnapshotInstances
<1>3. staticIps \in [Ips -> StaticNames \cup {NoName}]
  BY DEF Init, SnapshotStaticIps
<1>4. TypeOK
  BY <1>1, <1>2, <1>3, BatchSizeAssumption, MaxFaultsAssumption DEF Init, TypeOK, Pcs, NoItem
<1>5. Placed
  BY DEF Init, Placed, ActivePcs, LockedPcs, RestartPcs, RotatedPcs, NoItem
<1> QED
  BY <1>4, <1>5 DEF TypeInv

\* The steps outside the goroutines.
LEMMA TypeInvRun ==
  ASSUME TypeInv, Query \/ PingBatch \/ Return \/ Kill \/ UNCHANGED vars
  PROVE  TypeInv'
<1> USE ItemsType DEF TypeInv
<1>1. CASE Query
  <2>1. TypeOK'
    BY <1>1, MaxFaultsAssumption DEF Query, Fault, TypeOK, AwsTypeOK, aws, stats
  <2>2. Placed'
    BY <1>1 DEF Query, TypeOK, Placed, Pcs, ActivePcs, LockedPcs, RestartPcs, RotatedPcs, VmOf, OldIp
  <2> QED
    BY <2>1, <2>2
<1>2. CASE PingBatch
  <2> DEFINE batch == {i \in Items : i >= lo /\ i < lo + BatchSize}
  <2>1. PICK reachable \in SUBSET batch :
          pc' = [i \in Items |-> IF i \in reachable THEN "skipped"
                                 ELSE IF i \in batch THEN "begin" ELSE pc[i]]
    BY <1>2 DEF PingBatch
  <2>2. TypeOK'
    BY <1>2, <2>1, BatchSizeAssumption
       DEF PingBatch, MoreItems, TypeOK, AwsTypeOK, Pcs, EndedPcs, aws, caches, stats
  <2>3. QED
    BY <1>2, <2>1, <2>2, BatchSizeAssumption
       DEF PingBatch, TypeOK, Placed, caches, ActivePcs, LockedPcs, RestartPcs, RotatedPcs, VmOf, OldIp
<1>3. CASE Return \/ Kill \/ UNCHANGED vars
  BY <1>3, MaxFaultsAssumption
     DEF Return, Kill, Fault, vars, TypeOK, AwsTypeOK, Placed, aws, caches, stats, VmOf, OldIp
<1> QED
  BY <1>1, <1>2, <1>3
\* What the types of Lightsail's state are after a call that has an effect on it.
LEMMA AwsCallType ==
  ASSUME AwsTypeOK, NEW n \in StaticNames, NEW v \in Vms,
         \/ CanDetach(n) /\ Detach(n)
         \/ CanRelease(n) /\ Release(n)
         \/ CanAllocate(n) /\ Allocate(n)
         \/ CanAttach(n, v) /\ Attach(n, v)
         \/ Stop(v) \/ Start(v)
         \/ UNCHANGED aws
  PROVE  AwsTypeOK'
BY PoolAssumption DEF AwsTypeOK, PowerStates, CanDetach, Detach, CanRelease, Release,
     CanAllocate, Allocate, CanAttach, Attach, Stop, Start, Free, aws

\* The steps of an item that do not call Lightsail.
LEMMA TypeInvItem ==
  ASSUME TypeInv, NEW i \in Items, run = "loop",
         \/ Begin(i) \/ DropOrphan(i) \/ Lock(i)
         \/ Verify(i) \/ ChangeIP(i) \/ DropOld(i) \/ CreateDnsRecord(i)
  PROVE  TypeInv'
<1> USE ItemsType DEF TypeInv, Pcs, ActivePcs, LockedPcs, RestartPcs, RotatedPcs, EndedPcs
<1>1. UNCHANGED <<aws, instances, isStatic, staticIps, run, lo, new>>
  BY DEF Begin, DropOrphan, DropDnsRecord, Lock, Verify, ChangeIP, DropOld, CreateDnsRecord, caches
<1>2. AwsTypeOK'
  BY <1>1 DEF TypeOK, AwsTypeOK, aws
<1>3. CASE Begin(i)
  <2>1. TypeOK'
    BY <1>1, <1>2, <1>3 DEF Begin, Goto, TypeOK, caches
  <2>2. Placed'
    BY <1>1, <1>3 DEF Begin, Goto, TypeOK, Placed, VmOf
  <2> QED
    BY <2>1, <2>2
<1>4. CASE Lock(i)
  <2>1. TypeOK'
    BY <1>1, <1>2, <1>4
       DEF Lock, LockToRelease, LockToAllocate, LockToRestart, Goto, TypeOK, caches, stats
  <2>2. Placed'
    BY <1>1, <1>4 DEF Lock, LockToRelease, LockToAllocate, LockToRestart, MutexFree, NoItem,
      Goto, TypeOK, Placed, VmOf
  <2> QED
    BY <2>1, <2>2
<1>5. CASE Verify(i) \/ ChangeIP(i)
  <2>1. TypeOK'
    BY <1>1, <1>2, <1>5, MaxFaultsAssumption
       DEF Verify, ChangeIP, Goto, Fault, TypeOK, Placed, caches, stats
  <2>2. Placed'
    BY <1>1, <1>5 DEF Verify, ChangeIP, Goto, TypeOK, Placed, VmOf
  <2> QED
    BY <2>1, <2>2
<1>6. CASE DropOrphan(i) \/ DropOld(i)
  <2>1. TypeOK'
    BY <1>1, <1>2, <1>6, MaxFaultsAssumption
       DEF DropOrphan, DropOld, DropDnsRecord, Call, Goto, Fault, TypeOK, stats
  <2>2. Placed'
    BY <1>1, <1>6 DEF DropOrphan, DropOld, DropDnsRecord, Goto, TypeOK, Placed, VmOf
  <2> QED
    BY <2>1, <2>2
<1>7. CASE CreateDnsRecord(i)
  <2>1. New(i) \in Hosts \X Ips
    BY <1>7 DEF CreateDnsRecord, Placed, New
  <2>2. TypeOK'
    BY <1>1, <1>2, <1>7, <2>1, MaxFaultsAssumption
       DEF CreateDnsRecord, Call, Goto, Fault, TypeOK, stats
  <2>3. Placed'
    BY <1>1, <1>7 DEF CreateDnsRecord, Goto, TypeOK, Placed, VmOf
  <2> QED
    BY <2>2, <2>3
<1> QED
  BY <1>3, <1>4, <1>5, <1>6, <1>7
\* The steps of an item that call Lightsail.
LEMMA TypeInvCall ==
  ASSUME TypeInv, NEW i \in Items, run = "loop",
         \/ DetachStaticIp(i) \/ ReleaseStaticIp(i) \/ AllocateStaticIp(i)
         \/ AttachStaticIp(i) \/ GetStaticIp(i)
         \/ StopInstance(i) \/ AwaitStopped(i) \/ StartInstance(i) \/ AwaitRunning(i)
         \/ GetInstance(i)
  PROVE  TypeInv'
<1> USE ItemsType DEF TypeInv, Pcs, ActivePcs, LockedPcs, RestartPcs, RotatedPcs, EndedPcs
<1> DEFINE v == VmOf(i)
           n == NameFor[v]
           m == staticIps[OldIp(i)]
           active == pc[i] \in LockedPcs \cup RestartPcs
<1>1. active /\ v \in Vms /\ n \in StaticNames
  BY NameForAssumption DEF Placed, DetachStaticIp, ReleaseStaticIp, AllocateStaticIp,
     AttachStaticIp, GetStaticIp, StopInstance, StartInstance, AwaitStopped, AwaitRunning,
     AwaitState, GetInstance
<1>2. UNCHANGED inInstance
  BY DEF DetachStaticIp, ReleaseStaticIp, AllocateStaticIp, AttachStaticIp, GetStaticIp,
     StopInstance, StartInstance, AwaitStopped, AwaitRunning, AwaitState, GetInstance
<1>3. faults' \in 0 .. MaxFaults
  BY MaxFaultsAssumption DEF TypeOK, Fault, Call, DetachStaticIp, ReleaseStaticIp,
     AllocateStaticIp, AttachStaticIp, GetStaticIp, StopInstance, StartInstance,
     AwaitStopped, AwaitRunning, AwaitState, GetInstance
<1>4. AwsTypeOK'
  <2>1. AwsTypeOK
    BY DEF TypeOK
  <2>2. CASE DetachStaticIp(i) \/ ReleaseStaticIp(i)
    <3>1. m \in StaticNames
      BY <2>2 DEF DetachStaticIp, ReleaseStaticIp, Placed
    <3>2. \/ CanDetach(m) /\ Detach(m)
          \/ CanRelease(m) /\ Release(m)
          \/ UNCHANGED aws
      BY <2>2 DEF DetachStaticIp, ReleaseStaticIp, Call
    <3> QED
      BY <1>1, <2>1, <3>1, <3>2, AwsCallType
  <2>3. CASE AllocateStaticIp(i) \/ AttachStaticIp(i)
    <3>1. \/ CanAllocate(n) /\ Allocate(n)
          \/ CanAttach(n, v) /\ Attach(n, v)
          \/ UNCHANGED aws
      BY <2>3 DEF AllocateStaticIp, AttachStaticIp, Call
    <3> QED
      BY <1>1, <2>1, <3>1, AwsCallType
  <2>4. CASE GetStaticIp(i) \/ StopInstance(i) \/ AwaitStopped(i) \/ StartInstance(i)
              \/ AwaitRunning(i) \/ GetInstance(i)
    <3>1. Stop(v) \/ Start(v) \/ UNCHANGED aws
      BY <2>4 DEF GetStaticIp, StopInstance, AwaitStopped, StartInstance, AwaitRunning,
         AwaitState, GetInstance, Call
    <3> QED
      BY <1>1, <2>1, <3>1, AwsCallType
  <2> QED
    BY <2>2, <2>3, <2>4
\* Where the item goes, with what it holds of the mutex, the cache and its address.
<1>5. \/ /\ pc[i] = "detach" /\ Goto(i, "release") /\ UNCHANGED <<new, run, staticIps>>
      \/ /\ pc[i] = "release" /\ Goto(i, "getReleased") /\ Forget(i) /\ UNCHANGED <<new, run>>
      \/ /\ pc[i] = "allocate" /\ Goto(i, "attach") /\ UNCHANGED <<new, run, staticIps>>
      \/ /\ pc[i] = "attach" /\ Goto(i, "getStatic") /\ UNCHANGED <<new, run, staticIps>>
      \/ /\ pc[i] = "getStatic" /\ statics[n] # NoIp /\ Receive(i, statics[n])
         /\ staticIps' = [staticIps EXCEPT ![statics[n]] = n]
      \/ /\ pc[i] \in RestartPcs
         /\ UNCHANGED <<pc, mu>> \/ \E to \in RestartPcs : Goto(i, to)
         /\ UNCHANGED <<new, run, staticIps>>
      \/ Receive(i, pubIp[v]) /\ UNCHANGED staticIps
      \/ GiveUp(i)
  BY DEF Call, DetachStaticIp, ReleaseStaticIp, AllocateStaticIp, AttachStaticIp, GetStaticIp,
     StopInstance, StartInstance, AwaitStopped, AwaitRunning, AwaitState, GetInstance
<1>6. staticIps' \in [Ips -> StaticNames \cup {NoName}]
  BY <1>1, <1>5 DEF TypeOK, AwsTypeOK, Forget, GiveUp
<1>7. new' \in [Items -> Ips \cup {NoIp}] /\ run' \in {run, "panicked"}
  BY <1>1, <1>5 DEF TypeOK, AwsTypeOK, Receive, GiveUp
<1>8. pc' \in [Items -> Pcs] /\ mu' \in Items \cup {NoItem}
  BY <1>5 DEF TypeOK, Receive, GiveUp, Goto, Leave, Unlock
<1>9. TypeOK'
  BY <1>2, <1>3, <1>4, <1>6, <1>7, <1>8 DEF TypeOK, inInstance, stats
<1>10. ASSUME NEW j \in Items, j # i
       PROVE  /\ pc'[j] = pc[j] /\ new'[j] = new[j]
              /\ (mu' = j) <=> (mu = j)
              /\ pc[j] \in {"detach", "release"} => UNCHANGED staticIps
  BY <1>1, <1>5, <1>10 DEF TypeOK, Placed, Receive, GiveUp, Goto, Leave, Unlock, NoItem
<1>11. /\ pc'[i] \in ActivePcs \cup EndedPcs
       /\ pc'[i] \in LockedPcs <=> mu' = i
       /\ pc'[i] = "release" => UNCHANGED staticIps /\ pc[i] = "detach"
       /\ pc'[i] # "detach"
       /\ pc'[i] \in RotatedPcs /\ run' = "loop" => new'[i] \in Ips
  BY <1>1, <1>5, <1>7 DEF TypeOK, Placed, Receive, GiveUp, Goto, Leave, Unlock, NoItem
<1>12. Placed'
  BY <1>1, <1>2, <1>7, <1>10, <1>11 DEF TypeOK, Placed, inInstance, VmOf
<1> QED
  BY <1>9, <1>12
LEMMA TypeInvTransition ==
  ASSUME TypeInv, NEW v \in Vms, Transition(v)
  PROVE  TypeInv'
BY PoolAssumption DEF TypeInv, Transition, Stopped, Running, Free, PowerStates, TypeOK, AwsTypeOK,
     Placed, caches, stats, VmOf, OldIp

LEMMA TypeInvNext == TypeInv /\ [Next]_vars => TypeInv'
BY TypeInvRun, TypeInvItem, TypeInvCall, TypeInvTransition
   DEF Next, Terminated, processBannedItem, processInstance

\* Every variable keeps its type, the mutex has one holder at most, and it is the
\* goroutine that is between Lock and Unlock (staticIpMu in processInstance).
THEOREM TypeCorrect == Spec => []TypeOK
<1>1. Spec => []TypeInv
  BY TypeInvInit, TypeInvNext, PTL DEF Spec
<1>2. TypeInv => TypeOK
  BY DEF TypeInv
<1> QED
  BY <1>1, <1>2, PTL

-----------------------------------------------------------------------------
(* The cache of static IPs.                                                *)

\* What keeps names and addresses of static IPs apart, whatever fails.
StaticInv ==
  /\ \A m, n \in StaticNames : statics[m] = statics[n] /\ statics[m] # NoIp => m = n
  /\ \A n \in StaticNames : statics[n] = NoIp => att[n] = NoVm
  /\ \A n \in StaticNames : att[n] \in Vms => att[n] \in isStatic \/ n = NameFor[att[n]]

\* The static IP that an item has allocated and not yet stored in the cache.
Unstored(n) ==
  \E i \in Items : pc[i] \in {"attach", "getStatic"} /\ n = NameFor[VmOf(i)]

\* CacheCoherent, with what holds of it while the mutex is held.
CacheInv ==
  faults = 0 =>
    /\ \A n \in StaticNames : ~ Unstored(n) =>
         \A ip \in Ips : staticIps[ip] = n <=> statics[n] = ip
    /\ \A i \in Items :
         LET n == NameFor[VmOf(i)]
             m == staticIps[OldIp(i)]
         IN /\ pc[i] \in {"allocate", "attach", "getStatic"} => VmOf(i) \notin isStatic
            /\ pc[i] \in {"attach", "getStatic"} =>
                 statics[n] # NoIp /\ \A ip \in Ips : staticIps[ip] # n
            /\ pc[i] = "attach" => att[n] = NoVm
            /\ pc[i] = "release" => statics[m] = OldIp(i) /\ att[m] = NoVm
LEMMA StaticInvInit == Init => StaticInv /\ CacheInv
<1> SUFFICES ASSUME Init PROVE StaticInv /\ CacheInv
  OBVIOUS
<1>1. /\ pubIp \in [Vms -> Ips \cup {NoIp}]
      /\ statics \in [StaticNames -> Ips \cup {NoIp}] /\ att \in [StaticNames -> Vms \cup {NoVm}]
      /\ WellFormed(pubIp, statics, att)
  BY WorldsAssumption DEF Init
<1>2. StaticInv
  BY <1>1, NoVmAssumption DEF Init, WellFormed, StaticInv, HasStatic, Live
<1>3. ASSUME NEW n \in StaticNames, NEW ip \in Ips
      PROVE  staticIps[ip] = n <=> statics[n] = ip
  <2>1. staticIps[ip] = IF \E k \in StaticNames : statics[k] = ip
                          THEN CHOOSE k \in StaticNames : statics[k] = ip ELSE NoName
    BY DEF Init, SnapshotStaticIps
  <2>2. CASE \E k \in StaticNames : statics[k] = ip
    <3>1. staticIps[ip] \in StaticNames /\ statics[staticIps[ip]] = ip
      BY <2>1, <2>2
    <3> QED
      BY <3>1, <1>2, IpsAssumption DEF StaticInv
  <2>3. CASE ~ \E k \in StaticNames : statics[k] = ip
    BY <2>1, <2>3, NameForAssumption
  <2> QED
    BY <2>2, <2>3
<1>4. \A i \in Items : pc[i] = "queued"
  BY DEF Init
<1> QED
  BY <1>2, <1>3, <1>4 DEF CacheInv

\* The steps that change static IPs or the cache are the ones of the mutex holder.
StaticStep(i) ==
  /\ run = "loop"
  /\ \/ DetachStaticIp(i) \/ ReleaseStaticIp(i)
     \/ AllocateStaticIp(i) \/ AttachStaticIp(i) \/ GetStaticIp(i)

LEMMA StaticFrame ==
  ASSUME TypeInv, [Next]_vars, \A i \in Items : ~ StaticStep(i)
  PROVE  /\ UNCHANGED <<statics, att, staticIps>>
         /\ faults' = 0 => faults = 0
         /\ \A j \in Items :
              /\ pc[j] \in {"attach", "getStatic"} \/ pc'[j] \in {"attach", "getStatic", "release"}
                   => pc'[j] = pc[j]
              /\ pc'[j] = "allocate" /\ pc[j] # "allocate"
                   => VmOf(j) \notin isStatic /\ lenStaticIps < MaxStaticIp
<1> USE DEF TypeInv, TypeOK
<1>1. CASE \E i \in Items : processBannedItem(i)
  <2>1. PICK i \in Items : processBannedItem(i)
    BY <1>1
  <2>2. CASE Begin(i) \/ Verify(i) \/ ChangeIP(i)
    BY <2>2 DEF Begin, Verify, ChangeIP, Goto, Fault, aws, caches
  <2>3. CASE DropOrphan(i) \/ DropOld(i) \/ CreateDnsRecord(i)
    BY <2>3 DEF DropOrphan, DropOld, DropDnsRecord, CreateDnsRecord, Call, Goto, Fault, aws
  <2>4. CASE Lock(i)
    BY <2>4 DEF Lock, LockToRelease, LockToAllocate, LockToRestart, Goto, aws, caches
  <2>5. CASE StopInstance(i) \/ StartInstance(i)
    BY <2>5 DEF StopInstance, StartInstance, Stop, Start, Call, Goto, GiveUp, Leave, Unlock,
       Fault, aws
  <2>6. CASE AwaitStopped(i) \/ AwaitRunning(i) \/ GetInstance(i)
    BY <2>6 DEF AwaitStopped, AwaitRunning, AwaitState, GetInstance, Call, Goto, GiveUp, Receive,
       Leave, Unlock, Fault, aws
  <2> QED
    BY <2>1, <2>2, <2>3, <2>4, <2>5, <2>6 DEF processBannedItem, processInstance, StaticStep
<1>2. CASE Query \/ Return \/ Kill \/ Terminated \/ UNCHANGED vars
  BY <1>2 DEF Query, Return, Kill, Terminated, Fault, vars, aws, caches
<1>3. CASE PingBatch
  <2>1. \A j \in Items : pc'[j] = pc[j] \/ (pc[j] = "queued" /\ pc'[j] \in {"skipped", "begin"})
    BY <1>3 DEF PingBatch, Placed
  <2> QED
    BY <1>3, <2>1 DEF PingBatch, aws, caches
<1>4. CASE \E v \in Vms : Transition(v)
  BY <1>4 DEF Transition, Stopped, Running, aws, caches
<1> QED
  BY <1>1, <1>2, <1>3, <1>4 DEF Next

LEMMA SnapshotKept == [Next]_vars => UNCHANGED <<instances, isStatic>>
BY DEF Next, vars, Query, PingBatch, Return, Kill, Terminated, Transition, processBannedItem,
   processInstance, Begin, Lock, DropOrphan, DropOld, DropDnsRecord, Verify, ChangeIP,
   CreateDnsRecord, DetachStaticIp, ReleaseStaticIp, AllocateStaticIp, AttachStaticIp,
   GetStaticIp, StopInstance, StartInstance, AwaitStopped, AwaitRunning, AwaitState,
   GetInstance, inInstance, caches
\* What a step of the mutex holder does, that no fault touches.
FaultlessStep(i) ==
  LET v == VmOf(i)
      n == NameFor[v]
      m == staticIps[OldIp(i)]
  IN \/ /\ pc[i] = "detach" /\ pc'[i] = "release"
        /\ CanDetach(m) /\ Detach(m) /\ UNCHANGED staticIps
     \/ /\ pc[i] \in {"detach", "allocate"} /\ pc'[i] = "gaveUp"
        /\ UNCHANGED <<statics, att, staticIps>>
     \/ /\ pc[i] = "release" /\ pc'[i] = "getReleased"
        /\ Release(m) /\ Forget(i)
     \/ /\ pc[i] = "allocate" /\ pc'[i] = "attach"
        /\ CanAllocate(n) /\ Allocate(n) /\ UNCHANGED staticIps
     \/ /\ pc[i] = "attach" /\ pc'[i] = "getStatic"
        /\ Attach(n, v) /\ UNCHANGED staticIps
     \/ /\ pc[i] = "getStatic" /\ pc'[i] = "verify" /\ statics[n] # NoIp
        /\ UNCHANGED <<statics, att>> /\ staticIps' = [staticIps EXCEPT ![statics[n]] = n]
     \/ pc[i] = "release" /\ ~ CanRelease(m)
     \/ pc[i] = "attach" /\ ~ CanAttach(n, v)
     \/ pc[i] = "getStatic" /\ statics[n] = NoIp

LEMMA StaticStepShape ==
  ASSUME TypeInv, NEW i \in Items, StaticStep(i)
  PROVE  LET v == VmOf(i)
             n == NameFor[v]
             m == staticIps[OldIp(i)]
         IN /\ v \in Vms /\ n \in StaticNames /\ mu = i
            /\ pc[i] \in {"detach", "release"} => m \in StaticNames
            /\ \/ UNCHANGED <<statics, att>>
               \/ pc[i] = "detach" /\ Detach(m)
               \/ pc[i] = "release" /\ CanRelease(m) /\ Release(m)
               \/ pc[i] = "allocate" /\ CanAllocate(n) /\ Allocate(n)
               \/ pc[i] = "attach" /\ CanAttach(n, v) /\ Attach(n, v)
            /\ \A j \in Items : j # i => pc'[j] = pc[j]
            /\ pc'[i] # "allocate"
            /\ faults' = 0 => faults = 0 /\ FaultlessStep(i)
<1> USE DEF TypeInv, TypeOK
<1>1. pc[i] \in {"detach", "release", "allocate", "attach", "getStatic"}
  BY DEF StaticStep, DetachStaticIp, ReleaseStaticIp, AllocateStaticIp, AttachStaticIp, GetStaticIp
<1>2. VmOf(i) \in Vms /\ NameFor[VmOf(i)] \in StaticNames /\ mu = i
  BY <1>1, NameForAssumption DEF Placed, LockedPcs, ActivePcs
<1>3. pc[i] \in {"detach", "release"} => staticIps[OldIp(i)] \in StaticNames
  BY DEF Placed
<1>4. CASE DetachStaticIp(i)
  BY <1>1, <1>2, <1>3, <1>4 DEF DetachStaticIp, Call, Goto, GiveUp, Leave, Unlock, Fault, aws, FaultlessStep
<1>5. CASE ReleaseStaticIp(i)
  BY <1>1, <1>2, <1>3, <1>5 DEF ReleaseStaticIp, Call, Goto, GiveUp, Leave, Unlock, Fault, aws, FaultlessStep
<1>6. CASE AllocateStaticIp(i)
  BY <1>1, <1>2, <1>3, <1>6 DEF AllocateStaticIp, Call, Goto, GiveUp, Leave, Unlock, Fault, aws, FaultlessStep
<1>7. CASE AttachStaticIp(i)
  BY <1>1, <1>2, <1>3, <1>7 DEF AttachStaticIp, Call, Goto, GiveUp, Leave, Unlock, Fault, aws, FaultlessStep
<1>8. CASE GetStaticIp(i)
  BY <1>1, <1>2, <1>3, <1>8 DEF GetStaticIp, Call, Goto, GiveUp, Receive, Leave, Unlock, Fault,
     aws, FaultlessStep
<1> QED
  BY <1>4, <1>5, <1>6, <1>7, <1>8 DEF StaticStep
LEMMA StaticInvNext ==
  ASSUME TypeInv, StaticInv, [Next]_vars
  PROVE  StaticInv'
<1> USE SnapshotKept, NoVmAssumption DEF TypeInv, TypeOK, AwsTypeOK, StaticInv
<1>1. CASE \A i \in Items : ~ StaticStep(i)
  BY <1>1, StaticFrame
<1>2. ASSUME NEW i \in Items, StaticStep(i) PROVE StaticInv'
  <2> DEFINE v == VmOf(i)
             n == NameFor[v]
             m == staticIps[OldIp(i)]
  <2>1. v \in Vms /\ n \in StaticNames /\ mu = i
    BY <1>2, StaticStepShape
  <2>2. CASE UNCHANGED <<statics, att>>
    BY <2>2
  <2>3. CASE pc[i] = "detach" /\ Detach(m)
    <3>1. m \in StaticNames
      BY <1>2, <2>3, StaticStepShape
    <3> QED
      BY <2>3, <3>1 DEF Detach
  <2>4. CASE pc[i] = "release" /\ CanRelease(m) /\ Release(m)
    <3>1. m \in StaticNames
      BY <1>2, <2>4, StaticStepShape
    <3> QED
      BY <2>4, <3>1, IpsAssumption DEF CanRelease, Release
  <2>5. CASE pc[i] = "allocate" /\ CanAllocate(n) /\ Allocate(n)
    <3>1. PICK ip \in Free : statics' = [statics EXCEPT ![n] = ip]
      BY <2>5 DEF Allocate
    <3>2. ip \in Ips /\ \A k \in StaticNames : statics[k] # ip
      BY PoolAssumption DEF Free, Owned
    <3> QED
      BY <2>1, <2>5, <3>1, <3>2, IpsAssumption DEF Allocate
  <2>6. CASE pc[i] = "attach" /\ CanAttach(n, v) /\ Attach(n, v)
    BY <2>1, <2>6 DEF CanAttach, Attach
  <2> QED
    BY <1>2, StaticStepShape, <2>2, <2>3, <2>4, <2>5, <2>6
<1> QED
  BY <1>1, <1>2

\* An attachment is refused only for a static IP attached already, or gone.
LEMMA AttachAccepted ==
  ASSUME TypeInv, StaticInv, CacheInv, faults = 0, NEW i \in Items, pc[i] = "attach"
  PROVE  CanAttach(NameFor[VmOf(i)], VmOf(i))
<1> DEFINE v == VmOf(i)
           n == NameFor[v]
<1>1. v \in Vms /\ n \in StaticNames
  BY NameForAssumption DEF TypeInv, Placed, ActivePcs, LockedPcs
<1>2. v \notin isStatic /\ statics[n] # NoIp /\ att[n] = NoVm
  BY DEF CacheInv
<1>3. ~ HasStatic(v)
  BY <1>1, <1>2, NoVmAssumption DEF StaticInv, HasStatic, Live
<1> QED
  BY <1>2, <1>3 DEF CanAttach

LEMMA CacheInvNext ==
  ASSUME TypeInv, StaticInv, CacheInv, [Next]_vars
  PROVE  CacheInv'
<1> SUFFICES ASSUME faults' = 0 PROVE CacheInv'
  BY DEF CacheInv
<1> USE SnapshotKept DEF TypeInv, TypeOK, AwsTypeOK
<1>1. CASE \A i \in Items : ~ StaticStep(i)
  <2>1. faults = 0
    BY <1>1, StaticFrame
  <2>2. \A k \in StaticNames : Unstored(k)' <=> Unstored(k)
    BY <1>1, StaticFrame DEF Unstored, VmOf
  <2> QED
    BY <1>1, <2>1, <2>2, StaticFrame DEF CacheInv, VmOf
<1>2. ASSUME NEW i \in Items, StaticStep(i) PROVE CacheInv'
  <2> DEFINE v == VmOf(i)
             n == NameFor[v]
             m == staticIps[OldIp(i)]
  <2>1. /\ v \in Vms /\ n \in StaticNames /\ mu = i /\ faults = 0
        /\ \A j \in Items : j # i => pc'[j] = pc[j] /\ pc[j] \notin LockedPcs
        /\ VmOf(i)' = v
    BY <1>2, StaticStepShape DEF Placed, VmOf
  <2>2. \A k \in StaticNames :
          Unstored(k) <=> pc[i] \in {"attach", "getStatic"} /\ k = n
    BY <2>1 DEF Unstored, LockedPcs
  <2>3. \A k \in StaticNames :
          Unstored(k)' <=> pc'[i] \in {"attach", "getStatic"} /\ k = n
    BY <2>1 DEF Unstored, LockedPcs, VmOf
  <2>4. OldIp(i) \in Ips /\ NoName \notin StaticNames /\ NoIp \notin Ips
    BY ItemsType, NameForAssumption, IpsAssumption
  \* The other items hold nothing that the last conjunct of CacheInv speaks of.
  <2>5. SUFFICES /\ \A k \in StaticNames : ~ Unstored(k)' =>
                      \A ip \in Ips : staticIps'[ip] = k <=> statics'[k] = ip
                 /\ pc'[i] \in {"attach", "getStatic"} =>
                      /\ v \notin isStatic /\ statics'[n] # NoIp
                      /\ \A ip \in Ips : staticIps'[ip] # n
                 /\ pc'[i] = "attach" => att'[n] = NoVm
                 /\ pc'[i] = "release" =>
                      statics'[staticIps'[OldIp(i)]] = OldIp(i) /\ att'[staticIps'[OldIp(i)]] = NoVm
                 /\ pc'[i] # "allocate"
    BY <2>1 DEF CacheInv, LockedPcs, VmOf, OldIp
  <2>6. CASE /\ pc[i] = "detach" /\ pc'[i] = "release"
             /\ CanDetach(m) /\ Detach(m) /\ UNCHANGED staticIps
    <3>1. m \in StaticNames /\ statics[m] = OldIp(i)
      BY <1>2, <2>1, <2>2, <2>4, <2>6, StaticStepShape DEF CacheInv
    <3> QED
      BY <2>1, <2>2, <2>3, <2>6, <3>1 DEF CacheInv, Detach
  <2>7. CASE /\ pc[i] \in {"detach", "allocate"} /\ pc'[i] = "gaveUp"
             /\ UNCHANGED <<statics, att, staticIps>>
    BY <2>1, <2>2, <2>3, <2>7 DEF CacheInv
  <2>8. CASE /\ pc[i] = "release" /\ pc'[i] = "getReleased"
             /\ Release(m) /\ Forget(i)
    <3>1. m \in StaticNames /\ statics[m] = OldIp(i)
      BY <1>2, <2>1, <2>8, StaticStepShape DEF CacheInv
    <3>2. statics' = [statics EXCEPT ![m] = NoIp] /\ staticIps' = [staticIps EXCEPT ![OldIp(i)] = NoName]
      BY <2>8 DEF Release, Forget
    <3>3. \A k \in StaticNames : ~ Unstored(k) /\ ~ Unstored(k)'
      BY <2>2, <2>3, <2>8
    <3>4. \A k \in StaticNames, ip \in Ips : staticIps'[ip] = k <=> statics'[k] = ip
      BY <2>1, <2>4, <3>1, <3>2, <3>3 DEF CacheInv, StaticInv
    <3> QED
      BY <2>8, <3>4
  <2>9. CASE /\ pc[i] = "allocate" /\ pc'[i] = "attach"
             /\ CanAllocate(n) /\ Allocate(n) /\ UNCHANGED staticIps
    <3>1. PICK ip \in Free : statics' = [statics EXCEPT ![n] = ip]
      BY <2>9 DEF Allocate
    <3>2. ip \in Ips /\ statics[n] = NoIp /\ att[n] = NoVm
      BY <2>1, <2>9, PoolAssumption DEF Free, CanAllocate, StaticInv
    <3>3. v \notin isStatic /\ \A a \in Ips : staticIps[a] # n
      BY <2>1, <2>2, <2>4, <2>9, <3>2 DEF CacheInv
    <3> QED
      BY <2>1, <2>2, <2>3, <2>4, <2>9, <3>1, <3>2, <3>3 DEF CacheInv, Allocate
  <2>10. CASE /\ pc[i] = "attach" /\ pc'[i] = "getStatic"
              /\ Attach(n, v) /\ UNCHANGED staticIps
    BY <2>1, <2>2, <2>3, <2>10 DEF CacheInv, Attach
  <2>11. CASE /\ pc[i] = "getStatic" /\ pc'[i] = "verify" /\ statics[n] # NoIp
              /\ UNCHANGED <<statics, att>> /\ staticIps' = [staticIps EXCEPT ![statics[n]] = n]
    <3>1. statics[n] \in Ips /\ \A ip \in Ips : staticIps[ip] # n
      BY <2>1, <2>11 DEF CacheInv
    <3>2. \A k \in StaticNames, ip \in Ips : staticIps'[ip] = k <=> statics'[k] = ip
      BY <2>1, <2>2, <2>11, <3>1 DEF CacheInv, StaticInv
    <3> QED
      BY <2>11, <3>2
  <2>12. CASE \/ pc[i] = "release" /\ ~ CanRelease(m)
              \/ pc[i] = "attach" /\ ~ CanAttach(n, v)
              \/ pc[i] = "getStatic" /\ statics[n] = NoIp
    <3>1. pc[i] = "release" => CanRelease(m)
      BY <2>1, <2>4 DEF CacheInv, CanRelease
    <3>2. pc[i] = "getStatic" => statics[n] # NoIp
      BY <2>1 DEF CacheInv
    <3> QED
      BY <2>1, <2>12, <3>1, <3>2, AttachAccepted
  <2> QED
    BY <1>2, StaticStepShape, <2>6, <2>7, <2>8, <2>9, <2>10, <2>11, <2>12 DEF FaultlessStep
<1> QED
  BY <1>1, <1>2

\* The whole of what holds in every state.
IInv == TypeInv /\ StaticInv /\ CacheInv

LEMMA IInvInvariant == Spec => []IInv
<1>1. Init => IInv
  BY TypeInvInit, StaticInvInit DEF IInv
<1>2. IInv /\ [Next]_vars => IInv'
  BY TypeInvNext, StaticInvNext, CacheInvNext DEF IInv
<1> QED
  BY <1>1, <1>2, PTL DEF Spec

\* No item holds the mutex, or one that has allocated nothing yet: nothing is unstored.
LEMMA NothingUnstored ==
  ASSUME IInv, mu = NoItem \/ (mu \in Items /\ pc[mu] = "allocate"), NEW n \in StaticNames
  PROVE  ~ Unstored(n)
BY DEF IInv, TypeInv, TypeOK, Placed, Unstored, LockedPcs, NoItem, Items

\* The cache of static IPs is right whenever no goroutine is at work on it and no
\* call has failed (m.staticIps under staticIpMu).
THEOREM CacheIsCoherent == Spec => []CacheCoherent
<1>1. IInv => CacheCoherent
  BY NothingUnstored DEF IInv, CacheInv, CacheCoherent
<1> QED
  BY <1>1, IInvInvariant, PTL
\* The room an item found under the mutex is still there when it allocates.
RoomInv == \A i \in Items : pc[i] = "allocate" => lenStaticIps < MaxStaticIp

LEMMA RoomInvNext ==
  ASSUME TypeInv, RoomInv, [Next]_vars
  PROVE  RoomInv'
<1>1. CASE \A i \in Items : ~ StaticStep(i)
  BY <1>1, StaticFrame DEF RoomInv, lenStaticIps, Cached
<1>2. ASSUME NEW i \in Items, StaticStep(i) PROVE RoomInv'
  <2>1. \A j \in Items : pc'[j] # "allocate"
    BY <1>2, StaticStepShape DEF TypeInv, Placed, LockedPcs
  <2> QED
    BY <2>1 DEF RoomInv
<1> QED
  BY <1>1, <1>2

\* A coherent cache is as large as the region's set of static IPs.
LEMMA CacheCounts ==
  ASSUME TypeInv, \A ip \in Ips, n \in StaticNames : staticIps[ip] = n <=> statics[n] = ip
  PROVE  /\ Cardinality(Live) <= lenStaticIps
         /\ lenStaticIps \in Nat /\ Cardinality(Live) \in Nat
<1> DEFINE f == [ip \in Cached |-> staticIps[ip]]
<1>1. IsFiniteSet(Cached)
  BY IpsAssumption, FS_Subset DEF Cached
<1>2. f \in Surjection(Cached, Live)
  BY IpsAssumption, NameForAssumption
     DEF TypeInv, TypeOK, AwsTypeOK, Cached, Live, Surjection
<1> QED
  BY <1>1, <1>2, FS_Surjection, FS_CardinalityType DEF lenStaticIps

LEMMA FitsWhileAllocating == ASSUME IInv, RoomInv PROVE AllocateWithinQuota
<1> SUFFICES ASSUME faults = 0, NEW i \in Items, pc[i] = "allocate"
             PROVE  Cardinality(Live) < MaxStaticIp
  BY DEF AllocateWithinQuota
<1>1. mu = i
  BY DEF IInv, TypeInv, Placed, LockedPcs
<1>2. /\ Cardinality(Live) <= lenStaticIps
      /\ lenStaticIps \in Nat /\ Cardinality(Live) \in Nat
  BY <1>1, NothingUnstored, CacheCounts DEF IInv, CacheInv
<1> QED
  BY <1>2, MaxStaticIpAssumption DEF RoomInv

\* No goroutine sends AWS an allocation for which the region has no room, unless a
\* call has failed (the check and the allocation in processInstance are one section).
THEOREM AllocationFits == Spec => []AllocateWithinQuota
<1>1. Init => RoomInv
  BY DEF Init, RoomInv
<1>2. IInv /\ RoomInv /\ [Next]_vars => RoomInv'
  BY RoomInvNext DEF IInv
<1> QED
  BY <1>1, <1>2, FitsWhileAllocating, IInvInvariant, PTL DEF Spec
=================================================================================
