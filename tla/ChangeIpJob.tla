----------------------------- MODULE ChangeIpJob -----------------------------
(***************************************************************************)
(* LightsailCFJob.Run (internal/app/change_ip/lightsail_cf_job.go): the    *)
(* banned list is worked off in batches, one goroutine per unreachable     *)
(* item, each of which gives its instance a new address (releasing a       *)
(* static IP, allocating one, or restarting), tells the panel, and moves   *)
(* the DNS record.  One action per external call; a call may fail before   *)
(* its effect, or after it with the reply lost, at most MaxFaults times.   *)
(***************************************************************************)
EXTENDS Lightsail, Sequences

CONSTANTS
  Banned,     \* the panel's banned list: a sequence of [host, ip]
  Hosts,      \* hosts that are DNS names
  NoHost,     \* an empty host or a raw IP: hostNeedsDNS is false
  NameFor,    \* the name "<instance>-static-ip" of each instance
  BatchSize,  \* conf.Concurrency, defaultBatchSize when 0
  Worlds,     \* what AWS and Cloudflare may hold when the program starts
  MaxFaults   \* bound on failed calls and kills

Items == 1 .. Len(Banned)
NoItem == 0
NoName == "none"

ASSUME BannedAssumption ==
  Banned \in Seq([host : Hosts \cup {NoHost}, ip : Ips])
ASSUME HostsAssumption == NoHost \notin Hosts
ASSUME NameForAssumption ==
  /\ NoName \notin StaticNames
  /\ NameFor \in [Vms -> StaticNames]
  /\ \A v, w \in Vms : NameFor[v] = NameFor[w] => v = w
ASSUME WorldsAssumption ==
  \A w \in Worlds :
    /\ w.pubIp \in [Vms -> Ips \cup {NoIp}] /\ w.power \in [Vms -> PowerStates]
    /\ w.statics \in [StaticNames -> Ips \cup {NoIp}]
    /\ w.att \in [StaticNames -> Vms \cup {NoVm}]
    /\ WellFormed(w.pubIp, w.statics, w.att)
    /\ w.dns \subseteq Hosts \X Ips
ASSUME BatchSizeAssumption == BatchSize \in Nat \ {0}
ASSUME MaxFaultsAssumption == MaxFaults \in Nat

VARIABLES
  dns,         \* A records in Cloudflare, as <<host, ip>>
  panel,       \* address the panel holds for each item
  instances,   \* m.instances: address -> instance, as read by Init
  isStatic,    \* instances whose snapshot has IsStaticIp
  staticIps,   \* m.staticIps: address -> name of the static IP
  dnsRecords,  \* m.dnsRecords: the records the job knows
  run,         \* where Run is, or how the process ended
  lo,          \* i of the batch loop: first item not yet in a batch
  pc,          \* where the goroutine of each item is
  mu,          \* holder of staticIpMu
  new,         \* newIp of each item
  success, fail, \* m.stats
  faults       \* failed calls and kills so far

caches == <<instances, isStatic, staticIps, dnsRecords>>
stats == <<success, fail>>
vars == <<aws, dns, panel, caches, run, lo, pc, mu, new, stats, faults>>

HostOf(i) == Banned[i].host
OldIp(i) == Banned[i].ip
Old(i) == <<HostOf(i), OldIp(i)>>
New(i) == <<HostOf(i), new[i]>>
VmOf(i) == instances[OldIp(i)]

\* The calls made with staticIpMu held, and the steps a goroutine passes through.
LockedPcs == {"detach", "release", "getReleased", "allocate", "attach", "getStatic"}
RestartPcs == {"stop", "awaitStopped", "startVm", "awaitRunning", "getRestarted"}
RotatedPcs == {"verify", "changeIp", "drop", "create"}
EndedPcs == {"skipped", "aborted", "orphaned", "gaveUp", "done"}
Pcs == {"queued", "begin", "orphan", "lock"} \cup LockedPcs \cup RestartPcs
         \cup RotatedPcs \cup EndedPcs

Cached == {ip \in Ips : staticIps[ip] # NoName}
lenStaticIps == Cardinality(Cached)

-----------------------------------------------------------------------------
(* What Init reads: the snapshot is that of the world it starts in.        *)

SnapshotInstances ==
  [ip \in Ips |-> IF \E v \in Vms : pubIp[v] = ip
                    THEN CHOOSE v \in Vms : pubIp[v] = ip ELSE NoVm]
SnapshotStaticIps ==
  [ip \in Ips |-> IF \E n \in StaticNames : statics[n] = ip
                    THEN CHOOSE n \in StaticNames : statics[n] = ip ELSE NoName]

Init ==
  /\ \E w \in Worlds :
       /\ pubIp = w.pubIp /\ power = w.power
       /\ statics = w.statics /\ att = w.att
       /\ dns = w.dns
  /\ panel = [i \in Items |-> OldIp(i)]
  /\ instances = SnapshotInstances
  /\ isStatic = {v \in Vms : HasStatic(v)}
  /\ staticIps = SnapshotStaticIps
  /\ dnsRecords = {}
  /\ run = "query"
  /\ lo = 1
  /\ pc = [i \in Items |-> "queued"]
  /\ mu = NoItem
  /\ new = [i \in Items |-> NoIp]
  /\ success = 0 /\ fail = 0
  /\ faults = 0

-----------------------------------------------------------------------------
(* Calls.                                                                  *)

Fault == faults < MaxFaults /\ faults' = faults + 1

\* One call of a service whose state is `state`: done, refused, lost on the way
\* there, or done with the reply lost.
Call(state, can, effect, ok, err) ==
  \/ can /\ effect /\ ok /\ UNCHANGED faults
  \/ can /\ effect /\ err /\ Fault
  \/ can /\ UNCHANGED state /\ err /\ Fault
  \/ ~ can /\ UNCHANGED state /\ err /\ UNCHANGED faults

Goto(i, to) == pc' = [pc EXCEPT ![i] = to] /\ UNCHANGED mu
Unlock(i, to) == pc' = [pc EXCEPT ![i] = to] /\ mu' = NoItem
Leave(i, to) == IF mu = i THEN Unlock(i, to) ELSE Goto(i, to)

\* processInstance returned an error: logged, counted nowhere.
GoOnAfterError(i) == Leave(i, "drop") /\ UNCHANGED <<new, run, staticIps>>
GiveUp(i) == Leave(i, "gaveUp") /\ UNCHANGED <<new, run, staticIps>>

\* processInstance returned newIp.  Dereferencing a nil one panics.
ReceiveSnapshot(i, ip) ==
  /\ Leave(i, "verify")
  /\ new' = [new EXCEPT ![i] = OldIp(i)]
  /\ run' = IF ip = NoIp THEN "panicked" ELSE run
Receive(i, ip) ==
  /\ Leave(i, "verify")
  /\ new' = [new EXCEPT ![i] = ip]
  /\ run' = IF ip = NoIp THEN "panicked" ELSE run

-----------------------------------------------------------------------------
(* Run up to and around the goroutines.                                    *)

FirstHostOnly == {HostOf(1)} \ {NoHost}
HostsBanned == {HostOf(i) : i \in Items} \ {NoHost}

\* QueryBannedList and prepareDnsForHosts, before any goroutine exists.
Query ==
  /\ run = "query"
  /\ \/ /\ run' = "loop"
        /\ dnsRecords' = {r \in dns : r[1] \in HostsBanned}
        /\ UNCHANGED faults
     \/ /\ Fault
        /\ run' = "failed"
        /\ UNCHANGED dnsRecords
  /\ UNCHANGED <<aws, dns, panel, instances, isStatic, staticIps, lo, pc, mu, new, stats>>

\* The condition of the batch loop.
MoreItemsOffByOne == lo <= Len(Banned) + 1
FullBatchesOnly == lo + BatchSize <= Len(Banned) + 1
MoreItems == lo <= Len(Banned)

\* g.Wait: the goroutines of the batches so far have ended.
Waited == \A i \in Items : i < lo => pc[i] \in EndedPcs

\* g.Wait of the previous batch, then batchPing: the reachable items are left
\* out, and a ping service that is down (a nil map) leaves none out.
PingBatch ==
  /\ run = "loop"
  /\ MoreItems
  /\ Waited
  /\ LET batch == {i \in Items : i >= lo /\ i < lo + BatchSize}
     IN \E reachable \in SUBSET batch :
          pc' = [i \in Items |-> IF i \in reachable THEN "skipped"
                                 ELSE IF i \in batch THEN "begin" ELSE pc[i]]
  /\ lo' = lo + BatchSize
  /\ UNCHANGED <<aws, dns, panel, caches, run, mu, new, stats, faults>>

Return ==
  /\ run = "loop"
  /\ ~ MoreItems
  /\ Waited
  /\ run' = "returned"
  /\ UNCHANGED <<aws, dns, panel, caches, lo, pc, mu, new, stats, faults>>

\* What main sees of a run that returned.
rerunState == fail > 0

Kill ==
  /\ run \in {"query", "loop"}
  /\ Fault
  /\ run' = "killed"
  /\ UNCHANGED <<aws, dns, panel, caches, lo, pc, mu, new, stats>>

-----------------------------------------------------------------------------
(* processBannedItem: which of its three ways an item goes.                *)

Begin(i) ==
  /\ pc[i] = "begin"
  /\ IF HostOf(i) = NoHost
       THEN Goto(i, "aborted") /\ fail' = fail + 1
       ELSE /\ Goto(i, IF VmOf(i) = NoVm THEN "orphan" ELSE "lock")
            /\ UNCHANGED fail
  /\ UNCHANGED <<aws, dns, panel, caches, run, lo, new, success, faults>>

\* staticIpMu.Lock in processInstance, and the branch taken under it.
LockToRelease(i) ==
  /\ VmOf(i) \in isStatic
  /\ IF staticIps[OldIp(i)] = NoName
       THEN Goto(i, "gaveUp")
       ELSE pc' = [pc EXCEPT ![i] = "detach"] /\ mu' = i

LockToAllocate(i) ==
  /\ VmOf(i) \notin isStatic
  /\ lenStaticIps < MaxStaticIp
  /\ pc' = [pc EXCEPT ![i] = "allocate"] /\ mu' = i

LockToRestart(i) ==
  /\ VmOf(i) \notin isStatic
  /\ lenStaticIps >= MaxStaticIp
  /\ Goto(i, "stop")

MutexIgnored == TRUE
MutexFree == mu = NoItem

Lock(i) ==
  /\ pc[i] = "lock"
  /\ MutexFree
  /\ LockToRelease(i) \/ LockToAllocate(i) \/ LockToRestart(i)
  /\ UNCHANGED <<aws, dns, panel, caches, run, lo, new, stats, faults>>

-----------------------------------------------------------------------------
(* processInstanceReleaseStaticIp, with the mutex held.                    *)

inInstance == <<dns, panel, instances, isStatic, dnsRecords, lo, stats>>

DetachStaticIp(i) ==
  /\ pc[i] = "detach"
  /\ LET n == staticIps[OldIp(i)]
     IN Call(aws, CanDetach(n), Detach(n),
             Goto(i, "release") /\ UNCHANGED <<new, run, staticIps>>, GiveUp(i))
  /\ UNCHANGED inInstance

\* m.staticIps.Delete of the address released.
ForgetNothing(i) == UNCHANGED staticIps
Forget(i) == staticIps' = [staticIps EXCEPT ![OldIp(i)] = NoName]

ReleaseStaticIp(i) ==
  /\ pc[i] = "release"
  /\ LET n == staticIps[OldIp(i)]
     IN Call(aws, CanRelease(n), Release(n),
             Goto(i, "getReleased") /\ Forget(i) /\ UNCHANGED <<new, run>>,
             GiveUp(i))
  /\ UNCHANGED inInstance

\* GetInstance at the end of a release and of a restart.
GetInstance(i) ==
  /\ pc[i] \in {"getReleased", "getRestarted"}
  /\ Call(aws, TRUE, UNCHANGED aws,
          Receive(i, pubIp[VmOf(i)]) /\ UNCHANGED staticIps, GiveUp(i))
  /\ UNCHANGED inInstance

-----------------------------------------------------------------------------
(* processInstanceAllocateStaticIp, with the mutex held.                   *)

AllocateStaticIp(i) ==
  /\ pc[i] = "allocate"
  /\ LET n == NameFor[VmOf(i)]
     IN Call(aws, CanAllocate(n), Allocate(n),
             Goto(i, "attach") /\ UNCHANGED <<new, run, staticIps>>, GiveUp(i))
  /\ UNCHANGED inInstance

AttachStaticIp(i) ==
  /\ pc[i] = "attach"
  /\ LET n == NameFor[VmOf(i)]
     IN Call(aws, CanAttach(n, VmOf(i)), Attach(n, VmOf(i)),
             Goto(i, "getStatic") /\ UNCHANGED <<new, run, staticIps>>, GiveUp(i))
  /\ UNCHANGED inInstance

GetStaticIp(i) ==
  /\ pc[i] = "getStatic"
  /\ LET n == NameFor[VmOf(i)]
     IN Call(aws, statics[n] # NoIp, UNCHANGED aws,
             /\ Receive(i, statics[n])
             /\ staticIps' = [staticIps EXCEPT ![statics[n]] = n],
             GiveUp(i))
  /\ UNCHANGED inInstance

-----------------------------------------------------------------------------
(* processInstanceMustRestart, without the mutex.                          *)

\* A stop of an instance that is not running is refused, or accepted and idle.
StopInstance(i) ==
  /\ pc[i] = "stop"
  /\ LET next == Goto(i, "awaitStopped") /\ UNCHANGED <<new, run, staticIps>>
         running == power[VmOf(i)] = "running"
     IN \/ running /\ Call(aws, TRUE, Stop(VmOf(i)), next, GiveUp(i))
        \/ ~ running /\ UNCHANGED <<aws, faults>> /\ (next \/ GiveUp(i))
  /\ UNCHANGED inInstance

StartInstance(i) ==
  /\ pc[i] = "startVm"
  /\ LET next == Goto(i, "awaitRunning") /\ UNCHANGED <<new, run, staticIps>>
         stopped == power[VmOf(i)] = "stopped"
     IN \/ stopped /\ Call(aws, TRUE, Start(VmOf(i)), next, GiveUp(i))
        \/ ~ stopped /\ UNCHANGED <<aws, faults>> /\ (next \/ GiveUp(i))
  /\ UNCHANGED inInstance

\* A poll of GetInstanceState: it sees the state it waits for, sees another and is
\* repeated, or fails, which ends the wait.  Nothing bounds the repetitions.
AwaitState(i, at, state, to) ==
  /\ pc[i] = at
  /\ \/ /\ power[VmOf(i)] = state
        /\ Goto(i, to) /\ UNCHANGED <<new, run, staticIps, faults>>
     \/ /\ power[VmOf(i)] # state
        /\ UNCHANGED <<pc, mu, new, run, staticIps, faults>>
     \/ Fault /\ GiveUp(i)
  /\ UNCHANGED <<aws, inInstance>>

AwaitStopped(i) == AwaitState(i, "awaitStopped", "stopped", "startVm")
AwaitPending(i) == AwaitState(i, "awaitRunning", "pending", "getRestarted")
AwaitStoppedAgain(i) == AwaitState(i, "awaitRunning", "stopped", "getRestarted")
AwaitRunning(i) == AwaitState(i, "awaitRunning", "running", "getRestarted")

-----------------------------------------------------------------------------
(* processBannedItem, once the instance has its new address.               *)

\* batchPing of the new address; only the counters depend on its answer.
Verify(i) ==
  /\ pc[i] = "verify"
  /\ \/ success' = success + 1 /\ UNCHANGED fail
     \/ fail' = fail + 1 /\ UNCHANGED success
  /\ Goto(i, "changeIp")
  /\ UNCHANGED <<aws, dns, panel, caches, run, lo, new, faults>>

\* Whether the panel refuses (in an error or in the Data it answers), the
\* request or the reply is lost, or all is well: the item goes on.
ChangeIP(i) ==
  /\ pc[i] = "changeIp"
  /\ \/ panel' = [panel EXCEPT ![i] = new[i]] /\ UNCHANGED faults
     \/ panel' \in {panel, [panel EXCEPT ![i] = new[i]]} /\ Fault
  /\ Goto(i, "drop")
  /\ UNCHANGED <<aws, dns, caches, run, lo, new, stats>>

\* dropDnsRecord(host, old ip): the error, if any, is logged.
DropDnsRecord(i, to) ==
  /\ IF Old(i) \notin dnsRecords
       THEN UNCHANGED <<dns, dnsRecords, faults>>
       ELSE Call(dns, Old(i) \in dns, dns' = dns \ {Old(i)},
                 dnsRecords' = dnsRecords \ {Old(i)}, UNCHANGED dnsRecords)
  /\ Goto(i, to)
  /\ UNCHANGED <<aws, panel, instances, isStatic, staticIps, run, lo, new, stats>>

DropOrphan(i) == pc[i] = "orphan" /\ DropDnsRecord(i, "orphaned")
DropOld(i) == pc[i] = "drop" /\ DropDnsRecord(i, "create")

\* createDnsRecord(host, newIp); Cloudflare refuses a record it already has.
CreateDnsRecord(i) ==
  /\ pc[i] = "create"
  /\ Call(dns, New(i) \notin dns, dns' = dns \cup {New(i)},
          dnsRecords' = dnsRecords \cup {New(i)}, UNCHANGED dnsRecords)
  /\ Goto(i, "done")
  /\ UNCHANGED <<aws, panel, instances, isStatic, staticIps, run, lo, new, stats>>

-----------------------------------------------------------------------------
processInstance(i) ==
  \/ Lock(i)
  \/ DetachStaticIp(i) \/ ReleaseStaticIp(i)
  \/ AllocateStaticIp(i) \/ AttachStaticIp(i) \/ GetStaticIp(i)
  \/ StopInstance(i) \/ AwaitStopped(i) \/ StartInstance(i) \/ AwaitRunning(i)
  \/ GetInstance(i)

processBannedItem(i) ==
  /\ run = "loop"
  /\ \/ Begin(i) \/ DropOrphan(i) \/ processInstance(i)
     \/ Verify(i) \/ ChangeIP(i) \/ DropOld(i) \/ CreateDnsRecord(i)

\* AWS completes a stop or a start, whatever became of the process.
Transition(v) ==
  /\ Stopped(v) \/ Running(v)
  /\ UNCHANGED <<dns, panel, caches, run, lo, pc, mu, new, stats, faults>>

Over == run \in {"returned", "failed", "killed", "panicked"}
Terminated == Over /\ UNCHANGED vars

Next ==
  \/ Query \/ PingBatch \/ Return \/ Kill \/ Terminated
  \/ \E i \in Items : processBannedItem(i)
  \/ \E v \in Vms : Transition(v)

Spec == Init /\ [][Next]_vars

\* The Go scheduler runs every goroutine that can run, a mutex is handed to a
\* waiter in the end (sync.Mutex does not starve), and AWS completes what it began.
Fairness ==
  /\ WF_vars(Query) /\ WF_vars(PingBatch) /\ WF_vars(Return)
  /\ \A i \in Items : WF_vars(processBannedItem(i)) /\ SF_vars(run = "loop" /\ Lock(i))
  /\ \A v \in Vms : WF_vars(Transition(v))

FairSpec == Spec /\ Fairness

-----------------------------------------------------------------------------
(* What makes the job correct.                                             *)

TypeOK ==
  /\ AwsTypeOK
  /\ dns \subseteq Hosts \X Ips
  /\ panel \in [Items -> Ips]
  /\ instances \in [Ips -> Vms \cup {NoVm}]
  /\ isStatic \subseteq Vms
  /\ staticIps \in [Ips -> StaticNames \cup {NoName}]
  /\ dnsRecords \subseteq Hosts \X Ips
  /\ run \in {"query", "loop", "returned", "failed", "killed", "panicked"}
  /\ lo \in 1 .. Len(Banned) + BatchSize
  /\ pc \in [Items -> Pcs]
  /\ mu \in Items \cup {NoItem}
  /\ new \in [Items -> Ips \cup {NoIp}]
  /\ success \in Nat /\ fail \in Nat
  /\ faults \in 0 .. MaxFaults

\* While no call has failed and nobody holds staticIpMu, m.staticIps is what AWS
\* has: the count that decides between allocating and restarting is the real one
\* (lenStaticIps, read under the mutex in processInstance).
CacheCoherent ==
  faults = 0 /\ mu = NoItem =>
    \A ip \in Ips, n \in StaticNames : staticIps[ip] = n <=> statics[n] = ip

\* While no call has failed, a goroutine about to allocate finds room in the region:
\* the check and the allocation cannot be separated by another goroutine's
\* allocation (TestStaticIpMutexPreventsOverAllocation).
AllocateWithinQuota ==
  faults = 0 =>
    \A i \in Items : pc[i] = "allocate" => Cardinality(Live) < MaxStaticIp

\* A DNS record is only ever deleted once its address belongs to no instance and
\* no static IP: whatever fails, clients are not cut off from a server that answers
\* (dropDnsRecord after processInstance, and for an item without instance).
DropsOnlyDeadAddresses == [][\A r \in dns \ dns' : ~ Owned(r[2])]_vars

\* When no two banned items are on one instance, an address told to the panel or
\* put into DNS is the one the item's instance has, whatever failed meanwhile.
AnnouncedIsServed ==
  \A i \in Items :
    /\ panel[i] # OldIp(i) => panel[i] = pubIp[VmOf(i)]
    /\ New(i) \in dns => new[i] = pubIp[VmOf(i)]

\* A run in which no call failed leaves out no item, also not of a short last batch, and
\* leaves every unreachable one that has a DNS host and an address no other item has with
\* a new address in the panel and in DNS, and the banned one gone from DNS (the batch loop
\* of Run, and processBannedItem as a whole).
Alone(i) == \A j \in Items \ {i} : HostOf(j) # NoHost => OldIp(j) # OldIp(i)
Converged ==
  run = "returned" /\ faults = 0 =>
    \A i \in Items :
      Alone(i) /\ pc[i] \notin {"skipped", "aborted"} =>
        /\ Old(i) \notin dns
        /\ VmOf(i) # NoVm =>
             pc[i] = "done" /\ panel[i] = pubIp[VmOf(i)] /\ <<HostOf(i), panel[i]>> \in dns

\* The nil address GetInstance may return for an instance that has none is not met
\* when no two items share an instance (the dereference after processInstance).
NoPanic == run # "panicked"

\* The job keeps the promise of StaticIpQuota when no two banned items share an instance:
\* an instance is taken down for a restart only when the region is full, but for one
\* static IP per lost call, and no item fails unless a call was lost, though the
\* goroutines of a batch release, count and allocate at once (processInstance).
Quota == INSTANCE StaticIpQuota WITH
  Requests <- Items, Names <- StaticNames,
  used <- Live,
  restarting <- {i \in Items : pc[i] \in RestartPcs},
  failed <- {i \in Items : pc[i] = "gaveUp"},
  lost <- faults
KeepsQuotaPromise == Quota!Spec

\* Run ends: no goroutine waits for ever for staticIpMu or for an instance state.
Termination == <>Over

\* What the comment in processBannedItem wants avoided: the panel told of a new
\* address that DNS does not have.
PanelNeverAheadOfDns ==
  run = "returned" =>
    \A i \in Items : panel[i] # OldIp(i) => <<HostOf(i), panel[i]>> \in dns
=============================================================================
