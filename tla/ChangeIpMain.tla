----------------------------- MODULE ChangeIpMain -----------------------------
(***************************************************************************)
(* The change-ip program around Run (cmd/change_ip/lightsail_cf/main.go):  *)
(* a process builds a job, reads AWS (Init), takes the lock file of its    *)
(* tags, works off the banned list and, while an address it got was        *)
(* unreachable, starts over.  Several processes are launched, one may die  *)
(* at any step.  The work on one node is that of ChangeIpJob with the      *)
(* calls that give an instance its new address taken as one step, on nodes *)
(* that have each an instance of their own and a host of their own or none.*)
(***************************************************************************)
EXTENDS Naturals, FiniteSets

CONSTANTS
  Procs,      \* launches of the program
  Nodes,      \* nodes the panel knows
  TagsOf,     \* the query tags each process is started with
  NodesOf,    \* the nodes the panel lists for a set of tags
  BatchSize,  \* conf.Concurrency, defaultBatchSize when 0
  MaxTryNum,  \* jobMaxTryNum
  MaxAddr,    \* bound on the addresses an instance gets, numbered from 0
  MaxFaults,  \* bound on failed calls, deaths and newly blocked addresses
  MaxOutages  \* bound on the times the ping service is down for three tries

Nobody == "nobody"
Addrs == 0 .. MaxAddr
Keys == {TagsOf[p] : p \in Procs}

ASSUME ProcsAssumption == Nobody \notin Procs
ASSUME NodesAssumption ==
  IsFiniteSet(Nodes) /\ \A k \in Keys : NodesOf[k] \subseteq Nodes
ASSUME BatchSizeAssumption == BatchSize \in Nat \ {0}
ASSUME MaxAssumption ==
  MaxTryNum \in Nat /\ MaxAddr \in Nat /\ MaxFaults \in Nat /\ MaxOutages \in Nat

VARIABLES
  hosts,    \* nodes with a DNS host; the host of the others is empty or a raw IP
  addr,     \* address of each node's instance
  blocked,  \* addresses, as <<node, address>>, that cannot be reached
  panel,    \* address the panel has for each node
  dns,      \* A records of each node's host
  lockFile, \* holder of the lock file of each set of tags
  step,     \* where each process is
  tryNum,   \* rounds it has begun
  snap,     \* m.instances: the address each instance had at Init
  list,     \* the banned list of the round: address of each listed node
  recs,     \* m.dnsRecords
  pc,       \* where processBannedItem is for each node
  new,      \* newIp of each node
  fail,     \* m.stats.fail
  down,     \* processes whose batchPing of the current batch answered nil
  overtaken, \* <<process, node, round>>: another changed the node's instance after
             \* the process had read AWS for that round
  faults,   \* failed calls but pings, deaths, addresses blocked meanwhile
  outages   \* times the ping service was down

world == <<addr, blocked, panel, dns>>
job == <<snap, list, recs, pc, new, fail, down>>
bounds == <<faults, outages>>
vars == <<hosts, world, lockFile, step, tryNum, job, overtaken, bounds>>

EndedSteps == {"over", "refused"}
Steps == {"off", "new", "inited", "locked", "batch"} \cup EndedSteps
InBatch == {"begin", "orphan", "rotate", "verify", "changeIp", "drop", "create"}
Busy == {"queued"} \cup InBatch
Pcs == {"idle", "skipped", "ended"} \cup Busy
None == MaxAddr + 1  \* not on the list, not known

Init ==
  /\ hosts \in SUBSET Nodes
  /\ addr = [n \in Nodes |-> 0]
  /\ blocked \in SUBSET {<<n, 0>> : n \in Nodes}
  /\ panel = addr
  /\ dns = [n \in Nodes |-> IF n \in hosts THEN {0} ELSE {}]
  /\ lockFile = [k \in Keys |-> Nobody]
  /\ step = [p \in Procs |-> "off"]
  /\ tryNum = [p \in Procs |-> 0]
  /\ snap = [p \in Procs |-> [n \in Nodes |-> None]]
  /\ list = [p \in Procs |-> [n \in Nodes |-> None]]
  /\ recs = [p \in Procs |-> [n \in Nodes |-> {}]]
  /\ pc = [p \in Procs |-> [n \in Nodes |-> "idle"]]
  /\ new = [p \in Procs |-> [n \in Nodes |-> None]]
  /\ fail = [p \in Procs |-> 0]
  /\ down = {}
  /\ overtaken = {}
  /\ faults = 0 /\ outages = 0

Key(p) == TagsOf[p]
Mine(p) == NodesOf[Key(p)]
Fault == faults < MaxFaults /\ faults' = faults + 1
To(p, s) == step' = [step EXCEPT ![p] = s]
Item(p, n, s) == pc' = [pc EXCEPT ![p][n] = s]
Unlock(p) ==
  lockFile' = [k \in Keys |-> IF lockFile[k] = p THEN Nobody ELSE lockFile[k]]

\* In its present round p works from an address n had before another changed it.
Overtaken(p, n) == <<p, n, tryNum[p]>> \in overtaken
NeverOvertaken(n) == \A t \in overtaken : t[2] # n

-----------------------------------------------------------------------------
(* The loop of main, Init and the frame of Run.                            *)

Launch(p) ==
  /\ step[p] = "off"
  /\ To(p, IF MaxTryNum > 0 THEN "new" ELSE "over")
  /\ UNCHANGED <<world, lockFile, tryNum, job, overtaken, bounds>>

\* NewLightsailCFJob and Init: a job of its own for every round, read from AWS
\* before the lock is taken.  A failure is fatal.
KeptInstances(p) ==
  /\ snap' = IF tryNum[p] = 0 THEN [snap EXCEPT ![p] = addr] ELSE snap
  /\ recs' = [recs EXCEPT ![p] = [n \in Nodes |-> {}]]
  /\ fail' = [fail EXCEPT ![p] = 0]
FreshJob(p) ==
  /\ snap' = [snap EXCEPT ![p] = addr]
  /\ recs' = [recs EXCEPT ![p] = [n \in Nodes |-> {}]]
  /\ fail' = [fail EXCEPT ![p] = 0]

InitJob(p) ==
  /\ step[p] = "new"
  /\ \/ To(p, "inited") /\ FreshJob(p) /\ UNCHANGED faults
     \/ To(p, "over") /\ Fault /\ UNCHANGED <<snap, recs, fail>>
  /\ tryNum' = [tryNum EXCEPT ![p] = @ + 1]
  /\ UNCHANGED <<world, lockFile, list, pc, new, down, overtaken, outages>>

AnyLock(p) == TRUE
LockFree(p) == lockFile[Key(p)] = Nobody

\* m.lock.TryLock: a process that does not get the file ends.
TryLock(p) ==
  /\ step[p] = "inited"
  /\ IF LockFree(p)
       THEN To(p, "locked") /\ lockFile' = [lockFile EXCEPT ![Key(p)] = p]
       ELSE To(p, "refused") /\ UNCHANGED lockFile
  /\ UNCHANGED <<world, tryNum, job, overtaken, bounds>>

\* prepareDnsForHosts of the listed nodes.
LoadNothing(p, banned) == UNCHANGED recs
LoadRecords(p, banned) ==
  recs' = [recs EXCEPT ![p] = [n \in Nodes |-> IF n \in banned THEN dns[n] ELSE {}]]

\* The list the panel answers with: every blocked node of the tags, and maybe others
\* (a service that was restarted).
QueryBannedList(p) ==
  {banned \in SUBSET Mine(p) : \A n \in Mine(p) : <<n, panel[n]>> \in blocked => n \in banned}

\* With an empty list Run returns at once, which is Return's first step.
Query(p) ==
  /\ step[p] = "locked"
  /\ \/ /\ \E banned \in QueryBannedList(p) :
             /\ list' = [list EXCEPT ![p] = [n \in Nodes |-> IF n \in banned THEN panel[n] ELSE None]]
             /\ LoadRecords(p, banned)
             /\ pc' = [pc EXCEPT ![p] = [n \in Nodes |-> IF n \in banned THEN "queued" ELSE "idle"]]
        /\ To(p, "batch")
        /\ UNCHANGED <<lockFile, faults>>
     \/ /\ Fault /\ To(p, "over") /\ Unlock(p)
        /\ UNCHANGED <<list, recs, pc>>
  /\ UNCHANGED <<world, tryNum, snap, new, fail, down, overtaken, outages>>

rerunState(p) == fail[p] > 0

MoreTriesOffByOne(p) == tryNum[p] <= MaxTryNum
MoreTries(p) == tryNum[p] < MaxTryNum

\* The return of Run, the deferred unlock, and the condition of the loop in main.
Return(p) ==
  /\ step[p] = "batch"
  /\ \A n \in Nodes : pc[p][n] \notin Busy
  /\ To(p, IF rerunState(p) /\ MoreTries(p) THEN "new" ELSE "over")
  /\ Unlock(p)
  /\ UNCHANGED <<world, tryNum, job, overtaken, bounds>>

\* The process dies (SIGKILL, a panic; SIGINT and SIGTERM are swallowed), and the
\* system drops its lock.
Die(p) ==
  /\ step[p] \notin {"off"} \cup EndedSteps
  /\ Fault
  /\ To(p, "over") /\ Unlock(p)
  /\ UNCHANGED <<world, tryNum, job, overtaken, outages>>

-----------------------------------------------------------------------------
(* The batches, and processBannedItem for one node.                        *)

Reachable(n, a) == addr[n] = a /\ <<n, a>> \notin blocked

\* Of the addresses a[n] of some nodes, those testPingBatch finds reachable.
TestPingBatch(nodes, a) == {n \in nodes : Reachable(n, a[n])}

\* When the service is down three times the map is nil, which reads as unreachable.
batchPing(nodes, a, up, nil) ==
  \/ ~ nil /\ up = TestPingBatch(nodes, a) /\ UNCHANGED outages
  \/ nil /\ up = {} /\ outages < MaxOutages /\ outages' = outages + 1

\* The next batch of the list, which the panel may give in any order.
NextBatch(p) ==
  LET queued == {n \in Nodes : pc[p][n] = "queued"}
  IN {batch \in SUBSET queued \ {{}} :
        Cardinality(batch) = BatchSize \/ (batch = queued /\ Cardinality(batch) < BatchSize)}

\* The items of a batch that get a goroutine.
EveryItem(batch, up) == batch
Unreachable(batch, up) == batch \ up

\* g.Wait of the batch before, and the ping before the goroutines.
PingBatch(p) ==
  /\ step[p] = "batch"
  /\ \A n \in Nodes : pc[p][n] \notin InBatch
  /\ \E batch \in NextBatch(p), up \in SUBSET Nodes, nil \in BOOLEAN :
       /\ batchPing(batch, list[p], up, nil)
       /\ pc' = [pc EXCEPT ![p] = [n \in Nodes |->
                   IF n \in Unreachable(batch, up) THEN "begin"
                   ELSE IF n \in batch THEN "skipped" ELSE pc[p][n]]]
       /\ down' = IF nil THEN down \cup {p} ELSE down \ {p}
  /\ UNCHANGED <<world, lockFile, step, tryNum, snap, list, recs, new, fail, overtaken, faults>>

\* An item without a DNS host is counted as failed and left as it is; for another the
\* instance is looked up.
Begin(p, n) ==
  /\ pc[p][n] = "begin"
  /\ IF n \in hosts
       THEN Item(p, n, IF snap[p][n] = list[p][n] THEN "rotate" ELSE "orphan") /\ UNCHANGED fail
       ELSE Item(p, n, "ended") /\ fail' = [fail EXCEPT ![p] = @ + 1]
  /\ UNCHANGED <<world, snap, list, recs, new, overtaken, bounds>>

\* The return of processBannedItem after an error of processInstance.
GoOnAfterError(p, n) == Item(p, n, "drop")
GiveUp(p, n) == Item(p, n, "ended")

\* The processes whose snapshot of n a change by p makes old.
Overtakes(p, n) ==
  {q \in Procs \ {p} : step[q] \in {"inited", "locked", "batch"} /\ n \in Mine(q)}

\* processInstance in one step: a new address, blocked or not, or an error which may
\* come after the instance has been changed.
ProcessInstance(p, n) ==
  /\ pc[p][n] = "rotate"
  /\ \/ /\ addr[n] < MaxAddr
        /\ addr' = [addr EXCEPT ![n] = @ + 1]
        /\ blocked' \in {blocked, blocked \cup {<<n, addr'[n]>>}}
        /\ overtaken' = overtaken \cup {<<q, n, tryNum[q]>> : q \in Overtakes(p, n)}
        /\ \/ /\ Item(p, n, "verify")
              /\ new' = [new EXCEPT ![p][n] = addr'[n]]
              /\ UNCHANGED faults
           \/ GiveUp(p, n) /\ Fault /\ UNCHANGED new
     \/ /\ GiveUp(p, n) /\ UNCHANGED <<addr, blocked, new, overtaken>>
        /\ IF addr[n] < MaxAddr THEN Fault ELSE UNCHANGED faults
  /\ UNCHANGED <<panel, dns, snap, list, recs, fail, outages>>

\* Whether the new address counts as failed: a ping service that is down proves nothing.
FailedUnlessNil(n, up, nil) == ~ nil /\ n \notin up
Failed(n, up, nil) == n \notin up

Verify(p, n) ==
  /\ pc[p][n] = "verify"
  /\ \E up \in SUBSET {n}, nil \in BOOLEAN :
       /\ batchPing({n}, new[p], up, nil)
       /\ fail' = [fail EXCEPT ![p] = IF Failed(n, up, nil) THEN @ + 1 ELSE @]
  /\ Item(p, n, "changeIp")
  /\ UNCHANGED <<world, snap, list, recs, new, overtaken, faults>>

\* Refused, lost, or done with the reply lost, the item goes on.
ChangeIP(p, n) ==
  /\ pc[p][n] = "changeIp"
  /\ \/ panel' = [panel EXCEPT ![n] = new[p][n]] /\ UNCHANGED faults
     \/ panel' \in {panel, [panel EXCEPT ![n] = new[p][n]]} /\ Fault
  /\ Item(p, n, "drop")
  /\ UNCHANGED <<addr, blocked, dns, snap, list, recs, new, fail, overtaken, outages>>

\* dropDnsRecord of the address on the list, with and without an instance; on an error,
\* be it that only the reply was lost, the record stays in the cache.
DropDnsRecord(p, n) ==
  /\ pc[p][n] \in {"drop", "orphan"}
  /\ LET old == list[p][n]
         known == old \in recs[p][n] \cap dns[n]
         drop == dns' = [dns EXCEPT ![n] = @ \ {old}]
     IN \/ /\ known /\ drop /\ UNCHANGED faults
           /\ recs' = [recs EXCEPT ![p][n] = @ \ {old}]
        \/ known /\ (drop \/ UNCHANGED dns) /\ Fault /\ UNCHANGED recs
        \/ ~ known /\ UNCHANGED <<dns, recs, faults>>
  /\ Item(p, n, IF pc[p][n] = "drop" THEN "create" ELSE "ended")
  /\ UNCHANGED <<addr, blocked, panel, snap, list, new, fail, overtaken, outages>>

CreateDnsRecord(p, n) ==
  /\ pc[p][n] = "create"
  /\ LET create == dns' = [dns EXCEPT ![n] = @ \cup {new[p][n]}]
     IN \/ /\ create /\ UNCHANGED faults
           /\ recs' = [recs EXCEPT ![p][n] = @ \cup {new[p][n]}]
        \/ (create \/ UNCHANGED dns) /\ Fault /\ UNCHANGED recs
  /\ Item(p, n, "ended")
  /\ UNCHANGED <<addr, blocked, panel, snap, list, new, fail, overtaken, outages>>

processBannedItem(p, n) ==
  /\ step[p] = "batch"
  /\ \/ Begin(p, n) \/ ProcessInstance(p, n) \/ Verify(p, n)
     \/ ChangeIP(p, n) \/ DropDnsRecord(p, n) \/ CreateDnsRecord(p, n)
  /\ UNCHANGED <<lockFile, step, tryNum, down>>

\* The wall blocks the address of a node, while the job runs or between launches.
Block(n) ==
  /\ Fault
  /\ blocked' = blocked \cup {<<n, addr[n]>>}
  /\ UNCHANGED <<addr, panel, dns, lockFile, step, tryNum, job, overtaken, outages>>

Proc(p) ==
  \/ Launch(p) \/ InitJob(p) \/ TryLock(p) \/ Query(p) \/ PingBatch(p) \/ Return(p)
  \/ \E n \in Nodes : processBannedItem(p, n)

AllOver == \A p \in Procs : step[p] \in EndedSteps
Done == AllOver /\ UNCHANGED vars

\* The hosts of the nodes stay as they are.
Next ==
  /\ \/ \E p \in Procs : Proc(p) \/ Die(p)
     \/ \E n \in Nodes : Block(n)
     \/ Done
  /\ UNCHANGED hosts

Spec == Init /\ [][Next]_vars

-----------------------------------------------------------------------------
MainTypeOK ==
  /\ hosts \subseteq Nodes
  /\ addr \in [Nodes -> Addrs] /\ panel \in [Nodes -> Addrs]
  /\ blocked \subseteq Nodes \X Addrs
  /\ dns \in [Nodes -> SUBSET Addrs]
  /\ lockFile \in [Keys -> Procs \cup {Nobody}]
  /\ step \in [Procs -> Steps]
  /\ tryNum \in [Procs -> 0 .. MaxTryNum]
  /\ snap \in [Procs -> [Nodes -> Addrs \cup {None}]]
  /\ list \in [Procs -> [Nodes -> Addrs \cup {None}]]
  /\ recs \in [Procs -> [Nodes -> SUBSET Addrs]]
  /\ pc \in [Procs -> [Nodes -> Pcs]]
  /\ new \in [Procs -> [Nodes -> Addrs \cup {None}]]
  /\ fail \in [Procs -> 0 .. Cardinality(Nodes)]
  /\ down \subseteq Procs
  /\ overtaken \subseteq Procs \X Nodes \X (1 .. MaxTryNum)
  /\ faults \in 0 .. MaxFaults /\ outages \in 0 .. MaxOutages

\* While a process is at work on a node, the address it got for it is the node's:
\* the lock file keeps processes of the same tags from taking an instance's address
\* away from each other (TryLock in Run).
HoldsItsAddress ==
  \A p \in Procs, n \in Nodes :
    step[p] = "batch" /\ pc[p][n] \in {"verify", "changeIp", "drop", "create"} =>
      new[p][n] = addr[n]

\* Whatever failed before, a lost ChangeIP included, an instance loses its address only when
\* that address is blocked; or in a batch during whose ping the service was down, or to a
\* process that had read AWS before another changed the instance.  The panel lists reachable
\* nodes too, and may still list an address the instance has left (the ping before each
\* batch, and the lookup by address in processBannedItem).
ReachableKept ==
  [][\A n \in Nodes :
       addr'[n] # addr[n] =>
         \/ <<n, addr[n]>> \in blocked
         \/ \E p \in Procs :
              pc[p][n] = "rotate" /\ pc'[p][n] # "rotate" /\ (p \in down \/ Overtaken(p, n))]_vars

\* Whatever failed and whoever died before, no DNS record is deleted while its address is
\* the instance's, but by a process that had read AWS, in this round, before another
\* changed the instance (Init comes before TryLock, and other tags have another lock).
DropsOnlyOldRecords ==
  [][\A n \in Nodes : \A a \in dns[n] \ dns'[n] :
       addr[n] = a => \E p \in Procs : Overtaken(p, n) /\ pc[p][n] = "orphan" /\ pc'[p][n] = "ended"]_vars

\* When no call failed, a round finds the instance behind every address on its list, unless
\* another process changed it meanwhile: the panel was told of what the round before did,
\* and the round reads AWS after it.
RoundSeesInstances ==
  faults = 0 => \A p \in Procs, n \in Nodes : pc[p][n] = "orphan" => Overtaken(p, n)

\* When no call failed but pings, the panel and DNS end with the address each instance has
\* and no other, for every node no process was overtaken on.
EndsCoherent ==
  AllOver /\ faults = 0 =>
    \A n \in Nodes :
      NeverOvertaken(n) =>
        panel[n] = addr[n] /\ dns[n] = (IF n \in hosts THEN {addr[n]} ELSE {})

\* When no call failed but pings, a node no process was overtaken on is left blocked only by
\* processes that used up their rounds or were refused the lock; after an outage of the ping
\* service, another may have changed it later, but used up its rounds (the condition on fail
\* in Run and the loop in main).
UsedUp(p) == step[p] = "over" /\ tryNum[p] = MaxTryNum
BlockedOnlyAfterMaxTry ==
  AllOver /\ faults = 0 =>
    \A n \in Nodes :
      NeverOvertaken(n) /\ <<n, addr[n]>> \in blocked =>
        \A p \in Procs :
          n \in Mine(p) /\ step[p] = "over" =>
            UsedUp(p) \/ (outages > 0 /\ \E q \in Procs : n \in Mine(q) /\ UsedUp(q))
=============================================================================
