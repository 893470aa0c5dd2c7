-------------------------- MODULE ChangeIpMainProofs --------------------------
(***************************************************************************)
(* Proofs about ChangeIpMain, with any number of launches, nodes, rounds,  *)
(* outages and failures: no live record is deleted and no reachable        *)
(* address given up but after an outage or by a process that was           *)
(* overtaken; and, as long as different tags mean different nodes, the     *)
(* lock file keeps a process from losing the address it has just got, the  *)
(* rounds end coherent, and a blocked node is tried to the last round.     *)
(***************************************************************************)
EXTENDS ChangeIpMain, FiniteSetTheorems, TLAPS

DisjointTags == \A k, l \in Keys : k # l => NodesOf[k] \cap NodesOf[l] = {}

Rotated == {"verify", "changeIp", "drop", "create"}

Typed ==
  /\ addr \in [Nodes -> Addrs]
  /\ lockFile \in [Keys -> Procs \cup {Nobody}]
  /\ step \in [Procs -> Steps]
  /\ pc \in [Procs -> [Nodes -> Pcs]]
  /\ new \in [Procs -> [Nodes -> Addrs \cup {None}]]

\* A process between TryLock and the end of Run has the lock file of its tags.
HasLock == \A p \in Procs : step[p] \in {"locked", "batch"} => lockFile[Key(p)] = p

\* It works on nodes of its tags only.
WorksOnItsNodes ==
  \A p \in Procs, n \in Nodes : step[p] = "batch" /\ pc[p][n] # "idle" => n \in Mine(p)

MainInv == Typed /\ HasLock /\ WorksOnItsNodes /\ HoldsItsAddress

-----------------------------------------------------------------------------
LEMMA MainInit == Init => MainInv
BY MaxAssumption
DEF Init, MainInv, Typed, HasLock, WorksOnItsNodes, HoldsItsAddress, Steps, Pcs, Addrs, None

\* What the ping of a batch does to the items of p, and of p only.
LEMMA PingItems ==
  ASSUME pc \in [Procs -> [Nodes -> Pcs]], NEW p \in Procs, PingBatch(p)
  PROVE  /\ step[p] = "batch" /\ pc' \in [Procs -> [Nodes -> Pcs]]
         /\ \A q \in Procs \ {p} : pc'[q] = pc[q] /\ (q \in down' <=> q \in down)
         /\ \A n \in Nodes :
              /\ pc[p][n] \notin InBatch
              /\ \/ pc'[p][n] = pc[p][n]
                 \/ pc[p][n] = "queued" /\ pc'[p][n] = "skipped" /\ Reachable(n, list[p][n])
                 \/ /\ pc[p][n] = "queued" /\ pc'[p][n] = "begin"
                    /\ p \in down' \/ ~ Reachable(n, list[p][n])
<1>1. PICK batch \in NextBatch(p), up \in SUBSET Nodes, nil \in BOOLEAN :
        /\ batchPing(batch, list[p], up, nil)
        /\ pc' = [pc EXCEPT ![p] = [n \in Nodes |->
                    IF n \in Unreachable(batch, up) THEN "begin"
                    ELSE IF n \in batch THEN "skipped" ELSE pc[p][n]]]
        /\ down' = IF nil THEN down \cup {p} ELSE down \ {p}
  BY DEF PingBatch
<1>2. \A n \in batch : n \in Nodes /\ pc[p][n] = "queued"
  BY DEF NextBatch
<1>3. \A n \in batch \cap up : Reachable(n, list[p][n])
  BY <1>1 DEF batchPing, TestPingBatch
<1>4. \A n \in batch \ up : nil \/ ~ Reachable(n, list[p][n])
  BY <1>1, <1>2 DEF batchPing, TestPingBatch
<1>5. \A n \in Nodes : pc'[p][n] = IF n \in batch \ up THEN "begin"
                                ELSE IF n \in batch THEN "skipped" ELSE pc[p][n]
  BY <1>1 DEF Unreachable
<1>6. nil => p \in down'
  BY <1>1
<1>7. pc' \in [Procs -> [Nodes -> Pcs]] /\ \A q \in Procs \ {p} : pc'[q] = pc[q]
  BY <1>1 DEF Pcs, Busy, InBatch
<1>8. \A q \in Procs \ {p} : q \in down' <=> q \in down
  BY <1>1
<1> QED
  BY <1>2, <1>3, <1>4, <1>5, <1>6, <1>7, <1>8 DEF PingBatch

LEMMA KeyIsKey == ASSUME NEW p \in Procs PROVE Key(p) \in Keys
BY DEF Key, Keys

\* A process that goes to a step outside Run, and may give its lock file back, disturbs
\* nobody: what it had locked was its own.
LEMMA LeavesRun ==
  ASSUME MainInv, NEW p \in Procs, NEW s \in Steps \ {"locked", "batch"}, To(p, s),
         UNCHANGED lockFile \/ Unlock(p), UNCHANGED <<addr, pc, new>>
  PROVE  MainInv'
<1>1. Typed'
  BY DEF MainInv, Typed, To, Unlock
<1>2. \A q \in Procs : step'[q] \in {"locked", "batch"} => q # p /\ step'[q] = step[q]
  BY DEF MainInv, Typed, To
<1>3. HasLock'
  BY <1>2, KeyIsKey DEF MainInv, HasLock, Unlock, Key
<1>4. WorksOnItsNodes' /\ HoldsItsAddress'
  BY <1>2 DEF MainInv, WorksOnItsNodes, HoldsItsAddress, Mine, Key
<1> QED
  BY <1>1, <1>3, <1>4 DEF MainInv

\* A step of an item of p that leaves the addresses alone.
LEMMA ItemKeeps ==
  ASSUME MainInv, NEW p \in Procs, NEW n \in Nodes, step[p] = "batch", pc[p][n] # "idle",
         NEW s \in Pcs \ {"idle"}, Item(p, n, s), s \in Rotated => pc[p][n] \in Rotated,
         UNCHANGED <<addr, new, lockFile, step>>
  PROVE  MainInv'
<1>1. Typed' /\ HasLock'
  BY DEF MainInv, Typed, HasLock, Item, Key
<1>2. \A q \in Procs, m \in Nodes : pc'[q][m] = IF q = p /\ m = n THEN s ELSE pc[q][m]
  BY DEF MainInv, Typed, Item
<1>3. WorksOnItsNodes' /\ HoldsItsAddress'
  BY <1>2 DEF MainInv, WorksOnItsNodes, HoldsItsAddress, Mine, Key, Rotated
<1> QED
  BY <1>1, <1>3 DEF MainInv

-----------------------------------------------------------------------------
(* The frame of Run.                                                       *)

LEMMA FrameKeeps ==
  ASSUME MainInv, NEW p \in Procs, Launch(p) \/ InitJob(p) \/ Return(p) \/ Die(p)
  PROVE  MainInv'
<1>1. CASE Launch(p)
  <2>1. \E s \in {"new", "over"} : To(p, s)
    BY <1>1 DEF Launch
  <2> QED
    BY <1>1, <2>1, LeavesRun DEF Launch, world, job, Steps, EndedSteps
<1>2. CASE InitJob(p)
  BY <1>2, LeavesRun DEF InitJob, world, Steps, EndedSteps
<1>3. CASE Return(p)
  <2>1. \E s \in {"new", "over"} : To(p, s)
    BY <1>3 DEF Return
  <2> QED
    BY <1>3, <2>1, LeavesRun DEF Return, world, job, Steps, EndedSteps
<1>4. CASE Die(p)
  BY <1>4, LeavesRun DEF Die, world, job, Steps, EndedSteps
<1> QED
  BY <1>1, <1>2, <1>3, <1>4

LEMMA TryLockKeeps ==
  ASSUME MainInv, NEW p \in Procs, TryLock(p)
  PROVE  MainInv'
<1>1. CASE ~ LockFree(p)
  BY <1>1, LeavesRun DEF TryLock, world, job, Steps, EndedSteps
<1>2. CASE LockFree(p)
  <2>1. /\ To(p, "locked") /\ lockFile' = [lockFile EXCEPT ![Key(p)] = p]
        /\ UNCHANGED <<addr, pc, new>> /\ step[p] = "inited"
    BY <1>2 DEF TryLock, world, job
  <2>2. Typed'
    BY <2>1, KeyIsKey DEF MainInv, Typed, To, Steps
  <2>3. \A q \in Procs \ {p} : step'[q] = step[q]
    BY <2>1 DEF MainInv, Typed, To
  <2>4. \A q \in Procs \ {p} : step[q] \in {"locked", "batch"} => Key(q) # Key(p)
    BY <1>2, ProcsAssumption DEF MainInv, HasLock, LockFree
  <2>5. lockFile'[Key(p)] = p /\ step'[p] = "locked"
    BY <2>1, KeyIsKey DEF MainInv, Typed, To
  <2>6. \A q \in Procs : step'[q] \in {"locked", "batch"} => lockFile'[Key(q)] = q
    BY <2>1, <2>3, <2>4, <2>5, KeyIsKey DEF MainInv, Typed, HasLock
  <2>7. HasLock'
    BY <2>6 DEF HasLock, Key
  <2>8. WorksOnItsNodes' /\ HoldsItsAddress'
    BY <2>1, <2>3, <2>5 DEF MainInv, WorksOnItsNodes, HoldsItsAddress, Mine, Key
  <2> QED
    BY <2>2, <2>7, <2>8 DEF MainInv
<1> QED
  BY <1>1, <1>2

LEMMA QueryKeeps ==
  ASSUME MainInv, NEW p \in Procs, Query(p)
  PROVE  MainInv'
<1>1. CASE To(p, "over")
  BY <1>1, LeavesRun DEF Query, world, Steps, EndedSteps, MainInv, Typed, To
<1>2. ASSUME NEW banned \in QueryBannedList(p), To(p, "batch"), UNCHANGED lockFile,
             pc' = [pc EXCEPT ![p] = [n \in Nodes |-> IF n \in banned THEN "queued" ELSE "idle"]]
      PROVE  MainInv'
  <2>1. banned \subseteq Mine(p) /\ step[p] = "locked" /\ UNCHANGED <<addr, new>>
    BY <1>2 DEF Query, QueryBannedList, world
  <2>2. Typed'
    BY <1>2, <2>1 DEF MainInv, Typed, To, Steps, Pcs, Busy
  <2>3. /\ step'[p] = "batch" /\ \A q \in Procs \ {p} : step'[q] = step[q] /\ pc'[q] = pc[q]
        /\ \A n \in Nodes : pc'[p][n] = IF n \in banned THEN "queued" ELSE "idle"
    BY <1>2 DEF MainInv, Typed, To
  <2>4. HasLock'
    BY <1>2, <2>1, <2>3 DEF MainInv, HasLock, Key
  <2>5. WorksOnItsNodes' /\ HoldsItsAddress'
    BY <2>1, <2>3 DEF MainInv, WorksOnItsNodes, HoldsItsAddress, Mine, Key
  <2> QED
    BY <2>2, <2>4, <2>5 DEF MainInv
<1> QED
  BY <1>1, <1>2 DEF Query

LEMMA PingKeeps ==
  ASSUME MainInv, NEW p \in Procs, PingBatch(p)
  PROVE  MainInv'
<1>1. UNCHANGED <<addr, new, lockFile, step>>
  BY DEF PingBatch, world
<1>2. Typed' /\ HasLock'
  BY <1>1, PingItems DEF MainInv, Typed, HasLock, Key
<1>3. \A q \in Procs, n \in Nodes :
        pc'[q][n] = pc[q][n] \/ (pc[q][n] = "queued" /\ pc'[q][n] \in {"begin", "skipped"})
  BY PingItems DEF MainInv, Typed
<1>4. WorksOnItsNodes' /\ HoldsItsAddress'
  BY <1>1, <1>3 DEF MainInv, WorksOnItsNodes, HoldsItsAddress, Mine, Key
<1> QED
  BY <1>2, <1>4 DEF MainInv

-----------------------------------------------------------------------------
(* processBannedItem.                                                      *)

\* A new address for n takes nothing from another process: n is of the tags p has locked.
LEMMA ProcessInstanceKeeps ==
  ASSUME DisjointTags, MainInv, NEW p \in Procs, NEW n \in Nodes, step[p] = "batch",
         ProcessInstance(p, n), UNCHANGED <<lockFile, step>>
  PROVE  MainInv'
<1>1. CASE UNCHANGED <<addr, new>> /\ GiveUp(p, n)
  BY <1>1, ItemKeeps DEF ProcessInstance, GiveUp, Pcs, Busy, InBatch, Rotated
<1>2. CASE /\ addr[n] < MaxAddr
           /\ addr' = [addr EXCEPT ![n] = @ + 1]
           /\ \/ Item(p, n, "verify") /\ new' = [new EXCEPT ![p][n] = addr'[n]]
              \/ GiveUp(p, n) /\ UNCHANGED new
  <2>1. addr' \in [Nodes -> Addrs]
    BY <1>2, MaxAssumption DEF MainInv, Typed, Addrs
  <2>2. Typed'
    <3>1. pc' \in [Procs -> [Nodes -> Pcs]]
      <4>1. PICK s \in {"verify", "ended"} : Item(p, n, s)
        BY <1>2 DEF GiveUp
      <4> QED
        BY <4>1 DEF MainInv, Typed, Item, Pcs, Busy, InBatch
    <3>2. addr'[n] \in Addrs
      BY <2>1
    <3>3. new' \in [Procs -> [Nodes -> Addrs \cup {None}]]
      <4>1. CASE new' = [new EXCEPT ![p][n] = addr'[n]]
        BY <4>1, <3>2 DEF MainInv, Typed
      <4> QED
        BY <1>2, <4>1 DEF MainInv, Typed
    <3> QED
      BY <2>1, <3>1, <3>3 DEF MainInv, Typed
  <2>3. ASSUME NEW q \in Procs \ {p}, step[q] = "batch"
        PROVE  pc[q][n] \notin Rotated
    <3>1. SUFFICES ASSUME pc[q][n] # "idle" PROVE FALSE
      BY DEF Rotated
    <3>2. n \in Mine(q) /\ n \in Mine(p)
      BY <2>3, <3>1 DEF MainInv, WorksOnItsNodes, ProcessInstance
    <3>3. Key(q) = Key(p)
      BY <3>2, KeyIsKey DEF DisjointTags, Mine
    <3> QED
      BY <2>3, <3>3 DEF MainInv, HasLock
  <2>4. /\ \A q \in Procs, m \in Nodes : q # p \/ m # n => pc'[q][m] = pc[q][m] /\ new'[q][m] = new[q][m]
        /\ \A m \in Nodes \ {n} : addr'[m] = addr[m]
        /\ (pc'[p][n] = "verify" /\ new'[p][n] = addr'[n]) \/ pc'[p][n] = "ended"
    BY <1>2, <2>1 DEF MainInv, Typed, Item, GiveUp
  <2>5. HasLock'
    BY DEF MainInv, HasLock, Key
  <2>6. WorksOnItsNodes'
    BY <2>4 DEF MainInv, WorksOnItsNodes, Mine, Key, ProcessInstance
  <2>7. HoldsItsAddress'
    BY <2>3, <2>4 DEF MainInv, HoldsItsAddress, Rotated
  <2> QED
    BY <2>2, <2>5, <2>6, <2>7 DEF MainInv
<1> QED
  BY <1>1, <1>2 DEF ProcessInstance

LEMMA ItemStepKeeps ==
  ASSUME DisjointTags, MainInv, NEW p \in Procs, NEW n \in Nodes, processBannedItem(p, n)
  PROVE  MainInv'
<1>1. step[p] = "batch" /\ UNCHANGED <<lockFile, step>>
  BY DEF processBannedItem
<1>2. CASE Begin(p, n)
  <2>1. \E s \in {"ended", "rotate", "orphan"} : Item(p, n, s)
    BY <1>2 DEF Begin
  <2> QED
    BY <1>1, <1>2, <2>1, ItemKeeps DEF Begin, world, Pcs, Busy, InBatch, Rotated
<1>3. CASE ProcessInstance(p, n)
  BY <1>1, <1>3, ProcessInstanceKeeps
<1>4. CASE Verify(p, n)
  BY <1>1, <1>4, ItemKeeps DEF Verify, world, Pcs, Busy, InBatch, Rotated
<1>5. CASE ChangeIP(p, n)
  BY <1>1, <1>5, ItemKeeps DEF ChangeIP, Pcs, Busy, InBatch, Rotated
<1>6. CASE DropDnsRecord(p, n)
  <2>1. \E s \in {"create", "ended"} : Item(p, n, s) /\ (s = "create" => pc[p][n] = "drop")
    BY <1>6 DEF DropDnsRecord
  <2> QED
    BY <1>1, <1>6, <2>1, ItemKeeps DEF DropDnsRecord, Pcs, Busy, InBatch, Rotated
<1>7. CASE CreateDnsRecord(p, n)
  BY <1>1, <1>7, ItemKeeps DEF CreateDnsRecord, Pcs, Busy, InBatch, Rotated
<1> QED
  BY <1>2, <1>3, <1>4, <1>5, <1>6, <1>7 DEF processBannedItem

LEMMA MainStep == DisjointTags /\ MainInv /\ [Next]_vars => MainInv'
<1> SUFFICES ASSUME DisjointTags, MainInv, [Next]_vars PROVE MainInv'
  OBVIOUS
<1>1. ASSUME NEW p \in Procs, Proc(p) \/ Die(p)
      PROVE  MainInv'
  BY <1>1, FrameKeeps, TryLockKeeps, QueryKeeps, PingKeeps, ItemStepKeeps DEF Proc
<1>2. ASSUME UNCHANGED <<addr, lockFile, step, pc, new>>
      PROVE  MainInv'
  BY <1>2 DEF MainInv, Typed, HasLock, WorksOnItsNodes, HoldsItsAddress, Mine, Key
<1>3. ASSUME NEW n \in Nodes, Block(n)
      PROVE  MainInv'
  BY <1>2, <1>3 DEF Block, job
<1>4. CASE UNCHANGED vars
  BY <1>2, <1>4 DEF vars, world, job
<1> QED
  BY <1>1, <1>3, <1>4 DEF Next, Done

\* For any launches with any tags, if no node is listed for two sets of tags, a process
\* keeps the address it got for a node until it has told the panel and DNS of it: TryLock
\* lets one process per set of tags into Run, and its lock is back when it ends or dies.
THEOREM KeepsItsAddress == ASSUME DisjointTags PROVE Spec => []HoldsItsAddress
<1>1. Spec => []MainInv
  BY MainInit, MainStep, PTL DEF Spec
<1>2. MainInv => HoldsItsAddress
  BY DEF MainInv
<1> QED
  BY <1>1, <1>2, PTL

-----------------------------------------------------------------------------
(* The records that are deleted.                                           *)

OldTyped ==
  /\ addr \in [Nodes -> Addrs] /\ panel \in [Nodes -> Addrs]
  /\ step \in [Procs -> Steps] /\ tryNum \in [Procs -> Nat]
  /\ pc \in [Procs -> [Nodes -> Pcs]]
  /\ list \in [Procs -> [Nodes -> Addrs \cup {None}]]
  /\ new \in [Procs -> [Nodes -> Addrs \cup {None}]]
  /\ snap \in [Procs -> [Nodes -> Addrs \cup {None}]]

\* p has read the address of n and not yet changed it.
Ahead == {"queued", "begin", "rotate", "orphan"}
Seen(p, n) ==
  \/ step[p] \in {"inited", "locked"}
  \/ step[p] = "batch" /\ pc[p][n] \in Ahead

\* Addresses grow: what p has on its list is never newer than the instance's address, and
\* older once p has changed it; what p has read is current unless p was overtaken, and
\* tells the instance behind the address on the list from an address without one.
Past(p, n) ==
  /\ pc[p][n] \in Busy => list[p][n] \in Addrs /\ list[p][n] <= addr[n]
  /\ pc[p][n] \in Rotated =>
       list[p][n] < addr[n] /\ new[p][n] \in Addrs /\ new[p][n] <= addr[n]
  /\ Seen(p, n) /\ n \in Mine(p) /\ ~ Overtaken(p, n) => snap[p][n] = addr[n]
  /\ step[p] = "batch" /\ pc[p][n] = "orphan" => snap[p][n] # list[p][n]
  /\ step[p] = "batch" /\ pc[p][n] = "rotate" => snap[p][n] = list[p][n]
  /\ step[p] = "batch" /\ pc[p][n] # "idle" => n \in Mine(p)
  /\ step[p] \in {"off", "new", "inited", "locked"} => pc[p][n] \notin Busy

OldInv ==
  /\ OldTyped
  /\ \A n \in Nodes : panel[n] <= addr[n]
  /\ \A p \in Procs, n \in Nodes : Past(p, n)

LEMMA OldInit == Init => OldInv
BY MaxAssumption
DEF Init, OldInv, OldTyped, Past, Seen, Steps, Pcs, Addrs, None, Busy, InBatch, Rotated

\* The steps of a process outside Run.
LEMMA OldFrame ==
  ASSUME OldInv, NEW p \in Procs, Launch(p) \/ InitJob(p) \/ TryLock(p) \/ Return(p) \/ Die(p)
  PROVE  OldInv'
<1>1. UNCHANGED <<addr, panel, pc, list, new, overtaken>>
  BY DEF Launch, InitJob, TryLock, Return, Die, world, job
<1>2. PICK s \in Steps :
        /\ To(p, s)
        /\ \/ s \in EndedSteps /\ UNCHANGED snap
           \/ s = "new" /\ UNCHANGED snap /\ step[p] = "off"
           \/ s = "new" /\ UNCHANGED snap /\ \A n \in Nodes : pc[p][n] \notin Busy
           \/ s = "inited" /\ snap' = [snap EXCEPT ![p] = addr] /\ step[p] = "new"
           \/ s = "locked" /\ UNCHANGED <<snap, tryNum>> /\ step[p] = "inited"
        /\ \A q \in Procs \ {p} : tryNum'[q] = tryNum[q]
  <2>1. {"new", "inited", "locked"} \cup EndedSteps \subseteq Steps /\ {"over", "refused"} = EndedSteps
    BY DEF Steps, EndedSteps
  <2>2. CASE Launch(p)
    BY <2>1, <2>2 DEF Launch, job
  <2>3. CASE InitJob(p)
    <3>1. \A q \in Procs \ {p} : tryNum'[q] = tryNum[q]
      BY <2>3 DEF InitJob, OldInv, OldTyped
    <3> QED
      BY <2>1, <2>3, <3>1 DEF InitJob, FreshJob
  <2>4. CASE TryLock(p)
    BY <2>1, <2>4 DEF TryLock, job
  <2>5. CASE Return(p)
    BY <2>1, <2>5 DEF Return, job
  <2>6. CASE Die(p)
    BY <2>1, <2>6 DEF Die, job
  <2> QED
    BY <2>2, <2>3, <2>4, <2>5, <2>6
<1>3. OldTyped'
  <2>1. tryNum' \in [Procs -> Nat]
    <3>1. tryNum' \in {tryNum, [tryNum EXCEPT ![p] = @ + 1]}
      BY DEF Launch, InitJob, TryLock, Return, Die
    <3>2. tryNum \in [Procs -> Nat] /\ tryNum[p] + 1 \in Nat
      BY DEF OldInv, OldTyped
    <3> QED
      BY <3>1, <3>2
  <2>2. snap' \in [Procs -> [Nodes -> Addrs \cup {None}]]
    <3>1. snap' \in {snap, [snap EXCEPT ![p] = addr]}
      BY <1>2
    <3> QED
      BY <3>1 DEF OldInv, OldTyped
  <2>3. step' \in [Procs -> Steps]
    BY <1>2 DEF OldInv, OldTyped, To
  <2> QED
    BY <1>1, <2>1, <2>2, <2>3 DEF OldInv, OldTyped
<1>4. /\ step'[p] = s /\ (s = "inited" => snap'[p] = addr)
      /\ \A q \in Procs \ {p} : step'[q] = step[q] /\ snap'[q] = snap[q]
  BY <1>2 DEF OldInv, OldTyped, To, EndedSteps
<1>5. ASSUME NEW q \in Procs, NEW n \in Nodes PROVE Past(q, n)'
  <2>1. CASE q # p
    BY <1>1, <1>2, <1>4, <2>1 DEF OldInv, Past, Seen, Overtaken, Mine, Key
  <2>2. CASE q = p
    <3>1. s \notin {"off", "batch"} /\ (s \in {"new", "inited", "locked"} => pc[p][n] \notin Busy)
      BY <1>2 DEF OldInv, Past, EndedSteps
    <3>2. s = "locked" /\ n \in Mine(p) /\ ~ Overtaken(p, n)' => snap'[p][n] = addr[n]
      BY <1>1, <1>2 DEF OldInv, Past, Seen, EndedSteps, Overtaken
    <3> QED
      BY <1>1, <1>4, <2>2, <3>1, <3>2 DEF OldInv, Past, Seen, Mine, Key
  <2> QED
    BY <2>1, <2>2
<1> QED
  BY <1>1, <1>3, <1>5 DEF OldInv

LEMMA OldQuery ==
  ASSUME OldInv, NEW p \in Procs, Query(p)
  PROVE  OldInv'
<1>1. UNCHANGED <<addr, panel, new, snap, tryNum, overtaken>>
  BY DEF Query, world
<1>2. CASE To(p, "over") /\ UNCHANGED <<list, pc>>
  <2>1. OldTyped'
    BY <1>1, <1>2 DEF OldInv, OldTyped, To, Steps, EndedSteps
  <2>2. step'[p] = "over" /\ \A q \in Procs \ {p} : step'[q] = step[q]
    BY <1>2 DEF OldInv, OldTyped, To
  <2>3. ASSUME NEW q \in Procs, NEW n \in Nodes PROVE Past(q, n)'
    BY <1>1, <1>2, <2>2 DEF OldInv, Past, Seen, Overtaken, Mine, Key
  <2> QED
    BY <1>1, <2>1, <2>3 DEF OldInv
<1>3. ASSUME NEW banned \in QueryBannedList(p), To(p, "batch"),
             list' = [list EXCEPT ![p] = [n \in Nodes |-> IF n \in banned THEN panel[n] ELSE None]],
             pc' = [pc EXCEPT ![p] = [n \in Nodes |-> IF n \in banned THEN "queued" ELSE "idle"]]
      PROVE  OldInv'
  <2>1. OldTyped'
    BY <1>1, <1>3 DEF OldInv, OldTyped, To, Steps, Pcs, Busy
  <2>2. /\ \A q \in Procs \ {p} : step'[q] = step[q] /\ pc'[q] = pc[q] /\ list'[q] = list[q]
        /\ step'[p] = "batch" /\ step[p] = "locked"
        /\ \A n \in Nodes : /\ pc'[p][n] = IF n \in banned THEN "queued" ELSE "idle"
                            /\ list'[p][n] = IF n \in banned THEN panel[n] ELSE None
    BY <1>3 DEF Query, OldInv, OldTyped, To
  <2>3. ASSUME NEW q \in Procs, NEW n \in Nodes PROVE Past(q, n)'
    <3>1. CASE q # p
      BY <1>1, <2>2, <3>1 DEF OldInv, Past, Seen, Overtaken, Mine, Key
    <3>2. CASE q = p
      <4>1. panel[n] \in Addrs /\ panel[n] <= addr[n]
        BY DEF OldInv, OldTyped
      <4>2. n \in Mine(p) /\ ~ Overtaken(p, n) => snap[p][n] = addr[n]
        BY <2>2 DEF OldInv, Past, Seen
      <4>3. n \in banned => n \in Mine(p)
        BY DEF QueryBannedList
      <4> QED
        BY <1>1, <2>2, <3>2, <4>1, <4>2, <4>3
           DEF Past, Seen, Ahead, Busy, InBatch, Rotated, Overtaken, Mine, Key
    <3> QED
      BY <3>1, <3>2
  <2> QED
    BY <1>1, <2>1, <2>3 DEF OldInv
<1> QED
  BY <1>2, <1>3 DEF Query

\* An item of p goes on to another step.
LEMMA OldItem ==
  ASSUME OldInv, NEW p \in Procs, NEW n \in Nodes, step[p] = "batch",
         NEW s \in Pcs \ {"idle"}, Item(p, n, s),
         UNCHANGED <<addr, list, new, snap, step, tryNum, overtaken>>, pc[p][n] # "idle",
         panel' \in [Nodes -> Addrs], \A m \in Nodes : panel'[m] <= addr[m],
         s \in Busy => pc[p][n] \in Busy,
         s \in Rotated => pc[p][n] \in Rotated,
         s \in Ahead => pc[p][n] \in Ahead,
         s = "orphan" => snap[p][n] # list[p][n], s = "rotate" => snap[p][n] = list[p][n]
  PROVE  OldInv'
<1>1. OldTyped'
  BY DEF OldInv, OldTyped, Item
<1>2. \A q \in Procs, m \in Nodes : pc'[q][m] = IF q = p /\ m = n THEN s ELSE pc[q][m]
  BY DEF OldInv, OldTyped, Item
<1>3. ASSUME NEW q \in Procs, NEW m \in Nodes PROVE Past(q, m)'
  <2>1. CASE q = p /\ m = n
    BY <1>2, <2>1 DEF OldInv, Past, Seen, Overtaken, Mine, Key
  <2>2. CASE q # p \/ m # n
    BY <1>2, <2>2 DEF OldInv, Past, Seen, Overtaken, Mine, Key
  <2> QED
    BY <2>1, <2>2
<1> QED
  BY <1>1, <1>3 DEF OldInv

LEMMA OldPing ==
  ASSUME OldInv, NEW p \in Procs, PingBatch(p)
  PROVE  OldInv'
<1>1. UNCHANGED <<addr, panel, list, new, snap, step, tryNum, overtaken>>
  BY DEF PingBatch, world
<1>2. /\ pc' \in [Procs -> [Nodes -> Pcs]]
      /\ \A q \in Procs, n \in Nodes :
           pc'[q][n] = pc[q][n] \/ (pc[q][n] = "queued" /\ pc'[q][n] \in {"begin", "skipped"})
  BY PingItems DEF OldInv, OldTyped
<1>3. OldTyped'
  BY <1>1, <1>2 DEF OldInv, OldTyped
<1>4. ASSUME NEW q \in Procs, NEW n \in Nodes PROVE Past(q, n)'
  <2>1. Past(q, n)
    BY DEF OldInv
  <2>2. CASE pc'[q][n] = pc[q][n]
    BY <1>1, <2>1, <2>2 DEF Past, Seen, Overtaken, Mine, Key
  <2>3. CASE pc[q][n] = "queued" /\ pc'[q][n] \in {"begin", "skipped"}
    BY <1>1, <2>1, <2>3 DEF Past, Seen, Ahead, Busy, InBatch, Rotated, Overtaken, Mine, Key
  <2> QED
    BY <1>2, <2>2, <2>3
<1> QED
  BY <1>1, <1>3, <1>4 DEF OldInv

LEMMA OldProcessInstance ==
  ASSUME OldInv, NEW p \in Procs, NEW n \in Nodes, step[p] = "batch",
         ProcessInstance(p, n), UNCHANGED <<step, tryNum>>
  PROVE  OldInv'
<1>1. CASE UNCHANGED <<addr, new, overtaken>> /\ GiveUp(p, n)
  BY <1>1, OldItem DEF ProcessInstance, GiveUp, Pcs, Busy, InBatch, Ahead, Rotated, OldInv, OldTyped
<1>2. CASE /\ addr[n] < MaxAddr
           /\ addr' = [addr EXCEPT ![n] = @ + 1]
           /\ overtaken' = overtaken \cup {<<q, n, tryNum[q]>> : q \in Overtakes(p, n)}
           /\ \/ Item(p, n, "verify") /\ new' = [new EXCEPT ![p][n] = addr'[n]]
              \/ GiveUp(p, n) /\ UNCHANGED new
  <2>1. addr' \in [Nodes -> Addrs] /\ addr'[n] = addr[n] + 1
    BY <1>2, MaxAssumption DEF OldInv, OldTyped, Addrs
  <2>2. \A m \in Nodes : addr[m] \in Nat /\ addr'[m] \in Nat /\ addr[m] <= addr'[m]
                        /\ (m # n => addr'[m] = addr[m])
    BY <1>2, <2>1, MaxAssumption DEF OldInv, OldTyped, Addrs
  <2>3. pc' \in [Procs -> [Nodes -> Pcs]] /\ new' \in [Procs -> [Nodes -> Addrs \cup {None}]]
    <3>1. PICK s \in {"verify", "ended"} : Item(p, n, s)
      BY <1>2 DEF GiveUp
    <3>2. addr'[n] \in Addrs
      BY <2>1
    <3>3. pc' \in [Procs -> [Nodes -> Pcs]]
      BY <3>1 DEF OldInv, OldTyped, Item, Pcs, Busy, InBatch
    <3>4. new' \in [Procs -> [Nodes -> Addrs \cup {None}]]
      <4>1. CASE new' = [new EXCEPT ![p][n] = addr'[n]]
        BY <3>2, <4>1 DEF OldInv, OldTyped
      <4> QED
        BY <1>2, <4>1 DEF OldInv, OldTyped
    <3> QED
      BY <3>3, <3>4
  <2>4. UNCHANGED <<panel, list, snap>> /\ pc[p][n] = "rotate"
    BY DEF ProcessInstance
  <2>5. OldTyped'
    BY <2>1, <2>3, <2>4 DEF OldInv, OldTyped
  <2>6. /\ \A q \in Procs, m \in Nodes : q # p \/ m # n => pc'[q][m] = pc[q][m] /\ new'[q][m] = new[q][m]
        /\ (pc'[p][n] = "verify" /\ new'[p][n] = addr'[n]) \/ pc'[p][n] = "ended"
    BY <1>2, <2>1 DEF OldInv, OldTyped, Item, GiveUp
  <2>7. ASSUME NEW q \in Procs, NEW m \in Nodes PROVE Past(q, m)'
    <3>1. CASE m # n
      <4>1. Overtaken(q, m) => Overtaken(q, m)'
        BY <1>2 DEF Overtaken
      <4> QED
        BY <2>2, <2>4, <2>6, <3>1, <4>1 DEF OldInv, Past, Seen, Mine, Key
    <3>2. CASE m = n /\ q # p
      <4>1. pc[q][n] \in Busy => list[q][n] \in Nat /\ list[q][n] <= addr'[n]
        BY <2>2 DEF OldInv, Past, Addrs
      <4>2. pc[q][n] \in Rotated => list[q][n] < addr'[n] /\ new[q][n] <= addr'[n]
        BY <2>2, <4>1 DEF OldInv, Past, Addrs, Busy, InBatch, Rotated
      <4>3. Seen(q, n)' /\ n \in Mine(q) => Overtaken(q, n)'
        BY <1>2, <3>2 DEF Seen, Overtakes, Overtaken
      <4> QED
        BY <2>4, <2>6, <3>2, <4>1, <4>2, <4>3 DEF OldInv, Past, Mine, Key
    <3>3. CASE m = n /\ q = p
      <4>1. list[p][n] \in Addrs /\ list[p][n] <= addr[n]
        BY <2>4 DEF OldInv, Past, Busy, InBatch
      <4>2. list[p][n] < addr'[n] /\ list[p][n] <= addr'[n] /\ addr'[n] \in Addrs /\ addr'[n] <= addr'[n]
        BY <2>1, <2>2, <4>1 DEF Addrs
      <4>3. n \in Mine(p)
        BY <2>4 DEF OldInv, Past
      <4> QED
        BY <2>4, <2>6, <3>3, <4>1, <4>2, <4>3 DEF Past, Seen, Ahead, Busy, InBatch, Rotated, Mine, Key
    <3> QED
      BY <3>1, <3>2, <3>3
  <2>8. \A m \in Nodes : panel'[m] <= addr'[m]
    BY <2>2, <2>4 DEF OldInv, OldTyped, Addrs
  <2> QED
    BY <2>5, <2>7, <2>8 DEF OldInv
<1> QED
  BY <1>1, <1>2 DEF ProcessInstance

LEMMA OldItemStep ==
  ASSUME OldInv, NEW p \in Procs, NEW n \in Nodes, processBannedItem(p, n)
  PROVE  OldInv'
<1>1. step[p] = "batch" /\ UNCHANGED <<step, tryNum>>
  BY DEF processBannedItem
<1>2. panel \in [Nodes -> Addrs] /\ \A m \in Nodes : panel[m] <= addr[m]
  BY DEF OldInv, OldTyped
<1>3. CASE Begin(p, n)
  <2>1. \E s \in {"ended", "rotate", "orphan"} :
          /\ Item(p, n, s)
          /\ s = "orphan" => snap[p][n] # list[p][n]
          /\ s = "rotate" => snap[p][n] = list[p][n]
    BY <1>3 DEF Begin
  <2> QED
    BY <1>1, <1>2, <1>3, <2>1, OldItem DEF Begin, world, Pcs, Busy, InBatch, Ahead, Rotated
<1>4. CASE ProcessInstance(p, n)
  BY <1>1, <1>4, OldProcessInstance
<1>5. CASE Verify(p, n)
  BY <1>1, <1>2, <1>5, OldItem DEF Verify, world, Pcs, Busy, InBatch, Ahead, Rotated
<1>6. CASE ChangeIP(p, n)
  <2>1. new[p][n] \in Addrs /\ new[p][n] <= addr[n]
    BY <1>6 DEF ChangeIP, OldInv, Past, Rotated
  <2>2. panel' \in [Nodes -> Addrs] /\ \A m \in Nodes : panel'[m] <= addr[m]
    BY <1>2, <1>6, <2>1 DEF ChangeIP
  <2> QED
    BY <1>1, <1>6, <2>2, OldItem DEF ChangeIP, Pcs, Busy, InBatch, Ahead, Rotated
<1>7. CASE DropDnsRecord(p, n)
  <2>1. \E s \in {"create", "ended"} : Item(p, n, s) /\ (s = "create" => pc[p][n] = "drop")
    BY <1>7 DEF DropDnsRecord
  <2> QED
    BY <1>1, <1>2, <1>7, <2>1, OldItem DEF DropDnsRecord, Pcs, Busy, InBatch, Ahead, Rotated
<1>8. CASE CreateDnsRecord(p, n)
  BY <1>1, <1>2, <1>8, OldItem DEF CreateDnsRecord, Pcs, Busy, InBatch, Ahead, Rotated
<1> QED
  BY <1>3, <1>4, <1>5, <1>6, <1>7, <1>8 DEF processBannedItem

LEMMA OldStep == OldInv /\ [Next]_vars => OldInv'
<1> SUFFICES ASSUME OldInv, [Next]_vars PROVE OldInv'
  OBVIOUS
<1>1. ASSUME NEW p \in Procs, Proc(p) \/ Die(p) PROVE OldInv'
  BY <1>1, OldFrame, OldQuery, OldPing, OldItemStep DEF Proc
<1>2. ASSUME UNCHANGED <<addr, panel, step, tryNum, pc, list, new, snap, overtaken>> PROVE OldInv'
  BY <1>2 DEF OldInv, OldTyped, Past, Seen, Overtaken, Mine, Key
<1>3. ASSUME NEW n \in Nodes, Block(n) PROVE OldInv'
  BY <1>2, <1>3 DEF Block, job
<1>4. CASE UNCHANGED vars
  BY <1>2, <1>4 DEF vars, world, job
<1> QED
  BY <1>1, <1>3, <1>4 DEF Next, Done

\* The record a step deletes is the one of the address on the list of the process.
LEMMA DropStep ==
  ASSUME OldInv, [Next]_vars, NEW n \in Nodes, NEW a \in dns[n] \ dns'[n], dns \in [Nodes -> SUBSET Addrs]
  PROVE  \E p \in Procs : /\ step[p] = "batch" /\ pc[p][n] \in {"drop", "orphan"}
                          /\ a = list[p][n]
                          /\ pc'[p][n] = IF pc[p][n] = "drop" THEN "create" ELSE "ended"
<1>1. CASE UNCHANGED dns
  BY <1>1
<1>2. ASSUME NEW p \in Procs, NEW m \in Nodes, step[p] = "batch", CreateDnsRecord(p, m) PROVE a \in dns'[n]
  BY <1>2 DEF CreateDnsRecord
<1>3. ASSUME NEW p \in Procs, NEW m \in Nodes, step[p] = "batch", DropDnsRecord(p, m)
      PROVE  /\ m = n /\ pc[p][n] \in {"drop", "orphan"} /\ a = list[p][n]
             /\ pc'[p][n] = IF pc[p][n] = "drop" THEN "create" ELSE "ended"
  BY <1>3 DEF DropDnsRecord, Item, OldInv, OldTyped
<1>4. ASSUME NEW p \in Procs, NEW m \in Nodes, processBannedItem(p, m)
      PROVE  UNCHANGED dns \/ CreateDnsRecord(p, m) \/ DropDnsRecord(p, m)
  BY <1>4 DEF processBannedItem, Begin, ProcessInstance, Verify, ChangeIP, world
<1>5. ASSUME NEW p \in Procs, Launch(p) \/ InitJob(p) \/ TryLock(p) \/ Query(p) \/ PingBatch(p) \/ Return(p) \/ Die(p)
      PROVE  UNCHANGED dns
  BY <1>5 DEF Launch, InitJob, TryLock, Query, PingBatch, Return, Die, world
<1>6. (\E m \in Nodes : Block(m)) \/ Done \/ UNCHANGED vars => UNCHANGED dns
  BY DEF Block, Done, vars, world
<1> QED
  BY <1>1, <1>2, <1>3, <1>4, <1>5, <1>6 DEF Next, Proc, processBannedItem

DnsTyped == dns \in [Nodes -> SUBSET Addrs]

LEMMA DnsStep ==
  ASSUME OldInv, DnsTyped, [Next]_vars
  PROVE  DnsTyped'
<1>1. ASSUME UNCHANGED dns PROVE DnsTyped'
  BY <1>1 DEF DnsTyped
<1>2. ASSUME NEW p \in Procs, NEW m \in Nodes, CreateDnsRecord(p, m) PROVE DnsTyped'
  <2>1. new[p][m] \in Addrs
    BY <1>2 DEF CreateDnsRecord, OldInv, Past, Rotated
  <2> QED
    BY <1>2, <2>1 DEF CreateDnsRecord, DnsTyped
<1>3. ASSUME NEW p \in Procs, NEW m \in Nodes, DropDnsRecord(p, m) PROVE DnsTyped'
  BY <1>3 DEF DropDnsRecord, DnsTyped
<1>4. ASSUME NEW p \in Procs, NEW m \in Nodes, processBannedItem(p, m) PROVE DnsTyped'
  BY <1>1, <1>2, <1>3, <1>4
     DEF processBannedItem, Begin, ProcessInstance, Verify, ChangeIP, world
<1>5. ASSUME NEW p \in Procs, Launch(p) \/ InitJob(p) \/ TryLock(p) \/ Query(p) \/ PingBatch(p) \/ Return(p) \/ Die(p)
      PROVE  UNCHANGED dns
  BY <1>5 DEF Launch, InitJob, TryLock, Query, PingBatch, Return, Die, world
<1>6. (\E m \in Nodes : Block(m)) \/ Done \/ UNCHANGED vars => UNCHANGED dns
  BY DEF Block, Done, vars, world
<1> QED
  BY <1>1, <1>4, <1>5, <1>6 DEF Next, Proc

\* Whatever fails and whoever dies, whichever tags the launches have: a record is never
\* deleted while its address is the instance's, but by a process that had read AWS, in this
\* round, before another changed the instance (dropDnsRecord, with and without an instance).
THEOREM DeletesOnlyOldRecords == Spec => DropsOnlyOldRecords
<1>1. Init => OldInv /\ DnsTyped
  BY OldInit, MaxAssumption DEF Init, DnsTyped, Addrs
<1>2. OldInv /\ DnsTyped /\ [Next]_vars => OldInv' /\ DnsTyped'
  BY OldStep, DnsStep
<1>3. OldInv /\ DnsTyped /\ [Next]_vars =>
        [\A n \in Nodes : \A a \in dns[n] \ dns'[n] :
           addr[n] = a => \E p \in Procs : Overtaken(p, n) /\ pc[p][n] = "orphan" /\ pc'[p][n] = "ended"]_vars
  <2> SUFFICES ASSUME OldInv, DnsTyped, [Next]_vars,
                      NEW n \in Nodes, NEW a \in dns[n] \ dns'[n], addr[n] = a
               PROVE  \E p \in Procs : Overtaken(p, n) /\ pc[p][n] = "orphan" /\ pc'[p][n] = "ended"
    OBVIOUS
  <2>1. PICK p \in Procs : /\ step[p] = "batch" /\ pc[p][n] \in {"drop", "orphan"}
                           /\ a = list[p][n]
                           /\ pc'[p][n] = IF pc[p][n] = "drop" THEN "create" ELSE "ended"
    BY DropStep DEF DnsTyped
  <2>2. pc[p][n] # "drop"
    <3>1. pc[p][n] = "drop" => list[p][n] < addr[n]
      BY DEF OldInv, Past, Rotated
    <3> QED
      BY <2>1, <3>1, MaxAssumption DEF OldInv, OldTyped, Addrs
  <2>3. Overtaken(p, n)
    BY <2>1, <2>2 DEF OldInv, Past, Seen, Ahead
  <2> QED
    BY <2>1, <2>2, <2>3
<1> QED
  BY <1>1, <1>2, <1>3, PTL DEF Spec, DropsOnlyOldRecords

-----------------------------------------------------------------------------
(* Rounds without failures, but for the pings.                             *)

Rotating(n) == \E p \in Procs : step[p] = "batch" /\ pc[p][n] \in {"verify", "changeIp"}

\* The panel has the address of every instance that no process is just changing, and so
\* has the list of the process that is about to.
CurrentInv ==
  faults = 0 =>
    /\ \A n \in Nodes : panel[n] = addr[n] \/ Rotating(n)
    /\ \A p \in Procs, n \in Nodes :
         /\ pc[p][n] \in Busy => step[p] = "batch"
         /\ pc[p][n] \in Ahead => list[p][n] = addr[n]

CInv == faults \in Nat /\ MainInv /\ OldInv /\ CurrentInv

LEMMA FaultStep ==
  ASSUME faults \in Nat, [Next]_vars
  PROVE  faults' \in Nat /\ (faults' = 0 => faults = 0)
<1> USE MaxAssumption DEF Fault
<1>1. ASSUME NEW p \in Procs, Launch(p) \/ InitJob(p) \/ TryLock(p) \/ Query(p) \/ PingBatch(p) \/ Return(p) \/ Die(p)
      PROVE  faults' \in Nat /\ (faults' = 0 => faults = 0)
  BY <1>1 DEF Launch, InitJob, TryLock, Query, PingBatch, Return, Die, bounds
<1>2. ASSUME NEW p \in Procs, NEW n \in Nodes, processBannedItem(p, n)
      PROVE  faults' \in Nat /\ (faults' = 0 => faults = 0)
  BY <1>2 DEF processBannedItem, Begin, ProcessInstance, Verify, ChangeIP, DropDnsRecord,
     CreateDnsRecord, bounds
<1>3. ASSUME (\E n \in Nodes : Block(n)) \/ Done \/ UNCHANGED vars
      PROVE  faults' \in Nat /\ (faults' = 0 => faults = 0)
  BY <1>3 DEF Block, Done, vars, bounds
<1> QED
  BY <1>1, <1>2, <1>3 DEF Next, Proc

\* Two processes in Run are not at work on one node.
LEMMA OneAtWork ==
  ASSUME DisjointTags, MainInv, NEW p \in Procs, NEW q \in Procs, NEW n \in Nodes,
         step[p] \in {"locked", "batch"}, n \in Mine(p), step[q] = "batch", pc[q][n] # "idle"
  PROVE  p = q
<1>1. n \in Mine(q) /\ Key(p) = Key(q)
  BY KeyIsKey DEF MainInv, WorksOnItsNodes, DisjointTags, Mine
<1> QED
  BY <1>1 DEF MainInv, HasLock

LEMMA CurrentFrame ==
  ASSUME CInv, NEW p \in Procs, Launch(p) \/ InitJob(p) \/ TryLock(p) \/ Return(p)
  PROVE  CurrentInv'
<1>1. UNCHANGED <<addr, panel, pc, list>> /\ (faults' = 0 => faults = 0)
  BY DEF Launch, InitJob, TryLock, Return, Fault, world, job, bounds, CInv
<1>2. /\ \A q \in Procs \ {p} : step'[q] = step[q]
      /\ \A n \in Nodes : pc[p][n] \notin Busy
  BY DEF Launch, InitJob, TryLock, Return, To, CInv, OldInv, OldTyped, Past
<1>3. \A n \in Nodes : Rotating(n) => Rotating(n)'
  BY <1>1, <1>2 DEF Rotating, Busy, InBatch
<1> QED
  BY <1>1, <1>2, <1>3 DEF CInv, CurrentInv

LEMMA CurrentQuery ==
  ASSUME DisjointTags, CInv, NEW p \in Procs, Query(p), faults' = 0
  PROVE  CurrentInv'
<1>1. faults = 0 /\ faults' = 0 /\ UNCHANGED <<addr, panel>> /\ step[p] = "locked"
  BY DEF Query, Fault, world, CInv
<1>2. PICK banned \in QueryBannedList(p) :
        /\ list' = [list EXCEPT ![p] = [n \in Nodes |-> IF n \in banned THEN panel[n] ELSE None]]
        /\ pc' = [pc EXCEPT ![p] = [n \in Nodes |-> IF n \in banned THEN "queued" ELSE "idle"]]
        /\ To(p, "batch")
  BY <1>1 DEF Query, Fault
<1>3. /\ \A q \in Procs \ {p} : step'[q] = step[q] /\ pc'[q] = pc[q] /\ list'[q] = list[q]
      /\ step'[p] = "batch"
      /\ \A n \in Nodes : /\ pc'[p][n] = IF n \in banned THEN "queued" ELSE "idle"
                          /\ list'[p][n] = IF n \in banned THEN panel[n] ELSE None
  BY <1>2 DEF CInv, OldInv, OldTyped, To
<1>4. \A n \in Nodes : Rotating(n) => Rotating(n)'
  BY <1>1, <1>3 DEF Rotating
<1>5. ASSUME NEW n \in banned PROVE panel[n] = addr[n]
  <2>1. n \in Mine(p) /\ n \in Nodes
    BY NodesAssumption, KeyIsKey DEF QueryBannedList, Mine
  <2>2. ~ Rotating(n)
    BY <1>1, <2>1, OneAtWork DEF Rotating, CInv
  <2> QED
    BY <1>1, <2>1, <2>2 DEF CInv, CurrentInv
<1> QED
  BY <1>1, <1>3, <1>4, <1>5 DEF CInv, CurrentInv, Busy, InBatch, Ahead

LEMMA CurrentPing ==
  ASSUME CInv, NEW p \in Procs, PingBatch(p), faults = 0
  PROVE  CurrentInv'
<1>1. UNCHANGED <<addr, panel, list, step>> /\ step[p] = "batch"
  BY DEF PingBatch, world
<1>2. \A q \in Procs, n \in Nodes :
        pc'[q][n] = pc[q][n] \/ (q = p /\ pc[q][n] = "queued" /\ pc'[q][n] \in {"begin", "skipped"})
  BY PingItems DEF CInv, OldInv, OldTyped
<1>3. \A n \in Nodes : Rotating(n) => Rotating(n)'
  BY <1>1, <1>2 DEF Rotating
<1> QED
  BY <1>1, <1>2, <1>3 DEF CInv, CurrentInv, Ahead

\* An item of p goes on to another step, and the panel keeps up.
LEMMA CurrentItem ==
  ASSUME CInv, NEW p \in Procs, NEW n \in Nodes, step[p] = "batch", faults = 0,
         NEW s \in Pcs, Item(p, n, s), UNCHANGED <<addr, list, step>>,
         \A m \in Nodes \ {n} : panel'[m] = panel[m],
         \/ panel' = panel /\ (pc[p][n] \in {"verify", "changeIp"} => s \in {"verify", "changeIp"})
         \/ panel'[n] = addr[n],
         s \in Ahead => pc[p][n] \in Ahead
  PROVE  CurrentInv'
<1>1. \A q \in Procs, m \in Nodes : pc'[q][m] = IF q = p /\ m = n THEN s ELSE pc[q][m]
  BY DEF CInv, OldInv, OldTyped, Item
<1>2. \A m \in Nodes : Rotating(m) /\ m # n => Rotating(m)'
  BY <1>1 DEF Rotating
<1>3. panel' = panel /\ Rotating(n) => Rotating(n)' \/ panel'[n] = addr[n]
  BY <1>1 DEF Rotating
<1>4. \A m \in Nodes : panel'[m] = addr'[m] \/ Rotating(m)'
  BY <1>2, <1>3 DEF CInv, CurrentInv
<1> QED
  BY <1>1, <1>4 DEF CInv, CurrentInv

LEMMA CurrentProcessInstance ==
  ASSUME DisjointTags, CInv, NEW p \in Procs, NEW n \in Nodes, step[p] = "batch", faults = 0, faults' = 0,
         ProcessInstance(p, n), UNCHANGED step
  PROVE  CurrentInv'
<1>1. CASE UNCHANGED addr /\ GiveUp(p, n)
  BY <1>1, CurrentItem DEF ProcessInstance, GiveUp, Pcs, Busy, InBatch, Ahead
<1>2. CASE addr' = [addr EXCEPT ![n] = @ + 1] /\ Item(p, n, "verify")
  <2>1. UNCHANGED <<panel, list>> /\ pc[p][n] = "rotate" /\ \A m \in Nodes \ {n} : addr'[m] = addr[m]
    BY <1>2 DEF ProcessInstance, CInv, OldInv, OldTyped
  <2>2. \A q \in Procs, m \in Nodes : pc'[q][m] = IF q = p /\ m = n THEN "verify" ELSE pc[q][m]
    BY <1>2 DEF CInv, OldInv, OldTyped, Item
  <2>3. Rotating(n)' /\ \A m \in Nodes \ {n} : Rotating(m) => Rotating(m)'
    BY <2>2 DEF Rotating
  <2>4. n \in Mine(p)
    BY <2>1 DEF CInv, MainInv, WorksOnItsNodes
  <2>5. \A q \in Procs \ {p} : pc[q][n] \notin Ahead
    BY <2>4, OneAtWork DEF CInv, CurrentInv, Busy, InBatch, Ahead
  <2> QED
    BY <2>1, <2>2, <2>3, <2>5 DEF CInv, CurrentInv, Busy, InBatch, Ahead
<1> QED
  BY <1>1, <1>2 DEF ProcessInstance, Fault

LEMMA CurrentItemStep ==
  ASSUME DisjointTags, CInv, NEW p \in Procs, NEW n \in Nodes, processBannedItem(p, n),
         faults = 0, faults' = 0
  PROVE  CurrentInv'
<1>1. step[p] = "batch" /\ UNCHANGED step
  BY DEF processBannedItem
<1>2. CASE Begin(p, n)
  <2>1. \E s \in {"ended", "rotate", "orphan"} : Item(p, n, s)
    BY <1>2 DEF Begin
  <2> QED
    BY <1>1, <1>2, <2>1, CurrentItem DEF Begin, world, Pcs, Busy, InBatch, Ahead
<1>3. CASE ProcessInstance(p, n)
  BY <1>1, <1>3, CurrentProcessInstance
<1>4. CASE Verify(p, n)
  BY <1>1, <1>4, CurrentItem DEF Verify, world, Pcs, Busy, InBatch, Ahead
<1>5. CASE ChangeIP(p, n)
  <2>1. new[p][n] = addr[n]
    BY <1>1, <1>5 DEF ChangeIP, CInv, MainInv, HoldsItsAddress
  <2>2. panel' = [panel EXCEPT ![n] = new[p][n]]
    BY <1>5 DEF ChangeIP, Fault
  <2>3. panel'[n] = addr[n] /\ \A m \in Nodes \ {n} : panel'[m] = panel[m]
    BY <2>1, <2>2 DEF CInv, OldInv, OldTyped
  <2> QED
    BY <1>1, <1>5, <2>3, CurrentItem DEF ChangeIP, Pcs, Busy, InBatch, Ahead
<1>6. CASE DropDnsRecord(p, n)
  <2>1. \E s \in {"create", "ended"} : Item(p, n, s)
    BY <1>6 DEF DropDnsRecord
  <2> QED
    BY <1>1, <1>6, <2>1, CurrentItem DEF DropDnsRecord, Pcs, Busy, InBatch, Ahead
<1>7. CASE CreateDnsRecord(p, n)
  BY <1>1, <1>7, CurrentItem DEF CreateDnsRecord, Pcs, Busy, InBatch, Ahead
<1> QED
  BY <1>2, <1>3, <1>4, <1>5, <1>6, <1>7 DEF processBannedItem

LEMMA CurrentStep ==
  ASSUME DisjointTags, CInv, [Next]_vars
  PROVE  CurrentInv'
<1> SUFFICES ASSUME faults' = 0 PROVE CurrentInv'
  BY DEF CurrentInv
<1>0. faults = 0
  BY FaultStep DEF CInv
<1>1. ASSUME NEW p \in Procs, Proc(p) PROVE CurrentInv'
  BY <1>0, <1>1, CurrentFrame, CurrentQuery, CurrentPing, CurrentItemStep DEF Proc
<1>2. ASSUME NEW p \in Procs, Die(p) PROVE FALSE
  BY <1>0, <1>2 DEF Die, Fault
<1>3. ASSUME NEW n \in Nodes, Block(n) PROVE FALSE
  BY <1>0, <1>3 DEF Block, Fault
<1>4. CASE UNCHANGED vars
  BY <1>0, <1>4 DEF vars, world, job, CInv, CurrentInv, Rotating
<1> QED
  BY <1>1, <1>2, <1>3, <1>4 DEF Next, Done

LEMMA CInvInvariant == ASSUME DisjointTags PROVE Spec => []CInv
<1>1. Init => CInv
  <2>1. Init => CurrentInv /\ faults \in Nat
    BY DEF Init, CurrentInv, Busy, InBatch, Ahead
  <2> QED
    BY <2>1, MainInit, OldInit DEF CInv
<1>2. CInv /\ [Next]_vars => CInv'
  BY MainStep, OldStep, CurrentStep, FaultStep DEF CInv
<1> QED
  BY <1>1, <1>2, PTL DEF Spec

LEMMA SeesInstances == CInv => RoundSeesInstances
<1> SUFFICES ASSUME CInv, faults = 0, NEW p \in Procs, NEW n \in Nodes, pc[p][n] = "orphan", ~ Overtaken(p, n)
             PROVE  FALSE
  BY DEF RoundSeesInstances
<1>1. step[p] = "batch" /\ list[p][n] = addr[n]
  BY DEF CInv, CurrentInv, Busy, InBatch, Ahead
<1> QED
  BY <1>1 DEF CInv, OldInv, Past, Seen, Ahead

\* When no call but pings has failed and nobody has died, a process finds the instance behind
\* every address on its list, in every round, unless another changed the instance after it
\* had read AWS for that round (the loop in main, Init before Run).
THEOREM RoundsFindInstances == ASSUME DisjointTags PROVE Spec => []RoundSeesInstances
BY SeesInstances, CInvInvariant, PTL

-----------------------------------------------------------------------------
(* The records at the end.                                                 *)

RecsTyped == recs \in [Procs -> [Nodes -> SUBSET Addrs]]

\* DNS has the address of every instance, but while a process is between the two.
Own(n) == IF n \in hosts THEN {addr[n]} ELSE {}
WorkedOn(n) == \E p \in Procs : step[p] = "batch" /\ pc[p][n] \in Rotated
RecordOf(p, n) ==
  /\ pc[p][n] \in {"rotate", "orphan"} \cup Rotated => n \in hosts
  /\ pc[p][n] \in {"queued", "begin"} /\ n \in hosts => list[p][n] \in recs[p][n]
  /\ pc[p][n] \in {"rotate", "verify", "changeIp", "drop"} => list[p][n] \in recs[p][n]
  /\ pc[p][n] \in {"verify", "changeIp", "drop"} => dns[n] = {list[p][n]}
  /\ pc[p][n] = "create" => dns[n] = {}
RecordsAt(n) == (dns[n] = Own(n) \/ WorkedOn(n)) /\ \A p \in Procs : RecordOf(p, n)
RecordsInv == faults = 0 => \A n \in Nodes : NeverOvertaken(n) => RecordsAt(n)

RInv == CInv /\ DnsTyped /\ RecsTyped /\ RecordsInv

LEMMA RecsStep ==
  ASSUME OldInv, DnsTyped, RecsTyped, [Next]_vars
  PROVE  RecsTyped'
<1>1. ASSUME UNCHANGED recs PROVE RecsTyped'
  BY <1>1 DEF RecsTyped
<1>2. ASSUME NEW p \in Procs, NEW m \in Nodes, CreateDnsRecord(p, m) PROVE RecsTyped'
  <2>1. new[p][m] \in Addrs
    BY <1>2 DEF CreateDnsRecord, OldInv, Past, Rotated
  <2> QED
    BY <1>2, <2>1 DEF CreateDnsRecord, RecsTyped
<1>3. ASSUME NEW p \in Procs, NEW m \in Nodes, DropDnsRecord(p, m) PROVE RecsTyped'
  BY <1>3 DEF DropDnsRecord, RecsTyped
<1>4. ASSUME NEW p \in Procs, NEW m \in Nodes, processBannedItem(p, m) PROVE RecsTyped'
  BY <1>1, <1>2, <1>3, <1>4
     DEF processBannedItem, Begin, ProcessInstance, Verify, ChangeIP
<1>5. ASSUME NEW p \in Procs, InitJob(p) PROVE RecsTyped'
  BY <1>5 DEF InitJob, FreshJob, RecsTyped
<1>6. ASSUME NEW p \in Procs, Query(p) PROVE RecsTyped'
  BY <1>6 DEF Query, LoadRecords, RecsTyped, DnsTyped
<1>7. ASSUME NEW p \in Procs, Launch(p) \/ TryLock(p) \/ PingBatch(p) \/ Return(p) \/ Die(p)
      PROVE  UNCHANGED recs
  BY <1>7 DEF Launch, TryLock, PingBatch, Return, Die, job
<1>8. (\E m \in Nodes : Block(m)) \/ Done \/ UNCHANGED vars => UNCHANGED recs
  BY DEF Block, Done, vars, job
<1> QED
  BY <1>1, <1>4, <1>5, <1>6, <1>7, <1>8 DEF Next, Proc

LEMMA RecordsFrame ==
  ASSUME RInv, NEW p \in Procs, Launch(p) \/ InitJob(p) \/ TryLock(p) \/ Return(p), UNCHANGED hosts,
         NEW n \in Nodes, RecordsAt(n)
  PROVE  RecordsAt(n)'
<1>1. UNCHANGED <<addr, dns, pc, list>>
  BY DEF Launch, InitJob, TryLock, Return, world, job
<1>2. /\ \A q \in Procs \ {p} : step'[q] = step[q] /\ recs'[q] = recs[q]
      /\ pc[p][n] \notin Busy
  BY DEF Launch, InitJob, TryLock, Return, To, FreshJob, job, RInv, RecsTyped, CInv, OldInv, OldTyped, Past
<1>3. WorkedOn(n) => WorkedOn(n)'
  BY <1>1, <1>2 DEF WorkedOn, Rotated, Busy, InBatch
<1>4. ASSUME NEW q \in Procs PROVE RecordOf(q, n)'
  <2>1. CASE q = p
    BY <1>1, <1>2, <2>1 DEF RecordOf, Rotated, Busy, InBatch
  <2>2. CASE q # p
    BY <1>1, <1>2, <2>2 DEF RecordsAt, RecordOf
  <2> QED
    BY <2>1, <2>2
<1> QED
  BY <1>1, <1>3, <1>4 DEF RecordsAt, Own

LEMMA RecordsQuery ==
  ASSUME DisjointTags, RInv, NEW p \in Procs, Query(p), UNCHANGED hosts, faults' = 0,
         NEW n \in Nodes, RecordsAt(n)
  PROVE  RecordsAt(n)'
<1>1. faults = 0 /\ UNCHANGED <<addr, panel, dns>> /\ step[p] = "locked"
  BY DEF Query, Fault, world, RInv, CInv
<1>2. PICK banned \in QueryBannedList(p) :
        /\ list' = [list EXCEPT ![p] = [m \in Nodes |-> IF m \in banned THEN panel[m] ELSE None]]
        /\ LoadRecords(p, banned)
        /\ pc' = [pc EXCEPT ![p] = [m \in Nodes |-> IF m \in banned THEN "queued" ELSE "idle"]]
        /\ To(p, "batch")
  BY <1>1 DEF Query, Fault
<1>3. /\ \A q \in Procs \ {p} :
           step'[q] = step[q] /\ pc'[q] = pc[q] /\ list'[q] = list[q] /\ recs'[q] = recs[q]
      /\ pc'[p][n] = IF n \in banned THEN "queued" ELSE "idle"
      /\ list'[p][n] = IF n \in banned THEN panel[n] ELSE None
      /\ recs'[p][n] = IF n \in banned THEN dns[n] ELSE {}
  BY <1>2 DEF RInv, CInv, OldInv, OldTyped, RecsTyped, To, LoadRecords
<1>4. WorkedOn(n) => WorkedOn(n)'
  BY <1>1, <1>3 DEF WorkedOn
<1>5. n \in banned => panel[n] = addr[n] /\ dns[n] = Own(n)
  <2> SUFFICES ASSUME n \in banned PROVE panel[n] = addr[n] /\ dns[n] = Own(n)
    OBVIOUS
  <2>1. n \in Mine(p)
    BY DEF QueryBannedList
  <2>2. ~ Rotating(n) /\ ~ WorkedOn(n)
    BY <1>1, <2>1, OneAtWork DEF Rotating, WorkedOn, Rotated, RInv, CInv
  <2> QED
    BY <1>1, <2>2 DEF RInv, CInv, CurrentInv, RecordsAt
<1>6. ASSUME NEW q \in Procs PROVE RecordOf(q, n)'
  <2>1. CASE q # p
    BY <1>1, <1>3, <2>1 DEF RecordsAt, RecordOf
  <2>2. CASE q = p
    BY <1>3, <1>5, <2>2 DEF RecordOf, Own, Rotated
  <2> QED
    BY <2>1, <2>2
<1> QED
  BY <1>1, <1>4, <1>6 DEF RecordsAt, Own

LEMMA RecordsPing ==
  ASSUME RInv, NEW p \in Procs, PingBatch(p), UNCHANGED hosts, NEW n \in Nodes, RecordsAt(n)
  PROVE  RecordsAt(n)'
<1>1. UNCHANGED <<addr, dns, step, list, recs>>
  BY DEF PingBatch, world
<1>2. \A q \in Procs :
        pc'[q][n] = pc[q][n] \/ (pc[q][n] = "queued" /\ pc'[q][n] \in {"begin", "skipped"})
  BY PingItems DEF RInv, CInv, OldInv, OldTyped
<1>3. WorkedOn(n) => WorkedOn(n)'
  BY <1>1, <1>2 DEF WorkedOn, Rotated
<1>4. ASSUME NEW q \in Procs PROVE RecordOf(q, n)'
  BY <1>1, <1>2 DEF RecordsAt, RecordOf, Rotated
<1> QED
  BY <1>1, <1>3, <1>4 DEF RecordsAt, Own

\* An item of p goes on to another step, and the record of its node with it.
LEMMA RecordsItem ==
  ASSUME DisjointTags, RInv, NEW p \in Procs, NEW n \in Nodes, step[p] = "batch",
         pc[p][n] # "idle", faults = 0, UNCHANGED <<hosts, list, step>>,
         NEW s \in Pcs, Item(p, n, s),
         dns'[n] = Own(n)' \/ s \in Rotated,
         s \in {"rotate", "orphan"} \cup Rotated => n \in hosts,
         s \in {"rotate", "verify", "changeIp", "drop"} => list[p][n] \in recs'[p][n],
         s \in {"verify", "changeIp", "drop"} => dns'[n] = {list[p][n]},
         s = "create" => dns'[n] = {},
         s \notin {"queued", "begin"}
  PROVE  RecordsAt(n)'
<1>1. \A q \in Procs : pc'[q][n] = IF q = p THEN s ELSE pc[q][n]
  BY DEF RInv, CInv, OldInv, OldTyped, Item
<1>2. n \in Mine(p)
  BY DEF RInv, CInv, MainInv, WorksOnItsNodes
<1>3. \A q \in Procs \ {p} : pc[q][n] \notin Busy
  <2>1. \A q \in Procs : pc[q][n] \in Busy => step[q] = "batch"
    BY DEF RInv, CInv, CurrentInv
  <2> QED
    BY <1>2, <2>1, OneAtWork DEF RInv, CInv, Busy, InBatch
<1>4. dns'[n] = Own(n)' \/ WorkedOn(n)'
  BY <1>1 DEF WorkedOn
<1>5. ASSUME NEW q \in Procs PROVE RecordOf(q, n)'
  <2>1. CASE q = p
    BY <1>1, <2>1 DEF RecordOf
  <2>2. CASE q # p
    BY <1>1, <1>3, <2>2 DEF RecordOf, Busy, InBatch, Rotated
  <2> QED
    BY <2>1, <2>2
<1> QED
  BY <1>4, <1>5 DEF RecordsAt

LEMMA RecordsItemStep ==
  ASSUME DisjointTags, RInv, NEW p \in Procs, NEW n \in Nodes, processBannedItem(p, n),
         UNCHANGED hosts, faults = 0, faults' = 0, NeverOvertaken(n), RecordsAt(n)
  PROVE  RecordsAt(n)'
<1>1. step[p] = "batch" /\ UNCHANGED step
  BY DEF processBannedItem
<1>2. n \in Mine(p) /\ pc[p][n] # "idle" /\ RecordOf(p, n)
  BY <1>1 DEF RecordsAt, RInv, CInv, MainInv, WorksOnItsNodes, processBannedItem, Begin,
     ProcessInstance, Verify, ChangeIP, DropDnsRecord, CreateDnsRecord
<1>3. pc[p][n] \in {"begin", "rotate", "orphan"} => dns[n] = Own(n) /\ list[p][n] = addr[n]
  <2>1. pc[p][n] \in {"begin", "rotate", "orphan"} => ~ WorkedOn(n)
    BY <1>1, <1>2, OneAtWork DEF WorkedOn, Rotated, RInv, CInv
  <2> QED
    BY <2>1 DEF RInv, CInv, CurrentInv, RecordsAt, Ahead
<1>4. CASE Begin(p, n)
  <2>1. \E s \in {"ended", "rotate", "orphan"} : Item(p, n, s) /\ (s # "ended" => n \in hosts)
    BY <1>4 DEF Begin
  <2>2. dns'[n] = Own(n)' /\ pc[p][n] = "begin" /\ UNCHANGED <<list, recs>>
    BY <1>3, <1>4 DEF Begin, world, Own
  <2> QED
    BY <1>1, <1>2, <2>1, <2>2, RecordsItem DEF RecordOf, Pcs, Busy, InBatch, Rotated
<1>5. CASE ProcessInstance(p, n)
  <2>0. UNCHANGED <<dns, list, recs>> /\ pc[p][n] = "rotate"
    BY <1>5 DEF ProcessInstance
  <2>1. CASE UNCHANGED addr /\ GiveUp(p, n)
    BY <1>1, <1>2, <1>3, <2>0, <2>1, RecordsItem
       DEF GiveUp, Own, RecordOf, Pcs, Busy, InBatch, Rotated
  <2>2. CASE Item(p, n, "verify")
    <3>1. n \in hosts /\ dns[n] = {list[p][n]} /\ list[p][n] \in recs[p][n]
      BY <1>2, <1>3, <2>0 DEF Own, RecordOf
    <3> QED
      BY <1>1, <1>2, <2>0, <2>2, <3>1, RecordsItem DEF Pcs, Busy, InBatch, Rotated
  <2> QED
    BY <1>5, <2>1, <2>2 DEF ProcessInstance, Fault
<1>6. CASE Verify(p, n)
  BY <1>1, <1>2, <1>6, RecordsItem DEF Verify, world, RecordOf, Pcs, Busy, InBatch, Rotated
<1>7. CASE ChangeIP(p, n)
  BY <1>1, <1>2, <1>7, RecordsItem DEF ChangeIP, RecordOf, Pcs, Busy, InBatch, Rotated
<1>8. CASE DropDnsRecord(p, n) /\ pc[p][n] = "drop"
  <2>1. list[p][n] \in recs[p][n] \cap dns[n] /\ n \in hosts
    BY <1>2, <1>8 DEF RecordOf, Rotated
  <2>2. /\ dns' = [dns EXCEPT ![n] = @ \ {list[p][n]}]
        /\ Item(p, n, "create") /\ UNCHANGED <<addr, list>>
    BY <1>8, <2>1 DEF DropDnsRecord, Fault
  <2>3. dns'[n] = {}
    BY <1>2, <1>8, <2>2 DEF RInv, DnsTyped, RecordOf
  <2> QED
    BY <1>1, <1>2, <2>1, <2>2, <2>3, RecordsItem DEF Pcs, Busy, InBatch, Rotated
<1>9. CASE CreateDnsRecord(p, n)
  <2>1. /\ dns' = [dns EXCEPT ![n] = @ \cup {new[p][n]}]
        /\ Item(p, n, "ended") /\ UNCHANGED <<addr, list>> /\ pc[p][n] = "create"
    BY <1>9 DEF CreateDnsRecord, Fault
  <2>2. new[p][n] = addr[n] /\ n \in hosts
    BY <1>1, <1>2, <2>1 DEF RInv, CInv, MainInv, HoldsItsAddress, RecordOf, Rotated
  <2>3. dns'[n] = Own(n)'
    BY <1>2, <2>1, <2>2 DEF RInv, DnsTyped, RecordOf, Own
  <2> QED
    BY <1>1, <1>2, <2>1, <2>3, RecordsItem DEF Pcs, Busy, InBatch, Rotated
<1>10. CASE DropDnsRecord(p, n) /\ pc[p][n] = "orphan"
  <2>1. FALSE
    BY <1>10, SeesInstances DEF RInv, RoundSeesInstances, Overtaken, NeverOvertaken
  <2> QED
    BY <2>1
<1> QED
  BY <1>4, <1>5, <1>6, <1>7, <1>8, <1>9, <1>10 DEF processBannedItem, DropDnsRecord

\* An item leaves the records of the other nodes alone.
LEMMA RecordsOthers ==
  ASSUME RInv, NEW p \in Procs, NEW m \in Nodes, processBannedItem(p, m), UNCHANGED hosts,
         NEW n \in Nodes \ {m}, RecordsAt(n)
  PROVE  RecordsAt(n)'
<1>1. UNCHANGED <<step, list>>
  BY DEF processBannedItem, Begin, ProcessInstance, Verify, ChangeIP, DropDnsRecord, CreateDnsRecord
<1>2. \A q \in Procs : pc'[q][n] = pc[q][n]
  <2>1. \E s \in Pcs : Item(p, m, s)
    BY DEF processBannedItem, Begin, ProcessInstance, GiveUp, Verify, ChangeIP, DropDnsRecord,
       CreateDnsRecord, Pcs, Busy, InBatch
  <2> QED
    BY <2>1 DEF Item, RInv, CInv, OldInv, OldTyped
<1>3. dns'[n] = dns[n]
  BY DEF processBannedItem, Begin, ProcessInstance, Verify, ChangeIP, DropDnsRecord,
     CreateDnsRecord, world, RInv, DnsTyped
<1>4. addr'[n] = addr[n]
  BY DEF processBannedItem, Begin, ProcessInstance, Verify, ChangeIP, DropDnsRecord,
     CreateDnsRecord, world, RInv, CInv, OldInv, OldTyped
<1>5. \A q \in Procs : recs'[q][n] = recs[q][n]
  BY DEF processBannedItem, Begin, ProcessInstance, Verify, ChangeIP, DropDnsRecord,
     CreateDnsRecord, RInv, RecsTyped
<1>6. WorkedOn(n) => WorkedOn(n)'
  BY <1>1, <1>2 DEF WorkedOn
<1>7. \A q \in Procs : RecordOf(q, n)'
  BY <1>1, <1>2, <1>3, <1>5 DEF RecordsAt, RecordOf
<1> QED
  BY <1>3, <1>4, <1>6, <1>7 DEF RecordsAt, Own

LEMMA OvertakenGrows == [Next]_vars => overtaken \subseteq overtaken'
<1> SUFFICES ASSUME [Next]_vars PROVE overtaken \subseteq overtaken'
  OBVIOUS
<1>1. ASSUME NEW p \in Procs, Proc(p) \/ Die(p) PROVE overtaken \subseteq overtaken'
  <2>1. ASSUME NEW n \in Nodes, processBannedItem(p, n) PROVE overtaken \subseteq overtaken'
    BY <2>1 DEF processBannedItem, Begin, ProcessInstance, Verify, ChangeIP, DropDnsRecord, CreateDnsRecord
  <2>2. CASE \A n \in Nodes : ~ processBannedItem(p, n)
    BY <1>1, <2>2 DEF Proc, Die, Launch, InitJob, TryLock, Query, PingBatch, Return
  <2> QED
    BY <2>1, <2>2
<1>2. (\E n \in Nodes : Block(n)) \/ UNCHANGED vars => overtaken \subseteq overtaken'
  BY DEF Block, vars
<1> QED
  BY <1>1, <1>2 DEF Next, Done

LEMMA RecordsStep ==
  ASSUME DisjointTags, RInv, [Next]_vars
  PROVE  RecordsInv'
<1> SUFFICES ASSUME faults' = 0, NEW n \in Nodes, NeverOvertaken(n)' PROVE RecordsAt(n)'
  BY DEF RecordsInv
<1>0. faults = 0 /\ NeverOvertaken(n) /\ RecordsAt(n) /\ UNCHANGED hosts
  <2>1. faults = 0 /\ NeverOvertaken(n)
    BY FaultStep, OvertakenGrows DEF RInv, CInv, NeverOvertaken
  <2> QED
    BY <2>1 DEF RInv, RecordsInv, Next, vars
<1>1. ASSUME NEW p \in Procs, Launch(p) \/ InitJob(p) \/ TryLock(p) \/ Query(p) \/ PingBatch(p) \/ Return(p)
      PROVE  RecordsAt(n)'
  BY <1>0, <1>1, RecordsFrame, RecordsQuery, RecordsPing
<1>2. ASSUME NEW p \in Procs, NEW m \in Nodes, processBannedItem(p, m) PROVE RecordsAt(n)'
  BY <1>0, <1>2, RecordsItemStep, RecordsOthers
<1>3. ASSUME NEW p \in Procs, Die(p) PROVE FALSE
  BY <1>0, <1>3 DEF Die, Fault
<1>4. ASSUME NEW m \in Nodes, Block(m) PROVE FALSE
  BY <1>0, <1>4 DEF Block, Fault
<1>5. CASE UNCHANGED vars
  BY <1>0, <1>5 DEF vars, world, job, RecordsAt, RecordOf, WorkedOn, Own
<1> QED
  BY <1>1, <1>2, <1>3, <1>4, <1>5 DEF Next, Proc, Done

\* When no call but pings has failed and nobody has died, once every launch is over the panel
\* and DNS have the address of each instance and no other, for every node no process was
\* overtaken on (processBannedItem, round after round).
THEOREM AllEndCoherent == ASSUME DisjointTags PROVE Spec => []EndsCoherent
<1>1. Init => DnsTyped /\ RecsTyped /\ RecordsInv
  BY MaxAssumption DEF Init, DnsTyped, RecsTyped, RecordsInv, RecordsAt, RecordOf, Own, Rotated, Addrs
<1>2. RInv /\ [Next]_vars => DnsTyped' /\ RecsTyped' /\ RecordsInv'
  BY DnsStep, RecsStep, RecordsStep DEF RInv, CInv
<1>3. RInv => EndsCoherent
  <2> SUFFICES ASSUME RInv, AllOver, faults = 0, NEW n \in Nodes, NeverOvertaken(n)
               PROVE  panel[n] = addr[n] /\ dns[n] = Own(n)
    BY DEF EndsCoherent, Own
  <2>1. ~ Rotating(n) /\ ~ WorkedOn(n)
    BY DEF AllOver, EndedSteps, Rotating, WorkedOn
  <2> QED
    BY <2>1 DEF RInv, CInv, CurrentInv, RecordsInv, RecordsAt
<1> QED
  BY <1>1, <1>2, <1>3, CInvInvariant, PTL DEF Spec, RInv

-----------------------------------------------------------------------------
(* The addresses that are given up.                                        *)

\* What a process is about to change was found blocked by its ping, if the service was up
\* and the instance still has the address.
PingedBlocked(p, n) ==
  pc[p][n] \in {"begin", "rotate"} /\ p \notin down /\ list[p][n] = addr[n] =>
    <<n, addr[n]>> \in blocked
BlockedInv == \A p \in Procs, n \in Nodes : PingedBlocked(p, n)

LEMMA BlockedItem ==
  ASSUME OldInv, BlockedInv, NEW p \in Procs, NEW n \in Nodes, processBannedItem(p, n),
         NEW q \in Procs, NEW m \in Nodes
  PROVE  PingedBlocked(q, m)'
<1>1. blocked \subseteq blocked' /\ UNCHANGED <<list, down>>
  BY DEF processBannedItem, Begin, ProcessInstance, Verify, ChangeIP, DropDnsRecord,
     CreateDnsRecord, world
<1>2. pc'[q][m] \in {"begin", "rotate"} => pc[q][m] \in {"begin", "rotate"}
  <2>1. PICK s \in Pcs : Item(p, n, s) /\ (s \in {"begin", "rotate"} => pc[p][n] = "begin")
    BY DEF processBannedItem, Begin, ProcessInstance, GiveUp, Verify, ChangeIP, DropDnsRecord,
       CreateDnsRecord, Pcs, Busy, InBatch
  <2> QED
    BY <2>1 DEF Item, OldInv, OldTyped
<1>3. CASE addr'[m] = addr[m]
  BY <1>1, <1>2, <1>3 DEF BlockedInv, PingedBlocked
<1>4. CASE addr'[m] # addr[m]
  <2>1. addr'[m] = addr[m] + 1
    BY <1>4 DEF processBannedItem, Begin, ProcessInstance, Verify, ChangeIP, DropDnsRecord,
       CreateDnsRecord, world, OldInv, OldTyped
  <2>2. pc[q][m] \in Busy => list[q][m] \in Nat /\ addr[m] \in Nat /\ list[q][m] <= addr[m]
    BY MaxAssumption DEF OldInv, OldTyped, Past, Addrs
  <2> QED
    BY <1>1, <1>2, <2>1, <2>2 DEF PingedBlocked, Busy, InBatch
<1> QED
  BY <1>3, <1>4

LEMMA BlockedPing ==
  ASSUME OldInv, BlockedInv, NEW p \in Procs, PingBatch(p), NEW q \in Procs, NEW m \in Nodes
  PROVE  PingedBlocked(q, m)'
<1>1. UNCHANGED <<addr, blocked, list>>
  BY DEF PingBatch, world
<1>2. pc \in [Procs -> [Nodes -> Pcs]]
  BY DEF OldInv, OldTyped
<1>3. CASE q # p
  BY <1>1, <1>2, <1>3, PingItems DEF BlockedInv, PingedBlocked
<1>4. CASE q = p
  <2>1. pc'[p][m] \in {"begin", "rotate"} => p \in down' \/ ~ Reachable(m, list[p][m])
    BY <1>2, PingItems DEF InBatch
  <2> QED
    BY <1>1, <1>4, <2>1 DEF PingedBlocked, Reachable
<1> QED
  BY <1>3, <1>4

LEMMA BlockedStep == OldInv /\ BlockedInv /\ [Next]_vars => BlockedInv'
<1> SUFFICES ASSUME OldInv, BlockedInv, [Next]_vars, NEW q \in Procs, NEW m \in Nodes
             PROVE  PingedBlocked(q, m)'
  BY DEF BlockedInv
<1>1. ASSUME UNCHANGED <<addr, pc, list, down>>, blocked \subseteq blocked' PROVE PingedBlocked(q, m)'
  BY <1>1 DEF BlockedInv, PingedBlocked
<1>2. ASSUME NEW p \in Procs, Launch(p) \/ InitJob(p) \/ TryLock(p) \/ Return(p) \/ Die(p)
      PROVE  PingedBlocked(q, m)'
  BY <1>1, <1>2 DEF Launch, InitJob, TryLock, Return, Die, world, job
<1>3. ASSUME NEW p \in Procs, Query(p) PROVE PingedBlocked(q, m)'
  <2>1. UNCHANGED <<addr, blocked, down>>
    BY <1>3 DEF Query, world
  <2>2. CASE UNCHANGED <<list, pc>>
    BY <1>1, <2>1, <2>2
  <2>3. CASE \E banned \in QueryBannedList(p) :
               /\ list' = [list EXCEPT ![p] = [n \in Nodes |-> IF n \in banned THEN panel[n] ELSE None]]
               /\ pc' = [pc EXCEPT ![p] = [n \in Nodes |-> IF n \in banned THEN "queued" ELSE "idle"]]
    <3>1. q = p => pc'[q][m] \in {"queued", "idle"}
      BY <2>3 DEF OldInv, OldTyped
    <3>2. q # p => pc'[q] = pc[q] /\ list'[q] = list[q]
      BY <2>3 DEF OldInv, OldTyped
    <3> QED
      BY <2>1, <3>1, <3>2 DEF BlockedInv, PingedBlocked
  <2> QED
    BY <1>3, <2>2, <2>3 DEF Query
<1>4. ASSUME NEW n \in Nodes, Block(n) PROVE PingedBlocked(q, m)'
  BY <1>1, <1>4 DEF Block, job
<1>5. CASE UNCHANGED vars
  BY <1>1, <1>5 DEF vars, world, job
<1> QED
  BY <1>2, <1>3, <1>4, <1>5, BlockedItem, BlockedPing DEF Next, Proc, Done

\* The step that changes an address.
LEMMA ChangeStep ==
  ASSUME OldInv, [Next]_vars, NEW n \in Nodes, addr'[n] # addr[n]
  PROVE  \E p \in Procs : /\ processBannedItem(p, n) /\ ProcessInstance(p, n) /\ step[p] = "batch"
                          /\ addr[n] < MaxAddr /\ addr' = [addr EXCEPT ![n] = @ + 1]
                          /\ Item(p, n, "verify") \/ (Item(p, n, "ended") /\ Fault)
<1>1. PICK p \in Procs, m \in Nodes : processBannedItem(p, m)
  BY DEF Next, vars, world, Proc, Done, Block, Die, Launch, InitJob, TryLock, Query, PingBatch, Return
<1>2. ProcessInstance(p, m)
  BY <1>1 DEF processBannedItem, Begin, Verify, ChangeIP, DropDnsRecord, CreateDnsRecord, world
<1>3. m = n
  BY <1>2 DEF ProcessInstance, OldInv, OldTyped
<1> QED
  BY <1>1, <1>2, <1>3 DEF processBannedItem, ProcessInstance, GiveUp

\* Whatever failed and whoever died, whichever tags the launches have: an instance loses its
\* address only when the address was found blocked, or in a batch during whose ping the
\* service was down, or to a process that had read AWS before another changed the instance
\* (the ping before each batch in Run and the lookup in processBannedItem).
THEOREM KeepsReachable == Spec => ReachableKept
<1>1. Init => OldInv /\ BlockedInv
  BY OldInit DEF Init, BlockedInv, PingedBlocked
<1>2. OldInv /\ BlockedInv /\ [Next]_vars => OldInv' /\ BlockedInv'
  BY OldStep, BlockedStep
<1>3. OldInv /\ BlockedInv /\ [Next]_vars =>
        [\A n \in Nodes :
           addr'[n] # addr[n] =>
             \/ <<n, addr[n]>> \in blocked
             \/ \E p \in Procs :
                  pc[p][n] = "rotate" /\ pc'[p][n] # "rotate" /\ (p \in down \/ Overtaken(p, n))]_vars
  <2> SUFFICES ASSUME OldInv, BlockedInv, [Next]_vars, NEW n \in Nodes, addr'[n] # addr[n],
                      <<n, addr[n]>> \notin blocked
               PROVE  \E p \in Procs :
                        pc[p][n] = "rotate" /\ pc'[p][n] # "rotate" /\ (p \in down \/ Overtaken(p, n))
    OBVIOUS
  <2>1. PICK p \in Procs : /\ ProcessInstance(p, n) /\ step[p] = "batch"
                           /\ Item(p, n, "verify") \/ Item(p, n, "ended")
    BY ChangeStep
  <2>2. pc[p][n] = "rotate" /\ pc'[p][n] # "rotate"
    BY <2>1 DEF ProcessInstance, Item, OldInv, OldTyped
  <2>3. ~ Overtaken(p, n) => list[p][n] = addr[n]
    BY <2>1, <2>2 DEF OldInv, Past, Seen, Ahead
  <2> QED
    BY <2>2, <2>3 DEF BlockedInv, PingedBlocked
<1> QED
  BY <1>1, <1>2, <1>3, PTL DEF Spec, ReachableKept

-----------------------------------------------------------------------------
(* Type correctness, with the counters.                                    *)

WorldTyped ==
  /\ blocked \subseteq Nodes \X Addrs
  /\ lockFile \in [Keys -> Procs \cup {Nobody}]
  /\ faults \in 0 .. MaxFaults /\ outages \in 0 .. MaxOutages
  /\ hosts \subseteq Nodes /\ down \subseteq Procs

LEMMA OutagesStep ==
  ASSUME outages \in 0 .. MaxOutages, [Next]_vars
  PROVE  outages' \in 0 .. MaxOutages /\ outages <= outages'
<1> USE MaxAssumption
<1>1. UNCHANGED outages \/ (outages < MaxOutages /\ outages' = outages + 1)
  <2>1. ASSUME NEW p \in Procs, NEW n \in Nodes, processBannedItem(p, n)
        PROVE  UNCHANGED outages \/ (outages < MaxOutages /\ outages' = outages + 1)
    BY <2>1 DEF processBannedItem, Begin, ProcessInstance, Verify, ChangeIP, DropDnsRecord,
       CreateDnsRecord, bounds, batchPing
  <2>2. ASSUME NEW p \in Procs,
               Launch(p) \/ InitJob(p) \/ TryLock(p) \/ Query(p) \/ PingBatch(p) \/ Return(p) \/ Die(p)
        PROVE  UNCHANGED outages \/ (outages < MaxOutages /\ outages' = outages + 1)
    BY <2>2 DEF Launch, InitJob, TryLock, Query, PingBatch, Return, Die, bounds, batchPing
  <2>3. (\E n \in Nodes : Block(n)) \/ Done \/ UNCHANGED vars => UNCHANGED outages
    BY DEF Block, Done, vars, bounds
  <2> QED
    BY <2>1, <2>2, <2>3 DEF Next, Proc
<1> QED
  BY <1>1

LEMMA WorldStep ==
  ASSUME OldInv, WorldTyped, [Next]_vars
  PROVE  WorldTyped'
<1> USE MaxAssumption
<1>1. addr \in [Nodes -> Addrs] /\ addr' \in [Nodes -> Addrs]
  BY OldStep DEF OldInv, OldTyped
<1>2. blocked' \subseteq Nodes \X Addrs
  <2>1. ASSUME NEW p \in Procs, NEW n \in Nodes, ProcessInstance(p, n)
        PROVE  blocked' \subseteq Nodes \X Addrs
    BY <1>1, <2>1 DEF ProcessInstance, WorldTyped
  <2>2. ASSUME NEW n \in Nodes, Block(n) PROVE blocked' \subseteq Nodes \X Addrs
    BY <1>1, <2>2 DEF Block, WorldTyped
  <2>3. ASSUME UNCHANGED blocked PROVE blocked' \subseteq Nodes \X Addrs
    BY <2>3 DEF WorldTyped
  <2>4. ASSUME NEW p \in Procs, NEW n \in Nodes, processBannedItem(p, n)
        PROVE  UNCHANGED blocked \/ ProcessInstance(p, n)
    BY <2>4 DEF processBannedItem, Begin, Verify, ChangeIP, DropDnsRecord, CreateDnsRecord, world
  <2>5. ASSUME NEW p \in Procs,
               Launch(p) \/ InitJob(p) \/ TryLock(p) \/ Query(p) \/ PingBatch(p) \/ Return(p) \/ Die(p)
        PROVE  UNCHANGED blocked
    BY <2>5 DEF Launch, InitJob, TryLock, Query, PingBatch, Return, Die, world
  <2>6. Done \/ UNCHANGED vars => UNCHANGED blocked
    BY DEF Done, vars, world
  <2> QED
    BY <2>1, <2>2, <2>3, <2>4, <2>5, <2>6 DEF Next, Proc
<1>3. lockFile' \in [Keys -> Procs \cup {Nobody}]
  <2>1. ASSUME NEW p \in Procs, UNCHANGED lockFile \/ Unlock(p)
        PROVE  lockFile' \in [Keys -> Procs \cup {Nobody}]
    BY <2>1 DEF Unlock, WorldTyped
  <2>2. ASSUME NEW p \in Procs, lockFile' = [lockFile EXCEPT ![Key(p)] = p]
        PROVE  lockFile' \in [Keys -> Procs \cup {Nobody}]
    BY <2>2 DEF WorldTyped
  <2>3. ASSUME NEW p \in Procs, Proc(p) \/ Die(p)
        PROVE  lockFile' \in [Keys -> Procs \cup {Nobody}]
    BY <2>1, <2>2, <2>3
       DEF Proc, Launch, InitJob, TryLock, Query, PingBatch, Return, Die, processBannedItem
  <2>4. (\E n \in Nodes : Block(n)) \/ Done \/ UNCHANGED vars => UNCHANGED lockFile
    BY DEF Block, Done, vars
  <2> QED
    BY <2>3, <2>4 DEF Next, WorldTyped
<1>4. faults' \in 0 .. MaxFaults
  <2>1. UNCHANGED faults \/ Fault => faults' \in 0 .. MaxFaults
    BY DEF Fault, WorldTyped
  <2>2. ASSUME NEW p \in Procs, NEW n \in Nodes, processBannedItem(p, n)
        PROVE  UNCHANGED faults \/ Fault
    BY <2>2 DEF processBannedItem, Begin, ProcessInstance, Verify, ChangeIP, DropDnsRecord,
       CreateDnsRecord, bounds
  <2>3. ASSUME NEW p \in Procs,
               Launch(p) \/ InitJob(p) \/ TryLock(p) \/ Query(p) \/ PingBatch(p) \/ Return(p) \/ Die(p)
        PROVE  UNCHANGED faults \/ Fault
    BY <2>3 DEF Launch, InitJob, TryLock, Query, PingBatch, Return, Die, bounds
  <2>4. (\E n \in Nodes : Block(n)) \/ Done \/ UNCHANGED vars => UNCHANGED faults \/ Fault
    BY DEF Block, Done, vars, bounds
  <2> QED
    BY <2>1, <2>2, <2>3, <2>4 DEF Next, Proc
<1>5. outages' \in 0 .. MaxOutages
  BY OutagesStep DEF WorldTyped
<1>6. hosts' \subseteq Nodes
  BY DEF Next, vars, WorldTyped
<1>7. down' \subseteq Procs
  <2>1. ASSUME NEW p \in Procs, PingBatch(p) PROVE down' \subseteq Procs
    BY <2>1 DEF PingBatch, WorldTyped
  <2>2. ASSUME NEW p \in Procs, NEW n \in Nodes, processBannedItem(p, n) PROVE UNCHANGED down
    BY <2>2 DEF processBannedItem
  <2>3. ASSUME NEW p \in Procs, Launch(p) \/ InitJob(p) \/ TryLock(p) \/ Query(p) \/ Return(p) \/ Die(p)
        PROVE  UNCHANGED down
    BY <2>3 DEF Launch, InitJob, TryLock, Query, Return, Die, job
  <2>4. (\E n \in Nodes : Block(n)) \/ Done \/ UNCHANGED vars => UNCHANGED down
    BY DEF Block, Done, vars, job
  <2> QED
    BY <2>1, <2>2, <2>3, <2>4 DEF Next, Proc, WorldTyped
<1> QED
  BY <1>2, <1>3, <1>4, <1>5, <1>6, <1>7 DEF WorldTyped

\* A process that is to begin a round has one left, and one in a round has begun it.
RoundsInv ==
  /\ tryNum \in [Procs -> 0 .. MaxTryNum]
  /\ \A p \in Procs :
       /\ step[p] = "off" => tryNum[p] = 0
       /\ step[p] = "new" => tryNum[p] < MaxTryNum
       /\ step[p] \in {"inited", "locked", "batch"} => tryNum[p] > 0

LEMMA RoundsStep ==
  ASSUME OldInv, RoundsInv, [Next]_vars
  PROVE  RoundsInv'
<1> USE MaxAssumption
<1>1. ASSUME UNCHANGED <<step, tryNum>> PROVE RoundsInv'
  BY <1>1 DEF RoundsInv
<1>2. ASSUME NEW p \in Procs, NEW s \in Steps \ {"off"}, To(p, s), UNCHANGED tryNum,
             s = "new" => tryNum[p] < MaxTryNum,
             s \in {"inited", "locked", "batch"} => tryNum[p] > 0
      PROVE  RoundsInv'
  BY <1>2 DEF RoundsInv, OldInv, OldTyped, To
<1>3. ASSUME NEW p \in Procs, InitJob(p) PROVE RoundsInv'
  <2>1. PICK s \in {"inited", "over"} : To(p, s)
    BY <1>3 DEF InitJob
  <2>2. step'[p] = s /\ \A q \in Procs \ {p} : step'[q] = step[q]
    BY <2>1 DEF OldInv, OldTyped, To
  <2>3. tryNum[p] < MaxTryNum /\ tryNum[p] \in 0 .. MaxTryNum
    BY <1>3 DEF InitJob, RoundsInv
  <2>4. /\ tryNum' \in [Procs -> 0 .. MaxTryNum] /\ tryNum'[p] > 0
        /\ \A q \in Procs \ {p} : tryNum'[q] = tryNum[q]
    BY <1>3, <2>3 DEF InitJob, RoundsInv
  <2> QED
    BY <2>2, <2>4 DEF RoundsInv
<1>4. ASSUME NEW p \in Procs, Launch(p) PROVE RoundsInv'
  <2>1. tryNum[p] = 0 /\ UNCHANGED tryNum
    BY <1>4 DEF Launch, RoundsInv
  <2>2. PICK s \in {"new", "over"} : To(p, s) /\ (s = "new" => 0 < MaxTryNum)
    BY <1>4 DEF Launch
  <2> QED
    BY <1>2, <2>1, <2>2 DEF Steps, EndedSteps
<1>5. ASSUME NEW p \in Procs, TryLock(p) \/ Query(p) \/ Return(p) \/ Die(p) PROVE RoundsInv'
  <2>1. UNCHANGED tryNum
    BY <1>5 DEF TryLock, Query, Return, Die
  <2>2. PICK s \in Steps \ {"off"} :
          /\ To(p, s)
          /\ s = "new" => MoreTries(p)
          /\ s \in {"inited", "locked", "batch"} => step[p] \in {"inited", "locked"}
    BY <1>5 DEF TryLock, Query, Return, Die, Steps, EndedSteps
  <2> QED
    BY <1>2, <2>1, <2>2 DEF MoreTries, RoundsInv
<1>6. ASSUME NEW p \in Procs, PingBatch(p) \/ \E n \in Nodes : processBannedItem(p, n) PROVE RoundsInv'
  BY <1>1, <1>6 DEF PingBatch, processBannedItem
<1>7. (\E n \in Nodes : Block(n)) \/ Done \/ UNCHANGED vars => UNCHANGED <<step, tryNum>>
  BY DEF Block, Done, vars
<1> QED
  BY <1>1, <1>3, <1>4, <1>5, <1>6, <1>7 DEF Next, Proc

LEMMA OvertakenStep ==
  ASSUME RoundsInv, overtaken \subseteq Procs \X Nodes \X (1 .. MaxTryNum), [Next]_vars
  PROVE  overtaken' \subseteq Procs \X Nodes \X (1 .. MaxTryNum)
<1>1. ASSUME NEW p \in Procs, NEW n \in Nodes, processBannedItem(p, n)
      PROVE  overtaken' \subseteq overtaken \cup {<<q, n, tryNum[q]>> : q \in Overtakes(p, n)}
  BY <1>1 DEF processBannedItem, Begin, ProcessInstance, Verify, ChangeIP, DropDnsRecord, CreateDnsRecord
<1>2. \A p \in Procs, n \in Nodes : \A q \in Overtakes(p, n) : q \in Procs /\ tryNum[q] \in 1 .. MaxTryNum
  BY MaxAssumption DEF Overtakes, RoundsInv
<1>3. ASSUME NEW p \in Procs, Launch(p) \/ InitJob(p) \/ TryLock(p) \/ Query(p) \/ PingBatch(p) \/ Return(p) \/ Die(p)
      PROVE  UNCHANGED overtaken
  BY <1>3 DEF Launch, InitJob, TryLock, Query, PingBatch, Return, Die
<1>4. (\E n \in Nodes : Block(n)) \/ Done \/ UNCHANGED vars => UNCHANGED overtaken
  BY DEF Block, Done, vars
<1> QED
  BY <1>1, <1>2, <1>3, <1>4 DEF Next, Proc

\* The nodes p is past the ping of the new address with.
Verified(p) == {n \in Nodes : pc[p][n] \in {"changeIp", "drop", "create", "ended"}}

\* A failure is counted once per node, and none is left of the round before.
FailInv ==
  /\ fail \in [Procs -> 0 .. Cardinality(Nodes)]
  /\ \A p \in Procs :
       /\ step[p] \in {"inited", "locked"} => fail[p] = 0
       /\ step[p] = "batch" => fail[p] <= Cardinality(Verified(p))

LEMMA VerifiedFinite ==
  ASSUME NEW S \in SUBSET Nodes
  PROVE  IsFiniteSet(S) /\ Cardinality(S) \in Nat /\ Cardinality(S) <= Cardinality(Nodes)
BY NodesAssumption, FS_Subset, FS_CardinalityType

LEMMA FailItem ==
  ASSUME OldInv, FailInv, NEW p \in Procs, NEW n \in Nodes, processBannedItem(p, n)
  PROVE  FailInv'
<1>1. step[p] = "batch" /\ UNCHANGED step
  BY DEF processBannedItem
<1>2. PICK s \in Pcs :
        /\ Item(p, n, s)
        /\ n \in Verified(p) => s \in {"changeIp", "drop", "create", "ended"}
        /\ \/ UNCHANGED fail
           \/ /\ n \notin Verified(p) /\ s \in {"changeIp", "ended"}
              /\ fail' = [fail EXCEPT ![p] = @ + 1]
  <2>1. CASE Begin(p, n)
    BY <2>1 DEF Begin, Pcs, Busy, InBatch, Verified
  <2>2. CASE ProcessInstance(p, n)
    BY <2>2 DEF ProcessInstance, GiveUp, Pcs, Busy, InBatch, Verified
  <2>3. CASE Verify(p, n)
    <3>1. UNCHANGED fail \/ fail' = [fail EXCEPT ![p] = @ + 1]
      BY <2>3 DEF Verify, FailInv
    <3> QED
      BY <2>3, <3>1 DEF Verify, Pcs, Busy, InBatch, Verified
  <2>4. CASE ChangeIP(p, n) \/ DropDnsRecord(p, n) \/ CreateDnsRecord(p, n)
    BY <2>4 DEF ChangeIP, DropDnsRecord, CreateDnsRecord, Pcs, Busy, InBatch, Verified
  <2> QED
    BY <2>1, <2>2, <2>3, <2>4 DEF processBannedItem
<1>3. \A q \in Procs, m \in Nodes : pc'[q][m] = IF q = p /\ m = n THEN s ELSE pc[q][m]
  BY <1>2 DEF OldInv, OldTyped, Item
<1>4. Verified(p) \in SUBSET Nodes /\ Verified(p)' \in SUBSET Nodes
  BY DEF Verified
<1>5. Verified(p) \subseteq Verified(p)' /\ \A q \in Procs \ {p} : Verified(q)' = Verified(q)
  BY <1>2, <1>3 DEF Verified
<1>6. /\ Cardinality(Verified(p)) <= Cardinality(Verified(p)')
      /\ Cardinality(Verified(p)) \in Nat /\ Cardinality(Verified(p)') \in Nat
      /\ Cardinality(Nodes) \in Nat /\ Cardinality(Verified(p)') <= Cardinality(Nodes)
  BY <1>4, <1>5, VerifiedFinite, FS_Subset, FS_CardinalityType, NodesAssumption
<1>7. fail[p] \in Nat /\ fail[p] <= Cardinality(Verified(p))
  BY <1>1 DEF FailInv
<1>8. CASE UNCHANGED fail
  BY <1>1, <1>5, <1>6, <1>7, <1>8 DEF FailInv
<1>9. CASE n \notin Verified(p) /\ s \in {"changeIp", "ended"} /\ fail' = [fail EXCEPT ![p] = @ + 1]
  <2>1. Verified(p)' = Verified(p) \cup {n} /\ n \notin Verified(p)
    BY <1>3, <1>9 DEF Verified
  <2>2. Cardinality(Verified(p)') = Cardinality(Verified(p)) + 1
    BY <1>4, <2>1, VerifiedFinite, FS_AddElement
  <2>3. fail'[p] = fail[p] + 1 /\ \A q \in Procs \ {p} : fail'[q] = fail[q]
    BY <1>9 DEF FailInv
  <2>4. fail'[p] \in 0 .. Cardinality(Nodes) /\ fail'[p] <= Cardinality(Verified(p)')
    BY <1>6, <1>7, <2>2, <2>3
  <2>5. fail' \in [Procs -> 0 .. Cardinality(Nodes)]
    BY <1>9, <2>3, <2>4 DEF FailInv
  <2> QED
    BY <1>1, <1>5, <2>3, <2>4, <2>5 DEF FailInv
<1> QED
  BY <1>2, <1>8, <1>9

LEMMA FailStep ==
  ASSUME OldInv, FailInv, [Next]_vars
  PROVE  FailInv'
<1>1. ASSUME UNCHANGED <<step, fail, pc>> PROVE FailInv'
  BY <1>1 DEF FailInv, Verified
<1>2. Cardinality(Nodes) \in Nat
  BY NodesAssumption, FS_CardinalityType
<1>3. ASSUME NEW p \in Procs, Launch(p) \/ TryLock(p) \/ Return(p) \/ Die(p) PROVE FailInv'
  <2>1. UNCHANGED <<fail, pc>>
    BY <1>3 DEF Launch, TryLock, Return, Die, job
  <2>2. PICK s \in Steps \ {"inited", "batch"} : To(p, s) /\ (s = "locked" => step[p] = "inited")
    BY <1>3 DEF Launch, TryLock, Return, Die, Steps, EndedSteps
  <2>3. step'[p] = s /\ \A q \in Procs \ {p} : step'[q] = step[q]
    BY <2>2 DEF OldInv, OldTyped, To
  <2> QED
    BY <2>1, <2>2, <2>3 DEF FailInv, Verified
<1>4. ASSUME NEW p \in Procs, InitJob(p) PROVE FailInv'
  <2>1. PICK s \in {"inited", "over"} :
          To(p, s) /\ fail' = IF s = "inited" THEN [fail EXCEPT ![p] = 0] ELSE fail
    BY <1>4 DEF InitJob, FreshJob
  <2>2. step'[p] = s /\ \A q \in Procs \ {p} : step'[q] = step[q]
    BY <2>1 DEF OldInv, OldTyped, To
  <2>3. /\ fail' \in [Procs -> 0 .. Cardinality(Nodes)] /\ (s = "inited" => fail'[p] = 0)
        /\ \A q \in Procs \ {p} : fail'[q] = fail[q]
    BY <1>2, <2>1 DEF FailInv
  <2>4. UNCHANGED pc
    BY <1>4 DEF InitJob
  <2> QED
    BY <2>2, <2>3, <2>4 DEF FailInv, Verified
<1>5. ASSUME NEW p \in Procs, Query(p) PROVE FailInv'
  <2>1. fail[p] = 0 /\ UNCHANGED fail
    BY <1>5 DEF Query, FailInv
  <2>2. PICK s \in {"batch", "over"} : To(p, s)
    BY <1>5 DEF Query
  <2>3. step'[p] = s /\ \A q \in Procs \ {p} : step'[q] = step[q] /\ Verified(q)' = Verified(q)
    BY <1>5, <2>2 DEF Query, OldInv, OldTyped, To, Verified
  <2>4. Cardinality(Verified(p)') \in Nat
    BY VerifiedFinite DEF Verified
  <2> QED
    BY <2>1, <2>2, <2>3, <2>4 DEF FailInv
<1>6. ASSUME NEW p \in Procs, PingBatch(p) PROVE FailInv'
  <2>1. UNCHANGED <<step, fail>>
    BY <1>6 DEF PingBatch
  <2>2. \A q \in Procs : Verified(q)' = Verified(q)
    <3>1. \A q \in Procs, n \in Nodes :
            pc'[q][n] = pc[q][n] \/ (pc[q][n] = "queued" /\ pc'[q][n] \in {"begin", "skipped"})
      BY <1>6, PingItems DEF OldInv, OldTyped
    <3> QED
      BY <3>1 DEF Verified
  <2> QED
    BY <2>1, <2>2 DEF FailInv
<1>7. (\E n \in Nodes : Block(n)) \/ Done \/ UNCHANGED vars => UNCHANGED <<step, fail, pc>>
  BY DEF Block, Done, vars, job
<1> QED
  BY <1>1, <1>3, <1>4, <1>5, <1>6, <1>7, FailItem DEF Next, Proc

\* Every variable keeps its type: no process begins more than MaxTryNum rounds (the loop in
\* main), and a round counts no more failures than it has nodes (stats of a fresh job).
THEOREM MainTyped == Spec => []MainTypeOK
<1> DEFINE Inv ==
      /\ OldInv /\ DnsTyped /\ RecsTyped /\ WorldTyped /\ RoundsInv /\ FailInv
      /\ overtaken \subseteq Procs \X Nodes \X (1 .. MaxTryNum)
<1>1. Init => Inv
  <2>1. Init => WorldTyped /\ RoundsInv /\ DnsTyped /\ RecsTyped /\ overtaken = {}
    BY MaxAssumption DEF Init, WorldTyped, RoundsInv, DnsTyped, RecsTyped, Addrs
  <2>2. Init => FailInv
    BY NodesAssumption, FS_CardinalityType DEF Init, FailInv
  <2> QED
    BY <2>1, <2>2, OldInit
<1>2. Inv /\ [Next]_vars => Inv'
  BY OvertakenStep, OldStep, DnsStep, RecsStep, WorldStep, RoundsStep, FailStep
<1>3. Inv => MainTypeOK
  BY DEF OldInv, OldTyped, DnsTyped, RecsTyped, WorldTyped, RoundsInv, FailInv, MainTypeOK
<1> QED
  BY <1>1, <1>2, <1>3, PTL DEF Spec

-----------------------------------------------------------------------------
(* The nodes left blocked.                                                 *)

LEMMA ProperSubset ==
  ASSUME NEW S, IsFiniteSet(S), NEW T \in SUBSET S, NEW e \in S \ T
  PROVE  Cardinality(T) < Cardinality(S)
<1>1. Cardinality(T) <= Cardinality(S) /\ Cardinality(T) # Cardinality(S)
  BY FS_Subset
<1> QED
  BY <1>1, FS_Subset, FS_CardinalityType

\* Every launch can use up its rounds on one instance.
AmpleAddrs == IsFiniteSet(Procs) /\ MaxAddr >= Cardinality(Procs) * MaxTryNum

\* The rounds, as <<process, number>>, that are past their change of n.
Spent(n) ==
  {r \in Procs \X (1 .. MaxTryNum) :
     r[2] < tryNum[r[1]] \/ (r[2] = tryNum[r[1]] /\ ~ Seen(r[1], n))}

\* No round has changed an instance twice.
SpentInv == \A n \in Nodes : addr[n] <= Cardinality(Spent(n))

CountInv == OldInv /\ RoundsInv /\ SpentInv

LEMMA SpentFinite ==
  ASSUME AmpleAddrs, NEW n \in Nodes
  PROVE  /\ IsFiniteSet(Procs \X (1 .. MaxTryNum))
         /\ Cardinality(Procs \X (1 .. MaxTryNum)) \in Nat
         /\ Cardinality(Procs \X (1 .. MaxTryNum)) <= MaxAddr
         /\ IsFiniteSet(Spent(n)) /\ IsFiniteSet(Spent(n)')
         /\ Cardinality(Spent(n)) \in Nat /\ Cardinality(Spent(n)') \in Nat
<1>1. IsFiniteSet(1 .. MaxTryNum) /\ Cardinality(1 .. MaxTryNum) = MaxTryNum
  BY FS_Interval, MaxAssumption
<1>2. /\ IsFiniteSet(Procs \X (1 .. MaxTryNum))
      /\ Cardinality(Procs \X (1 .. MaxTryNum)) = Cardinality(Procs) * MaxTryNum
  BY <1>1, FS_Product DEF AmpleAddrs
<1>3. Cardinality(Procs \X (1 .. MaxTryNum)) \in Nat
  BY <1>2, FS_CardinalityType
<1>4. Cardinality(Procs \X (1 .. MaxTryNum)) <= MaxAddr
  BY <1>2 DEF AmpleAddrs
<1>5. /\ Spent(n) \in SUBSET (Procs \X (1 .. MaxTryNum))
      /\ Spent(n)' \in SUBSET (Procs \X (1 .. MaxTryNum))
  BY DEF Spent
<1>6. IsFiniteSet(Spent(n)) /\ IsFiniteSet(Spent(n)')
  BY <1>2, <1>5, FS_Subset
<1> QED
  BY <1>2, <1>3, <1>4, <1>6, FS_CardinalityType

\* What is left of the rounds does not grow.
LEMMA SpentGrows ==
  ASSUME OldInv, RoundsInv, [Next]_vars, NEW n \in Nodes
  PROVE  Spent(n) \subseteq Spent(n)'
<1> USE MaxAssumption
<1>1. ASSUME UNCHANGED tryNum, \A q \in Procs : Seen(q, n)' => Seen(q, n)
      PROVE  Spent(n) \subseteq Spent(n)'
  BY <1>1 DEF Spent
<1>2. ASSUME NEW p \in Procs, Launch(p) \/ TryLock(p) \/ Query(p) \/ Return(p) \/ Die(p)
      PROVE  Spent(n) \subseteq Spent(n)'
  <2>1. PICK s \in Steps : To(p, s) /\ (s \in {"inited", "locked", "batch"} => Seen(p, n))
    BY <1>2 DEF Launch, TryLock, Query, Return, Die, Steps, EndedSteps, Seen
  <2>2. step'[p] = s /\ \A q \in Procs \ {p} : step'[q] = step[q] /\ pc'[q] = pc[q]
    BY <1>2, <2>1 DEF Launch, TryLock, Query, Return, Die, job, OldInv, OldTyped, To
  <2>3. UNCHANGED tryNum
    BY <1>2 DEF Launch, TryLock, Query, Return, Die
  <2> QED
    BY <1>1, <2>1, <2>2, <2>3 DEF Seen
<1>3. ASSUME NEW p \in Procs, InitJob(p)
      PROVE  Spent(n) \subseteq Spent(n)'
  <2>1. /\ \A q \in Procs \ {p} : step'[q] = step[q] /\ tryNum'[q] = tryNum[q]
        /\ UNCHANGED pc /\ tryNum'[p] = tryNum[p] + 1 /\ tryNum[p] \in Nat
    BY <1>3 DEF InitJob, To, OldInv, OldTyped, RoundsInv
  <2>2. \A q \in Procs \ {p} : Seen(q, n)' <=> Seen(q, n)
    BY <2>1 DEF Seen
  <2> QED
    BY <2>1, <2>2 DEF Spent
<1>4. ASSUME NEW p \in Procs, NEW m \in Nodes, processBannedItem(p, m)
      PROVE  Spent(n) \subseteq Spent(n)'
  <2>1. PICK s \in Pcs : Item(p, m, s) /\ (s \in Ahead => pc[p][m] \in Ahead)
    BY <1>4 DEF processBannedItem, Begin, ProcessInstance, GiveUp, Verify, ChangeIP,
       DropDnsRecord, CreateDnsRecord, Pcs, Busy, InBatch, Ahead
  <2>2. \A q \in Procs : pc'[q][n] = IF q = p /\ n = m THEN s ELSE pc[q][n]
    BY <2>1 DEF OldInv, OldTyped, Item
  <2>3. UNCHANGED <<step, tryNum>>
    BY <1>4 DEF processBannedItem
  <2> QED
    BY <1>1, <2>1, <2>2, <2>3 DEF Seen
<1>5. ASSUME NEW p \in Procs, PingBatch(p)
      PROVE  Spent(n) \subseteq Spent(n)'
  <2>1. UNCHANGED <<step, tryNum>>
    BY <1>5 DEF PingBatch
  <2>2. \A q \in Procs : pc'[q][n] = pc[q][n] \/ pc[q][n] = "queued"
    BY <1>5, PingItems DEF OldInv, OldTyped
  <2> QED
    BY <1>1, <2>1, <2>2 DEF Seen, Ahead
<1>7. ASSUME UNCHANGED <<step, tryNum, pc>> PROVE Spent(n) \subseteq Spent(n)'
  BY <1>1, <1>7 DEF Seen
<1>6. (\E m \in Nodes : Block(m)) \/ Done \/ UNCHANGED vars => UNCHANGED <<step, tryNum, pc>>
  BY DEF Block, Done, vars, job
<1> QED
  BY <1>2, <1>3, <1>4, <1>5, <1>6, <1>7 DEF Next, Proc

\* A round about to change an instance is not among those spent, so there is an address.
LEMMA RoundLeft ==
  ASSUME AmpleAddrs, CountInv, NEW p \in Procs, NEW n \in Nodes, step[p] = "batch", pc[p][n] = "rotate"
  PROVE  /\ <<p, tryNum[p]>> \in (Procs \X (1 .. MaxTryNum)) \ Spent(n)
         /\ addr[n] < MaxAddr
<1> USE MaxAssumption
<1>1. <<p, tryNum[p]>> \in (Procs \X (1 .. MaxTryNum)) \ Spent(n)
  BY DEF CountInv, RoundsInv, Spent, Seen, Ahead
<1>2. Spent(n) \in SUBSET (Procs \X (1 .. MaxTryNum))
  BY DEF Spent
<1>3. Cardinality(Spent(n)) < Cardinality(Procs \X (1 .. MaxTryNum))
  BY <1>1, <1>2, SpentFinite, ProperSubset
<1>4. addr[n] \in Nat /\ addr[n] <= Cardinality(Spent(n))
  BY DEF CountInv, SpentInv, OldInv, OldTyped, Addrs
<1> QED
  BY <1>1, <1>3, <1>4, SpentFinite

LEMMA SpentStep ==
  ASSUME AmpleAddrs, CountInv, [Next]_vars
  PROVE  SpentInv'
<1> USE MaxAssumption
<1>0. OldInv /\ RoundsInv /\ SpentInv /\ addr \in [Nodes -> Addrs]
  BY DEF CountInv, OldInv, OldTyped
<1>1. ASSUME NEW n \in Nodes PROVE addr'[n] <= Cardinality(Spent(n)')
  <2>1. Spent(n) \subseteq Spent(n)' /\ addr[n] \in Nat /\ addr[n] <= Cardinality(Spent(n))
    BY <1>0, SpentGrows DEF SpentInv, Addrs
  <2>2. Cardinality(Spent(n)) <= Cardinality(Spent(n)')
    BY <2>1, SpentFinite, FS_Subset
  <2>3. CASE addr'[n] = addr[n]
    BY <2>1, <2>2, <2>3, SpentFinite
  <2>4. CASE addr'[n] # addr[n]
    <3>1. PICK p \in Procs :
            /\ processBannedItem(p, n) /\ ProcessInstance(p, n) /\ step[p] = "batch"
            /\ addr' = [addr EXCEPT ![n] = @ + 1]
            /\ Item(p, n, "verify") \/ Item(p, n, "ended")
      BY <1>0, <2>4, ChangeStep
    <3>2. pc[p][n] = "rotate" /\ addr'[n] = addr[n] + 1
      BY <1>0, <3>1 DEF ProcessInstance
    <3>3. <<p, tryNum[p]>> \in (Procs \X (1 .. MaxTryNum)) \ Spent(n)
      BY <3>1, <3>2, RoundLeft
    <3>4. ~ Seen(p, n)' /\ UNCHANGED tryNum
      BY <3>1, <3>2, <1>0 DEF processBannedItem, Item, Seen, Ahead, OldInv, OldTyped
    <3>5. <<p, tryNum[p]>> \in Spent(n)'
      BY <3>3, <3>4 DEF Spent
    <3>6. Cardinality(Spent(n)) < Cardinality(Spent(n)')
      BY <2>1, <3>3, <3>5, SpentFinite, ProperSubset
    <3> QED
      BY <2>1, <3>2, <3>6, SpentFinite
  <2> QED
    BY <2>3, <2>4
<1> QED
  BY <1>1 DEF SpentInv

-----------------------------------------------------------------------------
(* Who holds the lock, and who had no answer to a ping.                    *)

LockHeld ==
  \A k \in Keys :
    lockFile[k] # Nobody =>
      /\ lockFile[k] \in Procs /\ Key(lockFile[k]) = k
      /\ step[lockFile[k]] \in {"locked", "batch"}

LEMMA LockStep ==
  ASSUME MainInv, LockHeld, [Next]_vars
  PROVE  LockHeld'
<1>1. ASSUME UNCHANGED <<lockFile, step>> PROVE LockHeld'
  BY <1>1 DEF LockHeld, Key
<1>2. ASSUME NEW p \in Procs, NEW s \in Steps, To(p, s), Unlock(p) PROVE LockHeld'
  BY <1>2, ProcsAssumption DEF LockHeld, MainInv, Typed, To, Unlock, Key
<1>3. ASSUME NEW p \in Procs, NEW s \in Steps, To(p, s), UNCHANGED lockFile, step[p] \notin {"locked", "batch"}
      PROVE  LockHeld'
  BY <1>3 DEF LockHeld, MainInv, Typed, To, Key
<1>4. ASSUME NEW p \in Procs, Launch(p) \/ InitJob(p) \/ Return(p) \/ Die(p) PROVE LockHeld'
  <2>1. PICK s \in Steps : To(p, s)
    BY <1>4 DEF Launch, InitJob, Return, Die, Steps, EndedSteps
  <2> QED
    BY <1>2, <1>3, <1>4, <2>1 DEF Launch, InitJob, Return, Die
<1>5. ASSUME NEW p \in Procs, TryLock(p) PROVE LockHeld'
  <2>1. CASE ~ LockFree(p)
    BY <1>3, <1>5, <2>1 DEF TryLock, Steps, EndedSteps
  <2>2. CASE LockFree(p)
    <3>1. /\ lockFile' = [lockFile EXCEPT ![Key(p)] = p] /\ Key(p) \in Keys
          /\ step'[p] = "locked" /\ \A q \in Procs \ {p} : step'[q] = step[q]
      BY <1>5, <2>2, KeyIsKey DEF TryLock, To, MainInv, Typed
    <3>2. \A k \in Keys : lockFile'[k] = IF k = Key(p) THEN p ELSE lockFile[k]
      BY <3>1 DEF MainInv, Typed
    <3> QED
      BY <1>5, <3>1, <3>2 DEF LockHeld, Key, TryLock
  <2> QED
    BY <2>1, <2>2
<1>6. ASSUME NEW p \in Procs, Query(p) PROVE LockHeld'
  <2>1. CASE To(p, "over") /\ Unlock(p)
    BY <1>2, <2>1 DEF Steps, EndedSteps
  <2>2. CASE To(p, "batch") /\ UNCHANGED lockFile
    BY <2>2 DEF LockHeld, MainInv, Typed, To, Key
  <2> QED
    BY <1>6, <2>1, <2>2 DEF Query
<1>7. ASSUME NEW p \in Procs, PingBatch(p) \/ \E n \in Nodes : processBannedItem(p, n)
      PROVE  UNCHANGED <<lockFile, step>>
  BY <1>7 DEF PingBatch, processBannedItem
<1>8. (\E n \in Nodes : Block(n)) \/ Done \/ UNCHANGED vars => UNCHANGED <<lockFile, step>>
  BY DEF Block, Done, vars
<1> QED
  BY <1>1, <1>4, <1>5, <1>6, <1>7, <1>8 DEF Next, Proc

DownInv == outages \in 0 .. MaxOutages /\ (down # {} => outages > 0)

LEMMA DownStep == DownInv /\ [Next]_vars => DownInv'
<1> SUFFICES ASSUME DownInv, [Next]_vars PROVE DownInv'
  OBVIOUS
<1>1. outages \in Nat /\ outages' \in 0 .. MaxOutages /\ outages <= outages'
  BY OutagesStep, MaxAssumption DEF DownInv
<1>2. ASSUME UNCHANGED down PROVE DownInv'
  BY <1>1, <1>2, MaxAssumption DEF DownInv
<1>3. ASSUME NEW p \in Procs, PingBatch(p) PROVE DownInv'
  <2>1. PICK batch \in NextBatch(p), up \in SUBSET Nodes, nil \in BOOLEAN :
          /\ batchPing(batch, list[p], up, nil)
          /\ down' = IF nil THEN down \cup {p} ELSE down \ {p}
    BY <1>3 DEF PingBatch
  <2>2. nil => outages' > 0
    BY <1>1, <2>1 DEF batchPing
  <2>3. ~ nil => (down' # {} => down # {})
    BY <2>1
  <2> QED
    BY <1>1, <2>2, <2>3, MaxAssumption DEF DownInv
<1>4. ASSUME NEW p \in Procs, Proc(p) \/ Die(p), ~ PingBatch(p) PROVE UNCHANGED down
  BY <1>4 DEF Proc, Die, Launch, InitJob, TryLock, Query, Return, processBannedItem, job
<1>5. (\E n \in Nodes : Block(n)) \/ Done \/ UNCHANGED vars => UNCHANGED down
  BY DEF Block, Done, vars, job
<1> QED
  BY <1>2, <1>3, <1>4, <1>5 DEF Next

-----------------------------------------------------------------------------
(* Who is in charge of a blocked node.                                     *)

\* p has done with n in this round, as far as it has come.
Settled(p, n) == step[p] = "batch" /\ fail[p] = 0 /\ pc[p][n] \notin Ahead \cup {"verify"}

\* q is to look at n again, or has done so as often as it may.
InCharge(q, n) ==
  \/ step[q] \in {"new", "inited", "locked"}
  \/ step[q] = "batch" /\ ~ Settled(q, n)
  \/ UsedUp(q)

\* A blocked node is settled by nobody.  A process that had found it reachable may be over,
\* when another changed it in an outage of the ping service and is in charge of it.
ChargeAt(n) ==
  \A p \in Procs :
    n \in Mine(p) =>
      /\ ~ Settled(p, n)
      /\ step[p] = "over" /\ tryNum[p] < MaxTryNum =>
           outages > 0 /\ \E q \in Procs : n \in Mine(q) /\ InCharge(q, n)
ChargeInv ==
  faults = 0 => \A n \in Nodes : NeverOvertaken(n) /\ <<n, addr[n]>> \in blocked => ChargeAt(n)

TriedInv == CountInv /\ CInv /\ BlockedInv /\ FailInv /\ LockHeld /\ DownInv /\ ChargeInv

\* A step of p that settles nothing and hands over what p was in charge of.
LEMMA ChargeKept ==
  ASSUME TriedInv, NEW n \in Nodes, ChargeAt(n), NEW p \in Procs, [Next]_vars,
         \A q \in Procs \ {p} : /\ step'[q] = step[q] /\ tryNum'[q] = tryNum[q]
                                /\ fail'[q] = fail[q] /\ pc'[q][n] = pc[q][n],
         n \in Mine(p) =>
           /\ ~ Settled(p, n)'
           /\ InCharge(p, n) => \/ InCharge(p, n)'
                                \/ \E r \in Procs \ {p} : n \in Mine(r) /\ InCharge(r, n)
           /\ step'[p] = "over" /\ tryNum'[p] < MaxTryNum => step[p] = "over" /\ tryNum[p] < MaxTryNum
  PROVE  ChargeAt(n)'
<1>1. outages > 0 => outages' > 0
  BY OutagesStep, MaxAssumption DEF TriedInv, DownInv
<1>2. \A q \in Procs \ {p} : InCharge(q, n)' = InCharge(q, n) /\ Settled(q, n)' = Settled(q, n)
  BY DEF InCharge, Settled, UsedUp
<1>3. \A q \in Procs : Mine(q)' = Mine(q)
  BY DEF Mine, Key
<1>4. (\E q \in Procs : n \in Mine(q) /\ InCharge(q, n)) =>
        \E q \in Procs : n \in Mine(q) /\ InCharge(q, n)'
  BY <1>2
<1>5. ASSUME NEW q \in Procs, n \in Mine(q) PROVE ~ Settled(q, n)'
  BY <1>2, <1>5 DEF ChargeAt
<1>6. ASSUME NEW q \in Procs, n \in Mine(q), step'[q] = "over", tryNum'[q] < MaxTryNum
      PROVE  outages' > 0 /\ \E r \in Procs : n \in Mine(r) /\ InCharge(r, n)'
  <2>1. step[q] = "over" /\ tryNum[q] < MaxTryNum
    BY <1>6
  <2> QED
    BY <1>1, <1>4, <1>6, <2>1 DEF ChargeAt
<1> QED
  BY <1>3, <1>5, <1>6 DEF ChargeAt

LEMMA ChargeFrame ==
  ASSUME TriedInv, [Next]_vars, faults' = 0, faults = 0, NEW p \in Procs,
         Launch(p) \/ InitJob(p) \/ TryLock(p) \/ Return(p), NEW n \in Nodes, ChargeAt(n)
  PROVE  ChargeAt(n)'
<1>1. UNCHANGED pc
  BY DEF Launch, InitJob, TryLock, Return, job
<1>2. PICK s \in Steps \ {"batch"} :
        /\ To(p, s)
        /\ \/ Launch(p) /\ s = (IF MaxTryNum > 0 THEN "new" ELSE "over")
           \/ InitJob(p) /\ s = "inited"
           \/ TryLock(p) /\ s = (IF LockFree(p) THEN "locked" ELSE "refused")
           \/ Return(p) /\ s = (IF rerunState(p) /\ MoreTries(p) THEN "new" ELSE "over")
  BY DEF Launch, InitJob, TryLock, Return, Fault, Steps, EndedSteps
<1>3. /\ step'[p] = s
      /\ \A q \in Procs \ {p} : step'[q] = step[q] /\ tryNum'[q] = tryNum[q] /\ fail'[q] = fail[q]
  BY <1>2 DEF Launch, InitJob, FreshJob, TryLock, Return, job, To, TriedInv, CountInv, OldInv, OldTyped,
     FailInv
<1>4. fail[p] \in Nat /\ tryNum[p] \in Nat /\ tryNum[p] <= MaxTryNum
  BY MaxAssumption, NodesAssumption, FS_CardinalityType DEF TriedInv, CountInv, FailInv, RoundsInv
<1>5. ~ Settled(p, n)'
  BY <1>2, <1>3 DEF Settled
<1>6. CASE Launch(p)
  <2>1. ~ InCharge(p, n) /\ ~ (s = "over" /\ tryNum'[p] < MaxTryNum)
    BY <1>2, <1>4, <1>6, MaxAssumption
       DEF Launch, To, InCharge, UsedUp, TriedInv, CountInv, RoundsInv, OldInv, OldTyped
  <2> QED
    BY <1>1, <1>3, <1>5, <2>1, ChargeKept
<1>7. CASE InitJob(p)
  <2>1. s = "inited"
    BY <1>7, <1>3 DEF InitJob, Fault, To, TriedInv, CountInv, OldInv, OldTyped
  <2>2. InCharge(p, n)'
    BY <1>3, <2>1 DEF InCharge
  <2> QED
    BY <1>1, <1>3, <1>5, <2>1, <2>2, ChargeKept
<1>8. CASE TryLock(p)
  <2>1. s = (IF LockFree(p) THEN "locked" ELSE "refused")
    BY <1>8, <1>3 DEF TryLock, To, TriedInv, CountInv, OldInv, OldTyped
  <2>2. CASE LockFree(p)
    BY <1>1, <1>3, <1>5, <2>1, <2>2, ChargeKept DEF InCharge
  <2>3. CASE ~ LockFree(p) /\ n \in Mine(p)
    <3>1. PICK r \in Procs : Key(r) = Key(p) /\ step[r] \in {"locked", "batch"}
      BY <2>3, KeyIsKey DEF LockFree, LockHeld, TriedInv
    <3>2. r # p /\ n \in Mine(r)
      BY <1>8, <2>3, <3>1 DEF TryLock, Mine
    <3>3. InCharge(r, n)
      BY <3>1, <3>2 DEF InCharge, ChargeAt
    <3> QED
      BY <1>1, <1>3, <1>5, <2>1, <2>3, <3>2, <3>3, ChargeKept
  <2>4. CASE n \notin Mine(p)
    BY <1>1, <1>3, <2>4, ChargeKept
  <2> QED
    BY <2>2, <2>3, <2>4
<1>9. CASE Return(p)
  <2>1. s = IF rerunState(p) /\ MoreTries(p) THEN "new" ELSE "over"
    BY <1>3, <1>9 DEF Return, To, TriedInv, CountInv, OldInv, OldTyped
  <2>2. n \in Mine(p) => rerunState(p)
    <3>1. pc[p][n] \notin Ahead \cup {"verify"} /\ step[p] = "batch"
      BY <1>9 DEF Return, Busy, InBatch, Ahead
    <3> QED
      BY <1>4, <3>1 DEF ChargeAt, Settled, rerunState
  <2>3. UNCHANGED tryNum
    BY <1>9 DEF Return
  <2>4. n \in Mine(p) => InCharge(p, n)'
    BY <1>3, <1>4, <2>1, <2>2, <2>3, MaxAssumption DEF InCharge, UsedUp, MoreTries
  <2>5. n \in Mine(p) => ~ (s = "over" /\ tryNum'[p] < MaxTryNum)
    BY <2>1, <2>2, <2>3 DEF MoreTries
  <2> QED
    BY <1>1, <1>3, <1>5, <2>4, <2>5, ChargeKept
<1> QED
  BY <1>6, <1>7, <1>8, <1>9

LEMMA ChargeQuery ==
  ASSUME DisjointTags, TriedInv, [Next]_vars, faults' = 0, faults = 0, NEW p \in Procs, Query(p),
         NEW n \in Nodes, ChargeAt(n), <<n, addr[n]>> \in blocked
  PROVE  ChargeAt(n)'
<1>1. UNCHANGED <<tryNum, fail>> /\ step[p] = "locked"
  BY DEF Query
<1>2. PICK banned \in QueryBannedList(p) :
        /\ pc' = [pc EXCEPT ![p] = [m \in Nodes |-> IF m \in banned THEN "queued" ELSE "idle"]]
        /\ To(p, "batch")
  BY DEF Query, Fault
<1>3. /\ \A q \in Procs \ {p} : step'[q] = step[q] /\ pc'[q] = pc[q]
      /\ step'[p] = "batch" /\ pc'[p][n] = IF n \in banned THEN "queued" ELSE "idle"
  BY <1>2 DEF To, TriedInv, CountInv, OldInv, OldTyped
<1>4. n \in Mine(p) => pc'[p][n] = "queued"
  <2> SUFFICES ASSUME n \in Mine(p) PROVE n \in banned
    BY <1>3
  <2>1. ~ Rotating(n)
    BY <1>1, OneAtWork DEF Rotating, TriedInv, CInv
  <2>2. <<n, panel[n]>> \in blocked
    BY <2>1 DEF TriedInv, CInv, CurrentInv
  <2> QED
    BY <2>2 DEF QueryBannedList
<1>5. n \in Mine(p) => ~ Settled(p, n)' /\ InCharge(p, n)'
  BY <1>3, <1>4 DEF Settled, InCharge, Ahead
<1> QED
  BY <1>1, <1>3, <1>5, ChargeKept

LEMMA ChargePing ==
  ASSUME TriedInv, [Next]_vars, NEW p \in Procs, PingBatch(p),
         NEW n \in Nodes, ChargeAt(n), <<n, addr[n]>> \in blocked
  PROVE  ChargeAt(n)'
<1>1. UNCHANGED <<step, tryNum, fail>> /\ step[p] = "batch"
  BY DEF PingBatch
<1>2. pc \in [Procs -> [Nodes -> Pcs]]
  BY DEF TriedInv, CountInv, OldInv, OldTyped
<1>3. \A q \in Procs \ {p} : pc'[q] = pc[q]
  BY <1>2, PingItems
<1>4. pc'[p][n] = pc[p][n] \/ pc'[p][n] = "begin"
  BY <1>2, PingItems DEF Reachable
<1>5. n \in Mine(p) => ~ Settled(p, n)' /\ InCharge(p, n)'
  BY <1>1, <1>4 DEF ChargeAt, Settled, InCharge, Ahead
<1> QED
  BY <1>1, <1>3, <1>5, ChargeKept

\* The steps of an item leave a blocked node unsettled.
LEMMA ItemSettlesNot ==
  ASSUME AmpleAddrs, TriedInv, faults' = 0, faults = 0, NEW p \in Procs, NEW n \in Nodes,
         processBannedItem(p, n), UNCHANGED addr, NeverOvertaken(n), <<n, addr[n]>> \in blocked,
         ~ Settled(p, n)
  PROVE  ~ Settled(p, n)'
<1> SUFFICES ASSUME Settled(p, n)' PROVE FALSE
  OBVIOUS
<1>0. OldTyped /\ fail \in [Procs -> Nat]
  BY NodesAssumption, FS_CardinalityType DEF TriedInv, CountInv, OldInv, FailInv
<1>1. step[p] = "batch" /\ UNCHANGED step
  BY DEF processBannedItem
<1>2. fail'[p] = 0 /\ pc'[p][n] \notin Ahead \cup {"verify"}
  BY <1>1 DEF Settled
<1>3. CASE Begin(p, n)
  <2>1. Item(p, n, "ended") /\ fail' = [fail EXCEPT ![p] = @ + 1]
    <3>1. ~ Item(p, n, "rotate") /\ ~ Item(p, n, "orphan")
      BY <1>0, <1>2 DEF Item, OldTyped, Ahead
    <3> QED
      BY <1>3, <3>1 DEF Begin
  <2> QED
    BY <1>0, <1>2, <2>1
<1>4. CASE ProcessInstance(p, n)
  <2>1. addr[n] < MaxAddr
    BY <1>1, <1>4, RoundLeft DEF ProcessInstance, TriedInv
  <2>2. addr' # [addr EXCEPT ![n] = @ + 1]
    <3>1. addr[n] \in Nat
      BY <1>0 DEF OldTyped, Addrs
    <3> QED
      BY <1>0, <3>1 DEF OldTyped
  <2> QED
    BY <1>4, <2>1, <2>2 DEF ProcessInstance, Fault
<1>5. CASE Verify(p, n)
  <2>1. PICK up \in SUBSET {n}, nil \in BOOLEAN :
          /\ batchPing({n}, new[p], up, nil)
          /\ fail' = [fail EXCEPT ![p] = IF Failed(n, up, nil) THEN @ + 1 ELSE @]
    BY <1>5 DEF Verify
  <2>2. n \in up
    <3>1. n \notin up => fail'[p] = fail[p] + 1
      BY <1>0, <2>1 DEF Failed
    <3> QED
      BY <1>0, <1>2, <3>1
  <2> QED
    BY <2>1, <2>2 DEF batchPing, TestPingBatch, Reachable
<1>6. CASE ChangeIP(p, n) \/ DropDnsRecord(p, n) \/ CreateDnsRecord(p, n)
  <2>1. pc[p][n] # "orphan"
    BY SeesInstances DEF TriedInv, RoundSeesInstances, Overtaken, NeverOvertaken
  <2> QED
    BY <1>1, <1>2, <1>6, <2>1 DEF ChangeIP, DropDnsRecord, CreateDnsRecord, Settled, Ahead
<1> QED
  BY <1>3, <1>4, <1>5, <1>6 DEF processBannedItem

\* An address changed to a blocked one has p in charge.
LEMMA ChargeChange ==
  ASSUME DisjointTags, TriedInv, [Next]_vars, faults' = 0, faults = 0, NEW n \in Nodes,
         addr'[n] # addr[n], NeverOvertaken(n)
  PROVE  ChargeAt(n)'
<1>0. OldInv /\ OldTyped
  BY DEF TriedInv, CountInv, OldInv
<1>1. PICK p \in Procs :
        processBannedItem(p, n) /\ ProcessInstance(p, n) /\ step[p] = "batch" /\ Item(p, n, "verify")
  BY <1>0, ChangeStep DEF Fault
<1>2. /\ UNCHANGED <<step, tryNum, fail>> /\ pc[p][n] = "rotate" /\ pc'[p][n] = "verify"
      /\ \A q \in Procs \ {p} : pc'[q] = pc[q]
  BY <1>0, <1>1 DEF processBannedItem, ProcessInstance, Item, OldTyped
<1>3. n \in Mine(p)
  BY <1>1, <1>2 DEF TriedInv, CInv, MainInv, WorksOnItsNodes
<1>4. InCharge(p, n)'
  BY <1>1, <1>2 DEF InCharge, Settled
<1>5. ASSUME NEW q \in Procs, n \in Mine(q) PROVE ~ Settled(q, n)'
  <2>1. CASE q = p
    BY <1>2, <2>1 DEF Settled
  <2>2. CASE q # p
    BY <1>1, <1>2, <1>5, <2>2, OneAtWork DEF Settled, TriedInv, CInv
  <2> QED
    BY <2>1, <2>2
<1>6. ASSUME NEW q \in Procs, n \in Mine(q), step'[q] = "over", tryNum'[q] < MaxTryNum PROVE outages' > 0
  <2>1. CASE <<n, addr[n]>> \in blocked
    BY <1>2, <1>6, <2>1, OutagesStep, MaxAssumption DEF TriedInv, ChargeInv, ChargeAt, DownInv
  <2>2. CASE <<n, addr[n]>> \notin blocked
    <3>1. list[p][n] = addr[n]
      BY <1>2 DEF TriedInv, CInv, CurrentInv, Ahead
    <3>2. p \in down
      BY <1>2, <2>2, <3>1 DEF TriedInv, BlockedInv, PingedBlocked
    <3> QED
      BY <3>2, OutagesStep, MaxAssumption DEF TriedInv, DownInv
  <2> QED
    BY <2>1, <2>2
<1> QED
  BY <1>3, <1>4, <1>5, <1>6 DEF ChargeAt, Mine, Key

LEMMA ChargeItem ==
  ASSUME DisjointTags, AmpleAddrs, TriedInv, [Next]_vars, faults' = 0, faults = 0,
         NEW p \in Procs, NEW m \in Nodes, processBannedItem(p, m),
         NEW n \in Nodes, NeverOvertaken(n), <<n, addr'[n]>> \in blocked'
  PROVE  ChargeAt(n)'
<1>0. OldTyped /\ fail \in [Procs -> Nat]
  BY NodesAssumption, FS_CardinalityType DEF TriedInv, CountInv, OldInv, FailInv
<1>1. step[p] = "batch" /\ UNCHANGED <<step, tryNum>>
  BY DEF processBannedItem
<1>2. /\ \A q \in Procs \ {p} : pc'[q] = pc[q] /\ fail'[q] = fail[q]
      /\ n # m => pc'[p][n] = pc[p][n]
      /\ fail'[p] = 0 => fail[p] = 0
  <2>1. PICK s \in Pcs : Item(p, m, s)
    BY DEF processBannedItem, Begin, ProcessInstance, GiveUp, Verify, ChangeIP, DropDnsRecord,
       CreateDnsRecord, Pcs, Busy, InBatch
  <2>2. fail' \in {fail, [fail EXCEPT ![p] = @ + 1]}
    <3>1. CASE Verify(p, m)
      BY <1>0, <3>1 DEF Verify
    <3> QED
      BY <3>1 DEF processBannedItem, Begin, ProcessInstance, ChangeIP, DropDnsRecord, CreateDnsRecord
  <2> QED
    BY <1>0, <2>1, <2>2 DEF Item, OldTyped
<1>3. CASE addr'[n] # addr[n]
  BY <1>3, ChargeChange
<1>4. CASE addr'[n] = addr[n]
  <2>1. <<n, addr[n]>> \in blocked
    <3>1. blocked' \in {blocked, blocked \cup {<<m, addr'[m]>>}}
      BY DEF processBannedItem, Begin, ProcessInstance, Verify, ChangeIP, DropDnsRecord,
         CreateDnsRecord, world
    <3>2. n = m => UNCHANGED blocked
      <4>1. n = m => addr' # [addr EXCEPT ![m] = @ + 1]
        BY <1>0, <1>4 DEF OldTyped, Addrs
      <4> QED
        BY <4>1 DEF processBannedItem, Begin, ProcessInstance, Verify, ChangeIP, DropDnsRecord,
           CreateDnsRecord, world
    <3> QED
      BY <1>4, <3>1, <3>2
  <2>2. ChargeAt(n)
    BY <2>1 DEF TriedInv, ChargeInv
  <2>3. n \in Mine(p) => ~ Settled(p, n)'
    <3>1. CASE n # m
      BY <1>1, <1>2, <2>2, <3>1 DEF ChargeAt, Settled
    <3>2. CASE n = m
      <4>1. UNCHANGED addr
        BY <1>0, <1>4, <3>2 DEF processBannedItem, Begin, ProcessInstance, Verify, ChangeIP,
           DropDnsRecord, CreateDnsRecord, world, OldTyped
      <4> QED
        BY <2>1, <2>2, <3>2, <4>1, ItemSettlesNot DEF ChargeAt
    <3> QED
      BY <3>1, <3>2
  <2>4. n \in Mine(p) => InCharge(p, n)'
    BY <1>1, <2>3 DEF InCharge
  <2> QED
    BY <1>1, <1>2, <2>2, <2>3, <2>4, ChargeKept
<1> QED
  BY <1>3, <1>4

LEMMA ChargeStep ==
  ASSUME DisjointTags, AmpleAddrs, TriedInv, [Next]_vars
  PROVE  ChargeInv'
<1> SUFFICES ASSUME faults' = 0, NEW n \in Nodes, NeverOvertaken(n)', <<n, addr'[n]>> \in blocked'
             PROVE  ChargeAt(n)'
  BY DEF ChargeInv
<1>0. faults = 0 /\ NeverOvertaken(n)
  BY FaultStep, OvertakenGrows DEF TriedInv, CInv, NeverOvertaken
<1>1. ASSUME UNCHANGED <<addr, blocked>> PROVE ChargeAt(n) /\ <<n, addr[n]>> \in blocked
  BY <1>0, <1>1 DEF TriedInv, ChargeInv
<1>2. ASSUME NEW p \in Procs, Launch(p) \/ InitJob(p) \/ TryLock(p) \/ Query(p) \/ PingBatch(p) \/ Return(p)
      PROVE  ChargeAt(n)'
  <2>1. UNCHANGED <<addr, blocked>>
    BY <1>2 DEF Launch, InitJob, TryLock, Query, PingBatch, Return, world
  <2> QED
    BY <1>0, <1>1, <1>2, <2>1, ChargeFrame, ChargeQuery, ChargePing
<1>3. ASSUME NEW p \in Procs, NEW m \in Nodes, processBannedItem(p, m) PROVE ChargeAt(n)'
  BY <1>0, <1>3, ChargeItem
<1>4. ASSUME NEW p \in Procs, Die(p) PROVE FALSE
  BY <1>0, <1>4 DEF Die, Fault
<1>5. ASSUME NEW m \in Nodes, Block(m) PROVE FALSE
  BY <1>0, <1>5 DEF Block, Fault
<1>6. CASE UNCHANGED vars
  <2>1. ChargeAt(n)
    BY <1>1, <1>6 DEF vars, world
  <2> QED
    BY <1>6, <2>1 DEF vars, job, bounds, ChargeAt, Settled, InCharge, UsedUp, Mine, Key
<1> QED
  BY <1>2, <1>3, <1>4, <1>5, <1>6 DEF Next, Proc, Done

\* When there are addresses enough, no call but pings fails and nobody dies, a node no process
\* was overtaken on is left blocked only by processes that used up their rounds or were
\* refused the lock; after an outage of the ping service, another may have changed it since,
\* but used up its rounds (the condition on fail in Run and the loop in main).
THEOREM BlocksAreTried == ASSUME DisjointTags, AmpleAddrs PROVE Spec => []BlockedOnlyAfterMaxTry
<1>1. Init => TriedInv
  <2>1. Init => RoundsInv /\ BlockedInv /\ FailInv
    BY MaxAssumption, NodesAssumption, FS_CardinalityType
       DEF Init, RoundsInv, BlockedInv, PingedBlocked, FailInv
  <2>2. Init => SpentInv
    BY SpentFinite DEF Init, SpentInv
  <2>3. Init => LockHeld /\ DownInv /\ ChargeInv
    BY MaxAssumption DEF Init, LockHeld, DownInv, ChargeInv, ChargeAt, Settled
  <2>4. Init => CInv
    BY MainInit, OldInit DEF Init, CInv, CurrentInv, Busy, InBatch, Ahead
  <2> QED
    BY <2>1, <2>2, <2>3, <2>4, OldInit DEF TriedInv, CountInv
<1>2. TriedInv /\ [Next]_vars => TriedInv'
  <2> SUFFICES ASSUME TriedInv, [Next]_vars PROVE TriedInv'
    OBVIOUS
  <2>1. OldInv' /\ RoundsInv' /\ FailInv'
    BY OldStep, RoundsStep, FailStep DEF TriedInv, CountInv
  <2>2. SpentInv' /\ ChargeInv'
    BY SpentStep, ChargeStep DEF TriedInv
  <2>3. CInv' /\ BlockedInv'
    BY MainStep, OldStep, CurrentStep, FaultStep, BlockedStep DEF TriedInv, CInv
  <2>4. LockHeld' /\ DownInv'
    BY LockStep, DownStep DEF TriedInv, CInv
  <2> QED
    BY <2>1, <2>2, <2>3, <2>4 DEF TriedInv, CountInv
<1>3. TriedInv => BlockedOnlyAfterMaxTry
  <2> SUFFICES ASSUME TriedInv, AllOver, faults = 0, NEW n \in Nodes, NeverOvertaken(n),
                      <<n, addr[n]>> \in blocked, NEW p \in Procs, n \in Mine(p), step[p] = "over",
                      ~ UsedUp(p)
               PROVE  outages > 0 /\ \E q \in Procs : n \in Mine(q) /\ UsedUp(q)
    BY DEF BlockedOnlyAfterMaxTry
  <2>1. tryNum[p] < MaxTryNum
    BY MaxAssumption DEF UsedUp, TriedInv, CountInv, RoundsInv
  <2>2. outages > 0 /\ \E q \in Procs : n \in Mine(q) /\ InCharge(q, n)
    BY <2>1 DEF TriedInv, ChargeInv, ChargeAt
  <2>3. \A q \in Procs : InCharge(q, n) => UsedUp(q)
    BY DEF AllOver, EndedSteps, InCharge
  <2> QED
    BY <2>2, <2>3
<1> QED
  BY <1>1, <1>2, <1>3, PTL DEF Spec
=============================================================================
