-------------------------- MODULE FetchInstancesProofs --------------------------
(***************************************************************************)
(* FetchInstances implements RegionAnswer, for all regions, listings and   *)
(* limits of concurrency.                                                  *)
(***************************************************************************)
EXTENDS FetchInstances, FiniteSetTheorems, TLAPS

\* The regions that have been read to the end and merged.
Read == {r \in Regions : pc[r] = "done" /\ page[r] = Pages}

PcTypeOK ==
  /\ content \in [Regions -> [Names -> Ips \cup {NoIp}]]
  /\ pc \in [Regions -> {"unasked", "fetch", "fetched", "failed", "done"}]
  /\ page \in [Regions -> 0 .. Pages]
  /\ result \in [Regions -> [Names -> Ips \cup {NoIp}]]
  /\ instances \in [Names -> Ips \cup {NoIp}]
  /\ duplicates \subseteq Names
  /\ successCnt \in Nat /\ failureCnt \in Nat

\* Each goroutine has the pages it has read, and all of them when it comes to merge.
PagesInv ==
  \A r \in Regions :
    /\ pc[r] = "unasked" => page[r] = 0
    /\ pc[r] \in {"fetch", "failed"} => page[r] < Pages
    /\ pc[r] = "fetched" => page[r] = Pages
    /\ \A n \in Names :
         result[r][n] = IF PageOf[n] <= page[r] THEN content[r][n] ELSE NoIp

\* The map has a name when the regions merged so far agree on it, duplicates has it
\* when they do not, and the counters tell whether any was read and any lost.
MergedInv ==
  /\ \A n \in Names :
       /\ n \in duplicates =>
            /\ instances[n] = NoIp
            /\ \E r, s \in Read :
                 content[r][n] # NoIp /\ content[s][n] # NoIp /\ content[r][n] # content[s][n]
       /\ n \notin duplicates =>
            \A r \in Read : content[r][n] # NoIp => instances[n] = content[r][n]
       /\ instances[n] # NoIp => \E r \in Read : content[r][n] = instances[n]
  /\ successCnt > 0 <=> Read # {}
  /\ failureCnt > 0 <=> \E r \in Regions : pc[r] = "done" /\ page[r] # Pages

FInv == PcTypeOK /\ PagesInv /\ MergedInv

LEMMA FInvInit == Init => FInv
BY ContentsAssumption, PagesAssumption
   DEF Init, FInv, PcTypeOK, PagesInv, MergedInv, Read, Empty

LEMMA FInvNext ==
  ASSUME FInv, [Next]_vars
  PROVE  FInv'
<1> USE PagesAssumption DEF FInv, PcTypeOK
<1>1. CASE SeedFails \/ Return \/ Terminated \/ UNCHANGED vars
  BY <1>1 DEF SeedFails, Return, Terminated, vars, locals, shared, PagesInv, MergedInv, Read
<1>2. ASSUME NEW r \in Regions, Go(r) PROVE FInv'
  <2>1. Read' = Read /\ \A s \in Regions : pc'[s] = "done" <=> pc[s] = "done"
    BY <1>2 DEF Go, Goto, locals, Read
  <2>2. PcTypeOK' /\ PagesInv'
    BY <1>2 DEF Go, Goto, locals, shared, PagesInv
  <2>3. MergedInv'
    BY <1>2, <2>1 DEF Go, locals, shared, MergedInv
  <2> QED
    BY <2>2, <2>3
<1>3. ASSUME NEW r \in Regions, FetchPage(r) PROVE FInv'
  <2>1. ASSUME ReadPage(r), page' = [page EXCEPT ![r] = @ + 1],
               Goto(r, IF LastPage(r) THEN "fetched" ELSE "fetch")
        PROVE  PcTypeOK' /\ PagesInv'
    <3>1. /\ page[r] \in Nat /\ page[r] < Pages /\ pc[r] = "fetch"
          /\ UNCHANGED <<content, shared>>
      BY <1>3 DEF FetchPage, PagesInv
    <3>2. /\ page' \in [Regions -> 0 .. Pages] /\ page'[r] = page[r] + 1
          /\ pc'[r] = IF page[r] + 1 = Pages THEN "fetched" ELSE "fetch"
          /\ pc' \in [Regions -> {"unasked", "fetch", "fetched", "failed", "done"}]
          /\ \A s \in Regions : s # r => page'[s] = page[s] /\ pc'[s] = pc[s] /\ result'[s] = result[s]
      BY <2>1, <3>1 DEF LastPage, Goto, ReadPage
    <3>3. result'[r] = [n \in Names |-> IF PageOf[n] = page[r] + 1 THEN content[r][n] ELSE result[r][n]]
      BY <2>1 DEF ReadPage
    <3>4. result' \in [Regions -> [Names -> Ips \cup {NoIp}]]
      BY <2>1, <3>3 DEF ReadPage
    <3>5. PcTypeOK'
      BY <3>1, <3>2, <3>4 DEF shared
    <3>6. \A n \in Names : result'[r][n] = IF PageOf[n] <= page'[r] THEN content[r][n] ELSE NoIp
      <4> SUFFICES ASSUME NEW n \in Names
                   PROVE  result'[r][n] = IF PageOf[n] <= page[r] + 1 THEN content[r][n] ELSE NoIp
        BY <3>2
      <4>1. PageOf[n] \in Nat /\ result[r][n] = IF PageOf[n] <= page[r] THEN content[r][n] ELSE NoIp
        BY DEF PagesInv
      <4> QED
        <5>1. result'[r][n] = IF PageOf[n] = page[r] + 1 THEN content[r][n] ELSE result[r][n]
          BY <3>3
        <5>2. CASE PageOf[n] = page[r] + 1
          BY <3>1, <5>1, <5>2
        <5>3. CASE PageOf[n] # page[r] + 1
          <6>1. PageOf[n] <= page[r] <=> PageOf[n] <= page[r] + 1
            <7>1. \A x, y \in Nat : x # y + 1 => (x <= y <=> x <= y + 1)
              OBVIOUS
            <7> HIDE DEF FInv, PcTypeOK
            <7> QED
              BY <7>1, <3>1, <4>1, <5>3
          <6> QED
            BY <4>1, <5>1, <5>3, <6>1
        <5> QED
          BY <5>2, <5>3
    <3>7. PagesInv'
      <4> SUFFICES ASSUME NEW s \in Regions
                   PROVE  /\ pc'[s] = "unasked" => page'[s] = 0
                          /\ pc'[s] \in {"fetch", "failed"} => page'[s] < Pages
                          /\ pc'[s] = "fetched" => page'[s] = Pages
                          /\ \A n \in Names :
                               result'[s][n] = IF PageOf[n] <= page'[s] THEN content'[s][n] ELSE NoIp
        BY DEF PagesInv
      <4>1. CASE s = r
        BY <3>1, <3>2, <3>6, <4>1
      <4>2. CASE s # r
        BY <3>1, <3>2, <4>2 DEF PagesInv
      <4> QED
        BY <4>1, <4>2
    <3> QED
      BY <3>5, <3>7
  <2>2. ASSUME Goto(r, "failed"), UNCHANGED locals
        PROVE  PcTypeOK' /\ PagesInv'
    BY <1>3, <2>2 DEF FetchPage, Goto, locals, shared, PagesInv
  <2>3. Read' = Read /\ \A s \in Regions : pc'[s] = "done" <=> pc[s] = "done"
    BY <1>3 DEF FetchPage, LastPage, Goto, locals, Read
  <2>4. MergedInv'
    <3>1. \A s \in Regions : pc[s] = "done" => page'[s] = page[s]
      BY <1>3 DEF FetchPage, locals
    <3> QED
      BY <1>3, <2>3, <3>1 DEF FetchPage, shared, MergedInv
  <2> QED
    BY <1>3, <2>1, <2>2, <2>4 DEF FetchPage
<1>4. ASSUME NEW r \in Regions, Merge(r) PROVE FInv'
  <2>1. page[r] = Pages /\ result[r] = content[r] /\ r \notin Read
    BY <1>4 DEF Merge, PagesInv, Read
  <2>2. Read' = Read \cup {r} /\ content' = content
    BY <1>4, <2>1 DEF Merge, Goto, locals, Read
  <2>3. PcTypeOK' /\ PagesInv'
    BY <1>4 DEF Merge, Goto, Remember, Conflicts, locals, PagesInv
  <2>4. ASSUME NEW n \in Names
        PROVE  /\ n \in duplicates' =>
                    /\ instances'[n] = NoIp
                    /\ \E s, t \in Read' :
                         content[s][n] # NoIp /\ content[t][n] # NoIp /\ content[s][n] # content[t][n]
               /\ n \notin duplicates' =>
                    \A s \in Read' : content[s][n] # NoIp => instances'[n] = content[s][n]
               /\ instances'[n] # NoIp => \E s \in Read' : content[s][n] = instances'[n]
    <3>1. CASE n \in Conflicts(r)
      BY <1>4, <2>1, <2>2, <3>1 DEF Merge, Remember, Conflicts, MergedInv
    <3>2. CASE n \notin Conflicts(r)
      BY <1>4, <2>1, <2>2, <3>2 DEF Merge, Remember, Conflicts, MergedInv
    <3> QED
      BY <3>1, <3>2
  <2>5. successCnt' > 0 /\ Read' # {}
    BY <1>4, <2>2 DEF Merge
  <2>6. failureCnt' > 0 <=> \E s \in Regions : pc'[s] = "done" /\ page'[s] # Pages
    BY <1>4, <2>1 DEF Merge, Goto, locals, MergedInv
  <2> QED
    BY <2>2, <2>3, <2>4, <2>5, <2>6 DEF MergedInv
<1>5. ASSUME NEW r \in Regions, CountFailure(r) PROVE FInv'
  <2>1. page[r] # Pages
    BY <1>5 DEF CountFailure, PagesInv
  <2>2. Read' = Read
    BY <1>5, <2>1 DEF CountFailure, Goto, locals, Read
  <2> QED
    BY <1>5, <2>1, <2>2 DEF CountFailure, Goto, locals, PagesInv, MergedInv
<1> QED
  BY <1>1, <1>2, <1>3, <1>4, <1>5 DEF Next

LEMMA FInvInvariant == Spec => []FInv
<1>1. FInv /\ [Next]_vars => FInv'
  BY FInvNext
<1> QED
  BY <1>1, FInvInit, PTL DEF Spec

\* The map that is returned is the one the merged regions agree on.
LEMMA MapIsAgreed ==
  ASSUME FInv
  PROVE  instances = Promise!Agreed(Read)
<1> SUFFICES ASSUME NEW n \in Names PROVE instances[n] = Promise!Agreed(Read)[n]
  BY DEF FInv, PcTypeOK, Promise!Agreed
<1> USE NoIpAssumption DEF FInv, PcTypeOK
<1> DEFINE V == Promise!Values(Read, n)
<1>1. V = {content[r][n] : r \in Read} \ {NoIp}
  BY DEF Promise!Values
<1>2. CASE instances[n] # NoIp
  <2>1. PICK r \in Read : content[r][n] = instances[n]
    BY <1>2 DEF MergedInv
  <2>2. n \notin duplicates /\ \A s \in Read : content[s][n] \in {NoIp, instances[n]}
    BY <1>2 DEF MergedInv
  <2>3. V = {instances[n]}
    BY <1>1, <1>2, <2>1, <2>2
  <2>4. instances[n] \in Ips
    BY <1>2
  <2> QED
    BY <2>3, <2>4 DEF Promise!Agreed
<1>3. CASE instances[n] = NoIp
  <2>1. \A ip \in Ips : V # {ip}
    <3>1. CASE n \in duplicates
      <4>1. PICK r, s \in Read :
              content[r][n] # NoIp /\ content[s][n] # NoIp /\ content[r][n] # content[s][n]
        BY <3>1 DEF MergedInv
      <4> QED
        BY <1>1, <4>1
    <3>2. CASE n \notin duplicates
      <4>1. \A r \in Read : content[r][n] = NoIp
        BY <1>3, <3>2 DEF MergedInv
      <4>2. V = {}
        BY <1>1, <4>1
      <4> QED
        BY <4>2
    <3> QED
      BY <3>1, <3>2
  <2> QED
    BY <1>3, <2>1 DEF Promise!Agreed
<1> QED
  BY <1>2, <1>3

\* FetchInstances gives one answer, an error or the names its regions agree on,
\* whatever order they are read, lost and merged in.
THEOREM FetchKeepsPromise == Spec => AnswersAsPromised
<1>1. Init => Promise!Init
  BY ContentsAssumption DEF Init, Promise!Init
<1>2. FInv /\ [Next]_vars => [Promise!Answer \/ Promise!Refuse]_<<content, answer>>
  <2> SUFFICES ASSUME FInv, [Next]_vars
               PROVE  [Promise!Answer \/ Promise!Refuse]_<<content, answer>>
    OBVIOUS
  <2>1. CASE SeedFails
    BY <2>1 DEF SeedFails, Promise!Refuse
  <2>2. CASE Return
    <3>1. AllFailed <=> Read = {} /\ Regions # {}
      BY <2>2 DEF Return, AllFailed, FInv, PcTypeOK, MergedInv, Read
    <3>2. Read \in SUBSET Regions
      BY DEF Read
    <3>3. answer' = IF Read = {} /\ Regions # {} THEN Failed ELSE Promise!Agreed(Read)
      BY <2>2, <3>1, MapIsAgreed DEF Return
    <3> QED
      BY <2>2, <3>2, <3>3 DEF Return, Promise!Answer
  <2>3. CASE UNCHANGED <<content, answer>>
    BY <2>3
  <2> QED
    BY <2>1, <2>2, <2>3
       DEF Next, Go, FetchPage, Merge, CountFailure, Terminated, vars
<1> QED
  BY <1>1, <1>2, FInvInvariant, PTL DEF Spec, AnswersAsPromised, Promise!Spec

-----------------------------------------------------------------------------
(* Type correctness.                                                       *)

\* Every region that is done has been counted once, and no other.
DoneRegions == {r \in Regions : pc[r] = "done"}
Counted ==
  /\ successCnt + failureCnt = Cardinality(DoneRegions)
  /\ answer \in [Names -> Ips \cup {NoIp}] \cup {Unanswered, Failed}

LEMMA CountedStep ==
  ASSUME FInv, Counted, [Next]_vars
  PROVE  Counted'
<1>1. IsFiniteSet(DoneRegions)
  BY RegionsAssumption, FS_Subset DEF DoneRegions
<1>2. successCnt \in Nat /\ failureCnt \in Nat /\ instances \in [Names -> Ips \cup {NoIp}]
  BY DEF FInv, PcTypeOK
<1>3. ASSUME NEW r \in Regions, Go(r) \/ FetchPage(r) PROVE Counted'
  <2>1. DoneRegions' = DoneRegions
    BY <1>3 DEF Go, FetchPage, Goto, DoneRegions, FInv, PcTypeOK
  <2> QED
    BY <1>3, <2>1 DEF Go, FetchPage, shared, Counted
<1>4. ASSUME NEW r \in Regions, Merge(r) \/ CountFailure(r) PROVE Counted'
  <2>1. DoneRegions' = DoneRegions \cup {r} /\ r \notin DoneRegions
    BY <1>4 DEF Merge, CountFailure, Goto, DoneRegions, FInv, PcTypeOK
  <2>2. Cardinality(DoneRegions') = Cardinality(DoneRegions) + 1 /\ Cardinality(DoneRegions) \in Nat
    BY <1>1, <2>1, FS_AddElement, FS_CardinalityType
  <2>3. successCnt' + failureCnt' = (successCnt + failureCnt) + 1 /\ UNCHANGED answer
    BY <1>2, <1>4 DEF Merge, CountFailure
  <2> QED
    BY <2>2, <2>3 DEF Counted
<1>5. CASE SeedFails \/ Return \/ Terminated \/ UNCHANGED vars
  <2>1. UNCHANGED <<pc, successCnt, failureCnt>> /\ answer' \in {answer, Failed, instances}
    BY <1>5 DEF SeedFails, Return, Terminated, vars, shared
  <2> QED
    BY <1>2, <2>1 DEF Counted, DoneRegions
<1> QED
  BY <1>3, <1>4, <1>5 DEF Next

\* Every variable keeps its type: no region is counted twice, as a success or as a failure,
\* for any number of regions (the goroutines of FetchInstances).
THEOREM FetchTyped == Spec => []FetchTypeOK
<1>1. Init => Counted
  <2>1. Init => DoneRegions = {}
    BY DEF Init, DoneRegions
  <2> QED
    BY <2>1, FS_EmptySet DEF Init, Counted
<1>2. FInv /\ Counted => FetchTypeOK
  <2> SUFFICES ASSUME FInv, Counted PROVE FetchTypeOK
    OBVIOUS
  <2>1. Cardinality(DoneRegions) <= Cardinality(Regions)
    BY RegionsAssumption, FS_Subset DEF DoneRegions
  <2>2. Cardinality(DoneRegions) \in Nat /\ Cardinality(Regions) \in Nat
    BY RegionsAssumption, FS_Subset, FS_CardinalityType DEF DoneRegions
  <2>3. successCnt \in 0 .. Cardinality(Regions) /\ failureCnt \in 0 .. Cardinality(Regions)
    BY <2>1, <2>2 DEF FInv, PcTypeOK, Counted
  <2> QED
    BY <2>3 DEF FInv, PcTypeOK, Counted, FetchTypeOK
<1>3. FInv /\ Counted /\ [Next]_vars => Counted'
  BY CountedStep
<1> QED
  BY <1>1, <1>2, <1>3, FInvInvariant, PTL DEF Spec
=============================================================================
