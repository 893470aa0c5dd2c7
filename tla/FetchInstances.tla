---------------------------- MODULE FetchInstances ----------------------------
(***************************************************************************)
(* SyncJob.FetchInstances (internal/app/sync_ssh_config/job.go): the       *)
(* regions are read in parallel, at most `concurrency` at a time, page by  *)
(* page; each goroutine merges what it read into one map under mu.         *)
(***************************************************************************)
EXTENDS Naturals, FiniteSets

CONSTANTS
  Regions,      \* what GetRegions returns
  Names,        \* instance names
  Ips, NoIp,    \* public addresses, "no such instance here"
  Pages,        \* pages a region's listing has
  PageOf,       \* the page an instance name is on
  Contents,     \* what the regions may hold
  Concurrency,  \* goroutines at a time
  Unanswered,   \* nothing returned yet
  Failed        \* an error returned

ASSUME NoIpAssumption == NoIp \notin Ips
ASSUME PagesAssumption == Pages \in Nat \ {0} /\ PageOf \in [Names -> 1 .. Pages]
ASSUME ContentsAssumption == Contents \subseteq [Regions -> [Names -> Ips \cup {NoIp}]]
ASSUME RegionsAssumption == IsFiniteSet(Regions)
ASSUME AnswerAssumption ==
  /\ Unanswered # Failed
  /\ {Unanswered, Failed} \cap [Names -> Ips \cup {NoIp}] = {}
ASSUME ConcurrencyAssumption == Concurrency \in Nat \ {0}

VARIABLES
  content,     \* public address of each name in each region
  pc,          \* where the goroutine of each region is
  page,        \* pages it has read
  result,      \* result of fetchRegion so far
  instances,   \* name -> address, NoIp when absent
  duplicates,  \* names seen with two addresses
  successCnt, failureCnt,
  answer       \* what FetchInstances has returned

locals == <<page, result>>
shared == <<instances, duplicates, successCnt, failureCnt>>
vars == <<content, pc, locals, shared, answer>>

Empty == [n \in Names |-> NoIp]

Init ==
  /\ content \in Contents
  /\ pc = [r \in Regions |-> "unasked"]
  /\ page = [r \in Regions |-> 0]
  /\ result = [r \in Regions |-> Empty]
  /\ instances = Empty
  /\ duplicates = {}
  /\ successCnt = 0 /\ failureCnt = 0
  /\ answer = Unanswered

Goto(r, to) == pc' = [pc EXCEPT ![r] = to]
Active == {r \in Regions : pc[r] \notin {"unasked", "done"}}

\* GetRegions, or the factory's client for the seed region, fails.
SeedFails ==
  /\ answer = Unanswered
  /\ \A r \in Regions : pc[r] = "unasked"
  /\ answer' = Failed
  /\ UNCHANGED <<content, pc, locals, shared>>

\* g.Go, which waits while Concurrency goroutines are at work.
Go(r) ==
  /\ answer = Unanswered
  /\ pc[r] = "unasked"
  /\ Cardinality(Active) < Concurrency
  /\ Goto(r, "fetch")
  /\ UNCHANGED <<content, locals, shared, answer>>

\* One call of GetInstances: the next page, or an error, which loses the pages read.
\* A client that cannot be made is the error before the first page.
ReadPage(r) ==
  result' = [result EXCEPT ![r] =
    [n \in Names |-> IF PageOf[n] = page[r] + 1 THEN content[r][n] ELSE @[n]]]

OnePageMore(r) == page[r] = Pages
LastPage(r) == page[r] + 1 = Pages

FetchPage(r) ==
  /\ pc[r] = "fetch"
  /\ \/ /\ ReadPage(r)
        /\ page' = [page EXCEPT ![r] = @ + 1]
        /\ Goto(r, IF LastPage(r) THEN "fetched" ELSE "fetch")
     \/ /\ Goto(r, "failed")
        /\ UNCHANGED locals
  /\ UNCHANGED <<content, shared, answer>>

\* The rest of the goroutine, with mu held.
Conflicts(r) ==
  {n \in Names \ duplicates :
     result[r][n] # NoIp /\ instances[n] # NoIp /\ instances[n] # result[r][n]}

ForgetConflicts(r) == UNCHANGED duplicates
Remember(r) == duplicates' = duplicates \cup Conflicts(r)

Merge(r) ==
  /\ pc[r] = "fetched"
  /\ successCnt' = successCnt + 1
  /\ Remember(r)
  /\ instances' = [n \in Names |->
       IF result[r][n] = NoIp \/ n \in duplicates THEN instances[n]
       ELSE IF n \in Conflicts(r) THEN NoIp ELSE result[r][n]]
  /\ Goto(r, "done")
  /\ UNCHANGED <<content, locals, failureCnt, answer>>

CountFailure(r) ==
  /\ pc[r] = "failed"
  /\ failureCnt' = failureCnt + 1
  /\ Goto(r, "done")
  /\ UNCHANGED <<content, locals, instances, duplicates, successCnt, answer>>

\* g.Wait, and the answer.
AllFailed == successCnt = 0 /\ failureCnt > 0
Return ==
  /\ answer = Unanswered
  /\ \A r \in Regions : pc[r] = "done"
  /\ answer' = IF AllFailed THEN Failed ELSE instances
  /\ UNCHANGED <<content, pc, locals, shared>>

Terminated == answer # Unanswered /\ UNCHANGED vars

Next ==
  \/ SeedFails \/ Return \/ Terminated
  \/ \E r \in Regions : Go(r) \/ FetchPage(r) \/ Merge(r) \/ CountFailure(r)

Spec == Init /\ [][Next]_vars

-----------------------------------------------------------------------------
FetchTypeOK ==
  /\ content \in [Regions -> [Names -> Ips \cup {NoIp}]]
  /\ pc \in [Regions -> {"unasked", "fetch", "fetched", "failed", "done"}]
  /\ page \in [Regions -> 0 .. Pages]
  /\ result \in [Regions -> [Names -> Ips \cup {NoIp}]]
  /\ instances \in [Names -> Ips \cup {NoIp}]
  /\ duplicates \subseteq Names
  /\ successCnt \in 0 .. Cardinality(Regions) /\ failureCnt \in 0 .. Cardinality(Regions)
  /\ answer \in [Names -> Ips \cup {NoIp}] \cup {Unanswered, Failed}

\* FetchInstances implements its promise: the answer does not depend on the order in
\* which regions answer and are merged, nor on a region that failed half way through
\* its pages (FetchInstances and fetchRegion).
Promise == INSTANCE RegionAnswer
AnswersAsPromised == Promise!Spec

\* What the comment on FetchInstances says: a name that two regions have, with
\* different addresses, is dropped.
DuplicatesDropped ==
  answer \notin {Unanswered, Failed} =>
    \A n \in Names, r, s \in Regions :
      /\ content[r][n] # NoIp /\ content[s][n] # NoIp
      /\ content[r][n] # content[s][n]
      => answer[n] = NoIp
=============================================================================
