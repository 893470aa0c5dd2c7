-------------------------- MODULE ClientCacheProofs --------------------------
(***************************************************************************)
(* Proofs about ClientCache: for any number of goroutines, services and    *)
(* regions, the memoized clients keep the promise of MemoizedClients.      *)
(***************************************************************************)
EXTENDS ClientCache, TLAPS

\* A goroutine is in a call exactly when it waits for a slot, and its place in the code
\* is one of those of that slot's getter; only the goroutine that runs the function of a
\* service is in it, and it is over when a goroutine returns what it left.
Placed ==
  \A c \in Callers :
    /\ pc[c] = "idle" <=> slot[c] = NoSlot
    /\ pc[c] \in {"do", "build", "return"} => slot[c] \in OnceSlots
    /\ pc[c] = "build" => once[slot[c]] = "running"
    /\ pc[c] = "return" => once[slot[c]] = "done"
    /\ pc[c] \in {"load", "make", "store"} => slot[c] \in Regions
    /\ pc[c] # "idle" => nth[c] \in 1 .. MaxCalls

OneBuilds ==
  \A c, d \in Callers : pc[c] = "build" /\ pc[d] = "build" /\ slot[c] = slot[d] => c = d

\* A service has nothing before its function is over, and one of a client and an error
\* from then on.
FilledByDone ==
  \A s \in OnceSlots :
    /\ once[s] # "done" => client[s] = NoClient /\ s \notin err
    /\ once[s] = "done" => (client[s] = NoClient <=> s \in err)

ClientInv == ClientTypeOK /\ Placed /\ OneBuilds /\ FilledByDone

-----------------------------------------------------------------------------
LEMMA ClientInit == Init => ClientInv
BY SlotsAssumption, BoundsAssumption
DEF Init, ClientInv, ClientTypeOK, Placed, OneBuilds, FilledByDone, Slots

LEMMA NewIsClient ==
  ASSUME ClientInv, NEW c \in Callers, pc[c] # "idle"
  PROVE  New(c) \in Clients /\ New(c) # NoClient /\ New(c) # Failed
<1>1. slot[c] \in Slots /\ nth[c] \in 1 .. MaxCalls
  BY SlotsAssumption DEF ClientInv, ClientTypeOK, Placed
<1> QED
  BY <1>1, MarksAssumption DEF New, Clients

-----------------------------------------------------------------------------
(* The invariant is kept.                                                  *)

LEMMA CallKeeps ==
  ASSUME ClientInv, NEW c \in Callers, Call(c)
  PROVE  ClientInv'
BY SlotsAssumption, BoundsAssumption
DEF ClientInv, ClientTypeOK, Placed, OneBuilds, FilledByDone, Call, cache, Slots

LEMMA DoKeeps ==
  ASSUME ClientInv, NEW c \in Callers, Do(c)
  PROVE  ClientInv'
<1>1. slot[c] \in OnceSlots /\ once[slot[c]] \in {"new", "running", "done"}
  BY DEF ClientInv, ClientTypeOK, Placed, Do
<1>2. CASE Runs(slot[c])
  <2>1. once' = [once EXCEPT ![slot[c]] = "running"] /\ Goto(c, "build")
    BY <1>2 DEF Do, Runs, Passes
  <2> QED
    BY <1>1, <1>2, <2>1
    DEF ClientInv, ClientTypeOK, Placed, OneBuilds, FilledByDone, Do, Runs, Goto
<1>3. CASE Passes(slot[c])
  <2>1. UNCHANGED once /\ Goto(c, "return")
    BY <1>3 DEF Do, Runs, Passes
  <2> QED
    BY <1>1, <1>3, <2>1
    DEF ClientInv, ClientTypeOK, Placed, OneBuilds, FilledByDone, Do, Passes, Goto
<1> QED
  BY <1>2, <1>3 DEF Do

LEMMA BuildKeeps ==
  ASSUME ClientInv, NEW c \in Callers, Build(c)
  PROVE  ClientInv'
<1> DEFINE s == slot[c]
<1>1. /\ s \in OnceSlots /\ s \in Slots /\ once[s] = "running"
      /\ client[s] = NoClient /\ s \notin err
      /\ New(c) \in Clients /\ New(c) # NoClient
  BY NewIsClient DEF ClientInv, Placed, FilledByDone, Build, Slots
<1>2. /\ pc' = [pc EXCEPT ![c] = "return"]
      /\ UNCHANGED <<slot, nth, answer, configured, calls>>
      /\ once' = [once EXCEPT ![s] = "done"]
      /\ \/ client' = [client EXCEPT ![s] = New(c)] /\ UNCHANGED err
         \/ err' = err \cup {s} /\ UNCHANGED client
      /\ faults' \in 0 .. MaxFaults
  BY BoundsAssumption DEF Build, Finish, GiveUp, Goto, Fault, ClientInv, ClientTypeOK
<1> HIDE DEF s
<1>3. ClientTypeOK'
  <2>1. client' \in [Slots -> Clients \cup {NoClient}] /\ err' \subseteq OnceSlots
    BY <1>1, <1>2 DEF ClientInv, ClientTypeOK
  <2>2. \A t \in err' : client'[t] = NoClient
    BY <1>1, <1>2 DEF ClientInv, ClientTypeOK, Slots
  <2>3. once' \in [OnceSlots -> {"new", "running", "done"}]
    BY <1>1, <1>2 DEF ClientInv, ClientTypeOK
  <2> QED
    BY <1>2, <2>1, <2>2, <2>3 DEF ClientInv, ClientTypeOK
<1>4. Placed'
  BY <1>1, <1>2 DEF ClientInv, ClientTypeOK, Placed, OneBuilds, Build, s
<1>5. OneBuilds'
  BY <1>2 DEF ClientInv, ClientTypeOK, OneBuilds
<1>6. FilledByDone'
  BY <1>1, <1>2 DEF ClientInv, ClientTypeOK, FilledByDone, Slots
<1> QED
  BY <1>3, <1>4, <1>5, <1>6 DEF ClientInv

LEMMA AnswerKeeps ==
  ASSUME ClientInv, NEW c \in Callers, Answer(c)
  PROVE  ClientInv'
<1>1. slot[c] \in Slots
  BY DEF ClientInv, Placed, Answer, Slots
<1> QED
  BY <1>1, SlotsAssumption, BoundsAssumption
  DEF ClientInv, ClientTypeOK, Placed, OneBuilds, FilledByDone, Answer, Return, cache

LEMMA LoadKeeps ==
  ASSUME ClientInv, NEW c \in Callers, Load(c)
  PROVE  ClientInv'
<1>1. slot[c] \in Regions /\ slot[c] \in Slots /\ nth[c] \in 1 .. MaxCalls /\ pc[c] = "load"
  BY DEF ClientInv, Placed, Load, Slots
<1>2. CASE Return(c, client[slot[c]])
  BY <1>1, <1>2, BoundsAssumption
  DEF ClientInv, ClientTypeOK, Placed, OneBuilds, FilledByDone, Load, Return, cache
<1>3. CASE Goto(c, "make")
  BY <1>1, <1>3, SlotsAssumption
  DEF ClientInv, ClientTypeOK, Placed, OneBuilds, FilledByDone, Load, Goto, cache
<1> QED
  BY <1>2, <1>3 DEF Load

LEMMA MakeKeeps ==
  ASSUME ClientInv, NEW c \in Callers, Make(c)
  PROVE  ClientInv'
<1>1. slot[c] \in Regions /\ slot[c] \in Slots /\ nth[c] \in 1 .. MaxCalls /\ pc[c] = "make"
  BY DEF ClientInv, Placed, Make, Slots
<1>2. CASE Goto(c, "store") /\ UNCHANGED faults
  BY <1>1, <1>2, SlotsAssumption
  DEF ClientInv, ClientTypeOK, Placed, OneBuilds, FilledByDone, Make, Goto, cache
<1>3. CASE Return(c, Failed) /\ Fault
  BY <1>1, <1>3, BoundsAssumption
  DEF ClientInv, ClientTypeOK, Placed, OneBuilds, FilledByDone, Make, Return, Fault, cache
<1> QED
  BY <1>2, <1>3 DEF Make

LEMMA KeepKeeps ==
  ASSUME ClientInv, NEW c \in Callers, Keep(c)
  PROVE  ClientInv'
<1> DEFINE kept == LoadOrStore(c)
<1>1. slot[c] \in Regions /\ slot[c] \in Slots /\ slot[c] \notin OnceSlots
  BY SlotsAssumption DEF ClientInv, Placed, Keep, Slots
<1>2. kept \in Clients
  BY <1>1, NewIsClient DEF LoadOrStore, ClientInv, ClientTypeOK, Keep
<1>3. /\ client' = [client EXCEPT ![slot[c]] = kept]
      /\ Return(c, kept)
      /\ UNCHANGED <<once, err, configured, calls, faults>>
  BY DEF Keep
<1> HIDE DEF kept
<1>4. ClientTypeOK'
  BY <1>1, <1>2, <1>3, BoundsAssumption DEF ClientInv, ClientTypeOK, Return
<1>5. Placed' /\ OneBuilds'
  BY <1>3 DEF ClientInv, ClientTypeOK, Placed, OneBuilds, Return
<1>6. FilledByDone'
  BY <1>1, <1>3 DEF ClientInv, ClientTypeOK, FilledByDone
<1> QED
  BY <1>4, <1>5, <1>6 DEF ClientInv

LEMMA ClientStep == ClientInv /\ [Next]_vars => ClientInv'
<1> SUFFICES ASSUME ClientInv, [Next]_vars PROVE ClientInv'
  OBVIOUS
<1>1. ASSUME NEW c \in Callers, Call(c) \/ step(c)
      PROVE  ClientInv'
  BY <1>1, CallKeeps, DoKeeps, BuildKeeps, AnswerKeeps, LoadKeeps, MakeKeeps, KeepKeeps DEF step
<1>2. CASE UNCHANGED vars
  BY <1>2
  DEF ClientInv, ClientTypeOK, Placed, OneBuilds, FilledByDone, vars, cache
<1> QED
  BY <1>1, <1>2 DEF Next

\* Types, and never both a client and an error of one service: the function given to
\* once.Do runs once, whoever calls GetClient and GetAPI (ClientTypeOK).
THEOREM ClientsTyped == Spec => []ClientTypeOK
<1>1. Spec => []ClientInv
  BY ClientInit, ClientStep, PTL DEF Spec
<1>2. ClientInv => ClientTypeOK
  BY DEF ClientInv
<1> QED
  BY <1>1, <1>2, PTL

-----------------------------------------------------------------------------
(* The promise is kept, step by step.                                      *)

cells == [s \in Slots |-> Held(s)]
promised == <<cells, slot, answer>>

\* What a slot holds follows from once, client and err alone.
LEMMA SameCells == UNCHANGED <<once, client, err>> => UNCHANGED cells
BY DEF cells, Held

LEMMA PromiseInit == Init => Promise!Init
BY SlotsAssumption DEF Init, Promise!Init, Held, Slots

LEMMA CallPromised ==
  ASSUME ClientInv, NEW c \in Callers, Call(c)
  PROVE  Promise!Ask(c)
<1>1. slot[c] = NoSlot /\ UNCHANGED cells
  BY SameCells DEF ClientInv, Placed, Call, cache
<1> QED
  BY <1>1 DEF Call, Promise!Ask, cells

LEMMA DoPromised ==
  ASSUME ClientInv, NEW c \in Callers, Do(c)
  PROVE  UNCHANGED promised
<1>1. slot[c] \in OnceSlots
  BY DEF ClientInv, Placed, Do
<1>2. UNCHANGED <<client, err, slot, answer>>
  BY DEF Do, Goto
<1>3. \A s \in OnceSlots : once'[s] = "done" <=> once[s] = "done"
  BY <1>1 DEF ClientInv, ClientTypeOK, Do, Runs, Passes
<1> QED
  BY <1>2, <1>3 DEF promised, cells, Held

LEMMA BuildPromised ==
  ASSUME ClientInv, NEW c \in Callers, Build(c)
  PROVE  Promise!Fill
<1> DEFINE s == slot[c]
<1>1. /\ s \in OnceSlots /\ s \in Slots /\ once[s] = "running"
      /\ client[s] = NoClient /\ s \notin err
      /\ New(c) \in Clients
  BY NewIsClient DEF ClientInv, Placed, FilledByDone, Build, Slots
<1>2. /\ UNCHANGED <<slot, answer>>
      /\ once' = [once EXCEPT ![s] = "done"]
      /\ \/ client' = [client EXCEPT ![s] = New(c)] /\ UNCHANGED err
         \/ err' = err \cup {s} /\ UNCHANGED client
  BY DEF Build, Finish, GiveUp, Goto
<1> HIDE DEF s
<1>3. cells[s] = NoClient
  BY <1>1 DEF cells, Held
<1>4. \E v \in Clients \cup {Failed} : cells' = [cells EXCEPT ![s] = v]
  <2>1. CASE client' = [client EXCEPT ![s] = New(c)] /\ UNCHANGED err
    <3>1. cells' = [cells EXCEPT ![s] = New(c)]
      BY <1>1, <1>2, <2>1 DEF cells, Held, ClientInv, ClientTypeOK
    <3> QED
      BY <1>1, <3>1
  <2>2. CASE err' = err \cup {s} /\ UNCHANGED client
    <3>1. cells' = [cells EXCEPT ![s] = Failed]
      BY <1>1, <1>2, <2>2 DEF cells, Held, ClientInv, ClientTypeOK
    <3> QED
      BY <3>1
  <2> QED
    BY <1>2, <2>1, <2>2
<1> QED
  BY <1>1, <1>2, <1>3, <1>4 DEF Promise!Fill, Promise!Filled, cells

LEMMA AnswerPromised ==
  ASSUME ClientInv, NEW c \in Callers, Answer(c)
  PROVE  Promise!Answer(c)
<1>1. /\ slot[c] \in OnceSlots /\ slot[c] \in Slots /\ slot[c] # NoSlot
      /\ once[slot[c]] = "done"
      /\ slot[c] \in err => client[slot[c]] = NoClient
  BY SlotsAssumption DEF ClientInv, ClientTypeOK, Placed, Answer, Slots
<1>2. UNCHANGED cells
  BY SameCells DEF Answer, cache
<1>3. cells[slot[c]] = (IF slot[c] \in err THEN Failed ELSE client[slot[c]])
  BY <1>1 DEF cells, Held
<1>4. cells[slot[c]] # NoClient
  BY <1>1, <1>3, MarksAssumption DEF ClientInv, FilledByDone
<1> QED
  BY <1>1, <1>2, <1>3, <1>4 DEF Answer, Return, Promise!Answer, cells

\* A region has no error to hold.
LEMMA RegionHolds ==
  ASSUME ClientInv, NEW s \in Regions
  PROVE  s \in Slots /\ s # NoSlot /\ s \notin OnceSlots /\ cells[s] = client[s]
BY SlotsAssumption DEF ClientInv, ClientTypeOK, cells, Held, Slots

LEMMA LoadPromised ==
  ASSUME ClientInv, NEW c \in Callers, Load(c)
  PROVE  Promise!Answer(c) \/ UNCHANGED promised
<1>1. slot[c] \in Regions /\ UNCHANGED cells
  BY SameCells DEF ClientInv, Placed, Load, cache
<1>2. CASE client[slot[c]] # NoClient
  BY <1>1, <1>2, RegionHolds DEF Load, Return, Promise!Answer, cells
<1>3. CASE client[slot[c]] = NoClient
  BY <1>1, <1>3 DEF Load, Goto, promised
<1> QED
  BY <1>2, <1>3

LEMMA MakePromised ==
  ASSUME ClientInv, NEW c \in Callers, Make(c)
  PROVE  Promise!Answer(c) \/ UNCHANGED promised
<1>1. slot[c] \in Regions /\ UNCHANGED cells
  BY SameCells DEF ClientInv, Placed, Make, cache
<1>2. CASE Goto(c, "store")
  BY <1>1, <1>2 DEF Goto, promised
<1>3. CASE Return(c, Failed)
  BY <1>1, <1>3, RegionHolds DEF Return, Promise!Answer, cells
<1> QED
  BY <1>2, <1>3 DEF Make

LEMMA KeepPromised ==
  ASSUME ClientInv, NEW c \in Callers, Keep(c)
  PROVE  Promise!Answer(c)
<1> DEFINE s == slot[c]
           kept == LoadOrStore(c)
<1>1. s \in Regions /\ s \in Slots /\ s # NoSlot /\ s \notin OnceSlots /\ cells[s] = client[s]
  BY RegionHolds DEF ClientInv, Placed, Keep
<1>2. kept \in Clients /\ kept # NoClient
  BY <1>1, NewIsClient, MarksAssumption DEF LoadOrStore, ClientInv, ClientTypeOK, Keep
<1>3. /\ client' = [client EXCEPT ![s] = kept]
      /\ answer' = [answer EXCEPT ![c] = kept] /\ slot' = [slot EXCEPT ![c] = NoSlot]
      /\ UNCHANGED <<once, err>>
  BY DEF Keep, Return
<1>4. client[s] = NoClient \/ kept = client[s]
  BY DEF LoadOrStore
<1> HIDE DEF s, kept
<1>5. cells' = [cells EXCEPT ![s] = kept]
  BY <1>1, <1>3 DEF cells, Held, ClientInv, ClientTypeOK
<1>6. cells \in [Slots -> Clients \cup {NoClient, Failed}]
  BY DEF cells, Held, ClientInv, ClientTypeOK
<1>7. cells'[s] = kept /\ (cells[s] = NoClient \/ cells' = cells)
  BY <1>1, <1>4, <1>5, <1>6
<1>8. UNCHANGED cells \/ Promise!Filled(s)
  BY <1>2, <1>5, <1>7, MarksAssumption, <1>1 DEF Promise!Filled, cells
<1> QED
  BY <1>1, <1>2, <1>3, <1>7, <1>8 DEF Promise!Answer, cells, s

LEMMA StepPromised ==
  ASSUME ClientInv, [Next]_vars
  PROVE  [Promise!Next]_promised
<1>1. ASSUME NEW c \in Callers, Call(c) \/ step(c)
      PROVE  Promise!Next \/ UNCHANGED promised
  BY <1>1, CallPromised, DoPromised, BuildPromised, AnswerPromised, LoadPromised,
     MakePromised, KeepPromised DEF step, Promise!Next
<1>2. CASE UNCHANGED vars
  BY <1>2, SameCells DEF vars, cache, promised
<1> QED
  BY <1>1, <1>2 DEF Next

\* Every caller of a getter gets the one client of its service or region, or the one
\* error a service keeps, whatever the goroutines do at once (OneClientEach).
THEOREM ClientsKeepPromise == Spec => OneClientEach
<1>1. Spec => []ClientInv
  BY ClientInit, ClientStep, PTL DEF Spec
<1>2. ClientInv /\ [Next]_vars => [Promise!Next]_<<[s \in Slots |-> Held(s)], slot, answer>>
  BY StepPromised DEF promised, cells
<1> QED
  BY <1>1, <1>2, PromiseInit, PTL DEF Spec, OneClientEach, Promise!Spec
=============================================================================
