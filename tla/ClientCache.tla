----------------------------- MODULE ClientCache -----------------------------
(***************************************************************************)
(* The memoized service clients (internal/pkg/service): GetClient and      *)
(* GetAPI keep the first result in a sync.Once, GetClientForRegion keeps   *)
(* one client per region in a sync.Map.  Any number of goroutines call     *)
(* them; loading the configuration may fail.                               *)
(***************************************************************************)
EXTENDS Naturals

CONSTANTS
  Callers,    \* goroutines
  OnceSlots,  \* services with a sync.Once
  Regions,    \* regions asked for by GetClientForRegion
  NeedRegion, \* the services of OnceSlots whose client needs conf.Region
  NoSlot, NoClient, Failed,
  MaxCalls,   \* bound on the calls of all goroutines
  MaxFaults   \* bound on configurations that cannot be loaded

Slots == OnceSlots \cup Regions
Clients == Slots \X (1 .. MaxCalls)

ASSUME SlotsAssumption ==
  OnceSlots \cap Regions = {} /\ NeedRegion \subseteq OnceSlots /\ NoSlot \notin Slots
ASSUME MarksAssumption == NoClient # Failed /\ {NoClient, Failed} \cap Clients = {}
ASSUME BoundsAssumption == MaxCalls \in Nat /\ MaxFaults \in Nat

VARIABLES
  once,       \* state of the sync.Once of each service
  client,     \* s.client, s.api, and the entries of s.regionClients
  err,        \* services whose clientErr or apiErr is set
  configured, \* conf.Region is not empty; set before the first call and kept
  pc, slot,   \* where each goroutine is, and in the call for what
  nth,        \* the number of that call, 0 between calls
  answer,     \* what its last call returned, NoClient for nil with a nil error
  calls, faults

cache == <<once, client, err>>
vars == <<cache, configured, pc, slot, nth, answer, calls, faults>>

Init ==
  /\ once = [s \in OnceSlots |-> "new"]
  /\ client = [s \in Slots |-> NoClient]
  /\ err = {}
  /\ configured \in BOOLEAN
  /\ pc = [c \in Callers |-> "idle"]
  /\ slot = [c \in Callers |-> NoSlot]
  /\ nth = [c \in Callers |-> 0]
  /\ answer = [c \in Callers |-> NoClient]
  /\ calls = 0 /\ faults = 0

Goto(c, to) == pc' = [pc EXCEPT ![c] = to] /\ UNCHANGED <<slot, nth, answer>>
Return(c, value) ==
  /\ pc' = [pc EXCEPT ![c] = "idle"]
  /\ slot' = [slot EXCEPT ![c] = NoSlot]
  /\ nth' = [nth EXCEPT ![c] = 0]
  /\ answer' = [answer EXCEPT ![c] = value]

Fault == faults < MaxFaults /\ faults' = faults + 1

\* The client a call builds; no two calls build the same.
New(c) == <<slot[c], nth[c]>>

Call(c) ==
  /\ pc[c] = "idle"
  /\ calls < MaxCalls
  /\ \E s \in Slots :
       /\ pc' = [pc EXCEPT ![c] = IF s \in OnceSlots THEN "do" ELSE "load"]
       /\ slot' = [slot EXCEPT ![c] = s]
  /\ answer' = [answer EXCEPT ![c] = NoClient]
  /\ calls' = calls + 1
  /\ nth' = [nth EXCEPT ![c] = calls + 1]
  /\ UNCHANGED <<cache, configured, faults>>

-----------------------------------------------------------------------------
(* GetClient and GetAPI.                                                   *)

\* A test of s.client instead of once.Do lets a second caller in while the first builds.
RunsTwice(s) == once[s] # "done"
Runs(s) == once[s] = "new"
Passes(s) == once[s] = "done"

\* once.Do: the first caller runs the function, the others wait until it has returned.
Do(c) ==
  LET s == slot[c]
  IN /\ pc[c] = "do"
     /\ \/ /\ Runs(s)
           /\ once' = [once EXCEPT ![s] = "running"]
           /\ Goto(c, "build")
        \/ /\ Passes(s)
           /\ Goto(c, "return")
           /\ UNCHANGED once
  /\ UNCHANGED <<client, err, configured, calls, faults>>

Finish(c) == once' = [once EXCEPT ![slot[c]] = "done"] /\ Goto(c, "return")

\* The early return of the function when there is no region.  Were it to ask its own getter,
\* once.Do would wait for the function that calls it.
AskAgain(c) == Goto(c, "do") /\ UNCHANGED <<once, err>>
GiveUp(c) == Finish(c) /\ err' = err \cup {slot[c]}

\* The function given to once.Do.
Build(c) ==
  LET s == slot[c]
      able == s \in NeedRegion => configured
  IN /\ pc[c] = "build"
     /\ \/ /\ able /\ Finish(c)
           /\ client' = [client EXCEPT ![s] = New(c)]
           /\ UNCHANGED <<err, faults>>
        \/ /\ able /\ Finish(c) /\ Fault
           /\ err' = err \cup {s}
           /\ UNCHANGED client
        \/ ~ able /\ GiveUp(c) /\ UNCHANGED <<client, faults>>
     /\ UNCHANGED <<configured, calls>>

Answer(c) ==
  /\ pc[c] = "return"
  /\ Return(c, IF slot[c] \in err THEN Failed ELSE client[slot[c]])
  /\ UNCHANGED <<cache, configured, calls, faults>>

-----------------------------------------------------------------------------
(* GetClientForRegion.                                                     *)

Load(c) ==
  LET s == slot[c]
  IN /\ pc[c] = "load"
     /\ IF client[s] # NoClient THEN Return(c, client[s]) ELSE Goto(c, "make")
     /\ UNCHANGED <<cache, configured, calls, faults>>

\* An error is returned and not kept.
Make(c) ==
  /\ pc[c] = "make"
  /\ \/ Goto(c, "store") /\ UNCHANGED faults
     \/ Return(c, Failed) /\ Fault
  /\ UNCHANGED <<cache, configured, calls>>

Store(c) == New(c)
LoadOrStore(c) == IF client[slot[c]] = NoClient THEN New(c) ELSE client[slot[c]]

Keep(c) ==
  /\ pc[c] = "store"
  /\ client' = [client EXCEPT ![slot[c]] = LoadOrStore(c)]
  /\ Return(c, LoadOrStore(c))
  /\ UNCHANGED <<once, err, configured, calls, faults>>

-----------------------------------------------------------------------------
step(c) == Do(c) \/ Build(c) \/ Answer(c) \/ Load(c) \/ Make(c) \/ Keep(c)

\* Goroutines that have made their calls make no more: the system may stop.
Next == \E c \in Callers : Call(c) \/ step(c)

Spec == Init /\ [][Next]_vars
FairSpec == Spec /\ \A c \in Callers : WF_vars(step(c))

-----------------------------------------------------------------------------
ClientTypeOK ==
  /\ once \in [OnceSlots -> {"new", "running", "done"}]
  /\ client \in [Slots -> Clients \cup {NoClient}]
  /\ err \subseteq OnceSlots
  /\ configured \in BOOLEAN
  /\ pc \in [Callers -> {"idle", "do", "build", "return", "load", "make", "store"}]
  /\ slot \in [Callers -> Slots \cup {NoSlot}]
  /\ nth \in [Callers -> 0 .. MaxCalls]
  /\ answer \in [Callers -> Clients \cup {NoClient, Failed}]
  /\ \A s \in err : client[s] = NoClient
  /\ calls \in 0 .. MaxCalls /\ faults \in 0 .. MaxFaults

\* Whatever goroutines call at once, all get the one client of a service or region, or
\* the one error a service keeps "permanently" (GetClient, GetAPI), and never a nil
\* client without an error: the callers in processInstance ignore the error, relying on
\* the result Init has seen.
Held(s) ==
  IF s \in OnceSlots /\ once[s] # "done" THEN NoClient
  ELSE IF s \in err THEN Failed ELSE client[s]

Promise == INSTANCE MemoizedClients WITH
  Sticky <- OnceSlots, Unset <- NoClient, asked <- slot,
  cell <- [s \in Slots |-> Held(s)]
OneClientEach == Promise!Spec

\* No call waits for ever, though callers of one service wait for the one that builds.
EveryCallAnswered == \A c \in Callers : pc[c] # "idle" ~> pc[c] = "idle"
=============================================================================
