--------------------------- MODULE MemoizedClients ---------------------------
(***************************************************************************)
(* What the service clients promise their callers: a slot (a kind of       *)
(* client, or a region) is filled once and keeps what it was filled with,  *)
(* and every answer is what the slot holds.  A slot of Sticky may be       *)
(* filled with an error; for the others an error is an answer that is not  *)
(* kept.                                                                   *)
(***************************************************************************)
CONSTANTS Callers, Slots, Sticky, Clients, Failed, Unset, NoSlot

VARIABLES
  cell,   \* what each slot holds
  asked,  \* the slot a caller waits for
  answer  \* what it was last answered

Init ==
  /\ cell = [s \in Slots |-> Unset]
  /\ asked = [c \in Callers |-> NoSlot]
  /\ answer = [c \in Callers |-> Unset]

Ask(c) ==
  /\ asked[c] = NoSlot
  /\ \E s \in Slots : asked' = [asked EXCEPT ![c] = s]
  /\ answer' = [answer EXCEPT ![c] = Unset]
  /\ UNCHANGED cell

Filled(s) ==
  /\ cell[s] = Unset
  /\ \E v \in Clients \cup {Failed} :
       /\ v = Failed => s \in Sticky
       /\ cell' = [cell EXCEPT ![s] = v]

Fill == (\E s \in Slots : Filled(s)) /\ UNCHANGED <<asked, answer>>

\* The answer may be what the slot is filled with in the same step.
Answer(c) ==
  LET s == asked[c]
  IN /\ s # NoSlot
     /\ UNCHANGED cell \/ Filled(s)
     /\ \/ /\ cell'[s] # Unset
           /\ answer' = [answer EXCEPT ![c] = cell'[s]]
        \/ /\ s \notin Sticky
           /\ UNCHANGED cell
           /\ answer' = [answer EXCEPT ![c] = Failed]
     /\ asked' = [asked EXCEPT ![c] = NoSlot]

Next == Fill \/ \E c \in Callers : Ask(c) \/ Answer(c)

Spec == Init /\ [][Next]_<<cell, asked, answer>>
=============================================================================
