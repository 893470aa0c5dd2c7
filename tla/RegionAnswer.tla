----------------------------- MODULE RegionAnswer -----------------------------
(***************************************************************************)
(* What FetchInstances promises, whatever order the regions answer in: one *)
(* answer, either an error or the names on which all regions that could be *)
(* read agree, each with the address they agree on.                        *)
(***************************************************************************)
CONSTANTS Regions, Names, Ips, NoIp, Unanswered, Failed

VARIABLES content, answer

\* The address of n on which the regions S agree, NoIp when none has it or two differ.
Values(S, n) == {content[r][n] : r \in S} \ {NoIp}
Agreed(S) ==
  [n \in Names |-> IF \E ip \in Ips : Values(S, n) = {ip}
                     THEN CHOOSE ip \in Ips : Values(S, n) = {ip} ELSE NoIp]

Init ==
  /\ content \in [Regions -> [Names -> Ips \cup {NoIp}]]
  /\ answer = Unanswered

\* With no region at all the answer is the empty map, and not an error.
Answer ==
  /\ answer = Unanswered
  /\ \E S \in SUBSET Regions :
       answer' = IF S = {} /\ Regions # {} THEN Failed ELSE Agreed(S)
  /\ UNCHANGED content

\* GetRegions, or the client it is called with, fails.
Refuse ==
  /\ answer = Unanswered
  /\ answer' = Failed
  /\ UNCHANGED content

Spec == Init /\ [][Answer \/ Refuse]_<<content, answer>>
=============================================================================
