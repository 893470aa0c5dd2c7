--------------------------- MODULE MCFetchInstances ---------------------------
(* Instances of FetchInstances for TLC.                                    *)
EXTENDS FetchInstances, TLC

CONSTANTS r1, r2, r3, m, n, i, j

MCPageOf == (m :> 1) @@ (n :> 2)

\* n is in any of the regions, with one address or two; m is in one region.
MCContents ==
  {[r \in Regions |-> (m :> IF r = r1 THEN i ELSE NoIp) @@ (n :> c[r])] :
     c \in [Regions -> Ips \cup {NoIp}]}

\* Two regions have an instance of one name.
TwoOfAName == {[r \in Regions |-> (m :> NoIp) @@ (n :> IF r = r1 THEN i ELSE j)]}
=============================================================================
