--------------------------- MODULE MCOAuthCallback ---------------------------
(* Instances of OAuthCallback for TLC.                                     *)
EXTENDS OAuthCallback, TLC

CONSTANTS c1, c2, c3, bigA, a, b, s0, s1, s2, g

MCLower == (bigA :> a) @@ (a :> a) @@ (b :> b)

\* One user with two providers that spell the e-mail differently, and another, whose
\* provider has no picture.
MCClaims ==
  {[email |-> who[1], sub |-> who[2], roles |-> roles, groups |-> groups, picture |-> who[3]] :
     who \in {<<bigA, s1, TRUE>>, <<bigA, s1, FALSE>>, <<a, s2, TRUE>>, <<b, s0, FALSE>>},
     roles \in {{}, {"admin"}}, groups \in {{}, {g}}}

MCConfigs ==
  {[signup |-> signup, merge |-> merge, manageRoles |-> roles,
    manageGroups |-> groups[1], groupsClaim |-> groups[2]] :
     signup, merge, roles \in BOOLEAN,
     groups \in {<<TRUE, TRUE>>, <<TRUE, FALSE>>, <<FALSE, TRUE>>}}

MCExisting == {<<>>, <<[email |-> b, sub |-> s0, role |-> "admin", by |-> Nobody]>>}

Requests == Permutations({c1, c2, c3})
=============================================================================
