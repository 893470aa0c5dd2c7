---------------------------- MODULE MCChangeIpMain ----------------------------
(* Instances of ChangeIpMain for TLC.                                      *)
EXTENDS ChangeIpMain, TLC

CONSTANTS a, b, x, y, t

TwoNodes == {x, y}
SameTags == (a :> t) @@ (b :> t)
OneTagNodes == (t :> Nodes)
Alike == Permutations({a, b}) \cup Permutations({x, y})
=============================================================================
