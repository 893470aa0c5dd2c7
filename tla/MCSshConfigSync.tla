--------------------------- MODULE MCSshConfigSync ---------------------------
(* Instances of SshConfigSync for TLC.                                     *)
EXTENDS SshConfigSync, TLC

CONSTANTS p, q, a, b, star, old, new

MCWords == {a, b, star, old, new}
L(kw, sep, args) == [kw |-> kw, sep |-> sep, args |-> args]

HostA == L("host", "space", <<a>>)
HostName(sep) == L("hostname", sep, <<old>>)

\* Lines of every kind parseBlocks and the rewriting tell apart.
SomeLines ==
  {HostA, L("host", "equals", <<b>>), L("host", "space", <<star>>),
   L("host", "space", <<a, b>>), L("match", "space", <<a>>), L("none", "space", <<>>),
   L("hostname", "space", <<new, b>>)}
  \cup {HostName(sep) : sep \in Separators}

\* One block after the other, of every shape of up to three lines.
Shapes == {<<HostA, x, y, z>> : x, y, z \in SomeLines}

\* Two blocks with an address each: for runs and editors side by side.
TwoBlocks ==
  {<<HostA, HostName("space"), L("host", "equals", <<b>>), HostName(sep)>> :
     sep \in {"space", "spaceEquals"}}
ASave == {<<L("none", "space", <<>>), HostA, HostName("space")>>}

MCAnswers ==
  {(a :> x) @@ (b :> y) @@ [w \in MCWords |-> NoIp] : x \in {old, new, NoIp}, y \in {new, NoIp}}
=============================================================================
