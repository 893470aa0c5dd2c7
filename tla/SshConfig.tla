------------------------------ MODULE SshConfig ------------------------------
(***************************************************************************)
(* An SSH config as internal/pkg/sshconfig sees it: Parse, Diff and the    *)
(* rewriting of HostName lines.  A line is a record: its keyword (lower    *)
(* case; "none" for a blank line, a comment or a keyword alone), what      *)
(* stands between the keyword and its first argument, and the arguments.   *)
(***************************************************************************)
EXTENDS Naturals, Sequences

CONSTANTS
  Words,     \* what an argument can be: an alias, an address, a comment's word
  Wildcards, \* the words with * or ? in them
  NoIp       \* "the instance map has no such name"

ASSUME WordsAssumption == Wildcards \subseteq Words /\ NoIp \notin Words

Keywords == {"host", "match", "hostname", "other", "none"}

\* "HostName a", "HostName=a" or "HostName= a", "HostName =a", "HostName = a".
Separators == {"space", "equals", "spaceEquals", "spacedEquals"}

Line == {l \in [kw : Keywords, sep : Separators, args : Seq(Words)] :
           l.kw # "none" => l.args # <<>>}

-----------------------------------------------------------------------------
(* parseBlocks.                                                            *)

NoLine == 0

FirstAliasTaken(aliases) ==
  [alias |-> aliases[1], line |-> NoLine, ip |-> NoIp, skip |-> aliases[1] \in Wildcards]
newHostBlock(aliases) ==
  [alias |-> aliases[1], line |-> NoLine, ip |-> NoIp,
   skip |-> Len(aliases) > 1 \/ aliases[1] \in Wildcards]

\* The block in progress, if any, is closed.
Closed(s) == s.blocks \o s.current

\* The first HostName wins.
TakesEveryHostName(s) == s.current # <<>> /\ ~ s.current[1].skip
TakesHostName(s) == s.current # <<>> /\ ~ s.current[1].skip /\ s.current[1].line = NoLine

WithHostName(b, i, ip) == [b EXCEPT !.line = i, !.ip = ip]

AfterLine(s, i, l) ==
  CASE l.kw = "host" -> [blocks |-> Closed(s), current |-> <<newHostBlock(l.args)>>]
    [] l.kw = "match" -> [blocks |-> Closed(s), current |-> <<>>]
    [] l.kw = "hostname" /\ TakesHostName(s) ->
         [s EXCEPT !.current = <<WithHostName(s.current[1], i, l.args[1])>>]
    [] OTHER -> s

\* The state of the loop after each number of lines.
Scan(ls) ==
  LET after[i \in 0 .. Len(ls)] ==
        IF i = 0 THEN [blocks |-> <<>>, current |-> <<>>] ELSE AfterLine(after[i - 1], i, ls[i])
  IN after

parseBlocks(ls) == Closed(Scan(ls)[Len(ls)])

-----------------------------------------------------------------------------
(* Diff: the updates, as pairs of a line and the address it is to have.    *)

Diff(blocks, inst) ==
  {<<blocks[k].line, inst[blocks[k].alias]>> :
     k \in {k \in DOMAIN blocks :
              /\ ~ blocks[k].skip /\ blocks[k].line # NoLine
              /\ inst[blocks[k].alias] \notin {NoIp, blocks[k].ip}}}

-----------------------------------------------------------------------------
(* rewriteHostNameLine: the expression wants blanks after the keyword and  *)
(* replaces the first run of other characters that follows them.           *)

Rewritable(l) == l.kw = "hostname" /\ l.sep # "equals"

\* An "=" by itself is the run replaced; an "=" before the argument goes with it.
Rewritten(l, ip) ==
  [kw |-> l.kw, sep |-> "space",
   args |-> <<ip>> \o (IF l.sep = "spacedEquals" THEN l.args ELSE Tail(l.args))]

\* The loop of ApplyAndWrite: all updates or, when one line does not match, none.
Applicable(ls, us) == \A u \in us : Rewritable(ls[u[1]])
Apply(ls, us) ==
  [i \in DOMAIN ls |->
     IF \E ip \in Words : <<i, ip>> \in us
       THEN Rewritten(ls[i], CHOOSE ip \in Words : <<i, ip>> \in us) ELSE ls[i]]

-----------------------------------------------------------------------------
(* What the config means, for the properties: the HostName in force for an *)
(* alias with a block to itself.                                           *)

BlockLines(ls, h) ==
  {i \in h + 1 .. Len(ls) : \A k \in h + 1 .. i : ls[k].kw \notin {"host", "match"}}

InForce(ls, alias, i) ==
  \E h \in DOMAIN ls :
    LET names == {k \in BlockLines(ls, h) : ls[k].kw = "hostname"}
    IN /\ ls[h].kw = "host" /\ ls[h].args = <<alias>> /\ alias \notin Wildcards
       /\ i \in names /\ \A k \in names : i <= k

Due(ls, inst) ==
  {u \in (DOMAIN ls) \X Words :
     /\ \E alias \in Words : InForce(ls, alias, u[1]) /\ inst[alias] = u[2]
     /\ u[2] # ls[u[1]].args[1]}

\* new is what ls is to become: the lines that differ are HostNames in force, and have
\* the address of their alias's instance, and no alias needs another.
Updated(ls, new, inst) ==
  /\ DOMAIN new = DOMAIN ls
  /\ \A i \in DOMAIN ls :
       new[i] # ls[i] =>
         \E alias \in Words :
           InForce(ls, alias, i) /\ InForce(new, alias, i) /\ new[i].args[1] = inst[alias]
  /\ Due(new, inst) = {}
=============================================================================
