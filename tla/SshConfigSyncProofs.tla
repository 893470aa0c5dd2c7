------------------------- MODULE SshConfigSyncProofs -------------------------
(***************************************************************************)
(* Proofs about SshConfigSync: for every config, every number of runs and  *)
(* every editor, the config is a whole file, a backup stays what the       *)
(* config was, parseBlocks finds the HostName in force of every alias, and *)
(* a run writes the addresses that are due and nothing else.               *)
(***************************************************************************)
EXTENDS SshConfigSync, WellFoundedInduction, TLAPS

-----------------------------------------------------------------------------
(* Induction.  The library's induction theorems take an operator; what is  *)
(* proved of every number here is put as a set, and Nat is well-founded.   *)

\* A set of numbers has a least one.
LEMMA LeastNumber ==
  ASSUME NEW T \in SUBSET Nat, T # {}
  PROVE  \E n \in T : \A m \in T : n <= m
<1> DEFINE R == {ss \in Nat \X Nat : ss[1] < ss[2]}
<1>1. IsWellFoundedOn(R, Nat)
  BY NatLessThanWellFounded DEF OpToRel
<1> HIDE DEF R
<1>2. PICK n \in T : \A m \in T : ~ (<<m, n>> \in R)
  BY <1>1, WFMin
<1>3. ASSUME NEW m \in T PROVE n <= m
  <2>1. ~ (<<m, n>> \in R)
    BY <1>2
  <2> QED
    BY <2>1 DEF R
<1> QED
  BY <1>3

\* A set with 0 that has the successors of its numbers has every number.
LEMMA EveryNumber ==
  ASSUME NEW S, 0 \in S, \A n \in Nat : n \in S => n + 1 \in S
  PROVE  Nat \subseteq S
<1> SUFFICES ASSUME Nat \ S # {} PROVE FALSE
  OBVIOUS
<1>1. PICK n \in Nat \ S : \A m \in Nat \ S : n <= m
  BY LeastNumber
<1>2. n # 0 /\ n - 1 \in Nat /\ n - 1 \notin S
  BY <1>1
<1> QED
  BY <1>1, <1>2

-----------------------------------------------------------------------------
(* parseBlocks: the recursive function of its loop exists, and what it is  *)
(* after each line.                                                        *)

NoBlocks == [blocks |-> <<>>, current |-> <<>>]

Unfolds(f, ls, n) ==
  f = [i \in 0 .. n |-> IF i = 0 THEN NoBlocks ELSE AfterLine(f[i - 1], i, ls[i])]

LEMMA LoopExists ==
  ASSUME NEW ls, NEW n \in Nat
  PROVE  \E f : Unfolds(f, ls, n)
<1> DEFINE S == {m \in Nat : \E f : Unfolds(f, ls, m)}
<1>1. 0 \in S
  <2> DEFINE f == [i \in 0 .. 0 |-> NoBlocks]
  <2>1. Unfolds(f, ls, 0)
    BY DEF Unfolds
  <2> QED
    BY <2>1
<1>2. ASSUME NEW m \in Nat, m \in S PROVE m + 1 \in S
  <2>1. PICK f : Unfolds(f, ls, m)
    BY <1>2
  <2> DEFINE g == [i \in 0 .. m + 1 |->
                     IF i = m + 1 THEN AfterLine(f[m], m + 1, ls[m + 1]) ELSE f[i]]
  <2>2. ASSUME NEW i \in 0 .. m + 1
        PROVE  g[i] = IF i = 0 THEN NoBlocks ELSE AfterLine(g[i - 1], i, ls[i])
    <3>1. CASE i = 0
      BY <2>1, <3>1 DEF Unfolds
    <3>2. CASE i \in 1 .. m
      <4>1. g[i] = f[i] /\ g[i - 1] = f[i - 1]
        BY <3>2
      <4>2. f[i] = AfterLine(f[i - 1], i, ls[i])
        BY <2>1, <3>2 DEF Unfolds
      <4> QED
        BY <3>2, <4>1, <4>2
    <3>3. CASE i = m + 1
      <4>1. g[i] = AfterLine(f[m], m + 1, ls[m + 1]) /\ g[i - 1] = f[m]
        BY <3>3
      <4> QED
        BY <3>3, <4>1
    <3> QED
      BY <3>1, <3>2, <3>3
  <2>3. Unfolds(g, ls, m + 1)
    BY <2>2 DEF Unfolds
  <2> QED
    BY <2>3
<1> HIDE DEF S
<1>3. n \in S
  BY <1>1, <1>2, EveryNumber
<1> QED
  BY <1>3 DEF S

\* The loop starts with no block and takes one line at a time.
LEMMA ScanSteps ==
  ASSUME NEW ls, Len(ls) \in Nat
  PROVE  /\ Scan(ls)[0] = NoBlocks
         /\ \A i \in 1 .. Len(ls) : Scan(ls)[i] = AfterLine(Scan(ls)[i - 1], i, ls[i])
<1> DEFINE n == Len(ls)
<1>1. Scan(ls) = CHOOSE f : Unfolds(f, ls, n)
  BY DEF Scan, Unfolds, NoBlocks
<1>2. \E f : Unfolds(f, ls, n)
  BY LoopExists
<1> HIDE DEF n
<1>3. Unfolds(Scan(ls), ls, n)
  BY <1>1, <1>2
<1> QED
  BY <1>3 DEF Unfolds, n

-----------------------------------------------------------------------------
(* After n lines: the blocks seen, each of one Host line.                  *)

Heads == {"host", "match"}

\* The block of Host line h goes on after line n.
Opens(ls, h, n) == ls[h].kw = "host" /\ \A k \in h + 1 .. n : ls[k].kw \notin Heads

\* The HostName lines of the block of line h, among the first n lines.
HostNames(ls, h, n) ==
  {k \in h + 1 .. n : ls[k].kw = "hostname" /\ \A j \in h + 1 .. k : ls[j].kw \notin Heads}

\* What the block of line h is known to be from the first n lines.
BlockOf(b, ls, h, n) ==
  /\ b.alias = ls[h].args[1]
  /\ b.skip <=> Len(ls[h].args) > 1 \/ ls[h].args[1] \in Wildcards
  /\ b.skip => b.line = NoLine
  /\ ~ b.skip => \/ b.line = NoLine /\ HostNames(ls, h, n) = {}
                 \/ /\ b.line \in HostNames(ls, h, n)
                    /\ \A k \in HostNames(ls, h, n) : b.line <= k
                    /\ b.ip = ls[b.line].args[1]

Block == [alias : Words, line : Nat, ip : Words \cup {NoIp}, skip : BOOLEAN]

Scanned(s, ls, n) ==
  /\ s \in [blocks : Seq(Block), current : Seq(Block)]
  /\ s.current # <<>> => /\ Len(s.current) = 1
                         /\ \E h \in 1 .. n : Opens(ls, h, n) /\ BlockOf(s.current[1], ls, h, n)
  /\ \A h \in 1 .. n : Opens(ls, h, n) => s.current # <<>>
  /\ \A k \in DOMAIN s.blocks :
       \E h \in 1 .. n : /\ ls[h].kw = "host" /\ ~ Opens(ls, h, n)
                         /\ BlockOf(s.blocks[k], ls, h, n)
  /\ \A h \in 1 .. n :
       ls[h].kw = "host" /\ ~ Opens(ls, h, n) =>
         \E k \in DOMAIN s.blocks : BlockOf(s.blocks[k], ls, h, n)

\* Two Host lines do not both have a block that goes on.
LEMMA OneOpens ==
  ASSUME NEW ls, NEW n \in Nat, NEW h \in 1 .. n, NEW g \in 1 .. n, Opens(ls, h, n), Opens(ls, g, n)
  PROVE  h = g
<1>1. ~ (h < g) /\ ~ (g < h)
  BY DEF Opens, Heads
<1> QED
  BY <1>1

\* What one more line adds to a block that was there.
LEMMA NextLine ==
  ASSUME NEW ls, NEW n \in Nat, NEW h \in 1 .. n, ls[h].kw = "host"
  PROVE  /\ Opens(ls, h, n + 1) <=> Opens(ls, h, n) /\ ls[n + 1].kw \notin Heads
         /\ HostNames(ls, h, n + 1) =
              IF ls[n + 1].kw = "hostname" /\ Opens(ls, h, n)
                THEN HostNames(ls, h, n) \cup {n + 1} ELSE HostNames(ls, h, n)
<1>1. h + 1 .. n + 1 = (h + 1 .. n) \cup {n + 1}
  OBVIOUS
<1>2. Opens(ls, h, n + 1) <=> Opens(ls, h, n) /\ ls[n + 1].kw \notin Heads
  BY <1>1 DEF Opens
<1>3. ASSUME NEW k
      PROVE  k \in HostNames(ls, h, n + 1) <=>
               \/ k \in HostNames(ls, h, n)
               \/ k = n + 1 /\ ls[n + 1].kw = "hostname" /\ Opens(ls, h, n)
  <2>1. CASE k \in h + 1 .. n
    BY <1>1, <2>1 DEF HostNames
  <2>2. CASE k = n + 1
    <3>1. k \notin HostNames(ls, h, n)
      BY <2>2 DEF HostNames
    <3>2. k \in HostNames(ls, h, n + 1) <=>
            ls[n + 1].kw = "hostname" /\ \A j \in h + 1 .. n + 1 : ls[j].kw \notin Heads
      BY <1>1, <2>2 DEF HostNames
    <3>3. "hostname" \notin Heads
      BY DEF Heads
    <3> QED
      BY <1>1, <2>2, <3>1, <3>2, <3>3 DEF Opens
  <2>3. CASE k \notin h + 1 .. n /\ k # n + 1
    BY <1>1, <2>3 DEF HostNames
  <2> QED
    BY <2>1, <2>2, <2>3
<1>4. CASE ls[n + 1].kw = "hostname" /\ Opens(ls, h, n)
  BY <1>2, <1>3, <1>4
<1>5. CASE ~ (ls[n + 1].kw = "hostname" /\ Opens(ls, h, n))
  BY <1>2, <1>3, <1>5
<1> QED
  BY <1>4, <1>5

\* A block stays what it is by a line that is no HostName of it.
LEMMA BlockStays ==
  ASSUME NEW ls, NEW n \in Nat, NEW h \in 1 .. n, ls[h].kw = "host", NEW b, BlockOf(b, ls, h, n),
         ls[n + 1].kw # "hostname" \/ ~ Opens(ls, h, n)
  PROVE  BlockOf(b, ls, h, n + 1)
<1>1. HostNames(ls, h, n + 1) = HostNames(ls, h, n)
  BY NextLine
<1> QED
  BY <1>1 DEF BlockOf

\* With the block in progress closed there is a block for every Host line, and no other.
LEMMA ClosedBlocks ==
  ASSUME NEW ls, NEW n \in Nat, NEW s, Scanned(s, ls, n)
  PROVE  /\ Closed(s) \in Seq(Block)
         /\ \A k \in DOMAIN Closed(s) :
              \E h \in 1 .. n : ls[h].kw = "host" /\ BlockOf(Closed(s)[k], ls, h, n)
         /\ \A h \in 1 .. n :
              ls[h].kw = "host" => \E k \in DOMAIN Closed(s) : BlockOf(Closed(s)[k], ls, h, n)
<1> DEFINE bs == s.blocks
           c == s.current
           all == bs \o c
<1>0. bs \in Seq(Block) /\ c \in Seq(Block) /\ Closed(s) = all /\ all \in Seq(Block)
  BY DEF Scanned, Closed
<1>1. /\ \A k \in 1 .. Len(bs) : all[k] = bs[k]
      /\ Len(all) = Len(bs) + Len(c) /\ Len(bs) \in Nat /\ Len(c) \in Nat
      /\ DOMAIN all = 1 .. Len(bs) + Len(c) /\ DOMAIN bs = 1 .. Len(bs)
      /\ c # <<>> => Len(c) = 1 /\ all[Len(bs) + 1] = c[1]
      /\ c = <<>> => Len(c) = 0
  BY <1>0 DEF Scanned
<1>2. c # <<>> => \E h \in 1 .. n : Opens(ls, h, n) /\ BlockOf(c[1], ls, h, n)
  BY DEF Scanned
<1>3. \A h \in 1 .. n : Opens(ls, h, n) => c # <<>>
  BY DEF Scanned
<1>4. \A k \in DOMAIN bs : \E h \in 1 .. n : ls[h].kw = "host" /\ BlockOf(bs[k], ls, h, n)
  BY DEF Scanned
<1>5. \A h \in 1 .. n : ls[h].kw = "host" /\ ~ Opens(ls, h, n) =>
        \E k \in DOMAIN bs : BlockOf(bs[k], ls, h, n)
  BY DEF Scanned
<1> HIDE DEF bs, c, all
<1>6. ASSUME NEW k \in DOMAIN all
      PROVE  \E h \in 1 .. n : ls[h].kw = "host" /\ BlockOf(all[k], ls, h, n)
  <2>1. CASE k \in 1 .. Len(bs)
    BY <1>1, <1>4, <2>1
  <2>2. CASE k \notin 1 .. Len(bs)
    <3>0. k \in 1 .. Len(bs) + Len(c)
      BY <1>1
    <3>1. c # <<>> /\ k = Len(bs) + 1
      <4>1. Len(c) # 0
        BY <1>1, <2>2, <3>0
      <4>2. c # <<>> /\ Len(c) = 1
        BY <1>1, <4>1
      <4> QED
        BY <1>1, <2>2, <3>0, <4>2
    <3> QED
      BY <1>1, <1>2, <3>1 DEF Opens
  <2> QED
    BY <2>1, <2>2
<1>7. ASSUME NEW h \in 1 .. n, ls[h].kw = "host"
      PROVE  \E k \in DOMAIN all : BlockOf(all[k], ls, h, n)
  <2>1. CASE Opens(ls, h, n)
    <3>1. c # <<>>
      BY <1>3, <2>1
    <3>2. PICK g \in 1 .. n : Opens(ls, g, n) /\ BlockOf(c[1], ls, g, n)
      BY <1>2, <3>1
    <3>3. g = h
      BY <2>1, <3>2, OneOpens
    <3>4. Len(bs) + 1 \in DOMAIN all
      BY <1>1, <3>1
    <3> QED
      BY <1>1, <3>1, <3>2, <3>3, <3>4
  <2>2. CASE ~ Opens(ls, h, n)
    <3>1. PICK k \in DOMAIN bs : BlockOf(bs[k], ls, h, n)
      BY <1>5, <1>7, <2>2
    <3>2. k \in DOMAIN all /\ all[k] = bs[k]
      BY <1>1
    <3> QED
      BY <3>1, <3>2
  <2> QED
    BY <2>1, <2>2
<1> QED
  BY <1>0, <1>6, <1>7

\* A Host or Match line closes the block in progress; a Host line begins one.
LEMMA ScannedHead ==
  ASSUME NEW ls \in Seq(Line), NEW n \in Nat, n + 1 \in DOMAIN ls, NEW s, Scanned(s, ls, n),
         ls[n + 1].kw \in Heads
  PROVE  Scanned(AfterLine(s, n + 1, ls[n + 1]), ls, n + 1)
<1> DEFINE l == ls[n + 1]
           t == AfterLine(s, n + 1, l)
           opened == IF l.kw = "host" THEN <<newHostBlock(l.args)>> ELSE <<>>
<1>1. /\ Closed(s) \in Seq(Block)
      /\ \A k \in DOMAIN Closed(s) :
           \E h \in 1 .. n : ls[h].kw = "host" /\ BlockOf(Closed(s)[k], ls, h, n)
      /\ \A h \in 1 .. n :
           ls[h].kw = "host" => \E k \in DOMAIN Closed(s) : BlockOf(Closed(s)[k], ls, h, n)
  BY ClosedBlocks
<1>2. t = [blocks |-> Closed(s), current |-> opened]
  BY DEF AfterLine, Heads
<1>3. ASSUME NEW h \in 1 .. n, ls[h].kw = "host"
      PROVE  /\ ~ Opens(ls, h, n + 1)
             /\ \A b : BlockOf(b, ls, h, n) => BlockOf(b, ls, h, n + 1)
  <2>1. "hostname" \notin Heads
    BY DEF Heads
  <2> QED
    BY <1>3, <2>1, NextLine, BlockStays
<1>4. l.kw = "host" => /\ newHostBlock(l.args) \in Block
                       /\ Opens(ls, n + 1, n + 1)
                       /\ BlockOf(newHostBlock(l.args), ls, n + 1, n + 1)
  <2> SUFFICES ASSUME l.kw = "host"
               PROVE  /\ newHostBlock(l.args) \in Block
                      /\ Opens(ls, n + 1, n + 1)
                      /\ BlockOf(newHostBlock(l.args), ls, n + 1, n + 1)
    OBVIOUS
  <2>1. l \in Line
    OBVIOUS
  <2>2. l.args \in Seq(Words) /\ l.args # <<>>
    BY <2>1 DEF Line
  <2>3. l.args[1] \in Words
    BY <2>2
  <2>4. newHostBlock(l.args) \in Block
    BY <2>3 DEF newHostBlock, Block, NoLine
  <2>5. HostNames(ls, n + 1, n + 1) = {} /\ Opens(ls, n + 1, n + 1)
    BY DEF HostNames, Opens
  <2>6. BlockOf(newHostBlock(l.args), ls, n + 1, n + 1)
    BY <2>5 DEF BlockOf, newHostBlock
  <2> QED
    BY <2>4, <2>5, <2>6
<1>5. opened \in Seq(Block) /\ (opened # <<>> => l.kw = "host")
  BY <1>4
<1>6. l.kw = "host" => opened # <<>> /\ Len(opened) = 1 /\ opened[1] = newHostBlock(l.args)
  OBVIOUS
<1>7. \A h \in 1 .. n + 1 : h \in 1 .. n \/ h = n + 1
  OBVIOUS
<1>8. 1 .. n \subseteq 1 .. n + 1 /\ n + 1 \in 1 .. n + 1
  OBVIOUS
<1> HIDE DEF opened
<1>9. Scanned([blocks |-> Closed(s), current |-> opened], ls, n + 1)
  <2> DEFINE bs == Closed(s)
  <2> HIDE DEF bs
  <2>0. /\ bs \in Seq(Block)
        /\ \A k \in DOMAIN bs :
             \E h \in 1 .. n : ls[h].kw = "host" /\ BlockOf(bs[k], ls, h, n)
        /\ \A h \in 1 .. n :
             ls[h].kw = "host" => \E k \in DOMAIN bs : BlockOf(bs[k], ls, h, n)
    BY <1>1 DEF bs
  <2>1. opened # <<>> => /\ Len(opened) = 1
                         /\ \E h \in 1 .. n + 1 :
                              Opens(ls, h, n + 1) /\ BlockOf(opened[1], ls, h, n + 1)
    BY <1>4, <1>5, <1>6, <1>8
  <2>2. \A h \in 1 .. n + 1 : Opens(ls, h, n + 1) => opened # <<>>
    BY <1>3, <1>6, <1>7 DEF Opens
  <2>3. \A k \in DOMAIN bs :
          \E h \in 1 .. n + 1 : /\ ls[h].kw = "host" /\ ~ Opens(ls, h, n + 1)
                                /\ BlockOf(bs[k], ls, h, n + 1)
    BY <1>3, <1>8, <2>0
  <2>4. \A h \in 1 .. n + 1 :
          ls[h].kw = "host" /\ ~ Opens(ls, h, n + 1) =>
            \E k \in DOMAIN bs : BlockOf(bs[k], ls, h, n + 1)
    BY <1>3, <1>4, <1>7, <2>0
  <2>5. Scanned([blocks |-> bs, current |-> opened], ls, n + 1)
    BY <1>5, <2>0, <2>1, <2>2, <2>3, <2>4 DEF Scanned
  <2> QED
    BY <2>5 DEF bs
<1> QED
  BY <1>2, <1>9

LEMMA NamedBlock ==
  ASSUME NEW b \in Block, NEW i \in Nat, NEW ip \in Words
  PROVE  LET b2 == WithHostName(b, i, ip)
         IN /\ b2 \in Block /\ b2.alias = b.alias /\ b2.skip = b.skip
            /\ b2.line = i /\ b2.ip = ip
  BY DEF Block, WithHostName

\* The first HostName of a block that is to have one.
LEMMA ScannedName ==
  ASSUME NEW ls \in Seq(Line), NEW n \in Nat, n + 1 \in DOMAIN ls, NEW s, Scanned(s, ls, n),
         ls[n + 1].kw = "hostname", TakesHostName(s)
  PROVE  Scanned(AfterLine(s, n + 1, ls[n + 1]), ls, n + 1)
<1> DEFINE l == ls[n + 1]
           b == s.current[1]
           b2 == WithHostName(b, n + 1, l.args[1])
           c2 == <<b2>>
<1>1. /\ s \in [blocks : Seq(Block), current : Seq(Block)] /\ Len(s.current) = 1
      /\ b \in Block /\ ~ b.skip /\ b.line = NoLine
  <2>1. s \in [blocks : Seq(Block), current : Seq(Block)] /\ Len(s.current) = 1
    BY DEF Scanned, TakesHostName
  <2>2. s.current \in Seq(Block) /\ 1 \in DOMAIN s.current
    BY <2>1
  <2> QED
    BY <2>1, <2>2 DEF TakesHostName
<1>2. PICK h \in 1 .. n : Opens(ls, h, n) /\ BlockOf(b, ls, h, n)
  BY DEF Scanned, TakesHostName
<1>3. l \in Line /\ l.args[1] \in Words
  <2>1. l \in Line
    OBVIOUS
  <2>2. l.args \in Seq(Words) /\ l.args # <<>>
    BY <2>1 DEF Line
  <2> QED
    BY <2>1, <2>2
<1>4. AfterLine(s, n + 1, l) = [blocks |-> s.blocks, current |-> c2]
  <2>1. AfterLine(s, n + 1, l) = [s EXCEPT !.current = c2]
    BY DEF AfterLine
  <2> HIDE DEF c2
  <2> QED
    BY <1>1, <2>1
<1>5. b2 \in Block /\ b2.alias = b.alias /\ b2.skip = b.skip /\ b2.line = n + 1
        /\ b2.ip = l.args[1]
  BY <1>1, <1>3, NamedBlock
<1>6. HostNames(ls, h, n) = {}
  BY <1>1, <1>2 DEF BlockOf, HostNames, NoLine
<1>7. HostNames(ls, h, n + 1) = {n + 1} /\ Opens(ls, h, n + 1)
  <2>1. ls[h].kw = "host" /\ ls[n + 1].kw \notin Heads
    BY <1>2 DEF Opens, Heads
  <2> QED
    BY <1>2, <1>6, <2>1, NextLine
<1> HIDE DEF b2, b
<1>8. BlockOf(b2, ls, h, n + 1)
  BY <1>1, <1>2, <1>5, <1>7 DEF BlockOf
<1>9. c2 \in Seq(Block) /\ c2 # <<>> /\ Len(c2) = 1 /\ c2[1] = b2
  BY <1>5
<1>10. ASSUME NEW g \in 1 .. n + 1, ls[g].kw = "host"
       PROVE  /\ g \in 1 .. n
              /\ Opens(ls, g, n + 1) <=> Opens(ls, g, n)
              /\ ~ Opens(ls, g, n) => \A x : BlockOf(x, ls, g, n) => BlockOf(x, ls, g, n + 1)
  <2>1. g \in 1 .. n /\ ls[n + 1].kw \notin Heads
    BY <1>10 DEF Heads
  <2> QED
    BY <1>10, <2>1, NextLine, BlockStays
<1>11. 1 .. n \subseteq 1 .. n + 1
  OBVIOUS
<1> HIDE DEF c2
<1>12. \E g \in 1 .. n + 1 : Opens(ls, g, n + 1) /\ BlockOf(c2[1], ls, g, n + 1)
  BY <1>7, <1>8, <1>9, <1>11
<1>13. \A k \in DOMAIN s.blocks :
         \E g \in 1 .. n + 1 : /\ ls[g].kw = "host" /\ ~ Opens(ls, g, n + 1)
                               /\ BlockOf(s.blocks[k], ls, g, n + 1)
  <2>1. \A k \in DOMAIN s.blocks :
          \E g \in 1 .. n : /\ ls[g].kw = "host" /\ ~ Opens(ls, g, n)
                            /\ BlockOf(s.blocks[k], ls, g, n)
    BY DEF Scanned
  <2> QED
    BY <1>10, <1>11, <2>1
<1>14. \A g \in 1 .. n + 1 :
         ls[g].kw = "host" /\ ~ Opens(ls, g, n + 1) =>
           \E k \in DOMAIN s.blocks : BlockOf(s.blocks[k], ls, g, n + 1)
  <2>1. \A g \in 1 .. n :
          ls[g].kw = "host" /\ ~ Opens(ls, g, n) =>
            \E k \in DOMAIN s.blocks : BlockOf(s.blocks[k], ls, g, n)
    BY DEF Scanned
  <2> QED
    BY <1>10, <2>1
<1>15. s.blocks \in Seq(Block)
  BY <1>1
<1>16. \A g \in 1 .. n + 1 : Opens(ls, g, n + 1) => c2 # <<>>
  BY <1>9
<1> DEFINE t == [blocks |-> s.blocks, current |-> c2]
<1>17. t.blocks = s.blocks /\ t.current = c2 /\ t \in [blocks : Seq(Block), current : Seq(Block)]
  BY <1>9, <1>15
<1> HIDE DEF t
<1>18. Scanned(t, ls, n + 1)
  BY <1>9, <1>12, <1>13, <1>14, <1>16, <1>17 DEF Scanned
<1> QED
  BY <1>4, <1>18 DEF t

\* Any other line changes nothing.
LEMMA ScannedOther ==
  ASSUME NEW ls \in Seq(Line), NEW n \in Nat, n + 1 \in DOMAIN ls, NEW s, Scanned(s, ls, n),
         ls[n + 1].kw \notin Heads, ls[n + 1].kw = "hostname" => ~ TakesHostName(s)
  PROVE  Scanned(AfterLine(s, n + 1, ls[n + 1]), ls, n + 1)
<1>1. AfterLine(s, n + 1, ls[n + 1]) = s
  BY DEF AfterLine, Heads
<1>2. ASSUME NEW g \in 1 .. n + 1, ls[g].kw = "host"
      PROVE  /\ g \in 1 .. n
             /\ Opens(ls, g, n + 1) <=> Opens(ls, g, n)
             /\ ~ Opens(ls, g, n) => \A x : BlockOf(x, ls, g, n) => BlockOf(x, ls, g, n + 1)
  <2>1. g \in 1 .. n
    BY <1>2 DEF Heads
  <2> QED
    BY <1>2, <2>1, NextLine, BlockStays
<1>3. 1 .. n \subseteq 1 .. n + 1
  OBVIOUS
<1>4. s.current # <<>> =>
        /\ Len(s.current) = 1
        /\ \E g \in 1 .. n + 1 : Opens(ls, g, n + 1) /\ BlockOf(s.current[1], ls, g, n + 1)
  <2> SUFFICES ASSUME s.current # <<>>
               PROVE  \E g \in 1 .. n + 1 :
                        Opens(ls, g, n + 1) /\ BlockOf(s.current[1], ls, g, n + 1)
    BY DEF Scanned
  <2> DEFINE b == s.current[1]
  <2>1. PICK g \in 1 .. n : Opens(ls, g, n) /\ BlockOf(b, ls, g, n)
    BY DEF Scanned
  <2>2. Opens(ls, g, n + 1)
    BY <1>2, <1>3, <2>1 DEF Opens
  <2>3. BlockOf(b, ls, g, n + 1)
    <3>1. CASE ls[n + 1].kw # "hostname"
      BY <2>1, <3>1, BlockStays DEF Opens
    <3>2. CASE ls[n + 1].kw = "hostname"
      <4>1. b.skip \/ b.line # NoLine
        BY <3>2 DEF TakesHostName
      <4>2. HostNames(ls, g, n + 1) = HostNames(ls, g, n) \cup {n + 1}
        BY <2>1, <3>2, NextLine DEF Opens
      <4>3. \A k \in HostNames(ls, g, n) : k <= n + 1 /\ k \in HostNames(ls, g, n + 1)
        BY <4>2 DEF HostNames
      <4> HIDE DEF b
      <4>4. CASE b.skip
        BY <2>1, <4>4 DEF BlockOf
      <4>5. CASE ~ b.skip /\ b.line # NoLine
        BY <2>1, <4>2, <4>3, <4>5 DEF BlockOf
      <4> QED
        BY <4>1, <4>4, <4>5
    <3> QED
      BY <3>1, <3>2
  <2> QED
    BY <1>3, <2>2, <2>3
<1>5. \A g \in 1 .. n + 1 : Opens(ls, g, n + 1) => s.current # <<>>
  BY <1>2 DEF Scanned, Opens
<1>6. \A k \in DOMAIN s.blocks :
        \E g \in 1 .. n + 1 : /\ ls[g].kw = "host" /\ ~ Opens(ls, g, n + 1)
                              /\ BlockOf(s.blocks[k], ls, g, n + 1)
  <2>1. \A k \in DOMAIN s.blocks :
          \E g \in 1 .. n : /\ ls[g].kw = "host" /\ ~ Opens(ls, g, n)
                            /\ BlockOf(s.blocks[k], ls, g, n)
    BY DEF Scanned
  <2> QED
    BY <1>2, <1>3, <2>1
<1>7. \A g \in 1 .. n + 1 :
        ls[g].kw = "host" /\ ~ Opens(ls, g, n + 1) =>
          \E k \in DOMAIN s.blocks : BlockOf(s.blocks[k], ls, g, n + 1)
  <2>1. \A g \in 1 .. n :
          ls[g].kw = "host" /\ ~ Opens(ls, g, n) =>
            \E k \in DOMAIN s.blocks : BlockOf(s.blocks[k], ls, g, n)
    BY DEF Scanned
  <2> QED
    BY <1>2, <2>1
<1>8. s \in [blocks : Seq(Block), current : Seq(Block)]
  BY DEF Scanned
<1> QED
  BY <1>1, <1>4, <1>5, <1>6, <1>7, <1>8 DEF Scanned

\* So it is after every line.
LEMMA ScannedAlways ==
  ASSUME NEW ls \in Seq(Line), NEW n \in 0 .. Len(ls)
  PROVE  Scanned(Scan(ls)[n], ls, n)
<1> DEFINE S == {m \in Nat : m <= Len(ls) => Scanned(Scan(ls)[m], ls, m)}
<1>0. /\ Len(ls) \in Nat /\ DOMAIN ls = 1 .. Len(ls)
      /\ Scan(ls)[0] = NoBlocks
      /\ \A i \in 1 .. Len(ls) : Scan(ls)[i] = AfterLine(Scan(ls)[i - 1], i, ls[i])
  BY ScanSteps
<1>1. 0 \in S
  <2>1. Scanned(NoBlocks, ls, 0)
    BY DEF Scanned, NoBlocks
  <2> QED
    BY <1>0, <2>1
<1>2. ASSUME NEW m \in Nat, m \in S PROVE m + 1 \in S
  <2> SUFFICES ASSUME m + 1 <= Len(ls) PROVE Scanned(Scan(ls)[m + 1], ls, m + 1)
    OBVIOUS
  <2>1. Scanned(Scan(ls)[m], ls, m) /\ m + 1 \in DOMAIN ls
    BY <1>0, <1>2
  <2>2. Scan(ls)[m + 1] = AfterLine(Scan(ls)[m], m + 1, ls[m + 1])
    <3>1. m + 1 \in 1 .. Len(ls) /\ (m + 1) - 1 = m
      BY <1>0
    <3> QED
      BY <1>0, <3>1
  <2> QED
    BY <2>1, <2>2, ScannedHead, ScannedName, ScannedOther
<1> HIDE DEF S
<1>3. n \in S
  BY <1>0, <1>1, <1>2, EveryNumber
<1> QED
  BY <1>0, <1>3 DEF S

-----------------------------------------------------------------------------
(* Diff finds what is due.                                                 *)

\* The HostName line i is the first of the block that Host line h opens for alias alone.
NamedBy(ls, h, alias, i) ==
  /\ ls[h].kw = "host" /\ ls[h].args = <<alias>> /\ alias \notin Wildcards
  /\ i \in HostNames(ls, h, Len(ls)) /\ \A k \in HostNames(ls, h, Len(ls)) : i <= k

LEMMA InForceNames ==
  ASSUME NEW ls, NEW alias, NEW i
  PROVE  InForce(ls, alias, i) <=> \E h \in DOMAIN ls : NamedBy(ls, h, alias, i)
<1>1. ASSUME NEW h
      PROVE  {k \in BlockLines(ls, h) : ls[k].kw = "hostname"} = HostNames(ls, h, Len(ls))
  BY DEF BlockLines, HostNames, Heads
<1> QED
  BY <1>1 DEF InForce, NamedBy

\* A line is the HostName of one alias at most, and it is a HostName line.
LEMMA OneAlias ==
  ASSUME NEW ls \in Seq(Line), NEW i, NEW alias, NEW other,
         InForce(ls, alias, i), InForce(ls, other, i)
  PROVE  alias = other /\ i \in DOMAIN ls /\ ls[i].kw = "hostname"
<1>0. DOMAIN ls = 1 .. Len(ls) /\ Len(ls) \in Nat
  OBVIOUS
<1>1. PICK h \in DOMAIN ls : NamedBy(ls, h, alias, i)
  BY InForceNames
<1>2. PICK g \in DOMAIN ls : NamedBy(ls, g, other, i)
  BY InForceNames
<1>3. h = g
  <2>1. ls[h].kw \in Heads /\ ls[g].kw \in Heads
    BY <1>1, <1>2 DEF NamedBy, Heads
  <2>2. /\ i \in h + 1 .. Len(ls) /\ \A j \in h + 1 .. i : ls[j].kw \notin Heads
        /\ i \in g + 1 .. Len(ls) /\ \A j \in g + 1 .. i : ls[j].kw \notin Heads
    BY <1>1, <1>2 DEF NamedBy, HostNames
  <2>3. h \in Nat /\ g \in Nat
    BY <1>0
  <2>4. ~ (h < g) /\ ~ (g < h)
    BY <2>1, <2>2, <2>3
  <2> QED
    BY <2>3, <2>4
<1>4. i \in h + 1 .. Len(ls) /\ ls[i].kw = "hostname"
  BY <1>1 DEF NamedBy, HostNames
<1>5. <<alias>> = <<other>>
  BY <1>1, <1>2, <1>3 DEF NamedBy
<1> QED
  BY <1>0, <1>4, <1>5

LEMMA OneArgument ==
  ASSUME NEW args \in Seq(Words), args # <<>>, ~ (Len(args) > 1)
  PROVE  Len(args) = 1 /\ args = <<args[1]>>
  OBVIOUS

\* Blocks of one alias that is no pattern, with a HostName, are what is in force.
LEMMA BlockInForce ==
  ASSUME NEW ls \in Seq(Line), NEW h \in DOMAIN ls, ls[h].kw = "host",
         NEW b \in Block, BlockOf(b, ls, h, Len(ls))
  PROVE  /\ ~ b.skip /\ b.line # NoLine =>
              /\ NamedBy(ls, h, b.alias, b.line)
              /\ b.ip = ls[b.line].args[1]
         /\ \A alias, i : NamedBy(ls, h, alias, i) =>
              ~ b.skip /\ b.alias = alias /\ b.line = i /\ b.line # NoLine
<1>0. DOMAIN ls = 1 .. Len(ls) /\ Len(ls) \in Nat /\ h \in Nat
  OBVIOUS
<1>1. ls[h].args \in Seq(Words) /\ ls[h].args # <<>>
  <2>1. ls[h] \in Line
    OBVIOUS
  <2> QED
    BY <2>1 DEF Line
<1>2. \A k \in HostNames(ls, h, Len(ls)) : k \in Nat /\ k # NoLine
  BY <1>0 DEF HostNames, NoLine
<1>3. ASSUME ~ b.skip, b.line # NoLine
      PROVE  NamedBy(ls, h, b.alias, b.line) /\ b.ip = ls[b.line].args[1]
  <2>0. ~ (Len(ls[h].args) > 1) /\ ls[h].args[1] \notin Wildcards /\ b.alias = ls[h].args[1]
    BY <1>3 DEF BlockOf
  <2>1. Len(ls[h].args) = 1 /\ ls[h].args[1] \notin Wildcards /\ b.alias = ls[h].args[1]
    BY <1>1, <2>0, OneArgument
  <2>2. ls[h].args = <<b.alias>>
    BY <1>1, <2>1
  <2>3. /\ b.line \in HostNames(ls, h, Len(ls))
        /\ \A k \in HostNames(ls, h, Len(ls)) : b.line <= k
        /\ b.ip = ls[b.line].args[1]
    BY <1>3 DEF BlockOf
  <2> QED
    BY <2>1, <2>2, <2>3 DEF NamedBy
<1>4. ASSUME NEW alias, NEW i, NamedBy(ls, h, alias, i)
      PROVE  ~ b.skip /\ b.alias = alias /\ b.line = i /\ b.line # NoLine
  <2>1. ls[h].args = <<alias>> /\ alias \notin Wildcards /\ i \in HostNames(ls, h, Len(ls))
          /\ \A k \in HostNames(ls, h, Len(ls)) : i <= k
    BY <1>4 DEF NamedBy
  <2>2. Len(ls[h].args) = 1 /\ ls[h].args[1] = alias
    BY <2>1
  <2>3. ~ b.skip /\ b.alias = alias
    BY <2>1, <2>2 DEF BlockOf
  <2>4. b.line \in HostNames(ls, h, Len(ls)) /\ \A k \in HostNames(ls, h, Len(ls)) : b.line <= k
    BY <2>1, <2>3 DEF BlockOf
  <2>5. b.line = i
    <3>1. b.line <= i /\ i <= b.line /\ b.line \in Nat /\ i \in Nat
      BY <1>2, <2>1, <2>4
    <3> QED
      BY <3>1
  <2> QED
    BY <1>2, <2>3, <2>4, <2>5
<1> QED
  BY <1>3, <1>4

LEMMA DiffIsDue ==
  ASSUME NEW ls \in Seq(Line), NEW found \in [Words -> Words \cup {NoIp}]
  PROVE  Diff(parseBlocks(ls), found) = Due(ls, found)
<1> DEFINE bs == parseBlocks(ls)
<1>0. DOMAIN ls = 1 .. Len(ls) /\ Len(ls) \in Nat
  OBVIOUS
<1>1. /\ bs \in Seq(Block)
      /\ \A k \in DOMAIN bs :
           \E h \in DOMAIN ls : ls[h].kw = "host" /\ BlockOf(bs[k], ls, h, Len(ls))
      /\ \A h \in DOMAIN ls :
           ls[h].kw = "host" => \E k \in DOMAIN bs : BlockOf(bs[k], ls, h, Len(ls))
  <2>1. Scanned(Scan(ls)[Len(ls)], ls, Len(ls))
    BY <1>0, ScannedAlways
  <2> QED
    BY <1>0, <2>1, ClosedBlocks DEF parseBlocks
<1> HIDE DEF bs
<1>2. \A k \in DOMAIN bs : bs[k] \in Block
  BY <1>1
<1>3. ASSUME NEW u \in Diff(bs, found) PROVE u \in Due(ls, found)
  <2>1. PICK k \in DOMAIN bs : /\ ~ bs[k].skip /\ bs[k].line # NoLine
                               /\ found[bs[k].alias] \notin {NoIp, bs[k].ip}
                               /\ u = <<bs[k].line, found[bs[k].alias]>>
    BY <1>3 DEF Diff
  <2>2. PICK h \in DOMAIN ls : ls[h].kw = "host" /\ BlockOf(bs[k], ls, h, Len(ls))
    BY <1>1
  <2>3. NamedBy(ls, h, bs[k].alias, bs[k].line) /\ bs[k].ip = ls[bs[k].line].args[1]
    BY <1>2, <2>1, <2>2, BlockInForce
  <2>4. InForce(ls, bs[k].alias, bs[k].line)
    BY <2>3, InForceNames
  <2>5. bs[k].line \in DOMAIN ls
    BY <2>4, OneAlias
  <2>6. bs[k].alias \in Words /\ found[bs[k].alias] \in Words
    BY <1>2, <2>1 DEF Block
  <2> QED
    BY <2>1, <2>3, <2>4, <2>5, <2>6 DEF Due
<1>4. ASSUME NEW u \in Due(ls, found) PROVE u \in Diff(bs, found)
  <2>1. PICK alias \in Words : InForce(ls, alias, u[1]) /\ found[alias] = u[2]
    BY <1>4 DEF Due
  <2>2. /\ u = <<u[1], u[2]>> /\ u[2] \in Words /\ u[2] # ls[u[1]].args[1]
    BY <1>4 DEF Due
  <2>3. PICK h \in DOMAIN ls : NamedBy(ls, h, alias, u[1])
    BY <2>1, InForceNames
  <2>4. ls[h].kw = "host"
    BY <2>3 DEF NamedBy
  <2>5. PICK k \in DOMAIN bs : BlockOf(bs[k], ls, h, Len(ls))
    BY <1>1, <2>4
  <2>6. /\ ~ bs[k].skip /\ bs[k].alias = alias /\ bs[k].line = u[1] /\ bs[k].line # NoLine
        /\ bs[k].ip = ls[bs[k].line].args[1]
    BY <1>2, <2>3, <2>4, <2>5, BlockInForce
  <2>7. found[bs[k].alias] \notin {NoIp, bs[k].ip}
    BY <2>1, <2>2, <2>6, WordsAssumption
  <2>8. u = <<bs[k].line, found[bs[k].alias]>>
    BY <2>1, <2>2, <2>6
  <2> QED
    BY <2>6, <2>7, <2>8 DEF Diff
<1> QED
  BY <1>3, <1>4 DEF bs

-----------------------------------------------------------------------------
(* Rewriting.                                                              *)

\* A HostName line with its address replaced is a line.
LEMMA RewrittenIsLine ==
  ASSUME NEW l \in Line, NEW ip \in Words, Rewritable(l)
  PROVE  Rewritten(l, ip) \in Line
<1>1. l.args \in Seq(Words) /\ l.args # <<>> /\ l.kw \in Keywords
  BY DEF Line, Rewritable
<1>2. Tail(l.args) \in Seq(Words)
  BY <1>1
<1> DEFINE rest == IF l.sep = "spacedEquals" THEN l.args ELSE Tail(l.args)
<1>3. rest \in Seq(Words)
  BY <1>1, <1>2
<1> HIDE DEF rest
<1>4. <<ip>> \o rest \in Seq(Words) /\ <<ip>> \o rest # <<>>
  BY <1>3
<1>5. Rewritten(l, ip) = [kw |-> l.kw, sep |-> "space", args |-> <<ip>> \o rest]
  BY DEF Rewritten, rest
<1> QED
  BY <1>1, <1>4, <1>5 DEF Line, Separators

\* The new lines are a config, when every update is of a line that can be rewritten.
LEMMA ApplyIsConfig ==
  ASSUME NEW ls \in Seq(Line), NEW us, Applicable(ls, us)
  PROVE  Apply(ls, us) \in Seq(Line)
<1>1. ASSUME NEW i \in DOMAIN ls, NEW ip \in Words, <<i, ip>> \in us
      PROVE  Rewritten(ls[i], ip) \in Line
  <2>1. Rewritable(ls[<<i, ip>>[1]])
    BY <1>1 DEF Applicable
  <2>2. ls[i] \in Line
    OBVIOUS
  <2> QED
    BY <2>1, <2>2, RewrittenIsLine
<1>2. ASSUME NEW i \in DOMAIN ls
      PROVE  (IF \E ip \in Words : <<i, ip>> \in us
                THEN Rewritten(ls[i], CHOOSE ip \in Words : <<i, ip>> \in us)
                ELSE ls[i]) \in Line
  <2>1. CASE \E ip \in Words : <<i, ip>> \in us
    <3> DEFINE ip == CHOOSE ip \in Words : <<i, ip>> \in us
    <3>1. ip \in Words /\ <<i, ip>> \in us
      BY <2>1
    <3>2. Rewritten(ls[i], ip) \in Line
      BY <3>1, <1>1
    <3> QED
      BY <2>1, <3>2
  <2>2. CASE ~ \E ip \in Words : <<i, ip>> \in us
    BY <2>2
  <2> QED
    BY <2>1, <2>2
<1>3. DOMAIN ls = 1 .. Len(ls) /\ Len(ls) \in Nat
  OBVIOUS
<1>4. Apply(ls, us) \in [1 .. Len(ls) -> Line]
  BY <1>2, <1>3 DEF Apply
<1> QED
  BY <1>3, <1>4

\* The blocks of a config are what they were: only HostName lines are rewritten.
LEMMA ApplyKeepsBlocks ==
  ASSUME NEW ls \in Seq(Line), NEW us, Applicable(ls, us), NEW alias, NEW i
  PROVE  InForce(Apply(ls, us), alias, i) <=> InForce(ls, alias, i)
<1> DEFINE new == Apply(ls, us)
<1>1. DOMAIN ls = 1 .. Len(ls) /\ Len(ls) \in Nat
  OBVIOUS
<1>2. new \in Seq(Line) /\ DOMAIN new = DOMAIN ls
  BY ApplyIsConfig DEF Apply
<1>3. Len(new) = Len(ls)
  BY <1>1, <1>2
<1>4. ASSUME NEW k \in DOMAIN ls
      PROVE  new[k].kw = ls[k].kw /\ (ls[k].kw = "host" => new[k] = ls[k])
  <2>1. CASE \E ip \in Words : <<k, ip>> \in us
    <3>1. PICK ip \in Words : <<k, ip>> \in us
      BY <2>1
    <3>2. Rewritable(ls[<<k, ip>>[1]])
      BY <3>1 DEF Applicable
    <3>3. ls[k].kw = "hostname"
      BY <3>2 DEF Rewritable
    <3> DEFINE w == CHOOSE w \in Words : <<k, w>> \in us
    <3>4. new[k] = Rewritten(ls[k], w)
      BY <2>1 DEF Apply
    <3> HIDE DEF new, w
    <3>5. new[k].kw = ls[k].kw
      BY <3>4 DEF Rewritten
    <3> QED
      BY <3>3, <3>5
  <2>2. CASE ~ \E ip \in Words : <<k, ip>> \in us
    BY <2>2 DEF Apply
  <2> QED
    BY <2>1, <2>2
<1> HIDE DEF new
<1>5. ASSUME NEW h \in DOMAIN ls
      PROVE  NamedBy(new, h, alias, i) <=> NamedBy(ls, h, alias, i)
  <2>1. \A k \in h + 1 .. Len(ls) :
          k \in DOMAIN ls /\ \A j \in h + 1 .. k : j \in DOMAIN ls
    BY <1>1
  <2>2. HostNames(new, h, Len(ls)) = HostNames(ls, h, Len(ls))
    <3>1. ASSUME NEW k \in h + 1 .. Len(ls)
          PROVE  k \in HostNames(new, h, Len(ls)) <=> k \in HostNames(ls, h, Len(ls))
      BY <1>4, <2>1 DEF HostNames
    <3> QED
      BY <3>1 DEF HostNames
  <2>3. /\ new[h].kw = "host" <=> ls[h].kw = "host"
        /\ ls[h].kw = "host" => new[h].args = ls[h].args
    BY <1>4
  <2> QED
    BY <1>3, <2>2, <2>3 DEF NamedBy
<1>6. InForce(new, alias, i) <=> InForce(ls, alias, i)
  BY <1>2, <1>5, InForceNames
<1> QED
  BY <1>6 DEF new

\* What is due, applied, leaves nothing due and changes nothing else.
LEMMA AppliesWhatIsDue ==
  ASSUME NEW ls \in Seq(Line), NEW found \in [Words -> Words \cup {NoIp}],
         Applicable(ls, Due(ls, found))
  PROVE  Updated(ls, Apply(ls, Due(ls, found)), found)
<1> DEFINE us == Due(ls, found)
           new == Apply(ls, us)
<1>1. DOMAIN new = DOMAIN ls
  BY DEF Apply
<1>2. \A alias, i : InForce(new, alias, i) <=> InForce(ls, alias, i)
  BY ApplyKeepsBlocks
<1>3. ASSUME NEW i \in DOMAIN ls, NEW alias \in Words, NEW ip \in Words,
             InForce(ls, alias, i), <<i, ip>> \in us
      PROVE  ip = found[alias] /\ ip # ls[i].args[1]
  <2>1. PICK other \in Words : InForce(ls, other, <<i, ip>>[1]) /\ found[other] = <<i, ip>>[2]
    BY <1>3 DEF Due
  <2>2. InForce(ls, other, i) /\ found[other] = ip
    BY <2>1
  <2>3. other = alias
    BY <1>3, <2>2, OneAlias
  <2>4. <<i, ip>>[2] # ls[<<i, ip>>[1]].args[1]
    BY <1>3 DEF Due
  <2> QED
    BY <2>2, <2>3, <2>4
<1>4. ASSUME NEW i \in DOMAIN ls, NEW ip \in Words, <<i, ip>> \in us
      PROVE  \E alias \in Words : InForce(ls, alias, i) /\ new[i].args[1] = found[alias]
  <2>1. PICK alias \in Words : InForce(ls, alias, <<i, ip>>[1]) /\ found[alias] = <<i, ip>>[2]
    BY <1>4 DEF Due
  <2>2. InForce(ls, alias, i)
    BY <2>1
  <2> DEFINE w == CHOOSE w \in Words : <<i, w>> \in us
  <2> HIDE DEF us
  <2>3. w \in Words /\ <<i, w>> \in us
    BY <1>4
  <2>4. w = found[alias]
    BY <1>3, <2>2, <2>3
  <2>5. new[i] = Rewritten(ls[i], w)
    BY <1>4 DEF Apply
  <2> HIDE DEF w, new
  <2>6. Rewritable(ls[i])
    <3>1. Rewritable(ls[<<i, w>>[1]])
      BY <2>3 DEF Applicable, us
    <3> QED
      BY <3>1
  <2>7. new[i].args[1] = w
    <3> DEFINE rest == IF ls[i].sep = "spacedEquals" THEN ls[i].args ELSE Tail(ls[i].args)
    <3>1. ls[i] \in Line /\ ls[i].args \in Seq(Words) /\ ls[i].args # <<>>
      <4>1. ls[i] \in Line
        OBVIOUS
      <4> QED
        BY <2>6, <4>1 DEF Line, Rewritable
    <3>2. rest \in Seq(Words)
      BY <3>1
    <3>3. new[i].args = <<w>> \o rest
      BY <2>5 DEF Rewritten
    <3> HIDE DEF rest
    <3>4. (<<w>> \o rest)[1] = w
      BY <2>3, <3>2
    <3> QED
      BY <3>3, <3>4
  <2> QED
    BY <2>2, <2>4, <2>7
<1>5. ASSUME NEW i \in DOMAIN ls, new[i] # ls[i]
      PROVE  \E ip \in Words : <<i, ip>> \in us
  BY <1>5 DEF Apply
<1>6. Due(new, found) = {}
  <2> SUFFICES ASSUME NEW u \in Due(new, found) PROVE FALSE
    OBVIOUS
  <2> HIDE DEF us, new
  <2>1. /\ u[1] \in DOMAIN new /\ u[2] \in Words /\ u[2] # new[u[1]].args[1]
        /\ u = <<u[1], u[2]>>
    BY DEF Due
  <2>2. PICK alias \in Words : InForce(new, alias, u[1]) /\ found[alias] = u[2]
    BY DEF Due
  <2> DEFINE i == u[1]
  <2>3. i \in DOMAIN ls /\ InForce(ls, alias, i) /\ found[alias] \in Words
          /\ found[alias] # new[i].args[1]
    BY <1>1, <1>2, <2>1, <2>2
  <2> HIDE DEF i
  <2>4. CASE \E ip \in Words : <<i, ip>> \in us
    <3>1. PICK ip \in Words : <<i, ip>> \in us
      BY <2>4
    <3>2. PICK other \in Words : InForce(ls, other, i) /\ new[i].args[1] = found[other]
      BY <1>4, <2>3, <3>1
    <3>3. other = alias
      BY <2>3, <3>2, OneAlias
    <3> QED
      BY <2>3, <3>2, <3>3
  <2>5. CASE ~ \E ip \in Words : <<i, ip>> \in us
    <3>1. new[i] = ls[i]
      BY <1>5, <2>3, <2>5
    <3>2. <<i, found[alias]>> \in us
      BY <2>3, <3>1 DEF Due, us
    <3> QED
      BY <2>3, <2>5, <3>2
  <2> QED
    BY <2>4, <2>5
<1> HIDE DEF us, new
<1>7. ASSUME NEW i \in DOMAIN ls, new[i] # ls[i]
      PROVE  \E alias \in Words :
               InForce(ls, alias, i) /\ InForce(new, alias, i) /\ new[i].args[1] = found[alias]
  <2>1. PICK ip \in Words : <<i, ip>> \in us
    BY <1>5, <1>7
  <2>2. PICK alias \in Words : InForce(ls, alias, i) /\ new[i].args[1] = found[alias]
    BY <1>4, <2>1
  <2> QED
    BY <1>2, <2>2
<1>8. Updated(ls, new, found)
  BY <1>1, <1>6, <1>7 DEF Updated
<1> QED
  BY <1>8 DEF new, us

-----------------------------------------------------------------------------
(* The invariant: types; what is known of a run at each of its steps; its  *)
(* backup, empty until it is copied and then kept.                         *)

Known(p) ==
  /\ pc[p] \in {"backup", "copy", "openTmp", "writeTmp", "rename"} =>
       Applicable(lines[p], updates(p))
  /\ pc[p] \in {"parse", "fetch", "diff", "backup"} => stamp[p] = Never
  /\ pc[p] \in {"copy", "openTmp", "writeTmp", "rename", "done"} =>
       stamp[p] \in Seconds /\ source[p] \in Seq(Line)
  /\ pc[p] = "rename" => tmp[p] = newLines(p) /\ tmp[p] \in Seq(Line)

WriteInv == \A p \in Runs : Known(p)

CopyInv ==
  \A p \in Runs :
    pc[p] = "copy" /\ (\A q \in Runs \ {p} : stamp[q] # stamp[p]) => backups[stamp[p]] = Partial

\* A run that nobody has overtaken knows the config as it is.
FreshInv ==
  \A p \in Runs :
    p \notin stale
      /\ pc[p] \in {"fetch", "diff", "backup", "copy", "openTmp", "writeTmp", "rename"} =>
    lines[p] = file

IInv == SyncTypeOK /\ WriteInv /\ CopyInv /\ BackupKept /\ FreshInv

LEMMA InitIInv == Init => IInv
<1> SUFFICES ASSUME Init PROVE IInv
  OBVIOUS
<1>1. SyncTypeOK
  BY ContentsAssumption, SyncMaxAssumption
     DEF Init, SyncTypeOK, Seconds, Never, Files, Pcs, EndedPcs
<1>2. WriteInv /\ CopyInv /\ BackupKept /\ FreshInv
  BY DEF Init, WriteInv, Known, CopyInv, BackupKept, FreshInv
<1> QED
  BY <1>1, <1>2 DEF IInv

LEMMA StepType == IInv /\ [Next]_vars => SyncTypeOK'
<1> SUFFICES ASSUME IInv, [Next]_vars PROVE SyncTypeOK'
  OBVIOUS
<1>a. NoFile \in Files /\ Partial \in Files /\ Seq(Line) \subseteq Files
  BY DEF Files
<1>b. /\ {"parse", "fetch", "diff", "backup", "copy", "openTmp", "writeTmp", "rename",
          "done", "nothing", "failed", "dead"} \subseteq Pcs
      /\ source \in [Runs -> Files]
  BY DEF IInv, SyncTypeOK, Files, Pcs, EndedPcs
<1>c. ASSUME NEW p \in Runs, NEW to \in Pcs, Goto(p, to) PROVE pc' \in [Runs -> Pcs]
  BY <1>c DEF IInv, SyncTypeOK, Goto
<1>d. ASSUME Fault PROVE faults' \in 0 .. MaxFaults
  BY <1>d, SyncMaxAssumption DEF IInv, SyncTypeOK, Fault
<1>e. ASSUME NEW p \in Runs, Fails(p) PROVE pc' \in [Runs -> Pcs] /\ faults' \in 0 .. MaxFaults
  BY <1>e, <1>b, <1>c, <1>d DEF Fails
<1>f. ASSUME NEW p \in Runs, NEW content \in Files, Put(p, content) PROVE tmp' \in [Runs -> Files]
  BY <1>f DEF IInv, SyncTypeOK, Put
<1>g. ASSUME NEW p \in Runs, NEW content \in Files, BackUp(p, content)
      PROVE  backups' \in [Seconds -> Files]
  BY <1>g DEF IInv, SyncTypeOK, BackUp
<1> USE <1>a, <1>b, <1>c, <1>d, <1>e, <1>f, <1>g DEF IInv, SyncTypeOK, locals
<1>1. ASSUME NEW p \in Runs, Parse(p) PROVE SyncTypeOK'
  BY <1>1 DEF Parse
<1>2. ASSUME NEW p \in Runs, Fetch(p) PROVE SyncTypeOK'
  BY <1>2, AnswersAssumption DEF Fetch
<1>3. ASSUME NEW p \in Runs, Compare(p) PROVE SyncTypeOK'
  BY <1>3 DEF Compare
<1>4. ASSUME NEW p \in Runs, OpenBackup(p) PROVE SyncTypeOK'
  <2>1. \/ stamp' = stamp /\ source' = source
        \/ stamp' = [stamp EXCEPT ![p] = clock] /\ source' = [source EXCEPT ![p] = file]
    BY <1>4 DEF OpenBackup
  <2>2. stamp' \in [Runs -> Seconds \cup {Never}]
    BY <2>1
  <2>3. source' \in [Runs -> Seq(Line) \cup {NoFile}]
    BY <2>1
  <2>4. backups' \in [Seconds -> Files]
    BY <1>4 DEF OpenBackup
  <2> QED
    BY <1>4, <2>2, <2>3, <2>4 DEF OpenBackup
<1>5. ASSUME NEW p \in Runs, CopyBackup(p) PROVE SyncTypeOK'
  BY <1>5 DEF CopyBackup
<1>6. ASSUME NEW p \in Runs, OpenTmp(p) PROVE SyncTypeOK'
  BY <1>6 DEF OpenTmp
<1>7. ASSUME NEW p \in Runs, WriteTmp(p) PROVE SyncTypeOK'
  <2>1. pc[p] = "writeTmp" => newLines(p) \in Files
    BY ApplyIsConfig DEF WriteInv, Known, newLines
  <2> QED
    BY <1>7, <2>1 DEF WriteTmp
<1>8. ASSUME NEW p \in Runs, Rename(p) PROVE SyncTypeOK'
  BY <1>8 DEF Rename, WriteInv, Known
<1>9. ASSUME NEW p \in Runs, Die(p) PROVE SyncTypeOK'
  BY <1>9 DEF Die
<1>10. CASE Edit
  BY <1>10, ContentsAssumption, SyncMaxAssumption DEF Edit
<1>11. CASE Tick
  BY <1>11, SyncMaxAssumption DEF Tick, Seconds
<1>12. CASE UNCHANGED vars
  BY <1>12 DEF vars
<1> QED
  BY <1>1, <1>2, <1>3, <1>4, <1>5, <1>6, <1>7, <1>8, <1>9, <1>10, <1>11, <1>12
     DEF Next, run, Ended

LEMMA StepWrite == IInv /\ [Next]_vars => WriteInv'
<1> SUFFICES ASSUME IInv, [Next]_vars, NEW r \in Runs PROVE Known(r)'
  BY DEF WriteInv
<1>0. lines'[r] = lines[r] /\ inst'[r] = inst[r] =>
        updates(r)' = updates(r) /\ newLines(r)' = newLines(r)
  BY DEF updates, newLines
<1> USE DEF IInv, SyncTypeOK, WriteInv, Known, locals, Goto, Fails, Put
<1>1. ASSUME NEW p \in Runs, Parse(p) PROVE Known(r)'
  BY <1>1, <1>0 DEF Parse
<1>2. ASSUME NEW p \in Runs, Fetch(p) PROVE Known(r)'
  BY <1>2, <1>0 DEF Fetch
<1>3. ASSUME NEW p \in Runs, Compare(p) PROVE Known(r)'
  BY <1>3, <1>0 DEF Compare
<1>4. ASSUME NEW p \in Runs, OpenBackup(p) PROVE Known(r)'
  BY <1>4, <1>0 DEF OpenBackup
<1>5. ASSUME NEW p \in Runs, CopyBackup(p) PROVE Known(r)'
  BY <1>5, <1>0 DEF CopyBackup
<1>6. ASSUME NEW p \in Runs, OpenTmp(p) PROVE Known(r)'
  BY <1>6, <1>0 DEF OpenTmp
<1>7. ASSUME NEW p \in Runs, WriteTmp(p) PROVE Known(r)'
  <2>1. pc[p] = "writeTmp" => newLines(p) \in Seq(Line)
    BY ApplyIsConfig DEF newLines
  <2> QED
    BY <1>7, <1>0, <2>1 DEF WriteTmp
<1>8. ASSUME NEW p \in Runs, Rename(p) PROVE Known(r)'
  BY <1>8, <1>0 DEF Rename
<1>9. ASSUME NEW p \in Runs, Die(p) PROVE Known(r)'
  BY <1>9, <1>0 DEF Die
<1>10. CASE Edit \/ Tick \/ UNCHANGED vars
  BY <1>10, <1>0 DEF Edit, Tick, vars
<1> HIDE DEF IInv, SyncTypeOK, WriteInv, Known, locals, Goto, Fails, Put
<1> QED
  BY <1>1, <1>2, <1>3, <1>4, <1>5, <1>6, <1>7, <1>8, <1>9, <1>10 DEF Next, run, Ended

\* Whoever writes the config makes every other run stale, and a run parses what there is.
LEMMA StepFresh == IInv /\ [Next]_vars => FreshInv'
<1> DEFINE Working == {"fetch", "diff", "backup", "copy", "openTmp", "writeTmp", "rename"}
<1> SUFFICES ASSUME IInv, [Next]_vars, NEW r \in Runs, r \notin stale', pc'[r] \in Working
             PROVE  lines'[r] = file'
  BY DEF FreshInv
<1>0. r \notin stale /\ pc[r] \in Working => lines[r] = file
  BY DEF IInv, FreshInv
<1> USE DEF IInv, SyncTypeOK, locals, Goto, Fails
<1>1. ASSUME NEW p \in Runs, Parse(p) PROVE lines'[r] = file'
  BY <1>0, <1>1 DEF Parse
<1>2. ASSUME NEW p \in Runs, Fetch(p) \/ Compare(p) \/ Die(p) PROVE lines'[r] = file'
  BY <1>0, <1>2 DEF Fetch, Compare, Die
<1>3. ASSUME NEW p \in Runs, OpenBackup(p) \/ CopyBackup(p) PROVE lines'[r] = file'
  BY <1>0, <1>3 DEF OpenBackup, CopyBackup
<1>4. ASSUME NEW p \in Runs, OpenTmp(p) \/ WriteTmp(p) PROVE lines'[r] = file'
  BY <1>0, <1>4 DEF OpenTmp, WriteTmp
<1>5. ASSUME NEW p \in Runs, Rename(p) PROVE lines'[r] = file'
  BY <1>0, <1>5 DEF Rename
<1>6. CASE Edit \/ Tick \/ UNCHANGED vars
  BY <1>0, <1>6 DEF Edit, Tick, vars
<1> HIDE DEF IInv, SyncTypeOK, locals, Goto, Fails
<1> QED
  BY <1>1, <1>2, <1>3, <1>4, <1>5, <1>6 DEF Next, run, Ended

\* A backup is written by the runs whose stamp it has; a run that gets the stamp of
\* another ends what is promised of that other's backup.
LEMMA StepBackup == IInv /\ [Next]_vars => CopyInv' /\ BackupKept'
<1> DEFINE Alone(r) == \A q \in Runs \ {r} : stamp[q] # stamp[r]
           Held(r) == /\ pc[r] = "copy" => backups[stamp[r]] = Partial
                      /\ pc[r] \in {"openTmp", "writeTmp", "rename", "done"} =>
                           backups[stamp[r]] = source[r]
<1> SUFFICES ASSUME IInv, [Next]_vars, NEW r \in Runs, Alone(r)'
             PROVE  Held(r)'
  BY DEF CopyInv, BackupKept
<1>0. /\ Alone(r) => Held(r)
      /\ Never \notin Seconds
  BY SyncMaxAssumption DEF IInv, CopyInv, BackupKept, Never, Seconds
<1> USE DEF IInv, SyncTypeOK, WriteInv, Known, locals, Goto, Fails, BackUp
<1>1. ASSUME NEW p \in Runs, Parse(p) \/ Fetch(p) \/ Compare(p) \/ Rename(p) \/ Die(p)
      PROVE  Held(r)'
  BY <1>0, <1>1 DEF Parse, Fetch, Compare, Rename, Die
<1>2. ASSUME NEW p \in Runs, OpenBackup(p) PROVE Held(r)'
  <2>1. CASE p = r
    BY <1>2, <2>1 DEF OpenBackup
  <2>2. CASE p # r
    <3>1. pc'[r] = pc[r] /\ stamp'[r] = stamp[r] /\ source'[r] = source[r]
      BY <1>2, <2>2 DEF OpenBackup
    <3>2. CASE pc[r] \in {"copy", "openTmp", "writeTmp", "rename", "done"}
      <4>1. stamp[r] # stamp[p]
        BY <1>0, <1>2, <3>2 DEF OpenBackup
      <4>2. Alone(r)
        BY <1>2, <2>2, <4>1 DEF OpenBackup
      <4>3. backups'[stamp[r]] = backups[stamp[r]]
        BY <1>2, <2>2, <3>1, <3>2 DEF OpenBackup
      <4> QED
        BY <1>0, <3>1, <4>2, <4>3
    <3>3. CASE pc[r] \notin {"copy", "openTmp", "writeTmp", "rename", "done"}
      BY <3>1, <3>3
    <3> QED
      BY <3>2, <3>3
  <2> QED
    BY <2>1, <2>2
<1>3. ASSUME NEW p \in Runs, CopyBackup(p) PROVE Held(r)'
  <2>1. Alone(r)
    BY <1>3 DEF CopyBackup
  <2>2. CASE p = r
    BY <1>0, <1>3, <2>1, <2>2 DEF CopyBackup
  <2>3. CASE p # r
    BY <1>0, <1>3, <2>1, <2>3 DEF CopyBackup
  <2> QED
    BY <2>2, <2>3
<1>4. ASSUME NEW p \in Runs, OpenTmp(p) \/ WriteTmp(p) PROVE Held(r)'
  <2>1. Alone(r)
    BY <1>4 DEF OpenTmp, WriteTmp
  <2>2. CASE p = r
    BY <1>0, <1>4, <2>1, <2>2 DEF OpenTmp, WriteTmp
  <2>3. CASE p # r
    BY <1>0, <1>4, <2>1, <2>3 DEF OpenTmp, WriteTmp
  <2> QED
    BY <2>2, <2>3
<1>5. CASE Edit \/ Tick \/ UNCHANGED vars
  BY <1>0, <1>5 DEF Edit, Tick, vars
<1> HIDE DEF IInv, SyncTypeOK, WriteInv, Known, locals, Goto, Fails, BackUp, Alone, Held
<1> QED
  BY <1>1, <1>2, <1>3, <1>4, <1>5 DEF Next, run, Ended

\* The invariant holds in every reachable state.
LEMMA InvariantHolds == Spec => []IInv
<1>1. IInv /\ [Next]_vars => IInv'
  BY StepType, StepWrite, StepBackup, StepFresh DEF IInv
<1> QED
  BY InitIInv, <1>1, PTL DEF Spec

\* The config is a whole file at all times, for any number of runs, failures, deaths
\* and saves by an editor (ApplyAndWrite: temp file and rename).
THEOREM ConfigIsWhole == Spec => []SyncTypeOK
<1>1. IInv => SyncTypeOK
  BY DEF IInv
<1> QED
  BY InvariantHolds, <1>1, PTL

\* The backup of a run stays what the config was when the run opened it, unless another
\* run has the same second in the name of its backup (ApplyAndWrite).
THEOREM BackupIsKept == Spec => []BackupKept
<1>1. IInv => BackupKept
  BY DEF IInv
<1> QED
  BY InvariantHolds, <1>1, PTL

\* For every config and every answer of FetchInstances, the updates are the lines that are
\* in force for an alias and do not have the address of its instance (parseBlocks, Diff).
THEOREM HostNamesAreFound == Spec => []FindsHostNames
<1>1. IInv => FindsHostNames
  <2> SUFFICES ASSUME IInv, NEW p \in Runs PROVE updates(p) = Due(lines[p], inst[p])
    BY DEF FindsHostNames
  <2>1. lines[p] \in Seq(Line) /\ inst[p] \in [Words -> Words \cup {NoIp}]
    BY DEF IInv, SyncTypeOK
  <2> QED
    BY <2>1, DiffIsDue DEF updates
<1> QED
  BY InvariantHolds, <1>1, PTL

\* A run that nobody has overtaken writes what is due and nothing else, and leaves nothing
\* due (Diff, ApplyAndWrite).
THEOREM WhatIsDueIsWritten == Spec => WritesWhatIsDue
<1>1. IInv /\ [Next]_vars =>
        [\A p \in Runs :
           pc[p] = "rename" /\ pc'[p] = "done" /\ p \notin stale =>
             Updated(file, file', inst[p])]_vars
  <2> SUFFICES ASSUME IInv, Next, NEW p \in Runs,
                      pc[p] = "rename", pc'[p] = "done", p \notin stale
               PROVE  Updated(file, file', inst[p])
    BY DEF vars
  <2> USE DEF IInv, SyncTypeOK
  <2>1. file' = tmp[p]
    <3>1. ASSUME NEW q \in Runs, run(q), q # p PROVE pc'[p] = pc[p]
      BY <3>1 DEF run, Parse, Fetch, Compare, OpenBackup, CopyBackup, OpenTmp, WriteTmp, Rename,
                  Goto, Fails
    <3>2. ASSUME run(p) PROVE file' = tmp[p]
      BY <3>2 DEF run, Parse, Fetch, Compare, OpenBackup, CopyBackup, OpenTmp, WriteTmp, Rename,
                  Goto, Fails
    <3>3. ASSUME NEW q \in Runs, Die(q) PROVE pc'[p] # "done"
      BY <3>3 DEF Die, Goto
    <3>4. CASE Edit \/ Tick \/ Ended
      BY <3>4 DEF Edit, Tick, Ended, vars
    <3> HIDE DEF IInv, SyncTypeOK
    <3> QED
      BY <3>1, <3>2, <3>3, <3>4 DEF Next
  <2>2. lines[p] = file /\ tmp[p] = newLines(p) /\ Applicable(lines[p], updates(p))
    BY DEF FreshInv, WriteInv, Known
  <2>3. lines[p] \in Seq(Line) /\ inst[p] \in [Words -> Words \cup {NoIp}]
    OBVIOUS
  <2>4. updates(p) = Due(lines[p], inst[p])
    BY <2>3, DiffIsDue DEF updates
  <2> QED
    BY <2>1, <2>2, <2>3, <2>4, AppliesWhatIsDue DEF newLines
<1> QED
  BY InvariantHolds, <1>1, PTL DEF Spec, WritesWhatIsDue

-----------------------------------------------------------------------------
(* The refinement of ConfigUpdate.                                         *)

\* How far ConfigUpdate sees a run to be.
StateOf(p) ==
  CASE pc[p] = "parse" -> "launched"
    [] pc[p] = "fetch" -> "read"
    [] pc[p] \in EndedPcs -> "over"
    [] OTHER -> "ready"
States == [p \in Runs |-> StateOf(p)]

LEMMA SameMeaning ==
  ASSUME NEW ls, NEW new, NEW found
  PROVE  /\ Promise!Due(ls, found) = Due(ls, found)
         /\ Promise!Updated(ls, new, found) <=> Updated(ls, new, found)
BY DEF Promise!Updated, Updated, Promise!Due, Due, Promise!InForce, InForce, Promise!BlockLines, BlockLines

\* A run that goes on to step to is seen to be in the state of that step.
LEMMA StateGoesOn ==
  ASSUME pc \in [Runs -> Pcs], NEW p \in Runs, NEW to \in Pcs, Goto(p, to),
         NEW s, s = CASE to = "parse" -> "launched" [] to = "fetch" -> "read"
                      [] to \in EndedPcs -> "over" [] OTHER -> "ready"
  PROVE  States' = [States EXCEPT ![p] = s]
<1>1. \A q \in Runs : pc'[q] = IF q = p THEN to ELSE pc[q]
  BY DEF Goto
<1>2. \A q \in Runs : StateOf(q)' = IF q = p THEN s ELSE StateOf(q)
  BY <1>1 DEF StateOf
<1> QED
  BY <1>2 DEF States

Seen == <<file, lines, inst, States>>

\* A run that ends without a write, and one that goes on unseen.
LEMMA Leaves ==
  ASSUME IInv, NEW p \in Runs, pc[p] \notin EndedPcs, NEW to \in EndedPcs, Goto(p, to),
         UNCHANGED <<file, lines, inst>>
  PROVE  Promise!Leave(p)
<1>1. to \in Pcs /\ to \notin {"parse", "fetch"} /\ pc \in [Runs -> Pcs]
  BY DEF IInv, SyncTypeOK, Pcs, EndedPcs
<1>2. States' = [States EXCEPT ![p] = "over"]
  BY <1>1, StateGoesOn
<1>3. States[p] # "over"
  BY DEF States, StateOf
<1> QED
  BY <1>2, <1>3 DEF Promise!Leave, Promise!Becomes, States, StateOf

LEMMA GoesOnUnseen ==
  ASSUME IInv, NEW p \in Runs, pc[p] \notin {"parse", "fetch"} \cup EndedPcs,
         NEW to \in {"backup", "copy", "openTmp", "writeTmp", "rename"}, Goto(p, to),
         UNCHANGED <<file, lines, inst>>
  PROVE  UNCHANGED Seen
<1>1. to \in Pcs /\ to \notin {"parse", "fetch"} /\ to \notin EndedPcs /\ pc \in [Runs -> Pcs]
  BY DEF IInv, SyncTypeOK, Pcs, EndedPcs
<1>2. States' = [States EXCEPT ![p] = "ready"] /\ States[p] = "ready"
  BY <1>1, StateGoesOn DEF States, StateOf
<1>3. States' = States
  BY <1>2 DEF States
<1> QED
  BY <1>3 DEF Seen

\* The rename puts in place what was read with all that was due.
LEMMA RenameWrites ==
  ASSUME IInv, NEW p \in Runs, pc[p] = "rename", Goto(p, "done"), file' = tmp[p],
         updates(p) # {}, UNCHANGED <<lines, inst>>
  PROVE  Promise!Write(p)
<1>1. pc \in [Runs -> Pcs] /\ "done" \in Pcs /\ "done" \in EndedPcs
  BY DEF IInv, SyncTypeOK, Pcs, EndedPcs
<1>2. States' = [States EXCEPT ![p] = "over"] /\ States[p] = "ready"
  BY <1>1, StateGoesOn DEF States, StateOf, EndedPcs
<1>3. lines[p] \in Seq(Line) /\ inst[p] \in [Words -> Words \cup {NoIp}]
  BY DEF IInv, SyncTypeOK
<1>4. updates(p) = Due(lines[p], inst[p])
  BY <1>3, DiffIsDue DEF updates
<1>5. tmp[p] = newLines(p) /\ Applicable(lines[p], updates(p))
  BY DEF IInv, WriteInv, Known
<1>6. Updated(lines[p], file', inst[p])
  BY <1>3, <1>4, <1>5, AppliesWhatIsDue DEF newLines
<1>7. Promise!Due(lines[p], inst[p]) # {} /\ Promise!Updated(lines[p], file', inst[p])
  BY <1>4, <1>6, SameMeaning
<1> QED
  BY <1>2, <1>7 DEF Promise!Write, Promise!Becomes, States, StateOf

\* A run that is to write has something to write.
WritesSomething ==
  \A p \in Runs :
    pc[p] \in {"backup", "copy", "openTmp", "writeTmp", "rename"} => updates(p) # {}

LEMMA StepWrites == IInv /\ WritesSomething /\ [Next]_vars => WritesSomething'
<1> SUFFICES ASSUME IInv, WritesSomething, [Next]_vars, NEW r \in Runs,
                    pc'[r] \in {"backup", "copy", "openTmp", "writeTmp", "rename"}
             PROVE  updates(r)' # {}
  BY DEF WritesSomething
<1>0. lines'[r] = lines[r] /\ inst'[r] = inst[r] => updates(r)' = updates(r)
  BY DEF updates
<1> USE DEF IInv, SyncTypeOK, locals, Goto, Fails, WritesSomething
<1>1. ASSUME NEW p \in Runs, Parse(p) \/ Fetch(p) PROVE updates(r)' # {}
  BY <1>0, <1>1 DEF Parse, Fetch
<1>2. ASSUME NEW p \in Runs, Compare(p) PROVE updates(r)' # {}
  BY <1>0, <1>2 DEF Compare
<1>3. ASSUME NEW p \in Runs, OpenBackup(p) \/ CopyBackup(p) \/ OpenTmp(p) PROVE updates(r)' # {}
  BY <1>0, <1>3 DEF OpenBackup, CopyBackup, OpenTmp
<1>4. ASSUME NEW p \in Runs, WriteTmp(p) \/ Rename(p) \/ Die(p) PROVE updates(r)' # {}
  BY <1>0, <1>4 DEF WriteTmp, Rename, Die
<1>5. CASE Edit \/ Tick \/ UNCHANGED vars
  BY <1>0, <1>5 DEF Edit, Tick, vars
<1> HIDE DEF IInv, SyncTypeOK, locals, Goto, Fails, WritesSomething
<1> QED
  BY <1>1, <1>2, <1>3, <1>4, <1>5 DEF Next, run, Ended

\* Every step of a run is a step of ConfigUpdate, or one that it does not see.
LEMMA RunStep ==
  ASSUME IInv, WritesSomething, NEW p \in Runs, run(p) \/ Die(p)
  PROVE  Promise!Next \/ UNCHANGED Seen
<1>0. /\ pc \in [Runs -> Pcs] /\ lines \in [Runs -> Seq(Line)]
      /\ {"fetch", "diff"} \subseteq Pcs /\ EndedPcs \cap {"parse", "fetch", "diff"} = {}
      /\ {"failed", "dead", "nothing"} \subseteq EndedPcs
      /\ EndedPcs \cap {"backup", "copy", "openTmp", "writeTmp", "rename"} = {}
  BY DEF IInv, SyncTypeOK, Pcs, EndedPcs
<1>1. ASSUME pc[p] \notin EndedPcs, Fails(p) \/ Goto(p, "dead") \/ Goto(p, "nothing") \/ Goto(p, "failed"),
             UNCHANGED <<file, lines, inst>>
      PROVE  Promise!Next
  BY <1>0, <1>1, Leaves DEF Fails, Promise!Next
<1>2. CASE Parse(p)
  <2>1. CASE Fails(p) /\ UNCHANGED lines
    BY <1>0, <1>1, <1>2, <2>1 DEF Parse
  <2>2. CASE Goto(p, "fetch")
    <3>1. States' = [States EXCEPT ![p] = "read"] /\ States[p] = "launched"
      BY <1>0, <1>2, <2>2, StateGoesOn DEF Parse, States, StateOf
    <3>2. lines' = [lines EXCEPT ![p] = file] /\ UNCHANGED <<file, inst>>
      BY <1>0, <1>2, <2>2 DEF Parse, Fails, Goto
    <3>3. Promise!Read(p)
      BY <3>1, <3>2 DEF Promise!Read, Promise!Becomes, States, StateOf
    <3> QED
      BY <3>3 DEF Promise!Next
  <2> QED
    BY <1>2, <2>1, <2>2 DEF Parse
<1>3. CASE Fetch(p)
  <2>1. CASE Fails(p) /\ UNCHANGED inst
    BY <1>0, <1>1, <1>3, <2>1 DEF Fetch
  <2>2. CASE Goto(p, "diff") /\ \E a \in Answers : inst' = [inst EXCEPT ![p] = a]
    <3>1. States' = [States EXCEPT ![p] = "ready"] /\ States[p] = "read"
      BY <1>0, <1>3, <2>2, StateGoesOn DEF Fetch, States, StateOf
    <3>2. UNCHANGED <<file, lines>>
      BY <1>3 DEF Fetch
    <3>3. Promise!Learn(p)
      BY <2>2, <3>1, <3>2 DEF Promise!Learn, Promise!Becomes, States, StateOf
    <3> QED
      BY <3>3 DEF Promise!Next
  <2> QED
    BY <1>3, <2>1, <2>2 DEF Fetch
<1>4. CASE Compare(p)
  BY <1>0, <1>1, <1>4, GoesOnUnseen DEF Compare, locals
<1>5. CASE OpenBackup(p)
  BY <1>0, <1>1, <1>5, GoesOnUnseen DEF OpenBackup
<1>6. CASE CopyBackup(p)
  BY <1>0, <1>1, <1>6, GoesOnUnseen DEF CopyBackup, locals
<1>7. CASE OpenTmp(p)
  BY <1>0, <1>1, <1>7, GoesOnUnseen DEF OpenTmp, locals
<1>8. CASE WriteTmp(p)
  BY <1>0, <1>1, <1>8, GoesOnUnseen DEF WriteTmp, locals
<1>9. CASE Rename(p)
  <2>1. CASE Goto(p, "done") /\ file' = tmp[p]
    <3>1. Promise!Write(p)
      BY <1>9, <2>1, RenameWrites DEF Rename, locals, WritesSomething
    <3> QED
      BY <3>1 DEF Promise!Next
  <2>2. CASE Fails(p) /\ UNCHANGED file
    BY <1>0, <1>1, <1>9, <2>2 DEF Rename, locals
  <2> QED
    BY <1>9, <2>1, <2>2 DEF Rename
<1>10. CASE Die(p)
  BY <1>1, <1>10 DEF Die, locals
<1> QED
  BY <1>2, <1>3, <1>4, <1>5, <1>6, <1>7, <1>8, <1>9, <1>10 DEF run

\* sync-ssh-config implements ConfigUpdate, for any number of runs and editors, whatever fails
\* and whoever dies: a config is replaced at one stroke, by what was read with all that was
\* due, though it be a config that others have written since (Parse to ApplyAndWrite).
THEOREM ConfigPromiseIsKept == Spec => KeepsConfigPromise
<1>1. Init => Promise!Init /\ WritesSomething
  <2> SUFFICES ASSUME Init PROVE Promise!Init /\ WritesSomething
    OBVIOUS
  <2>1. \A p \in Runs : StateOf(p) = "launched"
    BY DEF Init, StateOf, EndedPcs
  <2> QED
    BY <2>1 DEF Init, Promise!Init, StateOf, WritesSomething
<1>2. IInv /\ WritesSomething /\ [Next]_vars => [Promise!Next]_Seen
  <2> SUFFICES ASSUME IInv, WritesSomething, [Next]_vars PROVE Promise!Next \/ UNCHANGED Seen
    OBVIOUS
  <2>1. CASE Edit
    BY <2>1 DEF Edit, Promise!Next, Promise!Save, locals
  <2>2. CASE Tick \/ Ended \/ UNCHANGED vars
    BY <2>2 DEF Tick, Ended, vars, locals, Seen, States, StateOf
  <2> QED
    BY <2>1, <2>2, RunStep DEF Next
<1>3. IInv /\ WritesSomething /\ [Next]_vars => WritesSomething'
  BY StepWrites
<1> QED
  BY <1>1, <1>2, <1>3, InvariantHolds, PTL DEF Spec, KeepsConfigPromise, Promise!Spec, Seen, States, StateOf
=============================================================================
