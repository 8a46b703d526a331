---------------------------- MODULE RepoToolsProofs ----------------------------
(***************************************************************************)
(* Proofs about the walks of RepoTools, for any files and any of their     *)
(* contents, any traits, any limits and any changes of the tree under a    *)
(* walk: what a file adds, and what a walk has found at any time.          *)
(***************************************************************************)
EXTENDS RepoTools, NumberFacts

(* No hit of a sequence occurs twice.                                      *)
Once(q) == \A i, j \in 1..Len(q) : q[i] = q[j] => i = j
-----------------------------------------------------------------------------
(* The matching lines.  The loop over them is well defined ...             *)
MatchStep(g, f, lines, n) ==
  IF n = 0 THEN <<>>
  ELSE IF lines[n] THEN Append(g[n - 1], <<f, n>>) ELSE g[n - 1]

LEMMA MatchesExist ==
  ASSUME NEW f, NEW lines \in Seq(BOOLEAN)
  PROVE  \E g : g = [n \in 0..Len(lines) |-> MatchStep(g, f, lines, n)]
<1> DEFINE Bad == {k \in 0..Len(lines) : ~ \E g : g = [n \in 0..k |-> MatchStep(g, f, lines, n)]}
<1>1. ASSUME Bad # {} PROVE FALSE
  <2>b. Bad \in SUBSET Nat
    OBVIOUS
  <2>1. PICK k \in Bad : \A m \in Bad : k <= m
    <3> HIDE DEF Bad
    <3> QED
      BY <1>1, <2>b, LeastNumber
  <2>2. k \in 0..Len(lines) /\ ~ \E g : g = [n \in 0..k |-> MatchStep(g, f, lines, n)]
    OBVIOUS
  <2>3. CASE k = 0
    <3> DEFINE g == [n \in 0..0 |-> <<>>]
    <3>1. g = [n \in 0..0 |-> MatchStep(g, f, lines, n)]
      BY DEF MatchStep
    <3>2. QED
      BY <2>2, <2>3, <3>1
  <2>4. CASE k # 0
    <3>1. k - 1 \in 0..Len(lines) /\ k - 1 \notin Bad
      BY <2>1, <2>4
    <3>2. PICK g : g = [n \in 0..(k - 1) |-> MatchStep(g, f, lines, n)]
      BY <3>1
    <3> DEFINE h == [n \in 0..k |-> IF n = k THEN MatchStep(g, f, lines, k) ELSE g[n]]
    <3>3. \A n \in 0..k : h[n] = MatchStep(h, f, lines, n)
      <4> SUFFICES ASSUME NEW n \in 0..k PROVE h[n] = MatchStep(h, f, lines, n)
        OBVIOUS
      <4>1. CASE n = k
        <5>1. h[k] = MatchStep(g, f, lines, k) /\ h[k - 1] = g[k - 1]
          BY <2>4
        <5>2. QED
          BY <2>4, <4>1, <5>1 DEF MatchStep
      <4>2. CASE n # k
        <5>1. h[n] = g[n] /\ n \in 0..(k - 1) /\ g[n] = MatchStep(g, f, lines, n)
          BY <3>2, <4>2
        <5>2. n # 0 => h[n - 1] = g[n - 1]
          BY <4>2
        <5>3. QED
          BY <5>1, <5>2 DEF MatchStep
      <4>3. QED
        BY <4>1, <4>2
    <3>4. h = [n \in 0..k |-> MatchStep(h, f, lines, n)]
      BY <3>3
    <3>5. QED
      BY <2>2, <3>4
  <2>5. QED
    BY <2>3, <2>4
<1>2. Len(lines) \in 0..Len(lines)
  OBVIOUS
<1>3. QED
  BY <1>1, <1>2

(* ... and reports lines it has passed, none of them twice.                *)
Reported(q, f, n) ==
  /\ q \in Seq(Match) /\ Once(q)
  /\ \A i \in 1..Len(q) : \E m \in 1..n : q[i] = <<f, m>>

LEMMA LineReported ==
  ASSUME NEW f \in Files, NEW n \in Nat, NEW q, Reported(q, f, n)
  PROVE  Reported(Append(q, <<f, n + 1>>), f, n + 1) /\ Reported(q, f, n + 1)
<1> DEFINE e == <<f, n + 1>>
           u == Append(q, e)
<1>1. e \in Match /\ \A m \in 1..n : <<f, m>> # e
  BY DEF Match
<1>2. q \in Seq(Match) /\ Len(q) \in Nat
  BY DEF Reported
<1>3. /\ u \in Seq(Match) /\ Len(u) = Len(q) + 1
      /\ u[Len(q) + 1] = e /\ \A i \in 1..Len(q) : u[i] = q[i]
  BY <1>1, <1>2
<1>4. \A i \in 1..Len(q) : q[i] # e /\ \E m \in 1..n : q[i] = <<f, m>>
  BY <1>1 DEF Reported
<1> HIDE DEF u
<1>5. Once(u)
  <2> SUFFICES ASSUME NEW i \in 1..Len(u), NEW j \in 1..Len(u), u[i] = u[j] PROVE i = j
    BY DEF Once
  <2>1. \/ i \in 1..Len(q) /\ j \in 1..Len(q)
        \/ i = Len(q) + 1 /\ j \in 1..Len(q)
        \/ j = Len(q) + 1 /\ i \in 1..Len(q)
        \/ i = j
    BY <1>2, <1>3
  <2>2. QED
    BY <1>3, <1>4, <2>1 DEF Reported, Once
<1>6. \A i \in 1..Len(q) : \E m \in 1..(n + 1) : q[i] = <<f, m>>
  BY <1>4
<1>7. \A i \in 1..Len(u) : \E m \in 1..(n + 1) : u[i] = <<f, m>>
  <2> SUFFICES ASSUME NEW i \in 1..Len(u) PROVE \E m \in 1..(n + 1) : u[i] = <<f, m>>
    OBVIOUS
  <2>1. CASE i = Len(q) + 1
    BY <1>3, <2>1
  <2>2. CASE i \in 1..Len(q)
    BY <1>3, <1>6, <2>2
  <2>3. QED
    BY <1>2, <1>3, <2>1, <2>2
<1>8. QED
  BY <1>3, <1>5, <1>6, <1>7 DEF Reported, u

LEMMA MatchesReport ==
  ASSUME NEW f \in Files, NEW lines \in Seq(BOOLEAN)
  PROVE  Reported(Matches(f, lines), f, Len(lines))
<1> DEFINE upto == CHOOSE g : g = [n \in 0..Len(lines) |-> MatchStep(g, f, lines, n)]
<1>1. upto = [n \in 0..Len(lines) |-> MatchStep(upto, f, lines, n)]
  BY MatchesExist
<1>2. Matches(f, lines) = upto[Len(lines)]
  BY DEF Matches, MatchStep
<1> HIDE DEF upto
<1>3. \A n \in 0..Len(lines) : upto[n] = MatchStep(upto, f, lines, n)
  BY <1>1
<1> DEFINE Bad == {k \in 0..Len(lines) : ~Reported(upto[k], f, k)}
<1>4. ASSUME Bad # {} PROVE FALSE
  <2>b. Bad \in SUBSET Nat
    OBVIOUS
  <2>1. PICK k \in Bad : \A m \in Bad : k <= m
    <3> HIDE DEF Bad
    <3> QED
      BY <1>4, <2>b, LeastNumber
  <2>2. CASE k = 0
    <3>1. upto[0] = <<>>
      BY <1>3, <2>2 DEF MatchStep
    <3>2. Reported(<<>>, f, 0)
      BY DEF Reported, Once
    <3>3. QED
      BY <2>2, <3>1, <3>2
  <2>3. CASE k # 0
    <3>1. k - 1 \in Nat /\ k - 1 \in 0..Len(lines) /\ k - 1 \notin Bad
      BY <2>1, <2>3
    <3>2. Reported(upto[k - 1], f, k - 1)
      BY <3>1
    <3>3. /\ Reported(Append(upto[k - 1], <<f, (k - 1) + 1>>), f, (k - 1) + 1)
          /\ Reported(upto[k - 1], f, (k - 1) + 1)
      BY <3>1, <3>2, LineReported
    <3>4. (k - 1) + 1 = k
      OBVIOUS
    <3>5. upto[k] \in {upto[k - 1], Append(upto[k - 1], <<f, k>>)}
      BY <1>3, <2>3 DEF MatchStep
    <3>6. Reported(upto[k], f, k)
      BY <3>3, <3>4, <3>5
    <3>7. QED
      BY <3>6
  <2>4. QED
    BY <2>2, <2>3
<1>5. Len(lines) \in 0..Len(lines)
  OBVIOUS
<1>6. QED
  BY <1>2, <1>4, <1>5

(* What a file adds are hits in it, none of them twice.                    *)
LEMMA HitsReport ==
  ASSUME NEW f \in Files, NEW tool, tree \in [Files -> Versions \cup {Gone}]
  PROVE  /\ Hits(tool, f) \in Seq(Match) /\ Once(Hits(tool, f))
         /\ \A i \in 1..Len(Hits(tool, f)) : Hits(tool, f)[i][1] = f
<1> DEFINE h == Hits(tool, f)
<1>1. CASE h = <<>>
  BY <1>1 DEF Once
<1>2. CASE h = <<<<f, 0>>>>
  BY <1>2 DEF Once, Match
<1>3. CASE tree[f] # Gone /\ h = Matches(f, tree[f].lines)
  <2>1. tree[f].lines \in Seq(BOOLEAN)
    BY <1>3, RepoAssumption DEF Version
  <2>2. Reported(h, f, Len(tree[f].lines))
    BY <1>3, <2>1, MatchesReport
  <2> HIDE DEF h
  <2>3. QED
    BY <2>2 DEF Reported, h
<1>4. QED
  BY <1>1, <1>2, <1>3 DEF Hits
-----------------------------------------------------------------------------
(* The walk.  What it has read are hits of the files it has passed, none   *)
(* twice, and what it has found is the beginning of that.                  *)
ScanRec == [tool : WalkTools \cup {"none"}, pos : Nat, max : Nat,
            found : Seq(Match), read : Seq(Match)]
Fewer(n, m) == IF n < m THEN n ELSE m

Exact(s) ==
  /\ s.pos \in 1..(Len(Walk) + 1) /\ s.max \in Nat \ {0}
  /\ Once(s.read)
  /\ \A i \in 1..Len(s.read) : \E m \in 1..(s.pos - 1) : s.read[i][1] = Walk[m]
  /\ s.found = SubSeq(s.read, 1, Fewer(Len(s.read), s.max))

ScanInv ==
  /\ tree \in [Files -> Versions \cup {Gone}] /\ edits \in Nat
  /\ scan \in [Callers -> ScanRec]
  /\ \A c \in Callers : Exact(scan[c])

LEMMA ScanTyped ==
  ASSUME NEW s \in ScanRec, Exact(s)
  PROVE  /\ s.pos \in Nat /\ s.max \in Nat \ {0} /\ s.read \in Seq(Match) /\ s.found \in Seq(Match)
         /\ Len(s.read) \in Nat /\ Len(s.found) \in Nat /\ s.tool \in WalkTools \cup {"none"}
         /\ Len(Walk) \in Nat
<1>1. /\ s.pos \in Nat /\ s.read \in Seq(Match) /\ s.found \in Seq(Match)
      /\ s.tool \in WalkTools \cup {"none"}
  BY DEF ScanRec
<1>2. s.max \in Nat \ {0}
  BY DEF Exact
<1>3. Walk \in Seq(Files)
  BY RepoAssumption
<1>4. QED
  BY <1>1, <1>2, <1>3

LEMMA NoScanExact == NoScan \in ScanRec /\ Exact(NoScan)
<1>1. Len(Walk) \in Nat
  BY RepoAssumption
<1>2. SubSeq(<<>>, 1, 0) = <<>>
  OBVIOUS
<1>3. QED
  BY <1>1, <1>2 DEF NoScan, ScanRec, Exact, Once, Fewer

LEMMA InitScan == RepoInit => ScanInv
  BY NoScanExact, RepoAssumption DEF RepoInit, ScanInv

(* A step of one walk.                                                     *)
LEMMA OneScan ==
  ASSUME ScanInv, NEW c \in Callers, NEW s \in ScanRec, Exact(s),
         scan' = [scan EXCEPT ![c] = s], UNCHANGED <<tree, edits>>
  PROVE  ScanInv'
<1>1. scan' \in [Callers -> ScanRec]
  BY DEF ScanInv
<1>2. \A x \in Callers : Exact(scan'[x])
  BY DEF ScanInv
<1>3. (\A x \in Callers : Exact(scan[x]))'
  BY <1>2
<1>4. QED
  BY <1>1, <1>3 DEF ScanInv

LEMMA WalkStarts ==
  ASSUME ScanInv, NEW c \in Callers, NEW tool \in WalkTools, NEW n \in Int,
         StartScan(c, tool, n), UNCHANGED <<tree, edits>>
  PROVE  ScanInv'
<1> DEFINE s == [NoScan EXCEPT !.tool = tool, !.max = Clamp(n, TopResults[tool])]
<1>1. Clamp(n, TopResults[tool]) \in Nat \ {0}
  BY RepoAssumption DEF Clamp
<1>2. /\ s \in ScanRec /\ s.pos = NoScan.pos /\ s.read = NoScan.read /\ s.found = NoScan.found
      /\ s.max \in Nat \ {0}
  BY <1>1, NoScanExact DEF NoScan, ScanRec
<1>3. s.read = <<>> /\ s.found = <<>>
  BY <1>2 DEF NoScan
<1>4. SubSeq(<<>>, 1, 0) = <<>>
  OBVIOUS
<1>5. scan' = [scan EXCEPT ![c] = s]
  BY DEF StartScan
<1> HIDE DEF s
<1>6. Exact(s)
  BY <1>2, <1>3, <1>4, NoScanExact DEF Exact, Fewer
<1>7. QED
  BY <1>2, <1>5, <1>6, OneScan

(* The search leaves a file at the last wanted match: what it then has is  *)
(* the beginning of all it would have had.                                 *)
LEMMA ReadOn ==
  ASSUME NEW q \in Seq(Match), NEW h \in Seq(Match), NEW k \in 0..Len(h), NEW max \in Nat,
         Len(q) < max
  PROVE  LET room == max - Len(q)
             all  == q \o SubSeq(h, 1, k)
         IN  q \o SubSeq(h, 1, IF k < room THEN k ELSE room) = SubSeq(all, 1, Fewer(Len(all), max))
<1> DEFINE room == max - Len(q)
           few  == IF k < room THEN k ELSE room
           all  == q \o SubSeq(h, 1, k)
           a    == q \o SubSeq(h, 1, few)
           b    == SubSeq(all, 1, Fewer(Len(all), max))
<1>1. Len(q) \in Nat /\ Len(h) \in Nat /\ k \in Nat /\ room \in Nat /\ few \in 0..k /\ few \in 0..Len(h)
  OBVIOUS
<1> HIDE DEF few
<1>2. /\ SubSeq(h, 1, k) \in Seq(Match) /\ Len(SubSeq(h, 1, k)) = k
      /\ \A i \in 1..k : SubSeq(h, 1, k)[i] = h[i]
  BY <1>1
<1>3. /\ SubSeq(h, 1, few) \in Seq(Match) /\ Len(SubSeq(h, 1, few)) = few
      /\ \A i \in 1..few : SubSeq(h, 1, few)[i] = h[i]
  BY <1>1
<1>4. /\ all \in Seq(Match) /\ Len(all) = Len(q) + k
      /\ \A i \in 1..Len(q) : all[i] = q[i]
      /\ \A i \in 1..k : all[Len(q) + i] = h[i]
  BY <1>1, <1>2
<1>5. /\ a \in Seq(Match) /\ Len(a) = Len(q) + few
      /\ \A i \in 1..Len(q) : a[i] = q[i]
      /\ \A i \in 1..few : a[Len(q) + i] = h[i]
  BY <1>1, <1>3
<1>6. Fewer(Len(all), max) = Len(q) + few
  BY <1>1, <1>4 DEF Fewer, few
<1> HIDE DEF all, a, room
<1>7. /\ b \in Seq(Match) /\ Len(b) = Len(q) + few
      /\ \A i \in 1..(Len(q) + few) : b[i] = all[i]
  BY <1>1, <1>4, <1>6
<1> HIDE DEF b
<1>8. \A i \in 1..(Len(q) + few) : a[i] = b[i]
  <2> SUFFICES ASSUME NEW i \in 1..(Len(q) + few) PROVE a[i] = b[i]
    OBVIOUS
  <2>1. CASE i \in 1..Len(q)
    BY <1>4, <1>5, <1>7, <2>1
  <2>2. CASE i \notin 1..Len(q)
    <3>1. PICK m \in 1..few : i = Len(q) + m
      <4>1. i - Len(q) \in 1..few /\ i = Len(q) + (i - Len(q))
        BY <1>1, <2>2
      <4>2. QED
        BY <4>1
    <3>2. m \in 1..k
      BY <1>1
    <3>3. QED
      BY <1>4, <1>5, <1>7, <3>1, <3>2
  <2>3. QED
    BY <2>1, <2>2
<1>9. a = b
  BY <1>5, <1>7, <1>8
<1>10. QED
  BY <1>9 DEF a, b, all, few, room

LEMMA WalkGoesOn ==
  ASSUME ScanInv, NEW c \in Callers, NEW k, ScanFile(c, k), UNCHANGED <<tree, edits>>
  PROVE  ScanInv'
<1> DEFINE s    == scan[c]
           f    == Walk[s.pos]
           h    == Hits(s.tool, f)
           room == s.max - Len(s.found)
           more == SubSeq(h, 1, k)
           all  == s.read \o more
           t    == [s EXCEPT !.pos = @ + 1,
                             !.found = @ \o SubSeq(h, 1, IF k < room THEN k ELSE room),
                             !.read = @ \o SubSeq(h, 1, k)]
<1>1. s \in ScanRec /\ Exact(s)
  BY DEF ScanInv
<1>2. /\ s.pos \in Nat /\ s.max \in Nat \ {0} /\ s.read \in Seq(Match) /\ s.found \in Seq(Match)
      /\ Len(s.read) \in Nat /\ Len(s.found) \in Nat /\ s.tool \in WalkTools \cup {"none"}
      /\ Len(Walk) \in Nat
  BY <1>1, ScanTyped
<1>3. s.pos \in 1..Len(Walk) /\ Len(s.found) < s.max /\ k \in 0..Len(h)
  <2>1. Len(Walk) \in Nat /\ Len(s.found) \in Nat
    BY <1>2, RepoAssumption
  <2>2. ~(s.pos > Len(Walk)) /\ ~(Len(s.found) >= s.max) /\ k \in 0..Len(h)
    BY DEF ScanFile, ScanDone
  <2>3. s.pos \in 1..(Len(Walk) + 1)
    BY <1>1 DEF Exact
  <2> HIDE DEF s, h
  <2>4. QED
    BY <1>2, <2>1, <2>2, <2>3
<1>4. s.found = s.read
  <2>1. s.found = SubSeq(s.read, 1, Fewer(Len(s.read), s.max))
    BY <1>1 DEF Exact
  <2> HIDE DEF s
  <2>2. Len(s.read) < s.max
    BY <1>2, <1>3, <2>1 DEF Fewer
  <2>3. s.found = SubSeq(s.read, 1, Len(s.read))
    BY <1>2, <2>1, <2>2 DEF Fewer
  <2>4. QED
    BY <1>2, <2>3
<1>5. f \in Files /\ Len(Walk) \in Nat
  BY <1>3, RepoAssumption
<1>6. h \in Seq(Match) /\ Once(h) /\ \A i \in 1..Len(h) : h[i][1] = f
  BY <1>5, HitsReport DEF ScanInv
<1>7. scan' = [scan EXCEPT ![c] = t]
  BY DEF ScanFile
<1> HIDE DEF h
<1>8. /\ more \in Seq(Match) /\ Len(more) = k /\ k \in Nat
      /\ \A i \in 1..k : more[i] = h[i] /\ more[i][1] = f
  BY <1>3, <1>6
<1>9. /\ t \in ScanRec /\ t.pos = s.pos + 1 /\ t.max = s.max /\ t.read = all
      /\ t.found = s.found \o SubSeq(h, 1, IF k < room THEN k ELSE room)
  <2>1. (IF k < room THEN k ELSE room) \in 0..Len(h)
    BY <1>2, <1>3, <1>6
  <2>2. SubSeq(h, 1, IF k < room THEN k ELSE room) \in Seq(Match)
    BY <1>6, <2>1
  <2> DEFINE found == s.found \o SubSeq(h, 1, IF k < room THEN k ELSE room)
  <2>3. found \in Seq(Match) /\ all \in Seq(Match) /\ s.pos + 1 \in Nat
    BY <1>2, <1>8, <2>2
  <2>4. t = [s EXCEPT !.pos = s.pos + 1, !.found = found, !.read = all]
    OBVIOUS
  <2> HIDE DEF t, found, all, s
  <2>5. t \in ScanRec /\ t.pos = s.pos + 1 /\ t.max = s.max /\ t.read = all /\ t.found = found
    BY <1>1, <2>3, <2>4 DEF ScanRec
  <2>6. QED
    BY <2>5 DEF found
<1> HIDE DEF t, more
<1>10. /\ all \in Seq(Match) /\ Len(all) = Len(s.read) + k
       /\ \A i \in 1..Len(s.read) : all[i] = s.read[i]
       /\ \A i \in 1..k : all[Len(s.read) + i] = more[i]
  <2> DEFINE q == s.read
  <2>1. q \in Seq(Match) /\ more \in Seq(Match) /\ Len(more) = k
    BY <1>2, <1>8
  <2> HIDE DEF q
  <2>2. /\ q \o more \in Seq(Match) /\ Len(q \o more) = Len(q) + k
        /\ \A i \in 1..Len(q) : (q \o more)[i] = q[i]
        /\ \A i \in 1..k : (q \o more)[Len(q) + i] = more[i]
    BY <2>1
  <2>3. QED
    BY <2>2 DEF q
<1>11. \A i \in 1..Len(s.read) : \E m \in 1..(s.pos - 1) : s.read[i][1] = Walk[m]
  BY <1>1 DEF Exact
<1>12. \A m \in 1..(s.pos - 1) : Walk[m] # f
  <2>1. Walk \in Seq(Files) /\ DOMAIN Walk = 1..Len(Walk)
    BY RepoAssumption
  <2>2. \A m \in 1..(s.pos - 1) : m \in 1..Len(Walk) /\ m # s.pos
    BY <1>3, <1>5
  <2>3. QED
    BY <1>3, <2>1, <2>2, RepoAssumption DEF IsInjective
<1> HIDE DEF all, s, f
<1>13. \A i \in 1..Len(all) : \/ i \in 1..Len(s.read)
                              \/ \E m \in 1..k : i = Len(s.read) + m
  <2> SUFFICES ASSUME NEW i \in 1..Len(all), i \notin 1..Len(s.read)
               PROVE  \E m \in 1..k : i = Len(s.read) + m
    OBVIOUS
  <2>1. i - Len(s.read) \in 1..k /\ i = Len(s.read) + (i - Len(s.read))
    BY <1>2, <1>8, <1>10
  <2>2. QED
    BY <2>1
<1>14. Once(all)
  <2> SUFFICES ASSUME NEW i \in 1..Len(all), NEW j \in 1..Len(all), all[i] = all[j] PROVE i = j
    BY DEF Once
  <2>1. CASE i \in 1..Len(s.read) /\ j \in 1..Len(s.read)
    BY <1>1, <1>10, <2>1 DEF Exact, Once
  <2>2. ASSUME NEW x \in 1..Len(s.read), NEW m \in 1..k, all[x] = all[Len(s.read) + m] PROVE FALSE
    <3>1. all[Len(s.read) + m] = more[m] /\ more[m][1] = f
      BY <1>8, <1>10
    <3>2. PICK n \in 1..(s.pos - 1) : s.read[x][1] = Walk[n]
      BY <1>11
    <3>3. all[x] = s.read[x]
      BY <1>10
    <3>4. QED
      BY <1>12, <2>2, <3>1, <3>2, <3>3
  <2>3. ASSUME NEW m \in 1..k, NEW n \in 1..k, i = Len(s.read) + m, j = Len(s.read) + n
        PROVE  i = j
    <3>1. h[m] = h[n]
      BY <1>8, <1>10, <2>3
    <3>2. m \in 1..Len(h) /\ n \in 1..Len(h)
      BY <1>3, <1>6
    <3>3. QED
      BY <1>6, <2>3, <3>1, <3>2 DEF Once
  <2>4. QED
    BY <1>13, <2>1, <2>2, <2>3
<1>15. \A i \in 1..Len(all) : \E m \in 1..s.pos : all[i][1] = Walk[m]
  <2> SUFFICES ASSUME NEW i \in 1..Len(all) PROVE \E m \in 1..s.pos : all[i][1] = Walk[m]
    OBVIOUS
  <2>1. CASE i \in 1..Len(s.read)
    <3>1. PICK m \in 1..(s.pos - 1) : s.read[i][1] = Walk[m]
      BY <1>11, <2>1
    <3>2. m \in 1..s.pos
      BY <1>3, <1>5
    <3>3. QED
      BY <1>10, <2>1, <3>1, <3>2
  <2>2. ASSUME NEW m \in 1..k, i = Len(s.read) + m
        PROVE  \E n \in 1..s.pos : all[i][1] = Walk[n]
    <3>1. all[i][1] = Walk[s.pos]
      BY <1>8, <1>10, <2>2 DEF f
    <3>2. s.pos \in 1..s.pos
      BY <1>2, <1>3, <1>5
    <3>3. QED
      BY <3>1, <3>2
  <2>3. QED
    BY <1>13, <2>1, <2>2
<1>16. t.found = SubSeq(t.read, 1, Fewer(Len(t.read), t.max))
  <2> DEFINE q == s.read
             max == s.max
  <2>1. q \in Seq(Match) /\ max \in Nat /\ Len(q) < max /\ h \in Seq(Match) /\ k \in 0..Len(h)
    BY <1>2, <1>3, <1>4, <1>6
  <2>2. t.found = q \o SubSeq(h, 1, IF k < max - Len(q) THEN k ELSE max - Len(q))
    BY <1>4, <1>9
  <2>3. t.read = q \o SubSeq(h, 1, k) /\ t.max = max
    BY <1>9 DEF all, more
  <2> HIDE DEF q, max
  <2> DEFINE few == IF k < max - Len(q) THEN k ELSE max - Len(q)
             more1 == q \o SubSeq(h, 1, k)
  <2>4. q \o SubSeq(h, 1, few) = SubSeq(more1, 1, Fewer(Len(more1), max))
    BY <2>1, ReadOn
  <2>5. t.found = q \o SubSeq(h, 1, few) /\ t.read = more1
    BY <2>2, <2>3
  <2> HIDE DEF few, more1
  <2>6. QED
    BY <2>3, <2>4, <2>5
<1>17. Exact(t)
  <2>1. t.pos \in 1..(Len(Walk) + 1) /\ t.pos - 1 = s.pos
    BY <1>2, <1>3, <1>5, <1>9
  <2>2. QED
    BY <1>2, <1>9, <1>14, <1>15, <1>16, <2>1 DEF Exact
<1>18. QED
  BY <1>7, <1>9, <1>17, OneScan

LEMMA FileChanges ==
  ASSUME ScanInv, NEW f \in Files, NEW v \in Versions \cup {Gone}, EditFile(f, v)
  PROVE  ScanInv'
  BY DEF ScanInv, EditFile, Exact, Once

(* What the invariant says of the tools' results.                          *)
LEMMA ScanIsTyped == ScanInv => RepoType
  BY DEF ScanInv, ScanRec, RepoType

LEMMA ScanIsExact == ScanInv => WalkIsExact
<1> SUFFICES ASSUME ScanInv, NEW c \in Callers
             PROVE  LET s == scan[c]
                    IN  /\ s.found = SubSeq(s.read, 1, IF Len(s.read) < s.max THEN Len(s.read) ELSE s.max)
                        /\ \A i, j \in 1..Len(s.found) : s.found[i] = s.found[j] => i = j
                        /\ s.tool # "none" /\ ScanDone(c) /\ Len(s.found) < s.max
                             => s.pos = Len(Walk) + 1
  BY DEF WalkIsExact
<1> DEFINE s == scan[c]
           n == Fewer(Len(s.read), s.max)
<1>1. s \in ScanRec /\ Exact(s)
  BY DEF ScanInv
<1>2. /\ s.pos \in Nat /\ s.max \in Nat \ {0} /\ s.read \in Seq(Match) /\ s.found \in Seq(Match)
      /\ Len(s.read) \in Nat /\ Len(s.found) \in Nat /\ Len(Walk) \in Nat
  BY <1>1, ScanTyped
<1>3. ScanDone(c) => s.pos > Len(Walk) \/ Len(s.found) >= s.max
  BY DEF ScanDone
<1>4. /\ s.found = SubSeq(s.read, 1, n) /\ Once(s.read) /\ s.pos \in 1..(Len(Walk) + 1)
  BY <1>1 DEF Exact
<1> HIDE DEF s
<1>5. n \in 0..Len(s.read)
  BY <1>2 DEF Fewer
<1> HIDE DEF n
<1>6. Len(s.found) = n /\ \A i \in 1..n : s.found[i] = s.read[i] /\ i \in 1..Len(s.read)
  BY <1>2, <1>4, <1>5
<1>7. \A i, j \in 1..Len(s.found) : s.found[i] = s.found[j] => i = j
  BY <1>4, <1>6 DEF Once
<1>8. ScanDone(c) /\ Len(s.found) < s.max => s.pos = Len(Walk) + 1
  BY <1>2, <1>3, <1>4
<1>9. QED
  BY <1>4, <1>7, <1>8 DEF s, n, Fewer
=============================================================================
