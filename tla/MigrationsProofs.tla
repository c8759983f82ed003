-------------------------- MODULE MigrationsProofs --------------------------
(***************************************************************************)
(* Proofs about what changes the databases of an instance (Migrations):    *)
(* for any schemas, databases and directories, any number of commands and  *)
(* edits, and whatever statement fails.                                    *)
(***************************************************************************)
EXTENDS Migrations, FiniteSetTheorems, SequenceTheorems, WellFoundedInduction, TLAPS

-----------------------------------------------------------------------------
(* Paths, and what a recursion defines *)

Migration == [to : Schemas, dev : BOOLEAN]
Revisions == Seq(Migration)
Whats == {"backup", "backupUnlessDone", "before", "after", "begin", "commit", "apply", "rewrite",
          "commitRewrite", "diff", "write", "oldFixups", "oldRevisions", "writeFixup",
          "writeSquashed", "removeOld", "copy"}
Statement == [do : Whats, id : Revisions]
\* what a path of fixups consists of
BodyStatement == [do : {"apply", "rewrite", "commitRewrite"}, id : Revisions]
Elements == [id : Revisions, to : Revisions]
Moving == {"apply", "rewrite"}

\* What s opens it closes; every rewrite it commits; s leads the database to goal; s leaves it alone
Has(s, what) == \E i \in 1..Len(s) : s[i].do = what
Paired(s, open, close) == \A j \in 1..Len(s) : s[j].do = open =>
                             \E i \in 1..Len(s) : i > j /\ s[i].do = close
Balanced(s) == Paired(s, "rewrite", "commitRewrite")
Still(s) == \A j \in 1..Len(s) : s[j].do \notin Moving
LandsAt(s, goal, i) == /\ s[i].do = "apply" /\ s[i].id = goal
                       /\ \A j \in 1..Len(s) : j > i => s[j].do \notin Moving
Lands(s, goal) == \E i \in 1..Len(s) : LandsAt(s, goal, i)
Bodies(goal) == {s \in Seq(BodyStatement) : Balanced(s) /\ (Lands(s, goal) \/ Still(s))}

\* f is defined by recursion over an interval of the naturals: such a function exists.
Closes(S, G) == \A k \in Nat : \A x \in S : G[<<k, x>>] \in S
Computes(f, S, a, G, n) ==
    /\ f \in [0..n -> S]
    /\ \A k \in 0..n : f[k] = IF k = 0 THEN a ELSE G[<<k, f[k - 1]>>]
LEMMA RecursionExists ==
    ASSUME NEW S, NEW a \in S, NEW G, Closes(S, G), NEW n \in Nat
    PROVE  \E f : Computes(f, S, a, G, n)
<1> DEFINE Fits(f, m) == \A k \in 0..m : f[k] = IF k = 0 THEN a ELSE G[<<k, f[k - 1]>>]
           Bad == {m \in Nat : ~\E f \in [0..m -> S] : Fits(f, m)}
<1> SUFFICES ASSUME Bad # {} PROVE FALSE
  BY DEF Computes
<1>1. PICK m \in Bad : \A l \in Bad : ~(<<l, m>> \in OpToRel(<, Nat))
  <2>1. Bad \subseteq Nat
    OBVIOUS
  <2> HIDE DEF Bad
  <2> QED BY <2>1, WFMin, NatLessThanWellFounded
<1>2. m \in Nat /\ \A l \in Bad : ~(l < m)
  BY <1>1 DEF OpToRel
<1>3. CASE m = 0
  <2>1. PICK f : f = [k \in 0..0 |-> a]
    OBVIOUS
  <2>2. f \in [0..m -> S] /\ Fits(f, m)
    BY <1>3, <2>1
  <2> QED BY <1>1, <2>2
<1>4. CASE m # 0
  <2>1. m - 1 \in Nat /\ m - 1 \notin Bad
    <3> HIDE DEF Bad
    <3>1. m - 1 \in Nat /\ m - 1 < m
      BY <1>2, <1>4
    <3> QED BY <1>2, <3>1
  <2>2. PICK f \in [0..(m - 1) -> S] : Fits(f, m - 1)
    BY <2>1
  <2>3. PICK g : g = [k \in 0..m |-> IF k = m THEN G[<<m, f[m - 1]>>] ELSE f[k]]
    OBVIOUS
  <2>4. g \in [0..m -> S]
    <3>1. f[m - 1] \in S /\ G[<<m, f[m - 1]>>] \in S
      BY <1>2, <2>1 DEF Closes
    <3>2. ASSUME NEW k \in 0..m, k # m PROVE f[k] \in S
      BY <1>2, <3>2
    <3> QED BY <2>3, <3>1, <3>2
  <2>5. ASSUME NEW k \in 0..m
        PROVE  g[k] = IF k = 0 THEN a ELSE G[<<k, g[k - 1]>>]
    <3>1. CASE k = m
      <4>1. k # 0 /\ k - 1 \in 0..m /\ k - 1 # m
        BY <1>2, <1>4, <3>1
      <4>2. g[k - 1] = f[k - 1] /\ g[k] = G[<<m, f[m - 1]>>]
        BY <2>3, <3>1, <4>1
      <4> QED BY <3>1, <4>1, <4>2
    <3>2. CASE k # m
      <4>1. k \in 0..(m - 1) /\ (k # 0 => k - 1 \in 0..m /\ k - 1 # m)
        BY <1>2, <3>2
      <4>2. g[k] = f[k] /\ (k # 0 => g[k - 1] = f[k - 1])
        BY <2>3, <3>2, <4>1
      <4>3. f[k] = IF k = 0 THEN a ELSE G[<<k, f[k - 1]>>]
        BY <2>2, <4>1
      <4> QED BY <4>2, <4>3
    <3> QED BY <3>1, <3>2
  <2> QED BY <1>1, <2>4, <2>5
<1> QED BY <1>3, <1>4

\* FlattenSeq ends with the last of the sequences it joins.
LEMMA FlattenIs ==
    ASSUME NEW B, NEW Good \in SUBSET Seq(B), NEW s \in Seq(Good), s # <<>>, <<>> \in Good,
           \A x, y \in Good : x \o y \in Good
    PROVE  \E pre \in Good : FlattenSeq(s) = pre \o s[Len(s)]
<1> DEFINE N == Len(s)
<1>0. N \in Nat \ {0} /\ \A i \in 1..N : s[i] \in Good
  OBVIOUS
<1> DEFINE Rec(f) == f = [i \in 1..N |-> IF i = 1 THEN s[i] ELSE f[i - 1] \o s[i]]
<1>1. N \in Nat /\ N # 0 /\ \A i \in 1..N : s[i] \in Good
  BY <1>0
<1> HIDE DEF N
<1>2. PICK G : G = [x \in Nat \X Good |->
                      IF x[1] + 1 \in 1..N THEN x[2] \o s[x[1] + 1] ELSE <<>>]
  OBVIOUS
<1>3. G \in [Nat \X Good -> Good]
  BY <1>1, <1>2
<1>4. s[1] \in Good
  BY <1>1
<1>5. PICK h \in [0..(N - 1) -> Good] :
          \A k \in 0..(N - 1) : h[k] = IF k = 0 THEN s[1] ELSE G[<<k, h[k - 1]>>]
  <2>1. N - 1 \in Nat
    BY <1>1
  <2>2. PICK n \in Nat : n = N - 1
    BY <2>1
  <2>3. PICK a \in Good : a = s[1]
    BY <1>4
  <2>5. Closes(Good, G)
    BY <1>3 DEF Closes
  <2>4. \E h : Computes(h, Good, a, G, n)
    BY <2>5, RecursionExists
  <2> QED BY <2>2, <2>3, <2>4 DEF Computes
<1>6. PICK g : g = [i \in 1..N |-> h[i - 1]]
  OBVIOUS
<1>7. ASSUME NEW i \in 1..N
      PROVE  g[i] = IF i = 1 THEN s[i] ELSE g[i - 1] \o s[i]
  <2>1. i - 1 \in 0..(N - 1)
    BY <1>1
  <2>2. CASE i = 1
    <3>1. i - 1 = 0
      BY <2>2
    <3> QED BY <1>5, <1>6, <2>1, <2>2, <3>1
  <2>3. CASE i # 1
    <3>1. i - 1 - 1 \in 0..(N - 1) /\ i - 1 \in 1..N /\ i - 1 \in Nat /\ i - 1 # 0
      BY <1>1, <2>3
    <3>2. h[i - 1 - 1] \in Good
      BY <3>1
    <3>3. h[i - 1] = G[<<i - 1, h[i - 1 - 1]>>]
      BY <1>5, <2>1, <3>1
    <3>4. i - 1 + 1 = i
      BY <1>1
    <3>5. G[<<i - 1, h[i - 1 - 1]>>] = h[i - 1 - 1] \o s[i]
      BY <1>2, <3>1, <3>2, <3>4
    <3> QED BY <1>6, <2>3, <3>1, <3>3, <3>5
  <2> QED BY <2>2, <2>3
<1>8. Rec(g)
  BY <1>6, <1>7
<1>9. PICK f : f = CHOOSE x : Rec(x)
  OBVIOUS
<1>10. Rec(f)
  <2> HIDE DEF Rec
  <2> QED BY <1>8, <1>9
<1>11. FlattenSeq(s) = f[N]
  BY <1>1, <1>9 DEF FlattenSeq, N
<1>12. \A i \in 1..N : f[i] = IF i = 1 THEN s[i] ELSE f[i - 1] \o s[i]
  BY <1>10
<1>13. \A i \in 1..N : f[i] \in Good
  <2> DEFINE Bad == {i \in 1..N : f[i] \notin Good}
  <2> SUFFICES ASSUME Bad # {} PROVE FALSE
    OBVIOUS
  <2>1. Bad \subseteq Nat
    BY <1>1
  <2>2. PICK i \in Bad : \A l \in Bad : ~(<<l, i>> \in OpToRel(<, Nat))
    <3> HIDE DEF Bad
    <3> QED BY <2>1, WFMin, NatLessThanWellFounded
  <2>3. i \in Nat /\ \A l \in Bad : ~(l < i)
    <3> HIDE DEF Bad
    <3> QED BY <2>1, <2>2 DEF OpToRel
  <2>4. i # 1
    BY <1>1, <1>12, <2>2
  <2>7. i \in 1..N
    BY <2>2
  <2>5. i - 1 \in 1..N /\ i - 1 < i
    BY <1>1, <2>7, <2>4
  <2>6. f[i - 1] \in Good
    BY <2>3, <2>5
  <2> QED BY <1>1, <1>12, <2>2, <2>4, <2>6
<1>14. CASE N = 1
  <2>1. <<>> \o s[1] = s[1]
    BY <1>4
  <2>2. 1 \in 1..N /\ f[N] = s[1]
    BY <1>12, <1>14
  <2>3. FlattenSeq(s) = <<>> \o s[Len(s)]
    BY <1>11, <1>14, <2>1, <2>2 DEF N
  <2> QED BY <2>3
<1>15. CASE N # 1
  <2>1. N \in 1..N /\ N - 1 \in 1..N
    BY <1>1, <1>15
  <2>2. f[N] = f[N - 1] \o s[N] /\ f[N - 1] \in Good
    BY <1>12, <1>13, <1>15, <2>1
  <2> QED BY <1>11, <2>2 DEF N
<1> QED BY <1>14, <1>15 DEF N

\* What is in the directory
DirectoryTyped ==
    /\ files \subseteq Revisions \ {<<>>} /\ IsFiniteSet(files)
    /\ fixups \subseteq [id : Revisions, target : Revisions] /\ IsFiniteSet(fixups)

LEMMA NoIdIsNone == NoId \notin Revisions
<1> SUFFICES ASSUME NoId \in Revisions PROVE FALSE
  OBVIOUS
<1>1. NoId[1] \in Migration /\ NoId[1].to = "none"
  BY DEF NoId, By, Revisions, Migration
<1> QED BY <1>1, MigrationsAssumption DEF Migration

LEMMA PrefixIs ==
    ASSUME NEW r \in Revisions, NEW n \in 0..Len(r)
    PROVE  /\ SubSeq(r, 1, n) \in Revisions /\ Len(SubSeq(r, 1, n)) = n
           /\ \A i \in 1..n : SubSeq(r, 1, n)[i] = r[i]
<1>3. Len(r) \in Nat /\ \A i \in 1..Len(r) : r[i] \in Migration
  BY DEF Revisions
<1>1. Len(r) \in Nat /\ n \in Int /\ \A i \in 1..n : r[i] \in Migration
  BY <1>3
<1>2. /\ SubSeq(r, 1, n) \in Seq(Migration)
      /\ Len(SubSeq(r, 1, n)) = IF 1 <= n THEN n - 1 + 1 ELSE 0
      /\ \A i \in 1..(n - 1 + 1) : SubSeq(r, 1, n)[i] = r[1 + i - 1]
  BY <1>1, SubSeqProperties
<1> QED BY <1>1, <1>2 DEF Revisions

LEMMA WholeIs == ASSUME NEW r \in Revisions PROVE SubSeq(r, 1, Len(r)) = r
<1>1. Len(r) \in 0..Len(r) /\ r \in Seq(Migration)
  BY DEF Revisions
<1>2. /\ SubSeq(r, 1, Len(r)) \in Seq(Migration)
      /\ Len(SubSeq(r, 1, Len(r))) = Len(r) /\ \A i \in 1..Len(r) : SubSeq(r, 1, Len(r))[i] = r[i]
  BY <1>1, PrefixIs DEF Revisions
<1> QED BY <1>1, <1>2, SeqEqual

LEMMA FrontIn == ASSUME NEW r \in Revisions PROVE Front(r) \in Revisions
<1>1. Len(r) \in Nat
  BY DEF Revisions
<1>2. CASE Len(r) > 0
  <2>1. Len(r) - 1 \in 0..Len(r)
    BY <1>1, <1>2
  <2> QED BY <2>1, PrefixIs DEF Front
<1>3. CASE Len(r) = 0
  <2>1. \A i \in 1..(0 - 1) : r[i] \in Migration
    OBVIOUS
  <2>2. SubSeq(r, 1, 0 - 1) \in Seq(Migration)
    BY <2>1, SubSeqProperties
  <2> QED BY <1>3, <2>2 DEF Front, Revisions
<1> QED BY <1>1, <1>2, <1>3

\* The least of a set of naturals
LEMMA MinIn == ASSUME NEW S \in SUBSET Nat, S # {} PROVE Min(S) \in S
<1>1. PICK n \in S : \A m \in S : ~(<<m, n>> \in OpToRel(<, Nat))
  BY WFMin, NatLessThanWellFounded
<1>2. ASSUME NEW m \in S PROVE n <= m
  <2>1. m \in Nat /\ n \in Nat /\ ~(m < n)
    BY <1>1 DEF OpToRel
  <2> QED BY <2>1
<1> QED BY <1>2 DEF Min

LEMMA EdgesIs == ASSUME DirectoryTyped PROVE Edges \subseteq Elements /\ IsFiniteSet(Edges)
<1> DEFINE A == {[id |-> f.id, to |-> f.target] : f \in fixups}
           B == {[id |-> f, to |-> f] : f \in files}
<1>1. IsFiniteSet(A)
  <2>1. PICK h : h = [f \in fixups |-> [id |-> f.id, to |-> f.target]]
    OBVIOUS
  <2>2. h \in Surjection(fixups, A)
    BY <2>1 DEF Surjection
  <2> QED BY <2>2, FS_Surjection DEF DirectoryTyped
<1>2. IsFiniteSet(B)
  <2>1. PICK h : h = [f \in files |-> [id |-> f, to |-> f]]
    OBVIOUS
  <2>2. h \in Surjection(files, B)
    BY <2>1 DEF Surjection
  <2> QED BY <2>2, FS_Surjection DEF DirectoryTyped
<1>3. A \subseteq Elements /\ B \subseteq Elements
  BY DEF DirectoryTyped, Elements
<1> HIDE DEF A, B
<1>4. IsFiniteSet(A \cup B)
  BY <1>1, <1>2, FS_Union
<1> QED BY <1>3, <1>4 DEF Edges, A, B

LEMMA ParentsIn ==
    ASSUME DirectoryTyped, NEW n PROVE ParentsOf(n) \subseteq Revisions
BY EdgesIs, FrontIn DEF ParentsOf, Elements

LEMMA LevelsIn ==
    ASSUME DirectoryTyped, NEW from, NEW target \in Revisions
    PROVE  Levels(from, target) \subseteq Nat
<1> DEFINE N == Cardinality(Edges)
           Rec(l) == l = [k \in 0..N |-> IF k = 0 THEN {target}
                                         ELSE UNION {ParentsOf(n) : n \in l[k - 1]}]
<1>1. N \in Nat
  BY EdgesIs, FS_CardinalityType
<1> HIDE DEF N
<1>2. PICK G : G = [x \in Nat \X SUBSET Revisions |-> UNION {ParentsOf(n) : n \in x[2]}]
  OBVIOUS
<1>3. Closes(SUBSET Revisions, G)
  BY <1>2, ParentsIn DEF Closes
<1>4. PICK l : Computes(l, SUBSET Revisions, {target}, G, N)
  BY <1>1, <1>3, RecursionExists
<1>5. l = [k \in 0..N |-> l[k]] /\ \A k \in 0..N : l[k] \in SUBSET Revisions
  BY <1>4 DEF Computes
<1>6. ASSUME NEW k \in 0..N
      PROVE  l[k] = IF k = 0 THEN {target} ELSE UNION {ParentsOf(n) : n \in l[k - 1]}
  <2>1. CASE k = 0
    BY <1>4, <2>1 DEF Computes
  <2>2. CASE k # 0
    <3>1. k \in Nat /\ k - 1 \in 0..N
      BY <1>1, <2>2
    <3>2. l[k] = G[<<k, l[k - 1]>>] /\ l[k - 1] \in SUBSET Revisions
      BY <1>4, <1>5, <2>2, <3>1 DEF Computes
    <3> QED BY <1>2, <2>2, <3>1, <3>2
  <2> QED BY <2>1, <2>2
<1>7. Rec(l)
  BY <1>5, <1>6
<1>8. PICK m : m = CHOOSE x : Rec(x)
  OBVIOUS
<1>9. Rec(m)
  <2> HIDE DEF Rec
  <2> QED BY <1>7, <1>8
<1>10. Layers(target) = m
  BY <1>8 DEF Layers, N
<1>11. DOMAIN m = 0..N
  BY <1>9
<1> QED BY <1>1, <1>10, <1>11 DEF Levels

LEMMA NextIn ==
    ASSUME DirectoryTyped, NEW cur, NEW target, NEW level, NEW early, NEW idx
    PROVE  NextElements(cur, target, level, early, idx) \subseteq Elements
<1> DEFINE out == {e \in Edges : Front(e.id) = cur}
<1>1. \A e \in Edges : Element(e, TRUE) \in Elements /\ Element(e, FALSE) \in Elements
  BY EdgesIs DEF Element, Elements
<1>2. out \subseteq Edges
  OBVIOUS
<1> HIDE DEF out
<1>3. {Element(e, TRUE) : e \in {x \in out : Marked(x.id, target, level, early, idx)}} \subseteq Elements
  BY <1>1, <1>2
<1>4. {Element(e, FALSE) : e \in {x \in out : /\ x.to # x.id
                                   /\ ~Marked(x.id, target, level, early, idx)
                                   /\ Marked(x.to, target, level, early, idx)}} \subseteq Elements
  BY <1>1, <1>2
<1> QED BY <1>3, <1>4 DEF NextElements, out

LEMMA BacktracksIn ==
    ASSUME DirectoryTyped, NEW from, NEW target, NEW level \in Nat, NEW early
    PROVE  Backtracks(from, target, level, early) \subseteq Seq(Elements)
<1> DEFINE Paths == SUBSET Seq(Elements)
           On(p, i) ==
              LET cur == IF p = <<>> THEN from ELSE Last(p).to
                  next == NextElements(cur, target, level, early, level - i)
              IN IF next = {} \/ Len(p) < i - 1 THEN {p} ELSE {Append(p, e) : e \in next}
           Rec(b) == b = [i \in 0..level |-> IF i = 0 THEN {<<>>}
                                             ELSE UNION {On(p, i) : p \in b[i - 1]}]
<1>1. ASSUME NEW p \in Seq(Elements), NEW i
      PROVE  On(p, i) \subseteq Seq(Elements)
  <2> DEFINE next(cur) == NextElements(cur, target, level, early, level - i)
  <2>1. \A cur : next(cur) \subseteq Elements
    BY NextIn
  <2>2. \A cur : {Append(p, e) : e \in next(cur)} \subseteq Seq(Elements)
    BY <2>1, AppendProperties
  <2> HIDE DEF next
  <2> QED BY <2>2 DEF next
<1>2. PICK G : G = [x \in Nat \X Paths |-> UNION {On(p, x[1]) : p \in x[2]}]
  OBVIOUS
<1> HIDE DEF On
<1>3. Closes(Paths, G)
  BY <1>1, <1>2 DEF Closes
<1>4. PICK b : Computes(b, Paths, {<<>>}, G, level)
  <2>1. {<<>>} \in Paths
    OBVIOUS
  <2> HIDE DEF Paths
  <2> QED BY <1>3, <2>1, RecursionExists
<1>5. b = [i \in 0..level |-> b[i]] /\ \A i \in 0..level : b[i] \in Paths
  BY <1>4 DEF Computes
<1>6. ASSUME NEW i \in 0..level
      PROVE  b[i] = IF i = 0 THEN {<<>>} ELSE UNION {On(p, i) : p \in b[i - 1]}
  <2>1. CASE i = 0
    BY <1>4, <2>1 DEF Computes
  <2>2. CASE i # 0
    <3>1. i \in Nat /\ i - 1 \in 0..level
      BY <2>2
    <3>2. b[i] = G[<<i, b[i - 1]>>] /\ b[i - 1] \in Paths
      BY <1>4, <1>5, <2>2, <3>1 DEF Computes
    <3> QED BY <1>2, <2>2, <3>1, <3>2
  <2> QED BY <2>1, <2>2
<1>7. Rec(b)
  BY <1>5, <1>6
<1>8. PICK c : c = CHOOSE x : Rec(x)
  OBVIOUS
<1>9. Rec(c)
  <2> HIDE DEF Rec
  <2> QED BY <1>7, <1>8
<1>10. Backtracks(from, target, level, early) = c[level]
  BY <1>8 DEF Backtracks, On
<1>11. \A i \in 0..level : c[i] = IF i = 0 THEN {<<>>} ELSE UNION {On(p, i) : p \in c[i - 1]}
  BY <1>9
<1>12. \A i \in 0..level : c[i] \in Paths
  <2> DEFINE Bad == {i \in 0..level : c[i] \notin Paths}
  <2> SUFFICES ASSUME Bad # {} PROVE FALSE
    OBVIOUS
  <2>1. Bad \subseteq Nat
    OBVIOUS
  <2>2. PICK i \in Bad : \A l \in Bad : ~(<<l, i>> \in OpToRel(<, Nat))
    <3> HIDE DEF Bad
    <3> QED BY <2>1, WFMin, NatLessThanWellFounded
  <2>3. i \in Nat /\ \A l \in Bad : ~(l < i)
    <3> HIDE DEF Bad
    <3> QED BY <2>1, <2>2 DEF OpToRel
  <2>4. i \in 0..level /\ c[i] \notin Paths
    BY <2>2
  <2>5. i # 0
    <3>1. {<<>>} \in Paths
      OBVIOUS
    <3> HIDE DEF Paths
    <3> QED BY <1>11, <2>4, <3>1
  <2>6. i - 1 \in 0..level /\ i - 1 < i
    BY <2>4, <2>5
  <2>7. c[i - 1] \in Paths
    BY <2>3, <2>6
  <2>8. c[i] = UNION {On(p, i) : p \in c[i - 1]}
    BY <1>11, <2>4, <2>5
  <2> QED BY <1>1, <2>4, <2>7, <2>8
<1> QED BY <1>10, <1>12

LEMMA FindPathIn ==
    ASSUME DirectoryTyped, NEW from, NEW target \in Revisions
    PROVE  FindPath(from, target) \subseteq Seq(Elements)
<1>1. CASE Levels(from, target) = {}
  BY <1>1 DEF FindPath
<1>2. CASE Levels(from, target) # {}
  <2>1. Min(Levels(from, target)) \in Nat
    BY <1>2, LevelsIn, MinIn
  <2>2. PICK level \in Nat : level = Min(Levels(from, target))
    BY <2>1
  <2>3. FindPath(from, target) = UNION {Backtracks(from, target, level, early) :
                      early \in SUBSET (Layers(target)[level] \ {from})}
    BY <1>2, <2>2 DEF FindPath
  <2> QED BY <2>3, BacktracksIn
<1> QED BY <1>1, <1>2

-----------------------------------------------------------------------------
(* Sequences of statements *)

LEMMA Joined ==
    ASSUME NEW B, NEW a \in Seq(B), NEW b \in Seq(B)
    PROVE  /\ a \o b \in Seq(B) /\ Len(a) \in Nat /\ Len(b) \in Nat
           /\ Len(a \o b) = Len(a) + Len(b)
           /\ \A i \in 1..Len(a) : i \in 1..Len(a \o b) /\ (a \o b)[i] = a[i]
           /\ \A i \in 1..Len(b) : Len(a) + i \in 1..Len(a \o b) /\ (a \o b)[Len(a) + i] = b[i]
           /\ \A i \in 1..Len(a \o b) : \/ i \in 1..Len(a) /\ (a \o b)[i] = a[i]
                                        \/ \E j \in 1..Len(b) : i = Len(a) + j /\ (a \o b)[i] = b[j]
<1> DEFINE c == a \o b
           m == Len(a)
           n == Len(b)
<1>1. /\ c \in Seq(B) /\ Len(c) = m + n /\ m \in Nat /\ n \in Nat
      /\ \A i \in 1..(m + n) : c[i] = IF i <= m THEN a[i] ELSE b[i - m]
  BY ConcatProperties
<1> HIDE DEF c, m, n
<1>2. \A i \in 1..m : i \in 1..Len(c) /\ c[i] = a[i]
  BY <1>1
<1>3. ASSUME NEW i \in 1..n PROVE m + i \in 1..Len(c) /\ c[m + i] = b[i]
  <2>1. m + i \in 1..(m + n) /\ ~(m + i <= m) /\ m + i - m = i
    BY <1>1
  <2> QED BY <1>1, <2>1
<1>4. ASSUME NEW i \in 1..Len(c)
      PROVE  (i \in 1..m /\ c[i] = a[i]) \/ \E j \in 1..n : i = m + j /\ c[i] = b[j]
  <2>1. CASE i <= m
    <3>1. i \in 1..m
      BY <1>1, <2>1
    <3> QED BY <1>2, <3>1
  <2>2. CASE ~(i <= m)
    <3>1. i - m \in 1..n /\ i = m + (i - m)
      BY <1>1, <2>2
    <3>2. c[i] = b[i - m]
      BY <1>1, <2>2
    <3> QED BY <3>1, <3>2
  <2> QED BY <2>1, <2>2
<1> QED BY <1>1, <1>2, <1>3, <1>4 DEF c, m, n

LEMMA JoinSplits ==
    ASSUME NEW B, NEW a \in Seq(B), NEW b \in Seq(B)
    PROVE  \A i \in 1..Len(a \o b) : \/ i \in 1..Len(a) /\ (a \o b)[i] = a[i]
                                     \/ \E j \in 1..Len(b) : i = Len(a) + j /\ (a \o b)[i] = b[j]
BY Joined

LEMMA JoinIn == \A a, b \in Seq(Statement) : a \o b \in Seq(Statement)
OBVIOUS

LEMMA JoinAssociates == \A a, b, c \in Seq(Statement) : (a \o b) \o c = a \o (b \o c)
BY ConcatAssociative

\* A queue of four parts, split after the first, the third or where it was
Regroups(a, b, c, d) == /\ ((a \o b) \o c) \o d = a \o (b \o (c \o d))
                        /\ (a \o (b \o c)) \o d = a \o (b \o (c \o d))
LEMMA JoinRegroups == \A a, b, c, d \in Seq(Statement) : Regroups(a, b, c, d)
<1> SUFFICES ASSUME NEW a \in Seq(Statement), NEW b \in Seq(Statement),
                    NEW c \in Seq(Statement), NEW d \in Seq(Statement)
             PROVE  Regroups(a, b, c, d)
  OBVIOUS
<1>1. (a \o b) \o c = a \o (b \o c) /\ (b \o c) \o d = b \o (c \o d)
  BY JoinAssociates
<1>2. b \o c \in Seq(Statement)
  BY JoinIn
<1>3. PICK m \in Seq(Statement) : m = b \o c
  BY <1>2
<1>4. (a \o m) \o d = a \o (m \o d)
  BY JoinAssociates
<1> QED BY <1>1, <1>3, <1>4 DEF Regroups

EndsIn(s, x) == s \in Seq(Statement) /\ s # <<>> /\ s[Len(s)] = x
LEMMA JoinEnds == \A a, b \in Seq(Statement) : Len(b) = 1 => EndsIn(a \o b, b[1])
<1> SUFFICES ASSUME NEW a \in Seq(Statement), NEW b \in Seq(Statement), Len(b) = 1
             PROVE  EndsIn(a \o b, b[1])
  OBVIOUS
<1>1. a \o b \in Seq(Statement)
  OBVIOUS
<1>2. Len(a \o b) = Len(a) + 1 /\ Len(a) \in Nat
  <2>1. Len(a \o b) = Len(a) + Len(b)
    BY ConcatProperties
  <2> QED BY <2>1
<1>3. (a \o b)[Len(a) + 1] = b[1]
  <2>1. \A i \in 1..(Len(a) + Len(b)) : (a \o b)[i] = IF i <= Len(a) THEN a[i] ELSE b[i - Len(a)]
    BY ConcatProperties
  <2>2. Len(a) \in Nat /\ Len(a) + 1 \in 1..(Len(a) + Len(b)) /\ ~(Len(a) + 1 <= Len(a))
        /\ (Len(a) + 1) - Len(a) = 1
    OBVIOUS
  <2> QED BY <2>1, <2>2
<1>4. PICK q \in Seq(Statement) : q = a \o b
  BY <1>1
<1>5. q # <<>> /\ q[Len(q)] = b[1]
  BY <1>2, <1>3, <1>4
<1> QED BY <1>4, <1>5 DEF EndsIn

LEMMA JoinPaired ==
    ASSUME NEW B, NEW a \in Seq(B), NEW b \in Seq(B), NEW open, NEW close,
           Paired(a, open, close), Paired(b, open, close)
    PROVE  Paired(a \o b, open, close)
<1> SUFFICES ASSUME NEW j \in 1..Len(a \o b), (a \o b)[j].do = open
             PROVE  \E i \in 1..Len(a \o b) : i > j /\ (a \o b)[i].do = close
  BY DEF Paired
<1> DEFINE c == a \o b
<1>1. CASE j \in 1..Len(a) /\ c[j] = a[j]
  <2>1. PICK i \in 1..Len(a) : i > j /\ a[i].do = close
    BY <1>1 DEF Paired
  <2> QED BY <2>1, Joined
<1>2. ASSUME NEW k \in 1..Len(b), j = Len(a) + k, c[j] = b[k]
      PROVE  \E i \in 1..Len(c) : i > j /\ c[i].do = close
  <2>1. PICK i \in 1..Len(b) : i > k /\ b[i].do = close
    BY <1>2 DEF Paired
  <2>2. Len(a) + i \in 1..Len(c) /\ c[Len(a) + i] = b[i] /\ Len(a) \in Nat
    BY Joined
  <2>3. Len(a) + i > j
    BY <1>2, <2>1, <2>2
  <2> QED BY <2>1, <2>2, <2>3
<1>3. (j \in 1..Len(a) /\ c[j] = a[j]) \/ \E k \in 1..Len(b) : j = Len(a) + k /\ c[j] = b[k]
  BY Joined
<1> QED BY <1>1, <1>2, <1>3

\* A sequence that ends with what closes it is closed.
LEMMA EndPaired ==
    ASSUME NEW B, NEW s \in Seq(B), NEW open, NEW close, open # close,
           s # <<>>, s[Len(s)].do = close
    PROVE  Paired(s, open, close)
<1>1. Len(s) \in 1..Len(s) /\ \A j \in 1..Len(s) : j = Len(s) \/ Len(s) > j
  OBVIOUS
<1> QED BY <1>1 DEF Paired

LEMMA JoinBalanced ==
    ASSUME NEW B, NEW a \in Seq(B), NEW b \in Seq(B), Balanced(a), Balanced(b)
    PROVE  Balanced(a \o b)
BY JoinPaired DEF Balanced

LEMMA JoinStill ==
    ASSUME NEW B, NEW a \in Seq(B), NEW b \in Seq(B), Still(b)
    PROVE  /\ Still(a) => Still(a \o b)
           /\ \A goal : Lands(a, goal) => Lands(a \o b, goal)
<1> DEFINE c == a \o b
<1>1. \A i \in 1..Len(c) : (i \in 1..Len(a) /\ c[i] = a[i]) \/ c[i].do \notin Moving
  BY Joined DEF Still
<1>2. \A i \in 1..Len(a) : i \in 1..Len(c) /\ c[i] = a[i]
  BY Joined
<1> HIDE DEF c
<1>3. ASSUME Still(a) PROVE Still(c)
  BY <1>1, <1>3 DEF Still
<1>4. ASSUME NEW goal, Lands(a, goal) PROVE Lands(c, goal)
  <2>1. PICK i \in 1..Len(a) : LandsAt(a, goal, i)
    BY <1>4 DEF Lands
  <2> QED BY <1>1, <1>2, <2>1 DEF Lands, LandsAt
<1> QED BY <1>3, <1>4 DEF c

LEMMA JoinLands ==
    ASSUME NEW B, NEW a \in Seq(B), NEW b \in Seq(B), NEW goal, Lands(b, goal)
    PROVE  Lands(a \o b, goal)
<1> DEFINE c == a \o b
           m == Len(a)
<1>1. PICK i \in 1..Len(b) : LandsAt(b, goal, i)
  BY DEF Lands
<1>2. m + i \in 1..Len(c) /\ c[m + i] = b[i] /\ m \in Nat
  BY Joined
<1>3. \A j \in 1..Len(c) : j \in 1..m \/ \E k \in 1..Len(b) : j = m + k /\ c[j] = b[k]
  BY Joined
<1> HIDE DEF c, m
<1>4. ASSUME NEW j \in 1..Len(c), j > m + i PROVE c[j].do \notin Moving
  <2>1. j \notin 1..m
    BY <1>2, <1>4
  <2>2. PICK k \in 1..Len(b) : j = m + k /\ c[j] = b[k]
    BY <1>3, <2>1
  <2>3. k > i
    BY <1>2, <1>4, <2>2
  <2> QED BY <1>1, <2>2, <2>3 DEF LandsAt
<1> QED BY <1>1, <1>2, <1>4 DEF Lands, LandsAt, c

\* What slice returns leads from an ancestor, which it leaves out, to the revision itself.
LEMMA SliceIs ==
    ASSUME NEW from \in Revisions, NEW to \in Revisions
    PROVE  /\ Slice(from, to) \in Seq(Revisions)
           /\ Len(to) <= Len(from) => Slice(from, to) = <<>>
           /\ Len(to) > Len(from) => /\ Slice(from, to) # <<>>
                                     /\ Slice(from, to)[Len(Slice(from, to))] = to
<1> DEFINE n == Len(to) - Len(from)
           s == Slice(from, to)
<1>1. Len(to) \in Nat /\ Len(from) \in Nat /\ n \in Int
  BY DEF Revisions
<1>2. s = [i \in 1..n |-> SubSeq(to, 1, Len(from) + i)]
  BY DEF Slice
<1>3. \A i \in 1..n : Len(from) + i \in 0..Len(to)
  BY <1>1
<1>4. \A i \in 1..n : s[i] \in Revisions
  BY <1>2, <1>3, PrefixIs
<1> HIDE DEF s
<1>5. CASE n > 0
  <2>1. s \in Seq(Revisions) /\ Len(s) = n
    BY <1>1, <1>2, <1>4, <1>5
  <2>2. n \in 1..n /\ Len(from) + n = Len(to)
    BY <1>1, <1>5
  <2>3. s[n] = SubSeq(to, 1, Len(to))
    <3> HIDE DEF n
    <3> QED BY <1>2, <2>2
  <2>4. s[Len(s)] = to
    BY <2>1, <2>3, WholeIs
  <2>5. s # <<>>
    BY <1>1, <1>5, <2>1
  <2> QED BY <1>1, <1>5, <2>1, <2>4, <2>5 DEF s
<1>6. CASE ~(n > 0)
  <2>1. 1..n = {}
    BY <1>1, <1>6
  <2>2. s = <<>>
    <3> HIDE DEF n
    <3> QED BY <1>2, <2>1
  <2> QED BY <1>1, <1>6, <2>2 DEF s
<1> QED BY <1>5, <1>6

LEMMA EachIs ==
    ASSUME NEW ids \in Seq(Revisions)
    PROVE  /\ Each(ids) \in Seq(BodyStatement) /\ Balanced(Each(ids))
           /\ ids = <<>> => Each(ids) = <<>>
           /\ ids # <<>> => Lands(Each(ids), ids[Len(ids)])
           /\ Len(Each(ids)) = Len(ids) /\ \A i \in 1..Len(ids) : Each(ids)[i].do = "apply"
<1> DEFINE n == Len(ids)
           s == Each(ids)
<1>1. n \in Nat /\ DOMAIN ids = 1..n /\ \A i \in 1..n : ids[i] \in Revisions
  OBVIOUS
<1>2. s = [i \in 1..n |-> [do |-> "apply", id |-> ids[i]]]
  BY <1>1 DEF Each
<1>3. \A i \in 1..n : s[i] \in BodyStatement /\ s[i].do = "apply" /\ s[i].id = ids[i]
  BY <1>1, <1>2 DEF BodyStatement
<1>4. s \in Seq(BodyStatement) /\ Len(s) = n
  <2> HIDE DEF s, n
  <2> QED BY <1>1, <1>2, <1>3
<1>5. ids = <<>> => s = <<>>
  BY <1>4
<1>6. ids # <<>> => n > 0
  BY <1>1
<1> HIDE DEF s, n
<1>7. Balanced(s)
  BY <1>3, <1>4 DEF Balanced, Paired
<1>8. ASSUME n > 0 PROVE Lands(s, ids[n])
  <2>1. n \in 1..n /\ \A j \in 1..n : ~(j > n)
    BY <1>1, <1>8
  <2> QED BY <1>3, <1>4, <2>1 DEF Lands, LandsAt
<1> QED BY <1>3, <1>4, <1>5, <1>6, <1>7, <1>8 DEF s, n

LEMMA DoIs ==
    ASSUME NEW what \in Whats
    PROVE  /\ Do(what) \in Seq(Statement) /\ Len(Do(what)) = 1 /\ Do(what)[1].do = what
           /\ what \in {"rewrite", "commitRewrite"} => Do(what) \in Seq(BodyStatement)
<1>1. <<>> \in Revisions
  BY DEF Revisions
<1> QED BY <1>1 DEF Do, Statement, BodyStatement

\* An element of a path leads to where it goes, and ends the rewrite that it starts.
LEMMA OperationsIs ==
    ASSUME NEW e \in Elements
    PROVE  /\ Operations(e) \in Seq(BodyStatement) /\ Balanced(Operations(e))
           /\ e.to # <<>> => Lands(Operations(e), e.to)
<1>1. e.id \in Revisions /\ e.to \in Revisions /\ <<>> \in Revisions
  BY DEF Elements, Revisions
<1> DEFINE first == Each(<<e.id>>)
           slice == Slice(<<>>, e.to)
           all == Each(slice)
           rw == Do("rewrite")
           end == Do("commitRewrite")
<1>2. <<e.id>> \in Seq(Revisions) /\ Len(<<e.id>>) = 1 /\ <<e.id>>[1] = e.id /\ <<e.id>> # <<>>
  BY <1>1
<1>3. first \in Seq(BodyStatement) /\ Balanced(first) /\ Lands(first, e.id)
  BY <1>2, EachIs
<1>4. slice \in Seq(Revisions) /\ (e.to # <<>> => slice # <<>> /\ slice[Len(slice)] = e.to)
  <2>1. Len(<<>>) = 0 /\ (e.to # <<>> => Len(e.to) > 0)
    BY <1>1 DEF Revisions
  <2> QED BY <1>1, <2>1, SliceIs
<1> HIDE DEF first, slice
<1>5. all \in Seq(BodyStatement) /\ Balanced(all) /\ (e.to # <<>> => Lands(all, e.to))
  BY <1>4, EachIs
<1>6. /\ rw \in Seq(BodyStatement) /\ end \in Seq(BodyStatement) /\ Len(rw) = 1 /\ Len(end) = 1
      /\ rw[1].do = "rewrite" /\ end[1].do = "commitRewrite"
  BY DoIs DEF Whats
<1> HIDE DEF all, rw, end
<1>7. CASE e.to = e.id
  <2>1. Operations(e) = first \o <<>>
    BY <1>7 DEF Operations, first
  <2>2. first \o <<>> = first
    BY <1>3
  <2> QED BY <1>3, <1>7, <2>1, <2>2
<1>8. CASE e.to # e.id
  <2> DEFINE body == rw \o all
             rest == body \o end
  <2>1. Operations(e) = first \o rest
    BY <1>8 DEF Operations, first, rw, all, slice, end
  <2>2. body \in Seq(BodyStatement) /\ rest \in Seq(BodyStatement)
    BY <1>5, <1>6, Joined
  <2>3. Still(end) /\ Balanced(end)
    BY <1>6 DEF Still, Balanced, Paired, Moving
  <2>4. e.to # <<>> => Lands(body, e.to)
    BY <1>5, <1>6, JoinLands
  <2>5. \A goal : Lands(body, goal) => Lands(rest, goal)
    BY <1>6, <2>2, <2>3, JoinStill
  <2>6. e.to # <<>> => Lands(first \o rest, e.to)
    <3> HIDE DEF rest, body
    <3> QED BY <1>3, <2>2, <2>4, <2>5, JoinLands
  <2>7. Balanced(rest)
    <3>1. /\ Len(rest) = Len(body) + 1 /\ Len(body) \in Nat /\ Len(rest) \in 1..Len(rest)
          /\ rest[Len(rest)].do = "commitRewrite"
      <4>1. 1 \in 1..Len(end)
        BY <1>6
      <4> HIDE DEF body
      <4> QED BY <1>6, <2>2, <4>1, Joined
    <3> HIDE DEF rest, body
    <3>2. rest # <<>>
      BY <2>2, <3>1
    <3> QED BY <2>2, <3>1, <3>2, EndPaired DEF Balanced
  <2>8. first \o rest \in Seq(BodyStatement) /\ Balanced(first \o rest)
    <3> HIDE DEF rest, body
    <3> QED BY <1>3, <2>2, <2>7, Joined, JoinBalanced
  <2> QED BY <2>1, <2>6, <2>8
<1> QED BY <1>7, <1>8

\* What may follow a statement of a single transaction; what the statements of s do
Follow(what) ==
    IF what \in {"backup", "before"} THEN {"backup", "before", "begin", "apply", "rewrite",
                                           "commitRewrite", "commit", "after"}
    ELSE IF what \in {"begin", "apply", "rewrite", "commitRewrite"}
    THEN {"apply", "rewrite", "commitRewrite", "commit", "after"} ELSE {"after"}
Ordered(s) == \A i \in 1..Len(s) : /\ s[i].do \in Follow("before")
                                   /\ \A j \in 1..Len(s) : i < j => s[j].do \in Follow(s[i].do)
Kinds(s, kinds) == \A i \in 1..Len(s) : s[i].do \in kinds
\* The backup is the first to touch the database.
Guarded(s) == \A i \in 1..Len(s) : s[i].do \in Moving =>
                 \E j \in 1..Len(s) : j < i /\ s[j].do \in {"backup", "backupUnlessDone"}
DiffOnce(s, i) == \A j, k \in 1..Len(s) :
                     j > i /\ k > i /\ s[j].do = "diff" /\ s[k].do = "diff" => j = k

LEMMA JoinKinds ==
    ASSUME NEW B, NEW a \in Seq(B), NEW b \in Seq(B), NEW kinds, Kinds(a, kinds), Kinds(b, kinds)
    PROVE  Kinds(a \o b, kinds)
<1>1. \A i \in 1..Len(a \o b) : \/ i \in 1..Len(a) /\ (a \o b)[i] = a[i]
                                \/ \E j \in 1..Len(b) : i = Len(a) + j /\ (a \o b)[i] = b[j]
  BY JoinSplits
<1>2. \A i \in 1..Len(a \o b) : \/ i \in 1..Len(a) /\ (a \o b)[i] = a[i]
                                \/ \E j \in 1..Len(b) : (a \o b)[i] = b[j]
  BY <1>1
<1> QED BY <1>2 DEF Kinds

LEMMA JoinHas ==
    ASSUME NEW B, NEW a \in Seq(B), NEW b \in Seq(B), NEW what, Has(a, what) \/ Has(b, what)
    PROVE  Has(a \o b, what)
<1>1. CASE Has(a, what)
  <2>1. PICK i \in 1..Len(a) : a[i].do = what
    BY <1>1 DEF Has
  <2> QED BY <2>1, Joined DEF Has
<1>2. CASE Has(b, what)
  <2>1. PICK i \in 1..Len(b) : b[i].do = what
    BY <1>2 DEF Has
  <2>2. Len(a) + i \in 1..Len(a \o b) /\ (a \o b)[Len(a) + i] = b[i]
    BY Joined
  <2> QED BY <2>1, <2>2 DEF Has
<1> QED BY <1>1, <1>2

LEMMA JoinOrdered ==
    ASSUME NEW B, NEW a \in Seq(B), NEW b \in Seq(B), Ordered(a), Ordered(b),
           \A i \in 1..Len(a) : \A j \in 1..Len(b) : b[j].do \in Follow(a[i].do)
    PROVE  Ordered(a \o b)
<1> DEFINE c == a \o b
           m == Len(a)
<1>1. \A i \in 1..Len(c) : (i \in 1..m /\ c[i] = a[i]) \/ \E j \in 1..Len(b) : i = m + j /\ c[i] = b[j]
  BY Joined
<1>2. m \in Nat
  OBVIOUS
<1> HIDE DEF c, m
<1>3. ASSUME NEW i \in 1..Len(c) PROVE c[i].do \in Follow("before")
  BY <1>1, <1>3 DEF Ordered, m
<1>4. ASSUME NEW i \in 1..Len(c), NEW j \in 1..Len(c), i < j
      PROVE  c[j].do \in Follow(c[i].do)
  <2>1. CASE i \in 1..m /\ c[i] = a[i]
    <3>1. CASE j \in 1..m /\ c[j] = a[j]
      BY <1>4, <2>1, <3>1 DEF Ordered, m
    <3>2. CASE \E k \in 1..Len(b) : j = m + k /\ c[j] = b[k]
      BY <2>1, <3>2 DEF m
    <3> QED BY <1>1, <3>1, <3>2
  <2>2. CASE \E k \in 1..Len(b) : i = m + k /\ c[i] = b[k]
    <3>1. PICK k \in 1..Len(b) : i = m + k /\ c[i] = b[k]
      BY <2>2
    <3>2. j \notin 1..m
      BY <1>2, <1>4, <3>1
    <3>3. PICK l \in 1..Len(b) : j = m + l /\ c[j] = b[l]
      BY <1>1, <3>2
    <3>4. k < l
      BY <1>2, <1>4, <3>1, <3>3
    <3> QED BY <3>1, <3>3, <3>4 DEF Ordered
  <2> QED BY <1>1, <2>1, <2>2
<1> QED BY <1>3, <1>4 DEF Ordered, c

LEMMA UnlessIs ==
    ASSUME NEW skip, NEW what \in Whats
    PROVE  /\ Unless(skip, what) \in Seq(Statement) /\ Kinds(Unless(skip, what), {what})
           /\ Len(Unless(skip, what)) \in {0, 1}
           /\ ~skip => Len(Unless(skip, what)) = 1 /\ Unless(skip, what)[1].do = what
<1>1. /\ Do(what) \in Seq(Statement) /\ Len(Do(what)) = 1 /\ Do(what)[1].do = what
  BY DoIs
<1>2. Kinds(Do(what), {what}) /\ <<>> \in Seq(Statement) /\ Kinds(<<>>, {what})
  BY <1>1 DEF Kinds
<1> QED BY <1>1, <1>2 DEF Unless

\* Both ways to the target: what follows in the directory, and a path of fixups.
LEMMA SlicesLead ==
    ASSUME NEW from \in Revisions, NEW to \in Revisions
    PROVE  /\ Each(Slice(from, to)) \in Bodies(to)
           /\ Slice(from, to) # <<>> => Lands(Each(Slice(from, to)), to)
<1>1. Each(Slice(from, to)) \in Seq(BodyStatement) /\ Balanced(Each(Slice(from, to)))
  BY SliceIs, EachIs
<1>2. CASE Slice(from, to) = <<>>
  <2>1. Each(Slice(from, to)) = <<>>
    BY <1>2, SliceIs, EachIs
  <2>2. Still(<<>>)
    BY DEF Still
  <2> QED BY <1>1, <1>2, <2>1, <2>2 DEF Bodies
<1>3. CASE Slice(from, to) # <<>>
  <2>1. Slice(from, to) \in Seq(Revisions) /\ Slice(from, to)[Len(Slice(from, to))] = to
    <3>1. Len(to) \in Nat /\ Len(from) \in Nat
      BY DEF Revisions
    <3> QED BY <1>3, <3>1, SliceIs
  <2>2. Lands(Each(Slice(from, to)), to)
    BY <1>3, <2>1, EachIs
  <2> QED BY <1>1, <2>2 DEF Bodies
<1> QED BY <1>2, <1>3

LEMMA PathsLead ==
    ASSUME DirectoryTyped, NEW from, NEW target \in Revisions, target # <<>>,
           NEW p \in FindPath(from, target), Whole(p, from, target)
    PROVE  FlattenSeq([i \in DOMAIN p |-> Operations(p[i])]) \in Bodies(target)
<1> DEFINE Good == {s \in Seq(BodyStatement) : Balanced(s)}
           s == [i \in DOMAIN p |-> Operations(p[i])]
           n == Len(p)
<1>1. p \in Seq(Elements) /\ p # <<>> /\ Last(p).to = target
  BY FindPathIn DEF Whole
<1>2. n \in Nat /\ n # 0 /\ DOMAIN p = 1..n /\ \A i \in 1..n : p[i] \in Elements
  BY <1>1
<1>3. \A i \in 1..n : Operations(p[i]) \in Good
  BY <1>2, OperationsIs
<1>4. s \in Seq(Good) /\ Len(s) = n /\ s # <<>> /\ s[n] = Operations(p[n])
  <2>1. s = [i \in 1..n |-> Operations(p[i])]
    BY <1>2
  <2> HIDE DEF Good, s, n
  <2>2. s \in Seq(Good) /\ Len(s) = n /\ s # <<>>
    BY <1>2, <1>3, <2>1
  <2>3. n \in 1..n
    BY <1>2
  <2> QED BY <2>1, <2>2, <2>3
<1>5. <<>> \in Good /\ \A x, y \in Good : x \o y \in Good
  <2>1. <<>> \in Good
    BY DEF Balanced, Paired
  <2>2. ASSUME NEW x \in Good, NEW y \in Good PROVE x \o y \in Good
    BY Joined, JoinBalanced
  <2> QED BY <2>1, <2>2
<1>6. Good \in SUBSET Seq(BodyStatement)
  OBVIOUS
<1>7. PICK pre \in Good : FlattenSeq(s) = pre \o s[Len(s)]
  <2> HIDE DEF Good, s, n
  <2> QED BY <1>4, <1>5, <1>6, FlattenIs
<1>8. p[n] \in Elements /\ p[n].to = target
  <2>1. n \in 1..n
    BY <1>2
  <2> QED BY <1>1, <1>2, <2>1 DEF Last
<1> DEFINE last == Operations(p[n])
<1>9. last \in Seq(BodyStatement) /\ Balanced(last) /\ Lands(last, target)
  BY <1>8, OperationsIs
<1>10. FlattenSeq(s) = pre \o last /\ pre \in Seq(BodyStatement) /\ Balanced(pre)
  <2> HIDE DEF s, n
  <2> QED BY <1>4, <1>7
<1> HIDE DEF last, s
<1>11. pre \o last \in Bodies(target)
  BY <1>9, <1>10, Joined, JoinBalanced, JoinLands DEF Bodies
<1> QED BY <1>10, <1>11 DEF s

(***************************************************************************)
(* What is true of the command c on a database at x, whose session has a   *)
(* rewrite to abort to r, or r is NoId, and a transaction begun at t, or t *)
(* is NoId.                                                                *)
(***************************************************************************)
Reaches(c, x) == Lands(c.todo, c.goal) \/ (Still(c.todo) /\ x \in {c.from, c.goal})
SessionFits(c, r, t) ==
    /\ Balanced(c.todo) /\ (r = NoId \/ Has(c.todo, "commitRewrite"))
    /\ Paired(c.todo, "begin", "commit") /\ (t = NoId \/ Has(c.todo, "commit"))
BackupFits(c, r) ==
    c.op \in {"apply", "dev"} /\ ~SkipBackup => c.backed \/ (r = NoId /\ Guarded(c.todo))
SingleFits(c, r, t, x) ==
    c.single =>
       /\ c.op = "apply" /\ Ordered(c.todo) /\ Reaches(c, x)
       /\ \/ Has(c.todo, "begin") /\ t = NoId /\ r = NoId /\ x = c.from
          \/ ~Has(c.todo, "begin") /\ Has(c.todo, "commit") /\ t = c.from
          \/ Kinds(c.todo, {"after"}) /\ t = NoId /\ r = NoId
DevFits(c, x) ==
    c.op = "dev" /\ c.goal \notin Ancestors(c.from) /\ c.goal # <<>> =>
       \/ \E i \in 1..Len(c.todo) : LandsAt(c.todo, c.goal, i) /\ DiffOnce(c.todo, i)
       \/ Still(c.todo) /\ DiffOnce(c.todo, 0) /\ x = c.goal
       \/ Still(c.todo) /\ ~Has(c.todo, "diff") /\ SchemaOf(x) # SchemaOf(c.goal)
Fits(c, r, t, x) ==
    SessionFits(c, r, t) /\ BackupFits(c, r) /\ SingleFits(c, r, t, x) /\ DevFits(c, x)

Bodied == {"apply", "rewrite", "commitRewrite"}
\* what `migrate` puts around the statements of a body
LEMMA MigrateIs ==
    ASSUME NEW goal \in Revisions, NEW body \in Bodies(goal), NEW single \in BOOLEAN
    PROVE  /\ Migrate(body, single) \in Seq(Statement) /\ Balanced(Migrate(body, single))
           /\ Paired(Migrate(body, single), "begin", "commit")
           /\ Kinds(Migrate(body, single), {"before", "begin", "commit", "after"} \cup Bodied)
           /\ Lands(Migrate(body, single), goal) \/ Still(Migrate(body, single))
           /\ Lands(body, goal) => Lands(Migrate(body, single), goal)
           /\ single => Ordered(Migrate(body, single)) /\ Has(Migrate(body, single), "begin")
<1> DEFINE H == Unless(SkipHooks, "before")
           G == Do("begin")
           C == Do("commit")
           F == Do("after")
           GB == G \o body
           GBC == GB \o C
           M == IF single THEN GBC ELSE body
           HM == H \o M
           all == HM \o F
           K == {"before", "begin", "commit", "after"} \cup Bodied
<1>1. Migrate(body, single) = all
  BY DEF Migrate
<1>2. /\ body \in Seq(BodyStatement) /\ body \in Seq(Statement) /\ Balanced(body)
      /\ (Lands(body, goal) \/ Still(body)) /\ Kinds(body, Bodied)
  <2>1. body \in Seq(BodyStatement) /\ \A i \in 1..Len(body) : body[i] \in BodyStatement
    BY DEF Bodies
  <2>2. BodyStatement \subseteq Statement /\ \A s \in BodyStatement : s.do \in Bodied
    BY DEF BodyStatement, Statement, Whats, Bodied
  <2>3. body \in Seq(Statement)
    BY <2>1, <2>2
  <2> QED BY <2>1, <2>2, <2>3 DEF Bodies, Kinds
<1>3. H \in Seq(Statement) /\ Kinds(H, {"before"})
  BY UnlessIs DEF Whats
<1>4. /\ G \in Seq(Statement) /\ Len(G) = 1 /\ G[1].do = "begin"
      /\ C \in Seq(Statement) /\ Len(C) = 1 /\ C[1].do = "commit"
      /\ F \in Seq(Statement) /\ Len(F) = 1 /\ F[1].do = "after"
  BY DoIs DEF Whats
<1> HIDE DEF H, G, C, F
<1>5. Kinds(G, {"begin"}) /\ Kinds(C, {"commit"}) /\ Kinds(F, {"after"})
  BY <1>4 DEF Kinds
<1>6. \A s, k : Kinds(s, k) /\ k \cap (Moving \cup {"begin"}) = {} =>
          Balanced(s) /\ Paired(s, "begin", "commit") /\ Still(s)
  BY DEF Balanced, Paired, Kinds, Still, Moving
<1>7. /\ Balanced(H) /\ Paired(H, "begin", "commit") /\ Still(H)
      /\ Balanced(C) /\ Paired(C, "begin", "commit") /\ Still(C)
      /\ Balanced(F) /\ Paired(F, "begin", "commit") /\ Still(F)
  BY <1>3, <1>5, <1>6 DEF Moving
<1>8. Balanced(G) /\ Still(G) /\ Paired(body, "begin", "commit")
  BY <1>2, <1>5 DEF Balanced, Paired, Kinds, Still, Moving, Bodied
<1>9. /\ GB \in Seq(Statement) /\ Balanced(GB) /\ (Lands(body, goal) => Lands(GB, goal))
      /\ Still(body) => Still(GB)
  BY <1>2, <1>4, <1>8, Joined, JoinBalanced, JoinStill, JoinLands
<1> HIDE DEF GB
<1>10. /\ GBC \in Seq(Statement) /\ Balanced(GBC) /\ (Lands(GB, goal) => Lands(GBC, goal))
       /\ Still(GB) => Still(GBC)
  BY <1>4, <1>7, <1>9, Joined, JoinBalanced, JoinStill
<1>11. Paired(GBC, "begin", "commit") /\ Has(GBC, "begin")
  <2>1. Len(GBC) = Len(GB) + 1 /\ Len(GB) \in Nat /\ GBC[Len(GB) + 1].do = "commit"
    <3>1. 1 \in 1..Len(C)
      BY <1>4
    <3>2. Len(GBC) = Len(GB) + 1 /\ Len(GB) \in Nat
      <4>1. Len(GBC) = Len(GB) + Len(C)
        BY <1>4, <1>9, ConcatProperties
      <4>2. Len(GB) \in Nat
        BY <1>9
      <4> QED BY <1>4, <4>1, <4>2
    <3>3. GBC[Len(GB) + 1] = C[1]
      BY <1>4, <1>9, <3>1, Joined
    <3> QED BY <1>4, <3>2, <3>3
  <2>2. 1 \in 1..Len(GB) /\ GB[1].do = "begin"
    <3>1. 1 \in 1..Len(G)
      BY <1>4
    <3> QED BY <1>2, <1>4, <3>1, Joined DEF GB
  <2>3. 1 \in 1..Len(GBC) /\ GBC[1].do = "begin"
    BY <1>4, <1>9, <2>2, Joined
  <2>4. GBC # <<>> /\ GBC[Len(GBC)].do = "commit"
    BY <2>1
  <2> HIDE DEF GBC
  <2> QED BY <1>10, <2>3, <2>4, EndPaired DEF Has
<1>12. Kinds(GBC, K)
  <2>1. Kinds(GB, K)
    <3>1. Kinds(G, K) /\ Kinds(body, K)
      BY <1>2, <1>5 DEF Kinds
    <3> HIDE DEF K
    <3> QED BY <1>2, <1>4, <3>1, JoinKinds DEF GB
  <2>2. Kinds(C, K)
    BY <1>5 DEF Kinds
  <2> HIDE DEF K
  <2> QED BY <1>4, <1>9, <2>1, <2>2, JoinKinds
<1>13. Ordered(GBC)
  <2>1. Ordered(G) /\ Ordered(C) /\ Ordered(body)
    BY <1>2, <1>4, <1>5 DEF Ordered, Kinds, Follow, Bodied
  <2>2. Ordered(GB)
    <3>1. \A i \in 1..Len(G) : \A j \in 1..Len(body) : body[j].do \in Follow(G[i].do)
      BY <1>2, <1>5 DEF Kinds, Follow, Bodied
    <3> QED BY <1>2, <1>4, <2>1, <3>1, JoinOrdered DEF GB
  <2>3. Kinds(GB, {"begin"} \cup Bodied)
    <3>1. Kinds(G, {"begin"} \cup Bodied) /\ Kinds(body, {"begin"} \cup Bodied)
      BY <1>2, <1>5 DEF Kinds
    <3> QED BY <1>2, <1>4, <3>1, JoinKinds DEF GB
  <2>4. \A i \in 1..Len(GB) : \A j \in 1..Len(C) : C[j].do \in Follow(GB[i].do)
    BY <1>5, <2>3 DEF Kinds, Follow, Bodied
  <2> QED BY <1>4, <1>9, <2>1, <2>2, <2>4, JoinOrdered
<1> HIDE DEF GBC
<1>14. /\ M \in Seq(Statement) /\ Balanced(M) /\ Paired(M, "begin", "commit") /\ Kinds(M, K)
       /\ (Lands(body, goal) => Lands(M, goal)) /\ (Still(body) => Still(M))
       /\ single => Ordered(M) /\ Has(M, "begin") /\ Kinds(M, {"begin", "commit"} \cup Bodied)
  <2>1. Kinds(body, K)
    BY <1>2 DEF Kinds
  <2>2. Kinds(GBC, {"begin", "commit"} \cup Bodied)
    <3> DEFINE L == {"begin", "commit"} \cup Bodied
    <3>1. Kinds(G, L) /\ Kinds(body, L) /\ Kinds(C, L)
      BY <1>2, <1>5 DEF Kinds
    <3> HIDE DEF L
    <3>2. Kinds(GB, L)
      BY <1>2, <1>4, <3>1, JoinKinds DEF GB
    <3>3. Kinds(GBC, L)
      BY <1>4, <1>9, <3>1, <3>2, JoinKinds DEF GBC
    <3> QED BY <3>3 DEF L
  <2> HIDE DEF K
  <2> QED BY <1>2, <1>8, <1>9, <1>10, <1>11, <1>12, <1>13, <2>1, <2>2
<1> HIDE DEF M
<1>15. /\ HM \in Seq(Statement) /\ Balanced(HM) /\ Paired(HM, "begin", "commit")
       /\ (Lands(M, goal) => Lands(HM, goal)) /\ (Still(M) => Still(HM))
  BY <1>3, <1>7, <1>14, Joined, JoinBalanced, JoinPaired, JoinStill, JoinLands
<1>16. Kinds(HM, K)
  <2>1. Kinds(H, K)
    BY <1>3 DEF Kinds
  <2> HIDE DEF K
  <2> QED BY <1>3, <1>14, <2>1, JoinKinds
<1>17. single => Ordered(HM) /\ Has(HM, "begin") /\ Kinds(HM, {"before", "begin", "commit"} \cup Bodied)
  <2> SUFFICES ASSUME single PROVE Ordered(HM) /\ Has(HM, "begin") /\ Kinds(HM, {"before", "begin", "commit"} \cup Bodied)
    OBVIOUS
  <2>1. Ordered(H) /\ \A i \in 1..Len(H) : \A j \in 1..Len(M) : M[j].do \in Follow(H[i].do)
    BY <1>3, <1>14 DEF Ordered, Kinds, Follow, Bodied
  <2>2. Ordered(HM)
    BY <1>3, <1>14, <2>1, JoinOrdered
  <2>3. Has(HM, "begin")
    BY <1>3, <1>14, JoinHas
  <2>4. Kinds(HM, {"before", "begin", "commit"} \cup Bodied)
    <3> DEFINE L == {"before", "begin", "commit"} \cup Bodied
    <3>1. Kinds(H, L) /\ Kinds(M, L)
      BY <1>3, <1>14 DEF Kinds
    <3> HIDE DEF L
    <3>2. Kinds(HM, L)
      BY <1>3, <1>14, <3>1, JoinKinds
    <3> QED BY <3>2 DEF L
  <2> QED BY <2>2, <2>3, <2>4
<1> HIDE DEF HM
<1>18. /\ all \in Seq(Statement) /\ Balanced(all) /\ Paired(all, "begin", "commit")
       /\ (Lands(HM, goal) => Lands(all, goal)) /\ (Still(HM) => Still(all))
  BY <1>4, <1>7, <1>15, Joined, JoinBalanced, JoinPaired, JoinStill
<1>19. Kinds(all, K)
  <2>1. Kinds(F, K)
    BY <1>5 DEF Kinds
  <2> HIDE DEF K
  <2> QED BY <1>4, <1>15, <1>16, <2>1, JoinKinds
<1>20. single => Ordered(all) /\ Has(all, "begin")
  <2> SUFFICES ASSUME single PROVE Ordered(all) /\ Has(all, "begin")
    OBVIOUS
  <2>1. Ordered(F) /\ \A i \in 1..Len(HM) : \A j \in 1..Len(F) : F[j].do \in Follow(HM[i].do)
    BY <1>4, <1>5, <1>17 DEF Ordered, Kinds, Follow, Bodied
  <2> QED BY <1>4, <1>15, <1>17, <2>1, JoinHas, JoinOrdered
<1> HIDE DEF all
<1> QED BY <1>1, <1>2, <1>9, <1>10, <1>14, <1>15, <1>18, <1>19, <1>20

Settles(s, goal) == \E i \in 1..Len(s) : LandsAt(s, goal, i) /\ DiffOnce(s, i)

LEMMA JoinGuarded ==
    ASSUME NEW B, NEW a \in Seq(B), NEW b \in Seq(B), Still(a),
           NEW what \in {"backup", "backupUnlessDone"}, Has(a, what)
    PROVE  Guarded(a \o b)
<1> DEFINE c == a \o b
           m == Len(a)
<1>1. \A i \in 1..Len(c) : (i \in 1..m /\ c[i] = a[i]) \/ \E k \in 1..Len(b) : i = m + k /\ c[i] = b[k]
  BY Joined
<1>2. PICK j \in 1..m : a[j].do = what
  BY DEF Has
<1>3. j \in 1..Len(c) /\ c[j] = a[j] /\ m \in Nat
  BY Joined
<1> HIDE DEF c, m
<1>4. ASSUME NEW i \in 1..Len(c), c[i].do \in Moving PROVE j < i
  <2>1. ~(i \in 1..m /\ c[i] = a[i])
    BY <1>4 DEF Still, m
  <2>2. PICK k \in 1..Len(b) : i = m + k
    BY <1>1, <2>1
  <2> QED BY <1>3, <2>2
<1>5. Guarded(c)
  BY <1>2, <1>3, <1>4 DEF Guarded
<1> QED BY <1>5 DEF c

LEMMA JoinSettles ==
    ASSUME NEW B, NEW a \in Seq(B), NEW b \in Seq(B), NEW goal, Settles(b, goal)
    PROVE  Settles(a \o b, goal)
<1> DEFINE c == a \o b
           m == Len(a)
<1>1. PICK i \in 1..Len(b) : LandsAt(b, goal, i) /\ DiffOnce(b, i)
  BY DEF Settles
<1>2. m + i \in 1..Len(c) /\ c[m + i] = b[i] /\ m \in Nat
  BY Joined
<1>3. \A j \in 1..Len(c) : j \in 1..m \/ \E k \in 1..Len(b) : j = m + k /\ c[j] = b[k]
  BY Joined
<1> HIDE DEF c, m
<1>4. ASSUME NEW j \in 1..Len(c), j > m + i
      PROVE  \E k \in 1..Len(b) : j = m + k /\ c[j] = b[k] /\ k > i
  <2>1. j \notin 1..m
    BY <1>2, <1>4
  <2>2. PICK k \in 1..Len(b) : j = m + k /\ c[j] = b[k]
    BY <1>3, <2>1
  <2>3. k > i
    BY <1>2, <1>4, <2>2
  <2> QED BY <2>2, <2>3
<1>5. LandsAt(c, goal, m + i)
  BY <1>1, <1>2, <1>4 DEF LandsAt
<1>6. DiffOnce(c, m + i)
  BY <1>1, <1>4 DEF DiffOnce
<1> QED BY <1>2, <1>5, <1>6 DEF Settles, c

LEMMA EndSettles ==
    ASSUME NEW B, NEW a \in Seq(B), NEW b \in Seq(B), NEW goal, Lands(a, goal), ~Has(a, "diff"),
           Still(b), DiffOnce(b, 0)
    PROVE  Settles(a \o b, goal)
<1> DEFINE c == a \o b
           m == Len(a)
<1>1. PICK i \in 1..m : LandsAt(a, goal, i)
  BY DEF Lands
<1>2. i \in 1..Len(c) /\ c[i] = a[i] /\ m \in Nat
  BY Joined
<1>3. \A j \in 1..Len(c) : (j \in 1..m /\ c[j] = a[j]) \/ \E k \in 1..Len(b) : j = m + k /\ c[j] = b[k]
  BY Joined
<1> HIDE DEF c, m
<1>4. LandsAt(c, goal, i)
  BY <1>1, <1>2, <1>3 DEF LandsAt, Still, m
<1>5. ASSUME NEW j \in 1..Len(c), NEW k \in 1..Len(c), c[j].do = "diff", c[k].do = "diff"
      PROVE  j = k
  <2>1. PICK j2 \in 1..Len(b) : j = m + j2 /\ c[j] = b[j2]
    BY <1>3, <1>5 DEF Has, m
  <2>2. PICK k2 \in 1..Len(b) : k = m + k2 /\ c[k] = b[k2]
    BY <1>3, <1>5 DEF Has, m
  <2>3. j2 > 0 /\ k2 > 0
    OBVIOUS
  <2>4. j2 = k2
    BY <1>5, <2>1, <2>2, <2>3 DEF DiffOnce
  <2> QED BY <2>1, <2>2, <2>4
<1> QED BY <1>2, <1>4, <1>5 DEF Settles, DiffOnce, c

Applying == {"backup", "before", "begin", "commit", "after"} \cup Bodied
\* The backup, then what Migrate returns
Backed(s, body, goal, single) ==
    /\ s \in Seq(Statement) /\ Balanced(s) /\ Paired(s, "begin", "commit")
    /\ Kinds(s, Applying) /\ (Lands(s, goal) \/ Still(s))
    /\ Lands(body, goal) => Lands(s, goal)
    /\ single => Ordered(s) /\ Has(s, "begin")
    /\ ~SkipBackup => Guarded(s)
LEMMA BackedMigrateIs ==
    ASSUME NEW goal \in Revisions, NEW body \in Bodies(goal), NEW single \in BOOLEAN,
           NEW s, s = Unless(SkipBackup, "backup") \o Migrate(body, single)
    PROVE  Backed(s, body, goal, single)
<1> DEFINE A == Unless(SkipBackup, "backup")
           M == Migrate(body, single)
           MK == {"before", "begin", "commit", "after"} \cup Bodied
<1>1. A \in Seq(Statement) /\ Kinds(A, {"backup"}) /\ (~SkipBackup => Len(A) = 1 /\ A[1].do = "backup")
  BY UnlessIs DEF Whats
<1>2. /\ M \in Seq(Statement) /\ Balanced(M) /\ Paired(M, "begin", "commit")
      /\ Kinds(M, MK) /\ (Lands(M, goal) \/ Still(M)) /\ (Lands(body, goal) => Lands(M, goal))
      /\ single => Ordered(M) /\ Has(M, "begin")
  BY MigrateIs
<1> HIDE DEF A, M
<1>3. Balanced(A) /\ Paired(A, "begin", "commit") /\ Still(A)
  BY <1>1 DEF Balanced, Paired, Kinds, Still, Moving
<1>4. Kinds(A, Applying) /\ Kinds(M, Applying)
  BY <1>1, <1>2 DEF Kinds, Applying
<1>5. Ordered(A) /\ \A i \in 1..Len(A) : \A j \in 1..Len(M) : M[j].do \in Follow(A[i].do)
  BY <1>1, <1>2 DEF Ordered, Kinds, Follow, Bodied
<1>6. A \o M \in Seq(Statement) /\ Balanced(A \o M) /\ Paired(A \o M, "begin", "commit")
  BY <1>1, <1>2, <1>3, Joined, JoinBalanced, JoinPaired
<1>7. Kinds(A \o M, Applying)
  BY <1>1, <1>2, <1>4, JoinKinds
<1>8. (Lands(M, goal) => Lands(A \o M, goal)) /\ (Still(M) => Still(A \o M))
  BY <1>1, <1>2, <1>3, JoinStill, JoinLands
<1>9. ASSUME single PROVE Ordered(A \o M) /\ Has(A \o M, "begin")
  BY <1>1, <1>2, <1>5, <1>9, JoinOrdered, JoinHas
<1>10. ASSUME ~SkipBackup PROVE Guarded(A \o M)
  <2>3. Len(A) = 1 /\ A[1].do = "backup"
    BY <1>1, <1>10, Zenon
  <2>1. 1 \in 1..Len(A) /\ A[1].do = "backup"
    BY <2>3
  <2>2. Has(A, "backup")
    BY <2>1 DEF Has
  <2> QED BY <1>1, <1>2, <1>3, <2>2, JoinGuarded
<1>11. s = A \o M
  BY DEF A, M
<1>12. /\ s \in Seq(Statement) /\ Balanced(s) /\ Paired(s, "begin", "commit")
       /\ Kinds(s, Applying) /\ (Lands(s, goal) \/ Still(s))
       /\ Lands(body, goal) => Lands(s, goal)
       /\ single => Ordered(s) /\ Has(s, "begin")
       /\ ~SkipBackup => Guarded(s)
  BY <1>2, <1>6, <1>7, <1>8, <1>9, <1>10, <1>11
<1> QED BY <1>12 DEF Backed

LEMMA ApplyFits ==
    ASSUME NEW goal \in Revisions, NEW body \in Bodies(goal), NEW single \in BOOLEAN, NEW x, NEW c,
           c = [op |-> "apply", todo |-> Unless(SkipBackup, "backup") \o Migrate(body, single),
                from |-> x, goal |-> goal, single |-> single, backed |-> FALSE]
    PROVE  c.todo \in Seq(Statement) /\ Kinds(c.todo, Applying) /\ Fits(c, NoId, NoId, x)
<1>0. PICK s : s = Unless(SkipBackup, "backup") \o Migrate(body, single)
  OBVIOUS
<1>1. /\ s \in Seq(Statement) /\ Balanced(s) /\ Paired(s, "begin", "commit")
      /\ Kinds(s, Applying) /\ (Lands(s, goal) \/ Still(s))
      /\ single => Ordered(s) /\ Has(s, "begin")
      /\ ~SkipBackup => Guarded(s)
  <2>1. Backed(s, body, goal, single)
    BY <1>0, BackedMigrateIs
  <2> QED BY <2>1 DEF Backed
<1>2. /\ c.op = "apply" /\ c.todo = s /\ c.from = x /\ c.goal = goal /\ c.single = single
      /\ c.backed = FALSE
  BY <1>0
<1> QED BY <1>1, <1>2 DEF Fits, SessionFits, BackupFits, SingleFits, DevFits, Reaches

LEMMA LatestIs ==
    ASSUME DirectoryTyped
    PROVE  Latest \in files \cup {<<>>} /\ Latest \in Revisions /\ \A g \in files : Len(g) <= Len(Latest)
<1> DEFINE S == files \cup {<<>>}
           Longer(x) == {y \in S : Len(y) > Len(x)}
           Counts == {Cardinality(Longer(x)) : x \in S}
<1>1. S \subseteq Revisions /\ IsFiniteSet(S) /\ \A x \in S : Len(x) \in Nat
  <2>1. <<>> \in Revisions /\ \A r \in Revisions : Len(r) \in Nat
    BY DEF Revisions
  <2>2. IsFiniteSet(S)
    BY FS_AddElement DEF DirectoryTyped
  <2> QED BY <2>1, <2>2 DEF DirectoryTyped
<1> HIDE DEF S
<1>2. \A x \in S : IsFiniteSet(Longer(x)) /\ Cardinality(Longer(x)) \in Nat
  BY <1>1, FS_Subset, FS_CardinalityType
<1>3. Counts \subseteq Nat /\ Counts # {}
  BY <1>2 DEF S
<1>4. PICK n \in Counts : \A m \in Counts : ~(<<m, n>> \in OpToRel(<, Nat))
  <2> HIDE DEF Counts
  <2> QED BY <1>3, WFMin, NatLessThanWellFounded
<1>5. \A m \in Counts : ~(m < n)
  <2> HIDE DEF Counts
  <2> QED BY <1>3, <1>4 DEF OpToRel
<1>6. PICK x \in S : n = Cardinality(Longer(x))
  BY <1>4
<1>7. ASSUME NEW y \in S, Len(y) > Len(x) PROVE FALSE
  <2>1. Longer(y) \subseteq Longer(x) /\ y \in Longer(x) /\ y \notin Longer(y)
    BY <1>1, <1>7
  <2>2. Cardinality(Longer(y)) <= Cardinality(Longer(x)) /\ Cardinality(Longer(y)) # Cardinality(Longer(x))
    <3> HIDE DEF Longer
    <3> QED BY <1>2, <2>1, FS_Subset
  <2>3. Cardinality(Longer(y)) \in Counts
    OBVIOUS
  <2>4. Cardinality(Longer(y)) \in Nat /\ Cardinality(Longer(x)) \in Nat
    BY <1>2
  <2> HIDE DEF Longer, Counts
  <2> QED BY <1>5, <1>6, <2>2, <2>3, <2>4
<1>8. \A g \in S : Len(g) <= Len(x)
  BY <1>1, <1>7
<1>9. \E f \in files \cup {<<>>} : \A g \in files : Len(g) <= Len(f)
  BY <1>8 DEF S
<1>10. Latest \in files \cup {<<>>} /\ \A g \in files : Len(g) <= Len(Latest)
  BY <1>9 DEF Latest, Newest
<1> QED BY <1>1, <1>10 DEF S

\* The directory holds one revision of a length: no two have the same parent.
LEMMA OneOfALength ==
    ASSUME DirectoryTyped, Readable, NEW f \in files, NEW g \in files, Len(f) = Len(g)
    PROVE  f = g
<1> DEFINE Bad == {n \in Nat : \E x, y \in files : Len(x) = n /\ Len(y) = n /\ x # y}
<1> SUFFICES ASSUME f # g PROVE FALSE
  OBVIOUS
<1>0. \A x \in files : x \in Revisions /\ Len(x) \in Nat \ {0}
  BY DEF DirectoryTyped, Revisions
<1>1. Len(f) \in Bad /\ Bad \subseteq Nat
  BY <1>0
<1>2. PICK n \in Bad : \A m \in Bad : ~(<<m, n>> \in OpToRel(<, Nat))
  <2> HIDE DEF Bad
  <2> QED BY <1>1, WFMin, NatLessThanWellFounded
<1>3. n \in Nat /\ \A m \in Bad : ~(m < n)
  <2> HIDE DEF Bad
  <2> QED BY <1>1, <1>2 DEF OpToRel
<1>4. PICK x \in files, y \in files : Len(x) = n /\ Len(y) = n /\ x # y
  BY <1>2
<1>5. \A r \in files : Len(Front(r)) = Len(r) - 1
  <2> TAKE r \in files
  <2>1. Len(r) - 1 \in 0..Len(r) /\ r \in Revisions
    BY <1>0
  <2> QED BY <2>1, PrefixIs DEF Front
<1>6. Front(x) # Front(y) /\ Front(x) \in files \cup {<<>>} /\ Front(y) \in files \cup {<<>>}
  BY <1>4 DEF Readable
<1>7. Len(Front(x)) = n - 1 /\ Len(Front(y)) = n - 1
  BY <1>4, <1>5
<1>8. CASE Front(x) \in files /\ Front(y) \in files
  <2>1. n - 1 \in Nat /\ n - 1 < n
    BY <1>0, <1>4
  <2>2. n - 1 \in Bad
    BY <1>6, <1>7, <1>8, <2>1
  <2> HIDE DEF Bad
  <2> QED BY <1>3, <2>1, <2>2
<1>9. CASE Front(x) = <<>>
  <2>1. n - 1 = 0
    BY <1>7, <1>9
  <2>2. Front(y) = <<>>
    <3>1. Len(Front(y)) = 0
      BY <1>7, <2>1
    <3> QED BY <1>0, <1>6, <3>1
  <2> QED BY <1>6, <1>9, <2>2
<1>10. CASE Front(y) = <<>>
  <2>1. n - 1 = 0
    BY <1>7, <1>10
  <2>2. Front(x) = <<>>
    <3>1. Len(Front(x)) = 0
      BY <1>7, <2>1
    <3> QED BY <1>0, <1>6, <3>1
  <2> QED BY <1>6, <1>10, <2>2
<1> QED BY <1>6, <1>8, <1>9, <1>10

Developing == Applying \cup {"backupUnlessDone", "diff"}
\* A dev mode command that rebases nothing
LEMMA NormalFits ==
    ASSUME DirectoryTyped, Readable, NEW d \in Databases, db[d] \in Revisions, Normal(d), NEW c,
           c = [op |-> "dev",
                todo |-> (IF Skipped(d) = <<>> THEN <<>>
                          ELSE Unless(SkipBackup, "backup") \o Migrate(Each(Skipped(d)), FALSE))
                         \o Do("diff"),
                from |-> db[d], goal |-> Latest, single |-> FALSE, backed |-> FALSE]
    PROVE  /\ c.todo \in Seq(Statement) /\ Kinds(c.todo, Developing)
           /\ Fits(c, NoId, NoId, db[d])
<1>1. /\ Latest \in files \cup {<<>>} /\ Latest \in Revisions /\ \A g \in files : Len(g) <= Len(Latest)
  BY LatestIs
<1>2. PICK D : D = Do("diff")
  OBVIOUS
<1>3. /\ D \in Seq(Statement) /\ Len(D) = 1 /\ D[1].do = "diff"
  BY <1>2, DoIs DEF Whats
<1>4. /\ Kinds(D, Developing) /\ Balanced(D) /\ Paired(D, "begin", "commit") /\ Still(D)
      /\ DiffOnce(D, 0) /\ Guarded(D)
  BY <1>3 DEF Kinds, Developing, Balanced, Paired, Still, Moving, DiffOnce, Guarded
<1>5. CASE Skipped(d) = <<>>
  <2>1. c.todo = <<>> \o D
    BY <1>2, <1>5
  <2>4. <<>> \o D = D
    BY <1>3
  <2>2. c.todo = D
    BY <2>1, <2>4
  <2>3. ~(Latest \notin Ancestors(db[d]) /\ Latest # <<>>)
    <3> SUFFICES ASSUME Latest \notin Ancestors(db[d]), Latest # <<>> PROVE FALSE
      OBVIOUS
    <3>1. db[d] \in files \cup {<<>>}
      BY DEF Normal
    <3>2. Slice(db[d], Latest) = <<>>
      BY <1>5, <3>1 DEF Skipped
    <3>3. Len(Latest) <= Len(db[d]) /\ Len(Latest) \in Nat /\ Len(Latest) # 0 /\ Len(db[d]) \in Nat
      <4>1. Len(Latest) \in Nat /\ Len(Latest) # 0 /\ Len(db[d]) \in Nat
        BY <1>1 DEF Revisions
      <4> QED BY <1>1, <3>2, <4>1, SliceIs
    <3>4. db[d] \in files /\ Latest \in files
      <4>1. Len(<<>>) = 0
        OBVIOUS
      <4> QED BY <1>1, <3>1, <3>3, <4>1
    <3>5. Latest = db[d]
      <4>1. Len(db[d]) <= Len(Latest)
        BY <1>1, <3>4
      <4> QED BY <3>3, <3>4, <4>1, OneOfALength
    <3>6. Len(db[d]) \in 1..Len(db[d]) /\ SubSeq(db[d], 1, Len(db[d])) = db[d]
      BY <3>3, <3>5, WholeIs
    <3> QED BY <3>5, <3>6 DEF Ancestors
  <2> HIDE DEF DiffOnce
  <2> QED BY <1>3, <1>4, <2>2, <2>3 DEF Fits, SessionFits, BackupFits, SingleFits, DevFits
<1>6. CASE Skipped(d) # <<>>
  <2>1. PICK body : body = Each(Skipped(d))
    OBVIOUS
  <2>2. Skipped(d) = Slice(db[d], Latest)
    BY <1>6 DEF Skipped
  <2>3. body \in Bodies(Latest) /\ Lands(body, Latest)
    BY <1>1, <1>6, <2>1, <2>2, SlicesLead
  <2>4. PICK s : s = Unless(SkipBackup, "backup") \o Migrate(body, FALSE)
    OBVIOUS
  <2>5. /\ s \in Seq(Statement) /\ Balanced(s) /\ Paired(s, "begin", "commit")
        /\ Kinds(s, Applying) /\ Lands(s, Latest) /\ (~SkipBackup => Guarded(s))
    <3>1. FALSE \in BOOLEAN /\ Latest \in Revisions
      BY <1>1
    <3>2. Backed(s, body, Latest, FALSE)
      BY <2>3, <2>4, <3>1, BackedMigrateIs
    <3> QED BY <2>3, <3>2 DEF Backed
  <2>6. c.todo = s \o D /\ c.op = "dev" /\ c.goal = Latest /\ c.single = FALSE
    BY <1>2, <1>6, <2>1, <2>4
  <2>7. ~Has(s, "diff") /\ Kinds(s, Developing)
    BY <2>5 DEF Has, Kinds, Applying, Bodied, Developing
  <2>8. /\ s \o D \in Seq(Statement) /\ Balanced(s \o D) /\ Paired(s \o D, "begin", "commit")
        /\ Kinds(s \o D, Developing)
    BY <1>3, <1>4, <2>5, <2>7, Joined, JoinBalanced, JoinPaired, JoinKinds
  <2>9. Settles(s \o D, Latest)
    BY <1>3, <1>4, <2>5, <2>7, EndSettles
  <2>10. ~SkipBackup => Guarded(s \o D)
    <3> SUFFICES ASSUME ~SkipBackup PROVE Guarded(s \o D)
      OBVIOUS
    <3>1. Guarded(s)
      BY <2>5, Zenon
    <3>0. s \in Seq(Statement) /\ D \in Seq(Statement)
      BY <1>3, <2>5
    <3>2. \A i \in 1..Len(s \o D) :
             \/ i \in 1..Len(s) /\ (s \o D)[i] = s[i]
             \/ \E k \in 1..Len(D) : i = Len(s) + k /\ (s \o D)[i] = D[k]
      BY <3>0, JoinSplits
    <3>3. \A i \in 1..Len(s) : i \in 1..Len(s \o D) /\ (s \o D)[i] = s[i]
      BY <3>0, Joined
    <3> QED BY <1>4, <3>1, <3>2, <3>3 DEF Guarded, Still
  <2>11. c.todo \in Seq(Statement) /\ Kinds(c.todo, Developing)
    BY <2>6, <2>8
  <2>12. SessionFits(c, NoId, NoId)
    BY <2>6, <2>8 DEF SessionFits
  <2>13. BackupFits(c, NoId) /\ SingleFits(c, NoId, NoId, db[d])
    BY <2>6, <2>10 DEF BackupFits, SingleFits
  <2>14. DevFits(c, db[d])
    BY <2>6, <2>9 DEF DevFits, Settles
  <2> QED BY <2>11, <2>12, <2>13, <2>14 DEF Fits
<1> QED BY <1>5, <1>6

Rebasing == {"diff", "backupUnlessDone", "rewrite", "apply", "commitRewrite"}
\* One that rebases the dev mode migrations
LEMMA RebaseFits ==
    ASSUME NEW goal \in Revisions, goal # <<>>, NEW x, NEW c,
           c = [op |-> "dev",
                todo |-> Do("diff") \o Unless(SkipBackup, "backupUnlessDone") \o Do("rewrite") \o
                         Each(Slice(<<>>, goal)) \o Do("diff") \o Do("commitRewrite"),
                from |-> x, goal |-> goal, single |-> FALSE, backed |-> FALSE]
    PROVE  c.todo \in Seq(Statement) /\ Kinds(c.todo, Rebasing) /\ Fits(c, NoId, NoId, x)
<1>1. PICK D, U, R, E, C : /\ D = Do("diff") /\ U = Unless(SkipBackup, "backupUnlessDone")
                           /\ R = Do("rewrite") /\ E = Each(Slice(<<>>, goal))
                           /\ C = Do("commitRewrite")
  OBVIOUS
<1>2. /\ D \in Seq(Statement) /\ Len(D) = 1 /\ D[1].do = "diff"
      /\ R \in Seq(Statement) /\ Len(R) = 1 /\ R[1].do = "rewrite"
      /\ C \in Seq(Statement) /\ Len(C) = 1 /\ C[1].do = "commitRewrite"
  BY <1>1, DoIs DEF Whats
<1>3. /\ U \in Seq(Statement) /\ Kinds(U, {"backupUnlessDone"})
      /\ ~SkipBackup => Len(U) = 1 /\ U[1].do = "backupUnlessDone"
  BY <1>1, UnlessIs DEF Whats
<1>4. E \in Seq(Statement) /\ Kinds(E, {"apply"}) /\ Lands(E, goal)
  <2>1. <<>> \in Revisions /\ Len(<<>>) = 0 /\ Len(goal) \in Nat /\ Len(goal) > 0
    BY DEF Revisions
  <2>2. Slice(<<>>, goal) \in Seq(Revisions) /\ Slice(<<>>, goal) # <<>>
    BY <2>1, SliceIs
  <2>3. E \in Seq(BodyStatement) /\ Len(E) = Len(Slice(<<>>, goal))
        /\ \A i \in 1..Len(Slice(<<>>, goal)) : E[i].do = "apply"
    BY <1>1, <2>2, EachIs
  <2>4. BodyStatement \subseteq Statement
    BY DEF BodyStatement, Statement, Whats
  <2>5. E \in Seq(Statement)
    BY <2>3, <2>4
  <2>6. Lands(E, goal)
    BY <1>1, <2>1, <2>2, SlicesLead
  <2> QED BY <2>3, <2>5, <2>6 DEF Kinds
<1> DEFINE DU == D \o U
           DUR == DU \o R
           ED == E \o D
           DC == D \o C
           all == DUR \o (E \o DC)
<1>5. /\ DU \in Seq(Statement) /\ DUR \in Seq(Statement) /\ ED \in Seq(Statement)
      /\ DC \in Seq(Statement) /\ E \o DC \in Seq(Statement)
  BY <1>2, <1>3, <1>4, JoinIn
<1>6. c.todo = all
  <2>1. c.todo = ((DUR \o E) \o D) \o C
    BY <1>1
  <2>2. ((DUR \o E) \o D) \o C = DUR \o (E \o (D \o C))
    <3>1. PICK q \in Seq(Statement) : q = DUR
      BY <1>5
    <3>2. Regroups(q, E, D, C)
      BY <1>2, <1>4, JoinRegroups
    <3> QED BY <3>1, <3>2 DEF Regroups
  <2> QED BY <2>1, <2>2
<1>7. Still(DC) /\ DiffOnce(DC, 0)
  <2>1. /\ Len(DC) = Len(D) + Len(C)
        /\ \A i \in 1..(Len(D) + Len(C)) : DC[i] = IF i <= Len(D) THEN D[i] ELSE C[i - Len(D)]
    BY <1>2, ConcatProperties
  <2>2. Len(DC) = 2 /\ DC[1].do = "diff" /\ DC[2].do = "commitRewrite"
    <3> HIDE DEF DC
    <3> QED BY <1>2, <2>1
  <2> HIDE DEF DC
  <2> QED BY <2>2 DEF Still, Moving, DiffOnce
<1>8. Settles(E \o DC, goal)
  <2>1. ~Has(E, "diff")
    BY <1>4 DEF Kinds, Has
  <2> HIDE DEF DC
  <2> QED BY <1>4, <1>5, <1>7, <2>1, EndSettles
<1>9. Settles(all, goal)
  <2> HIDE DEF DC, DUR
  <2> QED BY <1>5, <1>8, JoinSettles
<1>10. Kinds(all, Rebasing)
  <2>1. Kinds(D, Rebasing) /\ Kinds(U, Rebasing) /\ Kinds(R, Rebasing) /\ Kinds(E, Rebasing) /\ Kinds(C, Rebasing)
    BY <1>2, <1>3, <1>4 DEF Kinds, Rebasing
  <2>2. Kinds(DU, Rebasing) /\ Kinds(DC, Rebasing)
    BY <1>2, <1>3, <2>1, JoinKinds
  <2> HIDE DEF DU, DC
  <2>3. Kinds(DUR, Rebasing) /\ Kinds(E \o DC, Rebasing)
    BY <1>2, <1>4, <1>5, <2>1, <2>2, JoinKinds
  <2> HIDE DEF DUR
  <2> QED BY <1>5, <2>3, JoinKinds
<1>11. all \in Seq(Statement)
  <2> HIDE DEF DUR, DC
  <2> QED BY <1>5, JoinIn
<1>12. Balanced(all)
  <2>1. all = (DUR \o ED) \o C
    <3>1. PICK q \in Seq(Statement) : q = DUR
      BY <1>5
    <3>2. Regroups(q, E, D, C)
      BY <1>2, <1>4, JoinRegroups
    <3> QED BY <3>1, <3>2 DEF Regroups
  <2>2. PICK p : p = DUR \o ED
    OBVIOUS
  <2>3. p \in Seq(Statement)
    BY <1>5, <2>2, JoinIn
  <2>4. EndsIn(p \o C, C[1])
    BY <1>2, <2>3, JoinEnds
  <2>5. PICK q : q = p \o C
    OBVIOUS
  <2>6. q \in Seq(Statement) /\ q # <<>> /\ q[Len(q)].do = "commitRewrite"
    BY <1>2, <2>4, <2>5 DEF EndsIn
  <2>7. Balanced(q)
    BY <2>6, EndPaired DEF Balanced
  <2> QED BY <2>1, <2>2, <2>5, <2>7
<1>13. ~SkipBackup => Guarded(all)
  <2> SUFFICES ASSUME ~SkipBackup PROVE Guarded(all)
    OBVIOUS
  <2>1. Len(U) = 1 /\ U[1].do = "backupUnlessDone"
    BY <1>3, Zenon
  <2>2. Has(U, "backupUnlessDone")
    BY <2>1 DEF Has
  <2>3. Has(DU, "backupUnlessDone")
    BY <1>2, <1>3, <2>2, JoinHas
  <2>4. Still(D) /\ Still(U)
    BY <1>2, <2>1 DEF Still, Moving
  <2>5. Still(DU)
    BY <1>2, <1>3, <2>4, JoinStill
  <2>6. all = DU \o (R \o (E \o DC))
    <3> HIDE DEF DU, DC
    <3>1. PICK X : X = E \o DC
      OBVIOUS
    <3>2. DU \in Seq(Statement) /\ R \in Seq(Statement) /\ X \in Seq(Statement)
      BY <1>2, <1>5, <3>1
    <3>3. (DU \o R) \o X = DU \o (R \o X)
      BY <3>2, ConcatAssociative
    <3> QED BY <3>1, <3>3
  <2>7. R \o (E \o DC) \in Seq(Statement)
    <3> HIDE DEF DC
    <3> QED BY <1>2, <1>5, Joined
  <2>8. Guarded(DU \o (R \o (E \o DC)))
    <3> HIDE DEF DU, DC
    <3> QED BY <1>5, <2>3, <2>5, <2>7, JoinGuarded
  <2> QED BY <2>6, <2>8
<1> HIDE DEF all
<1>14. c.op = "dev" /\ c.goal = goal /\ c.single = FALSE
  OBVIOUS
<1>15. SessionFits(c, NoId, NoId)
  BY <1>6, <1>10, <1>12 DEF SessionFits, Kinds, Rebasing, Paired
<1>16. BackupFits(c, NoId) /\ SingleFits(c, NoId, NoId, x)
  BY <1>6, <1>13, <1>14 DEF BackupFits, SingleFits
<1>17. DevFits(c, x)
  BY <1>6, <1>9, <1>14 DEF DevFits, Settles
<1> QED BY <1>6, <1>10, <1>11, <1>15, <1>16, <1>17 DEF Fits

\* Every other command leaves the databases alone.
Writing == {"write", "oldFixups", "oldRevisions", "writeFixup", "writeSquashed", "removeOld", "copy"}
LEMMA OtherFits ==
    ASSUME NEW c, NEW x, c.op \notin {"apply", "dev"}, c.single = FALSE, Kinds(c.todo, Writing)
    PROVE  Fits(c, NoId, NoId, x)
BY DEF Fits, SessionFits, BackupFits, SingleFits, DevFits, Kinds, Writing, Balanced, Paired

-----------------------------------------------------------------------------
(* What remains when the first statement is done *)

LEMMA TailIs ==
    ASSUME NEW s \in Seq(Statement), s # <<>>
    PROVE  /\ Tail(s) \in Seq(Statement) /\ s[1] \in Statement /\ 1 \in 1..Len(s)
           /\ \A i \in 1..Len(Tail(s)) : i + 1 \in 1..Len(s) /\ Tail(s)[i] = s[i + 1]
           /\ \A i \in 1..Len(s) : i = 1 \/ (i - 1 \in 1..Len(Tail(s)) /\ Tail(s)[i - 1] = s[i])
<1>1. /\ Tail(s) \in Seq(Statement) /\ Len(Tail(s)) = Len(s) - 1
      /\ \A i \in 1..Len(Tail(s)) : Tail(s)[i] = s[i + 1]
  BY HeadTailProperties
<1>2. Len(s) \in Nat /\ Len(s) # 0 /\ s[1] \in Statement
  OBVIOUS
<1> DEFINE t == Tail(s)
<1> HIDE DEF t
<1>3. \A i \in 1..Len(t) : i + 1 \in 1..Len(s) /\ t[i] = s[i + 1]
  BY <1>1, <1>2 DEF t
<1>4. ASSUME NEW i \in 1..Len(s), i # 1 PROVE i - 1 \in 1..Len(t) /\ t[i - 1] = s[i]
  <2>1. i - 1 \in 1..Len(t) /\ i - 1 + 1 = i
    BY <1>1, <1>2, <1>4 DEF t
  <2> QED BY <1>3, <2>1
<1> QED BY <1>1, <1>2, <1>3, <1>4 DEF t

LEMMA TailHas ==
    ASSUME NEW s \in Seq(Statement), s # <<>>, NEW what
    PROVE  /\ Has(s, what) => Has(Tail(s), what) \/ s[1].do = what
           /\ Has(Tail(s), what) => Has(s, what)
BY TailIs DEF Has

LEMMA TailPaired ==
    ASSUME NEW s \in Seq(Statement), s # <<>>, NEW open, NEW close, Paired(s, open, close)
    PROVE  Paired(Tail(s), open, close) /\ (s[1].do = open => Has(Tail(s), close))
<1> DEFINE t == Tail(s)
<1>1. /\ 1 \in 1..Len(s) /\ \A i \in 1..Len(t) : i + 1 \in 1..Len(s) /\ t[i] = s[i + 1]
      /\ \A i \in 1..Len(s) : i = 1 \/ (i - 1 \in 1..Len(t) /\ t[i - 1] = s[i])
  BY TailIs
<1> HIDE DEF t
<1>2. ASSUME NEW j \in 1..Len(t), t[j].do = open
      PROVE  \E i \in 1..Len(t) : i > j /\ t[i].do = close
  <2>1. PICK i \in 1..Len(s) : i > j + 1 /\ s[i].do = close
    BY <1>1, <1>2 DEF Paired
  <2>2. i # 1 /\ i - 1 > j
    BY <2>1
  <2> QED BY <1>1, <2>1, <2>2
<1>3. ASSUME s[1].do = open PROVE Has(t, close)
  <2>1. PICK i \in 1..Len(s) : i > 1 /\ s[i].do = close
    BY <1>1, <1>3 DEF Paired
  <2>2. i # 1
    BY <2>1
  <2> QED BY <1>1, <2>1, <2>2 DEF Has
<1> QED BY <1>2, <1>3 DEF Paired, t

LEMMA TailOrdered ==
    ASSUME NEW s \in Seq(Statement), s # <<>>, Ordered(s)
    PROVE  /\ Ordered(Tail(s)) /\ s[1].do \in Follow("before")
           /\ Kinds(Tail(s), Follow(s[1].do))
<1> DEFINE t == Tail(s)
<1>1. 1 \in 1..Len(s) /\ \A i \in 1..Len(t) : i + 1 \in 1..Len(s) /\ t[i] = s[i + 1]
  BY TailIs
<1> HIDE DEF t
<1>2. \A i \in 1..Len(t) : t[i].do \in Follow("before") /\ t[i].do \in Follow(s[1].do)
  <2> TAKE i \in 1..Len(t)
  <2>1. 1 < i + 1
    OBVIOUS
  <2> QED BY <1>1, <2>1 DEF Ordered
<1>3. ASSUME NEW i \in 1..Len(t), NEW j \in 1..Len(t), i < j PROVE t[j].do \in Follow(t[i].do)
  <2>1. i + 1 < j + 1
    BY <1>3
  <2> QED BY <1>1, <2>1 DEF Ordered
<1> QED BY <1>1, <1>2, <1>3 DEF Ordered, Kinds, t

LEMMA TailGuarded ==
    ASSUME NEW s \in Seq(Statement), s # <<>>, Guarded(s),
           s[1].do \notin {"backup", "backupUnlessDone"}
    PROVE  Guarded(Tail(s)) /\ s[1].do \notin Moving
<1> DEFINE t == Tail(s)
<1>1. /\ 1 \in 1..Len(s) /\ \A i \in 1..Len(t) : i + 1 \in 1..Len(s) /\ t[i] = s[i + 1]
      /\ \A i \in 1..Len(s) : i = 1 \/ (i - 1 \in 1..Len(t) /\ t[i - 1] = s[i])
  BY TailIs
<1> HIDE DEF t
<1>2. ASSUME NEW i \in 1..Len(t), t[i].do \in Moving
      PROVE  \E j \in 1..Len(t) : j < i /\ t[j].do \in {"backup", "backupUnlessDone"}
  <2>1. PICK j \in 1..Len(s) : j < i + 1 /\ s[j].do \in {"backup", "backupUnlessDone"}
    BY <1>1, <1>2 DEF Guarded
  <2>2. j # 1 /\ j - 1 < i
    BY <2>1
  <2> QED BY <1>1, <2>1, <2>2
<1>3. s[1].do \notin Moving
  <2>1. \A j \in 1..Len(s) : ~(j < 1)
    OBVIOUS
  <2> QED BY <1>1, <2>1 DEF Guarded
<1> QED BY <1>2, <1>3 DEF Guarded, t

LEMMA TailStill ==
    ASSUME NEW s \in Seq(Statement), s # <<>>, Still(s)
    PROVE  Still(Tail(s)) /\ s[1].do \notin Moving
BY TailIs DEF Still

LEMMA TailLandsAt ==
    ASSUME NEW s \in Seq(Statement), s # <<>>, NEW goal, NEW i \in 1..Len(s), LandsAt(s, goal, i)
    PROVE  /\ i = 1 => /\ s[1].do = "apply" /\ s[1].id = goal /\ Still(Tail(s))
                       /\ DiffOnce(s, i) => DiffOnce(Tail(s), 0)
           /\ i # 1 => /\ i - 1 \in 1..Len(Tail(s)) /\ LandsAt(Tail(s), goal, i - 1)
                       /\ DiffOnce(s, i) => DiffOnce(Tail(s), i - 1)
<1> DEFINE t == Tail(s)
<1>1. /\ 1 \in 1..Len(s) /\ \A j \in 1..Len(t) : j + 1 \in 1..Len(s) /\ t[j] = s[j + 1]
      /\ \A j \in 1..Len(s) : j = 1 \/ (j - 1 \in 1..Len(t) /\ t[j - 1] = s[j])
  BY TailIs
<1> HIDE DEF t
<1>2. s[i].do = "apply" /\ s[i].id = goal /\ \A j \in 1..Len(s) : j > i => s[j].do \notin Moving
  BY DEF LandsAt
<1>3. ASSUME NEW n \in Nat, n + 1 = i, DiffOnce(s, i) PROVE DiffOnce(t, n)
  <2> SUFFICES ASSUME NEW j \in 1..Len(t), NEW k \in 1..Len(t), j > n, k > n,
                      t[j].do = "diff", t[k].do = "diff"
               PROVE  j = k
    BY DEF DiffOnce
  <2>1. j + 1 > i /\ k + 1 > i /\ j + 1 \in 1..Len(s) /\ k + 1 \in 1..Len(s)
        /\ s[j + 1].do = "diff" /\ s[k + 1].do = "diff"
    BY <1>1, <1>3
  <2>2. j + 1 = k + 1
    BY <1>3, <2>1 DEF DiffOnce
  <2> QED BY <2>2
<1>4. ASSUME NEW n \in Nat, n + 1 = i, NEW j \in 1..Len(t), j > n PROVE t[j].do \notin Moving
  <2>1. j + 1 > i /\ j + 1 \in 1..Len(s) /\ t[j] = s[j + 1]
    BY <1>1, <1>4
  <2> QED BY <1>2, <2>1
<1>5. CASE i = 1
  <2>1. 0 \in Nat /\ 0 + 1 = i /\ \A j \in 1..Len(t) : j > 0
    BY <1>5
  <2> QED BY <1>2, <1>3, <1>4, <1>5, <2>1 DEF Still, t
<1>6. CASE i # 1
  <2>1. i - 1 \in 1..Len(t) /\ t[i - 1] = s[i] /\ i - 1 \in Nat /\ i - 1 + 1 = i
    BY <1>1, <1>6
  <2>2. \A j \in 1..Len(t) : j > i - 1 => t[j].do \notin Moving
    BY <1>4, <2>1
  <2>3. LandsAt(t, goal, i - 1)
    BY <1>2, <2>1, <2>2 DEF LandsAt
  <2>4. DiffOnce(s, i) => DiffOnce(t, i - 1)
    BY <1>3, <2>1
  <2> QED BY <1>6, <2>1, <2>3, <2>4 DEF t
<1> QED BY <1>5, <1>6

LEMMA TailLands ==
    ASSUME NEW s \in Seq(Statement), s # <<>>, NEW goal, Lands(s, goal)
    PROVE  Lands(Tail(s), goal) \/ (s[1].do = "apply" /\ s[1].id = goal /\ Still(Tail(s)))
BY TailLandsAt DEF Lands

LEMMA TailDiff ==
    ASSUME NEW s \in Seq(Statement), s # <<>>, DiffOnce(s, 0)
    PROVE  DiffOnce(Tail(s), 0) /\ (s[1].do = "diff" => ~Has(Tail(s), "diff"))
<1> DEFINE t == Tail(s)
<1>1. 1 \in 1..Len(s) /\ \A i \in 1..Len(t) : i + 1 \in 1..Len(s) /\ t[i] = s[i + 1]
  BY TailIs
<1> HIDE DEF t
<1>2. \A j, k \in 1..Len(s) : s[j].do = "diff" /\ s[k].do = "diff" => j = k
  <2>1. \A j \in 1..Len(s) : j > 0
    OBVIOUS
  <2> QED BY <2>1 DEF DiffOnce
<1>3. DiffOnce(t, 0)
  <2> SUFFICES ASSUME NEW j \in 1..Len(t), NEW k \in 1..Len(t), t[j].do = "diff", t[k].do = "diff"
               PROVE  j = k
    BY DEF DiffOnce
  <2>1. j + 1 = k + 1
    BY <1>1, <1>2
  <2> QED BY <2>1
<1>4. ASSUME s[1].do = "diff", NEW i \in 1..Len(t), t[i].do = "diff" PROVE FALSE
  <2>1. i + 1 = 1
    BY <1>1, <1>2, <1>4
  <2> QED BY <2>1
<1> QED BY <1>3, <1>4 DEF Has, t

-----------------------------------------------------------------------------
(* One command and its database *)

CommandTypes ==
    [op : {"none", "apply", "dev", "create", "squash", "extract"}, todo : Seq(Statement),
     from : Revisions, goal : Revisions, single : BOOLEAN, backed : BOOLEAN]
LocalTyped(c, r, t, x) ==
    c \in CommandTypes /\ x \in Revisions /\ r \in Revisions \cup {NoId} /\ t \in Revisions \cup {NoId}
\* The first statement is done, and backed says whether there is a backup.
Popping(c, c2, what, backed) ==
    /\ c.todo # <<>> /\ c.todo[1].do = what
    /\ c2 = [c EXCEPT !.todo = Tail(c.todo), !.backed = backed]
\* What may follow a statement that writes files; a queue that says so, and the
\* revisions that a new command will write
Sequel(what) ==
    IF what \in {"removeOld", "copy"} THEN {}
    ELSE IF what = "writeSquashed" THEN {"removeOld"} ELSE Whats
InOrder(s) == \A i, j \in 1..Len(s) : i < j => s[j].do \in Sequel(s[i].do)
Ready(todo, goal) ==
    /\ InOrder(todo) /\ (Has(todo, "removeOld") => Has(todo, "writeSquashed"))
    /\ Has(todo, "write") => Ancestors(goal) \ {goal} \subseteq files
    /\ Has(todo, "writeSquashed") => Ancestors(goal) \subseteq {goal}
\* What one step does to a command, what its rewrite and its transaction return to, its database
Starting(c, r, t, x, c2, r2, t2, x2) ==
    /\ c.op = "none" /\ c2.op # "none" /\ r2 = r /\ t2 = t /\ x2 = x /\ Fits(c2, NoId, NoId, x)
    /\ Ready(c2.todo, c2.goal)
Quiet1(c, r, t, x, c2, r2, t2, x2) ==
    \E what \in Whats \ {"begin", "commit", "apply", "rewrite", "commitRewrite", "diff"} :
       /\ Popping(c, c2, what, c.backed \/ what \in {"backup", "backupUnlessDone"})
       /\ what = "writeSquashed" => intended' = c.goal /\ c.goal \in files'
       /\ r2 = r /\ t2 = t /\ x2 = x
Transacting(c, r, t, x, c2, r2, t2, x2) ==
    /\ \/ Popping(c, c2, "begin", c.backed) /\ t2 = x
       \/ Popping(c, c2, "commit", c.backed) /\ t2 = NoId
    /\ r2 = r /\ x2 = x
Moves(c, r, t, x, c2, r2, t2, x2) ==
    /\ t2 = t
    /\ \/ Popping(c, c2, "apply", c.backed) /\ x2 = c.todo[1].id /\ r2 = r
       \/ Popping(c, c2, "rewrite", c.backed) /\ x2 = <<>> /\ r2 = x
       \/ Popping(c, c2, "commitRewrite", c.backed) /\ x2 = x /\ r2 = NoId
Differs(c, r, t, x, c2, r2, t2, x2) ==
    /\ r2 = r /\ t2 = t
    /\ \/ Popping(c, c2, "diff", c.backed) /\ x2 = x
       \/ /\ Popping(c, c2, "diff", c.backed \/ (r = NoId /\ ~SkipBackup))
          /\ SchemaOf(x2) # SchemaOf(x)
Ending(c, r, t, x, c2, r2, t2, x2) ==
    /\ c2 = NoCommand
    /\ \/ /\ c.todo # <<>> /\ r2 = NoId /\ t2 = NoId
          /\ x2 = IF t # NoId THEN t ELSE IF r # NoId THEN r ELSE x
       \/ c.todo = <<>> /\ r2 = r /\ t2 = t /\ x2 = x
\* What is to be shown of it
Safely(c, x, c2, x2) ==
    /\ x2 # x /\ c.op \in {"apply", "dev"} /\ ~SkipBackup => c2.backed \/ c2.op = "none"
    /\ c.single /\ c2.op = "none" => x2 \in {c.from, c.goal}
    /\ /\ c.op = "dev" /\ c.todo # <<>> /\ c2.todo = <<>> /\ c2.op = "dev"
       /\ c.goal \notin Ancestors(c.from) /\ SchemaOf(x2) = SchemaOf(c.goal)
       => x2 = c.goal

LEMMA NoCommandFits == ASSUME NEW x PROVE Fits(NoCommand, NoId, NoId, x)
<1>1. Kinds(<<>>, Writing)
  BY DEF Kinds
<1> QED BY <1>1, OtherFits DEF NoCommand

LEMMA PopIs ==
    ASSUME NEW c \in CommandTypes, NEW what, NEW backed \in BOOLEAN, NEW c2, Popping(c, c2, what, backed)
    PROVE  /\ c2 \in CommandTypes /\ c2.todo = Tail(c.todo) /\ c2.op = c.op /\ c2.from = c.from
           /\ c2.goal = c.goal /\ c2.single = c.single /\ c2.backed = backed
           /\ c.todo \in Seq(Statement) /\ c.todo # <<>> /\ c.todo[1].do = what
<1>1. c.todo \in Seq(Statement) /\ c.todo # <<>>
  BY DEF CommandTypes, Popping
<1>2. Tail(c.todo) \in Seq(Statement)
  BY <1>1, TailIs
<1> QED BY <1>1, <1>2 DEF Popping, CommandTypes

\* Of a single transaction, and of a dev mode command, what the first statement leaves
LEMMA StartingFits ==
    ASSUME NEW c, NEW r, NEW t, NEW x, NEW c2, NEW r2, NEW t2, NEW x2, LocalTyped(c, r, t, x),
           Fits(c, r, t, x), c.op = "none" => c.todo = <<>>,
           Starting(c, r, t, x, c2, r2, t2, x2)
    PROVE  Fits(c2, r2, t2, x2) /\ Safely(c, x, c2, x2)
<1>1. c.todo = <<>>
  BY DEF Starting
<1>2. r = NoId /\ t = NoId
  BY <1>1 DEF Fits, SessionFits, Has
<1> QED BY <1>1, <1>2 DEF Starting, Safely

LEMMA EndingFits ==
    ASSUME NEW c, NEW r, NEW t, NEW x, NEW c2, NEW r2, NEW t2, NEW x2, LocalTyped(c, r, t, x),
           Fits(c, r, t, x), Ending(c, r, t, x, c2, r2, t2, x2)
    PROVE  Fits(c2, r2, t2, x2) /\ Safely(c, x, c2, x2)
<1>1. r2 = NoId /\ t2 = NoId
  BY DEF Ending, Fits, SessionFits, Has
<1>2. Fits(c2, r2, t2, x2)
  BY <1>1, NoCommandFits DEF Ending
<1>3. c2.op = "none"
  BY DEF Ending, NoCommand
<1>4. ASSUME c.single PROVE x2 \in {c.from, c.goal}
  <2>1. /\ Reaches(c, x)
        /\ \/ Has(c.todo, "begin") /\ t = NoId /\ r = NoId /\ x = c.from
           \/ ~Has(c.todo, "begin") /\ Has(c.todo, "commit") /\ t = c.from
           \/ Kinds(c.todo, {"after"}) /\ t = NoId /\ r = NoId
    BY <1>4 DEF Fits, SingleFits
  <2>2. c.from # NoId
    BY NoIdIsNone DEF LocalTyped, CommandTypes
  <2>3. CASE Has(c.todo, "begin") /\ t = NoId /\ r = NoId /\ x = c.from
    BY <2>3 DEF Ending
  <2>4. CASE ~Has(c.todo, "begin") /\ Has(c.todo, "commit") /\ t = c.from
    BY <2>2, <2>4 DEF Ending, Has
  <2>5. CASE Kinds(c.todo, {"after"}) /\ t = NoId /\ r = NoId
    <3>1. ~Lands(c.todo, c.goal)
      BY <2>5 DEF Kinds, Lands, LandsAt
    <3> QED BY <2>1, <2>5, <3>1 DEF Reaches, Ending
  <2> QED BY <2>1, <2>3, <2>4, <2>5
<1> QED BY <1>2, <1>3, <1>4 DEF Safely

\* The parts of Fits that every statement keeps in the same way
LEMMA PopSession ==
    ASSUME NEW c \in CommandTypes, NEW what, NEW backed \in BOOLEAN, NEW c2,
           Popping(c, c2, what, backed), NEW r, NEW t, NEW r2, NEW t2, SessionFits(c, r, t),
           r2 = NoId \/ what = "rewrite" \/ (r2 = r /\ what # "commitRewrite"),
           t2 = NoId \/ what = "begin" \/ (t2 = t /\ what # "commit")
    PROVE  SessionFits(c2, r2, t2)
<1> DEFINE s == c.todo
<1>1. c2.todo = Tail(s) /\ s \in Seq(Statement) /\ s # <<>> /\ s[1].do = what
  BY PopIs
<1>2. /\ Balanced(s) /\ (r = NoId \/ Has(s, "commitRewrite"))
      /\ Paired(s, "begin", "commit") /\ (t = NoId \/ Has(s, "commit"))
  BY DEF SessionFits
<1> HIDE DEF s
<1>3. Balanced(Tail(s)) /\ (what = "rewrite" => Has(Tail(s), "commitRewrite"))
  BY <1>1, <1>2, TailPaired DEF Balanced
<1>4. Paired(Tail(s), "begin", "commit") /\ (what = "begin" => Has(Tail(s), "commit"))
  BY <1>1, <1>2, TailPaired
<1>5. r2 = NoId \/ Has(Tail(s), "commitRewrite")
  BY <1>1, <1>2, <1>3, TailHas
<1>6. t2 = NoId \/ Has(Tail(s), "commit")
  BY <1>1, <1>2, <1>4, TailHas
<1> QED BY <1>1, <1>3, <1>4, <1>5, <1>6 DEF SessionFits

BackupKept(c, what, backed, r, r2) ==
    /\ c.backed => backed
    /\ what \in {"backup", "backupUnlessDone"} => backed
    /\ r2 = NoId \/ r2 = r \/ what = "rewrite"
LEMMA PopBackup ==
    ASSUME NEW c \in CommandTypes, NEW what, NEW backed \in BOOLEAN, NEW c2,
           Popping(c, c2, what, backed), NEW r, NEW r2, BackupFits(c, r),
           BackupKept(c, what, backed, r, r2)
    PROVE  /\ BackupFits(c2, r2)
           /\ c.op \in {"apply", "dev"} /\ ~SkipBackup /\ what \in Moving => backed
<1> USE DEF BackupKept
<1> DEFINE s == c.todo
<1>1. /\ c2.todo = Tail(s) /\ s \in Seq(Statement) /\ s # <<>> /\ s[1].do = what
      /\ c2.backed = backed /\ c2.op = c.op
  BY PopIs
<1> HIDE DEF s
<1>2. CASE c.backed
  BY <1>1, <1>2 DEF BackupFits
<1>3. CASE ~c.backed
  <2> SUFFICES ASSUME c.op \in {"apply", "dev"}, ~SkipBackup, ~backed
               PROVE  r2 = NoId /\ Guarded(Tail(s)) /\ what \notin Moving
    BY <1>1 DEF BackupFits
  <2>1. r = NoId /\ Guarded(s)
    BY <1>3 DEF BackupFits, s
  <2>2. Guarded(Tail(s)) /\ what \notin Moving
    BY <1>1, <2>1, TailGuarded
  <2> QED BY <2>1, <2>2 DEF Moving
<1> QED BY <1>2, <1>3

SingleKept(c, what, r, t, x, r2, t2, x2) ==
    /\ what = "begin" => t2 = x
    /\ what = "commit" => t2 = NoId
    /\ what \notin {"begin", "commit"} => t2 = t
    /\ what \notin {"rewrite", "commitRewrite"} => r2 = r
    /\ what = "apply" => x2 = c.todo[1].id
    /\ what \notin Moving \cup {"diff"} => x2 = x
LEMMA PopSingle ==
    ASSUME NEW c \in CommandTypes, NEW what, NEW backed \in BOOLEAN, NEW c2,
           Popping(c, c2, what, backed), NEW r, NEW t, NEW x, NEW r2, NEW t2, NEW x2,
           SessionFits(c, r, t), SessionFits(c2, r2, t2), SingleFits(c, r, t, x),
           SingleKept(c, what, r, t, x, r2, t2, x2)
    PROVE  SingleFits(c2, r2, t2, x2)
<1> USE DEF SingleKept
<1>0. /\ c2.todo = Tail(c.todo) /\ c2.op = c.op /\ c2.from = c.from
      /\ c2.goal = c.goal /\ c2.single = c.single
      /\ c.todo \in Seq(Statement) /\ c.todo # <<>> /\ c.todo[1].do = what
  BY PopIs
<1> SUFFICES ASSUME c.single PROVE SingleFits(c2, r2, t2, x2)
  BY <1>0 DEF SingleFits
<1> DEFINE s == c.todo
           u == Tail(s)
<1>1. /\ c2.todo = u /\ s \in Seq(Statement) /\ s # <<>> /\ s[1].do = what
      /\ c2.op = c.op /\ c2.from = c.from /\ c2.goal = c.goal /\ c2.single = c.single
  BY <1>0
<1>2. /\ c.op = "apply" /\ Ordered(s) /\ Reaches(c, x)
      /\ \/ Has(s, "begin") /\ t = NoId /\ r = NoId /\ x = c.from
         \/ ~Has(s, "begin") /\ Has(s, "commit") /\ t = c.from
         \/ Kinds(s, {"after"}) /\ t = NoId /\ r = NoId
  BY DEF SingleFits
<1>3. Ordered(u) /\ what \in Follow("before") /\ Kinds(u, Follow(what)) /\ 1 \in 1..Len(s)
  BY <1>1, <1>2, TailOrdered, TailIs
<1>4. what # "diff" /\ u \in Seq(Statement)
  BY <1>1, <1>3, TailIs DEF Follow
<1>5. Reaches(c2, x2)
  <2>1. CASE Lands(s, c.goal)
    <3>1. Lands(u, c.goal) \/ (what = "apply" /\ s[1].id = c.goal /\ Still(u))
      BY <1>1, <2>1, TailLands
    <3> QED BY <1>1, <3>1 DEF Reaches
  <2>2. CASE Still(s) /\ x \in {c.from, c.goal}
    <3>1. Still(u) /\ what \notin Moving
      BY <1>1, <2>2, TailStill
    <3> QED BY <1>1, <1>4, <2>2, <3>1 DEF Reaches
  <2> QED BY <1>2, <2>1, <2>2 DEF Reaches
<1>6. CASE Has(s, "begin") /\ t = NoId /\ r = NoId /\ x = c.from
  <2>1. CASE what = "begin"
    <3>1. ~Has(u, "begin")
      BY <1>3, <2>1 DEF Has, Kinds, Follow
    <3>2. Has(u, "commit")
      BY <1>1, <2>1, TailPaired DEF SessionFits
    <3> QED BY <1>1, <1>2, <1>3, <1>5, <1>6, <2>1, <3>1, <3>2 DEF SingleFits
  <2>2. CASE what # "begin"
    <3>1. Has(u, "begin")
      BY <1>1, <1>6, <2>2, TailHas
    <3>2. "begin" \in Follow(what)
      BY <1>3, <3>1 DEF Has, Kinds
    <3>3. what \in {"backup", "before"}
      BY <3>2 DEF Follow
    <3>4. t2 = t /\ r2 = r /\ x2 = x
      BY <3>3 DEF Moving
    <3> QED BY <1>1, <1>2, <1>3, <1>5, <1>6, <3>1, <3>4 DEF SingleFits
  <2> QED BY <2>1, <2>2
<1>7. CASE ~Has(s, "begin") /\ Has(s, "commit") /\ t = c.from
  <2>1. what # "begin" /\ ~Has(u, "begin")
    BY <1>1, <1>3, <1>7, TailHas DEF Has
  <2>2. CASE what = "commit"
    <3>1. Kinds(u, {"after"})
      BY <1>3, <2>2 DEF Follow
    <3>2. r2 = NoId
      BY <1>1, <3>1 DEF SessionFits, Has, Kinds
    <3> QED BY <1>1, <1>2, <1>3, <1>5, <2>2, <3>1, <3>2 DEF SingleFits
  <2>3. CASE what # "commit"
    <3>1. Has(u, "commit") /\ t2 = t
      BY <1>1, <1>7, <2>1, <2>3, TailHas
    <3> QED BY <1>1, <1>2, <1>3, <1>5, <1>7, <2>1, <3>1 DEF SingleFits
  <2> QED BY <2>2, <2>3
<1>8. CASE Kinds(s, {"after"}) /\ t = NoId /\ r = NoId
  <2>1. what = "after"
    BY <1>1, <1>3, <1>8 DEF Kinds
  <2>2. Kinds(u, {"after"})
    BY <1>1, <1>8, TailIs DEF Kinds
  <2> QED BY <1>1, <1>2, <1>3, <1>5, <1>8, <2>1, <2>2 DEF SingleFits, Moving
<1> QED BY <1>2, <1>6, <1>7, <1>8

LEMMA PopDev ==
    ASSUME NEW c \in CommandTypes, NEW what, NEW backed \in BOOLEAN, NEW c2,
           Popping(c, c2, what, backed), NEW x, NEW x2, DevFits(c, x),
           what = "apply" => x2 = c.todo[1].id, what \notin Moving \cup {"diff"} => x2 = x,
           what = "diff" => x2 = x \/ SchemaOf(x2) # SchemaOf(x)
    PROVE  DevFits(c2, x2)
<1>0. /\ c2.todo = Tail(c.todo) /\ c2.op = c.op /\ c2.from = c.from
      /\ c2.goal = c.goal /\ c2.single = c.single
      /\ c.todo \in Seq(Statement) /\ c.todo # <<>> /\ c.todo[1].do = what
  BY PopIs
<1> DEFINE s == c.todo
           u == Tail(s)
<1>1. /\ c2.todo = u /\ s \in Seq(Statement) /\ s # <<>> /\ s[1].do = what
      /\ c2.op = c.op /\ c2.from = c.from /\ c2.goal = c.goal
  BY <1>0
<1> SUFFICES ASSUME c.op = "dev", c.goal \notin Ancestors(c.from), c.goal # <<>>
             PROVE  \/ \E i \in 1..Len(u) : LandsAt(u, c.goal, i) /\ DiffOnce(u, i)
                    \/ Still(u) /\ DiffOnce(u, 0) /\ x2 = c.goal
                    \/ Still(u) /\ ~Has(u, "diff") /\ SchemaOf(x2) # SchemaOf(c.goal)
  BY <1>1 DEF DevFits
<1>2. \/ \E i \in 1..Len(s) : LandsAt(s, c.goal, i) /\ DiffOnce(s, i)
      \/ Still(s) /\ DiffOnce(s, 0) /\ x = c.goal
      \/ Still(s) /\ ~Has(s, "diff") /\ SchemaOf(x) # SchemaOf(c.goal)
  BY DEF DevFits
<1> HIDE DEF u
<1>3. CASE \E i \in 1..Len(s) : LandsAt(s, c.goal, i) /\ DiffOnce(s, i)
  <2>1. PICK i \in 1..Len(s) : LandsAt(s, c.goal, i) /\ DiffOnce(s, i)
    BY <1>3
  <2>2. CASE i = 1
    <3>1. what = "apply" /\ s[1].id = c.goal /\ Still(u) /\ DiffOnce(u, 0)
      BY <1>1, <2>1, <2>2, TailLandsAt DEF u
    <3> QED BY <3>1
  <2>3. CASE i # 1
    <3>1. i - 1 \in 1..Len(u) /\ LandsAt(u, c.goal, i - 1) /\ DiffOnce(u, i - 1)
      BY <1>1, <2>1, <2>3, TailLandsAt DEF u
    <3> QED BY <3>1
  <2> QED BY <2>2, <2>3
<1>4. CASE Still(s) /\ DiffOnce(s, 0) /\ x = c.goal
  <2>1. Still(u) /\ what \notin Moving
    BY <1>1, <1>4, TailStill DEF u
  <2>2. DiffOnce(u, 0) /\ (what = "diff" => ~Has(u, "diff"))
    BY <1>1, <1>4, TailDiff DEF u
  <2> QED BY <1>4, <2>1, <2>2
<1>5. CASE Still(s) /\ ~Has(s, "diff") /\ SchemaOf(x) # SchemaOf(c.goal)
  <2>1. Still(u) /\ what \notin Moving
    BY <1>1, <1>5, TailStill DEF u
  <2>2. what # "diff" /\ ~Has(u, "diff")
    BY <1>1, <1>5, TailHas, TailIs DEF u, Has
  <2> QED BY <1>5, <2>1, <2>2
<1> QED BY <1>2, <1>3, <1>4, <1>5

\* A dev mode command that is done has brought the database to its goal or to another schema.
LEMMA DoneDev ==
    ASSUME NEW c2, NEW x2 \in Revisions, DevFits(c2, x2), c2.op = "dev", c2.todo = <<>>,
           c2.goal \notin Ancestors(c2.from), SchemaOf(x2) = SchemaOf(c2.goal)
    PROVE  x2 = c2.goal
<1>1. CASE c2.goal = <<>>
  <2>1. SchemaOf(x2) = Empty
    BY <1>1 DEF SchemaOf
  <2>2. ASSUME x2 # <<>> PROVE FALSE
    <3>1. x2[Len(x2)] \in Migration
      BY <2>2 DEF Revisions
    <3> QED BY <2>1, <2>2, <3>1, MigrationsAssumption DEF SchemaOf, Last, Migration
  <2> QED BY <1>1, <2>2
<1>2. CASE c2.goal # <<>>
  BY <1>2 DEF DevFits
<1> QED BY <1>1, <1>2

LEMMA PoppingFits ==
    ASSUME NEW c, NEW r, NEW t, NEW x, NEW c2, NEW r2, NEW t2, NEW x2, LocalTyped(c, r, t, x),
           x2 \in Revisions, Fits(c, r, t, x),
           \/ Quiet1(c, r, t, x, c2, r2, t2, x2) \/ Transacting(c, r, t, x, c2, r2, t2, x2)
           \/ Moves(c, r, t, x, c2, r2, t2, x2) \/ Differs(c, r, t, x, c2, r2, t2, x2),
           c.todo # <<>> => c.op # "none"
    PROVE  Fits(c2, r2, t2, x2) /\ Safely(c, x, c2, x2)
<1>0. c \in CommandTypes /\ c.backed \in BOOLEAN
  BY DEF LocalTyped, CommandTypes
<1> DEFINE Popped1(what, backed) ==
          /\ Popping(c, c2, what, backed)
          /\ c.backed => backed
          /\ what \in {"backup", "backupUnlessDone"} => backed
          /\ what = "begin" => t2 = x
          /\ what = "commit" => t2 = NoId
          /\ what \notin {"begin", "commit"} => t2 = t
          /\ what = "commitRewrite" => r2 = NoId
          /\ what \notin {"rewrite", "commitRewrite"} => r2 = r
          /\ what = "apply" => x2 = c.todo[1].id
          /\ what \notin Moving \cup {"diff"} => x2 = x
          /\ what = "diff" => \/ x2 = x
                              \/ /\ SchemaOf(x2) # SchemaOf(x)
                                 /\ r = NoId /\ ~SkipBackup => backed
<1>1. \E what \in Whats : \E backed \in BOOLEAN : Popped1(what, backed)
  <2>1. CASE Quiet1(c, r, t, x, c2, r2, t2, x2)
    <3>1. PICK what \in Whats \ {"begin", "commit", "apply", "rewrite", "commitRewrite", "diff"} :
             /\ Popping(c, c2, what, c.backed \/ what \in {"backup", "backupUnlessDone"})
             /\ r2 = r /\ t2 = t /\ x2 = x
      BY <2>1 DEF Quiet1
    <3>2. PICK backed \in BOOLEAN : backed = (c.backed \/ what \in {"backup", "backupUnlessDone"})
      OBVIOUS
    <3>3. Popped1(what, backed)
      BY <3>1, <3>2
    <3> HIDE DEF Popped1
    <3> QED BY <3>3
  <2>2. CASE Transacting(c, r, t, x, c2, r2, t2, x2)
    <3>1. CASE Popping(c, c2, "begin", c.backed) /\ t2 = x
      <4>0. "begin" \in Whats
        BY DEF Whats
      <4>1. Popped1("begin", c.backed)
        BY <2>2, <3>1 DEF Transacting, Moving
      <4> HIDE DEF Popped1
      <4> QED BY <1>0, <4>0, <4>1
    <3>2. CASE Popping(c, c2, "commit", c.backed) /\ t2 = NoId
      <4>0. "commit" \in Whats
        BY DEF Whats
      <4>1. Popped1("commit", c.backed)
        BY <2>2, <3>2 DEF Transacting, Moving
      <4> HIDE DEF Popped1
      <4> QED BY <1>0, <4>0, <4>1
    <3> QED BY <2>2, <3>1, <3>2 DEF Transacting
  <2>3. CASE Moves(c, r, t, x, c2, r2, t2, x2)
    <3>1. CASE Popping(c, c2, "apply", c.backed) /\ x2 = c.todo[1].id /\ r2 = r
      <4>0. "apply" \in Whats
        BY DEF Whats
      <4>1. Popped1("apply", c.backed)
        BY <2>3, <3>1 DEF Moves, Moving
      <4> HIDE DEF Popped1
      <4> QED BY <1>0, <4>0, <4>1
    <3>2. CASE Popping(c, c2, "rewrite", c.backed) /\ x2 = <<>> /\ r2 = x
      <4>0. "rewrite" \in Whats
        BY DEF Whats
      <4>1. Popped1("rewrite", c.backed)
        BY <2>3, <3>2 DEF Moves, Moving
      <4> HIDE DEF Popped1
      <4> QED BY <1>0, <4>0, <4>1
    <3>3. CASE Popping(c, c2, "commitRewrite", c.backed) /\ x2 = x /\ r2 = NoId
      <4>0. "commitRewrite" \in Whats
        BY DEF Whats
      <4>1. Popped1("commitRewrite", c.backed)
        BY <2>3, <3>3 DEF Moves, Moving
      <4> HIDE DEF Popped1
      <4> QED BY <1>0, <4>0, <4>1
    <3> QED BY <2>3, <3>1, <3>2, <3>3 DEF Moves
  <2>4. CASE Differs(c, r, t, x, c2, r2, t2, x2)
    <3>1. CASE Popping(c, c2, "diff", c.backed) /\ x2 = x
      <4>0. "diff" \in Whats
        BY DEF Whats
      <4>1. Popped1("diff", c.backed)
        BY <2>4, <3>1 DEF Differs
      <4> HIDE DEF Popped1
      <4> QED BY <1>0, <4>0, <4>1
    <3>2. CASE /\ Popping(c, c2, "diff", c.backed \/ (r = NoId /\ ~SkipBackup))
               /\ SchemaOf(x2) # SchemaOf(x)
      <4>1. PICK backed \in BOOLEAN : backed = (c.backed \/ (r = NoId /\ ~SkipBackup))
        OBVIOUS
      <4>2. Popped1("diff", backed)
        BY <2>4, <3>2, <4>1 DEF Differs
      <4>3. "diff" \in Whats
        BY DEF Whats
      <4> HIDE DEF Popped1
      <4> QED BY <4>2, <4>3
    <3> QED BY <2>4, <3>1, <3>2 DEF Differs
  <2> QED BY <2>1, <2>2, <2>3, <2>4
<1>11. PICK what \in Whats, backed \in BOOLEAN : Popped1(what, backed)
  BY <1>1
<1>12. /\ Popping(c, c2, what, backed) /\ (c.backed => backed)
       /\ what \in {"backup", "backupUnlessDone"} => backed
  BY <1>11
<1>13. /\ what = "begin" => t2 = x
       /\ what = "commit" => t2 = NoId
       /\ what \notin {"begin", "commit"} => t2 = t
       /\ what = "commitRewrite" => r2 = NoId
       /\ what \notin {"rewrite", "commitRewrite"} => r2 = r
       /\ what = "apply" => x2 = c.todo[1].id
       /\ what \notin Moving \cup {"diff"} => x2 = x
  BY <1>11
<1>14. what = "diff" => x2 = x \/ (SchemaOf(x2) # SchemaOf(x) /\ (r = NoId /\ ~SkipBackup => backed))
  BY <1>11
<1>15. /\ r2 = NoId \/ what = "rewrite" \/ (r2 = r /\ what # "commitRewrite")
       /\ t2 = NoId \/ what = "begin" \/ (t2 = t /\ what # "commit")
       /\ r2 = NoId \/ r2 = r \/ what = "rewrite"
       /\ what = "diff" => x2 = x \/ SchemaOf(x2) # SchemaOf(x)
  BY <1>13, <1>14
<1> HIDE DEF Popped1
<1>2. SessionFits(c, r, t) /\ BackupFits(c, r) /\ SingleFits(c, r, t, x) /\ DevFits(c, x)
  BY DEF Fits
<1>3. SessionFits(c2, r2, t2)
  BY <1>0, <1>2, <1>12, <1>15, PopSession
<1>4. /\ BackupFits(c2, r2)
      /\ c.op \in {"apply", "dev"} /\ ~SkipBackup /\ what \in Moving => backed
  <2>1. BackupKept(c, what, backed, r, r2)
    BY <1>12, <1>15 DEF BackupKept
  <2>2. backed \in BOOLEAN
    BY <1>11
  <2>3. c \in CommandTypes /\ Popping(c, c2, what, backed) /\ BackupFits(c, r)
    BY <1>0, <1>2, <1>12
  <2> QED BY <2>1, <2>2, <2>3, PopBackup
<1>5. SingleFits(c2, r2, t2, x2)
  <2>1. SingleKept(c, what, r, t, x, r2, t2, x2)
    BY <1>13 DEF SingleKept
  <2>2. backed \in BOOLEAN
    BY <1>11
  <2> QED BY <1>0, <1>2, <1>3, <1>12, <2>1, <2>2, PopSingle
<1>6. DevFits(c2, x2)
  BY <1>0, <1>2, <1>12, <1>13, <1>15, PopDev
<1>7. /\ c2.op = c.op /\ c2.goal = c.goal /\ c2.from = c.from /\ c2.backed = backed
      /\ c.todo # <<>>
  BY <1>0, <1>12, PopIs
<1>8. ASSUME x2 # x, c.op \in {"apply", "dev"}, ~SkipBackup PROVE backed
  <2>1. what \in Moving \/ what = "diff"
    BY <1>13, <1>8
  <2>2. CASE what = "diff"
    BY <1>2, <1>8, <1>12, <1>14, <2>2 DEF BackupFits
  <2> QED BY <1>4, <1>8, <2>1, <2>2
<1>9. c2.op # "none"
  BY <1>7
<1>10. /\ c.op = "dev" /\ c.todo # <<>> /\ c2.todo = <<>> /\ c2.op = "dev"
       /\ c.goal \notin Ancestors(c.from) /\ SchemaOf(x2) = SchemaOf(c.goal)
       => x2 = c.goal
  BY <1>6, <1>7, DoneDev
<1> QED BY <1>3, <1>4, <1>5, <1>6, <1>7, <1>8, <1>9, <1>10 DEF Fits, Safely

LocalMove(c, r, t, x, c2, r2, t2, x2) ==
    \/ c2 = c /\ r2 = r /\ t2 = t /\ x2 = x
    \/ Starting(c, r, t, x, c2, r2, t2, x2)
    \/ Quiet1(c, r, t, x, c2, r2, t2, x2) \/ Transacting(c, r, t, x, c2, r2, t2, x2)
    \/ Moves(c, r, t, x, c2, r2, t2, x2) \/ Differs(c, r, t, x, c2, r2, t2, x2)
    \/ Ending(c, r, t, x, c2, r2, t2, x2)

LEMMA LocalFits ==
    ASSUME NEW c, NEW r, NEW t, NEW x, NEW c2, NEW r2, NEW t2, NEW x2, LocalTyped(c, r, t, x),
           x2 \in Revisions, Fits(c, r, t, x), c.op = "none" => c.todo = <<>>,
           LocalMove(c, r, t, x, c2, r2, t2, x2)
    PROVE  Fits(c2, r2, t2, x2) /\ Safely(c, x, c2, x2)
<1>1. CASE c2 = c /\ r2 = r /\ t2 = t /\ x2 = x
  BY <1>1 DEF Fits, SingleFits, Safely
<1>2. CASE Starting(c, r, t, x, c2, r2, t2, x2)
  BY <1>2, StartingFits
<1>3. CASE \/ Quiet1(c, r, t, x, c2, r2, t2, x2) \/ Transacting(c, r, t, x, c2, r2, t2, x2)
           \/ Moves(c, r, t, x, c2, r2, t2, x2) \/ Differs(c, r, t, x, c2, r2, t2, x2)
  <2>1. c.todo # <<>> => c.op # "none"
    OBVIOUS
  <2> QED BY <1>3, <2>1, PoppingFits
<1>4. CASE Ending(c, r, t, x, c2, r2, t2, x2)
  BY <1>4, EndingFits
<1> QED BY <1>1, <1>2, <1>3, <1>4 DEF LocalMove

-----------------------------------------------------------------------------
(* The directory and all the databases *)

Naming == {"write", "writeFixup", "writeSquashed"}
SessionsTyped ==
    /\ db \in [Databases -> Revisions]
    /\ rewriting \in [Databases -> Revisions \cup {NoId}]
    /\ started \in [Databases -> Revisions \cup {NoId}]
CommandsTyped ==
    /\ cmd \in [Databases -> CommandTypes]
    /\ \A d \in Databases :
          /\ cmd[d].op = "none" => cmd[d].todo = <<>>
          /\ \A what \in Naming : Has(cmd[d].todo, what) => cmd[d].goal # <<>>
MigrationsTyped == src \in Schemas /\ DirectoryTyped /\ SessionsTyped /\ CommandsTyped
MigrationsInductive ==
    /\ MigrationsTyped
    /\ \A d \in Databases : Fits(cmd[d], rewriting[d], started[d], db[d])
StepOf(d) ==
    LocalMove(cmd[d], rewriting[d], started[d], db[d], cmd'[d], rewriting'[d], started'[d], db'[d])

LEMMA MigrationsStart == MigrationsInit => MigrationsInductive
<1> SUFFICES ASSUME MigrationsInit PROVE MigrationsInductive
  OBVIOUS
<1>1. <<>> \in Revisions /\ <<>> \in Seq(Statement) /\ NoCommand \in CommandTypes
  <2>1. <<>> \in Revisions /\ <<>> \in Seq(Statement)
    BY DEF Revisions
  <2> QED BY <2>1 DEF NoCommand, CommandTypes
<1>2. DirectoryTyped
  BY FS_EmptySet DEF MigrationsInit, DirectoryTyped
<1>3. SessionsTyped
  BY <1>1 DEF MigrationsInit, SessionsTyped
<1>4. CommandsTyped
  BY <1>1 DEF MigrationsInit, CommandsTyped, NoCommand, Has
<1>5. \A d \in Databases : Fits(cmd[d], rewriting[d], started[d], db[d])
  BY NoCommandFits DEF MigrationsInit
<1> QED BY <1>2, <1>3, <1>4, <1>5 DEF MigrationsInductive, MigrationsTyped, MigrationsInit

\* A command that is given or ended, one whose first statement is done: the others stay.
LEMMA CommandChanges ==
    ASSUME CommandsTyped, NEW d \in Databases, NEW c \in CommandTypes, cmd' = [cmd EXCEPT ![d] = c],
           c.op = "none" => c.todo = <<>>,
           \A what \in Naming : Has(c.todo, what) => c.goal # <<>>
    PROVE  CommandsTyped' /\ cmd'[d] = c /\ \A e \in Databases \ {d} : cmd'[e] = cmd[e]
BY DEF CommandsTyped

LEMMA CommandPops ==
    ASSUME CommandsTyped, NEW d \in Databases, NEW what, Now(d, what), NEW backed \in BOOLEAN,
           cmd' = [Popped(d) EXCEPT ![d].backed = backed] \/ (backed = cmd[d].backed /\ Pop(d))
    PROVE  /\ CommandsTyped' /\ Popping(cmd[d], cmd'[d], what, backed)
           /\ \A e \in Databases \ {d} : cmd'[e] = cmd[e]
<1>1. PICK c2 : c2 = [cmd[d] EXCEPT !.todo = Tail(cmd[d].todo), !.backed = backed]
  OBVIOUS
<1>2. cmd[d] \in CommandTypes /\ cmd \in [Databases -> CommandTypes]
  BY DEF CommandsTyped
<1>3. cmd' = [cmd EXCEPT ![d] = c2]
  <2>1. CASE cmd' = [Popped(d) EXCEPT ![d].backed = backed]
    BY <1>1, <1>2, <2>1 DEF Popped
  <2>2. CASE backed = cmd[d].backed /\ Pop(d)
    <3>1. [cmd[d] EXCEPT !.todo = Tail(cmd[d].todo)] = c2
      BY <1>1, <1>2, <2>2 DEF CommandTypes
    <3> QED BY <2>2, <3>1 DEF Pop, Popped
  <2> QED BY <2>1, <2>2
<1>4. Popping(cmd[d], c2, what, backed)
  BY <1>1 DEF Popping, Now, NextOf
<1>5. /\ c2 \in CommandTypes /\ c2.todo = Tail(cmd[d].todo) /\ c2.op = cmd[d].op
      /\ c2.goal = cmd[d].goal /\ cmd[d].todo \in Seq(Statement) /\ cmd[d].todo # <<>>
  BY <1>2, <1>4, PopIs
<1>6. c2.op # "none"
  BY <1>5 DEF CommandsTyped
<1>7. \A w \in Naming : Has(c2.todo, w) => c2.goal # <<>>
  BY <1>5, TailHas DEF CommandsTyped
<1>8. CommandsTyped' /\ cmd'[d] = c2 /\ \A e \in Databases \ {d} : cmd'[e] = cmd[e]
  BY <1>3, <1>5, <1>6, <1>7, CommandChanges
<1> QED BY <1>4, <1>8

\* The others stay as they are.
Elsewhere(d) == \A e \in Databases \ {d} :
    cmd'[e] = cmd[e] /\ rewriting'[e] = rewriting[e] /\ started'[e] = started[e] /\ db'[e] = db[e]
LEMMA OneSteps ==
    ASSUME NEW d \in Databases, StepOf(d), Elsewhere(d)
    PROVE  \A e \in Databases : StepOf(e)
BY DEF StepOf, Elsewhere, LocalMove

\* A step that changes neither a database nor what its session returns to
LEMMA ServerStays ==
    ASSUME SessionsTyped, UNCHANGED server
    PROVE  SessionsTyped' /\ \A e \in Databases : rewriting'[e] = rewriting[e]
                                                  /\ started'[e] = started[e] /\ db'[e] = db[e]
BY DEF SessionsTyped, server

LEMMA DirectoryStays ==
    ASSUME DirectoryTyped, UNCHANGED <<files, fixups>> PROVE DirectoryTyped'
BY DEF DirectoryTyped

\* A command is given.
LEMMA Given ==
    ASSUME MigrationsTyped, NEW d \in Databases, NEW c \in CommandTypes, Start(d, c),
           c.op # "none", \A what \in Naming : Has(c.todo, what) => c.goal # <<>>,
           Fits(c, NoId, NoId, db[d]), Ready(c.todo, c.goal)
    PROVE  MigrationsTyped' /\ \A e \in Databases : StepOf(e)
<1>1. /\ cmd[d].op = "none" /\ cmd' = [cmd EXCEPT ![d] = c] /\ UNCHANGED <<src, files, fixups, server>>
  BY DEF Start, dir
<1>2. CommandsTyped' /\ cmd'[d] = c /\ \A e \in Databases \ {d} : cmd'[e] = cmd[e]
  BY <1>1, CommandChanges DEF MigrationsTyped
<1>3. SessionsTyped' /\ \A e \in Databases : rewriting'[e] = rewriting[e]
                                             /\ started'[e] = started[e] /\ db'[e] = db[e]
  BY <1>1, ServerStays DEF MigrationsTyped
<1>4. DirectoryTyped'
  BY <1>1, DirectoryStays DEF MigrationsTyped
<1>5. StepOf(d)
  BY <1>1, <1>2, <1>3 DEF StepOf, LocalMove, Starting
<1>6. Elsewhere(d)
  BY <1>2, <1>3 DEF Elsewhere
<1>7. MigrationsTyped'
  BY <1>1, <1>2, <1>3, <1>4 DEF MigrationsTyped
<1> QED BY <1>5, <1>6, <1>7, OneSteps

LEMMA DoIn == ASSUME NEW s \in Seq(Statement) PROVE \A i \in 1..Len(s) : s[i].do \in Whats
<1>1. \A i \in 1..Len(s) : s[i] \in Statement
  OBVIOUS
<1> QED BY <1>1 DEF Statement

LEMMA ReadyIs ==
    ASSUME NEW s \in Seq(Statement), NEW kinds, Kinds(s, kinds), kinds \cap Writing = {}, NEW goal
    PROVE  Ready(s, goal)
<1>1. \A i \in 1..Len(s) : s[i].do \in Whats /\ s[i].do \notin Writing
  BY DoIn DEF Kinds
<1> QED BY <1>1 DEF Ready, InOrder, Sequel, Has, Writing

LEMMA KindsName ==
    ASSUME NEW s, NEW kinds, Kinds(s, kinds), kinds \cap Naming = {}, NEW goal
    PROVE  \A what \in Naming : Has(s, what) => goal # <<>>
BY DEF Kinds, Has

LEMMA Applies ==
    ASSUME MigrationsTyped, NEW d \in Databases, NEW target \in files, NEW single \in BOOLEAN,
           Apply(d, target, single)
    PROVE  MigrationsTyped' /\ \A e \in Databases : StepOf(e)
<1>1. DirectoryTyped /\ db[d] \in Revisions /\ target \in Revisions /\ target # <<>> /\ <<>> \in Revisions
  BY DEF MigrationsTyped, SessionsTyped, DirectoryTyped, Apply, Revisions
<1>2. PICK todo \in
          IF db[d] \in files \cup {<<>>}
          THEN {Each(Slice(db[d], target))}
          ELSE {FlattenSeq([i \in DOMAIN p |-> Operations(p[i])]) :
                   p \in {q \in FindPath(db[d], target) : Whole(q, db[d], target)}} :
        Start(d, CommandOf("apply", Unless(SkipBackup, "backup") \o
                            Migrate(todo, single), d, target, single))
  BY DEF Apply
<1>3. todo \in Bodies(target)
  <2>1. CASE db[d] \in files \cup {<<>>}
    <3>1. todo = Each(Slice(db[d], target))
      BY <1>2, <2>1
    <3> QED BY <1>1, <3>1, SlicesLead
  <2>2. CASE db[d] \notin files \cup {<<>>}
    <3>1. PICK p \in FindPath(db[d], target) :
             Whole(p, db[d], target) /\ todo = FlattenSeq([i \in DOMAIN p |-> Operations(p[i])])
      BY <1>2, <2>2
    <3> QED BY <1>1, <3>1, PathsLead
  <2> QED BY <2>1, <2>2
<1>4. PICK c : c = [op |-> "apply", todo |-> Unless(SkipBackup, "backup") \o Migrate(todo, single),
                    from |-> db[d], goal |-> target, single |-> single, backed |-> FALSE]
  OBVIOUS
<1>5. c.todo \in Seq(Statement) /\ Kinds(c.todo, Applying) /\ Fits(c, NoId, NoId, db[d])
  BY <1>1, <1>3, <1>4, ApplyFits
<1>6. Start(d, c)
  BY <1>2, <1>4 DEF CommandOf
<1>7. c \in CommandTypes /\ c.op # "none"
  BY <1>1, <1>4, <1>5 DEF CommandTypes
<1>8. \A what \in Naming : Has(c.todo, what) => c.goal # <<>>
  <2>1. Applying \cap Naming = {}
    BY DEF Applying, Naming, Bodied
  <2> QED BY <1>5, <2>1, KindsName
<1>9. Ready(c.todo, c.goal)
  <2>1. Applying \cap Writing = {}
    BY DEF Applying, Writing, Bodied
  <2> QED BY <1>5, <2>1, ReadyIs
<1> QED BY <1>5, <1>6, <1>7, <1>8, <1>9, Given

LEMMA DevMigrates ==
    ASSUME MigrationsTyped, NEW d \in Databases, DevMigrate(d)
    PROVE  MigrationsTyped' /\ \A e \in Databases : StepOf(e)
<1>1. DirectoryTyped /\ db[d] \in Revisions /\ Latest \in Revisions /\ Readable
  BY LatestIs DEF MigrationsTyped, SessionsTyped, DevMigrate
<1>2. CASE Normal(d)
  <2>1. PICK c : c = [op |-> "dev",
                todo |-> (IF Skipped(d) = <<>> THEN <<>>
                          ELSE Unless(SkipBackup, "backup") \o Migrate(Each(Skipped(d)), FALSE))
                         \o Do("diff"),
                from |-> db[d], goal |-> Latest, single |-> FALSE, backed |-> FALSE]
    OBVIOUS
  <2>2. c.todo \in Seq(Statement) /\ Kinds(c.todo, Developing) /\ Fits(c, NoId, NoId, db[d])
    BY <1>1, <1>2, <2>1, NormalFits
  <2>3. Start(d, c)
    BY <1>2, <2>1 DEF DevMigrate, CommandOf
  <2>4. c \in CommandTypes /\ c.op # "none"
    BY <1>1, <2>1, <2>2 DEF CommandTypes
  <2>5. \A what \in Naming : Has(c.todo, what) => c.goal # <<>>
    <3>1. Developing \cap Naming = {}
      BY DEF Applying, Naming, Bodied, Developing
    <3> QED BY <2>2, <3>1, KindsName
  <2>6. Ready(c.todo, c.goal)
    <3>1. Developing \cap Writing = {}
      BY DEF Applying, Writing, Bodied, Developing
    <3> QED BY <2>2, <3>1, ReadyIs
  <2> QED BY <2>2, <2>3, <2>4, <2>5, <2>6, Given
<1>3. CASE ~Normal(d)
  <2>1. PICK c : c = [op |-> "dev",
                todo |-> Do("diff") \o Unless(SkipBackup, "backupUnlessDone") \o Do("rewrite") \o
                         Each(Slice(<<>>, Latest)) \o Do("diff") \o Do("commitRewrite"),
                from |-> db[d], goal |-> Latest, single |-> FALSE, backed |-> FALSE]
    OBVIOUS
  <2>2. Latest # <<>>
    BY <1>3 DEF Normal
  <2>3. c.todo \in Seq(Statement) /\ Kinds(c.todo, Rebasing) /\ Fits(c, NoId, NoId, db[d])
    BY <1>1, <2>1, <2>2, RebaseFits
  <2>4. Start(d, c)
    BY <1>3, <2>1 DEF DevMigrate, CommandOf
  <2>5. c \in CommandTypes /\ c.op # "none"
    BY <1>1, <2>1, <2>3 DEF CommandTypes
  <2>6. \A what \in Naming : Has(c.todo, what) => c.goal # <<>>
    <3>1. Rebasing \cap Naming = {}
      BY DEF Naming, Rebasing
    <3> QED BY <2>3, <3>1, KindsName
  <2>7. Ready(c.todo, c.goal)
    <3>1. Rebasing \cap Writing = {}
      BY DEF Writing, Rebasing
    <3> QED BY <2>3, <3>1, ReadyIs
  <2> QED BY <2>3, <2>4, <2>5, <2>6, <2>7, Given
<1> QED BY <1>2, <1>3

\* The commands that only write files
LEMMA OtherGiven ==
    ASSUME MigrationsTyped, NEW op \in {"create", "squash", "extract"}, NEW todo \in Seq(Statement),
           Kinds(todo, Writing), NEW goal \in Revisions,
           \A what \in Naming : Has(todo, what) => goal # <<>>, Ready(todo, goal),
           Start(Main, CommandOf(op, todo, Main, goal, FALSE))
    PROVE  MigrationsTyped' /\ \A e \in Databases : StepOf(e)
<1>1. Main \in Databases /\ db[Main] \in Revisions
  BY MigrationsAssumption DEF MigrationsTyped, SessionsTyped
<1>2. PICK c : c = CommandOf(op, todo, Main, goal, FALSE)
  OBVIOUS
<1>3. /\ c.op = op /\ c.todo = todo /\ c.goal = goal /\ c.single = FALSE /\ c \in CommandTypes
      /\ c.op \notin {"none", "apply", "dev"}
  BY <1>1, <1>2 DEF CommandOf, CommandTypes
<1>4. Fits(c, NoId, NoId, db[Main])
  BY <1>3, OtherFits
<1> QED BY <1>1, <1>2, <1>3, <1>4, Given


\* A statement is done that leaves the databases and their sessions alone.
LEMMA QuietSteps ==
    ASSUME MigrationsTyped, NEW d \in Databases,
           NEW what \in Whats \ {"begin", "commit", "apply", "rewrite", "commitRewrite", "diff"},
           Now(d, what), NEW backed \in BOOLEAN,
           backed = (cmd[d].backed \/ what \in {"backup", "backupUnlessDone"}),
           cmd' = [Popped(d) EXCEPT ![d].backed = backed] \/ (backed = cmd[d].backed /\ Pop(d)),
           UNCHANGED <<src, server>>, DirectoryTyped',
           what = "writeSquashed" => intended' = cmd[d].goal /\ cmd[d].goal \in files'
    PROVE  MigrationsTyped' /\ \A e \in Databases : StepOf(e)
<1>1. CommandsTyped /\ SessionsTyped /\ src \in Schemas
  BY DEF MigrationsTyped
<1>2. /\ CommandsTyped' /\ Popping(cmd[d], cmd'[d], what, backed)
      /\ \A e \in Databases \ {d} : cmd'[e] = cmd[e]
  BY <1>1, CommandPops
<1>3. SessionsTyped' /\ \A e \in Databases : rewriting'[e] = rewriting[e]
                                             /\ started'[e] = started[e] /\ db'[e] = db[e]
  BY <1>1, ServerStays
<1>4. Quiet1(cmd[d], rewriting[d], started[d], db[d], cmd'[d], rewriting'[d], started'[d], db'[d])
  BY <1>2, <1>3 DEF Quiet1
<1>5. StepOf(d) /\ Elsewhere(d)
  BY <1>2, <1>3, <1>4 DEF StepOf, LocalMove, Elsewhere
<1>6. MigrationsTyped'
  BY <1>1, <1>2, <1>3 DEF MigrationsTyped
<1> QED BY <1>5, <1>6, OneSteps

LEMMA BackupSteps ==
    ASSUME MigrationsTyped, NEW d \in Databases, Backup(d)
    PROVE  MigrationsTyped' /\ \A e \in Databases : StepOf(e)
<1>1. PICK what \in {"backup", "backupUnlessDone"} : Now(d, what)
  BY DEF Backup
<1>2. what \in Whats \ {"begin", "commit", "apply", "rewrite", "commitRewrite", "diff"}
  BY DEF Whats
<1>3. /\ cmd' = [Popped(d) EXCEPT ![d].backed = TRUE] /\ UNCHANGED <<src, server>>
      /\ UNCHANGED <<files, fixups>>
  BY DEF Backup, dir
<1>4. DirectoryTyped'
  BY <1>3, DirectoryStays DEF MigrationsTyped
<1>5. PICK backed \in BOOLEAN : backed = (cmd[d].backed \/ what \in {"backup", "backupUnlessDone"})
  OBVIOUS
<1>6. backed = TRUE
  BY <1>5
<1> QED BY <1>1, <1>2, <1>3, <1>4, <1>5, <1>6, QuietSteps

\* Every statement that only pops: hooks, and what writes files
LEMMA OnlyPops ==
    ASSUME MigrationsTyped, NEW d \in Databases, NEW what \in Writing \cup {"before", "after"},
           Now(d, what), Pop(d), UNCHANGED <<src, server>>, DirectoryTyped',
           what = "writeSquashed" => intended' = cmd[d].goal /\ cmd[d].goal \in files'
    PROVE  MigrationsTyped' /\ \A e \in Databases : StepOf(e)
<1>1. what \in Whats \ {"begin", "commit", "apply", "rewrite", "commitRewrite", "diff"}
  BY DEF Whats, Writing
<1>2. cmd[d].backed \in BOOLEAN
  BY DEF MigrationsTyped, CommandsTyped, CommandTypes
<1>3. PICK backed \in BOOLEAN : backed = cmd[d].backed
  BY <1>2
<1>4. what \notin {"backup", "backupUnlessDone"}
  BY DEF Writing
<1>5. backed = (cmd[d].backed \/ what \in {"backup", "backupUnlessDone"})
  BY <1>3, <1>4
<1> QED BY <1>1, <1>3, <1>5, QuietSteps

LEMMA HookSteps ==
    ASSUME MigrationsTyped, NEW d \in Databases, Hook(d)
    PROVE  MigrationsTyped' /\ \A e \in Databases : StepOf(e)
<1>1. PICK what \in {"before", "after"} : Now(d, what)
  BY DEF Hook
<1>2. Pop(d) /\ UNCHANGED <<src, server>> /\ UNCHANGED <<files, fixups>>
  BY DEF Hook, dir
<1>3. DirectoryTyped'
  BY <1>2, DirectoryStays DEF MigrationsTyped
<1> QED BY <1>1, <1>2, <1>3, OnlyPops

\* A statement is done that changes the database, its rewrite or its transaction.
LEMMA SessionSteps ==
    ASSUME MigrationsTyped, NEW d \in Databases, NEW what, Now(d, what), NEW backed \in BOOLEAN,
           cmd' = [Popped(d) EXCEPT ![d].backed = backed] \/ (backed = cmd[d].backed /\ Pop(d)),
           UNCHANGED <<src, dir>>, NEW r \in Revisions \cup {NoId}, NEW t \in Revisions \cup {NoId},
           NEW x \in Revisions, rewriting' = [rewriting EXCEPT ![d] = r],
           started' = [started EXCEPT ![d] = t], db' = [db EXCEPT ![d] = x],
           \A c2 : Popping(cmd[d], c2, what, backed) =>
              LocalMove(cmd[d], rewriting[d], started[d], db[d], c2, r, t, x)
    PROVE  MigrationsTyped' /\ \A e \in Databases : StepOf(e)
<1>1. CommandsTyped /\ SessionsTyped /\ DirectoryTyped /\ src \in Schemas
  BY DEF MigrationsTyped
<1>2. /\ CommandsTyped' /\ Popping(cmd[d], cmd'[d], what, backed)
      /\ \A e \in Databases \ {d} : cmd'[e] = cmd[e]
  BY <1>1, CommandPops
<1>3. /\ rewriting'[d] = r /\ started'[d] = t /\ db'[d] = x
      /\ \A e \in Databases \ {d} : rewriting'[e] = rewriting[e]
                                    /\ started'[e] = started[e] /\ db'[e] = db[e]
  BY <1>1 DEF SessionsTyped
<1>4. SessionsTyped'
  BY <1>1 DEF SessionsTyped
<1>5. DirectoryTyped' /\ src' \in Schemas
  BY <1>1, DirectoryStays DEF dir
<1>6. LocalMove(cmd[d], rewriting[d], started[d], db[d], cmd'[d], r, t, x)
  BY <1>2
<1>7. StepOf(d) /\ Elsewhere(d)
  BY <1>2, <1>3, <1>6 DEF StepOf, Elsewhere
<1>8. MigrationsTyped'
  BY <1>2, <1>4, <1>5 DEF MigrationsTyped
<1> QED BY <1>7, <1>8, OneSteps

\* What the steps of a session start from
LEMMA SessionIs ==
    ASSUME MigrationsTyped, NEW d \in Databases
    PROVE  /\ db[d] \in Revisions /\ rewriting[d] \in Revisions \cup {NoId}
           /\ started[d] \in Revisions \cup {NoId} /\ cmd[d] \in CommandTypes
           /\ cmd[d].backed \in BOOLEAN /\ src \in Schemas /\ <<>> \in Revisions
           /\ db = [db EXCEPT ![d] = db[d]] /\ rewriting = [rewriting EXCEPT ![d] = rewriting[d]]
           /\ started = [started EXCEPT ![d] = started[d]]
           /\ cmd[d].todo # <<>> => cmd[d].todo[1].id \in Revisions
<1>1. db[d] \in Revisions /\ cmd[d] \in CommandTypes /\ cmd[d].backed \in BOOLEAN /\ src \in Schemas
  BY DEF MigrationsTyped, SessionsTyped, CommandsTyped, CommandTypes
<1>2. <<>> \in Revisions
  BY DEF Revisions
<1>3. /\ rewriting[d] \in Revisions \cup {NoId} /\ started[d] \in Revisions \cup {NoId}
      /\ db = [db EXCEPT ![d] = db[d]] /\ rewriting = [rewriting EXCEPT ![d] = rewriting[d]]
      /\ started = [started EXCEPT ![d] = started[d]]
  BY DEF MigrationsTyped, SessionsTyped
<1>4. cmd[d].todo # <<>> => cmd[d].todo[1].id \in Revisions
  <2>1. cmd[d].todo \in Seq(Statement)
    BY <1>1 DEF CommandTypes
  <2>2. cmd[d].todo # <<>> => cmd[d].todo[1] \in Statement
    BY <2>1, TailIs
  <2> QED BY <2>2 DEF Statement
<1> QED BY <1>1, <1>2, <1>3, <1>4

LEMMA TransactionSteps ==
    ASSUME MigrationsTyped, NEW d \in Databases, Transaction(d)
    PROVE  MigrationsTyped' /\ \A e \in Databases : StepOf(e)
<1>1. PICK r \in Revisions \cup {NoId} : r = rewriting[d]
  BY SessionIs
<1>2. PICK x \in Revisions : x = db[d]
  BY SessionIs
<1>3. PICK backed \in BOOLEAN : backed = cmd[d].backed
  BY SessionIs
<1>4. /\ Pop(d) /\ UNCHANGED <<src, dir>>
      /\ rewriting' = [rewriting EXCEPT ![d] = r] /\ db' = [db EXCEPT ![d] = x]
  BY <1>1, <1>2, SessionIs DEF Transaction
<1>5. PICK what \in {"begin", "commit"}, t \in Revisions \cup {NoId} :
         /\ Now(d, what) /\ started' = [started EXCEPT ![d] = t]
         /\ t = IF what = "begin" THEN x ELSE NoId
  <2>1. CASE Now(d, "begin") /\ started' = [started EXCEPT ![d] = x]
    BY <2>1
  <2>2. CASE Now(d, "commit") /\ started' = [started EXCEPT ![d] = NoId]
    BY <2>2
  <2> QED BY <1>2, <2>1, <2>2 DEF Transaction
<1>6. \A c2 : Popping(cmd[d], c2, what, backed) =>
         LocalMove(cmd[d], rewriting[d], started[d], db[d], c2, r, t, x)
  <2> SUFFICES ASSUME NEW c2, Popping(cmd[d], c2, what, backed)
               PROVE  Transacting(cmd[d], rewriting[d], started[d], db[d], c2, r, t, x)
    BY DEF LocalMove
  <2>1. CASE what = "begin"
    BY <1>1, <1>2, <1>3, <1>5, <2>1, Zenon DEF Transacting
  <2>2. CASE what = "commit"
    <3>1. t = NoId
      BY <1>5, <2>2
    <3> QED BY <1>1, <1>2, <1>3, <2>2, <3>1, Zenon DEF Transacting
  <2> QED BY <2>1, <2>2
<1>7. Now(d, what)
  BY <1>5
<1>8. started' = [started EXCEPT ![d] = t]
  BY <1>5
<1>9. rewriting' = [rewriting EXCEPT ![d] = r] /\ db' = [db EXCEPT ![d] = x]
  BY <1>4
<1>10. UNCHANGED <<src, dir>> /\ backed = cmd[d].backed /\ Pop(d)
  BY <1>3, <1>4
<1> HIDE <1>1, <1>2, <1>3, <1>4, <1>5
<1> QED BY <1>6, <1>7, <1>8, <1>9, <1>10, SessionSteps

LEMMA ApplySteps ==
    ASSUME MigrationsTyped, NEW d \in Databases, ApplyMigration(d)
    PROVE  MigrationsTyped' /\ \A e \in Databases : StepOf(e)
<1>1. PICK r \in Revisions \cup {NoId} : r = rewriting[d]
  BY SessionIs
<1>2. PICK t \in Revisions \cup {NoId} : t = started[d]
  BY SessionIs
<1>3. PICK backed \in BOOLEAN : backed = cmd[d].backed
  BY SessionIs
<1>4. PICK x \in Revisions : x = cmd[d].todo[1].id
  BY SessionIs DEF ApplyMigration, Now
<1>5. /\ Pop(d) /\ UNCHANGED <<src, dir>> /\ Now(d, "apply")
      /\ rewriting' = [rewriting EXCEPT ![d] = r] /\ db' = [db EXCEPT ![d] = x]
      /\ started' = [started EXCEPT ![d] = t]
  BY <1>1, <1>2, <1>4, SessionIs DEF ApplyMigration, NextOf
<1>6. \A c2 : Popping(cmd[d], c2, "apply", backed) =>
         LocalMove(cmd[d], rewriting[d], started[d], db[d], c2, r, t, x)
  BY <1>1, <1>2, <1>3, <1>4 DEF LocalMove, Moves
<1> QED BY <1>3, <1>5, <1>6, SessionSteps

LEMMA RewriteSteps ==
    ASSUME MigrationsTyped, NEW d \in Databases, StartRewrite(d) \/ CommitRewrite(d)
    PROVE  MigrationsTyped' /\ \A e \in Databases : StepOf(e)
<1>2. PICK t \in Revisions \cup {NoId} : t = started[d]
  BY SessionIs
<1>3. PICK backed \in BOOLEAN : backed = cmd[d].backed
  BY SessionIs
<1>5. PICK what \in {"rewrite", "commitRewrite"}, r \in Revisions \cup {NoId}, x \in Revisions :
      /\ Pop(d) /\ UNCHANGED <<src, dir>> /\ Now(d, what)
      /\ rewriting' = [rewriting EXCEPT ![d] = r] /\ db' = [db EXCEPT ![d] = x]
      /\ started' = [started EXCEPT ![d] = t]
      /\ what = "rewrite" => r = db[d] /\ x = <<>>
      /\ what = "commitRewrite" => r = NoId /\ x = db[d]
  <2>1. CASE StartRewrite(d)
    <3>1. /\ Pop(d) /\ UNCHANGED <<src, dir>> /\ Now(d, "rewrite")
          /\ rewriting' = [rewriting EXCEPT ![d] = db[d]] /\ db' = [db EXCEPT ![d] = <<>>]
          /\ started' = [started EXCEPT ![d] = t]
      BY <1>2, <2>1, SessionIs DEF StartRewrite
    <3>2. db[d] \in Revisions \cup {NoId} /\ <<>> \in Revisions
      BY SessionIs
    <3> QED BY <3>1, <3>2
  <2>2. CASE CommitRewrite(d)
    <3>1. /\ Pop(d) /\ UNCHANGED <<src, dir>> /\ Now(d, "commitRewrite")
          /\ rewriting' = [rewriting EXCEPT ![d] = NoId] /\ db' = [db EXCEPT ![d] = db[d]]
          /\ started' = [started EXCEPT ![d] = t]
      BY <1>2, <2>2, SessionIs DEF CommitRewrite
    <3>2. NoId \in Revisions \cup {NoId} /\ db[d] \in Revisions
      BY SessionIs
    <3> QED BY <3>1, <3>2
  <2> QED BY <2>1, <2>2
<1>6. \A c2 : Popping(cmd[d], c2, what, backed) =>
         LocalMove(cmd[d], rewriting[d], started[d], db[d], c2, r, t, x)
  BY <1>2, <1>3, <1>5 DEF LocalMove, Moves
<1> QED BY <1>3, <1>5, <1>6, SessionSteps

\* A revision longer by one migration: its parent and its last migration
LEMMA LongerIs ==
    ASSUME NEW r \in Revisions, NEW m \in Migration
    PROVE  Append(r, m) \in Revisions /\ Append(r, m) # <<>> /\ Last(Append(r, m)) = m
<1>1. r \in Seq(Migration)
  BY DEF Revisions
<1>2. /\ Append(r, m) \in Seq(Migration) /\ Len(Append(r, m)) = Len(r) + 1
      /\ Append(r, m)[Len(r) + 1] = m /\ Len(r) \in Nat
  BY <1>1, AppendProperties
<1> QED BY <1>2 DEF Revisions, Last

LEMMA DiffSteps ==
    ASSUME MigrationsTyped, NEW d \in Databases, MigrateToSchema(d)
    PROVE  MigrationsTyped' /\ \A e \in Databases : StepOf(e)
<1>1. PICK r \in Revisions \cup {NoId} : r = rewriting[d]
  BY SessionIs
<1>2. PICK t \in Revisions \cup {NoId} : t = started[d]
  BY SessionIs
<1>3. /\ Now(d, "diff") /\ UNCHANGED <<src, dir>> /\ rewriting' = [rewriting EXCEPT ![d] = r]
      /\ started' = [started EXCEPT ![d] = t]
  BY <1>1, <1>2, SessionIs DEF MigrateToSchema
<1>4. CASE src = SchemaOf(db[d])
  <2>1. PICK backed \in BOOLEAN : backed = cmd[d].backed
    BY SessionIs
  <2>2. PICK x \in Revisions : x = db[d]
    BY SessionIs
  <2>3. Pop(d) /\ db' = [db EXCEPT ![d] = x]
    BY <1>4, <2>2, SessionIs DEF MigrateToSchema
  <2>4. \A c2 : Popping(cmd[d], c2, "diff", backed) =>
           LocalMove(cmd[d], rewriting[d], started[d], db[d], c2, r, t, x)
    BY <1>1, <1>2, <2>1, <2>2 DEF LocalMove, Differs
  <2> QED BY <1>3, <2>1, <2>3, <2>4, SessionSteps
<1>5. CASE src # SchemaOf(db[d])
  <2>1. PICK backed \in BOOLEAN : backed = (cmd[d].backed \/ (r = NoId /\ ~SkipBackup))
    OBVIOUS
  <2>2. src \in Schemas /\ db[d] \in Revisions /\ cmd[d] \in CommandTypes
    BY SessionIs
  <2>3. Dev(src) \in Migration /\ Dev(src).to = src
    BY <2>2 DEF Dev, Migration
  <2>4. PICK x \in Revisions : x = Append(db[d], Dev(src)) /\ x # <<>> /\ Last(x) = Dev(src)
    BY <2>2, <2>3, LongerIs
  <2>5. SchemaOf(x) # SchemaOf(db[d])
    BY <1>5, <2>3, <2>4 DEF SchemaOf
  <2>6. db' = [db EXCEPT ![d] = x]
    BY <1>5, <2>4 DEF MigrateToSchema
  <2>7. cmd' = [Popped(d) EXCEPT ![d].backed = backed]
    <3>1. cmd \in [Databases -> CommandTypes]
      BY DEF MigrationsTyped, CommandsTyped
    <3>2. cmd' = [Popped(d) EXCEPT ![d].backed = @ \/ (rewriting[d] = NoId /\ ~SkipBackup)]
      BY <1>5 DEF MigrateToSchema
    <3>3. Popped(d)[d].backed = cmd[d].backed
      BY <2>2, <3>1 DEF Popped, CommandTypes
    <3> QED BY <1>1, <2>1, <3>2, <3>3
  <2>8. \A c2 : Popping(cmd[d], c2, "diff", backed) =>
           LocalMove(cmd[d], rewriting[d], started[d], db[d], c2, r, t, x)
    BY <1>1, <1>2, <2>1, <2>5 DEF LocalMove, Differs
  <2> QED BY <1>3, <2>6, <2>7, <2>8, SessionSteps
<1> QED BY <1>4, <1>5

LEMMA WithoutDevIn == ASSUME NEW r \in Revisions PROVE WithoutDev(r) \in Revisions
<1> DEFINE S == {i \in DOMAIN r : ~r[i].dev}
<1>1. Len(r) \in Nat /\ DOMAIN r = 1..Len(r)
  BY DEF Revisions
<1>2. IsFiniteSet(1..Len(r)) /\ Cardinality(1..Len(r)) = Len(r)
  <2>1. 1 \in Int /\ Len(r) \in Int
    BY <1>1
  <2>2. PICK n \in Nat : n = Len(r)
    BY <1>1
  <2>3. n \in Int /\ (1 > n => n = 0)
    BY <2>2
  <2>4. IsFiniteSet(1..n) /\ Cardinality(1..n) = IF 1 > n THEN 0 ELSE n - 1 + 1
    BY <2>1, <2>3, FS_Interval
  <2> QED BY <2>2, <2>3, <2>4
<1>3. Cardinality(S) \in 0..Len(r)
  <2>1. S \subseteq 1..Len(r)
    BY <1>1
  <2>2. IsFiniteSet(S) /\ Cardinality(S) <= Cardinality(1..Len(r))
    BY <1>2, <2>1, FS_Subset
  <2>3. Cardinality(S) \in Nat
    BY <2>2, FS_CardinalityType
  <2> QED BY <1>1, <1>2, <2>2, <2>3
<1> QED BY <1>3, PrefixIs DEF WithoutDev

\* The queues of the commands that write files
LEMMA WritingIs ==
    ASSUME NEW what \in Writing
    PROVE  Do(what) \in Seq(Statement) /\ Kinds(Do(what), Writing)
<1>1. what \in Whats
  BY DEF Writing, Whats
<1> QED BY <1>1, DoIs DEF Kinds

LEMMA WritingJoins ==
    \A A, B \in Seq(Statement) : Kinds(A, Writing) /\ Kinds(B, Writing) =>
       A \o B \in Seq(Statement) /\ Kinds(A \o B, Writing)
BY JoinKinds, ConcatProperties

\* A prefix without its last migration is the prefix shorter by one.
LEMMA FrontOf ==
    ASSUME NEW r \in Revisions, NEW n \in 1..Len(r)
    PROVE  Front(SubSeq(r, 1, n)) = SubSeq(r, 1, n - 1)
<1>1. Len(r) \in Nat /\ n \in 0..Len(r) /\ n - 1 \in 0..Len(r)
  BY DEF Revisions
<1>2. PICK p \in Revisions : p = SubSeq(r, 1, n) /\ Len(p) = n /\ \A i \in 1..n : p[i] = r[i]
  BY <1>1, PrefixIs
<1>3. n - 1 \in 0..Len(p)
  BY <1>1, <1>2
<1>4. PICK q \in Revisions : q = SubSeq(p, 1, n - 1) /\ Len(q) = n - 1 /\ \A i \in 1..(n - 1) : q[i] = p[i]
  BY <1>2, <1>3, PrefixIs
<1>5. PICK s \in Revisions : s = SubSeq(r, 1, n - 1) /\ Len(s) = n - 1 /\ \A i \in 1..(n - 1) : s[i] = r[i]
  BY <1>1, PrefixIs
<1>6. \A i \in 1..(n - 1) : q[i] = s[i]
  BY <1>1, <1>2, <1>4, <1>5
<1>7. q \in Seq(Migration) /\ s \in Seq(Migration) /\ Len(q) = Len(s) /\ \A i \in 1..Len(q) : q[i] = s[i]
  BY <1>2, <1>4, <1>5, <1>6 DEF Revisions
<1>8. q = s
  BY <1>7, SeqEqual
<1> QED BY <1>2, <1>4, <1>5, <1>8 DEF Front

\* A directory without a gap has every ancestor of what it has.
LEMMA AncestorsReadable ==
    ASSUME DirectoryTyped, Readable, NEW f \in files
    PROVE  Ancestors(f) \subseteq files
<1> DEFINE Bad == {k \in Nat : k < Len(f) /\ SubSeq(f, 1, Len(f) - k) \notin files}
<1>1. f \in Revisions /\ f # <<>> /\ Len(f) \in Nat
  BY DEF DirectoryTyped, Revisions
<1>2. ASSUME NEW i \in 1..Len(f), SubSeq(f, 1, i) \notin files PROVE FALSE
  <2>1. Len(f) - i \in Nat /\ Len(f) - i < Len(f) /\ Len(f) - (Len(f) - i) = i
    BY <1>1
  <2>2. Len(f) - i \in Bad /\ Bad \subseteq Nat
    BY <1>2, <2>1
  <2>3. PICK k \in Bad : \A l \in Bad : ~(<<l, k>> \in OpToRel(<, Nat))
    <3> HIDE DEF Bad
    <3> QED BY <2>2, WFMin, NatLessThanWellFounded
  <2>4. k \in Nat /\ \A l \in Bad : ~(l < k)
    <3> HIDE DEF Bad
    <3> QED BY <2>2, <2>3 DEF OpToRel
  <2>5. k < Len(f) /\ SubSeq(f, 1, Len(f) - k) \notin files
    BY <2>3
  <2>6. k # 0
    <3>1. Len(f) - 0 = Len(f) /\ SubSeq(f, 1, Len(f)) = f
      BY <1>1, WholeIs
    <3> QED BY <2>5, <3>1
  <2>7. k - 1 \in Nat /\ k - 1 < k /\ k - 1 < Len(f)
    BY <1>1, <2>4, <2>5, <2>6
  <2>8. PICK n \in 1..Len(f) : n = Len(f) - (k - 1) /\ n - 1 = Len(f) - k
    <3>1. k \in Nat /\ k # 0 /\ k < Len(f) /\ Len(f) \in Nat
      BY <1>1, <2>4, <2>5, <2>6
    <3>2. Len(f) - (k - 1) \in 1..Len(f) /\ Len(f) - (k - 1) - 1 = Len(f) - k
      BY <3>1
    <3> QED BY <3>2
  <2>9. SubSeq(f, 1, n) \in files
    <3>1. k - 1 \notin Bad
      <4> HIDE DEF Bad
      <4> QED BY <2>4, <2>7
    <3> QED BY <2>7, <2>8, <3>1
  <2>10. SubSeq(f, 1, n - 1) \in files \cup {<<>>}
    BY <1>1, <2>9, FrontOf DEF Readable
  <2>11. SubSeq(f, 1, n - 1) # <<>>
    <3>1. n - 1 \in 0..Len(f) /\ n - 1 # 0
      BY <1>1, <2>4, <2>5, <2>8
    <3>2. Len(SubSeq(f, 1, n - 1)) = n - 1 /\ Len(<<>>) = 0
      BY <1>1, <3>1, PrefixIs
    <3> QED BY <3>1, <3>2, Zenon
  <2> QED BY <2>5, <2>8, <2>10, <2>11
<1> QED BY <1>2 DEF Ancestors

LEMMA AncestorsLonger ==
    ASSUME NEW r \in Revisions, NEW m \in Migration
    PROVE  Ancestors(Append(r, m)) \ {Append(r, m)} \subseteq Ancestors(r)
<1> DEFINE a == Append(r, m)
<1>1. Len(r) \in Nat /\ r \in Seq(Migration)
  BY DEF Revisions
<1>2. a \in Revisions /\ Len(a) = Len(r) + 1 /\ \A i \in 1..Len(r) : a[i] = r[i]
  BY <1>1, AppendProperties DEF Revisions
<1> HIDE DEF a
<1>3. ASSUME NEW i \in 1..Len(a), SubSeq(a, 1, i) # a PROVE SubSeq(a, 1, i) \in Ancestors(r)
  <2>1. i \in 1..Len(r) /\ i \in 0..Len(r) /\ i \in 0..Len(a)
    <3>1. i # Len(a)
      BY <1>2, <1>3, WholeIs
    <3> QED BY <1>1, <1>2, <3>1
  <2>2. PICK p \in Revisions : p = SubSeq(a, 1, i) /\ Len(p) = i /\ \A j \in 1..i : p[j] = a[j]
    BY <1>2, <2>1, PrefixIs
  <2>3. PICK q \in Revisions : q = SubSeq(r, 1, i) /\ Len(q) = i /\ \A j \in 1..i : q[j] = r[j]
    BY <2>1, PrefixIs
  <2>4. \A j \in 1..i : p[j] = q[j]
    BY <1>1, <1>2, <2>1, <2>2, <2>3
  <2>5. p \in Seq(Migration) /\ q \in Seq(Migration) /\ Len(p) = Len(q) /\ \A j \in 1..Len(p) : p[j] = q[j]
    BY <2>2, <2>3, <2>4 DEF Revisions
  <2>6. p = q
    BY <2>5, SeqEqual
  <2> QED BY <2>1, <2>2, <2>3, <2>6 DEF Ancestors
<1> QED BY <1>3 DEF Ancestors, a

LEMMA Creates == ASSUME MigrationsTyped, Create PROVE MigrationsTyped' /\ \A e \in Databases : StepOf(e)
<1>1. DirectoryTyped /\ src \in Schemas
  BY DEF MigrationsTyped
<1>2. Latest \in Revisions /\ By(src) \in Migration
  BY <1>1, LatestIs DEF By, Migration
<1>3. PICK goal \in Revisions : goal = Append(Latest, By(src)) /\ goal # <<>>
  BY <1>2, LongerIs
<1>4. PICK todo \in Seq(Statement) : todo = Do("write") /\ Kinds(todo, Writing)
  BY WritingIs DEF Writing
<1>5. Start(Main, CommandOf("create", todo, Main, goal, FALSE))
  BY <1>3, <1>4 DEF Create
<1>6. Ready(todo, goal)
  <2>1. Ancestors(Latest) \subseteq files
    <3>1. Latest \in files \cup {<<>>}
      BY <1>1, LatestIs
    <3>2. Ancestors(<<>>) = {}
      BY DEF Ancestors
    <3> QED BY <1>1, <3>1, <3>2, AncestorsReadable DEF Create
  <2>2. Ancestors(goal) \ {goal} \subseteq files
    BY <1>2, <1>3, <2>1, AncestorsLonger
  <2>3. Len(todo) = 1 /\ todo[1].do = "write"
    BY <1>4, DoIs DEF Whats
  <2> QED BY <2>2, <2>3 DEF Ready, InOrder, Has
<1> QED BY <1>3, <1>4, <1>5, <1>6, OtherGiven

LEMMA InOrderJoins ==
    \A A, B \in Seq(Statement) :
       /\ InOrder(A) /\ InOrder(B)
       /\ \A i \in 1..Len(A) : \A j \in 1..Len(B) : B[j].do \in Sequel(A[i].do)
       => InOrder(A \o B)
<1> SUFFICES ASSUME NEW A \in Seq(Statement), NEW B \in Seq(Statement), InOrder(A), InOrder(B),
                    \A i \in 1..Len(A) : \A j \in 1..Len(B) : B[j].do \in Sequel(A[i].do)
             PROVE  InOrder(A \o B)
  OBVIOUS
<1> DEFINE c == A \o B
           m == Len(A)
<1>1. \A i \in 1..Len(c) : (i \in 1..m /\ c[i] = A[i]) \/ \E j \in 1..Len(B) : i = m + j /\ c[i] = B[j]
  BY Joined
<1>2. m \in Nat /\ Len(B) \in Nat
  OBVIOUS
<1> HIDE DEF c, m
<1>3. ASSUME NEW i \in 1..Len(c), NEW j \in 1..Len(c), i < j
      PROVE  c[j].do \in Sequel(c[i].do)
  <2>1. CASE i \in 1..m /\ c[i] = A[i]
    <3>1. CASE j \in 1..m /\ c[j] = A[j]
      BY <1>3, <2>1, <3>1 DEF InOrder, m
    <3>2. CASE \E k \in 1..Len(B) : j = m + k /\ c[j] = B[k]
      BY <2>1, <3>2 DEF m
    <3> QED BY <1>1, <3>1, <3>2
  <2>2. CASE \E k \in 1..Len(B) : i = m + k /\ c[i] = B[k]
    <3>1. PICK k \in 1..Len(B) : i = m + k /\ c[i] = B[k]
      BY <2>2
    <3>2. j \notin 1..m
      BY <1>2, <1>3, <3>1
    <3>3. PICK l \in 1..Len(B) : j = m + l /\ c[j] = B[l]
      BY <1>1, <3>2
    <3>4. k < l
      BY <1>2, <1>3, <3>1, <3>3
    <3> QED BY <3>1, <3>3, <3>4 DEF InOrder
  <2> QED BY <1>1, <2>1, <2>2
<1> QED BY <1>3 DEF InOrder, c

LEMMA Squashes ==
    ASSUME MigrationsTyped, NEW withFixup \in BOOLEAN, Squash(withFixup)
    PROVE  MigrationsTyped' /\ \A e \in Databases : StepOf(e)
<1>1. By(src) \in Migration
  BY DEF MigrationsTyped, By, Migration
<1>2. PICK goal \in Revisions : goal = <<By(src)>> /\ goal # <<>>
  <2>1. \A m \in Migration : <<m>> \in Seq(Migration) /\ <<m>> # <<>>
    OBVIOUS
  <2> QED BY <1>1, <2>1 DEF Revisions
<1>3. PICK A \in Seq(Statement) : A = Do("oldFixups") /\ Kinds(A, Writing)
  BY WritingIs DEF Writing
<1>4. PICK B \in Seq(Statement) : B = Do("oldRevisions") /\ Kinds(B, Writing)
  BY WritingIs DEF Writing
<1>5. PICK C \in Seq(Statement) : C = Unless(~withFixup, "writeFixup") /\ Kinds(C, Writing)
  <2>1. <<>> \in Seq(Statement) /\ Kinds(<<>>, Writing)
    BY DEF Kinds
  <2> QED BY <2>1, WritingIs DEF Writing, Unless
<1>6. PICK D \in Seq(Statement) : D = Do("writeSquashed") /\ Kinds(D, Writing)
  BY WritingIs DEF Writing
<1>7. PICK E \in Seq(Statement) : E = Do("removeOld") /\ Kinds(E, Writing)
  BY WritingIs DEF Writing
<1>8. PICK AB \in Seq(Statement) : AB = A \o B /\ Kinds(AB, Writing)
  BY <1>3, <1>4, WritingJoins
<1>9. PICK ABC \in Seq(Statement) : ABC = AB \o C /\ Kinds(ABC, Writing)
  BY <1>5, <1>8, WritingJoins
<1>10. PICK ABCD \in Seq(Statement) : ABCD = ABC \o D /\ Kinds(ABCD, Writing)
  BY <1>6, <1>9, WritingJoins
<1>11. PICK todo \in Seq(Statement) : todo = ABCD \o E /\ Kinds(todo, Writing)
  BY <1>7, <1>10, WritingJoins
<1>12. todo = Do("oldFixups") \o Do("oldRevisions") \o
              Unless(~withFixup, "writeFixup") \o Do("writeSquashed") \o Do("removeOld")
  BY <1>3, <1>4, <1>5, <1>6, <1>7, <1>8, <1>9, <1>10, <1>11
<1>14. Ready(todo, goal)
  <2> DEFINE First == {"oldFixups", "oldRevisions", "writeFixup"}
             Most == First \cup {"writeSquashed"}
  <2>1. /\ Len(A) = 1 /\ A[1].do = "oldFixups" /\ Len(B) = 1 /\ B[1].do = "oldRevisions"
        /\ Len(D) = 1 /\ D[1].do = "writeSquashed" /\ Len(E) = 1 /\ E[1].do = "removeOld"
    BY <1>3, <1>4, <1>6, <1>7, DoIs DEF Whats
  <2>2. Kinds(A, First) /\ Kinds(B, First) /\ Kinds(D, Most)
    BY <2>1 DEF Kinds
  <2>3. Kinds(C, First)
    <3>1. Unless(~withFixup, "writeFixup") = <<>> \/ Unless(~withFixup, "writeFixup") = Do("writeFixup")
      BY DEF Unless
    <3>2. Len(Do("writeFixup")) = 1 /\ Do("writeFixup")[1].do = "writeFixup"
      BY DoIs DEF Whats
    <3> QED BY <1>5, <3>1, <3>2 DEF Kinds
  <2> HIDE DEF First, Most
  <2>4. Kinds(AB, First)
    BY <1>3, <1>4, <1>8, <2>2, JoinKinds
  <2>5. Kinds(ABC, First)
    BY <1>5, <1>8, <1>9, <2>3, <2>4, JoinKinds
  <2>6. Kinds(ABC, Most)
    BY <2>5 DEF Kinds, Most
  <2>7. Kinds(ABCD, Most)
    BY <1>6, <1>9, <1>10, <2>2, <2>6, JoinKinds
  <2>8. InOrder(ABC)
    <3>1. \A i \in 1..Len(ABC) : ABC[i].do \in Whats
      BY <1>9, DoIn
    <3> QED BY <2>5, <3>1 DEF InOrder, Kinds, Sequel, First
  <2>9. InOrder(ABCD)
    <3>1. InOrder(D)
      BY <2>1 DEF InOrder
    <3>2. \A i \in 1..Len(ABC) : \A j \in 1..Len(D) : D[j].do \in Sequel(ABC[i].do)
      <4>1. \A what \in First : "writeSquashed" \in Sequel(what)
        BY DEF Sequel, First, Whats
      <4>2. \A j \in 1..Len(D) : D[j].do = "writeSquashed"
        BY <2>1
      <4> QED BY <2>5, <4>1, <4>2 DEF Kinds
    <3> QED BY <1>6, <1>9, <1>10, <2>8, <3>1, <3>2, InOrderJoins
  <2>10. InOrder(todo)
    <3>1. InOrder(E)
      BY <2>1 DEF InOrder
    <3>2. \A i \in 1..Len(ABCD) : \A j \in 1..Len(E) : E[j].do \in Sequel(ABCD[i].do)
      <4>1. \A what \in Most : "removeOld" \in Sequel(what)
        BY DEF Sequel, First, Most, Whats
      <4>2. \A j \in 1..Len(E) : E[j].do = "removeOld"
        BY <2>1
      <4> QED BY <2>7, <4>1, <4>2 DEF Kinds
    <3> QED BY <1>7, <1>10, <1>11, <2>9, <3>1, <3>2, InOrderJoins
  <2>11. Has(todo, "writeSquashed")
    <3>1. Has(D, "writeSquashed")
      BY <2>1 DEF Has
    <3>2. Has(ABCD, "writeSquashed")
      BY <1>6, <1>9, <1>10, <3>1, JoinHas
    <3> QED BY <1>7, <1>10, <1>11, <3>2, JoinHas
  <2>12. ~Has(todo, "write")
    <3>1. Kinds(ABCD, Most \cup {"removeOld"}) /\ Kinds(E, Most \cup {"removeOld"})
      BY <2>1, <2>7 DEF Kinds
    <3>2. PICK all : all = Most \cup {"removeOld"}
      OBVIOUS
    <3>3. Kinds(todo, all)
      BY <1>7, <1>10, <1>11, <3>1, <3>2, JoinKinds
    <3> QED BY <3>2, <3>3 DEF Kinds, Has, Most, First
  <2>13. Ancestors(goal) \subseteq {goal}
    <3>1. Len(goal) = 1
      BY <1>2
    <3>2. SubSeq(goal, 1, 1) = goal
      BY <1>2, <3>1, WholeIs
    <3>3. 1..1 = {1}
      OBVIOUS
    <3> QED BY <3>1, <3>2, <3>3 DEF Ancestors
  <2> QED BY <2>10, <2>11, <2>12, <2>13 DEF Ready
<1>13. Start(Main, CommandOf("squash", todo, Main, goal, FALSE))
  BY <1>2, <1>12 DEF Squash
<1> QED BY <1>2, <1>11, <1>13, <1>14, OtherGiven

LEMMA Extracts == ASSUME MigrationsTyped, Extract PROVE MigrationsTyped' /\ \A e \in Databases : StepOf(e)
<1>1. Main \in Databases /\ db[Main] \in Revisions
  BY MigrationsAssumption, SessionIs
<1>2. PICK goal \in Revisions : goal = WithoutDev(db[Main])
  BY <1>1, WithoutDevIn
<1>3. PICK todo \in Seq(Statement) : todo = Do("copy") /\ Kinds(todo, {"copy"})
  BY DoIs DEF Whats, Kinds
<1>4. Kinds(todo, Writing) /\ \A what \in Naming : Has(todo, what) => goal # <<>>
  <2>1. Kinds(todo, Writing)
    BY <1>3 DEF Kinds, Writing
  <2>2. \A what \in Naming : Has(todo, what) => goal # <<>>
    BY <1>3 DEF Kinds, Naming, Has
  <2> QED BY <2>1, <2>2
<1>5. Start(Main, CommandOf("extract", todo, Main, goal, FALSE))
  BY <1>2, <1>3 DEF Extract
<1>6. Ready(todo, goal)
  <2>1. Len(todo) = 1 /\ todo[1].do = "copy"
    BY <1>3, DoIs DEF Whats
  <2> QED BY <2>1 DEF Ready, InOrder, Has
<1> QED BY <1>2, <1>3, <1>4, <1>5, <1>6, OtherGiven

\* What a statement that writes a revision or a fixup names it by
LEMMA NamingIs ==
    ASSUME MigrationsTyped, NEW what \in Naming, Now(Main, what)
    PROVE  /\ Main \in Databases /\ cmd[Main].from \in Revisions
           /\ cmd[Main].goal \in Revisions \ {<<>>}
<1>1. Main \in Databases /\ cmd[Main] \in CommandTypes
  BY MigrationsAssumption, SessionIs
<1>2. cmd[Main].todo \in Seq(Statement) /\ cmd[Main].goal \in Revisions /\ cmd[Main].from \in Revisions
  BY <1>1 DEF CommandTypes
<1>3. Has(cmd[Main].todo, what)
  <2>1. cmd[Main].todo # <<>> /\ cmd[Main].todo[1].do = what
    BY DEF Now, NextOf
  <2>2. 1 \in 1..Len(cmd[Main].todo)
    BY <1>2, <2>1, TailIs
  <2> QED BY <2>1, <2>2 DEF Has
<1> QED BY <1>1, <1>2, <1>3 DEF MigrationsTyped, CommandsTyped

\* A step that leaves every command and every database alone
LEMMA NothingSteps ==
    ASSUME MigrationsTyped, UNCHANGED <<cmd, server>>, src' \in Schemas, DirectoryTyped'
    PROVE  MigrationsTyped' /\ \A e \in Databases : StepOf(e)
<1>1. SessionsTyped' /\ \A e \in Databases : rewriting'[e] = rewriting[e]
                                             /\ started'[e] = started[e] /\ db'[e] = db[e]
  BY ServerStays DEF MigrationsTyped
<1>2. CommandsTyped'
  BY DEF MigrationsTyped, CommandsTyped
<1> QED BY <1>1, <1>2 DEF MigrationsTyped, StepOf, LocalMove

LEMMA EditSteps ==
    ASSUME MigrationsTyped, NEW s \in Schemas, EditSchema(s)
    PROVE  MigrationsTyped' /\ \A e \in Databases : StepOf(e)
<1>1. UNCHANGED <<cmd, server>> /\ src' \in Schemas /\ UNCHANGED <<files, fixups>>
  BY DEF EditSchema, dir
<1>2. DirectoryTyped'
  BY <1>1, DirectoryStays DEF MigrationsTyped
<1> QED BY <1>1, <1>2, NothingSteps

LEMMA FileWritten ==
    ASSUME DirectoryTyped, NEW goal \in Revisions \ {<<>>}, files' = files \cup {goal}, UNCHANGED fixups
    PROVE  DirectoryTyped'
<1>1. IsFiniteSet(files')
  BY FS_AddElement DEF DirectoryTyped
<1> QED BY <1>1 DEF DirectoryTyped

LEMMA WriteSteps ==
    ASSUME MigrationsTyped, Write \/ WriteSquashed
    PROVE  MigrationsTyped' /\ \A e \in Databases : StepOf(e)
<1>1. PICK what \in {"write", "writeSquashed"} : Now(Main, what)
  BY DEF Write, WriteSquashed
<1>2. /\ Pop(Main) /\ files' = files \cup {cmd[Main].goal} /\ UNCHANGED <<src, fixups, server>>
      /\ intended' = cmd[Main].goal /\ cmd[Main].goal \in files'
  BY DEF Write, WriteSquashed
<1>3. what \in Naming /\ what \in Writing \cup {"before", "after"}
  BY DEF Naming, Writing
<1>4. Main \in Databases /\ cmd[Main].goal \in Revisions \ {<<>>}
  BY <1>1, <1>3, NamingIs
<1>5. DirectoryTyped'
  BY <1>2, <1>4, FileWritten DEF MigrationsTyped
<1> QED BY <1>1, <1>2, <1>3, <1>4, <1>5, OnlyPops

LEMMA FixupSteps ==
    ASSUME MigrationsTyped, WriteFixup
    PROVE  MigrationsTyped' /\ \A e \in Databases : StepOf(e)
<1> DEFINE what == "writeFixup"
<1>1. /\ Now(Main, what) /\ Pop(Main) /\ fixups' = fixups \cup {FixupOf(cmd[Main])}
      /\ UNCHANGED <<src, files, server>>
  BY DEF WriteFixup
<1>2. what \in Naming /\ what \in Writing \cup {"before", "after"}
  BY DEF Naming, Writing
<1>3. Main \in Databases /\ cmd[Main].goal \in Revisions \ {<<>>} /\ cmd[Main].from \in Revisions
  BY <1>1, <1>2, NamingIs
<1>4. FixupOf(cmd[Main]) \in [id : Revisions, target : Revisions]
  <2>1. Last(cmd[Main].goal) \in Migration
    <3>1. cmd[Main].goal \in Seq(Migration) /\ cmd[Main].goal # <<>>
      BY <1>3 DEF Revisions
    <3>2. Len(cmd[Main].goal) \in 1..Len(cmd[Main].goal)
      BY <3>1
    <3> QED BY <3>1, <3>2 DEF Last
  <2> QED BY <1>3, <2>1, LongerIs DEF FixupOf
<1>5. DirectoryTyped'
  <2>1. DirectoryTyped
    BY DEF MigrationsTyped
  <2>2. IsFiniteSet(fixups')
    BY <1>1, <2>1, FS_AddElement DEF DirectoryTyped
  <2> QED BY <1>1, <1>4, <2>1, <2>2 DEF DirectoryTyped
<1> QED BY <1>1, <1>2, <1>3, <1>5, OnlyPops

LEMMA OldFixupSteps ==
    ASSUME MigrationsTyped, RenameFixups
    PROVE  MigrationsTyped' /\ \A e \in Databases : StepOf(e)
<1>1. /\ Now(Main, "oldFixups") /\ Pop(Main) /\ UNCHANGED <<src, files, server>>
      /\ fixups' \subseteq fixups
  BY DEF RenameFixups
<1>2. DirectoryTyped'
  <2>1. DirectoryTyped
    BY DEF MigrationsTyped
  <2>2. IsFiniteSet(fixups')
    BY <1>1, <2>1, FS_Subset DEF DirectoryTyped
  <2> QED BY <1>1, <2>1, <2>2 DEF DirectoryTyped
<1>3. "oldFixups" \in Writing \cup {"before", "after"} /\ Main \in Databases
  BY MigrationsAssumption DEF Writing
<1> QED BY <1>1, <1>2, <1>3, OnlyPops

LEMMA OldRevisionSteps ==
    ASSUME MigrationsTyped, NEW f \in files, RenameRevision(f)
    PROVE  MigrationsTyped' /\ \A e \in Databases : StepOf(e)
<1>1. /\ Now(Main, "oldRevisions") /\ UNCHANGED <<src, fixups, server>> /\ files' \subseteq files
      /\ Pop(Main) \/ UNCHANGED cmd
  BY DEF RenameRevision
<1>2. DirectoryTyped'
  <2>1. DirectoryTyped
    BY DEF MigrationsTyped
  <2>2. IsFiniteSet(files')
    BY <1>1, <2>1, FS_Subset DEF DirectoryTyped
  <2> QED BY <1>1, <2>1, <2>2 DEF DirectoryTyped
<1>3. "oldRevisions" \in Writing \cup {"before", "after"} /\ Main \in Databases
  BY MigrationsAssumption DEF Writing
<1>4. src' \in Schemas
  BY <1>1 DEF MigrationsTyped
<1>5. CASE Pop(Main)
  BY <1>1, <1>2, <1>3, <1>5, OnlyPops
<1>6. CASE UNCHANGED cmd
  BY <1>1, <1>2, <1>4, <1>6, NothingSteps
<1> QED BY <1>1, <1>5, <1>6

LEMMA RemoveSteps ==
    ASSUME MigrationsTyped, RemoveOld
    PROVE  MigrationsTyped' /\ \A e \in Databases : StepOf(e)
<1>1. Now(Main, "removeOld") /\ Pop(Main) /\ UNCHANGED <<src, server>> /\ UNCHANGED <<files, fixups>>
  BY DEF RemoveOld
<1>2. DirectoryTyped'
  BY <1>1, DirectoryStays DEF MigrationsTyped
<1>3. "removeOld" \in Writing \cup {"before", "after"} /\ Main \in Databases
  BY MigrationsAssumption DEF Writing
<1> QED BY <1>1, <1>2, <1>3, OnlyPops

LEMMA AncestorsIn ==
    ASSUME NEW r \in Revisions
    PROVE  Ancestors(r) \subseteq Revisions \ {<<>>} /\ IsFiniteSet(Ancestors(r))
<1>1. Len(r) \in Nat
  BY DEF Revisions
<1>2. Ancestors(r) \subseteq Revisions \ {<<>>}
  <2>1. ASSUME NEW i \in 1..Len(r) PROVE SubSeq(r, 1, i) \in Revisions \ {<<>>}
    <3>1. i \in 0..Len(r)
      BY <1>1
    <3>2. SubSeq(r, 1, i) \in Revisions /\ Len(SubSeq(r, 1, i)) = i
      BY <3>1, PrefixIs
    <3>3. i # 0 /\ Len(<<>>) = 0
      BY <1>1
    <3>4. SubSeq(r, 1, i) # <<>>
      BY <3>2, <3>3, Zenon
    <3> QED BY <3>2, <3>4
  <2> QED BY <2>1 DEF Ancestors
<1>3. IsFiniteSet(Ancestors(r))
  <2>1. IsFiniteSet(1..Len(r))
    <3>1. 1 \in Int /\ Len(r) \in Int
      BY <1>1
    <3> QED BY <3>1, FS_Interval
  <2>2. PICK h : h = [i \in 1..Len(r) |-> SubSeq(r, 1, i)]
    OBVIOUS
  <2>3. h \in Surjection(1..Len(r), Ancestors(r))
    BY <2>2 DEF Surjection, Ancestors
  <2> QED BY <2>1, <2>3, FS_Surjection
<1> QED BY <1>2, <1>3

LEMMA CopySteps ==
    ASSUME MigrationsTyped, Copy
    PROVE  MigrationsTyped' /\ \A e \in Databases : StepOf(e)
<1>1. /\ Now(Main, "copy") /\ Pop(Main) /\ UNCHANGED <<src, fixups, server>>
      /\ files' = Extracted(cmd[Main].goal)
  BY DEF Copy
<1>2. "copy" \in Writing \cup {"before", "after"} /\ Main \in Databases
  BY MigrationsAssumption DEF Writing
<1>3. cmd[Main].goal \in Revisions
  BY <1>2, SessionIs DEF CommandTypes
<1>4. DirectoryTyped'
  <2>1. DirectoryTyped
    BY DEF MigrationsTyped
  <2>2. PICK kept \in SUBSET files : kept = {f \in files : Len(f) <= Len(cmd[Main].goal)}
    OBVIOUS
  <2>3. IsFiniteSet(kept)
    BY <2>1, <2>2, FS_Subset DEF DirectoryTyped
  <2>4. files' = kept \cup Ancestors(cmd[Main].goal)
    BY <1>1, <2>2 DEF Extracted
  <2>5. IsFiniteSet(kept \cup Ancestors(cmd[Main].goal))
    BY <1>3, <2>3, AncestorsIn, FS_Union
  <2>6. files' \subseteq Revisions \ {<<>>}
    BY <1>3, <2>1, <2>2, <2>4, AncestorsIn DEF DirectoryTyped
  <2> QED BY <1>1, <2>1, <2>4, <2>5, <2>6 DEF DirectoryTyped
<1> QED BY <1>1, <1>2, <1>4, OnlyPops

\* A command ends.
LEMMA EndSteps ==
    ASSUME MigrationsTyped, NEW d \in Databases, cmd' = [cmd EXCEPT ![d] = NoCommand],
           UNCHANGED <<src, dir>>, Elsewhere(d), SessionsTyped',
           Ending(cmd[d], rewriting[d], started[d], db[d], NoCommand, rewriting'[d], started'[d], db'[d])
    PROVE  MigrationsTyped' /\ \A e \in Databases : StepOf(e)
<1>1. NoCommand \in CommandTypes /\ NoCommand.op = "none" /\ NoCommand.todo = <<>>
  BY DEF NoCommand, CommandTypes, Revisions
<1>2. \A what \in Naming : ~Has(NoCommand.todo, what)
  BY <1>1 DEF Has
<1>3. CommandsTyped' /\ cmd'[d] = NoCommand
  BY <1>1, <1>2, CommandChanges DEF MigrationsTyped
<1>4. DirectoryTyped' /\ src' \in Schemas
  BY DirectoryStays DEF dir, MigrationsTyped
<1>5. StepOf(d)
  BY <1>3 DEF StepOf, LocalMove
<1>6. MigrationsTyped'
  BY <1>3, <1>4 DEF MigrationsTyped
<1> QED BY <1>5, <1>6, OneSteps

LEMMA FailSteps ==
    ASSUME MigrationsTyped, NEW d \in Databases, Fail(d)
    PROVE  MigrationsTyped' /\ \A e \in Databases : StepOf(e)
<1>1. /\ cmd[d].todo # <<>> /\ cmd' = [cmd EXCEPT ![d] = NoCommand] /\ UNCHANGED <<src, dir>>
      /\ db' = [db EXCEPT ![d] = Committed(d)] /\ started' = [started EXCEPT ![d] = NoId]
      /\ rewriting' = [rewriting EXCEPT ![d] = NoId]
  BY DEF Fail, RollBack
<1>2. Committed(d) \in Revisions
  BY SessionIs DEF Committed
<1>3. SessionsTyped' /\ db'[d] = Committed(d) /\ started'[d] = NoId /\ rewriting'[d] = NoId
  BY <1>1, <1>2 DEF MigrationsTyped, SessionsTyped
<1>4. Elsewhere(d)
  BY <1>1 DEF Elsewhere, MigrationsTyped, SessionsTyped, CommandsTyped
<1>5. Ending(cmd[d], rewriting[d], started[d], db[d], NoCommand, rewriting'[d], started'[d], db'[d])
  BY <1>1, <1>3 DEF Ending, Committed
<1> QED BY <1>1, <1>3, <1>4, <1>5, EndSteps

LEMMA FinishSteps ==
    ASSUME MigrationsTyped, NEW d \in Databases, Finish(d)
    PROVE  MigrationsTyped' /\ \A e \in Databases : StepOf(e)
<1>1. /\ cmd[d].todo = <<>> /\ cmd' = [cmd EXCEPT ![d] = NoCommand] /\ UNCHANGED <<src, dir>>
      /\ UNCHANGED server
  BY DEF Finish
<1>2. SessionsTyped' /\ \A e \in Databases : rewriting'[e] = rewriting[e]
                                             /\ started'[e] = started[e] /\ db'[e] = db[e]
  BY <1>1, ServerStays DEF MigrationsTyped
<1>3. Elsewhere(d)
  BY <1>1, <1>2 DEF Elsewhere, MigrationsTyped, CommandsTyped
<1>4. Ending(cmd[d], rewriting[d], started[d], db[d], NoCommand, rewriting'[d], started'[d], db'[d])
  BY <1>1, <1>2 DEF Ending
<1> QED BY <1>1, <1>2, <1>3, <1>4, EndSteps

LEMMA MigrationsMove ==
    ASSUME MigrationsTyped, [MigrationsNext]_migrating
    PROVE  MigrationsTyped' /\ \A e \in Databases : StepOf(e)
<1>1. CASE UNCHANGED migrating
  <2>1. UNCHANGED <<cmd, server>> /\ UNCHANGED <<files, fixups>> /\ UNCHANGED src
    BY <1>1 DEF migrating, dir
  <2>2. DirectoryTyped'
    BY <2>1, DirectoryStays DEF MigrationsTyped
  <2>3. src' \in Schemas
    BY <2>1 DEF MigrationsTyped
  <2> QED BY <2>1, <2>2, <2>3, NothingSteps
<1>2. ASSUME NEW d \in Databases, DatabaseStep(d)
      PROVE  MigrationsTyped' /\ \A e \in Databases : StepOf(e)
  <2>1. CASE \E single \in BOOLEAN, target \in files : Apply(d, target, single)
    BY <2>1, Applies
  <2>2. CASE DevMigrate(d)
    BY <2>2, DevMigrates
  <2>3. CASE Backup(d)
    BY <2>3, BackupSteps
  <2>4. CASE Hook(d)
    BY <2>4, HookSteps
  <2>5. CASE Transaction(d)
    BY <2>5, TransactionSteps
  <2>6. CASE ApplyMigration(d)
    BY <2>6, ApplySteps
  <2>7. CASE StartRewrite(d) \/ CommitRewrite(d)
    BY <2>7, RewriteSteps
  <2>8. CASE MigrateToSchema(d)
    BY <2>8, DiffSteps
  <2>9. CASE Fail(d)
    BY <2>9, FailSteps
  <2>10. CASE Finish(d)
    BY <2>10, FinishSteps
  <2> QED BY <1>2, <2>1, <2>2, <2>3, <2>4, <2>5, <2>6, <2>7, <2>8, <2>9, <2>10 DEF DatabaseStep
<1>3. CASE DirectoryStep
  <2>1. CASE Create
    BY <2>1, Creates
  <2>2. CASE Extract
    BY <2>2, Extracts
  <2>3. CASE Write \/ WriteSquashed
    BY <2>3, WriteSteps
  <2>4. CASE Copy
    BY <2>4, CopySteps
  <2>5. CASE \E withFixup \in BOOLEAN : Squash(withFixup)
    BY <2>5, Squashes
  <2>6. CASE RenameFixups
    BY <2>6, OldFixupSteps
  <2>7. CASE WriteFixup
    BY <2>7, FixupSteps
  <2>8. CASE RemoveOld
    BY <2>8, RemoveSteps
  <2>9. CASE \E f \in files : RenameRevision(f)
    BY <2>9, OldRevisionSteps
  <2> QED BY <1>3, <2>1, <2>2, <2>3, <2>4, <2>5, <2>6, <2>7, <2>8, <2>9 DEF DirectoryStep
<1>4. CASE \E s \in Schemas : EditSchema(s)
  BY <1>4, EditSteps
<1> QED BY <1>1, <1>2, <1>3, <1>4 DEF MigrationsNext

LEMMA MigrationsStep ==
    ASSUME MigrationsInductive, [MigrationsNext]_migrating
    PROVE  /\ MigrationsInductive'
           /\ \A d \in Databases : Safely(cmd[d], db[d], cmd'[d], db'[d])
<1>1. MigrationsTyped' /\ \A d \in Databases : StepOf(d)
  BY MigrationsMove DEF MigrationsInductive
<1>2. ASSUME NEW d \in Databases
      PROVE  /\ Fits(cmd'[d], rewriting'[d], started'[d], db'[d])
             /\ Safely(cmd[d], db[d], cmd'[d], db'[d])
  <2>1. LocalTyped(cmd[d], rewriting[d], started[d], db[d])
    BY SessionIs DEF MigrationsInductive, LocalTyped
  <2>2. db'[d] \in Revisions
    BY <1>1 DEF MigrationsTyped, SessionsTyped
  <2>3. cmd[d].op = "none" => cmd[d].todo = <<>>
    BY DEF MigrationsInductive, MigrationsTyped, CommandsTyped
  <2>4. Fits(cmd[d], rewriting[d], started[d], db[d])
    BY DEF MigrationsInductive
  <2>5. LocalMove(cmd[d], rewriting[d], started[d], db[d], cmd'[d], rewriting'[d], started'[d], db'[d])
    BY <1>1 DEF StepOf
  <2> QED BY <2>1, <2>2, <2>3, <2>4, <2>5, LocalFits
<1> QED BY <1>1, <1>2 DEF MigrationsInductive

LEMMA MigrationsAlways == MigrationsSpec => []MigrationsInductive
<1>1. MigrationsInductive /\ [MigrationsNext]_migrating => MigrationsInductive'
  BY MigrationsStep
<1> QED BY MigrationsStart, <1>1, PTL DEF MigrationsSpec

\* Whatever the schemas, the databases, the directory, the order of the commands and
\* what fails: no statement of `migrate` changes a database before the backup is made
\* (AutoBackup::run, from run_inner, dev_mode::migrate or migrate_to_schema), unless
\* backups are skipped; under --single-transaction a command that ends, by its last
\* statement or by the first that fails, leaves the database at one of two revisions;
\* and `migrate --dev-mode` that comes to its last statement on a database that lacked
\* the newest revision, and is at that revision's schema, leaves the database at that very
\* revision (rebase_to_schema, migrate_to_schema).
THEOREM MigrateKeepsItsWord == MigrationsSpec => MigrateKeepsWord
<1>1. MigrationsInductive /\ [MigrationsNext]_migrating =>
         [\A d \in Databases :
            db'[d] # db[d] /\ cmd[d].op \in {"apply", "dev"} /\ ~SkipBackup
               => cmd'[d].backed \/ cmd'[d].op = "none"]_migrating
  BY MigrationsStep DEF Safely
<1>2. MigrationsInductive /\ [MigrationsNext]_migrating =>
         [\A d \in Databases :
            cmd[d].single /\ cmd'[d].op = "none" => db'[d] \in {cmd[d].from, cmd[d].goal}]_migrating
  BY MigrationsStep DEF Safely
<1>3. MigrationsInductive /\ [MigrationsNext]_migrating =>
         [\A d \in Databases :
            /\ cmd[d].op = "dev" /\ cmd[d].todo # <<>> /\ cmd'[d].todo = <<>>
            /\ cmd'[d].op = "dev" /\ cmd[d].goal \notin Ancestors(cmd[d].from)
            /\ SchemaOf(db'[d]) = SchemaOf(cmd[d].goal)
            => db'[d] = cmd[d].goal]_migrating
  BY MigrationsStep DEF Safely
<1> QED BY MigrationsAlways, <1>1, <1>2, <1>3, PTL
     DEF MigrationsSpec, MigrateKeepsWord, BackedUpFirst, AllOrNothing, DevModeSettles

-----------------------------------------------------------------------------
(* No revision is lost *)

\* What is true of the command c of Main while fs are in migrations/ and os are old
Tidy(c, fs, os, id) ==
    /\ InOrder(c.todo)
    /\ Has(c.todo, "write") => Ancestors(c.goal) \ {c.goal} \subseteq fs \cup os
    /\ Has(c.todo, "writeSquashed") => Ancestors(c.goal) \subseteq {c.goal}
    /\ Has(c.todo, "removeOld") =>
          Has(c.todo, "writeSquashed") \/ (Kinds(c.todo, {"removeOld"}) /\ Ancestors(id) \subseteq fs)
RevisionsKept ==
    /\ Ancestors(intended) \subseteq files \cup old
    /\ Tidy(cmd[Main], files, old, intended)

LEMMA TailInOrder ==
    ASSUME NEW s \in Seq(Statement), s # <<>>, InOrder(s)
    PROVE  InOrder(Tail(s)) /\ Kinds(Tail(s), Sequel(s[1].do))
<1> DEFINE t == Tail(s)
<1>1. 1 \in 1..Len(s) /\ \A i \in 1..Len(t) : i + 1 \in 1..Len(s) /\ t[i] = s[i + 1]
  BY TailIs
<1> HIDE DEF t
<1>2. InOrder(t)
  <2> SUFFICES ASSUME NEW i \in 1..Len(t), NEW j \in 1..Len(t), i < j
               PROVE  t[j].do \in Sequel(t[i].do)
    BY DEF InOrder
  <2>1. i + 1 < j + 1 /\ i + 1 \in 1..Len(s) /\ j + 1 \in 1..Len(s) /\ t[i] = s[i + 1] /\ t[j] = s[j + 1]
    BY <1>1
  <2> QED BY <2>1 DEF InOrder
<1>3. Kinds(t, Sequel(s[1].do))
  <2> SUFFICES ASSUME NEW i \in 1..Len(t) PROVE t[i].do \in Sequel(s[1].do)
    BY DEF Kinds
  <2>1. 1 < i + 1 /\ i + 1 \in 1..Len(s) /\ t[i] = s[i + 1]
    BY <1>1
  <2> QED BY <1>1, <2>1 DEF InOrder
<1> QED BY <1>2, <1>3 DEF t

LEMMA PopTidy ==
    ASSUME NEW c \in CommandTypes, NEW what, NEW backed \in BOOLEAN, NEW c2,
           Popping(c, c2, what, backed), NEW fs, NEW os, NEW id, NEW fs2, NEW os2, NEW id2,
           Tidy(c, fs, os, id),
           what = "writeSquashed" => id2 = c.goal /\ c.goal \in fs2,
           what \notin {"removeOld", "copy"} => fs \cup os \subseteq fs2 \cup os2
    PROVE  Tidy(c2, fs2, os2, id2)
<1> DEFINE s == c.todo
<1>1. c2.todo = Tail(s) /\ s \in Seq(Statement) /\ s # <<>> /\ s[1].do = what /\ c2.goal = c.goal
  BY PopIs
<1>2. /\ InOrder(s)
      /\ Has(s, "write") => Ancestors(c.goal) \ {c.goal} \subseteq fs \cup os
      /\ Has(s, "writeSquashed") => Ancestors(c.goal) \subseteq {c.goal}
      /\ Has(s, "removeOld") =>
            Has(s, "writeSquashed") \/ (Kinds(s, {"removeOld"}) /\ Ancestors(id) \subseteq fs)
  BY DEF Tidy
<1>3. 1 \in 1..Len(s)
  BY <1>1, TailIs
<1> HIDE DEF s
<1>4. InOrder(Tail(s)) /\ Kinds(Tail(s), Sequel(what))
  BY <1>1, <1>2, TailInOrder
<1>5. what \in {"removeOld", "copy"} => \A w : ~Has(Tail(s), w)
  BY <1>4 DEF Sequel, Kinds, Has
<1>6. \A w : Has(Tail(s), w) => Has(s, w)
  BY <1>1, TailHas
<1>7. ASSUME Has(Tail(s), "write")
      PROVE  Ancestors(c.goal) \ {c.goal} \subseteq fs2 \cup os2
  <2>1. what \notin {"removeOld", "copy"}
    BY <1>5, <1>7
  <2>2. Ancestors(c.goal) \ {c.goal} \subseteq fs \cup os
    BY <1>2, <1>6, <1>7
  <2> QED BY <2>1, <2>2
<1>8. ASSUME Has(Tail(s), "removeOld"), ~Has(Tail(s), "writeSquashed")
      PROVE  Kinds(Tail(s), {"removeOld"}) /\ Ancestors(id2) \subseteq fs2
  <2>1. what # "removeOld"
    BY <1>5, <1>8
  <2>2. ~Kinds(s, {"removeOld"})
    BY <1>1, <1>3, <2>1 DEF Kinds
  <2>3. Has(s, "writeSquashed")
    BY <1>2, <1>6, <1>8, <2>2
  <2>4. what = "writeSquashed"
    BY <1>1, <1>8, <2>3, TailHas
  <2>5. Kinds(Tail(s), {"removeOld"})
    BY <1>4, <2>4 DEF Sequel
  <2> QED BY <1>2, <2>3, <2>4, <2>5
<1> QED BY <1>1, <1>2, <1>4, <1>6, <1>7, <1>8 DEF Tidy

\* What a step does to the revisions in the directory
LEMMA DirectoryMoves ==
    ASSUME [MigrationsNext]_migrating
    PROVE  \/ UNCHANGED <<files, old, intended>>
           \/ \E what \in {"write", "writeSquashed"} :
                 /\ Now(Main, what) /\ Pop(Main) /\ files' = files \cup {cmd[Main].goal}
                 /\ intended' = cmd[Main].goal /\ UNCHANGED old
           \/ /\ Now(Main, "oldRevisions") /\ files \cup old = files' \cup old' /\ UNCHANGED intended
              /\ Pop(Main) \/ UNCHANGED cmd
           \/ /\ Now(Main, "removeOld") /\ Pop(Main) /\ UNCHANGED <<files, intended>>
           \/ /\ Now(Main, "copy") /\ Pop(Main) /\ files' = Extracted(cmd[Main].goal)
              /\ intended' = cmd[Main].goal
<1>1. CASE UNCHANGED migrating
  BY <1>1 DEF migrating, dir
<1>2. ASSUME NEW d \in Databases, DatabaseStep(d) PROVE UNCHANGED <<files, old, intended>>
  <2>1. CASE \E single \in BOOLEAN, target \in files : Apply(d, target, single)
    <3>1. PICK c : Start(d, c)
      BY <2>1 DEF Apply
    <3> QED BY <3>1 DEF Start, dir
  <2>2. CASE DevMigrate(d)
    <3>1. PICK c : Start(d, c)
      BY <2>2 DEF DevMigrate
    <3> QED BY <3>1 DEF Start, dir
  <2>3. CASE Backup(d) \/ Hook(d) \/ Transaction(d) \/ ApplyMigration(d)
    BY <2>3 DEF Backup, Hook, Transaction, ApplyMigration, dir
  <2>4. CASE StartRewrite(d) \/ CommitRewrite(d) \/ MigrateToSchema(d)
    BY <2>4 DEF StartRewrite, CommitRewrite, MigrateToSchema, dir
  <2>5. CASE Fail(d) \/ Finish(d)
    BY <2>5 DEF Fail, Finish, dir
  <2> QED BY <1>2, <2>1, <2>2, <2>3, <2>4, <2>5 DEF DatabaseStep
<1>3. CASE \E s \in Schemas : EditSchema(s)
  BY <1>3 DEF EditSchema, dir
<1>4. CASE Create \/ Extract \/ \E withFixup \in BOOLEAN : Squash(withFixup)
  <2>1. PICK c : Start(Main, c)
    BY <1>4 DEF Create, Extract, Squash
  <2> QED BY <2>1 DEF Start, dir
<1>5. CASE Write
  BY <1>5 DEF Write
<1>6. CASE WriteSquashed
  BY <1>6 DEF WriteSquashed
<1>7. CASE Copy
  BY <1>7 DEF Copy
<1>8. CASE RenameFixups \/ WriteFixup
  BY <1>8 DEF RenameFixups, WriteFixup
<1>9. CASE RemoveOld
  BY <1>9 DEF RemoveOld
<1>10. CASE \E f \in files : RenameRevision(f)
  BY <1>10 DEF RenameRevision
<1> QED BY <1>1, <1>2, <1>3, <1>4, <1>5, <1>6, <1>7, <1>8, <1>9, <1>10
     DEF MigrationsNext, DirectoryStep

LEMMA KeptStep ==
    ASSUME MigrationsTyped, RevisionsKept, [MigrationsNext]_migrating PROVE RevisionsKept'
<1>1. Main \in Databases /\ cmd[Main] \in CommandTypes /\ StepOf(Main) /\ cmd[Main].backed \in BOOLEAN
  BY MigrationsAssumption, MigrationsMove, SessionIs
<1>2. /\ Ancestors(intended) \subseteq files \cup old
      /\ Tidy(cmd[Main], files, old, intended)
  BY DEF RevisionsKept
<1>3. ASSUME NEW what, Now(Main, what), Pop(Main),
             what = "writeSquashed" => intended' = cmd[Main].goal /\ cmd[Main].goal \in files',
             what \notin {"removeOld", "copy"} => files \cup old \subseteq files' \cup old'
      PROVE  Tidy(cmd'[Main], files', old', intended')
  <2>1. PICK backed \in BOOLEAN : backed = cmd[Main].backed
    BY <1>1
  <2>2. Popping(cmd[Main], cmd'[Main], what, backed)
    BY <1>1, <1>3, <2>1, CommandPops DEF MigrationsTyped
  <2> QED BY <1>1, <1>2, <1>3, <2>2, PopTidy
<1>4. ASSUME NEW what, Now(Main, what)
      PROVE  /\ Has(cmd[Main].todo, what)
             /\ Kinds(cmd[Main].todo, {"removeOld"}) => what = "removeOld"
             /\ what = "removeOld" => ~Has(cmd[Main].todo, "writeSquashed")
  <2>1. cmd[Main].todo \in Seq(Statement) /\ cmd[Main].todo # <<>> /\ cmd[Main].todo[1].do = what
    BY <1>1, <1>4 DEF CommandTypes, Now, NextOf
  <2>2. 1 \in 1..Len(cmd[Main].todo)
    BY <2>1, TailIs
  <2>3. InOrder(cmd[Main].todo)
    BY <1>2 DEF Tidy
  <2>4. Kinds(Tail(cmd[Main].todo), Sequel(what))
    BY <2>1, <2>3, TailInOrder
  <2>5. ASSUME what = "removeOld", Has(cmd[Main].todo, "writeSquashed") PROVE FALSE
    <3>1. Has(Tail(cmd[Main].todo), "writeSquashed")
      BY <2>1, <2>5, TailHas
    <3> QED BY <2>4, <2>5, <3>1 DEF Kinds, Has, Sequel
  <2> QED BY <2>1, <2>2, <2>5 DEF Has, Kinds
<1>5. CASE UNCHANGED <<files, old, intended>>
  <2>1. Ancestors(intended') \subseteq files' \cup old'
    BY <1>2, <1>5
  <2>2. CASE cmd'[Main] = cmd[Main]
    BY <1>2, <1>5, <2>1, <2>2 DEF RevisionsKept
  <2>3. CASE Ready(cmd'[Main].todo, cmd'[Main].goal)
    <3>1. Tidy(cmd'[Main], files, old, intended)
      BY <2>3 DEF Ready, Tidy
    <3> QED BY <1>5, <2>1, <3>1 DEF RevisionsKept
  <2>4. CASE cmd'[Main] = NoCommand
    <3>1. Tidy(NoCommand, files, old, intended)
      BY DEF Tidy, NoCommand, Has, InOrder
    <3> QED BY <1>5, <2>1, <2>4, <3>1 DEF RevisionsKept
  <2>5. ASSUME NEW what, NEW backed \in BOOLEAN, Popping(cmd[Main], cmd'[Main], what, backed),
               what = "writeSquashed" => intended' = cmd[Main].goal /\ cmd[Main].goal \in files'
        PROVE  RevisionsKept'
    <3>1. files \cup old \subseteq files' \cup old'
      BY <1>5
    <3>2. Tidy(cmd'[Main], files', old', intended')
      BY <1>1, <1>2, <2>5, <3>1, PopTidy
    <3> QED BY <2>1, <3>2 DEF RevisionsKept
  <2>6. \/ cmd'[Main] = cmd[Main] \/ Ready(cmd'[Main].todo, cmd'[Main].goal)
        \/ cmd'[Main] = NoCommand
        \/ \E what, backed :
              /\ backed \in BOOLEAN /\ Popping(cmd[Main], cmd'[Main], what, backed)
              /\ what = "writeSquashed" => intended' = cmd[Main].goal /\ cmd[Main].goal \in files'
    <3> DEFINE P(what, backed) ==
              /\ backed \in BOOLEAN /\ Popping(cmd[Main], cmd'[Main], what, backed)
              /\ what = "writeSquashed" => intended' = cmd[Main].goal /\ cmd[Main].goal \in files'
           L(A(_, _, _, _, _, _, _, _)) == A(cmd[Main], rewriting[Main], started[Main], db[Main],
                      cmd'[Main], rewriting'[Main], started'[Main], db'[Main])
    <3>1. CASE L(Quiet1)
      <4>1. PICK what : P(what, cmd[Main].backed \/ what \in {"backup", "backupUnlessDone"})
        BY <3>1 DEF Quiet1
      <4> HIDE DEF P
      <4>2. \E w, b : P(w, b)
        BY <4>1
      <4> QED BY <4>2 DEF P
    <3>2. CASE L(Transacting)
      <4>1. P("begin", cmd[Main].backed) \/ P("commit", cmd[Main].backed)
        BY <1>1, <3>2 DEF Transacting
      <4> HIDE DEF P
      <4>2. \E w, b : P(w, b)
        BY <4>1
      <4> QED BY <4>2 DEF P
    <3>3. CASE L(Moves)
      <4>1. \E what \in {"apply", "rewrite", "commitRewrite"} : P(what, cmd[Main].backed)
        BY <1>1, <3>3 DEF Moves
      <4> HIDE DEF P
      <4>2. \E w, b : P(w, b)
        BY <4>1
      <4> QED BY <4>2 DEF P
    <3>4. CASE L(Differs)
      <4>1. \/ P("diff", cmd[Main].backed)
            \/ P("diff", cmd[Main].backed \/ (rewriting[Main] = NoId /\ ~SkipBackup))
        BY <1>1, <3>4 DEF Differs
      <4> HIDE DEF P
      <4>2. \E w, b : P(w, b)
        BY <4>1
      <4> QED BY <4>2 DEF P
    <3>5. CASE L(Starting)
      BY <3>5 DEF Starting
    <3>6. CASE L(Ending)
      BY <3>6 DEF Ending
    <3> QED BY <1>1, <3>1, <3>2, <3>3, <3>4, <3>5, <3>6 DEF StepOf, LocalMove
  <2> QED BY <2>2, <2>3, <2>4, <2>5, <2>6
<1>6. ASSUME NEW what \in {"write", "writeSquashed"},
             Now(Main, what), Pop(Main), files' = files \cup {cmd[Main].goal},
             intended' = cmd[Main].goal, UNCHANGED old
      PROVE  RevisionsKept'
  <2>1. Tidy(cmd'[Main], files', old', intended')
    BY <1>3, <1>6
  <2>2. Has(cmd[Main].todo, what)
    BY <1>4, <1>6
  <2>3. Ancestors(cmd[Main].goal) \subseteq files' \cup old'
    BY <1>2, <1>6, <2>2 DEF Tidy
  <2> QED BY <1>6, <2>1, <2>3 DEF RevisionsKept
<1>7. CASE /\ Now(Main, "oldRevisions") /\ files \cup old = files' \cup old' /\ UNCHANGED intended
           /\ Pop(Main) \/ UNCHANGED cmd
  <2>1. Tidy(cmd'[Main], files', old', intended')
    <3>1. CASE Pop(Main)
      BY <1>3, <1>7, <3>1
    <3>2. CASE UNCHANGED cmd
      <4>1. ~Kinds(cmd[Main].todo, {"removeOld"})
        BY <1>4, <1>7
      <4>2. Tidy(cmd[Main], files', old', intended')
        BY <1>2, <1>7, <4>1 DEF Tidy
      <4> QED BY <3>2, <4>2
    <3> QED BY <1>7, <3>1, <3>2
  <2> QED BY <1>2, <1>7, <2>1 DEF RevisionsKept
<1>8. CASE Now(Main, "removeOld") /\ Pop(Main) /\ UNCHANGED <<files, intended>>
  <2>1. Tidy(cmd'[Main], files', old', intended')
    BY <1>3, <1>8
  <2>2. Has(cmd[Main].todo, "removeOld") /\ ~Has(cmd[Main].todo, "writeSquashed")
    BY <1>4, <1>8
  <2>3. Ancestors(intended) \subseteq files
    BY <1>2, <2>2 DEF Tidy
  <2> QED BY <1>8, <2>1, <2>3 DEF RevisionsKept
<1>9. CASE /\ Now(Main, "copy") /\ Pop(Main) /\ files' = Extracted(cmd[Main].goal)
           /\ intended' = cmd[Main].goal
  <2>1. Tidy(cmd'[Main], files', old', intended')
    BY <1>3, <1>9
  <2>2. Ancestors(intended') \subseteq files'
    BY <1>9 DEF Extracted
  <2> QED BY <2>1, <2>2 DEF RevisionsKept
<1> QED BY <1>5, <1>6, <1>7, <1>8, <1>9, DirectoryMoves

LEMMA CoveredStep ==
    ASSUME covered \in [Databases -> BOOLEAN], [MigrationsNext]_migrating
    PROVE  covered' \in [Databases -> BOOLEAN]
<1>1. CASE UNCHANGED covered
  BY <1>1
<1>2. CASE RenameFixups \/ WriteSquashed \/ Copy
  <2>2. CASE RenameFixups
    <3> DEFINE P(d) == db[d] \in Leading({cmd[Main].from}) \cup {<<>>}
    <3>1. covered' = [d \in Databases |-> P(d)]
      BY <2>2 DEF RenameFixups
    <3>2. \A d \in Databases : P(d) \in BOOLEAN
      OBVIOUS
    <3> HIDE DEF P
    <3> QED BY <3>1, <3>2
  <2>3. CASE WriteSquashed
    <3> DEFINE P(d) == covered[d] /\ (FixupOf(cmd[Main]) \in fixups \/ db[d] = <<>>)
    <3>1. covered' = [d \in Databases |-> P(d)]
      BY <2>3 DEF WriteSquashed
    <3>2. \A d \in Databases : P(d) \in BOOLEAN
      OBVIOUS
    <3> HIDE DEF P
    <3> QED BY <3>1, <3>2
  <2>4. CASE Copy
    <3> DEFINE P(d) == db[d] \in Ancestors(intended') \cup {<<>>}
    <3>1. covered' = [d \in Databases |-> P(d)]
      BY <2>4 DEF Copy
    <3>2. \A d \in Databases : P(d) \in BOOLEAN
      OBVIOUS
    <3> HIDE DEF P
    <3> QED BY <3>1, <3>2
  <2> QED BY <1>2, <2>2, <2>3, <2>4
<1>3. ASSUME NEW d \in Databases, Fail(d) PROVE covered' \in [Databases -> BOOLEAN]
  BY <1>3 DEF Fail
<1>4. ASSUME NEW d \in Databases, Finish(d) PROVE covered' \in [Databases -> BOOLEAN]
  BY <1>4 DEF Finish
<1>5. ASSUME NEW d \in Databases, DatabaseStep(d), ~Fail(d), ~Finish(d) PROVE UNCHANGED covered
  <2>1. ASSUME NEW c, Start(d, c) PROVE UNCHANGED covered
    BY <2>1 DEF Start
  <2>2. CASE (\E single \in BOOLEAN, target \in files : Apply(d, target, single)) \/ DevMigrate(d)
    BY <2>1, <2>2 DEF Apply, DevMigrate
  <2>3. CASE Backup(d) \/ Hook(d) \/ Transaction(d) \/ ApplyMigration(d)
    BY <2>3 DEF Backup, Hook, Transaction, ApplyMigration
  <2>4. CASE StartRewrite(d) \/ CommitRewrite(d) \/ MigrateToSchema(d)
    BY <2>4 DEF StartRewrite, CommitRewrite, MigrateToSchema
  <2> QED BY <1>5, <2>2, <2>3, <2>4 DEF DatabaseStep
<1>6. CASE Create \/ Extract \/ \E withFixup \in BOOLEAN : Squash(withFixup)
  <2>1. PICK c : Start(Main, c)
    BY <1>6 DEF Create, Extract, Squash
  <2> QED BY <1>1, <2>1 DEF Start
<1>7. CASE Write \/ WriteFixup \/ RemoveOld \/ \E f \in files : RenameRevision(f)
  BY <1>1, <1>7 DEF Write, WriteFixup, RemoveOld, RenameRevision
<1>8. CASE \E s \in Schemas : EditSchema(s)
  BY <1>1, <1>8 DEF EditSchema
<1>9. CASE UNCHANGED migrating
  BY <1>1, <1>9 DEF migrating
<1> QED BY <1>1, <1>2, <1>3, <1>4, <1>5, <1>6, <1>7, <1>8, <1>9 DEF MigrationsNext, DirectoryStep

\* Whatever point a squash stops at, every revision that the newest one stands on is in
\* migrations/ under its name or as .edgeql.old (TwoStageRemove): the queue of a squash
\* writes the squashed revision before it removes the old ones.  async_try! rolls back
\* what it began: between commands no session has a rewrite or a transaction open.
THEOREM MigrationsHold == MigrationsSpec => []MigrationsInv
<1> DEFINE Inv == MigrationsInductive /\ RevisionsKept /\ covered \in [Databases -> BOOLEAN]
<1>1. MigrationsInit => Inv
  <2> SUFFICES ASSUME MigrationsInit PROVE Inv
    OBVIOUS
  <2>1. MigrationsInductive /\ covered \in [Databases -> BOOLEAN]
    BY MigrationsStart DEF MigrationsInit
  <2>2. RevisionsKept
    BY MigrationsAssumption DEF MigrationsInit, RevisionsKept, Tidy, NoCommand, Has, InOrder, Ancestors
  <2> QED BY <2>1, <2>2
<1>2. Inv /\ [MigrationsNext]_migrating => Inv'
  <2> SUFFICES ASSUME Inv, [MigrationsNext]_migrating PROVE Inv'
    OBVIOUS
  <2>1. MigrationsInductive'
    BY MigrationsStep
  <2>2. RevisionsKept'
    BY KeptStep DEF MigrationsInductive
  <2>3. covered' \in [Databases -> BOOLEAN]
    BY CoveredStep
  <2> QED BY <2>1, <2>2, <2>3
<1>3. Inv => MigrationsInv
  <2> SUFFICES ASSUME Inv PROVE MigrationsInv
    OBVIOUS
  <2>1. ASSUME NEW d \in Databases
        PROVE  /\ cmd[d].op = "none" => rewriting[d] = NoId /\ started[d] = NoId
               /\ \A i \in 1..Len(db[d]) : db[d][i].to \in Schemas
    <3>1. db[d] \in Seq(Migration)
      BY SessionIs DEF MigrationsInductive, Revisions
    <3>2. \A i \in 1..Len(db[d]) : db[d][i] \in Migration
      BY <3>1
    <3>3. ASSUME cmd[d].op = "none" PROVE rewriting[d] = NoId /\ started[d] = NoId
      <4>1. cmd[d].todo = <<>> /\ SessionFits(cmd[d], rewriting[d], started[d])
        BY <3>3 DEF MigrationsInductive, MigrationsTyped, CommandsTyped, Fits
      <4> QED BY <4>1 DEF SessionFits, Has
    <3> QED BY <3>2, <3>3 DEF Migration
  <2>2. SessionsClosed
    BY <2>1 DEF SessionsClosed
  <2>3. src \in Schemas /\ Ancestors(intended) \subseteq files \cup old
    BY DEF MigrationsInductive, MigrationsTyped, RevisionsKept
  <2> QED BY <2>2, <2>3 DEF MigrationsInv
<1> HIDE DEF Inv
<1> QED BY <1>1, <1>2, <1>3, PTL DEF MigrationsSpec
=============================================================================
