----------------------- MODULE FileMaterializerProofs -----------------------
(***************************************************************************)
(* Paths: "below" is a strict order in which the paths above one path form *)
(* a chain, and a change of prefix is an isomorphism from the subtree of   *)
(* the old prefix to the subtree of the new one.                           *)
(*                                                                         *)
(* Then the counts of the directory table.  A table and a set of live      *)
(* files fit when every count is the number of files below its directory   *)
(* and every directory with a file below it is in the table.  Each         *)
(* operator of the materializer that changes both keeps them fitting.      *)
(***************************************************************************)
EXTENDS FileMaterializer, Integers, SequenceTheorems, FiniteSetTheorems, TLAPS

LEMMA PathIsSeq ==
  ASSUME NEW p \in Paths
  PROVE  /\ p \in Seq(Names)
         /\ Len(p) \in Nat
         /\ Len(p) >= 1
         /\ \A i \in 1 .. Len(p) : p[i] \in Names
<1>1. p \in Seq(Names) /\ p # <<>>
  BY DEF Paths
<1>2. Len(p) \in Nat \ {0}
  BY <1>1, EmptySeq
<1>3. \A i \in 1 .. Len(p) : p[i] \in Names
  BY <1>1, ElementOfSeq
<1> QED
  BY <1>1, <1>2, <1>3

LEMMA PathsEqual ==
  ASSUME NEW p \in Paths, NEW q \in Paths, Len(p) = Len(q),
         \A i \in 1 .. Len(p) : p[i] = q[i]
  PROVE  p = q
BY PathIsSeq, SeqEqual

\* What a prefix of a path is.
LEMMA PrefixIsPath ==
  ASSUME NEW p \in Paths, NEW n \in 1 .. Len(p)
  PROVE  /\ SubSeq(p, 1, n) \in Paths
         /\ Len(SubSeq(p, 1, n)) = n
         /\ \A i \in 1 .. n : SubSeq(p, 1, n)[i] = p[i]
<1>1. n \in Int /\ 1 <= n /\ \A i \in 1 .. n : p[i] \in Names
  BY PathIsSeq
<1>2. /\ SubSeq(p, 1, n) \in Seq(Names)
      /\ Len(SubSeq(p, 1, n)) = IF 1 <= n THEN n - 1 + 1 ELSE 0
      /\ \A i \in 1 .. n - 1 + 1 : SubSeq(p, 1, n)[i] = p[1 + i - 1]
  BY <1>1, SubSeqProperties
<1> QED
  BY <1>1, <1>2, EmptySeq DEF Paths

-----------------------------------------------------------------------------
(* "Below" is a strict order, and what is above one path is a chain. *)

LEMMA StrictPointwise ==
  ASSUME NEW p \in Paths, NEW d \in Paths
  PROVE  IsStrictDescendant(p, d)
           <=> Len(d) < Len(p) /\ \A i \in 1 .. Len(d) : p[i] = d[i]
<1>1. CASE Len(d) < Len(p)
  <2>1. Len(d) \in 1 .. Len(p)
    BY <1>1, PathIsSeq
  <2>2. /\ SubSeq(p, 1, Len(d)) \in Paths
        /\ Len(SubSeq(p, 1, Len(d))) = Len(d)
        /\ \A i \in 1 .. Len(d) : SubSeq(p, 1, Len(d))[i] = p[i]
    BY <2>1, PrefixIsPath
  <2>3. SubSeq(p, 1, Len(d)) = d <=> \A i \in 1 .. Len(d) : p[i] = d[i]
    BY <2>2, PathsEqual
  <2> QED
    BY <1>1, <2>3 DEF IsStrictDescendant
<1>2. CASE ~(Len(d) < Len(p))
  BY <1>2 DEF IsStrictDescendant
<1> QED
  BY <1>1, <1>2

\* AncestorPaths(p) is what p lies strictly below.
LEMMA AncestorIsAbove ==
  ASSUME NEW p \in Paths, NEW d
  PROVE  d \in AncestorPaths(p) <=> d \in Paths /\ IsStrictDescendant(p, d)
<1>1. ASSUME d \in AncestorPaths(p)
      PROVE  d \in Paths /\ IsStrictDescendant(p, d)
  <2>1. PICK i \in 1 .. Len(p) - 1 : d = SubSeq(p, 1, i)
    BY <1>1 DEF AncestorPaths
  <2>2. i \in 1 .. Len(p) /\ i < Len(p)
    BY <2>1, PathIsSeq
  <2>3. d \in Paths /\ Len(d) = i
    BY <2>1, <2>2, PrefixIsPath
  <2> QED
    BY <2>1, <2>2, <2>3 DEF IsStrictDescendant
<1>2. ASSUME d \in Paths, IsStrictDescendant(p, d)
      PROVE  d \in AncestorPaths(p)
  <2>1. Len(d) \in 1 .. Len(p) - 1
    BY <1>2, PathIsSeq DEF IsStrictDescendant
  <2> QED
    BY <1>2, <2>1 DEF IsStrictDescendant, AncestorPaths
<1> QED
  BY <1>1, <1>2

LEMMA StrictIrreflexive ==
  ASSUME NEW p \in Paths
  PROVE  ~IsStrictDescendant(p, p)
BY PathIsSeq DEF IsStrictDescendant

LEMMA StrictTransitive ==
  ASSUME NEW p \in Paths, NEW d \in Paths, NEW e \in Paths,
         IsStrictDescendant(p, d), IsStrictDescendant(d, e)
  PROVE  IsStrictDescendant(p, e)
<1>1. Len(d) < Len(p) /\ \A i \in 1 .. Len(d) : p[i] = d[i]
  BY StrictPointwise
<1>2. Len(e) < Len(d) /\ \A i \in 1 .. Len(e) : d[i] = e[i]
  BY StrictPointwise
<1>3. Len(e) < Len(p) /\ \A i \in 1 .. Len(e) : p[i] = e[i]
  BY <1>1, <1>2, PathIsSeq
<1> QED
  BY <1>3, StrictPointwise

LEMMA AboveIsChain ==
  ASSUME NEW p \in Paths, NEW d \in Paths, NEW e \in Paths,
         IsSelfOrDescendant(p, d), IsSelfOrDescendant(p, e)
  PROVE  d = e \/ IsStrictDescendant(d, e) \/ IsStrictDescendant(e, d)
<1>1. Len(d) <= Len(p) /\ \A i \in 1 .. Len(d) : p[i] = d[i]
  BY StrictPointwise, PathIsSeq DEF IsSelfOrDescendant
<1>2. Len(e) <= Len(p) /\ \A i \in 1 .. Len(e) : p[i] = e[i]
  BY StrictPointwise, PathIsSeq DEF IsSelfOrDescendant
<1>3. CASE Len(d) = Len(e)
  BY <1>1, <1>2, <1>3, PathsEqual
<1>4. CASE Len(d) < Len(e)
  <2>1. \A i \in 1 .. Len(d) : e[i] = d[i]
    BY <1>1, <1>2, <1>4, PathIsSeq
  <2> QED
    BY <1>4, <2>1, StrictPointwise
<1>5. CASE Len(e) < Len(d)
  <2>1. \A i \in 1 .. Len(e) : d[i] = e[i]
    BY <1>1, <1>2, <1>5, PathIsSeq
  <2> QED
    BY <1>5, <2>1, StrictPointwise
<1> QED
  BY <1>3, <1>4, <1>5, PathIsSeq

-----------------------------------------------------------------------------
(* A change of prefix is an isomorphism of subtrees. *)

Under(dir) == {p \in Paths : IsSelfOrDescendant(p, dir)}

LEMMA UnderPointwise ==
  ASSUME NEW p \in Paths, NEW d \in Paths
  PROVE  p \in Under(d) <=> Len(d) <= Len(p) /\ \A i \in 1 .. Len(d) : p[i] = d[i]
<1>1. ASSUME Len(d) = Len(p), \A i \in 1 .. Len(d) : p[i] = d[i]
      PROVE  p = d
  BY <1>1, PathsEqual
<1> QED
  BY <1>1, StrictPointwise, PathIsSeq DEF Under, IsSelfOrDescendant

LEMMA RewritePointwise ==
  ASSUME NEW from \in Paths, NEW to \in Paths, NEW p \in Under(from)
  PROVE  LET q == RewritePrefix(p, from, to)
         IN  /\ q \in Under(to)
             /\ Len(q) = Len(to) + (Len(p) - Len(from))
             /\ \A i \in 1 .. Len(to) : q[i] = to[i]
             /\ \A i \in 1 .. Len(p) - Len(from) : q[Len(to) + i] = p[Len(from) + i]
<1> DEFINE q == RewritePrefix(p, from, to)
           s == SubSeq(p, Len(from) + 1, Len(p))
<1>1. p \in Paths /\ Len(from) <= Len(p)
  BY UnderPointwise DEF Under
<1>2. /\ Len(from) \in Nat /\ Len(p) \in Nat /\ Len(to) \in Nat /\ Len(to) >= 1
      /\ to \in Seq(Names)
      /\ \A i \in (Len(from) + 1) .. Len(p) : p[i] \in Names
  BY <1>1, PathIsSeq
<1>3. /\ s \in Seq(Names)
      /\ Len(s) = IF Len(from) + 1 <= Len(p) THEN Len(p) - (Len(from) + 1) + 1 ELSE 0
      /\ \A i \in 1 .. Len(p) - (Len(from) + 1) + 1 : s[i] = p[Len(from) + 1 + i - 1]
  BY <1>2, SubSeqProperties
<1>4. /\ Len(s) = Len(p) - Len(from)
      /\ \A i \in 1 .. Len(p) - Len(from) : s[i] = p[Len(from) + i]
  BY <1>1, <1>2, <1>3
<1>5. /\ q \in Seq(Names)
      /\ Len(q) = Len(to) + Len(s)
      /\ \A i \in 1 .. Len(to) + Len(s) :
           q[i] = IF i <= Len(to) THEN to[i] ELSE s[i - Len(to)]
  BY <1>2, <1>3, ConcatProperties DEF RewritePrefix
<1> HIDE DEF q, s
<1>6. Len(q) >= 1 /\ q \in Paths
  BY <1>1, <1>2, <1>4, <1>5, EmptySeq DEF Paths
<1>7. /\ Len(q) = Len(to) + (Len(p) - Len(from))
      /\ \A i \in 1 .. Len(to) : q[i] = to[i]
      /\ \A i \in 1 .. Len(p) - Len(from) : q[Len(to) + i] = p[Len(from) + i]
  <2>1. Len(q) = Len(to) + (Len(p) - Len(from))
    BY <1>4, <1>5
  <2>2. ASSUME NEW i \in 1 .. Len(to)
        PROVE  q[i] = to[i]
    <3>1. i \in 1 .. Len(to) + Len(s) /\ i <= Len(to)
      BY <1>1, <1>2, <1>4
    <3> QED
      BY ONLY <3>1, <1>5
  <2>3. ASSUME NEW i \in 1 .. Len(p) - Len(from)
        PROVE  q[Len(to) + i] = p[Len(from) + i]
    <3>1. /\ Len(to) + i \in 1 .. Len(to) + Len(s)
          /\ ~(Len(to) + i <= Len(to))
          /\ (Len(to) + i) - Len(to) = i
      BY <1>1, <1>2, <1>4
    <3>2. q[Len(to) + i] = s[i]
      BY <3>1, <1>5
    <3> QED
      BY <3>2, <1>4
  <2> QED
    BY <2>1, <2>2, <2>3
<1>8. q \in Under(to)
  BY <1>1, <1>2, <1>6, <1>7, UnderPointwise
<1> QED
  BY <1>7, <1>8 DEF q

LEMMA RewriteInjective ==
  ASSUME NEW from \in Paths, NEW to \in Paths,
         NEW p \in Under(from), NEW e \in Under(from),
         RewritePrefix(p, from, to) = RewritePrefix(e, from, to)
  PROVE  p = e
<1>1. /\ p \in Paths /\ Len(from) <= Len(p) /\ \A i \in 1 .. Len(from) : p[i] = from[i]
      /\ e \in Paths /\ Len(from) <= Len(e) /\ \A i \in 1 .. Len(from) : e[i] = from[i]
  BY UnderPointwise DEF Under
<1> DEFINE q == RewritePrefix(p, from, to)
           f == RewritePrefix(e, from, to)
<1>a. /\ Len(q) = Len(to) + (Len(p) - Len(from))
      /\ \A i \in 1 .. Len(p) - Len(from) : q[Len(to) + i] = p[Len(from) + i]
  BY RewritePointwise
<1>b. /\ Len(f) = Len(to) + (Len(e) - Len(from))
      /\ \A i \in 1 .. Len(e) - Len(from) : f[Len(to) + i] = e[Len(from) + i]
  BY RewritePointwise
<1>c. q = f
  OBVIOUS
<1> HIDE DEF q, f
<1>2. Len(p) = Len(e)
  BY <1>1, <1>a, <1>b, <1>c, PathIsSeq
<1>3. \A i \in 1 .. Len(p) - Len(from) : p[Len(from) + i] = e[Len(from) + i]
  BY <1>2, <1>a, <1>b, <1>c
<1>4. ASSUME NEW i \in 1 .. Len(p)
      PROVE  p[i] = e[i]
  <2>1. CASE i <= Len(from)
    BY <1>1, <2>1, PathIsSeq
  <2>2. CASE i > Len(from)
    <3>1. i - Len(from) \in 1 .. Len(p) - Len(from) /\ Len(from) + (i - Len(from)) = i
      BY <1>1, <2>2, PathIsSeq
    <3> QED
      BY <3>1, <1>3
  <2> QED
    BY <2>1, <2>2, <1>1, PathIsSeq
<1> QED
  BY <1>1, <1>2, <1>4, PathsEqual

LEMMA RewriteBack ==
  ASSUME NEW from \in Paths, NEW to \in Paths, NEW q \in Under(to)
  PROVE  /\ RewritePrefix(q, to, from) \in Under(from)
         /\ RewritePrefix(RewritePrefix(q, to, from), from, to) = q
<1> DEFINE p == RewritePrefix(q, to, from)
           r == RewritePrefix(p, from, to)
<1>1. /\ q \in Paths /\ Len(to) <= Len(q) /\ \A i \in 1 .. Len(to) : q[i] = to[i]
      /\ Len(from) \in Nat /\ Len(to) \in Nat /\ Len(q) \in Nat
  BY UnderPointwise, PathIsSeq DEF Under
<1>2. /\ p \in Under(from)
      /\ Len(p) = Len(from) + (Len(q) - Len(to))
      /\ \A i \in 1 .. Len(q) - Len(to) : p[Len(from) + i] = q[Len(to) + i]
  BY RewritePointwise
<1>3. /\ r \in Under(to)
      /\ Len(r) = Len(to) + (Len(p) - Len(from))
      /\ \A i \in 1 .. Len(to) : r[i] = to[i]
      /\ \A i \in 1 .. Len(p) - Len(from) : r[Len(to) + i] = p[Len(from) + i]
  BY <1>2, RewritePointwise
<1>4. Len(r) = Len(q)
  BY <1>1, <1>2, <1>3
<1>5. ASSUME NEW i \in 1 .. Len(r)
      PROVE  r[i] = q[i]
  <2>1. CASE i <= Len(to)
    BY <1>1, <1>3, <2>1
  <2>2. CASE i > Len(to)
    <3>1. /\ i - Len(to) \in 1 .. Len(q) - Len(to)
          /\ Len(p) - Len(from) = Len(q) - Len(to)
          /\ Len(to) + (i - Len(to)) = i
      BY <1>1, <1>2, <1>4, <2>2
    <3>2. r[i] = p[Len(from) + (i - Len(to))] /\ p[Len(from) + (i - Len(to))] = q[i]
      BY <3>1, <1>2, <1>3
    <3> QED
      BY <3>2
  <2> QED
    BY <1>1, <2>1, <2>2, <1>4
<1>6. r \in Paths
  BY <1>3 DEF Under
<1>7. r = q
  BY <1>1, <1>4, <1>5, <1>6, PathsEqual
<1> QED
  BY <1>2, <1>7

LEMMA RewriteKeepsOrder ==
  ASSUME NEW from \in Paths, NEW to \in Paths,
         NEW p \in Under(from), NEW e \in Under(from)
  PROVE  IsStrictDescendant(RewritePrefix(p, from, to), RewritePrefix(e, from, to))
           <=> IsStrictDescendant(p, e)
<1> DEFINE q == RewritePrefix(p, from, to)
           f == RewritePrefix(e, from, to)
<1>1. /\ p \in Paths /\ Len(from) <= Len(p) /\ \A i \in 1 .. Len(from) : p[i] = from[i]
      /\ e \in Paths /\ Len(from) <= Len(e) /\ \A i \in 1 .. Len(from) : e[i] = from[i]
      /\ Len(from) \in Nat /\ Len(to) \in Nat /\ Len(p) \in Nat /\ Len(e) \in Nat
  BY UnderPointwise, PathIsSeq DEF Under
<1>2. /\ q \in Under(to) /\ Len(q) = Len(to) + (Len(p) - Len(from))
      /\ \A i \in 1 .. Len(to) : q[i] = to[i]
      /\ \A i \in 1 .. Len(p) - Len(from) : q[Len(to) + i] = p[Len(from) + i]
  BY RewritePointwise
<1>3. /\ f \in Under(to) /\ Len(f) = Len(to) + (Len(e) - Len(from))
      /\ \A i \in 1 .. Len(to) : f[i] = to[i]
      /\ \A i \in 1 .. Len(e) - Len(from) : f[Len(to) + i] = e[Len(from) + i]
  BY RewritePointwise
<1> HIDE DEF q, f
<1>4. Len(f) < Len(q) <=> Len(e) < Len(p)
  BY <1>1, <1>2, <1>3
<1>5. ASSUME Len(e) < Len(p), \A i \in 1 .. Len(e) : p[i] = e[i],
             NEW i \in 1 .. Len(f)
      PROVE  q[i] = f[i]
  <2>1. CASE i <= Len(to)
    BY <1>1, <1>2, <1>3, <2>1
  <2>2. CASE i > Len(to)
    <3>1. /\ i - Len(to) \in 1 .. Len(e) - Len(from)
          /\ i - Len(to) \in 1 .. Len(p) - Len(from)
          /\ Len(from) + (i - Len(to)) \in 1 .. Len(e)
          /\ Len(to) + (i - Len(to)) = i
      BY <1>1, <1>3, <1>5, <2>2
    <3> QED
      BY <3>1, <1>2, <1>3, <1>5
  <2> QED
    BY <1>1, <1>3, <2>1, <2>2
<1>6. ASSUME Len(f) < Len(q), \A i \in 1 .. Len(f) : q[i] = f[i],
             NEW i \in 1 .. Len(e)
      PROVE  p[i] = e[i]
  <2>1. CASE i <= Len(from)
    BY <1>1, <2>1
  <2>2. CASE i > Len(from)
    <3>1. /\ i - Len(from) \in 1 .. Len(e) - Len(from)
          /\ i - Len(from) \in 1 .. Len(p) - Len(from)
          /\ Len(to) + (i - Len(from)) \in 1 .. Len(f)
          /\ Len(from) + (i - Len(from)) = i
      BY <1>1, <1>2, <1>3, <1>6, <2>2
    <3> QED
      BY <3>1, <1>2, <1>3, <1>6
  <2> QED
    BY <1>1, <2>1, <2>2
<1>7. q \in Paths /\ f \in Paths
  BY <1>2, <1>3 DEF Under
<1>8. IsStrictDescendant(q, f) <=> Len(f) < Len(q) /\ \A i \in 1 .. Len(f) : q[i] = f[i]
  BY <1>7, StrictPointwise
<1>9. IsStrictDescendant(p, e) <=> Len(e) < Len(p) /\ \A i \in 1 .. Len(e) : p[i] = e[i]
  BY <1>1, StrictPointwise
<1>10. IsStrictDescendant(q, f) <=> IsStrictDescendant(p, e)
  BY <1>4, <1>5, <1>6, <1>8, <1>9
<1> QED
  BY <1>10 DEF q, f

-----------------------------------------------------------------------------
(* Tables and files *)

Below(F, d) == {p \in F : IsStrictDescendant(p, d)}

IsDirTable(dirs) ==
  /\ DOMAIN dirs \subseteq Paths
  /\ dirs \in [DOMAIN dirs -> [explicit : BOOLEAN, fileCount : Nat]]

IsFileSet(F) == F \subseteq Paths /\ IsFiniteSet(F)

Counted(dirs, F) == \A d \in DOMAIN dirs : dirs[d].fileCount = Cardinality(Below(F, d))

Covered(dirs, F) == \A p \in F : AncestorPaths(p) \subseteq DOMAIN dirs

LEMMA FileSubset ==
  ASSUME NEW F, IsFileSet(F), NEW G \in SUBSET F
  PROVE  IsFileSet(G)
BY FS_Subset DEF IsFileSet

LEMMA BelowFinite ==
  ASSUME NEW F, IsFileSet(F), NEW d
  PROVE  /\ IsFiniteSet(Below(F, d))
         /\ Cardinality(Below(F, d)) \in Nat
         /\ Cardinality(Below(F, d)) = 0 <=> Below(F, d) = {}
<1>1. Below(F, d) \in SUBSET F
  BY DEF Below
<1>2. IsFiniteSet(Below(F, d))
  BY <1>1, FS_Subset DEF IsFileSet
<1> QED
  BY <1>2, FS_CardinalityType, FS_EmptySet

\* Files above and files counted apart.
LEMMA BelowSplit ==
  ASSUME NEW F, IsFileSet(F), NEW G, IsFileSet(G), F \cap G = {}, NEW d
  PROVE  Cardinality(Below(F \cup G, d)) = Cardinality(Below(F, d)) + Cardinality(Below(G, d))
<1>1. Below(F \cup G, d) = Below(F, d) \cup Below(G, d)
  BY DEF Below
<1>2. Below(F, d) \cap Below(G, d) = {}
  BY DEF Below
<1>3. /\ IsFiniteSet(Below(F, d)) /\ IsFiniteSet(Below(G, d))
      /\ Cardinality(Below(F, d)) \in Nat /\ Cardinality(Below(G, d)) \in Nat
  BY BelowFinite
<1>4. Cardinality(Below(F, d) \cup Below(G, d))
        = Cardinality(Below(F, d)) + Cardinality(Below(G, d))
             - Cardinality(Below(F, d) \cap Below(G, d))
  BY <1>3, FS_Union
<1> QED
  BY <1>1, <1>2, <1>3, <1>4, FS_EmptySet

-----------------------------------------------------------------------------
(* Uncounting *)

\* If `loss` holds for every directory of the table how many of the files
\* below it go, then the table fits what stays.
LEMMA UncountFits ==
  ASSUME NEW dirs, IsDirTable(dirs), NEW F, IsFileSet(F), NEW G \in SUBSET F,
         NEW loss, DOMAIN loss \subseteq DOMAIN dirs,
         loss \in [DOMAIN loss -> Nat],
         Counted(dirs, F), Covered(dirs, G),
         \A d \in DOMAIN dirs : Cardinality(Below(F \ G, d))
                                  = IF d \in DOMAIN loss THEN loss[d] ELSE 0
  PROVE  /\ IsDirTable(Uncount(dirs, loss))
         /\ DOMAIN Uncount(dirs, loss) \subseteq DOMAIN dirs
         /\ Counted(Uncount(dirs, loss), G)
         /\ Covered(Uncount(dirs, loss), G)
<1> DEFINE left(d) == IF dirs[d].fileCount > loss[d]
                      THEN dirs[d].fileCount - loss[d] ELSE 0
           gone == {d \in DOMAIN loss : left(d) = 0 /\ ~dirs[d].explicit}
           result == [d \in DOMAIN dirs \ gone |->
                        IF d \in DOMAIN loss THEN [dirs[d] EXCEPT !.fileCount = left(d)]
                                             ELSE dirs[d]]
<1>1. Uncount(dirs, loss) = result
  BY DEF Uncount
<1>2. IsFileSet(G) /\ IsFileSet(F \ G)
  BY FileSubset
<1>3. ASSUME NEW d \in DOMAIN dirs
      PROVE  /\ dirs[d] \in [explicit : BOOLEAN, fileCount : Nat]
             /\ dirs[d].fileCount
                  = Cardinality(Below(G, d)) + (IF d \in DOMAIN loss THEN loss[d] ELSE 0)
             /\ Cardinality(Below(G, d)) \in Nat
             /\ Cardinality(Below(G, d)) = 0 <=> Below(G, d) = {}
  <2>1. G \cap (F \ G) = {} /\ G \cup (F \ G) = F
    OBVIOUS
  <2>2. Cardinality(Below(F, d)) = Cardinality(Below(G, d)) + Cardinality(Below(F \ G, d))
    BY <1>2, <2>1, BelowSplit
  <2>3. dirs[d].fileCount = Cardinality(Below(F, d))
    BY <1>3 DEF Counted
  <2>4. dirs[d] \in [explicit : BOOLEAN, fileCount : Nat]
    BY <1>3 DEF IsDirTable
  <2> QED
    BY <1>2, <2>2, <2>3, <2>4, BelowFinite
<1>4. ASSUME NEW d \in DOMAIN loss
      PROVE  left(d) = Cardinality(Below(G, d)) /\ left(d) \in Nat
  <2>1. d \in DOMAIN dirs /\ loss[d] \in Nat
    BY <1>4
  <2>2. dirs[d].fileCount = Cardinality(Below(G, d)) + loss[d]
    BY <1>3, <2>1
  <2> QED
    BY <1>3, <2>1, <2>2
<1> HIDE DEF left
<1>5. ASSUME NEW d \in DOMAIN result
      PROVE  /\ d \in DOMAIN dirs
             /\ result[d] \in [explicit : BOOLEAN, fileCount : Nat]
             /\ result[d].fileCount = Cardinality(Below(G, d))
  <2>1. d \in DOMAIN dirs
    BY <1>5
  <2>2. CASE d \in DOMAIN loss
    BY <1>3, <1>4, <1>5, <2>1, <2>2
  <2>3. CASE d \notin DOMAIN loss
    BY <1>3, <1>5, <2>1, <2>3
  <2> QED
    BY <2>1, <2>2, <2>3
<1>6. IsDirTable(result) /\ DOMAIN result \subseteq DOMAIN dirs
  <2>1. DOMAIN result \subseteq DOMAIN dirs
    BY <1>5
  <2>2. result \in [DOMAIN result -> [explicit : BOOLEAN, fileCount : Nat]]
    BY <1>5
  <2> QED
    BY <2>1, <2>2 DEF IsDirTable
<1>7. Counted(result, G)
  BY <1>5 DEF Counted
<1>8. Covered(result, G)
  <2> SUFFICES ASSUME NEW p \in G, NEW d \in AncestorPaths(p)
               PROVE  d \in DOMAIN result
    BY DEF Covered
  <2>1. d \in DOMAIN dirs
    BY DEF Covered
  <2>2. p \in Paths
    BY DEF IsFileSet
  <2>3. p \in Below(G, d)
    BY <2>2, AncestorIsAbove DEF Below
  <2>4. d \in DOMAIN loss => left(d) # 0
    BY <1>3, <1>4, <2>1, <2>3
  <2> QED
    BY <2>1, <2>4
<1> QED
  BY <1>1, <1>6, <1>7, <1>8

Fit(dirs, F) == IsDirTable(dirs) /\ IsFileSet(F) /\ Counted(dirs, F) /\ Covered(dirs, F)

\* One path is uncounted as often as there are files at or below it that go.
LEMMA DecrementFits ==
  ASSUME NEW dirs, IsDirTable(dirs), NEW F, IsFileSet(F), NEW G \in SUBSET F,
         NEW path \in Paths, F \ G \subseteq Under(path),
         Counted(dirs, F), Covered(dirs, G),
         \A d \in DOMAIN dirs : d \in Under(path) => Below(F \ G, d) = {}
  PROVE  LET result == DecrementAncestors(dirs, path, Cardinality(F \ G))
         IN  Fit(result, G) /\ DOMAIN result \subseteq DOMAIN dirs
<1> DEFINE n == Cardinality(F \ G)
           loss == [d \in DOMAIN dirs \cap AncestorPaths(path) |-> n]
<1>1. IsFileSet(F \ G) /\ IsFileSet(G) /\ n \in Nat
  BY FileSubset, FS_CardinalityType DEF IsFileSet
<1>2. ASSUME NEW d \in DOMAIN dirs
      PROVE  Cardinality(Below(F \ G, d)) = IF d \in DOMAIN loss THEN loss[d] ELSE 0
  <2>1. d \in Paths
    BY DEF IsDirTable
  <2>2. CASE d \in AncestorPaths(path)
    <3>1. IsStrictDescendant(path, d)
      BY <2>2, AncestorIsAbove
    <3>2. ASSUME NEW p \in F \ G
          PROVE  IsStrictDescendant(p, d)
      <4>1. p \in Paths /\ (p = path \/ IsStrictDescendant(p, path))
        BY DEF Under, IsSelfOrDescendant
      <4> QED
        BY <2>1, <3>1, <4>1, StrictTransitive
    <3>3. Below(F \ G, d) = F \ G
      BY <3>2 DEF Below
    <3> QED
      BY <2>2, <3>3
  <2>3. CASE d \notin AncestorPaths(path)
    <3>1. ASSUME NEW p \in Below(F \ G, d)
          PROVE  FALSE
      <4>1. p \in Paths /\ IsSelfOrDescendant(p, path) /\ IsStrictDescendant(p, d)
        BY DEF Below, Under
      <4>2. d = path \/ IsStrictDescendant(d, path) \/ IsStrictDescendant(path, d)
        BY <2>1, <4>1, AboveIsChain DEF IsSelfOrDescendant
      <4>3. ~IsStrictDescendant(path, d)
        BY <2>1, <2>3, AncestorIsAbove
      <4>4. d \in Under(path)
        BY <2>1, <4>2, <4>3 DEF Under, IsSelfOrDescendant
      <4> QED
        BY <3>1, <4>4
    <3>2. Below(F \ G, d) = {}
      BY <3>1
    <3> QED
      BY <2>3, <3>2, FS_EmptySet
  <2> QED
    BY <2>2, <2>3
<1>3. /\ DOMAIN loss \subseteq DOMAIN dirs
      /\ loss \in [DOMAIN loss -> Nat]
  BY <1>1
<1>4. DecrementAncestors(dirs, path, n) = Uncount(dirs, loss)
  BY DEF DecrementAncestors
<1> HIDE DEF loss
<1>5. /\ IsDirTable(Uncount(dirs, loss))
      /\ DOMAIN Uncount(dirs, loss) \subseteq DOMAIN dirs
      /\ Counted(Uncount(dirs, loss), G)
      /\ Covered(Uncount(dirs, loss), G)
  BY <1>2, <1>3, UncountFits
<1> QED
  BY <1>1, <1>4, <1>5 DEF Fit

-----------------------------------------------------------------------------
(* Counting *)

\* New files A at or below a path are counted in all that is above the path;
\* the table knows already what is below it.
LEMMA CountInFits ==
  ASSUME NEW dirs, IsDirTable(dirs), NEW F, IsFileSet(F), NEW A, IsFileSet(A),
         F \cap A = {}, NEW to \in Paths, A \subseteq Under(to),
         Covered(dirs, F),
         \A q \in A : AncestorPaths(q) \subseteq DOMAIN dirs \cup AncestorPaths(to),
         \A d \in DOMAIN dirs :
           dirs[d].fileCount = IF d \in AncestorPaths(to) THEN Cardinality(Below(F, d))
                               ELSE Cardinality(Below(F \cup A, d))
  PROVE  Fit(CountInAncestors(dirs, to, Cardinality(A)), F \cup A)
<1> DEFINE n == Cardinality(A)
           result == [d \in DOMAIN dirs \cup AncestorPaths(to) |->
                        IF d \notin DOMAIN dirs
                        THEN [explicit |-> FALSE, fileCount |-> n]
                        ELSE IF d \in AncestorPaths(to)
                             THEN [dirs[d] EXCEPT !.fileCount = @ + n]
                             ELSE dirs[d]]
<1>1. CountInAncestors(dirs, to, n) = result
  BY DEF CountInAncestors
<1>2. n \in Nat /\ IsFileSet(F \cup A) /\ n = Cardinality(A)
  BY FS_CardinalityType, FS_Union DEF IsFileSet
<1> HIDE DEF n
<1>3. ASSUME NEW d \in AncestorPaths(to)
      PROVE  d \in Paths /\ Below(A, d) = A
  <2>1. d \in Paths /\ IsStrictDescendant(to, d)
    BY AncestorIsAbove
  <2>2. ASSUME NEW q \in A
        PROVE  IsStrictDescendant(q, d)
    <3>1. q \in Paths /\ (q = to \/ IsStrictDescendant(q, to))
      BY DEF Under, IsSelfOrDescendant
    <3> QED
      BY <2>1, <3>1, StrictTransitive
  <2> QED
    BY <2>1, <2>2 DEF Below
<1>4. ASSUME NEW d
      PROVE  /\ Cardinality(Below(F \cup A, d))
                  = Cardinality(Below(F, d)) + Cardinality(Below(A, d))
             /\ Cardinality(Below(F, d)) \in Nat
  BY BelowSplit, BelowFinite
<1>5. ASSUME NEW d \in DOMAIN result
      PROVE  /\ d \in Paths
             /\ result[d] \in [explicit : BOOLEAN, fileCount : Nat]
             /\ result[d].fileCount = Cardinality(Below(F \cup A, d))
  <2>1. CASE d \notin DOMAIN dirs
    <3>1. d \in AncestorPaths(to)
      BY <1>5, <2>1
    <3>2. ASSUME NEW p \in Below(F, d)
          PROVE  FALSE
      <4>1. p \in F /\ p \in Paths /\ d \in AncestorPaths(p)
        BY <1>3, <3>1, AncestorIsAbove DEF Below, IsFileSet
      <4> QED
        BY <2>1, <4>1 DEF Covered
    <3>3. Cardinality(Below(F, d)) = 0
      BY <3>2, FS_EmptySet
    <3>4. result[d] = [explicit |-> FALSE, fileCount |-> n]
      BY <1>5, <2>1
    <3>5. Cardinality(Below(F \cup A, d)) = n
      <4>1. Below(A, d) = A
        BY <1>3, <3>1
      <4>2. Cardinality(Below(F \cup A, d)) = 0 + Cardinality(Below(A, d))
        BY <1>4, <3>3
      <4> QED
        BY <1>2, <4>1, <4>2
    <3> QED
      BY <1>2, <1>3, <3>1, <3>4, <3>5
  <2>2. CASE d \in DOMAIN dirs /\ d \in AncestorPaths(to)
    <3>1. dirs[d] \in [explicit : BOOLEAN, fileCount : Nat]
      BY <2>2 DEF IsDirTable
    <3>2. result[d] = [dirs[d] EXCEPT !.fileCount = dirs[d].fileCount + n]
      BY <2>2
    <3>3. dirs[d].fileCount = Cardinality(Below(F, d))
      BY <2>2
    <3>4. Cardinality(Below(F \cup A, d)) = dirs[d].fileCount + n
      <4>1. Below(A, d) = A
        BY <1>3, <2>2
      <4>2. Cardinality(Below(F \cup A, d)) = dirs[d].fileCount + Cardinality(Below(A, d))
        BY <1>4, <3>3
      <4> QED
        BY <1>2, <4>1, <4>2
    <3> QED
      BY <1>2, <1>3, <2>2, <3>1, <3>2, <3>4
  <2>3. CASE d \in DOMAIN dirs /\ d \notin AncestorPaths(to)
    BY <2>3 DEF IsDirTable
  <2> QED
    BY <1>5, <2>1, <2>2, <2>3
<1>6. IsDirTable(result)
  <2>1. result \in [DOMAIN result -> [explicit : BOOLEAN, fileCount : Nat]]
    BY <1>5
  <2> QED
    BY <1>5, <2>1 DEF IsDirTable
<1>7. Counted(result, F \cup A)
  BY <1>5 DEF Counted
<1>8. Covered(result, F \cup A)
  BY DEF Covered
<1> QED
  BY <1>1, <1>2, <1>6, <1>7, <1>8 DEF Fit, n

\* One new file, in a table that fits the others.
LEMMA CountInOneFits ==
  ASSUME NEW dirs, NEW F, Fit(dirs, F), NEW to \in Paths \ F
  PROVE  Fit(CountInAncestors(dirs, to, 1), F \cup {to})
<1>1. Cardinality({to}) = 1 /\ IsFileSet({to})
  BY FS_Singleton DEF IsFileSet
<1>2. {to} \subseteq Under(to) /\ F \cap {to} = {}
  BY DEF Under, IsSelfOrDescendant
<1>3. ASSUME NEW d \in DOMAIN dirs, d \notin AncestorPaths(to)
      PROVE  Below(F \cup {to}, d) = Below(F, d)
  BY <1>3, AncestorIsAbove DEF Below, Fit, IsDirTable
<1>4. \A d \in DOMAIN dirs :
        dirs[d].fileCount = IF d \in AncestorPaths(to) THEN Cardinality(Below(F, d))
                            ELSE Cardinality(Below(F \cup {to}, d))
  BY <1>3 DEF Fit, Counted
<1>5. Fit(CountInAncestors(dirs, to, Cardinality({to})), F \cup {to})
  BY <1>1, <1>2, <1>4, CountInFits DEF Fit
<1> QED
  BY <1>1, <1>5

-----------------------------------------------------------------------------
(* Sound volumes *)

IsVolumeRecord(vol) ==
  vol \in [files : {vol.files}, dirs : {vol.dirs},
           fileOrigins : {vol.fileOrigins}, entryHeads : {vol.entryHeads}]

BlobsOf(written) == {w[2] : w \in written}

\* Each live file is filed under its own path, has as origin an event of
\* `written` with its content that is no other file's origin, and lies below
\* no other.  `written` is a set of pairs of an event and a content.
FilesSound(vol, written) ==
  /\ vol.files \in [DOMAIN vol.files -> [path : Paths, blob : BlobsOf(written)]]
  /\ vol.fileOrigins = [p \in DOMAIN vol.files |-> vol.fileOrigins[p]]
  /\ \A p \in DOMAIN vol.files :
       /\ vol.files[p].path = p
       /\ <<vol.fileOrigins[p], vol.files[p].blob>> \in written
  /\ \A p, q \in DOMAIN vol.files :
       /\ vol.fileOrigins[p] = vol.fileOrigins[q] => p = q
       /\ ~IsStrictDescendant(p, q)

Sound(vol, written) ==
  /\ IsVolumeRecord(vol)
  /\ FilesSound(vol, written)
  /\ Fit(vol.dirs, DOMAIN vol.files)

LEMMA EmptySound ==
  ASSUME NEW written
  PROVE  Sound(EmptyVolume, written)
<1>1. /\ EmptyVolume.files = <<>> /\ EmptyVolume.dirs = <<>>
      /\ EmptyVolume.fileOrigins = <<>> /\ EmptyVolume.entryHeads = <<>>
  BY DEF EmptyVolume
<1>2. IsVolumeRecord(EmptyVolume)
  BY <1>1 DEF IsVolumeRecord, EmptyVolume
<1>3. FilesSound(EmptyVolume, written)
  BY <1>1 DEF FilesSound
<1>4. Fit(EmptyVolume.dirs, DOMAIN EmptyVolume.files)
  BY <1>1, FS_EmptySet DEF Fit, IsDirTable, IsFileSet, Counted, Covered
<1> QED
  BY <1>2, <1>3, <1>4 DEF Sound

\* What is common to the operators that remove: the files of `gone` go, the
\* others keep their metadata and origins, and the heads are untouched.
Keeps(v, vol, gone) ==
  /\ DOMAIN v.files = DOMAIN vol.files \ gone
  /\ \A p \in DOMAIN v.files : v.files[p] = vol.files[p]
  /\ \A p \in DOMAIN v.files : v.fileOrigins[p] = vol.fileOrigins[p]
  /\ v.entryHeads = vol.entryHeads
  /\ DOMAIN v.dirs \subseteq DOMAIN vol.dirs

Restricted(vol, gone, dirs) ==
  [vol EXCEPT !.files       = Without(vol.files, gone),
              !.fileOrigins = Without(vol.fileOrigins, gone),
              !.dirs        = dirs]

\* A sound volume stays sound when files go and the table still fits.
LEMMA RestrictSound ==
  ASSUME NEW vol, NEW written, IsVolumeRecord(vol), FilesSound(vol, written),
         NEW gone, NEW dirs, Fit(dirs, DOMAIN vol.files \ gone),
         DOMAIN dirs \subseteq DOMAIN vol.dirs
  PROVE  /\ Sound(Restricted(vol, gone, dirs), written)
         /\ Keeps(Restricted(vol, gone, dirs), vol, gone)
         /\ Restricted(vol, gone, dirs).dirs = dirs
<1> DEFINE v == Restricted(vol, gone, dirs)
<1>2. /\ IsVolumeRecord(v)
      /\ v.files = Without(vol.files, gone)
      /\ v.fileOrigins = Without(vol.fileOrigins, gone)
      /\ v.dirs = dirs
      /\ v.entryHeads = vol.entryHeads
  BY DEF IsVolumeRecord, Restricted
<1> HIDE DEF v
<1>3. DOMAIN vol.fileOrigins = DOMAIN vol.files
  BY DEF FilesSound
<1>4. /\ v.files = [p \in DOMAIN vol.files \ gone |-> vol.files[p]]
      /\ v.fileOrigins = [p \in DOMAIN vol.files \ gone |-> vol.fileOrigins[p]]
  BY <1>2, <1>3 DEF Without
<1>5. /\ DOMAIN v.files = DOMAIN vol.files \ gone
      /\ \A p \in DOMAIN v.files : v.files[p] = vol.files[p]
      /\ \A p \in DOMAIN v.files : v.fileOrigins[p] = vol.fileOrigins[p]
  BY <1>4
<1>6. FilesSound(v, written)
  <2>1. v.files \in [DOMAIN v.files -> [path : Paths, blob : BlobsOf(written)]]
    BY <1>4 DEF FilesSound
  <2>2. v.fileOrigins = [p \in DOMAIN v.files |-> v.fileOrigins[p]]
    BY <1>4
  <2> QED
    BY <1>5, <2>1, <2>2 DEF FilesSound
<1> QED
  BY <1>2, <1>5, <1>6 DEF Sound, Keeps, v

LEMMA RemoveFilesSound ==
  ASSUME NEW vol, NEW written, Sound(vol, written), NEW paths
  PROVE  /\ Sound(RemoveFiles(vol, paths), written)
         /\ Keeps(RemoveFiles(vol, paths), vol, paths)
<1> DEFINE F == DOMAIN vol.files
           gone == F \cap paths
           below(d) == {p \in gone : d \in AncestorPaths(p)}
           loss == [d \in {d \in DOMAIN vol.dirs : below(d) # {}} |-> Cardinality(below(d))]
           dirs == Uncount(vol.dirs, loss)
<1>1. RemoveFiles(vol, paths) = Restricted(vol, gone, dirs)
  BY DEF RemoveFiles, Restricted
<1>2. /\ IsFileSet(F) /\ IsDirTable(vol.dirs) /\ Counted(vol.dirs, F)
      /\ F \ gone \in SUBSET F /\ F \ (F \ gone) = gone
      /\ Covered(vol.dirs, F \ gone)
  BY DEF Sound, Fit, Covered
<1>3. IsFileSet(gone)
  BY <1>2, FileSubset
<1>4. ASSUME NEW d \in DOMAIN vol.dirs
      PROVE  below(d) = Below(gone, d)
  BY <1>2, <1>3, <1>4, AncestorIsAbove DEF Below, IsFileSet, IsDirTable
<1> HIDE DEF below
<1>5. /\ DOMAIN loss \subseteq DOMAIN vol.dirs
      /\ loss \in [DOMAIN loss -> Nat]
      /\ \A d \in DOMAIN vol.dirs : Cardinality(Below(gone, d))
                                      = IF d \in DOMAIN loss THEN loss[d] ELSE 0
  <2>1. ASSUME NEW d \in DOMAIN vol.dirs
        PROVE  /\ Cardinality(below(d)) \in Nat
               /\ Cardinality(below(d)) = Cardinality(Below(gone, d))
               /\ below(d) = {} => Cardinality(below(d)) = 0
    BY <1>3, <1>4, BelowFinite
  <2> QED
    BY <2>1
<1> HIDE DEF loss, gone
<1>6. /\ IsDirTable(dirs) /\ DOMAIN dirs \subseteq DOMAIN vol.dirs
      /\ Counted(dirs, F \ gone) /\ Covered(dirs, F \ gone)
  BY <1>2, <1>5, UncountFits
<1>7. Fit(dirs, F \ gone)
  BY <1>2, <1>6, FileSubset DEF Fit
<1>8. F \ gone = F \ paths
  BY DEF gone
<1> HIDE DEF dirs
<1>9. /\ Sound(RemoveFiles(vol, paths), written)
      /\ Keeps(RemoveFiles(vol, paths), vol, gone)
  BY <1>1, <1>6, <1>7, RestrictSound DEF Sound
<1> QED
  BY <1>8, <1>9 DEF Keeps

\* The table once all at or below a path has gone from it, dirs and files.
Uprooted(dirs, F, path) ==
  LET gone == {p \in F : IsSelfOrDescendant(p, path)}
      kept == Without(dirs, {d \in DOMAIN dirs : IsSelfOrDescendant(d, path)})
  IN  IF gone = {} THEN kept ELSE DecrementAncestors(kept, path, Cardinality(gone))

LEMMA UprootedFits ==
  ASSUME NEW old, NEW F, Fit(old, F), NEW path \in Paths
  PROVE  /\ Fit(Uprooted(old, F, path), F \ Under(path))
         /\ DOMAIN Uprooted(old, F, path) \subseteq DOMAIN old \ Under(path)
<1> DEFINE gone == {p \in F : IsSelfOrDescendant(p, path)}
           kept == Without(old, {d \in DOMAIN old : IsSelfOrDescendant(d, path)})
           dirs == IF gone = {} THEN kept
                   ELSE DecrementAncestors(kept, path, Cardinality(gone))
<1>1. Uprooted(old, F, path) = dirs
  BY DEF Uprooted
<1>2. /\ IsFileSet(F) /\ F \ gone \in SUBSET F /\ F \ (F \ gone) = gone
      /\ gone \subseteq Under(path) /\ F \ gone = F \ Under(path)
      /\ IsFileSet(F \ gone)
  <2>1. IsFileSet(F) /\ F \ gone \in SUBSET F
    BY DEF Fit
  <2> QED
    BY <2>1, FileSubset DEF IsFileSet, Under
<1>3. /\ DOMAIN kept = DOMAIN old \ Under(path)
      /\ \A d \in DOMAIN kept : kept[d] = old[d]
      /\ kept = [d \in DOMAIN kept |-> old[d]]
  BY DEF Without, Under, Fit, IsDirTable
<1> HIDE DEF kept, gone
<1>4. IsDirTable(kept) /\ Counted(kept, F)
  BY <1>3 DEF Fit, IsDirTable, Counted
<1>5. Covered(kept, F \ gone)
  <2> SUFFICES ASSUME NEW p \in F \ gone, NEW d \in AncestorPaths(p)
               PROVE  d \in DOMAIN kept
    BY DEF Covered
  <2>1. p \in Paths /\ d \in Paths /\ IsStrictDescendant(p, d) /\ p \notin Under(path)
    BY <1>2, AncestorIsAbove DEF IsFileSet
  <2>2. d \notin Under(path)
    BY <2>1, StrictTransitive DEF Under, IsSelfOrDescendant
  <2> QED
    BY <1>3, <2>2 DEF Fit, Covered
<1>6. Fit(dirs, F \ gone) /\ DOMAIN dirs \subseteq DOMAIN kept
  <2>1. CASE gone = {}
    BY <1>2, <1>4, <1>5, <2>1 DEF Fit
  <2>2. CASE gone # {}
    <3>1. /\ Fit(DecrementAncestors(kept, path, Cardinality(gone)), F \ gone)
          /\ DOMAIN DecrementAncestors(kept, path, Cardinality(gone)) \subseteq DOMAIN kept
      BY <1>2, <1>3, <1>4, <1>5, DecrementFits
    <3> QED
      BY <2>2, <3>1
  <2> QED
    BY <2>1, <2>2
<1> QED
  BY <1>1, <1>2, <1>3, <1>6

LEMMA RemoveDirSound ==
  ASSUME NEW vol, NEW written, Sound(vol, written), NEW path \in Paths
  PROVE  /\ Sound(RemoveDir(vol, path), written)
         /\ Keeps(RemoveDir(vol, path), vol, Under(path))
<1> DEFINE F == DOMAIN vol.files
           gone == {p \in F : IsSelfOrDescendant(p, path)}
           dirs == Uprooted(vol.dirs, F, path)
<1>1. RemoveDir(vol, path) = Restricted(vol, gone, dirs)
  BY DEF RemoveDir, Restricted, Uprooted
<1>2. F \ gone = F \ Under(path)
  BY DEF Sound, Fit, IsFileSet, Under
<1> HIDE DEF gone
<1>3. Fit(dirs, F \ gone) /\ DOMAIN dirs \subseteq DOMAIN vol.dirs
  BY <1>2, UprootedFits DEF Sound
<1> HIDE DEF dirs
<1>4. /\ Sound(RemoveDir(vol, path), written)
      /\ Keeps(RemoveDir(vol, path), vol, gone)
  BY <1>1, <1>3, RestrictSound DEF Sound
<1> QED
  BY <1>2, <1>4 DEF Keeps

\* Whether or not there was a directory, no file is left below the path.
LEMMA RemoveDirIfPresentSound ==
  ASSUME NEW vol, NEW written, Sound(vol, written), NEW path \in Paths
  PROVE  LET v == RemoveDirIfPresent(vol, path)
         IN  /\ Sound(v, written)
             /\ Keeps(v, vol, IF path \in DOMAIN vol.dirs THEN Under(path) ELSE {})
             /\ \A p \in DOMAIN v.files : ~IsStrictDescendant(p, path)
             /\ path \notin DOMAIN vol.files => DOMAIN v.files = DOMAIN vol.files \ Under(path)
<1> DEFINE v == RemoveDirIfPresent(vol, path)
<1>1. \A p \in DOMAIN vol.files : p \in Paths
  BY DEF Sound, Fit, IsFileSet
<1>2. CASE path \in DOMAIN vol.dirs
  <2>1. /\ Sound(v, written)
        /\ Keeps(v, vol, Under(path))
    BY <1>2, RemoveDirSound DEF RemoveDirIfPresent
  <2> HIDE DEF v
  <2>2. DOMAIN v.files = DOMAIN vol.files \ Under(path)
    BY <2>1 DEF Keeps
  <2>3. \A p \in DOMAIN v.files : ~IsStrictDescendant(p, path)
    BY <1>1, <2>2 DEF Under, IsSelfOrDescendant
  <2> QED
    BY <1>2, <2>1, <2>2, <2>3 DEF v
<1>3. CASE path \notin DOMAIN vol.dirs
  <2>1. ASSUME NEW p \in DOMAIN vol.files
        PROVE  ~IsStrictDescendant(p, path)
    <3>1. p \in Paths /\ AncestorPaths(p) \subseteq DOMAIN vol.dirs
      BY <1>1 DEF Sound, Fit, Covered
    <3> QED
      BY <1>3, <3>1, AncestorIsAbove
  <2>2. path \notin DOMAIN vol.files => DOMAIN vol.files \cap Under(path) = {}
    BY <2>1 DEF Under, IsSelfOrDescendant
  <2>3. v = vol
    BY <1>3 DEF RemoveDirIfPresent
  <2> QED
    BY <1>3, <2>1, <2>2, <2>3 DEF Keeps
<1> QED
  BY <1>2, <1>3

-----------------------------------------------------------------------------
(* Placing one file *)

Placed(vol, path, blob, id, dirs) ==
  [vol EXCEPT !.files       = Put(vol.files, path, [path |-> path, blob |-> blob]),
              !.fileOrigins = Put(vol.fileOrigins, path, id),
              !.dirs        = dirs]

LEMMA PlacedSound ==
  ASSUME NEW vol, NEW written, IsVolumeRecord(vol), FilesSound(vol, written),
         NEW path \in Paths, NEW blob, NEW id, <<id, blob>> \in written,
         NEW dirs, Fit(dirs, DOMAIN vol.files \cup {path}),
         \A p \in DOMAIN vol.files \ {path} :
           /\ vol.fileOrigins[p] # id
           /\ ~IsStrictDescendant(p, path)
           /\ ~IsStrictDescendant(path, p)
  PROVE  /\ Sound(Placed(vol, path, blob, id, dirs), written)
         /\ Placed(vol, path, blob, id, dirs).dirs = dirs
         /\ Placed(vol, path, blob, id, dirs).entryHeads = vol.entryHeads
<1> DEFINE v == Placed(vol, path, blob, id, dirs)
           F == DOMAIN vol.files \cup {path}
           meta == [path |-> path, blob |-> blob]
<1>1. /\ IsVolumeRecord(v)
      /\ v.files = Put(vol.files, path, meta)
      /\ v.fileOrigins = Put(vol.fileOrigins, path, id)
      /\ v.dirs = dirs
      /\ v.entryHeads = vol.entryHeads
  BY DEF IsVolumeRecord, Placed
<1> HIDE DEF v
<1>2. DOMAIN vol.fileOrigins = DOMAIN vol.files
  BY DEF FilesSound
<1>3. /\ v.files = [p \in F |-> IF p = path THEN meta ELSE vol.files[p]]
      /\ v.fileOrigins = [p \in F |-> IF p = path THEN id ELSE vol.fileOrigins[p]]
  BY <1>1, <1>2 DEF Put
<1>4. DOMAIN v.files = F /\ meta.path = path /\ meta.blob = blob
  BY <1>3
<1>5. FilesSound(v, written)
  <2>1. v.files \in [DOMAIN v.files -> [path : Paths, blob : BlobsOf(written)]]
    <3>1. meta \in [path : Paths, blob : BlobsOf(written)]
      BY DEF BlobsOf
    <3> QED
      BY <1>3, <3>1 DEF FilesSound
  <2>2. v.fileOrigins = [p \in DOMAIN v.files |-> v.fileOrigins[p]]
    BY <1>3
  <2>3. ASSUME NEW p \in DOMAIN v.files
        PROVE  /\ v.files[p].path = p
               /\ <<v.fileOrigins[p], v.files[p].blob>> \in written
    <3>1. CASE p = path
      <4>1. v.files[p] = meta /\ v.fileOrigins[p] = id
        BY <1>3, <3>1
      <4> QED
        BY <1>4, <3>1, <4>1
    <3>2. CASE p # path
      <4>1. /\ p \in DOMAIN vol.files
            /\ v.files[p] = vol.files[p] /\ v.fileOrigins[p] = vol.fileOrigins[p]
        BY <1>3, <1>4, <3>2
      <4> QED
        BY <4>1 DEF FilesSound
    <3> QED
      BY <3>1, <3>2
  <2>4. ASSUME NEW p \in DOMAIN v.files, NEW q \in DOMAIN v.files
        PROVE  /\ v.fileOrigins[p] = v.fileOrigins[q] => p = q
               /\ ~IsStrictDescendant(p, q)
    <3>1. /\ p # path => /\ p \in DOMAIN vol.files \ {path}
                         /\ v.fileOrigins[p] = vol.fileOrigins[p]
          /\ q # path => /\ q \in DOMAIN vol.files \ {path}
                         /\ v.fileOrigins[q] = vol.fileOrigins[q]
          /\ v.fileOrigins[path] = id
      BY <1>3, <1>4
    <3>2. CASE p = path
      BY <3>1, <3>2, StrictIrreflexive
    <3>3. CASE p # path /\ q = path
      BY <3>1, <3>3
    <3>4. CASE p # path /\ q # path
      BY <3>1, <3>4 DEF FilesSound
    <3> QED
      BY <3>2, <3>3, <3>4
  <2> QED
    BY <2>1, <2>2, <2>3, <2>4 DEF FilesSound
<1> QED
  BY <1>1, <1>4, <1>5 DEF Sound, v

-----------------------------------------------------------------------------
(* The verbs *)

LEMMA SoundMonotonic ==
  ASSUME NEW vol, NEW written, NEW more, Sound(vol, written), written \subseteq more
  PROVE  Sound(vol, more)
<1>1. BlobsOf(written) \subseteq BlobsOf(more)
  BY DEF BlobsOf
<1>2. [path : Paths, blob : BlobsOf(written)] \subseteq [path : Paths, blob : BlobsOf(more)]
  BY <1>1
<1>3. vol.files \in [DOMAIN vol.files -> [path : Paths, blob : BlobsOf(more)]]
  BY <1>2 DEF Sound, FilesSound
<1> QED
  BY <1>3 DEF Sound, FilesSound

Heads(v, vol, paths, id) ==
  v.entryHeads = PutAll(vol.entryHeads, [p \in paths |-> id])

\* A head is all that SetHeads changes.
LEMMA SetHeadsSound ==
  ASSUME NEW vol, NEW written, Sound(vol, written), NEW paths, NEW id
  PROVE  LET v == SetHeads(vol, paths, id)
         IN  /\ Sound(v, written)
             /\ v.files = vol.files /\ v.dirs = vol.dirs /\ v.fileOrigins = vol.fileOrigins
             /\ Heads(v, vol, paths, id)
<1> DEFINE v == SetHeads(vol, paths, id)
<1>1. /\ IsVolumeRecord(v)
      /\ v.files = vol.files /\ v.dirs = vol.dirs /\ v.fileOrigins = vol.fileOrigins
      /\ Heads(v, vol, paths, id)
  BY DEF Sound, IsVolumeRecord, SetHeads, Heads
<1> HIDE DEF v
<1> QED
  BY <1>1 DEF Sound, FilesSound, v

\* The files above a path make way, or the directory at it with all below.
ClearedFor(vol, paths, path) == RemoveDirIfPresent(RemoveFiles(vol, paths), path)

LEMMA ClearedForSound ==
  ASSUME NEW vol, NEW written, Sound(vol, written), NEW paths, NEW path \in Paths
  PROVE  LET v == ClearedFor(vol, paths, path)
         IN  /\ Sound(v, written)
             /\ DOMAIN v.files \subseteq DOMAIN vol.files \ paths
             /\ DOMAIN vol.files \ (paths \cup Under(path)) \subseteq DOMAIN v.files
             /\ \A p \in DOMAIN v.files : /\ v.files[p] = vol.files[p]
                                          /\ v.fileOrigins[p] = vol.fileOrigins[p]
                                          /\ ~IsStrictDescendant(p, path)
             /\ path \in paths => DOMAIN v.files = DOMAIN vol.files \ (paths \cup Under(path))
             /\ v.entryHeads = vol.entryHeads
<1> DEFINE u == RemoveFiles(vol, paths)
           v == RemoveDirIfPresent(u, path)
<1>1. /\ Sound(u, written)
      /\ Keeps(u, vol, paths)
  BY RemoveFilesSound
<1> HIDE DEF u
<1>2. /\ Sound(v, written)
      /\ Keeps(v, u, IF path \in DOMAIN u.dirs THEN Under(path) ELSE {})
      /\ \A p \in DOMAIN v.files : ~IsStrictDescendant(p, path)
      /\ path \notin DOMAIN u.files => DOMAIN v.files = DOMAIN u.files \ Under(path)
  BY <1>1, RemoveDirIfPresentSound
<1>3. ClearedFor(vol, paths, path) = v
  BY DEF ClearedFor, u
<1> HIDE DEF v
<1>4. DOMAIN v.files \subseteq DOMAIN u.files /\ DOMAIN u.files \ Under(path) \subseteq DOMAIN v.files
  BY <1>2 DEF Keeps
<1> QED
  BY <1>1, <1>2, <1>3, <1>4 DEF Keeps

LEMMA CreateFileSound ==
  ASSUME NEW vol, NEW written, Sound(vol, written), NEW path \in Paths, NEW blob,
         NEW id, \A w \in written : w[1] # id
  PROVE  /\ Sound(ApplyCreateFile(vol, id, path, blob), written \cup {<<id, blob>>})
         /\ Heads(ApplyCreateFile(vol, id, path, blob), vol, {path}, id)
<1> DEFINE cleared == ClearedFor(vol, AncestorPaths(path), path)
           dirs == IF path \in DOMAIN cleared.files THEN cleared.dirs
                   ELSE CountInAncestors(cleared.dirs, path, 1)
           placed == Placed(cleared, path, blob, id, dirs)
           more == written \cup {<<id, blob>>}
<1>1. ApplyCreateFile(vol, id, path, blob) = SetHeads(placed, {path}, id)
  BY DEF ApplyCreateFile, Placed, ClearedFor
<1>2. /\ Sound(cleared, written)
      /\ DOMAIN cleared.files \subseteq DOMAIN vol.files \ AncestorPaths(path)
      /\ \A p \in DOMAIN cleared.files : ~IsStrictDescendant(p, path)
      /\ cleared.entryHeads = vol.entryHeads
  BY ClearedForSound
<1> HIDE DEF cleared
<1>3. Sound(cleared, more) /\ <<id, blob>> \in more
  BY <1>2, SoundMonotonic
<1>4. Fit(dirs, DOMAIN cleared.files \cup {path})
  <2>1. CASE path \in DOMAIN cleared.files
    <3>1. DOMAIN cleared.files \cup {path} = DOMAIN cleared.files
      BY <2>1
    <3> QED
      BY <1>2, <2>1, <3>1 DEF Sound
  <2>2. CASE path \notin DOMAIN cleared.files
    BY <1>2, <2>2, CountInOneFits DEF Sound
  <2> QED
    BY <2>1, <2>2
<1>5. ASSUME NEW p \in DOMAIN cleared.files \ {path}
      PROVE  /\ cleared.fileOrigins[p] # id
             /\ ~IsStrictDescendant(p, path)
             /\ ~IsStrictDescendant(path, p)
  <2>1. <<cleared.fileOrigins[p], cleared.files[p].blob>> \in written
    BY <1>2 DEF Sound, FilesSound
  <2>2. cleared.fileOrigins[p] # id
    BY <2>1
  <2>3. p \in Paths /\ p \notin AncestorPaths(path)
    BY <1>2 DEF Sound, Fit, IsFileSet
  <2> QED
    BY <1>2, <2>2, <2>3, AncestorIsAbove
<1> HIDE DEF dirs, more
<1>6. Sound(placed, more) /\ placed.entryHeads = cleared.entryHeads
  BY <1>3, <1>4, <1>5, PlacedSound DEF Sound
<1> HIDE DEF placed
<1>7. /\ Sound(SetHeads(placed, {path}, id), more)
      /\ Heads(SetHeads(placed, {path}, id), placed, {path}, id)
  BY <1>6, SetHeadsSound
<1> QED
  BY <1>1, <1>2, <1>6, <1>7 DEF Heads, more

LEMMA DeleteSound ==
  ASSUME NEW vol, NEW written, Sound(vol, written), NEW path \in Paths, NEW id
  PROVE  /\ Sound(ApplyDelete(vol, id, path), written)
         /\ Heads(ApplyDelete(vol, id, path), vol, {path}, id)
<1> DEFINE u == IF path \in DOMAIN vol.files THEN RemoveFiles(vol, {path})
                ELSE RemoveDirIfPresent(vol, path)
<1>1. Sound(u, written) /\ u.entryHeads = vol.entryHeads
  <2>1. CASE path \in DOMAIN vol.files
    BY <2>1, RemoveFilesSound DEF Keeps
  <2>2. CASE path \notin DOMAIN vol.files
    BY <2>2, RemoveDirIfPresentSound DEF Keeps
  <2> QED
    BY <2>1, <2>2
<1>2. ApplyDelete(vol, id, path) = SetHeads(u, {path}, id)
  BY DEF ApplyDelete
<1> HIDE DEF u
<1>3. Sound(SetHeads(u, {path}, id), written) /\ Heads(SetHeads(u, {path}, id), u, {path}, id)
  BY <1>1, SetHeadsSound
<1> QED
  BY <1>1, <1>2, <1>3 DEF Heads

WithDirs(vol, dirs) == [vol EXCEPT !.dirs = dirs]

LEMMA WithDirsSound ==
  ASSUME NEW vol, NEW written, Sound(vol, written), NEW dirs, Fit(dirs, DOMAIN vol.files)
  PROVE  /\ Sound(WithDirs(vol, dirs), written)
         /\ WithDirs(vol, dirs).files = vol.files
         /\ WithDirs(vol, dirs).entryHeads = vol.entryHeads
<1> DEFINE v == WithDirs(vol, dirs)
<1>1. /\ IsVolumeRecord(v)
      /\ v.files = vol.files /\ v.dirs = dirs /\ v.fileOrigins = vol.fileOrigins
      /\ v.entryHeads = vol.entryHeads
  BY DEF Sound, IsVolumeRecord, WithDirs
<1> HIDE DEF v
<1> QED
  BY <1>1 DEF Sound, FilesSound, v

LEMMA MkdirSound ==
  ASSUME NEW vol, NEW written, Sound(vol, written), NEW path \in Paths, NEW id
  PROVE  /\ Sound(ApplyMkdir(vol, id, path), written)
         /\ Heads(ApplyMkdir(vol, id, path), vol, {path}, id)
<1> DEFINE cleared == ClearedFor(vol, PathChain(path), path)
           old == cleared.dirs
           dirs == [d \in DOMAIN old \cup PathChain(path) |->
                      IF d = path THEN [explicit |-> TRUE, fileCount |-> 0]
                      ELSE IF d \in DOMAIN old THEN old[d]
                      ELSE [explicit |-> FALSE, fileCount |-> 0]]
           u == WithDirs(cleared, dirs)
<1>1. ApplyMkdir(vol, id, path) = SetHeads(u, {path}, id)
  BY DEF ApplyMkdir, ClearedFor, WithDirs
<1>2. /\ Sound(cleared, written)
      /\ \A p \in DOMAIN cleared.files : ~IsStrictDescendant(p, path)
      /\ cleared.entryHeads = vol.entryHeads
  BY ClearedForSound
<1> HIDE DEF cleared
<1>3. ASSUME NEW d \in DOMAIN dirs
      PROVE  /\ d \in Paths
             /\ dirs[d] \in [explicit : BOOLEAN, fileCount : Nat]
             /\ dirs[d].fileCount = Cardinality(Below(DOMAIN cleared.files, d))
  <2>1. CASE d = path
    <3>1. Below(DOMAIN cleared.files, d) = {}
      BY <1>2, <2>1 DEF Below
    <3> QED
      BY <2>1, <3>1, FS_EmptySet
  <2>2. CASE d # path /\ d \in DOMAIN old
    BY <1>2, <2>2 DEF Sound, Fit, IsDirTable, Counted
  <2>3. CASE d # path /\ d \notin DOMAIN old
    <3>1. d \in Paths
      BY <1>3, <2>3, AncestorIsAbove DEF PathChain
    <3>2. Below(DOMAIN cleared.files, d) = {}
      BY <1>2, <2>3, <3>1, AncestorIsAbove DEF Below, Sound, Fit, Covered, IsFileSet
    <3>3. dirs[d] = [explicit |-> FALSE, fileCount |-> 0]
      BY <1>3, <2>3
    <3>4. Cardinality(Below(DOMAIN cleared.files, d)) = 0
      BY <3>2, FS_EmptySet
    <3> HIDE DEF dirs
    <3> QED
      BY <3>1, <3>3, <3>4
  <2> QED
    BY <2>1, <2>2, <2>3
<1>4. Fit(dirs, DOMAIN cleared.files)
  <2>1. dirs \in [DOMAIN dirs -> [explicit : BOOLEAN, fileCount : Nat]]
    BY <1>3
  <2>2. IsDirTable(dirs)
    BY <1>3, <2>1 DEF IsDirTable
  <2>3. Counted(dirs, DOMAIN cleared.files)
    BY <1>3 DEF Counted
  <2>4. Covered(dirs, DOMAIN cleared.files)
    BY <1>2 DEF Sound, Fit, Covered
  <2> QED
    BY <1>2, <2>2, <2>3, <2>4 DEF Fit, Sound
<1> HIDE DEF dirs
<1>5. Sound(u, written) /\ u.entryHeads = cleared.entryHeads
  BY <1>2, <1>4, WithDirsSound
<1> HIDE DEF u
<1>6. Sound(SetHeads(u, {path}, id), written) /\ Heads(SetHeads(u, {path}, id), u, {path}, id)
  BY <1>5, SetHeadsSound
<1> QED
  BY <1>1, <1>2, <1>5, <1>6 DEF Heads

-----------------------------------------------------------------------------
(* Renaming a file *)

LEMMA MoveFileSound ==
  ASSUME NEW vol, NEW written, Sound(vol, written),
         NEW from \in DOMAIN vol.files, NEW to \in Paths, from # to,
         \A p \in DOMAIN vol.files \ {from} :
           p # to /\ ~IsStrictDescendant(p, to) /\ ~IsStrictDescendant(to, p)
  PROVE  /\ Sound(MoveFile(vol, from, to), written)
         /\ MoveFile(vol, from, to).entryHeads = vol.entryHeads
<1> DEFINE F == DOMAIN vol.files
           left == DecrementAncestors(vol.dirs, from, 1)
           u == Restricted(vol, {from}, left)
           blob == vol.files[from].blob
           origin == vol.fileOrigins[from]
           dirs == CountInAncestors(left, to, 1)
<1>1. /\ IsFileSet(F) /\ from \in Paths /\ IsDirTable(vol.dirs)
      /\ Counted(vol.dirs, F) /\ Covered(vol.dirs, F \ {from})
      /\ DOMAIN vol.fileOrigins = F
      /\ <<origin, blob>> \in written
  BY DEF Sound, Fit, IsFileSet, Covered, FilesSound
<1>2. Fit(left, F \ {from}) /\ DOMAIN left \subseteq DOMAIN vol.dirs
  <2> DEFINE G == F \ {from}
  <2>1. F \ G = {from} /\ G \in SUBSET F /\ Cardinality(F \ G) = 1
    <3>1. Cardinality({from}) = 1
      BY FS_Singleton
    <3>2. F \ G = {from} /\ G \in SUBSET F
      OBVIOUS
    <3> QED
      BY <3>1, <3>2
  <2>2. {from} \subseteq Under(from)
    BY <1>1 DEF Under, IsSelfOrDescendant
  <2>3. ASSUME NEW d \in DOMAIN vol.dirs, d \in Under(from)
        PROVE  Below({from}, d) = {}
    BY <1>1, <2>3, StrictIrreflexive, StrictTransitive
       DEF Below, Under, IsSelfOrDescendant
  <2>4. /\ F \ G \subseteq Under(from)
        /\ \A d \in DOMAIN vol.dirs : d \in Under(from) => Below(F \ G, d) = {}
        /\ Covered(vol.dirs, G)
    BY <1>1, <2>1, <2>2, <2>3
  <2> HIDE DEF G, F
  <2>5. /\ Fit(DecrementAncestors(vol.dirs, from, Cardinality(F \ G)), G)
        /\ DOMAIN DecrementAncestors(vol.dirs, from, Cardinality(F \ G)) \subseteq DOMAIN vol.dirs
    BY <1>1, <2>1, <2>4, DecrementFits
  <2> QED
    BY <2>1, <2>5 DEF G
<1> HIDE DEF left
<1>3. /\ Sound(u, written) /\ Keeps(u, vol, {from}) /\ u.dirs = left
  BY <1>2, RestrictSound DEF Sound
<1>4. /\ DOMAIN u.files = F \ {from} /\ u.entryHeads = vol.entryHeads
  BY <1>3 DEF Keeps
<1>5. MoveFile(vol, from, to) = Placed(u, to, blob, origin, dirs)
  <2> DEFINE v == MoveFile(vol, from, to)
             w == Placed(u, to, blob, origin, dirs)
  <2>1. /\ IsVolumeRecord(v)
        /\ v.files = Put(Without(vol.files, {from}), to, [path |-> to, blob |-> blob])
        /\ v.fileOrigins = Put(Without(vol.fileOrigins, {from}), to, origin)
        /\ v.dirs = dirs /\ v.entryHeads = vol.entryHeads
    BY <1>1 DEF MoveFile, Sound, IsVolumeRecord, left
  <2>2. /\ IsVolumeRecord(u)
        /\ u.files = Without(vol.files, {from})
        /\ u.fileOrigins = Without(vol.fileOrigins, {from})
    BY DEF Restricted, Sound, IsVolumeRecord
  <2> HIDE DEF u, v
  <2>3. /\ IsVolumeRecord(w)
        /\ w.files = Put(u.files, to, [path |-> to, blob |-> blob])
        /\ w.fileOrigins = Put(u.fileOrigins, to, origin)
        /\ w.dirs = dirs /\ w.entryHeads = u.entryHeads
    BY <2>2 DEF Placed, IsVolumeRecord
  <2> HIDE DEF w, dirs, blob, origin
  <2>4. /\ v.files = w.files /\ v.fileOrigins = w.fileOrigins
        /\ v.dirs = w.dirs /\ v.entryHeads = w.entryHeads
    BY <1>4, <2>1, <2>2, <2>3
  <2>5. v = w
    BY <2>1, <2>3, <2>4 DEF IsVolumeRecord
  <2> QED
    BY <2>5 DEF v, w
<1>6. to \in Paths \ (F \ {from})
  OBVIOUS
<1>7. Fit(dirs, (F \ {from}) \cup {to})
  BY <1>2, <1>6, CountInOneFits
<1>8. ASSUME NEW p \in DOMAIN u.files \ {to}
      PROVE  /\ u.fileOrigins[p] # origin
             /\ ~IsStrictDescendant(p, to)
             /\ ~IsStrictDescendant(to, p)
  <2>1. p \in F \ {from} /\ u.fileOrigins[p] = vol.fileOrigins[p]
    BY <1>3, <1>4 DEF Keeps
  <2>2. vol.fileOrigins[p] # origin
    BY <2>1 DEF Sound, FilesSound
  <2> QED
    BY <2>1, <2>2
<1> HIDE DEF u, dirs, blob, origin
<1>9. /\ Sound(Placed(u, to, blob, origin, dirs), written)
      /\ Placed(u, to, blob, origin, dirs).entryHeads = u.entryHeads
  BY <1>1, <1>3, <1>4, <1>7, <1>8, PlacedSound DEF Sound
<1> QED
  BY <1>4, <1>5, <1>9

-----------------------------------------------------------------------------
(* Renaming a directory *)

\* A change of prefix renames files without merging any.
LEMMA RewriteCardinality ==
  ASSUME NEW from \in Paths, NEW to \in Paths,
         NEW F, IsFiniteSet(F), F \subseteq Under(from)
  PROVE  LET A == {RewritePrefix(p, from, to) : p \in F}
         IN  IsFiniteSet(A) /\ Cardinality(A) = Cardinality(F)
<1> DEFINE A == {RewritePrefix(p, from, to) : p \in F}
           f == [p \in F |-> RewritePrefix(p, from, to)]
<1>1. f \in Bijection(F, A)
  <2>1. f \in [F -> A]
    OBVIOUS
  <2>2. \A p, q \in F : f[p] = f[q] => p = q
    BY RewriteInjective
  <2>3. \A q \in A : \E p \in F : f[p] = q
    OBVIOUS
  <2> QED
    BY <2>1, <2>2, <2>3 DEF Bijection, Injection, Surjection, IsInjective
<1> QED
  BY <1>1, FS_Bijection DEF ExistsBijection

\* What lies under the target and above a moved path was moved there.
LEMMA AboveMoved ==
  ASSUME NEW from \in Paths, NEW to \in Paths, NEW p \in Under(from),
         NEW d \in Under(to), IsStrictDescendant(RewritePrefix(p, from, to), d)
  PROVE  LET e == RewritePrefix(d, to, from)
         IN  /\ e \in Under(from) /\ RewritePrefix(e, from, to) = d
             /\ e \in AncestorPaths(p)
<1> DEFINE e == RewritePrefix(d, to, from)
<1>1. e \in Under(from) /\ RewritePrefix(e, from, to) = d
  BY RewriteBack
<1>2. IsStrictDescendant(p, e)
  BY <1>1, RewriteKeepsOrder
<1> QED
  BY <1>1, <1>2, AncestorIsAbove DEF Under

\* The table of a move: what stays, over it the moved directories, and above
\* the target the moved files counted in.
MovedDirs(old, F, from, to) ==
  LET files == {p \in F : IsSelfOrDescendant(p, from)}
      dirs == {d \in DOMAIN old : IsSelfOrDescendant(d, from)}
      homed(d) == CHOOSE e \in dirs : RewritePrefix(e, from, to) = d
      moved == [d \in {RewritePrefix(e, from, to) : e \in dirs} |-> old[homed(d)]]
  IN  CountInAncestors(PutAll(Uprooted(old, F, from), moved), to, Cardinality(files))

LEMMA MovedDirsFits ==
  ASSUME NEW old, NEW F, Fit(old, F), NEW from \in Paths, NEW to \in Paths,
         from \notin F, F \cap Under(to) = {}
  PROVE  Fit(MovedDirs(old, F, from, to),
             (F \ Under(from)) \cup {RewritePrefix(p, from, to) : p \in F \cap Under(from)})
<1> DEFINE files == {p \in F : IsSelfOrDescendant(p, from)}
           stay == F \ Under(from)
           arrived == {RewritePrefix(p, from, to) : p \in files}
           dirs == {d \in DOMAIN old : IsSelfOrDescendant(d, from)}
           new(e) == RewritePrefix(e, from, to)
           homed(d) == CHOOSE e \in dirs : new(e) = d
           moved == [d \in {new(e) : e \in dirs} |-> old[homed(d)]]
           left == Uprooted(old, F, from)
           table == PutAll(left, moved)
<1>1. /\ IsFileSet(F) /\ IsDirTable(old) /\ Counted(old, F) /\ Covered(old, F)
      /\ files = F \cap Under(from) /\ dirs = DOMAIN old \cap Under(from)
      /\ IsFiniteSet(files) /\ files \subseteq Under(from) /\ dirs \subseteq Under(from)
      /\ IsFileSet(stay)
  <2>1. IsFileSet(F) /\ IsDirTable(old) /\ Counted(old, F) /\ Covered(old, F)
    BY DEF Fit
  <2>2. files \in SUBSET F /\ stay \in SUBSET F
    OBVIOUS
  <2>3. IsFileSet(files) /\ IsFileSet(stay)
    BY <2>1, <2>2, FileSubset
  <2> QED
    BY <2>1, <2>3 DEF IsFileSet, IsDirTable, Under
<1>2. MovedDirs(old, F, from, to) = CountInAncestors(table, to, Cardinality(files))
  BY DEF MovedDirs
<1> HIDE DEF files, dirs
<1>3. /\ IsFiniteSet(arrived) /\ Cardinality(arrived) = Cardinality(files)
      /\ arrived \subseteq Under(to) /\ IsFileSet(arrived)
      /\ stay \cap arrived = {} /\ stay \cap Under(to) = {}
  <2>1. IsFiniteSet(arrived) /\ Cardinality(arrived) = Cardinality(files)
    BY <1>1, RewriteCardinality
  <2>2. arrived \subseteq Under(to)
    BY <1>1, RewritePointwise
  <2> QED
    BY <2>1, <2>2 DEF IsFileSet, Under
<1>4. Fit(left, stay) /\ DOMAIN left \subseteq DOMAIN old \ Under(from)
  BY UprootedFits
<1>5. ASSUME NEW d \in DOMAIN moved
      PROVE  /\ homed(d) \in dirs /\ new(homed(d)) = d /\ d \in Under(to)
             /\ moved[d] = old[homed(d)]
             /\ moved[d] \in [explicit : BOOLEAN, fileCount : Nat]
  <2>1. PICK e \in dirs : new(e) = d
    OBVIOUS
  <2>2. homed(d) \in dirs /\ new(homed(d)) = d
    BY <2>1
  <2>3. d \in Under(to)
    BY <1>1, <2>1, RewritePointwise
  <2> QED
    BY <1>1, <2>2, <2>3 DEF IsDirTable
<1>6. ASSUME NEW d \in Under(to), NEW q \in arrived, IsStrictDescendant(q, d)
      PROVE  d \in DOMAIN moved
  <2>1. PICK p \in files : q = RewritePrefix(p, from, to)
    OBVIOUS
  <2> DEFINE e == RewritePrefix(d, to, from)
  <2>2. e \in Under(from) /\ new(e) = d /\ e \in AncestorPaths(p)
    BY <1>1, <1>6, <2>1, AboveMoved
  <2>3. e \in dirs
    BY <1>1, <2>1, <2>2 DEF Covered
  <2> QED
    BY <2>2, <2>3
<1> HIDE DEF homed
<1>7. IsDirTable(table) /\ DOMAIN table = DOMAIN left \cup DOMAIN moved
  <2>1. DOMAIN table = DOMAIN left \cup DOMAIN moved
    BY DEF PutAll
  <2> HIDE DEF moved
  <2>2. ASSUME NEW d \in DOMAIN table
        PROVE  d \in Paths /\ table[d] \in [explicit : BOOLEAN, fileCount : Nat]
    BY <1>4, <1>5, <2>1, <2>2 DEF PutAll, Fit, IsDirTable, Under
  <2>3. table \in [DOMAIN table -> [explicit : BOOLEAN, fileCount : Nat]]
    BY <2>2 DEF PutAll
  <2> QED
    BY <2>1, <2>2, <2>3 DEF IsDirTable
<1> HIDE DEF moved
<1>8. /\ \A d \in DOMAIN moved : table[d] = moved[d]
      /\ \A d \in DOMAIN left \ DOMAIN moved : table[d] = left[d]
  BY DEF PutAll
<1> HIDE DEF table, stay, arrived
<1>9. Covered(table, stay)
  BY <1>4, <1>7 DEF Fit, Covered
<1>10. ASSUME NEW q \in arrived, NEW d \in AncestorPaths(q)
       PROVE  d \in DOMAIN table \cup AncestorPaths(to)
  <2>1. q \in Paths /\ IsSelfOrDescendant(q, to)
    BY <1>3 DEF Under
  <2>2. d \in Paths /\ IsStrictDescendant(q, d)
    BY <2>1, AncestorIsAbove
  <2>3. d \in Under(to) \/ IsStrictDescendant(to, d)
    BY <2>1, <2>2, AboveIsChain DEF Under, IsSelfOrDescendant
  <2>4. CASE d \in Under(to)
    BY <1>6, <1>7, <2>2, <2>4
  <2>5. CASE IsStrictDescendant(to, d)
    BY <2>2, <2>5, AncestorIsAbove
  <2> QED
    BY <2>3, <2>4, <2>5
<1>11. ASSUME NEW d \in DOMAIN moved
       PROVE  /\ d \notin AncestorPaths(to)
              /\ moved[d].fileCount = Cardinality(Below(stay \cup arrived, d))
  <2> DEFINE e == homed(d)
             below == Below(F, e)
  <2>1. /\ e \in DOMAIN old /\ e \in Under(from) /\ e \in Paths /\ new(e) = d
        /\ d \in Under(to) /\ d \in Paths
        /\ moved[d].fileCount = Cardinality(below)
    BY <1>1, <1>5 DEF Counted, Under
  <2> HIDE DEF e
  <2>2. d \notin AncestorPaths(to)
    <3>1. ~IsStrictDescendant(to, d)
      BY <2>1, StrictTransitive, StrictIrreflexive DEF Under, IsSelfOrDescendant
    <3> QED
      BY <3>1, AncestorIsAbove
  <2>3. below \subseteq files
    BY <1>1, <2>1, StrictTransitive DEF Below, IsFileSet, Under, IsSelfOrDescendant
  <2>4. IsFiniteSet(below) /\ below \subseteq Under(from)
    BY <1>1, <2>3, BelowFinite
  <2>5. Below(stay \cup arrived, d) = {RewritePrefix(p, from, to) : p \in below}
    <3>1. ASSUME NEW q \in Below(stay \cup arrived, d)
          PROVE  q \in {RewritePrefix(p, from, to) : p \in below}
      <4>1. IsStrictDescendant(q, d) /\ q \in stay \cup arrived /\ q \in Paths
        BY <1>1, <1>3 DEF Below, IsFileSet
      <4>2. q \in Under(to)
        BY <2>1, <4>1, StrictTransitive DEF Under, IsSelfOrDescendant
      <4>3. q \in arrived
        BY <1>3, <4>1, <4>2
      <4>4. PICK p \in files : q = RewritePrefix(p, from, to)
        BY <4>3 DEF arrived
      <4>5. IsStrictDescendant(p, e)
        BY <1>1, <2>1, <4>1, <4>4, RewriteKeepsOrder
      <4> QED
        BY <1>1, <4>4, <4>5 DEF Below
    <3>2. ASSUME NEW p \in below
          PROVE  RewritePrefix(p, from, to) \in Below(stay \cup arrived, d)
      <4>1. p \in files /\ IsStrictDescendant(p, e) /\ p \in Under(from)
        BY <1>1, <2>3 DEF Below
      <4>2. IsStrictDescendant(RewritePrefix(p, from, to), d)
        BY <2>1, <4>1, RewriteKeepsOrder
      <4> QED
        BY <4>1, <4>2 DEF Below, arrived
    <3> QED
      BY <3>1, <3>2
  <2>6. Cardinality({RewritePrefix(p, from, to) : p \in below}) = Cardinality(below)
    BY <2>4, RewriteCardinality
  <2> QED
    BY <2>1, <2>2, <2>5, <2>6
<1>12. ASSUME NEW d \in DOMAIN table
       PROVE  table[d].fileCount = IF d \in AncestorPaths(to) THEN Cardinality(Below(stay, d))
                                   ELSE Cardinality(Below(stay \cup arrived, d))
  <2>1. CASE d \in DOMAIN moved
    BY <1>8, <1>11, <2>1
  <2>2. CASE d \notin DOMAIN moved
    <3>1. d \in DOMAIN left /\ table[d] = left[d] /\ d \in Paths
          /\ left[d].fileCount = Cardinality(Below(stay, d))
      BY <1>4, <1>7, <1>8, <2>2 DEF Fit, Counted, IsDirTable
    <3>2. CASE d \in AncestorPaths(to)
      BY <3>1, <3>2
    <3>3. CASE d \notin AncestorPaths(to)
      <4>1. ASSUME NEW q \in arrived, IsStrictDescendant(q, d)
            PROVE  FALSE
        <5>1. q \in Paths /\ d \in AncestorPaths(q)
          BY <1>3, <3>1, <4>1, AncestorIsAbove DEF Under
        <5>2. IsSelfOrDescendant(q, to) /\ IsSelfOrDescendant(q, d)
          BY <1>3, <4>1 DEF Under, IsSelfOrDescendant
        <5>3. d \in Under(to) \/ IsStrictDescendant(to, d)
          BY <3>1, <5>1, <5>2, AboveIsChain DEF Under, IsSelfOrDescendant
        <5>4. d \in Under(to)
          BY <3>1, <3>3, <5>3, AncestorIsAbove
        <5> QED
          BY <1>6, <2>2, <4>1, <5>4
      <4>2. Below(stay \cup arrived, d) = Below(stay, d)
        BY <4>1 DEF Below
      <4> QED
        BY <3>1, <3>3, <4>2
    <3> QED
      BY <3>2, <3>3
  <2> QED
    BY <2>1, <2>2
<1>13. Fit(CountInAncestors(table, to, Cardinality(arrived)), stay \cup arrived)
  BY <1>1, <1>3, <1>7, <1>9, <1>10, <1>12, CountInFits
<1> QED
  BY <1>1, <1>2, <1>3, <1>13 DEF stay, arrived

LEMMA MoveDirSound ==
  ASSUME NEW vol, NEW written, Sound(vol, written),
         NEW from \in Paths, NEW to \in Paths,
         from \notin DOMAIN vol.files,
         DOMAIN vol.files \cap Under(to) = {},
         \A p \in DOMAIN vol.files : ~IsStrictDescendant(to, p)
  PROVE  /\ Sound(MoveDir(vol, from, to), written)
         /\ MoveDir(vol, from, to).entryHeads = vol.entryHeads
<1> DEFINE v == MoveDir(vol, from, to)
           F == DOMAIN vol.files
           files == {p \in F : IsSelfOrDescendant(p, from)}
           new(p) == RewritePrefix(p, from, to)
           target(p) == RewritePrefix(vol.files[p].path, from, to)
           source(q) == CHOOSE p \in files : target(p) = q
           targets == {target(p) : p \in files}
           owned == {q \in targets : source(q) \in DOMAIN vol.fileOrigins}
           meta(q) == [vol.files[source(q)] EXCEPT !.path = q]
           stay == F \ files
           after == stay \cup targets
           back(q) == IF q \in targets THEN source(q) ELSE q
<1>1. /\ IsVolumeRecord(v)
      /\ v.files = PutAll(Without(vol.files, files), [q \in targets |-> meta(q)])
      /\ v.fileOrigins = PutAll(Without(vol.fileOrigins, files),
                                [q \in owned |-> vol.fileOrigins[source(q)]])
      /\ v.dirs = MovedDirs(vol.dirs, F, from, to)
      /\ v.entryHeads = vol.entryHeads
  <2> DEFINE dirs == {d \in DOMAIN vol.dirs : IsSelfOrDescendant(d, from)}
             homed(d) == CHOOSE e \in dirs : RewritePrefix(e, from, to) = d
             left == Without(vol.dirs, dirs)
             uncounted == IF files = {} THEN left
                          ELSE DecrementAncestors(left, from, Cardinality(files))
             moved == [d \in {RewritePrefix(e, from, to) : e \in dirs} |-> vol.dirs[homed(d)]]
             table == CountInAncestors(PutAll(uncounted, moved), to, Cardinality(files))
             f == PutAll(Without(vol.files, files), [q \in targets |-> meta(q)])
             o == PutAll(Without(vol.fileOrigins, files),
                         [q \in owned |-> vol.fileOrigins[source(q)]])
  <2>1. v = [vol EXCEPT !.files = f, !.fileOrigins = o, !.dirs = table]
    BY DEF MoveDir
  <2>2. table = MovedDirs(vol.dirs, F, from, to)
    BY DEF MovedDirs, Uprooted
  <2> HIDE DEF v, f, o, table
  <2>3. /\ IsVolumeRecord(v) /\ v.files = f /\ v.fileOrigins = o /\ v.dirs = table
        /\ v.entryHeads = vol.entryHeads
    BY <2>1 DEF Sound, IsVolumeRecord
  <2> QED
    BY <2>2, <2>3 DEF f, o
<1> HIDE DEF v
<1>2. /\ F \subseteq Paths /\ files = F \cap Under(from) /\ DOMAIN vol.fileOrigins = F
      /\ \A p \in F : vol.files[p] \in [path : Paths, blob : BlobsOf(written)] /\ vol.files[p].path = p
      /\ \A p \in F : target(p) = new(p)
  BY DEF Sound, Fit, IsFileSet, FilesSound, Under
<1> HIDE DEF files
<1>3. ASSUME NEW q \in targets
      PROVE  source(q) \in files /\ new(source(q)) = q /\ q \in Under(to) /\ q \in Paths
  <2>1. PICK p \in files : target(p) = q
    OBVIOUS
  <2>2. source(q) \in files /\ target(source(q)) = q
    BY <2>1
  <2>3. source(q) \in F /\ new(source(q)) = q
    BY <1>2, <2>2
  <2>4. q \in Under(to)
    BY <1>2, <2>2, <2>3, RewritePointwise
  <2> QED
    BY <2>2, <2>3, <2>4 DEF Under
<1> HIDE DEF source
<1>4. /\ targets = {RewritePrefix(p, from, to) : p \in F \cap Under(from)}
      /\ stay = F \ Under(from)
      /\ owned = targets
  BY <1>2, <1>3
<1>5. Fit(v.dirs, after)
  <2>1. Fit(MovedDirs(vol.dirs, F, from, to),
            (F \ Under(from)) \cup {RewritePrefix(p, from, to) : p \in F \cap Under(from)})
    BY MovedDirsFits DEF Sound
  <2> HIDE DEF targets, stay, F
  <2> QED
    BY <1>1, <1>4, <2>1
<1> HIDE DEF targets, owned
<1>6. /\ DOMAIN v.files = after
      /\ v.fileOrigins = [q \in after |-> v.fileOrigins[q]]
      /\ \A q \in after : v.files[q] = IF q \in targets THEN meta(q) ELSE vol.files[q]
      /\ \A q \in after : v.fileOrigins[q] = vol.fileOrigins[back(q)]
  BY <1>1, <1>2, <1>4 DEF PutAll, Without
<1>7. ASSUME NEW q \in after
      PROVE  /\ back(q) \in F
             /\ v.files[q] \in [path : Paths, blob : BlobsOf(written)]
             /\ v.files[q].path = q
             /\ v.files[q].blob = vol.files[back(q)].blob
  <2>1. CASE q \in targets
    <3>1. source(q) \in F /\ vol.files[source(q)] \in [path : Paths, blob : BlobsOf(written)] /\ q \in Paths
      BY <1>2, <1>3, <2>1
    <3>2. v.files[q] = [vol.files[source(q)] EXCEPT !.path = q]
      BY <1>6, <2>1
    <3> QED
      BY <2>1, <3>1, <3>2
  <2>2. CASE q \notin targets
    BY <1>2, <1>6, <2>2
  <2> QED
    BY <2>1, <2>2
<1>8. ASSUME NEW p \in after, NEW q \in after, back(p) = back(q)
      PROVE  p = q
  <2>1. CASE p \in targets /\ q \in targets
    BY <1>3, <1>8, <2>1
  <2>2. CASE p \in targets /\ q \notin targets
    <3>1. source(p) = q /\ source(p) \in files /\ q \in stay
      BY <1>3, <1>8, <2>2
    <3> QED
      BY <3>1
  <2>3. CASE p \notin targets /\ q \in targets
    <3>1. source(q) = p /\ source(q) \in files /\ p \in stay
      BY <1>3, <1>8, <2>3
    <3> QED
      BY <3>1
  <2>4. CASE p \notin targets /\ q \notin targets
    BY <1>8, <2>4
  <2> QED
    BY <2>1, <2>2, <2>3, <2>4
<1>9. ASSUME NEW p \in after, NEW q \in after, IsStrictDescendant(p, q)
      PROVE  FALSE
  <2>0. p \in Paths /\ q \in Paths /\ stay \subseteq F /\ F \cap Under(to) = {}
    BY <1>2, <1>3
  <2>1. CASE p \in targets /\ q \in targets
    <3>1. /\ source(p) \in F /\ source(q) \in F
          /\ source(p) \in Under(from) /\ source(q) \in Under(from)
          /\ new(source(p)) = p /\ new(source(q)) = q
      BY <1>2, <1>3, <2>1
    <3>2. IsStrictDescendant(source(p), source(q))
      BY <1>9, <3>1, RewriteKeepsOrder
    <3> QED
      BY <3>1, <3>2 DEF Sound, FilesSound
  <2>2. CASE p \in targets /\ q \in stay
    <3>1. IsSelfOrDescendant(p, to) /\ IsSelfOrDescendant(p, q)
      BY <1>3, <1>9, <2>2 DEF Under, IsSelfOrDescendant
    <3>2. q = to \/ IsStrictDescendant(q, to) \/ IsStrictDescendant(to, q)
      BY <2>0, <3>1, AboveIsChain
    <3> QED
      BY <2>0, <2>2, <3>2 DEF Under, IsSelfOrDescendant
  <2>3. CASE p \in stay /\ q \in targets
    <3>1. q \in Under(to)
      BY <1>3, <2>3
    <3>2. p \in Under(to)
      BY <1>9, <2>0, <3>1, StrictTransitive DEF Under, IsSelfOrDescendant
    <3> QED
      BY <2>0, <2>3, <3>2
  <2>4. CASE p \in stay /\ q \in stay
    BY <1>9, <2>0, <2>4 DEF Sound, FilesSound
  <2> QED
    BY <2>1, <2>2, <2>3, <2>4
<1> HIDE DEF after, back
<1>10. FilesSound(v, written)
  <2>1. v.files = [q \in after |-> v.files[q]]
    BY <1>1, <1>6 DEF PutAll
  <2>2. v.files \in [DOMAIN v.files -> [path : Paths, blob : BlobsOf(written)]]
    BY <1>6, <1>7, <2>1
  <2>3. v.fileOrigins = [q \in DOMAIN v.files |-> v.fileOrigins[q]]
    BY <1>6
  <2>4. ASSUME NEW q \in DOMAIN v.files
        PROVE  v.files[q].path = q /\ <<v.fileOrigins[q], v.files[q].blob>> \in written
    <3>1. /\ back(q) \in F /\ v.files[q].path = q
          /\ v.files[q].blob = vol.files[back(q)].blob
          /\ v.fileOrigins[q] = vol.fileOrigins[back(q)]
      BY <1>6, <1>7
    <3>2. \A p \in F : <<vol.fileOrigins[p], vol.files[p].blob>> \in written
      BY DEF Sound, FilesSound
    <3> HIDE DEF F
    <3>3. <<vol.fileOrigins[back(q)], vol.files[back(q)].blob>> \in written
      BY <3>1, <3>2
    <3> QED
      BY <3>1, <3>3
  <2>5. ASSUME NEW p \in DOMAIN v.files, NEW q \in DOMAIN v.files
        PROVE  v.fileOrigins[p] = v.fileOrigins[q] => p = q
    <3>1. /\ p \in after /\ q \in after
          /\ back(p) \in F /\ back(q) \in F
          /\ v.fileOrigins[p] = vol.fileOrigins[back(p)]
          /\ v.fileOrigins[q] = vol.fileOrigins[back(q)]
      BY <1>6, <1>7
    <3>2. vol.fileOrigins[back(p)] = vol.fileOrigins[back(q)] => back(p) = back(q)
      BY <3>1 DEF Sound, FilesSound
    <3> QED
      BY <1>8, <3>1, <3>2
  <2>6. ASSUME NEW p \in DOMAIN v.files, NEW q \in DOMAIN v.files
        PROVE  ~IsStrictDescendant(p, q)
    BY <1>6, <1>9
  <2> QED
    BY <2>2, <2>3, <2>4, <2>5, <2>6 DEF FilesSound
<1> QED
  BY <1>1, <1>5, <1>6, <1>10 DEF Sound, v

-----------------------------------------------------------------------------
(* RENAME, unless a file goes onto a directory it is in *)

LEMMA RenameSound ==
  ASSUME NEW vol, NEW written, Sound(vol, written),
         NEW from \in Paths, NEW to \in Paths, NEW id,
         from \in DOMAIN vol.files => ~IsStrictDescendant(from, to)
  PROVE  LET v == ApplyRename(vol, id, from, to)
         IN  Sound(v, written) /\ (v = vol \/ Heads(v, vol, {from, to}, id))
<1> DEFINE isFile == from \in DOMAIN vol.files
           above == AncestorPaths(to) \ (IF isFile THEN {from} ELSE {})
           freed == RemoveFiles(vol, above)
           cleared == ClearedFor(freed, {to}, to)
           moved == IF isFile THEN MoveFile(cleared, from, to) ELSE MoveDir(cleared, from, to)
           v == ApplyRename(vol, id, from, to)
<1>1. v = IF from = to \/ RenameReject(vol, from, to) # "none" THEN vol
          ELSE SetHeads(moved, {from, to}, id)
  BY DEF ApplyRename, ClearedFor
<1>2. CASE from = to \/ RenameReject(vol, from, to) # "none"
  BY <1>1, <1>2
<1>3. CASE from # to /\ RenameReject(vol, from, to) = "none"
  <2>1. Sound(freed, written) /\ Keeps(freed, vol, above)
    BY RemoveFilesSound
  <2> HIDE DEF freed
  <2>2. /\ Sound(cleared, written)
        /\ DOMAIN cleared.files = DOMAIN freed.files \ ({to} \cup Under(to))
        /\ cleared.entryHeads = freed.entryHeads
    BY <2>1, ClearedForSound
  <2> HIDE DEF cleared
  <2>3. /\ DOMAIN cleared.files = (DOMAIN vol.files \ above) \ ({to} \cup Under(to))
        /\ DOMAIN cleared.files \subseteq Paths
        /\ cleared.entryHeads = vol.entryHeads
    BY <2>1, <2>2 DEF Keeps, Sound, Fit, IsFileSet
  <2>4. ASSUME NEW p \in DOMAIN cleared.files, ~isFile \/ p # from
        PROVE  p # to /\ ~IsStrictDescendant(p, to) /\ ~IsStrictDescendant(to, p)
    <3>1. p \in Paths /\ p \notin Under(to) /\ p \notin AncestorPaths(to)
      BY <2>3, <2>4
    <3> QED
      BY <3>1, AncestorIsAbove DEF Under, IsSelfOrDescendant
  <2>5. Sound(moved, written) /\ moved.entryHeads = vol.entryHeads
    <3>1. CASE isFile
      <4>1. from \in DOMAIN cleared.files
        BY <1>3, <2>3, <3>1 DEF Under, IsSelfOrDescendant
      <4> QED
        BY <1>3, <2>2, <2>3, <2>4, <3>1, <4>1, MoveFileSound
    <3>2. CASE ~isFile
      <4>1. /\ from \notin DOMAIN cleared.files
            /\ DOMAIN cleared.files \cap Under(to) = {}
        BY <2>3, <3>2
      <4> QED
        BY <2>2, <2>3, <2>4, <3>2, <4>1, MoveDirSound
    <3> QED
      BY <3>1, <3>2
  <2> HIDE DEF moved
  <2>6. /\ Sound(SetHeads(moved, {from, to}, id), written)
        /\ Heads(SetHeads(moved, {from, to}, id), moved, {from, to}, id)
    BY <2>5, SetHeadsSound
  <2> QED
    BY <1>1, <1>3, <2>5, <2>6 DEF Heads
<1> QED
  BY <1>2, <1>3

-----------------------------------------------------------------------------
(* Snapshots *)

\* A table that fits is what the snapshot's directories and files give back.
LEMMA ResumeIsIdentity ==
  ASSUME NEW vol, NEW written, Sound(vol, written)
  PROVE  ResumeFrom(vol) = vol
<1> DEFINE dirs == BuildDirInfoFromSnapshot(vol)
           F == DOMAIN vol.files
<1>1. /\ IsFileSet(F) /\ IsDirTable(vol.dirs) /\ Counted(vol.dirs, F) /\ Covered(vol.dirs, F)
  BY DEF Sound, Fit
<1>2. DOMAIN vol.dirs \cup UNION {AncestorPaths(p) : p \in F} = DOMAIN vol.dirs
  BY <1>1 DEF Covered
<1>3. ASSUME NEW d \in DOMAIN vol.dirs
      PROVE  [explicit |-> d \in DOMAIN vol.dirs /\ vol.dirs[d].explicit,
              fileCount |-> Cardinality({p \in F : d \in AncestorPaths(p)})] = vol.dirs[d]
  <2>1. {p \in F : d \in AncestorPaths(p)} = Below(F, d)
    BY <1>1, AncestorIsAbove DEF Below, IsFileSet, IsDirTable
  <2>2. /\ vol.dirs[d].fileCount = Cardinality({p \in F : d \in AncestorPaths(p)})
        /\ vol.dirs[d] \in [explicit : BOOLEAN, fileCount : Nat]
    BY <1>1, <2>1 DEF Counted, IsDirTable
  <2> QED
    BY <2>2
<1>4. dirs = vol.dirs
  <2>1. dirs = [d \in DOMAIN vol.dirs |->
                 [explicit |-> d \in DOMAIN vol.dirs /\ vol.dirs[d].explicit,
                  fileCount |-> Cardinality({p \in F : d \in AncestorPaths(p)})]]
    BY <1>2 DEF BuildDirInfoFromSnapshot
  <2>2. vol.dirs = [d \in DOMAIN vol.dirs |-> vol.dirs[d]]
    BY <1>1 DEF IsDirTable
  <2> QED
    BY <1>3, <2>1, <2>2
<1> HIDE DEF dirs
<1>5. ResumeFrom(vol) = [vol EXCEPT !.dirs = dirs]
  BY DEF ResumeFrom, dirs
<1> QED
  BY <1>4, <1>5 DEF Sound, IsVolumeRecord

=============================================================================
