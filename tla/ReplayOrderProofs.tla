-------------------------- MODULE ReplayOrderProofs --------------------------
(***************************************************************************)
(* What the canonical order is, whatever the log: proofs about             *)
(* ReplayOrder.  The library's induction theorems take an operator as a    *)
(* parameter, which no prover here can instantiate; induction is done with *)
(* sets instead, from the fact that a set of numbers has a least element.  *)
(***************************************************************************)
EXTENDS ReplayOrder, WellFoundedInduction, FiniteSetTheorems, FunctionTheorems,
        SequenceTheorems, TLAPS

-----------------------------------------------------------------------------
(* Numbers *)

\* A set of numbers that is not empty has a least element.
LEMMA NatLeast ==
  ASSUME NEW S \in SUBSET Nat, S # {}
  PROVE  \E m \in S : \A n \in S : m <= n
<1> DEFINE T == {0 .. n : n \in S}
<1>1. T \subseteq FiniteSubsetsOf(Nat) /\ T # {}
  <2>1. ASSUME NEW n \in S PROVE 0 .. n \in FiniteSubsetsOf(Nat)
    BY FS_Interval DEF FiniteSubsetsOf
  <2> QED BY <2>1
<1>2. PICK x \in T : \A y \in T : <<y, x>> \notin StrictSubsetOrdering(Nat)
  <2> HIDE DEF T
  <2> QED BY <1>1, WFMin, FS_StrictSubsetOrderingWellFounded
<1>3. PICK m \in S : x = 0 .. m
  OBVIOUS
<1>4. ASSUME NEW n \in S, n < m PROVE FALSE
  <2>1. <<0 .. n, 0 .. m>> \in (SUBSET Nat) \X (SUBSET Nat)
    OBVIOUS
  <2>2. 0 .. n \subseteq 0 .. m /\ m \in 0 .. m /\ m \notin 0 .. n
    BY <1>4
  <2>3. <<0 .. n, 0 .. m>> \in StrictSubsetOrdering(Nat)
    BY <2>1, <2>2 DEF StrictSubsetOrdering
  <2> QED BY <1>2, <1>3, <2>3
<1> QED BY <1>4

\* A bounded set of numbers that is not empty has a greatest element.
LEMMA NatLast ==
  ASSUME NEW N \in Nat, NEW S \in SUBSET (0 .. N), S # {}
  PROVE  Max(S) \in S /\ \A n \in S : n <= Max(S)
<1> DEFINE B == {n \in Nat : \A m \in S : m <= n}
<1>1. B \in SUBSET Nat /\ N \in B
  OBVIOUS
<1>2. PICK k \in B : \A n \in B : k <= n
  <2> HIDE DEF B
  <2> QED BY <1>1, NatLeast
<1>3. k \in S
  <2> SUFFICES ASSUME k \notin S PROVE FALSE
    OBVIOUS
  <2>1. \A m \in S : m <= k - 1 /\ 0 <= m
    BY <1>2
  <2>2. k - 1 \in B
    <3>1. PICK m \in S : m <= k - 1 /\ 0 <= m
      BY <2>1
    <3>2. k \in Nat /\ m \in Nat
      OBVIOUS
    <3>3. k - 1 \in Nat
      BY <3>1, <3>2
    <3> QED BY <2>1, <3>3
  <2> QED BY <1>2, <2>2
<1>4. \E x \in S : \A y \in S : x >= y
  BY <1>2, <1>3
<1>5. Max(S) \in S /\ \A y \in S : Max(S) >= y
  BY <1>4 DEF Max
<1> QED BY <1>5

\* Induction: a set that has 0, and with every number the next, has them all.
LEMMA NatsByStep ==
  ASSUME NEW S \in SUBSET Nat, 0 \in S, \A n \in S : n + 1 \in S
  PROVE  S = Nat
<1> SUFFICES ASSUME Nat \ S # {} PROVE FALSE
  OBVIOUS
<1>1. PICK m \in Nat \ S : \A n \in Nat \ S : m <= n
  BY NatLeast
<1>2. m - 1 \in S /\ m = (m - 1) + 1
  BY <1>1
<1> QED BY <1>1, <1>2

\* Recursion: what is done step by step can be done for all numbers.
LEMMA Iterates ==
  ASSUME NEW X, NEW x0 \in X, NEW step \in [Nat -> [X -> X]]
  PROVE  \E f \in [Nat -> X] : f[0] = x0 /\ \A n \in Nat : f[n + 1] = step[n + 1][f[n]]
<1> DEFINE Runs(n) == {g \in [0 .. n -> X] : 
                         g[0] = x0 /\ \A k \in Nat : k < n => g[k + 1] = step[k + 1][g[k]]}
           Some(n) == CHOOSE g \in Runs(n) : TRUE
           f == [n \in Nat |-> Some(n)[n]]
<1>1. \A n \in Nat : Runs(n) # {}
  <2> DEFINE S == {n \in Nat : Runs(n) # {}}
  <2>1. 0 \in S
    <3>1. [k \in 0 .. 0 |-> x0] \in Runs(0)
      OBVIOUS
    <3> QED BY <3>1
  <2>2. ASSUME NEW n \in S PROVE n + 1 \in S
    <3>1. PICK g \in Runs(n) : TRUE
      BY <2>2
    <3> DEFINE h == [k \in 0 .. n + 1 |-> IF k = n + 1 THEN step[n + 1][g[n]] ELSE g[k]]
    <3>2. n \in Nat /\ g \in [0 .. n -> X]
      BY <3>1
    <3>3. h \in [0 .. n + 1 -> X] /\ h[0] = x0
      BY <3>1, <3>2
    <3>4. ASSUME NEW k \in Nat, k < n + 1 PROVE h[k + 1] = step[k + 1][h[k]]
      <4>1. CASE k = n
        BY <3>2, <4>1
      <4>2. CASE k < n
        BY <3>1, <3>2, <4>2
      <4> QED BY <3>2, <3>4, <4>1, <4>2
    <3>5. h \in Runs(n + 1)
      <4> HIDE DEF h
      <4> QED BY <3>3, <3>4
    <3> HIDE DEF Runs, h
    <3> QED BY <3>2, <3>5
  <2>3. S = Nat
    <3> HIDE DEF S
    <3>1. S \in SUBSET Nat
      BY DEF S
    <3> QED BY <2>1, <2>2, <3>1, NatsByStep
  <2> QED BY <2>3
<1>2. ASSUME NEW m \in Nat, NEW n \in Nat, m <= n, NEW g \in Runs(m), NEW h \in Runs(n),
             NEW i \in 0 .. m
      PROVE  g[i] = h[i]
  <2> DEFINE S == {k \in Nat : k <= m => g[k] = h[k]}
  <2>1. 0 \in S
    OBVIOUS
  <2>2. ASSUME NEW k \in S PROVE k + 1 \in S
    <3> SUFFICES ASSUME k + 1 <= m PROVE g[k + 1] = h[k + 1]
      OBVIOUS
    <3>1. k \in Nat /\ k < m /\ k < n /\ g[k] = h[k]
      BY <1>2
    <3> QED BY <3>1
  <2>3. S = Nat
    <3> HIDE DEF S
    <3>1. S \in SUBSET Nat
      BY DEF S
    <3> QED BY <2>1, <2>2, <3>1, NatsByStep
  <2>4. i \in S /\ i <= m
    <3> HIDE DEF S
    <3> QED BY <2>3
  <2> QED BY <2>4
<1>3. \A n \in Nat : Some(n) \in Runs(n)
  BY <1>1
<1>4. f \in [Nat -> X] /\ f[0] = x0
  <2>1. \A n \in Nat : Some(n) \in [0 .. n -> X] /\ Some(n)[0] = x0
    <3> HIDE DEF Some
    <3> QED BY <1>3
  <2>2. \A n \in Nat : n \in 0 .. n
    OBVIOUS
  <2> HIDE DEF Some
  <2> QED BY <2>1, <2>2
<1>5. ASSUME NEW n \in Nat PROVE f[n + 1] = step[n + 1][f[n]]
  <2>1. Some(n) \in Runs(n) /\ Some(n + 1) \in Runs(n + 1)
    <3> HIDE DEF Some, Runs
    <3> QED BY <1>3
  <2>2. Some(n + 1)[n + 1] = step[n + 1][Some(n + 1)[n]]
    <3> HIDE DEF Some
    <3> QED BY <2>1
  <2>3. Some(n)[n] = Some(n + 1)[n]
    <3> HIDE DEF Some, Runs
    <3>1. n <= n + 1 /\ n + 1 \in Nat /\ n \in 0 .. n
      OBVIOUS
    <3> QED BY <1>2, <2>1, <3>1
  <2> HIDE DEF Some, Runs
  <2> QED BY <2>2, <2>3
<1> HIDE DEF f
<1> QED BY <1>4, <1>5

-----------------------------------------------------------------------------
(* Kahn's sort *)

\* Of the entries that may follow one precedes all the others.
LEMMA NextIsLeast ==
  ASSUME NEW log, DOMAIN log \subseteq Nat, \A i \in DOMAIN log : log[i].hash \in Nat,
         NEW time \in [DOMAIN log -> Nat],
         NEW open \in SUBSET DOMAIN log, open # {}
  PROVE  /\ NextOf(log, time, open) \in open
         /\ \A j \in open \ {NextOf(log, time, open)} :
              Precedes(log, time, NextOf(log, time, open), j)
<1>1. PICK t \in Nat : /\ \A i \in open : t <= time[i]
                       /\ \E i \in open : time[i] = t
  <2> DEFINE T == {time[i] : i \in open}
  <2>1. T \in SUBSET Nat /\ T # {}
    OBVIOUS
  <2>2. PICK m \in T : \A n \in T : m <= n
    <3> HIDE DEF T
    <3> QED BY <2>1, NatLeast
  <2> QED BY <2>2
<1>2. PICK h \in Nat : /\ \A i \in open : time[i] = t => h <= log[i].hash
                       /\ \E i \in open : time[i] = t /\ log[i].hash = h
  <2> DEFINE H == {log[i].hash : i \in {j \in open : time[j] = t}}
  <2>1. H \in SUBSET Nat /\ H # {}
    BY <1>1
  <2>2. PICK m \in H : \A n \in H : m <= n
    <3> HIDE DEF H
    <3> QED BY <2>1, NatLeast
  <2> QED BY <2>2
<1>3. PICK p \in open : /\ time[p] = t /\ log[p].hash = h
                        /\ \A i \in open : time[i] = t /\ log[i].hash = h => p <= i
  <2> DEFINE P == {i \in open : time[i] = t /\ log[i].hash = h}
  <2>1. P \in SUBSET Nat /\ P # {}
    BY <1>2
  <2>2. PICK m \in P : \A n \in P : m <= n
    <3> HIDE DEF P
    <3> QED BY <2>1, NatLeast
  <2> QED BY <2>2
<1>4. \A j \in open \ {p} : Precedes(log, time, p, j)
  <2> TAKE j \in open \ {p}
  <2>1. time[j] \in Nat /\ log[j].hash \in Nat /\ j \in Nat /\ p \in Nat
    OBVIOUS
  <2>2. CASE time[j] # t
    BY <1>1, <1>3, <2>1, <2>2 DEF Precedes
  <2>3. CASE time[j] = t /\ log[j].hash # h
    BY <1>2, <1>3, <2>1, <2>3 DEF Precedes
  <2>4. CASE time[j] = t /\ log[j].hash = h
    BY <1>3, <2>1, <2>4 DEF Precedes
  <2> QED BY <2>2, <2>3, <2>4
<1> QED BY <1>4 DEF NextOf

\* The set of a sequence's elements, and how it grows.
LEMMA ElementsOf ==
  ASSUME NEW D, NEW s \in Seq(D)
  PROVE  /\ ToSet(s) \in SUBSET D
         /\ ToSet(s) = {s[j] : j \in 1 .. Len(s)}
         /\ \A d \in D : ToSet(Append(s, d)) = ToSet(s) \cup {d}
<1>1. ToSet(s) = {s[j] : j \in 1 .. Len(s)}
  BY DEF ToSet
<1>2. ToSet(s) \in SUBSET D
  BY DEF ToSet
<1>3. ASSUME NEW d \in D PROVE ToSet(Append(s, d)) = ToSet(s) \cup {d}
  <2> DEFINE t == Append(s, d)
  <2>1. /\ t \in Seq(D) /\ Len(t) = Len(s) + 1 /\ DOMAIN t = 1 .. Len(t) /\ Len(s) \in Nat
        /\ \A i \in 1 .. Len(s) : t[i] = s[i]
        /\ t[Len(s) + 1] = d
    BY AppendProperties
  <2>2. ToSet(t) = {t[j] : j \in 1 .. Len(s) + 1}
    <3> HIDE DEF t
    <3> QED BY <2>1 DEF ToSet
  <2>3. 1 .. Len(s) + 1 = (1 .. Len(s)) \cup {Len(s) + 1}
    BY <2>1
  <2> HIDE DEF t
  <2>4. {t[j] : j \in 1 .. Len(s) + 1} = {s[j] : j \in 1 .. Len(s)} \cup {d}
    BY <2>1, <2>3
  <2> QED BY <1>1, <2>2, <2>4 DEF t
<1> QED BY <1>1, <1>2, <1>3

\* A log, a time for each of its places, and what may follow when.
Sortable(log, time, open) ==
  /\ Len(log) \in Nat /\ DOMAIN log = 1 .. Len(log)
  /\ \A i \in DOMAIN log : log[i].hash \in Nat
  /\ time \in [DOMAIN log -> Nat]
  /\ open \in [SUBSET DOMAIN log -> SUBSET DOMAIN log]
  /\ \A P \in SUBSET DOMAIN log : open[P] \cap P = {}

\* One more entry is emitted, if any may follow.
Emit1(log, time, open, s) ==
  IF open[ToSet(s)] = {} THEN s ELSE Append(s, NextOf(log, time, open[ToSet(s)]))

\* The sort's recursion has a solution: its places are computed one by one.
LEMMA EmissionSteps ==
  ASSUME NEW log, NEW time, NEW open, Sortable(log, time, open)
  PROVE  /\ Emission(log, time, open) \in [0 .. Len(log) -> Seq(DOMAIN log)]
         /\ Emission(log, time, open)[0] = <<>>
         /\ \A n \in Nat : n < Len(log) =>
              Emission(log, time, open)[n + 1]
                = Emit1(log, time, open, Emission(log, time, open)[n])
<1> DEFINE D == DOMAIN log
           N == Len(log)
           next(s) == Emit1(log, time, open, s)
           step == [n \in Nat |-> [s \in Seq(D) |-> next(s)]]
           e == Emission(log, time, open)
           Solves(g) == g = [n \in 0 .. N |-> IF n = 0 THEN <<>> ELSE next(g[n - 1])]
<1> USE DEF Sortable
<1>1. ASSUME NEW s \in Seq(D) PROVE next(s) \in Seq(D)
  <2>1. ToSet(s) \in SUBSET D
    BY ElementsOf
  <2>2. CASE open[ToSet(s)] = {}
    BY <2>2 DEF Emit1
  <2>3. CASE open[ToSet(s)] # {}
    <3>1. open[ToSet(s)] \in SUBSET D
      BY <2>1
    <3>2. NextOf(log, time, open[ToSet(s)]) \in D
      <4>1. DOMAIN log \subseteq Nat
        OBVIOUS
      <4> QED BY <2>3, <3>1, <4>1, NextIsLeast
    <3>3. Append(s, NextOf(log, time, open[ToSet(s)])) \in Seq(D)
      <4> HIDE DEF D
      <4> QED BY <3>2, AppendProperties
    <3> QED BY <2>3, <3>3 DEF Emit1
  <2> QED BY <2>2, <2>3
<1>2. step \in [Nat -> [Seq(D) -> Seq(D)]] /\ <<>> \in Seq(D)
  <2> HIDE DEF next, D
  <2>1. [s \in Seq(D) |-> next(s)] \in [Seq(D) -> Seq(D)]
    BY <1>1
  <2> QED BY <2>1
<1>3. PICK f \in [Nat -> Seq(D)] : f[0] = <<>> /\ \A n \in Nat : f[n + 1] = step[n + 1][f[n]]
  <2> DEFINE X == Seq(D)
             x0 == <<>>
  <2>1. step \in [Nat -> [X -> X]] /\ x0 \in X
    BY <1>2
  <2> HIDE DEF step, X, x0
  <2>2. \E f \in [Nat -> X] : f[0] = x0 /\ \A n \in Nat : f[n + 1] = step[n + 1][f[n]]
    BY ONLY <2>1, Iterates
  <2> QED BY <2>2 DEF X, x0
<1>4. \E g : Solves(g)
  <2> DEFINE g == [n \in 0 .. N |-> f[n]]
  <2>1. ASSUME NEW n \in 0 .. N PROVE g[n] = IF n = 0 THEN <<>> ELSE next(g[n - 1])
    <3> HIDE DEF next, D
    <3>1. CASE n = 0
      BY <1>3, <3>1
    <3>2. CASE n # 0
      <4>1. n - 1 \in Nat /\ n - 1 \in 0 .. N /\ (n - 1) + 1 = n
        <5>1. N \in Nat
          BY DEF Sortable
        <5> QED BY ONLY <3>2, <5>1, n \in 0 .. N
      <4>2. f[n] = step[n][f[n - 1]]
        <5> HIDE DEF step
        <5> QED BY <1>3, <4>1
      <4>3. step[n][f[n - 1]] = next(f[n - 1])
        BY <4>1
      <4> QED BY <3>2, <4>1, <4>2, <4>3
    <3> QED BY <3>1, <3>2
  <2>2. Solves(g)
    <3> HIDE DEF next
    <3> QED BY <2>1
  <2> HIDE DEF g, Solves
  <2> QED BY <2>2
<1>5. Solves(e)
  <2>1. e = CHOOSE g : Solves(g)
    BY DEF Emission, Emit1
  <2> HIDE DEF Solves, e
  <2> QED BY <1>4, <2>1
<1>6. \A n \in Nat : n < N => e[n + 1] = next(e[n])
  <2> HIDE DEF next, e
  <2> SUFFICES ASSUME NEW n \in Nat, n < N PROVE e[n + 1] = next(e[n])
    OBVIOUS
  <2>1. n + 1 \in 0 .. N /\ n + 1 # 0 /\ (n + 1) - 1 = n
    OBVIOUS
  <2>2. e[n + 1] = IF n + 1 = 0 THEN <<>> ELSE next(e[(n + 1) - 1])
    <3> HIDE DEF N
    <3> QED BY <1>5, <2>1
  <2> QED BY <2>1, <2>2
<1>7. e[0] = <<>>
  <2> HIDE DEF next, e
  <2> QED BY <1>5
<1>8. \A n \in 0 .. N : e[n] \in Seq(D)
  <2> DEFINE S == {n \in Nat : n <= N => e[n] \in Seq(D)}
  <2>1. 0 \in S
    <3> HIDE DEF e
    <3> QED BY <1>7, <1>2
  <2>2. ASSUME NEW n \in S PROVE n + 1 \in S
    <3> HIDE DEF next, e, N, D
    <3>1. N \in Nat
      BY DEF N, Sortable
    <3>2. n \in Nat /\ (n <= N => e[n] \in Seq(D))
      OBVIOUS
    <3>3. ASSUME n + 1 <= N PROVE e[n + 1] \in Seq(D)
      <4>1. n <= N /\ n < N
        BY ONLY <3>1, <3>2, <3>3
      <4>2. e[n] \in Seq(D)
        BY ONLY <3>2, <4>1
      <4>3. e[n + 1] = next(e[n])
        BY ONLY <1>6, <3>2, <4>1
      <4> QED BY ONLY <1>1, <4>2, <4>3
    <3>4. n + 1 \in Nat
      BY ONLY <3>2
    <3> QED BY ONLY <3>3, <3>4 DEF S
  <2>3. S = Nat
    <3>1. S \in SUBSET Nat
      <4> HIDE DEF e, D, N
      <4> QED OBVIOUS
    <3> HIDE DEF S
    <3> QED BY <2>1, <2>2, <3>1, NatsByStep
  <2> HIDE DEF e, D
  <2>4. \A n \in 0 .. N : n \in S /\ n <= N
    <3> HIDE DEF S
    <3> QED BY <2>3
  <2> HIDE DEF N
  <2> QED BY <2>4
<1>9. DOMAIN e = 0 .. N /\ e = [n \in 0 .. N |-> e[n]]
  <2> HIDE DEF next, e
  <2> QED BY <1>5
<1> HIDE DEF e, next
<1>10. e \in [0 .. N -> Seq(D)]
  BY <1>8, <1>9
<1> QED BY <1>6, <1>7, <1>10 DEF e, next


\* Every place emitted so far was the least of those that might follow the
\* places before it.
EmittedInTurn(log, time, open, s) ==
  /\ s \in Seq(DOMAIN log)
  /\ \A k \in 1 .. Len(s) :
       /\ s[k] \in open[{s[j] : j \in 1 .. k - 1}]
       /\ \A i \in open[{s[j] : j \in 1 .. k - 1}] \ {s[k]} : Precedes(log, time, s[k], i)

\* One more place keeps that.
LEMMA EmitInTurn ==
  ASSUME NEW log, NEW time, NEW open, Sortable(log, time, open),
         NEW s, EmittedInTurn(log, time, open, s)
  PROVE  /\ EmittedInTurn(log, time, open, Emit1(log, time, open, s))
         /\ open[ToSet(s)] = {} => Emit1(log, time, open, s) = s
         /\ open[ToSet(s)] # {} => Len(Emit1(log, time, open, s)) = Len(s) + 1
<1>1. s \in Seq(DOMAIN log) /\ ToSet(s) \in SUBSET DOMAIN log
      /\ ToSet(s) = {s[j] : j \in 1 .. Len(s)}
  BY ElementsOf DEF EmittedInTurn
<1> USE DEF Sortable
<1>2. CASE open[ToSet(s)] = {}
  BY <1>2 DEF Emit1
<1>3. CASE open[ToSet(s)] # {}
  <2> DEFINE i == NextOf(log, time, open[ToSet(s)])
             t == Append(s, i)
  <2>1. open[ToSet(s)] \in SUBSET DOMAIN log
    BY <1>1
  <2>2. i \in open[ToSet(s)] /\ \A j \in open[ToSet(s)] \ {i} : Precedes(log, time, i, j)
    <3>1. DOMAIN log \subseteq Nat
      OBVIOUS
    <3> QED BY <1>3, <2>1, <3>1, NextIsLeast
  <2>3. i \in DOMAIN log
    BY <2>1, <2>2
  <2>4. Emit1(log, time, open, s) = t
    BY <1>3 DEF Emit1
  <2> HIDE DEF i
  <2>5. /\ t \in Seq(DOMAIN log) /\ Len(t) = Len(s) + 1 /\ Len(s) \in Nat
        /\ \A k \in 1 .. Len(s) : t[k] = s[k]
        /\ t[Len(s) + 1] = i
    <3> HIDE DEF t
    <3>1. \A q \in Seq(DOMAIN log) : Len(q) \in Nat
      BY LenProperties
    <3> QED BY <1>1, <2>3, <3>1, AppendProperties DEF t
  <2> HIDE DEF t
  <2>6. ASSUME NEW k \in 1 .. Len(s) + 1
        PROVE  {t[j] : j \in 1 .. k - 1} = {s[j] : j \in 1 .. k - 1}
    <3>1. \A j \in 1 .. k - 1 : j \in 1 .. Len(s)
      BY <2>5
    <3> QED BY ONLY <2>5, <3>1
  <2>7. ASSUME NEW k \in 1 .. Len(t)
        PROVE  /\ t[k] \in open[{t[j] : j \in 1 .. k - 1}]
               /\ \A m \in open[{t[j] : j \in 1 .. k - 1}] \ {t[k]} : Precedes(log, time, t[k], m)
    <3>1. CASE k \in 1 .. Len(s)
      BY <2>5, <2>6, <3>1 DEF EmittedInTurn
    <3>2. CASE k = Len(s) + 1
      <4>1. {t[j] : j \in 1 .. k - 1} = ToSet(s)
        <5>1. k - 1 = Len(s) /\ k \in 1 .. Len(s) + 1
          BY <2>5, <3>2
        <5> QED BY <1>1, <2>6, <5>1
      <4> QED BY <2>2, <2>5, <3>2, <4>1
    <3>3. k \in 1 .. Len(s) \/ k = Len(s) + 1
      BY ONLY <2>5, k \in 1 .. Len(t)
    <3> QED BY ONLY <3>1, <3>2, <3>3
  <2>8. EmittedInTurn(log, time, open, t)
    BY <2>5, <2>7 DEF EmittedInTurn
  <2> QED BY <1>3, <2>4, <2>5, <2>8
<1> QED BY <1>2, <1>3

\* When the sort ends, nothing that may follow is left.
LEMMA EmissionInTurn ==
  ASSUME NEW log, NEW time, NEW open, Sortable(log, time, open)
  PROVE  LET order == Emission(log, time, open)[Len(log)]
         IN  /\ EmittedInTurn(log, time, open, order)
             /\ IsInjective(order)
             /\ open[ToSet(order)] = {}
<1> DEFINE N == Len(log)
           e == Emission(log, time, open)
           Good(s, n) == /\ EmittedInTurn(log, time, open, s)
                         /\ Len(s) = n \/ open[ToSet(s)] = {}
<1>1. /\ e[0] = <<>>
      /\ \A n \in Nat : n < N => e[n + 1] = Emit1(log, time, open, e[n])
  <2> HIDE DEF e
  <2>1. /\ Emission(log, time, open)[0] = <<>>
        /\ \A n \in Nat : n < Len(log) =>
             Emission(log, time, open)[n + 1]
               = Emit1(log, time, open, Emission(log, time, open)[n])
    BY EmissionSteps
  <2> QED BY <2>1 DEF e
<1>2. EmittedInTurn(log, time, open, <<>>)
  BY DEF EmittedInTurn
<1>0. N \in Nat
  BY DEF Sortable
<1>3. \A n \in Nat : n <= N => Good(e[n], n)
  <2> DEFINE S == {n \in Nat : n <= N => Good(e[n], n)}
  <2>1. 0 \in S
    <3> HIDE DEF e
    <3> QED BY <1>1, <1>2
  <2>2. ASSUME NEW n \in S PROVE n + 1 \in S
    <3>1. n \in Nat /\ n + 1 \in Nat
      OBVIOUS
    <3>2. ASSUME n + 1 <= N PROVE Good(e[n + 1], n + 1)
      <4>1. n <= N /\ n < N
        <5> HIDE DEF S, e
        <5> QED BY <1>0, <3>1, <3>2
      <4>2. Good(e[n], n) /\ e[n + 1] = Emit1(log, time, open, e[n])
        BY <1>1, <3>1, <4>1
      <4> HIDE DEF e
      <4> DEFINE s == e[n]
      <4>4. EmittedInTurn(log, time, open, s)
        BY <4>2
      <4> HIDE DEF s
      <4>5. /\ EmittedInTurn(log, time, open, Emit1(log, time, open, s))
            /\ open[ToSet(s)] = {} => Emit1(log, time, open, s) = s
            /\ open[ToSet(s)] # {} => Len(Emit1(log, time, open, s)) = Len(s) + 1
        BY <4>4, EmitInTurn
      <4> QED BY <4>2, <4>5 DEF s
    <3> HIDE DEF Good, e
    <3> QED BY <3>1, <3>2
  <2>3. S = Nat
    <3>1. S \in SUBSET Nat
      <4> HIDE DEF Good, e
      <4> QED OBVIOUS
    <3> HIDE DEF S
    <3> QED BY <2>1, <2>2, <3>1, NatsByStep
  <2> HIDE DEF Good, e
  <2> QED BY <2>3
<1> DEFINE o == e[N]
<1>4. Good(o, N)
  <2> HIDE DEF Good, e
  <2> QED BY <1>0, <1>3
<1> HIDE DEF e, o
<1> USE DEF Sortable
<1>5. o \in Seq(DOMAIN log) /\ Len(o) \in Nat /\ DOMAIN o = 1 .. Len(o)
  BY <1>4, LenProperties DEF EmittedInTurn
<1>6. IsInjective(o)
  <2>1. ASSUME NEW k \in 1 .. Len(o), NEW j \in 1 .. Len(o), j < k PROVE o[j] # o[k]
    <3> DEFINE P == {o[m] : m \in 1 .. k - 1}
    <3>1. j \in 1 .. k - 1 /\ \A m \in 1 .. k - 1 : m \in 1 .. Len(o)
      BY <1>5, <2>1
    <3>2. o[j] \in P /\ P \in SUBSET DOMAIN log
      <4>1. \A m \in 1 .. Len(o) : o[m] \in DOMAIN log
        BY <1>5
      <4> QED BY <3>1, <4>1
    <3>3. o[k] \in open[P]
      BY <1>4 DEF EmittedInTurn
    <3> QED BY <3>2, <3>3
  <2>2. ASSUME NEW k \in 1 .. Len(o), NEW j \in 1 .. Len(o), o[k] = o[j] PROVE k = j
    BY <2>1, <2>2, <1>5
  <2> QED BY <1>5, <2>2 DEF IsInjective
<1>7. open[ToSet(o)] = {}
  <2> SUFFICES ASSUME Len(o) = N PROVE open[ToSet(o)] = {}
    BY <1>4
  <2>1. o \in Injection(1 .. N, 1 .. N)
    BY <1>5, <1>6 DEF Injection
  <2>2. ToSet(o) = DOMAIN log
    <3>1. IsFiniteSet(1 .. N) /\ Cardinality(1 .. N) = N
      <4>1. 1 \in Int /\ N \in Nat /\ N \in Int
        OBVIOUS
      <4>2. /\ IsFiniteSet(1 .. N)
            /\ Cardinality(1 .. N) = IF 1 > N THEN 0 ELSE N - 1 + 1
        BY ONLY <4>1, FS_Interval
      <4> QED BY <4>1, <4>2
    <3>2. o \in Bijection(1 .. N, Range(o))
      BY <2>1, Fun_InjMeansBijImage
    <3>3. Range(o) = ToSet(o) /\ Range(o) \subseteq 1 .. N
      BY <1>5 DEF Range, ToSet
    <3>4. IsFiniteSet(Range(o)) /\ Cardinality(Range(o)) = N
      BY <3>1, <3>2, FS_Bijection DEF ExistsBijection
    <3>5. Range(o) = 1 .. N
      BY <3>1, <3>3, <3>4, FS_Subset
    <3> QED BY <3>3, <3>5
  <2> QED BY <2>2
<1> QED BY <1>4, <1>6, <1>7 DEF o, e


-----------------------------------------------------------------------------
(* What the projector's order promises, without a word of how it is found *)

\* Entries of a channel: hashes tell them apart, times can be compared.
Channel(E) ==
  /\ \A e \in E : e.hash \in Nat /\ ExtractTimestamp(e, 0) \in Nat
  /\ \A e, f \in E : e.hash = f.hash => e = f

\* A channel's log, with every entry once.
LogOf(E, log) == log \in Seq(E) /\ IsInjective(log)

Earlier(e, f) ==
  \/ ExtractTimestamp(e, 0) < ExtractTimestamp(f, 0)
  \/ ExtractTimestamp(e, 0) = ExtractTimestamp(f, 0) /\ e.hash < f.hash

\* The entries of S whose parents are done, or not in S.
Free(S, done) == {e \in S \ done : \A f \in S \ done : f.hash # ParentOf(e)}

\* Every entry is the earliest of those that were free, and none is free in the end.
Canonical(S, order) ==
  /\ LogOf(S, order)
  /\ \A k \in 1 .. Len(order) :
       LET done == {order[j] : j \in 1 .. k - 1}
       IN  /\ order[k] \in Free(S, done)
           /\ \A f \in Free(S, done) \ {order[k]} : Earlier(order[k], f)
  /\ Free(S, ToSet(order)) = {}

\* A sequence lists its set.
LEMMA LogIsSeq ==
  ASSUME NEW S, NEW log, LogOf(S, log)
  PROVE  /\ log \in Seq(S) /\ Len(log) \in Nat /\ DOMAIN log = 1 .. Len(log)
         /\ ToSet(log) = {log[i] : i \in 1 .. Len(log)} /\ ToSet(log) \subseteq S
         /\ \A i, j \in 1 .. Len(log) : log[i] = log[j] => i = j
         /\ log \in Seq(ToSet(log))
<1>1. log \in Seq(S) /\ Len(log) \in Nat /\ DOMAIN log = 1 .. Len(log)
  BY LenProperties DEF LogOf
<1>2. ToSet(log) = {log[i] : i \in 1 .. Len(log)} /\ ToSet(log) \subseteq S
  BY <1>1, ElementsOf
<1>3. \A i, j \in 1 .. Len(log) : log[i] = log[j] => i = j
  BY <1>1 DEF LogOf, IsInjective
<1>4. log \in Seq(ToSet(log))
  <2>1. ToSet(log) = Range(log)
    BY DEF ToSet, Range
  <2> QED BY <1>1, <2>1, SeqOfRange
<1> QED BY <1>1, <1>2, <1>3, <1>4

\* A log of a channel is one of a larger channel.
LEMMA LogOfMore ==
  ASSUME NEW A, NEW B, A \subseteq B, NEW log, LogOf(A, log)
  PROVE  LogOf(B, log)
<1>1. log \in Seq(A) /\ Len(log) \in Nat
  BY LenProperties DEF LogOf
<1>2. log \in Seq(B)
  BY <1>1, SeqDef
<1> QED BY <1>2 DEF LogOf

\* Part of a channel is one.
LEMMA ChannelOfLess ==
  ASSUME NEW A, NEW B, A \subseteq B, Channel(B)
  PROVE  Channel(A)
BY DEF Channel

\* A log of one entry.
LEMMA LogOfOne ==
  ASSUME NEW E, NEW e \in E
  PROVE  LogOf(E, <<e>>) /\ ToSet(<<e>>) = {e}
<1>1. <<e>> \in Seq(E) /\ Len(<<e>>) = 1 /\ DOMAIN <<e>> = 1 .. 1 /\ <<e>>[1] = e
  OBVIOUS
<1>2. 1 .. 1 = {1}
  OBVIOUS
<1>3. IsInjective(<<e>>)
  BY <1>1, <1>2 DEF IsInjective
<1>4. ToSet(<<e>>) = {e}
  BY <1>1, <1>2 DEF ToSet
<1> QED BY <1>1, <1>3, <1>4 DEF LogOf

\* No entries are a log.
LEMMA NothingIsLog ==
  ASSUME NEW S
  PROVE  LogOf(S, <<>>) /\ ToSet(<<>>) = {}
<1>1. <<>> \in Seq(S) /\ DOMAIN <<>> = {}
  OBVIOUS
<1> QED BY <1>1 DEF LogOf, ToSet, IsInjective

\* An entry that is appended to a log that does not have it.
LEMMA LogOfAppend ==
  ASSUME NEW E, NEW log, LogOf(E, log), NEW e \in E, e \notin ToSet(log)
  PROVE  LogOf(E, Append(log, e)) /\ ToSet(Append(log, e)) = ToSet(log) \cup {e}
<1>1. /\ log \in Seq(E) /\ Len(log) \in Nat /\ ToSet(log) = {log[i] : i \in 1 .. Len(log)}
      /\ \A i, j \in 1 .. Len(log) : log[i] = log[j] => i = j
  BY LogIsSeq
<1> DEFINE t == Append(log, e)
<1>2. /\ t \in Seq(E) /\ Len(t) = Len(log) + 1 /\ DOMAIN t = 1 .. Len(log) + 1
      /\ t[Len(log) + 1] = e /\ \A i \in 1 .. Len(log) : t[i] = log[i]
  BY <1>1, AppendProperties
<1> HIDE DEF t
<1>3. \A i \in 1 .. Len(log) + 1 : i \in 1 .. Len(log) \/ i = Len(log) + 1
  BY <1>1
<1>4. IsInjective(t)
  BY <1>1, <1>2, <1>3 DEF IsInjective
<1>5. ToSet(t) = {t[i] : i \in 1 .. Len(log) + 1}
  BY <1>2 DEF ToSet
<1>6. 1 .. Len(log) \subseteq 1 .. Len(log) + 1 /\ Len(log) + 1 \in 1 .. Len(log) + 1
  BY <1>1
<1>7. ToSet(t) = ToSet(log) \cup {e}
  BY ONLY <1>1, <1>2, <1>3, <1>5, <1>6
<1> QED BY <1>2, <1>4, <1>7 DEF LogOf, t

\* The hashes of a log are those of its entries.
LEMMA HashesAreOf ==
  ASSUME NEW E, NEW log, LogOf(E, log)
  PROVE  HashesOf(log) = {e.hash : e \in ToSet(log)}
BY LogIsSeq DEF HashesOf

\* next[done]: the entries of S that may follow when those in `done` are emitted.
Greedy(S, next, order) ==
  /\ LogOf(S, order)
  /\ \A k \in 1 .. Len(order) :
       LET done == {order[j] : j \in 1 .. k - 1}
       IN  /\ order[k] \in next[done]
           /\ \A f \in next[done] \ {order[k]} : Earlier(order[k], f)
  /\ next[ToSet(order)] = {}

\* There is but one such order.
LEMMA GreedyIsUnique ==
  ASSUME NEW S, Channel(S), NEW next,
         NEW p, Greedy(S, next, p), NEW q, Greedy(S, next, q)
  PROVE  p = q
<1>1. /\ Len(p) \in Nat /\ Len(q) \in Nat /\ p \in Seq(S) /\ q \in Seq(S)
      /\ ToSet(p) = {p[i] : i \in 1 .. Len(p)} /\ ToSet(q) = {q[i] : i \in 1 .. Len(q)}
  BY LogIsSeq DEF Greedy
<1>2. ASSUME NEW k \in Nat, k \in 1 .. Len(p), k \in 1 .. Len(q) PROVE p[k] = q[k]
  <2> DEFINE Differ == {m \in Nat : m \in 1 .. Len(p) /\ m \in 1 .. Len(q) /\ p[m] # q[m]}
  <2> SUFFICES ASSUME Differ # {} PROVE FALSE
    BY <1>2
  <2>1. PICK m \in Differ : \A n \in Differ : m <= n
    <3>1. Differ \in SUBSET Nat
      OBVIOUS
    <3> HIDE DEF Differ
    <3> QED BY <3>1, NatLeast
  <2>2. m \in 1 .. Len(p) /\ m \in 1 .. Len(q) /\ p[m] # q[m] /\ m \in Nat
    OBVIOUS
  <2>3. ASSUME NEW j \in 1 .. m - 1 PROVE p[j] = q[j]
    <3>1. j \in Nat /\ j < m /\ j \in 1 .. Len(p) /\ j \in 1 .. Len(q)
      BY <1>1, <2>2
    <3>2. j \notin Differ
      <4> HIDE DEF Differ
      <4>1. \A n \in Differ : n \in Nat
        BY DEF Differ
      <4> QED BY <2>1, <3>1, <4>1
    <3> QED BY <3>1, <3>2
  <2>4. {p[j] : j \in 1 .. m - 1} = {q[j] : j \in 1 .. m - 1}
    BY ONLY <2>3
  <2> DEFINE done == {p[j] : j \in 1 .. m - 1}
  <2>5. /\ p[m] \in next[done] /\ q[m] \in next[done]
        /\ \A f \in next[done] \ {p[m]} : Earlier(p[m], f)
        /\ \A f \in next[done] \ {q[m]} : Earlier(q[m], f)
    BY <2>2, <2>4 DEF Greedy
  <2>6. Earlier(p[m], q[m]) /\ Earlier(q[m], p[m])
    BY <2>2, <2>5
  <2>7. p[m] \in S /\ q[m] \in S
    BY <1>1, <2>2
  <2> QED BY <2>6, <2>7 DEF Earlier, Channel
<1>3. ASSUME NEW a, Greedy(S, next, a), NEW b, Greedy(S, next, b), Len(a) < Len(b),
             \A k \in Nat : k \in 1 .. Len(a) /\ k \in 1 .. Len(b) => a[k] = b[k]
      PROVE  FALSE
  <2>1. Len(a) \in Nat /\ Len(b) \in Nat /\ ToSet(a) = {a[i] : i \in 1 .. Len(a)}
    <3>1. LogOf(S, a) /\ LogOf(S, b)
      BY <1>3 DEF Greedy
    <3> QED BY ONLY <3>1, LogIsSeq
  <2> DEFINE k == Len(a) + 1
  <2>2. k \in 1 .. Len(b) /\ k - 1 = Len(a)
    BY <1>3, <2>1
  <2>3. \A j \in 1 .. Len(a) : a[j] = b[j]
    <3>1. \A j \in 1 .. Len(a) : j \in Nat /\ j \in 1 .. Len(b)
      BY <1>3, <2>1
    <3> QED BY <1>3, <3>1
  <2>4. {b[j] : j \in 1 .. k - 1} = ToSet(a)
    BY ONLY <2>1, <2>2, <2>3
  <2> HIDE DEF k
  <2>5. b[k] \in next[ToSet(a)]
    BY <1>3, <2>2, <2>4 DEF Greedy
  <2>6. next[ToSet(a)] = {}
    BY <1>3 DEF Greedy
  <2> QED BY <2>5, <2>6
<1>4. Len(p) = Len(q)
  <2>1. ~ (Len(p) < Len(q))
    BY <1>2, <1>3
  <2>2. ~ (Len(q) < Len(p))
    BY <1>2, <1>3
  <2> QED BY <1>1, <2>1, <2>2
<1>5. \A k \in 1 .. Len(p) : p[k] = q[k]
  BY <1>1, <1>2, <1>4
<1> QED BY <1>1, <1>4, <1>5, SeqEqual

\* What may follow in the projector's order.
FreeOf(S) == [done \in SUBSET S |-> Free(S, done)]

\* Canonical orders are such.
LEMMA CanonicalIsGreedy ==
  ASSUME NEW S, NEW order
  PROVE  Canonical(S, order) <=> Greedy(S, FreeOf(S), order)
<1> SUFFICES ASSUME LogOf(S, order) PROVE Canonical(S, order) <=> Greedy(S, FreeOf(S), order)
  BY DEF Canonical, Greedy
<1> DEFINE done(k) == {order[j] : j \in 1 .. k - 1}
<1>1. /\ Len(order) \in Nat /\ ToSet(order) \subseteq S /\ \A k \in 1 .. Len(order) : order[k] \in S
  BY LogIsSeq
<1>2. Canonical(S, order) <=>
        /\ \A k \in 1 .. Len(order) :
             /\ order[k] \in Free(S, done(k))
             /\ \A f \in Free(S, done(k)) \ {order[k]} : Earlier(order[k], f)
        /\ Free(S, ToSet(order)) = {}
  BY DEF Canonical
<1>3. Greedy(S, FreeOf(S), order) <=>
        /\ \A k \in 1 .. Len(order) :
             /\ order[k] \in FreeOf(S)[done(k)]
             /\ \A f \in FreeOf(S)[done(k)] \ {order[k]} : Earlier(order[k], f)
        /\ FreeOf(S)[ToSet(order)] = {}
  BY DEF Greedy
<1>4. ASSUME NEW k \in 1 .. Len(order) PROVE done(k) \in SUBSET S
  <2>1. \A j \in 1 .. k - 1 : j \in 1 .. Len(order)
    BY <1>1
  <2> QED BY <1>1, <2>1
<1> HIDE DEF done
<1>5. \A k \in 1 .. Len(order) : FreeOf(S)[done(k)] = Free(S, done(k))
  BY <1>4 DEF FreeOf
<1>6. FreeOf(S)[ToSet(order)] = Free(S, ToSet(order))
  BY <1>1 DEF FreeOf
<1> QED BY <1>2, <1>3, <1>5, <1>6

\* There is but one canonical order of a set of entries.
THEOREM CanonicalIsUnique ==
  ASSUME NEW S, Channel(S), NEW p, Canonical(S, p), NEW q, Canonical(S, q)
  PROVE  p = q
BY CanonicalIsGreedy, GreedyIsUnique

\* What is left of a log when it is in order is in order: entries that wait for
\* ever change nothing.
LEMMA CanonicalOfItself ==
  ASSUME NEW S, NEW order, Canonical(S, order)
  PROVE  Canonical(ToSet(order), order)
<1> DEFINE T == ToSet(order)
           Done(k) == {order[j] : j \in 1 .. k - 1}
<1>1. /\ Len(order) \in Nat /\ order \in Seq(T) /\ T = {order[i] : i \in 1 .. Len(order)}
      /\ T \subseteq S /\ \A i, j \in 1 .. Len(order) : order[i] = order[j] => i = j
  BY LogIsSeq DEF Canonical
<1>2. LogOf(T, order)
  BY <1>1 DEF Canonical, LogOf
<1>3. \A k \in 1 .. Len(order) : /\ order[k] \in Free(S, Done(k))
                                 /\ \A f \in Free(S, Done(k)) \ {order[k]} : Earlier(order[k], f)
  BY DEF Canonical
<1>4. ASSUME NEW k \in 1 .. Len(order) PROVE Free(T, Done(k)) \subseteq Free(S, Done(k))
  <2> SUFFICES ASSUME NEW e \in Free(T, Done(k)) PROVE e \in Free(S, Done(k))
    OBVIOUS
  <2> HIDE DEF T, Done
  <2>1. e \in T /\ e \notin Done(k) /\ \A f \in T \ Done(k) : f.hash # ParentOf(e)
    BY DEF Free
  <2>2. PICK m \in 1 .. Len(order) : order[m] = e
    BY <1>1, <2>1
  <2>3. k <= m
    <3>1. m \in Nat /\ k \in Nat /\ 1 <= m
      BY ONLY <1>1, k \in 1 .. Len(order), m \in 1 .. Len(order)
    <3>2. ASSUME m < k PROVE FALSE
      <4>1. m \in 1 .. k - 1
        BY ONLY <3>1, <3>2
      <4> QED BY <2>1, <2>2, <4>1 DEF Done
    <3> QED BY ONLY <3>1, <3>2
  <2>4. Done(k) \subseteq Done(m) /\ Done(m) \subseteq T
    <3>1. 1 .. k - 1 \subseteq 1 .. m - 1 /\ 1 .. m - 1 \subseteq 1 .. Len(order)
      <4>1. Len(order) \in Nat
        BY <1>1
      <4> QED BY ONLY <2>3, <4>1, k \in 1 .. Len(order), m \in 1 .. Len(order)
    <3> QED BY <1>1, <3>1 DEF Done
  <2>5. \A f \in S \ Done(m) : f.hash # ParentOf(e)
    BY <1>3, <2>2 DEF Free
  <2>6. ASSUME NEW f \in S \ Done(k), f.hash = ParentOf(e) PROVE FALSE
    BY <2>1, <2>4, <2>5, <2>6
  <2> QED BY <1>1, <2>1, <2>6 DEF Free
<1>5. ASSUME NEW k \in 1 .. Len(order)
      PROVE  /\ order[k] \in Free(T, Done(k))
             /\ \A f \in Free(T, Done(k)) \ {order[k]} : Earlier(order[k], f)
  <2> HIDE DEF T, Done
  <2>1. order[k] \in T
    BY <1>1
  <2> QED BY <1>1, <1>3, <1>4, <2>1 DEF Free
<1>6. Free(T, T) = {}
  BY DEF Free
<1> QED BY <1>2, <1>5, <1>6 DEF Canonical

\* An entry never comes before its parent, wherever its parent is.
LEMMA ParentsFirst ==
  ASSUME NEW S, NEW order, Canonical(S, order),
         NEW k \in 1 .. Len(order), NEW f \in S, f.hash = ParentOf(order[k])
  PROVE  \E j \in 1 .. k - 1 : order[j] = f
BY DEF Canonical, Free

\* If no entry descends from itself, none is left out.
LEMMA CanonicalIsComplete ==
  ASSUME NEW S, NEW order, Canonical(S, order),
         NEW rank \in [S -> Nat],
         \A e, f \in S : f.hash = ParentOf(e) => rank[f] < rank[e]
  PROVE  ToSet(order) = S
<1>1. ToSet(order) \subseteq S
  BY LogIsSeq DEF Canonical
<1> SUFFICES ASSUME S \ ToSet(order) # {} PROVE FALSE
  BY <1>1
<1> DEFINE R == {rank[e] : e \in S \ ToSet(order)}
<1>2. R \in SUBSET Nat /\ R # {}
  OBVIOUS
<1>3. PICK r \in R : \A n \in R : r <= n
  <2> HIDE DEF R
  <2> QED BY <1>2, NatLeast
<1>4. PICK e \in S \ ToSet(order) : rank[e] = r
  OBVIOUS
<1>5. ASSUME NEW f \in S \ ToSet(order), f.hash = ParentOf(e) PROVE FALSE
  <2>1. rank[f] < rank[e] /\ rank[f] \in Nat /\ rank[e] \in Nat
    BY <1>5
  <2>2. r <= rank[f]
    BY <1>3
  <2> QED BY <1>4, <2>1, <2>2
<1>6. e \in Free(S, ToSet(order))
  BY <1>5 DEF Free
<1> QED BY <1>6 DEF Canonical


-----------------------------------------------------------------------------
(* Orders of different sets of a channel's entries *)

\* With every entry that has a parent comes the parent.
Closed(S) ==
  \A e \in S : ParentOf(e) # NoRef => \E f \in S : f.hash = ParentOf(e)

\* The canonical order of a closed set of the channel's entries.
ViewOf(E, order) ==
  /\ ToSet(order) \subseteq E
  /\ Canonical(ToSet(order), order)
  /\ Closed(ToSet(order))

\* Of a larger storage a view is one still.
LEMMA ViewOfMore ==
  ASSUME NEW A, NEW B, A \subseteq B, NEW q, ViewOf(A, q)
  PROVE  ViewOf(B, q)
BY DEF ViewOf

\* q[i] comes before p[b] in q, and after it in p.
Inverted(p, q, i, b) ==
  /\ i \in 1 .. Len(q) /\ b \in 1 .. Len(p)
  /\ \E j \in i + 1 .. Len(q) : q[j] = p[b]
  /\ \E a \in b + 1 .. Len(p) : p[a] = q[i]

\* In the least inversion of two views the second entry was free when the
\* first one was emitted: its parent would make a lesser inversion.
LEMMA LeastInversion ==
  ASSUME NEW E, Channel(E), NEW p, ViewOf(E, p), NEW q, ViewOf(E, q),
         NEW i, NEW b, Inverted(p, q, i, b),
         \A c : Inverted(p, q, i, c) => b <= c
  PROVE  Earlier(q[i], p[b])
<1> DEFINE T == ToSet(q)
           done == {q[j] : j \in 1 .. i - 1}
<1>1. /\ Len(p) \in Nat /\ ToSet(p) = {p[k] : k \in 1 .. Len(p)} /\ ToSet(p) \subseteq E
      /\ \A k, m \in 1 .. Len(p) : p[k] = p[m] => k = m
  BY LogIsSeq DEF ViewOf, Canonical
<1>2. /\ Len(q) \in Nat /\ T = {q[k] : k \in 1 .. Len(q)} /\ T \subseteq E
      /\ \A k, m \in 1 .. Len(q) : q[k] = q[m] => k = m
  BY LogIsSeq DEF ViewOf, Canonical
<1>3. PICK j \in i + 1 .. Len(q) : q[j] = p[b]
  BY DEF Inverted
<1>4. PICK a \in b + 1 .. Len(p) : p[a] = q[i]
  BY DEF Inverted
<1>5. /\ i \in 1 .. Len(q) /\ j \in 1 .. Len(q) /\ i < j
      /\ b \in 1 .. Len(p) /\ a \in 1 .. Len(p) /\ b < a
  BY <1>1, <1>2, <1>3, <1>4 DEF Inverted
<1> HIDE DEF T
<1>6. p[b] \in T /\ p[b] \notin done /\ p[b] # q[i]
  <2>1. \A k \in 1 .. i - 1 : k \in 1 .. Len(q) /\ k # j
    BY <1>2, <1>5
  <2> QED BY <1>1, <1>2, <1>3, <1>4, <1>5, <2>1
<1>7. ASSUME NEW f \in T \ done, f.hash = ParentOf(p[b]) PROVE FALSE
  <2>1. f \in E /\ p[b] \in ToSet(p)
    BY <1>1, <1>2, <1>5
  <2>2. ParentOf(p[b]) # NoRef
    BY <1>7, <2>1, MarksNotNumbers DEF Channel
  <2>3. f \in ToSet(p)
    <3>1. PICK g \in ToSet(p) : g.hash = ParentOf(p[b])
      BY <2>1, <2>2 DEF ViewOf, Closed
    <3> QED BY <1>1, <1>7, <2>1, <3>1 DEF Channel
  <2>4. PICK c \in 1 .. b - 1 : p[c] = f
    <3>1. Canonical(ToSet(p), p)
      BY DEF ViewOf
    <3> QED BY ONLY <1>5, <1>7, <2>3, <3>1, ParentsFirst
  <2>5. c \in 1 .. Len(p) /\ c < b /\ c < a
    BY <1>1, <1>5, <2>4
  <2>6. PICK k \in 1 .. Len(q) : q[k] = f
    BY <1>2, <1>7
  <2>7. k >= i
    <3> SUFFICES ASSUME k < i PROVE FALSE
      BY <1>5, <2>6
    <3>1. k \in 1 .. i - 1
      BY <1>5, <2>6
    <3> QED BY <1>7, <2>6, <3>1
  <2>8. k # i
    BY <1>1, <1>4, <1>5, <2>4, <2>5, <2>6
  <2>9. Inverted(p, q, i, c)
    <3>1. k \in i + 1 .. Len(q) /\ a \in c + 1 .. Len(p)
      BY <1>1, <1>2, <1>5, <2>5, <2>6, <2>7, <2>8
    <3> QED BY <1>4, <1>5, <2>4, <2>5, <2>6, <3>1 DEF Inverted
  <2> QED BY <1>5, <2>5, <2>9
<1>8. p[b] \in Free(T, done)
  BY <1>6, <1>7 DEF Free
<1>9. \A f \in Free(T, done) \ {q[i]} : Earlier(q[i], f)
  BY <1>5 DEF T, ViewOf, Canonical
<1> QED BY <1>6, <1>8, <1>9

\* Two views agree on the order of the entries they share: what else one of
\* them knows comes in between, and moves nothing.
THEOREM ViewsAgree ==
  ASSUME NEW E, Channel(E), NEW p, ViewOf(E, p), NEW q, ViewOf(E, q),
         NEW i \in 1 .. Len(q), NEW j \in 1 .. Len(q), i < j,
         NEW a \in 1 .. Len(p), NEW b \in 1 .. Len(p), p[a] = q[i], p[b] = q[j]
  PROVE  a < b
<1>1. /\ Len(p) \in Nat /\ Len(q) \in Nat
      /\ p \in Seq(E) /\ q \in Seq(E)
      /\ \A k, m \in 1 .. Len(q) : q[k] = q[m] => k = m
  BY LogIsSeq, LogOfMore DEF ViewOf, Canonical, LogOf
<1> SUFFICES ASSUME b < a PROVE FALSE
  BY <1>1
<1> DEFINE Sums == {n \in Nat : \E k, c \in Nat : n = k + c /\ Inverted(p, q, k, c)}
<1>2. Inverted(p, q, i, b)
  <2>1. j \in i + 1 .. Len(q) /\ a \in b + 1 .. Len(p)
    BY <1>1
  <2> QED BY <2>1 DEF Inverted
<1>3. Sums \in SUBSET Nat /\ Sums # {}
  <2>1. i \in Nat /\ b \in Nat /\ i + b \in Nat
    BY <1>1
  <2>2. i + b \in Sums
    BY <1>2, <2>1
  <2> QED BY <2>2
<1>4. PICK n \in Sums : \A m \in Sums : n <= m
  <2> HIDE DEF Sums
  <2> QED BY <1>3, NatLeast
<1>5. PICK k \in Nat, c \in Nat : n = k + c /\ Inverted(p, q, k, c)
  OBVIOUS
<1>6. ASSUME NEW l, NEW d, Inverted(p, q, l, d) PROVE k + c <= l + d
  <2>1. l \in Nat /\ d \in Nat
    BY <1>1, <1>6 DEF Inverted
  <2>2. l + d \in Sums
    BY <1>6, <2>1
  <2> QED BY <1>4, <1>5, <2>2
<1> HIDE DEF Sums
<1>7. \A d : Inverted(p, q, k, d) => c <= d
  <2> SUFFICES ASSUME NEW d, Inverted(p, q, k, d) PROVE c <= d
    OBVIOUS
  <2>1. d \in Nat
    BY <1>1 DEF Inverted
  <2> QED BY <1>5, <1>6, <2>1
<1>8. \A l : Inverted(q, p, c, l) => k <= l
  <2> SUFFICES ASSUME NEW l, Inverted(q, p, c, l) PROVE k <= l
    OBVIOUS
  <2>1. l \in Nat /\ Inverted(p, q, l, c)
    BY <1>1 DEF Inverted
  <2> QED BY <1>5, <1>6, <2>1
<1>9. Inverted(q, p, c, k)
  BY <1>5 DEF Inverted
<1>10. Earlier(q[k], p[c]) /\ Earlier(p[c], q[k])
  BY <1>5, <1>7, <1>8, <1>9, LeastInversion
<1>11. k \in 1 .. Len(q) /\ c \in 1 .. Len(p)
  BY <1>5 DEF Inverted
<1>12. q[k] \in E /\ p[c] \in E
  BY <1>1, <1>11
<1> QED BY <1>10, <1>12 DEF Earlier, Channel

-----------------------------------------------------------------------------
(* The projector's order *)

\* The times OrderFileKeys gives the places of a log, and what it lets follow.
TimesOf(log) == [i \in DOMAIN log |-> ExtractTimestamp(log[i], 0)]

OpenOf(log) ==
  [emitted \in SUBSET DOMAIN log |->
     {i \in DOMAIN log \ emitted :
        \A j \in DOMAIN log \ emitted : log[j].hash # ParentOf(log[i])}]

\* A place may follow when its entry is free.
LEMMA OpenIsFree ==
  ASSUME NEW E, NEW log, LogOf(E, log), NEW P \in SUBSET DOMAIN log
  PROVE  \A i \in DOMAIN log :
           i \in OpenOf(log)[P] <=> log[i] \in Free(ToSet(log), {log[j] : j \in P})
<1>1. /\ DOMAIN log = 1 .. Len(log) /\ ToSet(log) = {log[i] : i \in DOMAIN log}
      /\ \A i, j \in DOMAIN log : log[i] = log[j] => i = j
  BY LogIsSeq
<1> DEFINE Q == {log[j] : j \in P}
<1>2. \A i \in DOMAIN log : i \in P <=> log[i] \in Q
  BY <1>1
<1> TAKE i \in DOMAIN log
<1>3. OpenOf(log)[P] = {k \in DOMAIN log \ P : \A j \in DOMAIN log \ P : log[j].hash # ParentOf(log[k])}
  BY DEF OpenOf
<1> HIDE DEF Q
<1>4. (\A j \in DOMAIN log \ P : log[j].hash # ParentOf(log[i]))
        <=> (\A f \in ToSet(log) \ Q : f.hash # ParentOf(log[i]))
  BY <1>1, <1>2
<1>5. log[i] \in ToSet(log)
  BY <1>1
<1>6. i \in OpenOf(log)[P] <=> log[i] \in Free(ToSet(log), Q)
  BY <1>2, <1>3, <1>4, <1>5 DEF Free
<1> QED BY <1>6 DEF Q

\* The order of a channel's log is the canonical order of its entries.
THEOREM OrderIsCanonical ==
  ASSUME NEW E, Channel(E), NEW log, LogOf(E, log)
  PROVE  Canonical(ToSet(log), OrderFileKeys(log))
<1> DEFINE S == ToSet(log)
           D == DOMAIN log
           time == TimesOf(log)
           open == OpenOf(log)
           p == Emission(log, time, open)[Len(log)]
           o == [n \in DOMAIN p |-> log[p[n]]]
           Image(P) == {log[j] : j \in P}
<1>1. /\ Len(log) \in Nat /\ D = 1 .. Len(log) /\ S = {log[i] : i \in D} /\ S \subseteq E
      /\ \A i, j \in D : log[i] = log[j] => i = j
  BY LogIsSeq
<1>2. OrderFileKeys(log) = o
  BY DEF OrderFileKeys, KahnOrder, TimesOf, OpenOf
<1>3. Sortable(log, time, open)
  <2>1. \A i \in D : log[i] \in E
    BY <1>1
  <2>2. time \in [D -> Nat] /\ \A i \in D : log[i].hash \in Nat
    BY <2>1 DEF TimesOf, Channel
  <2>3. open \in [SUBSET D -> SUBSET D]
    BY DEF OpenOf
  <2>4. \A P \in SUBSET D : open[P] \cap P = {}
    BY DEF OpenOf
  <2> HIDE DEF time, open
  <2> QED BY <1>1, <2>2, <2>3, <2>4 DEF Sortable
<1>4. EmittedInTurn(log, time, open, p) /\ IsInjective(p) /\ open[ToSet(p)] = {}
  <2> HIDE DEF time, open
  <2> QED BY <1>3, EmissionInTurn
<1> HIDE DEF p
<1>5. /\ p \in Seq(D) /\ Len(p) \in Nat /\ DOMAIN p = 1 .. Len(p)
      /\ ToSet(p) = {p[i] : i \in 1 .. Len(p)} /\ ToSet(p) \in SUBSET D
  BY <1>4, LenProperties, ElementsOf DEF EmittedInTurn
<1>6. \A i \in D, P \in SUBSET D : i \in open[P] <=> log[i] \in Free(S, Image(P))
  BY OpenIsFree
<1>7. o \in Seq(S) /\ Len(o) = Len(p) /\ DOMAIN o = DOMAIN p
  <2>1. \A n \in 1 .. Len(p) : p[n] \in D /\ log[p[n]] \in S
    BY <1>1, <1>5
  <2>2. o \in [1 .. Len(p) -> S]
    BY <1>5, <2>1
  <2>3. o \in Seq(S)
    <3> HIDE DEF o
    <3> QED BY <1>5, <2>2, SeqDef
  <2>4. DOMAIN o = 1 .. Len(o) /\ Len(o) \in Nat
    <3> HIDE DEF o
    <3> QED BY <2>3, LenProperties
  <2>5. DOMAIN o = 1 .. Len(p)
    BY <1>5
  <2>6. Len(o) = Len(p)
    <3>1. ASSUME NEW m \in Nat, NEW n \in Nat, 1 .. m = 1 .. n PROVE m = n
      <4>1. m \in 1 .. m \/ m = 0
        OBVIOUS
      <4>2. n \in 1 .. n \/ n = 0
        OBVIOUS
      <4> QED BY <3>1, <4>1, <4>2
    <3> HIDE DEF o
    <3> QED BY ONLY <1>5, <2>4, <2>5, <3>1
  <2> QED BY <1>5, <2>3, <2>5, <2>6
<1>8. LogOf(S, o)
  <2>1. ASSUME NEW k \in DOMAIN o, NEW j \in DOMAIN o, o[k] = o[j] PROVE k = j
    <3>1. p[k] \in D /\ p[j] \in D /\ log[p[k]] = log[p[j]]
      BY <1>5, <1>7, <2>1
    <3> QED BY <1>1, <1>4, <1>7, <3>1 DEF IsInjective
  <2> HIDE DEF o
  <2> QED BY <1>7, <2>1 DEF LogOf, IsInjective
<1>9. ASSUME NEW k \in 1 .. Len(o)
      PROVE  LET done == {o[j] : j \in 1 .. k - 1}
             IN  /\ o[k] \in Free(S, done)
                 /\ \A f \in Free(S, done) \ {o[k]} : Earlier(o[k], f)
  <2> DEFINE P == {p[j] : j \in 1 .. k - 1}
             done == {o[j] : j \in 1 .. k - 1}
  <2>1. \A j \in 1 .. k - 1 : j \in DOMAIN p /\ p[j] \in D /\ o[j] = log[p[j]]
    <3>1. \A j \in 1 .. k - 1 : j \in 1 .. Len(p)
      BY <1>5, <1>7
    <3> QED BY <1>5, <3>1
  <2>2. k \in DOMAIN p /\ p[k] \in D /\ o[k] = log[p[k]]
    BY <1>5, <1>7
  <2>3. P \in SUBSET D /\ done = Image(P)
    BY ONLY <2>1
  <2>4. p[k] \in open[P] /\ \A i \in open[P] \ {p[k]} : Precedes(log, time, p[k], i)
    BY <1>4, <1>5, <2>2 DEF EmittedInTurn
  <2> HIDE DEF open, P, done, o, Image
  <2>5. o[k] \in Free(S, done)
    BY <1>6, <2>2, <2>3, <2>4
  <2>6. ASSUME NEW f \in Free(S, done), f # o[k] PROVE Earlier(o[k], f)
    <3>1. PICK i \in D : log[i] = f
      BY <1>1 DEF Free
    <3>2. i \in open[P] /\ i # p[k]
      BY <1>6, <2>2, <2>3, <2>6, <3>1
    <3>3. Precedes(log, time, p[k], i)
      BY <2>4, <3>2
    <3>4. log[i].hash # log[p[k]].hash
      <4>1. log[i] \in E /\ log[p[k]] \in E /\ log[i] # log[p[k]]
        BY <1>1, <2>2, <2>6, <3>1
      <4> QED BY <4>1 DEF Channel
    <3>5. time[i] = ExtractTimestamp(log[i], 0) /\ time[p[k]] = ExtractTimestamp(log[p[k]], 0)
      BY <2>2 DEF TimesOf
    <3> HIDE DEF time
    <3> QED BY <2>2, <3>1, <3>3, <3>4, <3>5 DEF Precedes, Earlier
  <2> QED BY <2>5, <2>6 DEF done
<1>10. Free(S, ToSet(o)) = {}
  <2>1. ToSet(o) = Image(ToSet(p))
    BY <1>5, <1>7 DEF ToSet
  <2>2. ASSUME NEW f \in Free(S, ToSet(o)) PROVE FALSE
    <3>1. PICK i \in D : log[i] = f
      BY <1>1 DEF Free
    <3> HIDE DEF open, o, Image
    <3> QED BY <1>4, <1>5, <1>6, <2>1, <3>1
  <2> QED BY <2>2
<1>11. Canonical(S, o)
  <2> HIDE DEF o, S
  <2> QED BY <1>8, <1>9, <1>10 DEF Canonical
<1> QED BY <1>2, <1>11


-----------------------------------------------------------------------------
(* Logs whose entries have come after their parents *)

\* No entry of the log has come before its parent.
Arrived(log) ==
  \A i \in 1 .. Len(log) :
    ParentOf(log[i]) # NoRef => \E j \in 1 .. i - 1 : log[j].hash = ParentOf(log[i])

\* A log that has grown and has all parents first had them first before.
LEMMA ArrivedBefore ==
  ASSUME NEW E, NEW log, LogOf(E, log), NEW e, Arrived(Append(log, e))
  PROVE  Arrived(log)
<1>1. log \in Seq(E) /\ Len(log) \in Nat
  BY LogIsSeq
<1>2. /\ Len(Append(log, e)) = Len(log) + 1
      /\ \A i \in 1 .. Len(log) : Append(log, e)[i] = log[i]
  <2>1. log \in Seq(E \cup {e})
    BY <1>1, SeqDef
  <2> QED BY <2>1, AppendProperties
<1> SUFFICES ASSUME NEW i \in 1 .. Len(log), ParentOf(log[i]) # NoRef
             PROVE  \E j \in 1 .. i - 1 : log[j].hash = ParentOf(log[i])
  BY DEF Arrived
<1>3. i \in 1 .. Len(Append(log, e)) /\ Append(log, e)[i] = log[i]
  BY <1>1, <1>2
<1>4. PICK j \in 1 .. i - 1 : Append(log, e)[j].hash = ParentOf(log[i])
  BY <1>3 DEF Arrived
<1>5. j \in 1 .. Len(log)
  BY <1>1
<1> QED BY <1>2, <1>4, <1>5

\* All of such a log, and every part of it, can be put in order.
LEMMA ArrivedIsOrdered ==
  ASSUME NEW E, Channel(E), NEW log, LogOf(E, log), Arrived(log),
         NEW S \in SUBSET ToSet(log), NEW order, Canonical(S, order)
  PROVE  ToSet(order) = S /\ Closed(ToSet(log))
<1>1. /\ Len(log) \in Nat /\ ToSet(log) = {log[i] : i \in 1 .. Len(log)} /\ ToSet(log) \subseteq E
      /\ \A i, j \in 1 .. Len(log) : log[i] = log[j] => i = j
  BY LogIsSeq
<1> DEFINE Place(e) == CHOOSE i \in 1 .. Len(log) : log[i] = e
           rank == [e \in S |-> Place(e)]
<1>2. ASSUME NEW e \in ToSet(log) PROVE Place(e) \in 1 .. Len(log) /\ log[Place(e)] = e
  BY <1>1
<1>3. \A e \in ToSet(log) : ParentOf(e) # NoRef =>
         \E j \in 1 .. Place(e) - 1 : log[j].hash = ParentOf(e)
  BY <1>2 DEF Arrived
<1> HIDE DEF Place
<1>4. ASSUME NEW e \in S, NEW f \in S, f.hash = ParentOf(e) PROVE Place(f) < Place(e)
  <2>1. f \in E /\ e \in ToSet(log) /\ f \in ToSet(log)
    BY <1>1
  <2>2. ParentOf(e) # NoRef
    BY <1>4, <2>1, MarksNotNumbers DEF Channel
  <2>3. PICK j \in 1 .. Place(e) - 1 : log[j].hash = ParentOf(e)
    BY <1>3, <2>1, <2>2
  <2>4. Place(e) \in 1 .. Len(log) /\ Place(f) \in 1 .. Len(log) /\ log[Place(f)] = f
    BY <1>2, <2>1
  <2>5. j \in 1 .. Len(log) /\ log[j] \in E
    BY <1>1, <2>3, <2>4
  <2>6. log[j] = f
    BY <1>4, <2>1, <2>3, <2>5 DEF Channel
  <2> QED BY <1>1, <2>3, <2>4, <2>5, <2>6
<1>5. rank \in [S -> Nat]
  BY <1>2
<1>6. \A e, f \in S : f.hash = ParentOf(e) => rank[f] < rank[e]
  BY <1>4
<1> HIDE DEF rank
<1>7. ToSet(order) = S
  BY <1>5, <1>6, CanonicalIsComplete
<1>8. Closed(ToSet(log))
  <2> SUFFICES ASSUME NEW e \in ToSet(log), ParentOf(e) # NoRef
               PROVE  \E f \in ToSet(log) : f.hash = ParentOf(e)
    BY DEF Closed
  <2>1. PICK j \in 1 .. Place(e) - 1 : log[j].hash = ParentOf(e)
    BY <1>3
  <2>2. j \in 1 .. Len(log)
    BY <1>1, <1>2, <2>1
  <2> QED BY <1>1, <2>1, <2>2
<1> QED BY <1>7, <1>8

-----------------------------------------------------------------------------
(* The order of whole entries *)

EntryTimesOf(log) == [i \in DOMAIN log |-> ExtractTimestamp(log[i], i - 1)]

EntryOpenOf(log) ==
  [emitted \in SUBSET DOMAIN log |->
     {i \in DOMAIN log \ emitted :
        \/ ObservedLogHeadRef(log[i]) = NoRef
        \/ \E j \in emitted : log[j].hash = ObservedLogHeadRef(log[i])
        \/ /\ IsPayloadDeclaredContentRef(log[i])
           /\ ObservedLogHeadRef(log[i]) \notin HashesOf(log)}]

\* A sort makes no entry up and has none twice.
LEMMA SortIsLog ==
  ASSUME NEW E, NEW log, LogOf(E, log), NEW time, NEW open, Sortable(log, time, open)
  PROVE  LogOf(ToSet(log), KahnOrder(log, time, open))
<1> DEFINE S == ToSet(log)
           D == DOMAIN log
           p == Emission(log, time, open)[Len(log)]
           o == [n \in DOMAIN p |-> log[p[n]]]
<1>1. D = 1 .. Len(log) /\ S = {log[i] : i \in D} /\ \A i, j \in D : log[i] = log[j] => i = j
  BY LogIsSeq
<1>2. EmittedInTurn(log, time, open, p) /\ IsInjective(p)
  BY EmissionInTurn
<1> HIDE DEF p
<1>3. p \in Seq(D) /\ Len(p) \in Nat /\ DOMAIN p = 1 .. Len(p)
  BY <1>2, LenProperties DEF EmittedInTurn
<1>4. \A n \in 1 .. Len(p) : p[n] \in D /\ log[p[n]] \in S
  BY <1>1, <1>3
<1>5. o \in Seq(S)
  <2>1. o \in [1 .. Len(p) -> S]
    BY <1>3, <1>4
  <2> HIDE DEF o
  <2> QED BY <1>3, <2>1, SeqDef
<1>6. ASSUME NEW k \in DOMAIN o, NEW j \in DOMAIN o, o[k] = o[j] PROVE k = j
  <2>1. k \in DOMAIN p /\ j \in DOMAIN p /\ p[k] \in D /\ p[j] \in D /\ log[p[k]] = log[p[j]]
    BY <1>3, <1>4, <1>6
  <2> QED BY <1>1, <1>2, <2>1 DEF IsInjective
<1>7. KahnOrder(log, time, open) = o
  BY DEF KahnOrder, p
<1> HIDE DEF o
<1> QED BY <1>5, <1>6, <1>7 DEF LogOf, IsInjective

\* The order of whole entries makes no entry up and has none twice.
LEMMA EntriesAreLog ==
  ASSUME NEW E, Channel(E), NEW log, LogOf(E, log)
  PROVE  LogOf(ToSet(log), OrderEventLogEntries(log))
<1> DEFINE D == DOMAIN log
           time == EntryTimesOf(log)
           open == EntryOpenOf(log)
<1>1. /\ Len(log) \in Nat /\ D = 1 .. Len(log) /\ \A i \in D : log[i] \in E
  BY LogIsSeq
<1>2. ASSUME NEW i \in D PROVE ExtractTimestamp(log[i], i - 1) \in Nat /\ log[i].hash \in Nat
  <2>1. ExtractTimestamp(log[i], 0) \in Nat /\ log[i].hash \in Nat
    BY <1>1 DEF Channel
  <2>2. i - 1 \in Nat
    BY <1>1
  <2> QED BY <2>1, <2>2 DEF ExtractTimestamp
<1>3. time \in [D -> Nat]
  BY <1>2 DEF EntryTimesOf
<1>4. open \in [SUBSET D -> SUBSET D] /\ \A P \in SUBSET D : open[P] \cap P = {}
  BY DEF EntryOpenOf
<1>5. Sortable(log, time, open)
  <2> HIDE DEF time, open
  <2> QED BY <1>1, <1>2, <1>3, <1>4 DEF Sortable
<1>6. OrderEventLogEntries(log) = KahnOrder(log, time, open)
  BY DEF OrderEventLogEntries, EntryTimesOf, EntryOpenOf
<1> QED BY <1>5, <1>6, SortIsLog

\* The two orders are one when every parent is there and every entry has a
\* time.
THEOREM OrdersAreOne ==
  ASSUME NEW E, Channel(E), NEW log, LogOf(E, log), Closed(ToSet(log)),
         \A e \in ToSet(log) : e.ts # NoTime
  PROVE  OrderEventLogEntries(log) = OrderFileKeys(log)
<1> DEFINE D == DOMAIN log
<1>1. /\ D = 1 .. Len(log) /\ ToSet(log) = {log[i] : i \in D} /\ \A i \in D : log[i] \in E
      /\ \A i, j \in D : log[i] = log[j] => i = j
  BY ONLY LogOf(E, log), LogIsSeq, SMTT(20)
<1>2. \A i, j \in D : log[i].hash \in Nat /\ (log[i].hash = log[j].hash => i = j)
  <2> HIDE DEF D
  <2> QED BY <1>1 DEF Channel
<1>3. EntryTimesOf(log) = TimesOf(log)
  BY <1>1 DEF EntryTimesOf, TimesOf, ExtractTimestamp
<1>4. ASSUME NEW P \in SUBSET D PROVE EntryOpenOf(log)[P] = OpenOf(log)[P]
  <2>1. /\ EntryOpenOf(log)[P] =
            {i \in D \ P : \/ ObservedLogHeadRef(log[i]) = NoRef
                           \/ \E j \in P : log[j].hash = ObservedLogHeadRef(log[i])
                           \/ /\ IsPayloadDeclaredContentRef(log[i])
                              /\ ObservedLogHeadRef(log[i]) \notin HashesOf(log)}
        /\ OpenOf(log)[P] = {i \in D \ P : \A j \in D \ P : log[j].hash # ParentOf(log[i])}
    BY DEF EntryOpenOf, OpenOf
  <2>2. ASSUME NEW i \in D \ P
        PROVE  (\/ ObservedLogHeadRef(log[i]) = NoRef
                \/ \E j \in P : log[j].hash = ObservedLogHeadRef(log[i])
                \/ /\ IsPayloadDeclaredContentRef(log[i])
                   /\ ObservedLogHeadRef(log[i]) \notin HashesOf(log))
               <=> \A j \in D \ P : log[j].hash # ParentOf(log[i])
    <3>1. CASE IsPayloadDeclaredContentRef(log[i])
      <4>1. ParentOf(log[i]) = NoRef
        BY <3>1 DEF ParentOf
      <4>2. ObservedLogHeadRef(log[i]) = OwnContent
        BY <3>1 DEF IsPayloadDeclaredContentRef, ObservedLogHeadRef, IsFileEventEntry, FileVerbs
      <4>3. OwnContent \notin HashesOf(log)
        BY <1>2, MarksNotNumbers DEF HashesOf
      <4> QED BY <1>2, <3>1, <4>1, <4>2, <4>3, MarksNotNumbers
    <3>2. CASE ~ IsPayloadDeclaredContentRef(log[i]) /\ ObservedLogHeadRef(log[i]) = NoRef
      <4>1. ParentOf(log[i]) = NoRef
        BY <3>2 DEF ParentOf
      <4> QED BY <1>2, <3>2, <4>1, MarksNotNumbers
    <3>3. CASE ~ IsPayloadDeclaredContentRef(log[i]) /\ ObservedLogHeadRef(log[i]) # NoRef
      <4>1. ParentOf(log[i]) = ObservedLogHeadRef(log[i])
        BY <3>3 DEF ParentOf
      <4>2. PICK k \in D : log[k].hash = ParentOf(log[i])
        BY <1>1, <3>3, <4>1 DEF Closed
      <4> QED BY <1>2, <3>3, <4>1, <4>2
    <3> QED BY <3>1, <3>2, <3>3
  <2> QED BY <2>1, <2>2
<1>5. EntryOpenOf(log) = OpenOf(log)
  <2>1. /\ EntryOpenOf(log) = [P \in SUBSET D |-> EntryOpenOf(log)[P]]
        /\ OpenOf(log) = [P \in SUBSET D |-> OpenOf(log)[P]]
    BY DEF EntryOpenOf, OpenOf
  <2> QED BY ONLY <1>4, <2>1
<1>6. /\ OrderEventLogEntries(log) = KahnOrder(log, EntryTimesOf(log), EntryOpenOf(log))
      /\ OrderFileKeys(log) = KahnOrder(log, TimesOf(log), OpenOf(log))
  BY DEF OrderEventLogEntries, EntryTimesOf, EntryOpenOf, OrderFileKeys, TimesOf, OpenOf
<1> QED BY ONLY <1>3, <1>5, <1>6

-----------------------------------------------------------------------------
(* Merging *)

\* The entries that are new to a log: those it does not have, each once.
LEMMA UnknownIsLog ==
  ASSUME NEW E, NEW log, NEW more, LogOf(E, more)
  PROVE  /\ LogOf(E, Unknown(log, more))
         /\ ToSet(Unknown(log, more)) = {e \in ToSet(more) : e.hash \notin HashesOf(log)}
<1> DEFINE N == Len(more)
           known == HashesOf(log)
           X == Seq(E)
           x0 == <<>>
           more1(n, s) == IF more[n].hash \in known THEN s ELSE Append(s, more[n])
           step == [n \in Nat |-> [s \in X |-> IF n \in 1 .. N THEN more1(n, s) ELSE s]]
           Solves(g) == g = [n \in 0 .. N |-> IF n = 0 THEN <<>> ELSE more1(n, g[n - 1])]
           u == CHOOSE g : Solves(g)
           Part(n) == {e \in {more[i] : i \in 1 .. n} : e.hash \notin known}
           Good(s, n) == LogOf(E, s) /\ ToSet(s) = Part(n)
<1>1. /\ N \in Nat /\ DOMAIN more = 1 .. N /\ more \in Seq(E)
      /\ ToSet(more) = {more[i] : i \in 1 .. N}
      /\ \A i, j \in 1 .. N : more[i] = more[j] => i = j
  BY LogIsSeq
<1>2. \A n \in 1 .. N, s \in X : more1(n, s) \in X
  <2> SUFFICES ASSUME NEW n \in 1 .. N, NEW s \in X PROVE Append(s, more[n]) \in X
    OBVIOUS
  <2>1. more[n] \in E
    BY <1>1
  <2> QED BY <2>1, AppendProperties
<1>3. x0 \in X /\ step \in [Nat -> [X -> X]]
  <2>1. x0 \in X
    OBVIOUS
  <2> HIDE DEF X, more1, N
  <2>2. \A n \in Nat : [s \in X |-> IF n \in 1 .. N THEN more1(n, s) ELSE s] \in [X -> X]
    BY <1>2
  <2> QED BY <2>1, <2>2
<1>4. PICK f \in [Nat -> X] : f[0] = x0 /\ \A n \in Nat : f[n + 1] = step[n + 1][f[n]]
  <2> HIDE DEF step, X, x0
  <2> QED BY ONLY <1>3, Iterates
<1>5. \E g : Solves(g)
  <2> DEFINE g == [n \in 0 .. N |-> f[n]]
  <2>1. ASSUME NEW n \in 0 .. N PROVE g[n] = IF n = 0 THEN <<>> ELSE more1(n, g[n - 1])
    <3> HIDE DEF more1, X, N
    <3>0. N \in Nat
      BY <1>1
    <3>1. CASE n = 0
      BY <1>4, <3>1
    <3>2. CASE n # 0
      <4>1. n - 1 \in Nat /\ n - 1 \in 0 .. N /\ (n - 1) + 1 = n /\ n \in 1 .. N /\ n \in Nat
        BY <3>0, <3>2
      <4>2. f[n] = step[n][f[n - 1]]
        <5> HIDE DEF step
        <5> QED BY <1>4, <4>1
      <4>3. f[n - 1] \in X
        BY <4>1
      <4>4. step[n][f[n - 1]] = more1(n, f[n - 1])
        BY ONLY <4>1, <4>3 DEF step
      <4> QED BY <3>2, <4>1, <4>2, <4>4
    <3> QED BY <3>1, <3>2
  <2>2. Solves(g)
    <3> HIDE DEF more1, N
    <3> QED BY <2>1
  <2> HIDE DEF g, Solves
  <2> QED BY <2>2
<1>6. Solves(u)
  <2> HIDE DEF Solves
  <2> QED BY <1>5
<1>7. u[0] = <<>> /\ \A n \in Nat : n < N => u[n + 1] = more1(n + 1, u[n])
  <2> HIDE DEF more1, u, N
  <2>0. N \in Nat
    BY <1>1
  <2>1. u[0] = <<>>
    BY <1>6, <2>0
  <2>2. ASSUME NEW n \in Nat, n < N PROVE u[n + 1] = more1(n + 1, u[n])
    <3>1. n + 1 \in 0 .. N /\ n + 1 # 0 /\ (n + 1) - 1 = n
      BY <2>0, <2>2
    <3> QED BY <1>6, <3>1
  <2> QED BY <2>1, <2>2
<1> HIDE DEF u
<1>8. ASSUME NEW n \in Nat, n < N, NEW s, Good(s, n) PROVE Good(more1(n + 1, s), n + 1)
  <2> DEFINE e == more[n + 1]
             t == Append(s, e)
  <2>1. n + 1 \in 1 .. N /\ e \in E
    BY <1>1, <1>8
  <2>2. {more[i] : i \in 1 .. n + 1} = {more[i] : i \in 1 .. n} \cup {e}
    <3>1. 1 .. n + 1 = (1 .. n) \cup {n + 1}
      BY ONLY n \in Nat
    <3> QED BY ONLY <3>1
  <2>3. CASE e.hash \in known
    <3>1. Part(n + 1) = Part(n)
      BY <2>2, <2>3
    <3> QED BY <1>8, <2>3, <3>1
  <2>4. CASE e.hash \notin known
    <3>1. Part(n + 1) = Part(n) \cup {e}
      BY <2>2, <2>4
    <3>2. /\ s \in Seq(E) /\ Len(s) \in Nat /\ DOMAIN s = 1 .. Len(s)
          /\ \A i, j \in 1 .. Len(s) : s[i] = s[j] => i = j
      <4>1. LogOf(E, s)
        BY <1>8
      <4> QED BY ONLY <4>1, LogIsSeq
    <3>3. Len(s) \in Nat
      BY <3>2
    <3>4. ToSet(t) = ToSet(s) \cup {e}
      <4> HIDE DEF e
      <4> QED BY <2>1, <3>2, ElementsOf
    <3>5. /\ t \in Seq(E) /\ Len(t) = Len(s) + 1 /\ t[Len(s) + 1] = e
          /\ \A i \in 1 .. Len(s) : t[i] = s[i]
      <4> HIDE DEF e
      <4> QED BY <2>1, <3>2, AppendProperties
    <3>6. e \notin ToSet(s)
      <4>1. \A i \in 1 .. n : more[i] # e
        BY <1>1, <1>8, <2>1
      <4>2. e \notin Part(n)
        BY <4>1
      <4> QED BY <1>8, <4>2
    <3>7. \A i \in 1 .. Len(s) : s[i] # e
      BY <3>2, <3>6 DEF ToSet
    <3> HIDE DEF t, e
    <3>8. DOMAIN t = 1 .. Len(s) + 1
      BY <3>5, LenProperties
    <3>9. \A m \in Nat : \A i \in 1 .. m + 1 : i \in 1 .. m \/ i = m + 1
      OBVIOUS
    <3>10. IsInjective(t)
      <4> SUFFICES ASSUME NEW i \in 1 .. Len(s) + 1, NEW j \in 1 .. Len(s) + 1, t[i] = t[j]
                   PROVE  i = j
        BY <3>8 DEF IsInjective
      <4>1. i \in 1 .. Len(s) \/ i = Len(s) + 1
        BY ONLY <3>3, <3>9, i \in 1 .. Len(s) + 1
      <4>2. j \in 1 .. Len(s) \/ j = Len(s) + 1
        BY ONLY <3>3, <3>9, j \in 1 .. Len(s) + 1
      <4> QED BY <3>2, <3>5, <3>7, <4>1, <4>2
    <3>11. Good(t, n + 1)
      BY <1>8, <3>1, <3>4, <3>5, <3>10 DEF LogOf
    <3> QED BY <2>4, <3>11 DEF t, e
  <2> QED BY <2>3, <2>4
<1>9. \A n \in Nat : n <= N => Good(u[n], n)
  <2> DEFINE S == {n \in Nat : n <= N => Good(u[n], n)}
  <2>1. 0 \in S
    <3>1. LogOf(E, <<>>)
      BY DEF LogOf, IsInjective
    <3>2. ToSet(<<>>) = {} /\ Part(0) = {}
      BY DEF ToSet
    <3> QED BY <1>7, <3>1, <3>2
  <2>2. ASSUME NEW n \in S PROVE n + 1 \in S
    <3>1. n \in Nat /\ n + 1 \in Nat
      OBVIOUS
    <3>2. ASSUME n + 1 <= N PROVE Good(u[n + 1], n + 1)
      <4>1. n <= N /\ n < N
        <5>1. N \in Nat
          BY <1>1
        <5> HIDE DEF S, N, Good
        <5> QED BY ONLY <3>1, <3>2, <5>1
      <4>2. Good(u[n], n) /\ u[n + 1] = more1(n + 1, u[n])
        <5> HIDE DEF Good, more1, N
        <5> QED BY <1>7, <3>1, <4>1
      <4> HIDE DEF Good, more1, N
      <4> QED BY <1>8, <3>1, <4>1, <4>2
    <3> HIDE DEF Good, N
    <3> QED BY <3>1, <3>2
  <2>3. S = Nat
    <3>1. S \in SUBSET Nat
      <4> HIDE DEF Good, N
      <4> QED OBVIOUS
    <3> HIDE DEF S
    <3> QED BY <2>1, <2>2, <3>1, NatsByStep
  <2> HIDE DEF Good, N
  <2> QED BY <2>3
<1>10. Unknown(log, more) = u[N]
  BY DEF Unknown, u
<1>11. Good(u[N], N)
  <2> HIDE DEF Good, N
  <2> QED BY <1>1, <1>9
<1>12. Part(N) = {e \in ToSet(more) : e.hash \notin known}
  BY <1>1
<1> HIDE DEF N, Part, known
<1> QED BY <1>10, <1>11, <1>12 DEF known


\* A log and what is new to it make a log of all.
LEMMA MergedIsLog ==
  ASSUME NEW E, Channel(E), NEW prev, LogOf(E, prev), NEW more, LogOf(E, more)
  PROVE  /\ LogOf(E, prev \o Unknown(prev, more))
         /\ ToSet(prev \o Unknown(prev, more)) = ToSet(prev) \cup ToSet(more)
<1> DEFINE new == Unknown(prev, more)
           t == prev \o new
<1>1. /\ prev \in Seq(E) /\ Len(prev) \in Nat /\ DOMAIN prev = 1 .. Len(prev)
      /\ ToSet(prev) = {prev[i] : i \in 1 .. Len(prev)} /\ ToSet(prev) \subseteq E
      /\ \A i, j \in 1 .. Len(prev) : prev[i] = prev[j] => i = j
  BY LogIsSeq
<1>2. ToSet(more) \subseteq E
  BY LogIsSeq
<1>3. LogOf(E, new) /\ ToSet(new) = {e \in ToSet(more) : e.hash \notin HashesOf(prev)}
  BY UnknownIsLog
<1> HIDE DEF new
<1>4. /\ new \in Seq(E) /\ Len(new) \in Nat
      /\ ToSet(new) = {new[i] : i \in 1 .. Len(new)}
      /\ \A i, j \in 1 .. Len(new) : new[i] = new[j] => i = j
  BY <1>3, LogIsSeq
<1>5. /\ t \in Seq(E) /\ Len(t) = Len(prev) + Len(new)
      /\ \A i \in 1 .. Len(prev) + Len(new) :
           t[i] = IF i <= Len(prev) THEN prev[i] ELSE new[i - Len(prev)]
  BY <1>1, <1>4, ConcatProperties
<1> HIDE DEF t
<1>6. DOMAIN t = 1 .. Len(t)
  BY <1>5, LenProperties
<1>7. HashesOf(prev) = {e.hash : e \in ToSet(prev)}
  BY <1>1 DEF HashesOf
<1>8. ToSet(prev) \cap ToSet(new) = {}
  BY <1>3, <1>7
<1>9. ToSet(t) = ToSet(prev) \cup ToSet(new)
  <2>1. ASSUME NEW i \in 1 .. Len(t) PROVE t[i] \in ToSet(prev) \cup ToSet(new)
    <3>1. CASE i <= Len(prev)
      BY <1>1, <1>5, <3>1
    <3>2. CASE ~ (i <= Len(prev))
      <4>1. i - Len(prev) \in 1 .. Len(new) /\ i \in 1 .. Len(prev) + Len(new)
        BY <1>1, <1>4, <1>5, <3>2
      <4> QED BY <1>4, <1>5, <3>2, <4>1
    <3> QED BY <3>1, <3>2
  <2>2. ASSUME NEW i \in 1 .. Len(prev) PROVE i \in 1 .. Len(t) /\ t[i] = prev[i]
    BY <1>1, <1>4, <1>5
  <2>3. ASSUME NEW i \in 1 .. Len(new) PROVE \E j \in 1 .. Len(t) : t[j] = new[i]
    <3>1. i + Len(prev) \in 1 .. Len(t) /\ (i + Len(prev)) - Len(prev) = i /\ ~ (i + Len(prev) <= Len(prev))
      <4>1. Len(prev) \in Nat /\ Len(new) \in Nat /\ Len(t) = Len(prev) + Len(new)
        BY <1>1, <1>4, <1>5
      <4> QED BY ONLY <2>3, <4>1
    <3> QED BY <1>5, <3>1
  <2>4. ToSet(t) = {t[i] : i \in 1 .. Len(t)}
    BY <1>6 DEF ToSet
  <2>5. ASSUME NEW x \in ToSet(t) PROVE x \in ToSet(prev) \cup ToSet(new)
    BY ONLY <2>1, <2>4
  <2>6. ASSUME NEW x \in ToSet(prev) PROVE x \in ToSet(t)
    <3>1. PICK i \in 1 .. Len(prev) : prev[i] = x
      BY <1>1
    <3> QED BY ONLY <2>2, <2>4, <3>1
  <2>7. ASSUME NEW x \in ToSet(new) PROVE x \in ToSet(t)
    <3>1. PICK i \in 1 .. Len(new) : new[i] = x
      BY <1>4
    <3> QED BY ONLY <2>3, <2>4, <3>1
  <2> QED BY ONLY <2>5, <2>6, <2>7
<1>10. ToSet(t) = ToSet(prev) \cup ToSet(more)
  <2>1. ASSUME NEW e \in ToSet(more), e.hash \in HashesOf(prev) PROVE e \in ToSet(prev)
    <3>1. PICK f \in ToSet(prev) : f.hash = e.hash
      BY <1>7, <2>1
    <3> QED BY <1>1, <1>2, <3>1 DEF Channel
  <2> QED BY <1>3, <1>9, <2>1
<1>11. IsInjective(t)
  <2> SUFFICES ASSUME NEW i \in 1 .. Len(t), NEW j \in 1 .. Len(t), t[i] = t[j]
               PROVE  i = j
    BY <1>6 DEF IsInjective
  <2> DEFINE a == i - Len(prev)
             b == j - Len(prev)
  <2>1. \/ i \in 1 .. Len(prev) /\ t[i] = prev[i]
        \/ a \in 1 .. Len(new) /\ t[i] = new[a]
    BY ONLY <1>1, <1>4, <1>5, i \in 1 .. Len(t)
  <2>2. \/ j \in 1 .. Len(prev) /\ t[j] = prev[j]
        \/ b \in 1 .. Len(new) /\ t[j] = new[b]
    BY ONLY <1>1, <1>4, <1>5, j \in 1 .. Len(t)
  <2>3. \A k \in 1 .. Len(prev), m \in 1 .. Len(new) : prev[k] # new[m]
    BY <1>1, <1>4, <1>8
  <2>4. a = b => i = j
    BY <1>1, <1>5
  <2> HIDE DEF a, b
  <2> QED BY <1>1, <1>4, <2>1, <2>2, <2>3, <2>4
<1> QED BY <1>5, <1>10, <1>11 DEF LogOf, t, new

\* The projector's merge puts all entries into their canonical order.
LEMMA ReorderIsCanonical ==
  ASSUME NEW E, Channel(E), NEW prev, LogOf(E, prev), NEW more, LogOf(E, more)
  PROVE  Canonical(ToSet(prev) \cup ToSet(more), Reorder(prev, more).keys)
<1>1. Reorder(prev, more).keys = OrderFileKeys(prev \o Unknown(prev, more))
  BY DEF Reorder
<1> QED BY <1>1, MergedIsLog, OrderIsCanonical

\* insertAt leaves out what has moved: the front of the old order up to there
\* and the new order from there on are the new order.
LEMMA ReorderKeepsFront ==
  ASSUME NEW E, Channel(E), NEW prev, LogOf(E, prev), NEW more, LogOf(E, more)
  PROVE  LET r == Reorder(prev, more)
         IN  /\ SubSeq(prev, 1, r.insertAt) \o SubSeq(r.keys, r.insertAt + 1, Len(r.keys)) = r.keys
             /\ r.insertAt \in 0 .. Len(r.keys)
             /\ SubSeq(prev, 1, r.insertAt) = SubSeq(r.keys, 1, r.insertAt)
<1> DEFINE r == Reorder(prev, more)
           k == r.keys
           n == r.insertAt
           moved == {i \in DOMAIN k : i > Len(prev) \/ k[i].hash # prev[i].hash}
<1>1. n = IF moved = {} THEN Len(k) ELSE Min(moved) - 1
  BY DEF Reorder
<1>2. LogOf(ToSet(prev) \cup ToSet(more), k)
  BY ReorderIsCanonical DEF Canonical
<1> HIDE DEF r
<1>3. /\ k \in Seq(ToSet(prev) \cup ToSet(more)) /\ Len(k) \in Nat /\ DOMAIN k = 1 .. Len(k)
  BY <1>2, LogIsSeq
<1>4. /\ prev \in Seq(E) /\ Len(prev) \in Nat /\ ToSet(prev) \subseteq E /\ ToSet(more) \subseteq E
  BY LogIsSeq
<1> HIDE DEF n, k
<1>5. n \in 0 .. Len(k) /\ \A i \in 1 .. n : i \notin moved
  <2>1. CASE moved = {}
    BY <1>1, <1>3, <2>1
  <2>2. CASE moved # {}
    <3>1. moved \in SUBSET Nat
      BY <1>3
    <3> HIDE DEF moved
    <3>2. \E m \in moved : \A i \in moved : m <= i
      BY <2>2, <3>1, NatLeast
    <3>3. Min(moved) \in moved /\ \A i \in moved : Min(moved) <= i
      BY <3>2 DEF Min
    <3>4. Min(moved) \in 1 .. Len(k)
      BY <1>3, <3>3 DEF moved
    <3>5. n = Min(moved) - 1
      BY <1>1, <2>2
    <3> QED BY <1>3, <3>1, <3>3, <3>4, <3>5
  <2> QED BY <2>1, <2>2
<1>6. ASSUME NEW i \in 1 .. n PROVE i \in 1 .. Len(prev) /\ prev[i] = k[i]
  <2>1. i \in DOMAIN k /\ i \notin moved
    BY <1>3, <1>5
  <2>2. i <= Len(prev) /\ k[i].hash = prev[i].hash
    BY <1>3, <1>4, <2>1
  <2>3. k[i] \in E /\ prev[i] \in E
    BY <1>3, <1>4, <2>1, <2>2
  <2> QED BY <1>5, <2>2, <2>3 DEF Channel
<1>7. SubSeq(prev, 1, n) = SubSeq(k, 1, n)
  <2>1. n \in Nat /\ n \in Int /\ 1 \in Int
    BY <1>3, <1>5
  <2>2. \A i \in 1 .. n : prev[i] \in E /\ k[i] \in E
    BY <1>4, <1>6
  <2>3. /\ SubSeq(prev, 1, n) \in Seq(E) /\ SubSeq(k, 1, n) \in Seq(E)
        /\ Len(SubSeq(prev, 1, n)) = n /\ Len(SubSeq(k, 1, n)) = n
        /\ \A i \in 1 .. n : SubSeq(prev, 1, n)[i] = prev[i] /\ SubSeq(k, 1, n)[i] = k[i]
    BY <2>1, <2>2, SubSeqProperties
  <2> QED BY <1>6, <2>3, SeqEqual
<1>8. SubSeq(k, 1, n) \o SubSeq(k, n + 1, Len(k)) = k
  <2>1. SubSeq(k, 1, n) \o SubSeq(k, n + 1, Len(k)) = SubSeq(k, 1, Len(k))
    <3>1. 1 \in 1 .. Len(k) + 1 /\ n \in 1 - 1 .. Len(k) /\ Len(k) \in n .. Len(k)
      BY <1>3, <1>5
    <3> QED BY ONLY <1>3, <3>1, ConcatAdjacentSubSeq
  <2> QED BY <1>3, <2>1, SubSeqFull
<1> QED BY <1>5, <1>7, <1>8 DEF r, k, n

-----------------------------------------------------------------------------
(* Writing on an order *)

\* What an event written on an order names: the last FILES event of it.
LEMMA HeadIsLast ==
  ASSUME NEW E, Channel(E), NEW log, LogOf(E, log), NEW entry,
         entry.ref = FirstRef(entry.verb, log)
  PROVE  /\ ParentOf(entry) # NoRef =>
              \E f \in ToSet(log) : f.hash = ParentOf(entry) /\ IsFileEventEntry(f)
         /\ IsFileEventEntry(entry) =>
              \A f \in ToSet(log) : IsFileEventEntry(f) =>
                \E i, m \in 1 .. Len(log) :
                  i <= m /\ log[i] = f /\ log[m].hash = ParentOf(entry)
<1>1. /\ Len(log) \in Nat /\ DOMAIN log = 1 .. Len(log) /\ ToSet(log) \subseteq E
      /\ ToSet(log) = {log[i] : i \in 1 .. Len(log)}
  BY LogIsSeq
<1> DEFINE places == {i \in DOMAIN log : IsFileEventEntry(log[i])}
           head == ObservedLogHeadFromOrdered(log)
<1>2. head = IF places = {} THEN NoRef ELSE log[Max(places)].hash
  BY DEF ObservedLogHeadFromOrdered
<1>3. ParentOf(entry) \in {NoRef, head}
  BY DEF ParentOf, IsPayloadDeclaredContentRef, ObservedLogHeadRef, IsFileEventEntry, FirstRef
<1>4. ASSUME places # {}
      PROVE  /\ Max(places) \in 1 .. Len(log) /\ head = log[Max(places)].hash
             /\ IsFileEventEntry(log[Max(places)])
             /\ \A i \in places : i <= Max(places)
  <2>1. places \in SUBSET (1 .. Len(log)) /\ places \in SUBSET (0 .. Len(log))
    BY <1>1
  <2> HIDE DEF places
  <2>2. Max(places) \in places /\ \A n \in places : n <= Max(places)
    BY <1>1, <1>4, <2>1, NatLast
  <2>3. \A n \in places : IsFileEventEntry(log[n])
    BY DEF places
  <2> QED BY <1>2, <1>4, <2>1, <2>2, <2>3
<1>5. ASSUME places # {}, IsFileEventEntry(entry) PROVE ParentOf(entry) = head
  <2>1. log[Max(places)] \in E
    BY <1>1, <1>4, <1>5
  <2>2. head \in Nat
    BY <1>4, <1>5, <2>1 DEF Channel
  <2>3. head # NoRef /\ head # OwnContent
    BY <2>2, MarksNotNumbers
  <2>4. entry.ref = head
    BY <1>5, <2>3 DEF FirstRef, IsFileEventEntry
  <2> QED BY <1>5, <2>3, <2>4 DEF ParentOf, IsPayloadDeclaredContentRef, ObservedLogHeadRef
<1>6. ASSUME ParentOf(entry) # NoRef
      PROVE  \E f \in ToSet(log) : f.hash = ParentOf(entry) /\ IsFileEventEntry(f)
  <2>1. places # {} /\ ParentOf(entry) = head
    BY <1>2, <1>3, <1>6
  <2> QED BY <1>1, <1>4, <2>1
<1>7. ASSUME IsFileEventEntry(entry), NEW f \in ToSet(log), IsFileEventEntry(f)
      PROVE  \E i, m \in 1 .. Len(log) : i <= m /\ log[i] = f /\ log[m].hash = ParentOf(entry)
  <2>1. PICK i \in 1 .. Len(log) : log[i] = f
    BY <1>1, <1>7
  <2>2. i \in places
    BY <1>1, <1>7, <2>1
  <2> QED BY <1>4, <1>5, <1>7, <2>1, <2>2
<1> QED BY <1>6, <1>7

\* Two views of a storage that have two events have them in the same order.
LEMMA AgreeOnBefore ==
  ASSUME NEW E, Channel(E), NEW p, ViewOf(E, p), NEW q, ViewOf(E, q),
         NEW g \in HashesOf(q), NEW h \in HashesOf(q), Before(p, g, h)
  PROVE  Before(q, g, h)
<1>1. PICK i \in DOMAIN p, j \in DOMAIN p : i < j /\ p[i].hash = g /\ p[j].hash = h
  BY DEF Before
<1>2. PICK a \in DOMAIN q, b \in DOMAIN q : q[a].hash = g /\ q[b].hash = h
  BY DEF HashesOf
<1>3. /\ DOMAIN p = 1 .. Len(p) /\ DOMAIN q = 1 .. Len(q)
      /\ \A n \in DOMAIN p : p[n] \in E
      /\ \A n \in DOMAIN q : q[n] \in E
  <2>1. LogOf(ToSet(p), p) /\ LogOf(ToSet(q), q) /\ ToSet(p) \subseteq E /\ ToSet(q) \subseteq E
    BY DEF ViewOf, Canonical
  <2>2. \A s : LogOf(E, s) => DOMAIN s = 1 .. Len(s) /\ \A n \in DOMAIN s : s[n] \in E
    BY LogIsSeq
  <2>3. LogOf(E, p) /\ LogOf(E, q)
    BY <2>1, LogOfMore
  <2> QED BY <2>2, <2>3
<1>4. q[a] = p[i] /\ q[b] = p[j]
  BY <1>1, <1>2, <1>3 DEF Channel
<1>5. a < b
  BY <1>1, <1>2, <1>3, <1>4, ViewsAgree
<1> QED BY <1>2, <1>5 DEF Before

\* Where an event is in order with one its writer had put in order, it comes
\* after it: the writer's order q has f no later than the parent of e, another
\* order has both as q has them, and the parent before e.
LEMMA FollowsItsView ==
  ASSUME NEW E, Channel(E), NEW p, ViewOf(E, p), NEW q, ViewOf(E, q),
         NEW e \in ToSet(p), NEW f \in ToSet(p),
         NEW i \in 1 .. Len(q), NEW m \in 1 .. Len(q),
         i <= m, q[i] = f, q[m].hash = ParentOf(e)
  PROVE  Before(p, f.hash, e.hash)
<1>1. /\ LogOf(ToSet(p), p) /\ Canonical(ToSet(p), p) /\ ToSet(p) \subseteq E
      /\ LogOf(ToSet(q), q) /\ ToSet(q) \subseteq E
  BY DEF ViewOf, Canonical
<1>2. /\ Len(p) \in Nat /\ DOMAIN p = 1 .. Len(p) /\ ToSet(p) = {p[k] : k \in 1 .. Len(p)}
      /\ ToSet(p) \subseteq E
  BY ONLY <1>1, LogIsSeq
<1>3. Len(q) \in Nat /\ ToSet(q) \subseteq E /\ ToSet(q) = {q[k] : k \in 1 .. Len(q)}
  BY ONLY <1>1, LogIsSeq
<1>4. q[m] \in E
  BY <1>3
<1>5. q[m] \in ToSet(p)
  <2>1. ParentOf(e) # NoRef
    BY <1>4, MarksNotNumbers DEF Channel
  <2>2. PICK x \in ToSet(p) : x.hash = ParentOf(e)
    BY <2>1 DEF ViewOf, Closed
  <2> QED BY <1>2, <1>4, <2>2 DEF Channel
<1>6. PICK k \in 1 .. Len(p) : p[k] = e
  BY <1>2
<1>7. PICK b \in 1 .. k - 1 : p[b] = q[m]
  BY <1>1, <1>5, <1>6, ParentsFirst
<1>8. b \in 1 .. Len(p) /\ b < k
  BY <1>2, <1>7
<1>9. PICK a \in 1 .. Len(p) : p[a] = f
  BY <1>2
<1>10. \E c \in 1 .. Len(p) : c < k /\ p[c] = f
  <2>1. CASE i = m
    BY <1>7, <1>8, <2>1
  <2>2. CASE i < m
    <3>1. a < b
      BY <1>7, <1>8, <1>9, <2>2, ViewsAgree
    <3> QED BY <1>8, <1>9, <3>1
  <2> QED BY <1>3, <2>1, <2>2
<1> QED BY <1>2, <1>6, <1>10 DEF Before

\* An event written on a view comes last in its order: it follows the head,
\* which was last, and nothing else has moved.
LEMMA WrittenLast ==
  ASSUME NEW E, Channel(E), NEW q, ViewOf(E, q), NEW e \in E, e \notin ToSet(q),
         \A f \in ToSet(q) : IsFileEventEntry(f) /\ f.hash \in Nat,
         IsFileEventEntry(e), e.ref = FirstRef(e.verb, q)
  PROVE  ViewOf(E, Append(q, e)) /\ ToSet(Append(q, e)) = ToSet(q) \cup {e}
<1> DEFINE S == ToSet(q)
           T == S \cup {e}
           N == Len(q)
           r == Append(q, e)
<1>1. /\ LogOf(S, q) /\ S \subseteq E /\ Closed(S) /\ Canonical(S, q)
      /\ N \in Nat /\ q \in Seq(S) /\ DOMAIN q = 1 .. N
      /\ \A i, j \in 1 .. N : q[i] = q[j] => i = j
      /\ S = {q[i] : i \in 1 .. N}
  BY LogIsSeq DEF ViewOf, Canonical
<1> HIDE DEF S
<1>2. LogOf(T, r) /\ ToSet(r) = T
  BY <1>1, LogOfMore, LogOfAppend DEF S
<1>3. /\ Len(r) = N + 1 /\ r[N + 1] = e
      /\ \A i \in 1 .. N : r[i] = q[i]
  BY <1>1
<1> HIDE DEF r
<1>4. N > 0 => ParentOf(e) = q[N].hash
  <2> SUFFICES ASSUME N > 0 PROVE ParentOf(e) = q[N].hash
    OBVIOUS
  <2> DEFINE places == {i \in DOMAIN q : IsFileEventEntry(q[i])}
  <2>1. places = 1 .. N
    BY <1>1 DEF S
  <2>2. Max(places) = N
    <3>1. places \in SUBSET (0 .. N) /\ places # {} /\ N \in places
      BY <1>1, <2>1
    <3>2. Max(places) \in places /\ N <= Max(places)
      BY <1>1, <3>1, NatLast
    <3> QED BY <1>1, <2>1, <3>2
  <2>3. ObservedLogHeadFromOrdered(q) = q[N].hash
    <3>1. places # {}
      BY <1>1, <2>1
    <3>2. ObservedLogHeadFromOrdered(q) = IF places = {} THEN NoRef ELSE q[Max(places)].hash
      BY DEF ObservedLogHeadFromOrdered
    <3> HIDE DEF places
    <3> QED BY <2>2, <3>1, <3>2
  <2>4. q[N].hash \in Nat /\ q[N].hash # NoRef /\ q[N].hash # OwnContent
    BY <1>1, MarksNotNumbers DEF S
  <2>5. e.ref = q[N].hash
    BY <2>3, <2>4 DEF FirstRef, IsFileEventEntry
  <2> QED BY <2>4, <2>5 DEF ParentOf, ObservedLogHeadRef, IsPayloadDeclaredContentRef
<1>5. Closed(T)
  <2>1. N = 0 => ParentOf(e) = NoRef
    <3> SUFFICES ASSUME N = 0 PROVE ParentOf(e) = NoRef
      OBVIOUS
    <3>1. ObservedLogHeadFromOrdered(q) = NoRef
      BY <1>1 DEF ObservedLogHeadFromOrdered
    <3> QED
      BY <3>1 DEF FirstRef, ParentOf, ObservedLogHeadRef, IsPayloadDeclaredContentRef,
                  IsFileEventEntry
  <2>2. N > 0 => \E f \in S : f.hash = ParentOf(e)
    BY <1>1, <1>4
  <2>3. N = 0 \/ N > 0
    BY <1>1
  <2> QED BY <1>1, <2>1, <2>2, <2>3 DEF Closed
<1>6. ASSUME NEW k \in 1 .. N
      PROVE  LET done == {r[j] : j \in 1 .. k - 1}
             IN  /\ r[k] \in Free(T, done)
                 /\ \A f \in Free(T, done) \ {r[k]} : Earlier(r[k], f)
  <2> DEFINE done == {q[j] : j \in 1 .. k - 1}
  <2>1. done = {r[j] : j \in 1 .. k - 1} /\ r[k] = q[k]
    BY <1>1, <1>3
  <2>2. q[k] \in Free(S, done) /\ \A f \in Free(S, done) \ {q[k]} : Earlier(q[k], f)
    BY <1>1 DEF Canonical
  <2>3. e \notin S /\ e \notin done /\ q[N] \in S /\ q[N] \notin done
    BY <1>1 DEF S
  <2>4. \A f \in S : e.hash # ParentOf(f)
    <3> SUFFICES ASSUME NEW f \in S, e.hash = ParentOf(f) PROVE FALSE
      OBVIOUS
    <3>1. ParentOf(f) # NoRef \/ ParentOf(f) = NoRef
      OBVIOUS
    <3>2. e.hash \in Nat
      BY DEF Channel
    <3>3. PICK g \in S : g.hash = ParentOf(f)
      BY <1>1, <3>2, MarksNotNumbers DEF Closed
    <3>4. g = e
      BY <1>1, <3>3 DEF Channel
    <3> QED BY <2>3, <3>4
  <2>5. e \notin Free(T, done)
    <3>1. N > 0
      BY <1>1
    <3> QED BY <1>4, <2>3, <3>1 DEF Free
  <2> HIDE DEF done
  <2>6. Free(T, done) = Free(S, done)
    BY <2>3, <2>4, <2>5 DEF Free
  <2> QED BY <2>1, <2>2, <2>6
<1>7. LET done == {r[j] : j \in 1 .. (N + 1) - 1}
      IN  /\ r[N + 1] \in Free(T, done)
          /\ \A f \in Free(T, done) \ {r[N + 1]} : Earlier(r[N + 1], f)
  <2>1. {r[j] : j \in 1 .. (N + 1) - 1} = S
    BY <1>1, <1>3
  <2>2. Free(T, S) \subseteq {e}
    BY DEF Free
  <2>3. e \in Free(T, S)
    <3>1. e.hash # ParentOf(e)
      <4>1. N = 0 \/ N > 0
        BY <1>1
      <4>2. CASE N = 0
        <5>1. ParentOf(e) = NoRef \/ \E f \in T : f.hash = ParentOf(e)
          BY <1>5 DEF Closed
        <5>2. ObservedLogHeadFromOrdered(q) = NoRef
          BY <1>1, <4>2 DEF ObservedLogHeadFromOrdered
        <5>3. ParentOf(e) = NoRef
          BY <5>2 DEF FirstRef, ParentOf, ObservedLogHeadRef, IsPayloadDeclaredContentRef,
                      IsFileEventEntry
        <5> QED BY <5>3, MarksNotNumbers DEF Channel
      <4>3. CASE N > 0
        <5>1. q[N] \in S /\ q[N].hash = ParentOf(e)
          BY <1>1, <1>4, <4>3
        <5> QED BY <1>1, <5>1 DEF Channel, S
      <4> QED BY <4>1, <4>2, <4>3
    <3> QED BY <3>1 DEF Free, S
  <2> QED BY <1>3, <2>1, <2>2, <2>3
<1>8. Free(T, ToSet(r)) = {}
  BY <1>2 DEF Free
<1>9. Canonical(T, r)
  <2>1. \A k \in 1 .. Len(r) : k \in 1 .. N \/ k = N + 1
    BY <1>1, <1>3
  <2> QED BY <1>2, <1>6, <1>7, <1>8, <2>1 DEF Canonical
<1>10. T \subseteq E
  BY <1>1
<1> QED BY <1>2, <1>5, <1>9, <1>10 DEF ViewOf, S, r

\* A log has a latest time.
LEMMA LatestIsTime ==
  ASSUME NEW E, NEW log \in Seq(E), \A e \in E : e.ts \in Nat
  PROVE  LatestTime(log) \in Nat /\ \A i \in DOMAIN log : log[i].ts <= LatestTime(log)
<1> DEFINE N == Len(log)
           Bound(n) == \E b \in Nat : \A i \in 1 .. n : log[i].ts <= b
           Bounded == {n \in Nat : n <= N => Bound(n)}
           times == {0} \cup {log[i].ts : i \in DOMAIN log}
<1>1. N \in Nat /\ DOMAIN log = 1 .. N /\ \A i \in 1 .. N : log[i].ts \in Nat
  BY LenProperties
<1> HIDE DEF N
<1>2. Bound(0)
  OBVIOUS
<1>3. ASSUME NEW n \in Nat, n + 1 <= N, Bound(n) PROVE Bound(n + 1)
  <2>1. PICK b \in Nat : \A i \in 1 .. n : log[i].ts <= b
    BY <1>3
  <2>2. n + 1 \in 1 .. N /\ log[n + 1].ts \in Nat /\ b + log[n + 1].ts \in Nat
    BY <1>1, <1>3
  <2>3. \A i \in 1 .. n + 1 : i \in 1 .. N /\ (i \in 1 .. n \/ i = n + 1)
    BY <1>1, <1>3
  <2>4. \A i \in 1 .. n + 1 : log[i].ts <= b + log[n + 1].ts
    BY <1>1, <2>1, <2>2, <2>3
  <2> QED BY <2>2, <2>4
<1> HIDE DEF Bound
<1>4. Bounded = Nat
  <2>1. Bounded \in SUBSET Nat /\ 0 \in Bounded
    BY <1>2
  <2>2. ASSUME NEW n \in Bounded PROVE n + 1 \in Bounded
    <3>1. n \in Nat /\ n + 1 \in Nat /\ (n <= N => Bound(n))
      OBVIOUS
    <3>2. n + 1 <= N => n <= N
      BY <1>1, <3>1
    <3> QED BY <1>3, <3>1, <3>2
  <2> HIDE DEF Bounded
  <2> QED BY <2>1, <2>2, NatsByStep
<1>5. Bound(N)
  <2>1. N \in Bounded
    <3> HIDE DEF Bounded
    <3> QED BY <1>1, <1>4
  <2> QED BY <1>1, <2>1
<1>6. PICK b \in Nat : \A i \in 1 .. N : log[i].ts <= b
  BY <1>5 DEF Bound
<1>7. times \in SUBSET (0 .. b) /\ times # {} /\ 0 .. b \subseteq Nat
  BY <1>1, <1>6
<1>8. LatestTime(log) = Max(times)
  BY DEF LatestTime
<1>9. \A i \in DOMAIN log : log[i].ts \in times
  OBVIOUS
<1> HIDE DEF times
<1>10. Max(times) \in times /\ times \subseteq Nat /\ \A t \in times : t <= Max(times)
  BY <1>7, NatLast
<1> QED BY <1>8, <1>9, <1>10

\* The time of a new event is one.
LEMMA EventTimeIsTime ==
  ASSUME NEW E, NEW log \in Seq(E), \A e \in E : e.ts \in Nat, NEW verb, NEW now \in Nat
  PROVE  EventTime(verb, now, log) \in Nat
<1> DEFINE later == LatestTime(log) + 1
<1>1. later \in Nat
  BY LatestIsTime
<1> HIDE DEF later
<1>2. {now, later} \in SUBSET (0 .. now + later) /\ {now, later} # {} /\ now + later \in Nat
  BY <1>1
<1>3. Max({now, later}) \in {now, later}
  BY <1>2, NatLast
<1> QED BY <1>1, <1>3 DEF EventTime, TimeAfter, later

\* An entry that comes after its parent.
LEMMA ArrivedAfter ==
  ASSUME NEW E, NEW log, LogOf(E, log), Arrived(log), NEW e,
         ParentOf(e) # NoRef => \E f \in ToSet(log) : f.hash = ParentOf(e)
  PROVE  Arrived(Append(log, e))
<1>1. log \in Seq(E) /\ Len(log) \in Nat /\ ToSet(log) = {log[i] : i \in 1 .. Len(log)}
  BY LogIsSeq
<1>2. /\ Len(Append(log, e)) = Len(log) + 1 /\ Append(log, e)[Len(log) + 1] = e
      /\ \A i \in 1 .. Len(log) : Append(log, e)[i] = log[i]
  <2>1. log \in Seq(E \cup {e})
    BY <1>1, SeqDef
  <2> QED BY <2>1, AppendProperties
<1> DEFINE t == Append(log, e)
<1> HIDE DEF t
<1> SUFFICES ASSUME NEW i \in 1 .. Len(log) + 1, ParentOf(t[i]) # NoRef
             PROVE  \E j \in 1 .. i - 1 : t[j].hash = ParentOf(t[i])
  BY <1>2 DEF Arrived, t
<1>3. CASE i = Len(log) + 1
  <2>1. PICK f \in ToSet(log) : f.hash = ParentOf(e)
    BY <1>2, <1>3 DEF t
  <2>2. PICK j \in 1 .. Len(log) : log[j] = f
    BY <1>1, <2>1
  <2>3. j \in 1 .. i - 1
    BY <1>1, <1>3
  <2> QED BY <1>2, <1>3, <2>1, <2>2, <2>3 DEF t
<1>4. CASE i # Len(log) + 1
  <2>1. i \in 1 .. Len(log) /\ t[i] = log[i]
    BY <1>1, <1>2, <1>4 DEF t
  <2>2. PICK j \in 1 .. i - 1 : log[j].hash = ParentOf(log[i])
    BY <2>1 DEF Arrived
  <2>3. j \in 1 .. Len(log)
    BY <1>1, <2>1
  <2> QED BY <1>2, <2>1, <2>2, <2>3 DEF t
<1> QED BY <1>3, <1>4

-----------------------------------------------------------------------------
(* Parts of a log: what some of the entries do not depend on *)

\* u lists the entries of T that a log has, in its order.
Lists(log, T, u) ==
  /\ LogOf(ToSet(log) \cap T, u)
  /\ ToSet(u) = ToSet(log) \cap T
  /\ \A m \in 1 .. Len(u) : \E k \in 1 .. Len(log) :
       u[m] = log[k] /\ {u[j] : j \in 1 .. m - 1} = {log[j] : j \in 1 .. k - 1} \cap T

\* One entry more, if it is in T.
More(log, T, n, s) == IF log[n] \in T THEN Append(s, log[n]) ELSE s

\* A list of the entries of T is made entry by entry.
LEMMA ListsByStep ==
  ASSUME NEW E, NEW log, LogOf(E, log), NEW T, NEW u, u[0] = <<>>,
         \A n \in Nat : n < Len(log) => u[n + 1] = More(log, T, n + 1, u[n])
  PROVE  Lists(log, T, u[Len(log)])
<1> DEFINE N == Len(log)
           First(n) == {log[j] : j \in 1 .. n}
           Good(s, n) ==
             /\ s \in Seq(E) /\ ToSet(s) = First(n) \cap T
             /\ \A m \in 1 .. Len(s) : \E k \in 1 .. n :
                  s[m] = log[k] /\ {s[j] : j \in 1 .. m - 1} = First(k - 1) \cap T
           S == {n \in Nat : n <= N => Good(u[n], n)}
<1>1. /\ N \in Nat /\ DOMAIN log = 1 .. N /\ log \in Seq(E) /\ ToSet(log) = First(N)
      /\ \A i, j \in 1 .. N : log[i] = log[j] => i = j
      /\ \A i \in 1 .. N : log[i] \in E
  BY LogIsSeq
<1>2. 0 \in S
  <2>1. <<>> \in Seq(E) /\ Len(<<>>) = 0 /\ ToSet(<<>>) = {} /\ First(0) = {} /\ 1 .. 0 = {}
    BY DEF ToSet
  <2>2. Good(<<>>, 0)
    <3> HIDE DEF First
    <3> QED BY <2>1
  <2> HIDE DEF Good, N
  <2> QED BY <2>2
<1>3. ASSUME NEW n \in S PROVE n + 1 \in S
  <2>1. n \in Nat /\ n + 1 \in Nat
    OBVIOUS
  <2> SUFFICES ASSUME n + 1 <= N PROVE Good(u[n + 1], n + 1)
    BY <2>1
  <2>2. n <= N /\ n < N /\ n + 1 \in 1 .. N
    BY <1>1, <2>1
  <2>3. Good(u[n], n) /\ u[n + 1] = More(log, T, n + 1, u[n])
    <3> HIDE DEF Good, N
    <3> QED BY <2>1, <2>2 DEF N
  <2> DEFINE s == u[n]
             e == log[n + 1]
             t == Append(s, e)
  <2>4. First(n + 1) = First(n) \cup {e}
    <3>1. 1 .. n + 1 = (1 .. n) \cup {n + 1}
      BY ONLY n \in Nat
    <3> QED BY ONLY <3>1
  <2>5. 1 .. n \subseteq 1 .. n + 1
    BY ONLY <2>1
  <2>6. CASE e \notin T
    <3>1. u[n + 1] = s /\ First(n + 1) \cap T = First(n) \cap T
      BY <2>3, <2>4, <2>6 DEF More
    <3>2. Good(s, n + 1)
      <4> HIDE DEF First, s
      <4> QED BY <2>3, <2>5, <3>1 DEF s
    <3> HIDE DEF Good
    <3> QED BY <3>1, <3>2
  <2>7. CASE e \in T
    <3>1. u[n + 1] = t /\ First(n + 1) \cap T = (First(n) \cap T) \cup {e}
      BY <2>3, <2>4, <2>7 DEF More
    <3>2. s \in Seq(E) /\ e \in E /\ Len(s) \in Nat /\ ToSet(s) = First(n) \cap T
      BY <1>1, <2>2, <2>3, LenProperties
    <3> HIDE DEF First, e, s, t
    <3>3. /\ t \in Seq(E) /\ Len(t) = Len(s) + 1 /\ t[Len(s) + 1] = e
          /\ \A i \in 1 .. Len(s) : t[i] = s[i]
      BY <3>2, AppendProperties DEF t
    <3>4. ToSet(t) = ToSet(s) \cup {e} /\ ToSet(s) = {s[j] : j \in 1 .. Len(s)}
      BY <3>2, ElementsOf DEF t
    <3>5. ASSUME NEW m \in 1 .. Len(t)
          PROVE  \E k \in 1 .. n + 1 :
                   t[m] = log[k] /\ {t[j] : j \in 1 .. m - 1} = First(k - 1) \cap T
      <4>1. \A j \in 1 .. m - 1 : t[j] = s[j]
        BY <3>2, <3>3
      <4>2. {t[j] : j \in 1 .. m - 1} = {s[j] : j \in 1 .. m - 1}
        BY ONLY <4>1
      <4>3. CASE m = Len(s) + 1
        <5>1. m - 1 = Len(s) /\ (n + 1) - 1 = n /\ n + 1 \in 1 .. n + 1
          BY ONLY <2>1, <3>2, <4>3
        <5> QED BY <3>2, <3>3, <3>4, <4>2, <4>3, <5>1 DEF e
      <4>4. CASE m # Len(s) + 1
        <5>1. m \in 1 .. Len(s)
          BY <3>2, <3>3, <4>4
        <5>2. PICK k \in 1 .. n :
                s[m] = log[k] /\ {s[j] : j \in 1 .. m - 1} = First(k - 1) \cap T
          BY <2>3, <5>1 DEF s
        <5> QED BY <2>5, <3>3, <4>2, <5>1, <5>2
      <4> QED BY <4>3, <4>4
    <3>6. Good(t, n + 1)
      BY <3>1, <3>2, <3>3, <3>4, <3>5
    <3> HIDE DEF Good
    <3> QED BY <3>1, <3>6
  <2> QED BY <2>6, <2>7
<1>4. Good(u[N], N)
  <2>1. S \in SUBSET Nat
    <3> HIDE DEF Good, N
    <3> QED OBVIOUS
  <2>2. S = Nat
    <3> HIDE DEF S
    <3> QED BY <1>2, <1>3, <2>1, NatsByStep
  <2> HIDE DEF Good, N
  <2> QED BY <1>1, <2>2
<1> DEFINE v == u[N]
<1> HIDE DEF S
<1>5. v \in Seq(E) /\ ToSet(v) = ToSet(log) \cap T /\ Len(v) \in Nat /\ DOMAIN v = 1 .. Len(v)
  BY <1>1, <1>4, LenProperties
<1>6. \A m \in 1 .. Len(v) : \E k \in 1 .. N :
        v[m] = log[k] /\ {v[j] : j \in 1 .. m - 1} = First(k - 1) \cap T
  BY <1>4
<1> HIDE DEF v
<1>7. ASSUME NEW i \in 1 .. Len(v), NEW m \in 1 .. Len(v), i < m, v[i] = v[m] PROVE FALSE
  <2>1. PICK k \in 1 .. N : v[m] = log[k] /\ {v[j] : j \in 1 .. m - 1} = First(k - 1) \cap T
    BY <1>6
  <2>2. i \in 1 .. m - 1
    BY <1>7
  <2>3. v[m] \in First(k - 1)
    <3>1. v[i] \in {v[j] : j \in 1 .. m - 1}
      BY <2>2
    <3> HIDE DEF First
    <3> QED BY <1>7, <2>1, <3>1
  <2>4. PICK l \in 1 .. k - 1 : log[l] = log[k]
    BY <2>1, <2>3
  <2>5. l \in 1 .. N /\ l # k
    BY <1>1
  <2> QED BY <1>1, <2>4, <2>5
<1>8. IsInjective(v)
  <2> SUFFICES ASSUME NEW i \in 1 .. Len(v), NEW m \in 1 .. Len(v), v[i] = v[m] PROVE i = m
    BY <1>5 DEF IsInjective
  <2>1. ~ (i < m) /\ ~ (m < i)
    BY <1>7
  <2> QED BY <1>5, <2>1
<1>9. v \in Seq(ToSet(log) \cap T)
  <2>1. \A i \in 1 .. Len(v) : v[i] \in ToSet(log) \cap T
    BY <1>5 DEF ToSet
  <2>2. v = [i \in 1 .. Len(v) |-> v[i]]
    BY <1>5, LenProperties
  <2>3. v \in [1 .. Len(v) -> ToSet(log) \cap T]
    BY ONLY <2>1, <2>2
  <2> QED BY <1>5, <2>3, SeqDef
<1> QED BY <1>5, <1>6, <1>8, <1>9 DEF Lists, LogOf, v

\* Such a list can be made: f[n] lists the first n entries.
MakesList(E, log, T, f) ==
  /\ f \in [Nat -> Seq(E)] /\ f[0] = <<>>
  /\ \A n \in Nat : n < Len(log) => f[n + 1] = More(log, T, n + 1, f[n])

LEMMA ListSteps ==
  ASSUME NEW E, NEW log, LogOf(E, log), NEW T
  PROVE  \E f : MakesList(E, log, T, f)
<1> DEFINE N == Len(log)
           X == Seq(E)
           x0 == <<>>
           next(n, s) == More(log, T, n, s)
           step == [n \in Nat |-> [s \in X |-> IF n \in 1 .. N THEN next(n, s) ELSE s]]
<1>1. N \in Nat /\ \A n \in 1 .. N : log[n] \in E
  BY LogIsSeq
<1>2. \A n \in 1 .. N, s \in X : next(n, s) \in X
  <2> SUFFICES ASSUME NEW n \in 1 .. N, NEW s \in X PROVE Append(s, log[n]) \in X
    BY DEF More
  <2> QED BY <1>1, AppendProperties
<1>3. x0 \in X /\ step \in [Nat -> [X -> X]]
  <2>1. x0 \in X
    OBVIOUS
  <2> HIDE DEF X, next, N
  <2>2. \A n \in Nat : [s \in X |-> IF n \in 1 .. N THEN next(n, s) ELSE s] \in [X -> X]
    BY <1>2
  <2> QED BY <2>1, <2>2
<1>4. PICK f \in [Nat -> X] : f[0] = x0 /\ \A n \in Nat : f[n + 1] = step[n + 1][f[n]]
  <2> HIDE DEF step, X, x0
  <2> QED BY ONLY <1>3, Iterates
<1>5. \A n \in Nat : n < N => f[n + 1] = next(n + 1, f[n])
  <2> SUFFICES ASSUME NEW n \in Nat, n < N PROVE f[n + 1] = next(n + 1, f[n])
    OBVIOUS
  <2>0. N \in Nat
    BY <1>1
  <2> HIDE DEF X, next, N
  <2>1. n + 1 \in 1 .. N /\ n + 1 \in Nat /\ f[n] \in X
    BY <2>0
  <2> QED BY <1>4, <2>1
<1> QED BY <1>4, <1>5 DEF MakesList

LEMMA MadeIsListed ==
  ASSUME NEW E, NEW log, LogOf(E, log), NEW T, NEW f, MakesList(E, log, T, f)
  PROVE  Lists(log, T, f[Len(log)])
BY ListsByStep DEF MakesList

\* The FILES events among entries.
FilesIn(S) == {e \in S : IsFileEventEntry(e)}

\* Files lists them.
LEMMA FilesAreListed ==
  ASSUME NEW E, NEW log, LogOf(E, log), NEW S, ToSet(log) \subseteq S
  PROVE  Lists(log, FilesIn(S), Files(log))
<1> DEFINE N == Len(log)
           T == FilesIn(S)
           next(n, s) == IF IsFileEventEntry(log[n]) THEN Append(s, log[n]) ELSE s
           Solves(g) == g = [n \in 0 .. N |-> IF n = 0 THEN <<>> ELSE next(n, g[n - 1])]
           u == CHOOSE g : Solves(g)
<1>1. N \in Nat /\ \A n \in 1 .. N : log[n] \in ToSet(log)
  BY LogIsSeq
<1>2. \A n \in 1 .. N : \A s : next(n, s) = More(log, T, n, s)
  BY <1>1 DEF FilesIn, More
<1>3. PICK f : MakesList(E, log, T, f)
  BY ListSteps
<1>4. \E g : Solves(g)
  <2> DEFINE g == [n \in 0 .. N |-> f[n]]
  <2>0. /\ N \in Nat /\ f[0] = <<>>
        /\ \A n \in Nat : n < N => f[n + 1] = More(log, T, n + 1, f[n])
    BY <1>1, <1>3 DEF MakesList
  <2> HIDE DEF next, N, T
  <2>1. ASSUME NEW n \in 0 .. N PROVE g[n] = IF n = 0 THEN <<>> ELSE next(n, g[n - 1])
    <3>1. CASE n = 0
      BY <2>0, <3>1
    <3>2. CASE n # 0
      <4>1. n - 1 \in Nat /\ n - 1 < N /\ (n - 1) + 1 = n /\ n - 1 \in 0 .. N /\ n \in 1 .. N
        BY <2>0, <3>2
      <4> QED BY <1>2, <2>0, <3>2, <4>1
    <3> QED BY <3>1, <3>2
  <2>2. Solves(g)
    BY <2>1
  <2> HIDE DEF g, Solves
  <2> QED BY <2>2
<1>5. Solves(u)
  <2> HIDE DEF Solves
  <2> QED BY <1>4
<1>6. u[0] = <<>> /\ \A n \in Nat : n < N => u[n + 1] = More(log, T, n + 1, u[n])
  <2>0. N \in Nat
    BY <1>1
  <2> HIDE DEF next, u, N, T
  <2>1. u[0] = <<>>
    BY <1>5, <2>0
  <2>2. ASSUME NEW n \in Nat, n < N PROVE u[n + 1] = More(log, T, n + 1, u[n])
    <3>1. n + 1 \in 0 .. N /\ n + 1 # 0 /\ (n + 1) - 1 = n /\ n + 1 \in 1 .. N
      BY <2>0, <2>2
    <3> QED BY <1>2, <1>5, <3>1
  <2> QED BY <2>1, <2>2
<1>7. Files(log) = u[N]
  BY DEF Files
<1> HIDE DEF u, T
<1>8. Lists(log, T, u[N])
  BY <1>6, ListsByStep
<1> QED BY <1>7, <1>8 DEF T

\* A list has its entries in the order of the log.
LEMMA ListsInOrder ==
  ASSUME NEW E, NEW log, LogOf(E, log), NEW T, NEW u, Lists(log, T, u),
         NEW i \in 1 .. Len(u), NEW m \in 1 .. Len(u),
         NEW a \in 1 .. Len(log), NEW b \in 1 .. Len(log), u[i] = log[a], u[m] = log[b]
  PROVE  i < m <=> a < b
<1>1. /\ Len(log) \in Nat /\ \A x, y \in 1 .. Len(log) : log[x] = log[y] => x = y
  BY LogIsSeq
<1>2. Len(u) \in Nat /\ \A x, y \in 1 .. Len(u) : u[x] = u[y] => x = y
  BY LogIsSeq DEF Lists
<1>3. ASSUME NEW x \in 1 .. Len(u), NEW y \in 1 .. Len(u), x < y,
             NEW c \in 1 .. Len(log), NEW d \in 1 .. Len(log), u[x] = log[c], u[y] = log[d]
      PROVE  c < d
  <2>1. PICK k \in 1 .. Len(log) :
          u[y] = log[k] /\ {u[j] : j \in 1 .. y - 1} = {log[j] : j \in 1 .. k - 1} \cap T
    BY DEF Lists
  <2>2. k = d
    BY <1>1, <1>3, <2>1
  <2>3. x \in 1 .. y - 1
    BY <1>2, <1>3
  <2>4. PICK j \in 1 .. k - 1 : log[j] = u[x]
    BY <2>1, <2>3
  <2>5. j \in 1 .. Len(log)
    BY <1>1
  <2>6. j = c
    BY <1>1, <1>3, <2>4, <2>5
  <2> QED BY <1>1, <2>2, <2>6
<1>4. i = m => a = b
  BY <1>1
<1>5. a < b => i < m
  <2>1. ~ (m < i)  \/ b < a
    BY <1>3
  <2> QED BY <1>1, <1>2, <1>4, <2>1
<1> QED BY <1>3, <1>5

\* The entries of T in a sequence are in such an order, whatever is between them.
GreedyOn(S, T, next, order) ==
  /\ LogOf(S, order)
  /\ \A k \in 1 .. Len(order) : order[k] \in T =>
       LET done == {order[j] : j \in 1 .. k - 1} \cap T
       IN  /\ order[k] \in next[done]
           /\ \A f \in next[done] \ {order[k]} : Earlier(order[k], f)
  /\ next[ToSet(order) \cap T] = {}

\* Then a list of them is.
LEMMA PartIsGreedy ==
  ASSUME NEW S, NEW T, NEW next, NEW order, GreedyOn(S, T, next, order),
         NEW u, Lists(order, T, u)
  PROVE  Greedy(S \cap T, next, u)
<1>1. ToSet(order) \subseteq S
  BY LogIsSeq DEF GreedyOn
<1>2. LogOf(S \cap T, u)
  <2>1. ToSet(order) \cap T \subseteq S \cap T
    BY <1>1
  <2> QED BY <2>1, LogOfMore DEF Lists
<1>3. ASSUME NEW m \in 1 .. Len(u)
      PROVE  LET done == {u[j] : j \in 1 .. m - 1}
             IN  /\ u[m] \in next[done]
                 /\ \A f \in next[done] \ {u[m]} : Earlier(u[m], f)
  <2>1. PICK k \in 1 .. Len(order) :
          u[m] = order[k] /\ {u[j] : j \in 1 .. m - 1} = {order[j] : j \in 1 .. k - 1} \cap T
    BY DEF Lists
  <2>2. u[m] \in T
    BY <1>2, LogIsSeq
  <2> QED BY <2>1, <2>2 DEF GreedyOn
<1>4. next[ToSet(u)] = {}
  BY DEF Lists, GreedyOn
<1> QED BY <1>2, <1>3, <1>4 DEF Greedy

\* The entries of S that may follow in the order of whole entries.
Ready(S, done) ==
  {e \in S \ done : ParentOf(e) = NoRef \/ \E f \in done : f.hash = ParentOf(e)}

ReadyOf(S) == [done \in SUBSET S |-> Ready(S, done)]

\* It is the same when every parent is there.
LEMMA ReadyIsFree ==
  ASSUME NEW S, Channel(S), Closed(S)
  PROVE  ReadyOf(S) = FreeOf(S)
<1>1. ASSUME NEW done \in SUBSET S PROVE Ready(S, done) = Free(S, done)
  <2>1. ASSUME NEW e \in S \ done
        PROVE  (ParentOf(e) = NoRef \/ \E f \in done : f.hash = ParentOf(e))
                 <=> \A f \in S \ done : f.hash # ParentOf(e)
    <3>1. CASE ParentOf(e) = NoRef
      BY <3>1, MarksNotNumbers DEF Channel
    <3>2. CASE ParentOf(e) # NoRef
      <4>1. PICK f \in S : f.hash = ParentOf(e)
        BY <3>2 DEF Closed
      <4> QED BY <3>2, <4>1 DEF Channel
    <3> QED BY <3>1, <3>2
  <2> QED BY <2>1 DEF Ready, Free
<1> QED BY <1>1 DEF ReadyOf, FreeOf

\* T has the parents, where S has them, of the entries of S it has.
WithParents(S, T) == \A e \in S \cap T, f \in S : f.hash = ParentOf(e) => f \in T

\* Part of a canonical order is canonical, if it has the parents.
LEMMA CanonicalOnPart ==
  ASSUME NEW S, NEW order, Canonical(S, order), NEW T, WithParents(S, T)
  PROVE  GreedyOn(S, T, FreeOf(S \cap T), order)
<1>1. /\ LogOf(S, order) /\ ToSet(order) \subseteq S /\ Len(order) \in Nat
      /\ \A k \in 1 .. Len(order) : order[k] \in S
  BY LogIsSeq DEF Canonical
<1>2. ASSUME NEW done \in SUBSET S
      PROVE  /\ done \cap T \in SUBSET (S \cap T)
             /\ FreeOf(S \cap T)[done \cap T] = Free(S, done) \cap T
  <2>1. done \cap T \in SUBSET (S \cap T)
    OBVIOUS
  <2>2. Free(S \cap T, done \cap T) = Free(S, done) \cap T
    BY DEF Free, WithParents
  <2> QED BY <2>1, <2>2 DEF FreeOf
<1>3. ASSUME NEW k \in 1 .. Len(order), order[k] \in T
      PROVE  LET done == {order[j] : j \in 1 .. k - 1} \cap T
             IN  /\ order[k] \in FreeOf(S \cap T)[done]
                 /\ \A f \in FreeOf(S \cap T)[done] \ {order[k]} : Earlier(order[k], f)
  <2> DEFINE before == {order[j] : j \in 1 .. k - 1}
  <2>1. before \in SUBSET S
    <3>1. \A j \in 1 .. k - 1 : j \in 1 .. Len(order)
      BY <1>1
    <3> QED BY <1>1, <3>1
  <2>2. /\ order[k] \in Free(S, before)
        /\ \A f \in Free(S, before) \ {order[k]} : Earlier(order[k], f)
    BY DEF Canonical
  <2> HIDE DEF before
  <2> QED BY <1>2, <1>3, <2>1, <2>2 DEF before
<1>4. FreeOf(S \cap T)[ToSet(order) \cap T] = {}
  BY <1>1, <1>2 DEF Canonical
<1> QED BY <1>1, <1>3, <1>4 DEF GreedyOn

\* A place may follow in the order of whole entries when its entry is ready.
LEMMA EntryOpenIsReady ==
  ASSUME NEW E, Channel(E), NEW log, LogOf(E, log), NEW T, WithParents(ToSet(log), T),
         NEW P \in SUBSET DOMAIN log, NEW i \in DOMAIN log, log[i] \in T
  PROVE  i \in EntryOpenOf(log)[P]
           <=> log[i] \in Ready(ToSet(log) \cap T, {log[j] : j \in P} \cap T)
<1> DEFINE D == DOMAIN log
           Image == {log[j] : j \in P}
<1>1. /\ D = 1 .. Len(log) /\ ToSet(log) = {log[j] : j \in D} /\ \A j \in D : log[j] \in E
      /\ \A j, k \in D : log[j] = log[k] => j = k
  BY ONLY LogOf(E, log), LogIsSeq, SMTT(20)
<1>2. i \in EntryOpenOf(log)[P] <=>
        /\ i \notin P
        /\ \/ ObservedLogHeadRef(log[i]) = NoRef
           \/ \E j \in P : log[j].hash = ObservedLogHeadRef(log[i])
           \/ /\ IsPayloadDeclaredContentRef(log[i])
              /\ ObservedLogHeadRef(log[i]) \notin HashesOf(log)
  BY DEF EntryOpenOf
<1>3. log[i] \in Ready(ToSet(log) \cap T, Image \cap T) <=>
        /\ log[i] \notin Image
        /\ \/ ParentOf(log[i]) = NoRef
           \/ \E f \in Image \cap T : f.hash = ParentOf(log[i])
  BY <1>1 DEF Ready
<1>4. i \in P <=> log[i] \in Image
  BY <1>1
<1>5. \A j \in D : log[j].hash \in Nat /\ log[j].hash # NoRef /\ log[j].hash # OwnContent
  BY <1>1, MarksNotNumbers DEF Channel
<1>6. (\E j \in P : log[j].hash = ParentOf(log[i]))
        <=> \E f \in Image \cap T : f.hash = ParentOf(log[i])
  <2>1. ASSUME NEW j \in P, log[j].hash = ParentOf(log[i]) PROVE log[j] \in T
    BY <1>1, <2>1 DEF WithParents
  <2> QED BY <2>1
<1>7. (\/ ObservedLogHeadRef(log[i]) = NoRef
       \/ \E j \in P : log[j].hash = ObservedLogHeadRef(log[i])
       \/ /\ IsPayloadDeclaredContentRef(log[i])
          /\ ObservedLogHeadRef(log[i]) \notin HashesOf(log))
      <=> (ParentOf(log[i]) = NoRef \/ \E j \in P : log[j].hash = ParentOf(log[i]))
  <2>1. CASE IsPayloadDeclaredContentRef(log[i])
    <3>1. ParentOf(log[i]) = NoRef
      BY <2>1 DEF ParentOf
    <3>2. ObservedLogHeadRef(log[i]) = OwnContent
      BY <2>1 DEF IsPayloadDeclaredContentRef, ObservedLogHeadRef, IsFileEventEntry, FileVerbs
    <3>3. OwnContent \notin HashesOf(log)
      BY <1>5 DEF HashesOf
    <3> QED BY <2>1, <3>1, <3>2, <3>3
  <2>2. CASE ~ IsPayloadDeclaredContentRef(log[i])
    <3>1. ParentOf(log[i]) = ObservedLogHeadRef(log[i])
      BY <2>2 DEF ParentOf
    <3> QED BY <2>2, <3>1
  <2> QED BY <2>1, <2>2
<1> QED BY <1>2, <1>3, <1>4, <1>6, <1>7

\* The places of a log in the order of whole entries.
EntrySort(log, p) ==
  /\ p \in Seq(DOMAIN log)
  /\ EmittedInTurn(log, EntryTimesOf(log), EntryOpenOf(log), p)
  /\ EntryOpenOf(log)[ToSet(p)] = {}
  /\ Len(OrderEventLogEntries(log)) = Len(p)
  /\ \A k \in 1 .. Len(p) : OrderEventLogEntries(log)[k] = log[p[k]]

LEMMA EntriesAreSorted ==
  ASSUME NEW E, Channel(E), NEW log, LogOf(E, log)
  PROVE  \E p : EntrySort(log, p)
<1> DEFINE D == DOMAIN log
           time == EntryTimesOf(log)
           open == EntryOpenOf(log)
           p == Emission(log, time, open)[Len(log)]
<1>1. /\ Len(log) \in Nat /\ D = 1 .. Len(log) /\ \A i \in D : log[i] \in E
  BY LogIsSeq
<1>2. ASSUME NEW i \in D PROVE ExtractTimestamp(log[i], i - 1) \in Nat /\ log[i].hash \in Nat
  <2>1. ExtractTimestamp(log[i], 0) \in Nat /\ log[i].hash \in Nat
    BY <1>1 DEF Channel
  <2>2. i - 1 \in Nat
    BY <1>1
  <2> QED BY <2>1, <2>2 DEF ExtractTimestamp
<1>3. time \in [D -> Nat]
  BY <1>2 DEF EntryTimesOf
<1>4. open \in [SUBSET D -> SUBSET D] /\ \A P \in SUBSET D : open[P] \cap P = {}
  BY DEF EntryOpenOf
<1>5. Sortable(log, time, open)
  <2> HIDE DEF time, open
  <2> QED BY <1>1, <1>2, <1>3, <1>4 DEF Sortable
<1>6. OrderEventLogEntries(log) = [n \in DOMAIN p |-> log[p[n]]]
  BY DEF OrderEventLogEntries, EntryTimesOf, EntryOpenOf, KahnOrder
<1>7. EmittedInTurn(log, time, open, p) /\ open[ToSet(p)] = {}
  <2> HIDE DEF time, open
  <2> QED BY <1>5, EmissionInTurn
<1> HIDE DEF p, time, open
<1>8. p \in Seq(D) /\ Len(p) \in Nat /\ DOMAIN p = 1 .. Len(p)
  BY <1>7, LenProperties DEF EmittedInTurn
<1>9. LogOf(ToSet(log), OrderEventLogEntries(log))
  BY EntriesAreLog
<1>10. Len(OrderEventLogEntries(log)) = Len(p)
  <2>1. DOMAIN OrderEventLogEntries(log) = 1 .. Len(p)
    BY <1>6, <1>8
  <2>2. /\ DOMAIN OrderEventLogEntries(log) = 1 .. Len(OrderEventLogEntries(log))
        /\ Len(OrderEventLogEntries(log)) \in Nat
    BY ONLY <1>9, LogIsSeq
  <2>3. ASSUME NEW m \in Nat, NEW n \in Nat, 1 .. m = 1 .. n PROVE m = n
    <3>1. (m \in 1 .. m \/ m = 0) /\ (n \in 1 .. n \/ n = 0)
      OBVIOUS
    <3> QED BY <2>3, <3>1
  <2> QED BY ONLY <1>8, <2>1, <2>2, <2>3
<1>11. \A k \in 1 .. Len(p) : OrderEventLogEntries(log)[k] = log[p[k]]
  BY <1>6, <1>8
<1> QED BY <1>7, <1>8, <1>10, <1>11 DEF time, open, EntrySort

\* Entries that have a time, and their parents, are put in order as if the
\* others were not there.
LEMMA EntriesOnPart ==
  ASSUME NEW E, Channel(E), NEW log, LogOf(E, log), NEW T, WithParents(ToSet(log), T),
         \A e \in ToSet(log) \cap T : e.ts # NoTime
  PROVE  GreedyOn(ToSet(log), T, ReadyOf(ToSet(log) \cap T), OrderEventLogEntries(log))
<1> DEFINE D == DOMAIN log
           S == ToSet(log)
           time == EntryTimesOf(log)
           open == EntryOpenOf(log)
           o == OrderEventLogEntries(log)
           Image(P) == {log[j] : j \in P}
<1>1. /\ Len(log) \in Nat /\ D = 1 .. Len(log) /\ S = {log[j] : j \in D} /\ \A j \in D : log[j] \in E
      /\ \A j, k \in D : log[j] = log[k] => j = k
  <2>1. /\ log \in Seq(E) /\ Len(log) \in Nat /\ D = 1 .. Len(log) /\ S = {log[j] : j \in 1 .. Len(log)}
        /\ \A j, k \in 1 .. Len(log) : log[j] = log[k] => j = k
    BY LogIsSeq
  <2> HIDE DEF D, S
  <2>2. \A j \in 1 .. Len(log) : log[j] \in E
    BY <2>1
  <2> QED BY <2>1, <2>2
<1>0. PICK p : EntrySort(log, p)
  BY ONLY Channel(E), LogOf(E, log), EntriesAreSorted
<1>2. /\ p \in Seq(D) /\ EmittedInTurn(log, time, open, p) /\ open[ToSet(p)] = {}
      /\ Len(o) = Len(p) /\ \A k \in 1 .. Len(p) : o[k] = log[p[k]]
  BY <1>0 DEF EntrySort
<1>3. /\ Len(p) \in Nat /\ \A k \in 1 .. Len(p) : p[k] \in D
      /\ ToSet(p) = {p[k] : k \in 1 .. Len(p)} /\ ToSet(p) \in SUBSET D
  BY <1>2, ElementsOf, LenProperties
<1>4. LogOf(S, o)
  BY EntriesAreLog
<1>5. /\ Len(o) \in Nat /\ ToSet(o) = {o[k] : k \in 1 .. Len(o)} /\ ToSet(o) \subseteq S
  BY ONLY <1>4, LogIsSeq
<1> HIDE DEF o, S, open, time
<1>6. \A P \in SUBSET D, i \in D : log[i] \in T =>
        (i \in open[P] <=> log[i] \in Ready(S \cap T, Image(P) \cap T))
  BY EntryOpenIsReady DEF S, open
<1>7. ASSUME NEW P \in SUBSET D
      PROVE  ReadyOf(S \cap T)[Image(P) \cap T] = Ready(S \cap T, Image(P) \cap T)
  <2>1. Image(P) \cap T \in SUBSET (S \cap T)
    BY <1>1
  <2> QED BY <2>1 DEF ReadyOf
<1>8. ASSUME NEW k \in 1 .. Len(o), o[k] \in T
      PROVE  LET done == {o[j] : j \in 1 .. k - 1} \cap T
             IN  /\ o[k] \in ReadyOf(S \cap T)[done]
                 /\ \A f \in ReadyOf(S \cap T)[done] \ {o[k]} : Earlier(o[k], f)
  <2> DEFINE P == {p[j] : j \in 1 .. k - 1}
             before == {o[j] : j \in 1 .. k - 1}
  <2>1. k \in 1 .. Len(p) /\ \A j \in 1 .. k - 1 : j \in 1 .. Len(p)
    BY <1>2, <1>3
  <2>2. P \in SUBSET D /\ before = Image(P) /\ o[k] = log[p[k]] /\ p[k] \in D
    BY <1>2, <1>3, <2>1
  <2>3. p[k] \in open[P] /\ \A i \in open[P] \ {p[k]} : Precedes(log, time, p[k], i)
    BY <1>2, <2>1 DEF EmittedInTurn
  <2> HIDE DEF P, before, Image
  <2>4. o[k] \in Ready(S \cap T, before \cap T)
    BY <1>6, <1>8, <2>2, <2>3
  <2>5. ASSUME NEW f \in Ready(S \cap T, before \cap T), f # o[k] PROVE Earlier(o[k], f)
    <3>1. f \in S /\ f \in T
      BY DEF Ready
    <3>2. PICK i \in D : log[i] = f
      BY <1>1, <3>1
    <3>3. i \in open[P] /\ i # p[k]
      BY <1>6, <2>2, <2>5, <3>1, <3>2
    <3>4. Precedes(log, time, p[k], i)
      BY <2>3, <3>3
    <3>5. log[i].hash # log[p[k]].hash
      BY <1>1, <2>2, <2>5, <3>2 DEF Channel
    <3>6. log[i].ts # NoTime /\ log[p[k]].ts # NoTime
      BY <1>1, <1>8, <2>2, <3>1, <3>2 DEF S
    <3>7. time[i] = ExtractTimestamp(log[i], 0) /\ time[p[k]] = ExtractTimestamp(log[p[k]], 0)
      BY <2>2, <3>6 DEF time, EntryTimesOf, ExtractTimestamp
    <3> QED BY <2>2, <3>2, <3>4, <3>5, <3>7 DEF Precedes, Earlier
  <2>6. ReadyOf(S \cap T)[before \cap T] = Ready(S \cap T, before \cap T)
    BY <1>7, <2>2
  <2> QED BY <2>4, <2>5, <2>6 DEF before
<1>9. ReadyOf(S \cap T)[ToSet(o) \cap T] = {}
  <2>1. ToSet(o) = Image(ToSet(p))
    BY <1>2, <1>3, <1>5
  <2>2. ASSUME NEW f \in Ready(S \cap T, ToSet(o) \cap T) PROVE FALSE
    <3>1. f \in S /\ f \in T
      BY DEF Ready
    <3>2. PICK i \in D : log[i] = f
      BY <1>1, <3>1
    <3> HIDE DEF Image
    <3> QED BY <1>2, <1>3, <1>6, <2>1, <3>1, <3>2
  <2> HIDE DEF Image
  <2> QED BY <1>3, <1>7, <2>1, <2>2
<1> QED BY <1>4, <1>8, <1>9 DEF GreedyOn, S, o

\* Every entry of a log that has come after its parent is put in order.
LEMMA EntriesComplete ==
  ASSUME NEW E, Channel(E), NEW log, LogOf(E, log), Arrived(log)
  PROVE  ToSet(OrderEventLogEntries(log)) = ToSet(log)
<1> DEFINE D == DOMAIN log
           open == EntryOpenOf(log)
           o == OrderEventLogEntries(log)
<1>1. /\ Len(log) \in Nat /\ D = 1 .. Len(log) /\ ToSet(log) = {log[j] : j \in D}
      /\ \A j \in D : log[j] \in E
  BY LogIsSeq
<1>0. PICK p : EntrySort(log, p)
  BY ONLY Channel(E), LogOf(E, log), EntriesAreSorted
<1>2. /\ p \in Seq(D) /\ open[ToSet(p)] = {}
      /\ Len(o) = Len(p) /\ \A k \in 1 .. Len(p) : o[k] = log[p[k]]
  BY <1>0 DEF EntrySort
<1>3. /\ Len(p) \in Nat /\ \A k \in 1 .. Len(p) : p[k] \in D
      /\ ToSet(p) = {p[k] : k \in 1 .. Len(p)} /\ ToSet(p) \in SUBSET D
  BY <1>2, ElementsOf, LenProperties
<1>4. LogOf(ToSet(log), o)
  BY EntriesAreLog
<1>5. /\ ToSet(o) = {o[k] : k \in 1 .. Len(o)} /\ ToSet(o) \subseteq ToSet(log)
  BY ONLY <1>4, LogIsSeq
<1> HIDE DEF o
<1>6. D \subseteq ToSet(p)
  <2> DEFINE Left == D \ ToSet(p)
  <2> SUFFICES ASSUME Left # {} PROVE FALSE
    OBVIOUS
  <2>1. Left \in SUBSET Nat
    BY <1>1
  <2>2. PICK i \in Left : \A j \in Left : i <= j
    <3> HIDE DEF Left
    <3> QED BY <2>1, NatLeast
  <2>3. CASE ParentOf(log[i]) = NoRef
    <3>1. ObservedLogHeadRef(log[i]) = NoRef \/ IsPayloadDeclaredContentRef(log[i])
      BY <2>3 DEF ParentOf
    <3>2. ASSUME IsPayloadDeclaredContentRef(log[i])
          PROVE  ObservedLogHeadRef(log[i]) \notin HashesOf(log)
      <4>1. ObservedLogHeadRef(log[i]) = OwnContent
        BY <3>2 DEF IsPayloadDeclaredContentRef, ObservedLogHeadRef, IsFileEventEntry, FileVerbs
      <4>2. \A j \in D : log[j].hash # OwnContent
        BY <1>1, MarksNotNumbers DEF Channel
      <4> QED BY <4>1, <4>2 DEF HashesOf
    <3>3. i \in open[ToSet(p)]
      BY <1>3, <3>1, <3>2 DEF EntryOpenOf
    <3> QED BY <1>2, <3>3
  <2>4. CASE ParentOf(log[i]) # NoRef
    <3>1. PICK j \in 1 .. i - 1 : log[j].hash = ParentOf(log[i])
      BY <1>1, <2>4 DEF Arrived
    <3>2. j \in D /\ j \notin Left
      BY <1>1, <2>1, <2>2
    <3>3. ParentOf(log[i]) = ObservedLogHeadRef(log[i])
      BY <2>4 DEF ParentOf
    <3>4. i \in open[ToSet(p)]
      BY <1>3, <3>1, <3>2, <3>3 DEF EntryOpenOf
    <3> QED BY <1>2, <3>4
  <2> QED BY <2>3, <2>4
<1>7. ASSUME NEW e \in ToSet(log) PROVE e \in ToSet(o)
  <2>1. PICK i \in D : log[i] = e
    BY <1>1
  <2>2. PICK k \in 1 .. Len(p) : p[k] = i
    BY <1>3, <1>6
  <2> QED BY <1>2, <1>5, <2>1, <2>2
<1> QED BY <1>5, <1>7 DEF o

\* Two logs of the same entries, one in each order, have the entries of T, which
\* all have a time and their parents in T, in the same order.
LEMMA OrdersAgreeOnPart ==
  ASSUME NEW E, Channel(E), NEW log, LogOf(E, log), NEW T,
         WithParents(ToSet(log), T), Closed(ToSet(log) \cap T),
         \A e \in ToSet(log) \cap T : e.ts # NoTime,
         NEW order, Canonical(ToSet(log), order),
         NEW u, Lists(OrderEventLogEntries(log), T, u), NEW v, Lists(order, T, v)
  PROVE  u = v /\ Canonical(ToSet(log) \cap T, v)
<1> DEFINE S == ToSet(log) \cap T
<1>1. Channel(S)
  <2>1. S \subseteq E
    BY LogIsSeq
  <2> QED BY <2>1, ChannelOfLess
<1>2. Greedy(S, ReadyOf(S), u)
  <2>1. GreedyOn(ToSet(log), T, ReadyOf(S), OrderEventLogEntries(log))
    BY EntriesOnPart
  <2> QED BY <2>1, PartIsGreedy
<1>3. Greedy(S, FreeOf(S), v)
  <2>1. GreedyOn(ToSet(log), T, FreeOf(S), order)
    BY CanonicalOnPart
  <2> QED BY <2>1, PartIsGreedy
<1> HIDE DEF S
<1>4. ReadyOf(S) = FreeOf(S)
  BY <1>1, ReadyIsFree DEF S
<1>5. u = v
  BY <1>1, <1>2, <1>3, <1>4, GreedyIsUnique
<1>6. Canonical(S, v)
  BY <1>3, CanonicalIsGreedy
<1> QED BY <1>5, <1>6 DEF S

\* What every channel has: FILES events have a time, and are written on FILES events.
FilesOnFiles(E) ==
  \A e \in E : IsFileEventEntry(e) =>
    /\ e.ts # NoTime
    /\ \A f \in E : f.hash = ParentOf(e) => IsFileEventEntry(f)

\* The FILES events of a log are put in an order that depends on nothing but
\* which they are.
LEMMA FilesInOrder ==
  ASSUME NEW E, Channel(E), FilesOnFiles(E), NEW log, LogOf(E, log)
  PROVE  LET S == FilesIn(ToSet(log))
         IN  Greedy(S, ReadyOf(S), Files(OrderEventLogEntries(log)))
<1> DEFINE T == FilesIn(ToSet(log))
           o == OrderEventLogEntries(log)
<1>1. ToSet(log) \subseteq E
  BY LogIsSeq
<1>2. LogOf(ToSet(log), o)
  BY EntriesAreLog
<1>3. LogOf(E, o)
  BY <1>1, <1>2, LogOfMore
<1>4. ToSet(o) \subseteq ToSet(log)
  BY ONLY <1>2, LogIsSeq
<1>5. Lists(o, T, Files(o))
  BY <1>3, <1>4, FilesAreListed
<1> HIDE DEF o
<1>6. WithParents(ToSet(log), T) /\ \A e \in ToSet(log) \cap T : e.ts # NoTime
  BY <1>1 DEF FilesOnFiles, FilesIn, WithParents
<1>7. GreedyOn(ToSet(log), T, ReadyOf(ToSet(log) \cap T), o)
  <2> HIDE DEF T
  <2> QED BY <1>6, EntriesOnPart DEF o
<1>8. ToSet(log) \cap T = T
  BY DEF FilesIn
<1> HIDE DEF T
<1>9. Greedy(T, ReadyOf(T), Files(o))
  BY <1>5, <1>7, <1>8, PartIsGreedy
<1> QED BY <1>9 DEF T, o

\* So two logs with the same entries are replayed alike.
LEMMA FilesOfSet ==
  ASSUME NEW E, Channel(E), FilesOnFiles(E), NEW a, LogOf(E, a), NEW b, LogOf(E, b),
         ToSet(a) = ToSet(b)
  PROVE  Files(OrderEventLogEntries(a)) = Files(OrderEventLogEntries(b))
<1> DEFINE S == FilesIn(ToSet(a))
<1>1. Channel(S)
  <2>1. S \subseteq E
    BY LogIsSeq DEF FilesIn
  <2> QED BY <2>1, ChannelOfLess
<1>2. /\ Greedy(S, ReadyOf(S), Files(OrderEventLogEntries(a)))
      /\ Greedy(S, ReadyOf(S), Files(OrderEventLogEntries(b)))
  BY FilesInOrder
<1> HIDE DEF S
<1> QED BY <1>1, <1>2, GreedyIsUnique

\* A load with an earlier load as seed gives the FILES events as a load of the
\* whole log does.
LEMMA SeededLoadGivesAll ==
  ASSUME NEW E, Channel(E), FilesOnFiles(E), NEW log, LogOf(E, log),
         NEW old, LogOf(E, old), ToSet(old) \subseteq ToSet(log)
  PROVE  Files(LoadChannelEntries(OrderEventLogEntries(old), log))
           = Files(OrderEventLogEntries(log))
<1> DEFINE seed == OrderEventLogEntries(old)
           new == Unknown(seed, log)
           merged == OrderEventLogEntries(seed \o new)
<1>1. LogOf(ToSet(old), seed)
  BY EntriesAreLog
<1>2. ToSet(seed) \subseteq ToSet(old) /\ LogOf(E, seed)
  <2>1. ToSet(old) \subseteq E
    BY LogIsSeq
  <2> QED BY ONLY <1>1, <2>1, LogIsSeq, LogOfMore
<1> HIDE DEF seed
<1>3. LogOf(E, seed \o new) /\ ToSet(seed \o new) = ToSet(log)
  <2>1. LogOf(E, seed \o new) /\ ToSet(seed \o new) = ToSet(seed) \cup ToSet(log)
    BY <1>2, MergedIsLog
  <2> QED BY <1>2, <2>1
<1>4. Files(merged) = Files(OrderEventLogEntries(log))
  <2> HIDE DEF new
  <2> QED BY <1>3, FilesOfSet
<1>5. ASSUME new = <<>> PROVE Files(seed) = Files(OrderEventLogEntries(log))
  <2>1. ToSet(log) \subseteq ToSet(seed)
    <3>1. ToSet(new) = {e \in ToSet(log) : e.hash \notin HashesOf(seed)}
      BY UnknownIsLog
    <3>2. ToSet(new) = {}
      BY <1>5 DEF ToSet
    <3>3. HashesOf(seed) = {e.hash : e \in ToSet(seed)}
      BY <1>2, HashesAreOf
    <3>4. ToSet(log) \subseteq E /\ ToSet(seed) \subseteq E
      BY ONLY <1>2, LogOf(E, log), LogIsSeq
    <3> QED BY ONLY <3>1, <3>2, <3>3, <3>4, Channel(E) DEF Channel
  <2>2. ToSet(old) = ToSet(log)
    BY <1>2, <2>1
  <2> QED BY <2>2, FilesOfSet DEF seed
<1> HIDE DEF merged, new
<1>6. LoadChannelEntries(seed, log) \in
        (IF new = <<>> THEN {seed} ELSE {merged, OrderEventLogEntries(log)})
  BY DEF LoadChannelEntries, merged, new
<1> QED BY <1>4, <1>5, <1>6 DEF seed

=============================================================================
