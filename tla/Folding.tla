-------------------------------- MODULE Folding --------------------------------
(***************************************************************************)
(* What the folds of the community modules compute: the induction behind   *)
(* the proofs about the ledger.  Step is the step of one fold, with the    *)
(* two values it may take from its surroundings.                           *)
(***************************************************************************)
EXTENDS Integers, Sequences, FiniteSets, SequencesExt,
        FiniteSetTheorems, WellFoundedInduction, TLAPS

CONSTANT Step(_, _, _, _)

Fold(c, d, base, seq) == FoldLeft(LAMBDA s, x : Step(c, d, s, x), base, seq)

(* Induction on the natural numbers, for a set of them. *)
LEMMA NaturalSet ==
    ASSUME NEW T, T \subseteq Nat, 0 \in T, \A n \in T : n + 1 \in T
    PROVE  T = Nat
  <1> DEFINE U == Nat \ T
             R == OpToRel(<, Nat)
  <1> SUFFICES ASSUME U # {} PROVE FALSE
    OBVIOUS
  <1>1. IsWellFoundedOn(R, Nat)
    BY NatLessThanWellFounded
  <1>2. PICK x \in U : \A y \in U : <<y, x>> \notin R
    <2> HIDE DEF R
    <2> QED BY <1>1, WFMin
  <1>3. x \in Nat /\ x # 0
    OBVIOUS
  <1>4. x - 1 \in U
    OBVIOUS
  <1>5. <<x - 1, x>> \in R
    BY <1>3 DEF OpToRel
  <1> QED BY <1>2, <1>4, <1>5

(* A finite, non-empty set of positions has a last one. *)
LEMMA LastPosition ==
    ASSUME NEW n \in Nat, NEW s \in SUBSET (1..n), s # {}
    PROVE  Max(s) \in s /\ \A y \in s : Max(s) >= y
  <1> DEFINE D == {n - x : x \in s}
             R == OpToRel(<, Nat)
  <1>1. IsWellFoundedOn(R, Nat)
    BY NatLessThanWellFounded
  <1>2. D \subseteq Nat /\ D # {}
    OBVIOUS
  <1>3. PICK e \in D : \A y \in D : <<y, e>> \notin R
    <2> HIDE DEF D, R
    <2> QED BY <1>1, <1>2, WFMin
  <1>4. PICK x \in s : e = n - x
    OBVIOUS
  <1>5. ASSUME NEW y \in s PROVE x >= y
    <2>1. <<n - y, e>> \notin R /\ n - y \in Nat /\ e \in Nat
      BY <1>3, <1>2
    <2>2. ~(n - y < e)
      BY <2>1 DEF OpToRel
    <2> QED BY <2>2, <1>4
  <1>6. \E z \in s : \A y \in s : z >= y
    BY <1>5
  <1> QED BY <1>6 DEF Max

(* The equation that defines a fold, and that it has a solution. *)
Solves(g, c, d, base, n, seq) ==
    g = [s \in SUBSET (1..n) |->
            IF s = {} THEN base ELSE Step(c, d, g[s \ {Max(s)}], seq[Max(s)])]

(* It has a solution. *)
LEMMA FoldEquation ==
    ASSUME NEW c, NEW d, NEW base, NEW n \in Nat, NEW seq
    PROVE  \E g : Solves(g, c, d, base, n, seq)
  <1> DEFINE S == 1..n
             Value(h, s) == IF s = {} THEN base ELSE Step(c, d, h[s \ {Max(s)}], seq[Max(s)])
             UpTo(h, k) == \A s \in SUBSET S : Cardinality(s) <= k => h[s] = Value(h, s)
             T == {k \in Nat : \E h : UpTo(h, k)}
  <1>1. IsFiniteSet(S) /\ Cardinality(S) = n
    BY FS_Interval
  <1>2. \A s \in SUBSET S : IsFiniteSet(s) /\ Cardinality(s) \in Nat /\ Cardinality(s) <= n
    BY <1>1, FS_Subset, FS_CardinalityType
  <1>3. \A s \in SUBSET S : s # {} =>
            s \ {Max(s)} \in SUBSET S /\ Cardinality(s \ {Max(s)}) = Cardinality(s) - 1
    BY <1>2, LastPosition, FS_RemoveElement
  <1>4. \A s \in SUBSET S : Cardinality(s) = 0 <=> s = {}
    BY <1>2, FS_EmptySet
  <1>5. 0 \in T
    <2> DEFINE h == [s \in SUBSET S |-> base]
    <2>1. UpTo(h, 0)
      BY <1>2, <1>4
    <2> QED BY <2>1
  <1>6. ASSUME NEW k \in T PROVE k + 1 \in T
    <2>1. k \in Nat /\ \E h : UpTo(h, k)
      OBVIOUS
    <2>2. PICK h : UpTo(h, k)
      BY <2>1
    <2> DEFINE e == [s \in SUBSET S |-> IF Cardinality(s) = k + 1 THEN Value(h, s) ELSE h[s]]
    <2>3. ASSUME NEW s \in SUBSET S, Cardinality(s) <= k + 1
          PROVE  e[s] = Value(e, s)
      <3>1. e[s] = Value(h, s)
        <4>1. CASE Cardinality(s) = k + 1
          BY <4>1
        <4>2. CASE Cardinality(s) # k + 1
          <5> DEFINE z == Cardinality(s)
          <5>1. z \in Nat /\ z <= k + 1 /\ z # k + 1 /\ k \in Nat
            BY <4>2, <2>3, <2>1, <1>2
          <5> HIDE DEF z
          <5>2. z <= k
            BY <5>1
          <5>3. Cardinality(s) <= k
            BY <5>2 DEF z
          <5> QED BY <5>3, <4>2, <2>2
        <4> QED BY <4>1, <4>2
      <3>2. CASE s = {}
        BY <3>1, <3>2
      <3>3. CASE s # {}
        <4> DEFINE r == s \ {Max(s)}
        <4>1. r \in SUBSET S /\ Cardinality(r) = Cardinality(s) - 1
          BY <1>3, <3>3
        <4>2. Cardinality(r) # k + 1
          <5> DEFINE z == Cardinality(s)
          <5>1. z \in Nat /\ z <= k + 1 /\ k \in Nat /\ Cardinality(r) = z - 1
            BY <4>1, <2>3, <2>1, <1>2
          <5> HIDE DEF z, r
          <5> QED BY <5>1
        <4>3. e[r] = h[r]
          BY <4>1, <4>2
        <4> QED BY <3>1, <3>3, <4>3
      <3> QED BY <3>2, <3>3
    <2>4. UpTo(e, k + 1)
      BY <2>3
    <2>5. \E q : UpTo(q, k + 1)
      <3> HIDE DEF UpTo, e
      <3> QED BY <2>4
    <2> HIDE DEF UpTo
    <2> QED BY <2>1, <2>5
  <1>7. T = Nat
    <2>1. T \subseteq Nat
      OBVIOUS
    <2> HIDE DEF T
    <2> QED BY <1>5, <1>6, <2>1, NaturalSet
  <1>8. PICK h : UpTo(h, n)
    BY <1>7
  <1> DEFINE g == [s \in SUBSET S |-> h[s]]
  <1>9. ASSUME NEW s \in SUBSET S PROVE g[s] = Value(g, s)
    <2>1. g[s] = Value(h, s)
      BY <1>8, <1>2
    <2>2. CASE s # {}
      BY <2>1, <2>2, <1>3
    <2> QED BY <2>1, <2>2
  <1>10. g = [s \in SUBSET S |-> Value(g, s)]
    BY <1>9
  <1> QED BY <1>10 DEF Solves

(* What the fold has reached after each position of a list. *)
Traced(c, d, base, n, seq) ==
    \E f : /\ f[0] = base
           /\ \A k \in 1..n : f[k] = Step(c, d, f[k - 1], seq[k])
           /\ f[n] = Fold(c, d, base, seq)

(* A fold is the last of the states its steps lead to. *)
THEOREM FoldTrace ==
    ASSUME NEW c, NEW d, NEW base, NEW n \in Nat, NEW seq, DOMAIN seq = 1..n
    PROVE  Traced(c, d, base, n, seq)
  <1> DEFINE iter == CHOOSE g : Solves(g, c, d, base, n, seq)
             f == [k \in 0..n |-> iter[1..k]]
  <1>1. Solves(iter, c, d, base, n, seq)
    BY FoldEquation
  <1>2. Fold(c, d, base, seq) = iter[1..n]
    BY DEF Fold, FoldLeft, MapThenFoldSet, Solves
  <1> HIDE DEF iter
  <1>3. iter[{}] = base
    BY <1>1 DEF Solves
  <1>4. f[0] = base
    BY <1>3
  <1>5. ASSUME NEW k \in 1..n PROVE f[k] = Step(c, d, f[k - 1], seq[k])
    <2>1. 1..k \in SUBSET (1..n) /\ 1..k # {}
      <3>1. k \in 1..k /\ \A x \in 1..k : x \in 1..n
        OBVIOUS
      <3> QED BY <3>1
    <2>2. Max(1..k) = k
      <3>1. Max(1..k) \in 1..k /\ \A y \in 1..k : Max(1..k) >= y
        BY <2>1, LastPosition
      <3>2. k \in 1..k
        OBVIOUS
      <3> QED BY <3>1, <3>2
    <2>3. (1..k) \ {k} = 1..(k - 1)
      OBVIOUS
    <2>4. iter[1..k] = Step(c, d, iter[(1..k) \ {Max(1..k)}], seq[Max(1..k)])
      BY <1>1, <2>1 DEF Solves
    <2>5. iter[1..k] = Step(c, d, iter[1..(k - 1)], seq[k])
      BY <2>2, <2>3, <2>4
    <2>6. f[k] = iter[1..k] /\ f[k - 1] = iter[1..(k - 1)]
      OBVIOUS
    <2> QED BY <2>5, <2>6
  <1>6. f[n] = Fold(c, d, base, seq)
    BY <1>2
  <1> HIDE DEF f
  <1> QED BY <1>4, <1>5, <1>6 DEF Traced
-----------------------------------------------------------------------------
(* The equation of a recursive function over places that each have one     *)
(* before them, down to a first one.                                       *)
Recurs(g, c, d, base, S, first, before) ==
    g = [n \in S |-> IF n = first THEN base ELSE Step(c, d, g[before[n]], n)]

(* It has a solution. *)
LEMMA Recursion ==
    ASSUME NEW c, NEW d, NEW base, NEW S, NEW first, NEW before,
           NEW N \in Nat, NEW rank \in [S -> 0..N],
           \A n \in S : n # first => before[n] \in S /\ rank[before[n]] < rank[n]
    PROVE  \E g : Recurs(g, c, d, base, S, first, before)
  <1> DEFINE Value(h, n) == IF n = first THEN base ELSE Step(c, d, h[before[n]], n)
             UpTo(h, k) == \A n \in S : rank[n] < k => h[n] = Value(h, n)
             T == {k \in Nat : \E h : UpTo(h, k)}
  <1>1. 0 \in T
    <2>1. UpTo(<<>>, 0)
      OBVIOUS
    <2>2. \E h : UpTo(h, 0)
      <3> HIDE DEF UpTo
      <3> QED BY <2>1
    <2> HIDE DEF UpTo
    <2> QED BY <2>2
  <1>2. ASSUME NEW k \in T PROVE k + 1 \in T
    <2>1. k \in Nat /\ \E h : UpTo(h, k)
      OBVIOUS
    <2>2. PICK h : UpTo(h, k)
      BY <2>1
    <2> DEFINE e == [n \in S |-> IF rank[n] = k THEN Value(h, n) ELSE h[n]]
    <2>3. ASSUME NEW n \in S, rank[n] < k + 1 PROVE e[n] = Value(e, n)
      <3>1. e[n] = Value(h, n)
        <4>1. CASE rank[n] = k
          BY <4>1
        <4>2. CASE rank[n] # k
          <5>1. rank[n] < k
            BY <2>1, <2>3, <4>2
          <5> QED BY <2>2, <4>2, <5>1
        <4> QED BY <4>1, <4>2
      <3>2. CASE n = first
        BY <3>1, <3>2
      <3>3. CASE n # first
        <4>1. before[n] \in S /\ rank[before[n]] # k
          BY <2>1, <2>3, <3>3
        <4>2. e[before[n]] = h[before[n]]
          BY <4>1
        <4> QED BY <3>1, <3>3, <4>2
      <3> QED BY <3>2, <3>3
    <2>4. UpTo(e, k + 1)
      BY <2>3
    <2>5. \E q : UpTo(q, k + 1)
      <3> HIDE DEF UpTo, e
      <3> QED BY <2>4
    <2> HIDE DEF UpTo
    <2> QED BY <2>1, <2>5
  <1>3. T = Nat
    <2>1. T \subseteq Nat
      OBVIOUS
    <2> HIDE DEF T
    <2> QED BY <1>1, <1>2, <2>1, NaturalSet
  <1>4. PICK h : UpTo(h, N + 1)
    <2>1. N + 1 \in T
      BY <1>3
    <2> QED BY <2>1
  <1> DEFINE g == [n \in S |-> h[n]]
  <1>5. ASSUME NEW n \in S PROVE g[n] = Value(g, n)
    <2>1. rank[n] < N + 1
      OBVIOUS
    <2>2. g[n] = Value(h, n)
      BY <1>4, <2>1
    <2>3. CASE n # first
      BY <2>2, <2>3
    <2> QED BY <2>2, <2>3
  <1>6. g = [n \in S |-> Value(g, n)]
    BY <1>5
  <1> QED BY <1>6 DEF Recurs

(* Upwards from 0. *)
Rises(g, c, d, base, N) ==
    g = [n \in 0..N |-> IF n = 0 THEN base ELSE Step(c, d, g[n - 1], n)]

(* The equation has a solution. *)
LEMMA Rising ==
    ASSUME NEW c, NEW d, NEW base, NEW N \in Nat
    PROVE  \E g : Rises(g, c, d, base, N)
  <1> DEFINE S == 0..N
             before == [n \in S |-> n - 1]
             rank == [n \in S |-> n]
  <1>1. rank \in [S -> 0..N] /\ \A n \in S : n # 0 => before[n] \in S /\ rank[before[n]] < rank[n]
    OBVIOUS
  <1>2. \A n \in S : before[n] = n - 1
    OBVIOUS
  <1> HIDE DEF before, rank, S
  <1>3. PICK g : Recurs(g, c, d, base, S, 0, before)
    BY <1>1, Recursion
  <1>4. g = [n \in S |-> IF n = 0 THEN base ELSE Step(c, d, g[n - 1], n)]
    BY <1>2, <1>3 DEF Recurs
  <1> QED BY <1>4 DEF S, Rises

(* Downwards to 0. *)
Falls(g, c, d, base, N) ==
    g = [n \in 0..N |-> IF n = N THEN base ELSE Step(c, d, g[n + 1], n)]

(* The equation has a solution. *)
LEMMA Falling ==
    ASSUME NEW c, NEW d, NEW base, NEW N \in Nat
    PROVE  \E g : Falls(g, c, d, base, N)
  <1> DEFINE S == 0..N
             before == [n \in S |-> n + 1]
             rank == [n \in S |-> N - n]
  <1>1. rank \in [S -> 0..N] /\ \A n \in S : n # N => before[n] \in S /\ rank[before[n]] < rank[n]
    OBVIOUS
  <1>2. \A n \in S : before[n] = n + 1
    OBVIOUS
  <1> HIDE DEF before, rank, S
  <1>3. PICK g : Recurs(g, c, d, base, S, N, before)
    BY <1>1, Recursion
  <1>4. g = [n \in S |-> IF n = N THEN base ELSE Step(c, d, g[n + 1], n)]
    BY <1>2, <1>3 DEF Recurs
  <1> QED BY <1>4 DEF S, Falls
-----------------------------------------------------------------------------
(* The fold over a finite set. *)
FoldOver(c, d, base, set) == FoldSet(LAMBDA x, s : Step(c, d, s, x), base, set)

Pick(s) == CHOOSE x \in s : TRUE

(* The equation that defines it. *)
Gathers(g, c, d, base, set) ==
    g = [s \in SUBSET set |->
            IF s = {} THEN base ELSE Step(c, d, g[s \ {Pick(s)}], Pick(s))]

(* A set without the member that is taken first. *)
LEMMA PickOne ==
    ASSUME NEW set, IsFiniteSet(set)
    PROVE  /\ \A s \in SUBSET set : /\ IsFiniteSet(s) /\ Cardinality(s) \in Nat
                                    /\ Cardinality(s) <= Cardinality(set)
                                    /\ Cardinality(s) = 0 <=> s = {}
           /\ \A s \in SUBSET set : s # {} =>
                 /\ Pick(s) \in s /\ s \ {Pick(s)} \in SUBSET set
                 /\ Cardinality(s \ {Pick(s)}) = Cardinality(s) - 1
  <1>1. \A s \in SUBSET set : /\ IsFiniteSet(s) /\ Cardinality(s) \in Nat
                              /\ Cardinality(s) <= Cardinality(set)
    BY FS_Subset, FS_CardinalityType
  <1>2. \A s \in SUBSET set : Cardinality(s) = 0 <=> s = {}
    BY <1>1, FS_EmptySet
  <1>3. \A s \in SUBSET set : s # {} => Pick(s) \in s
    BY DEF Pick
  <1>4. \A s \in SUBSET set : s # {} =>
            /\ s \ {Pick(s)} \in SUBSET set
            /\ Cardinality(s \ {Pick(s)}) = Cardinality(s) - 1
    BY <1>1, <1>3, FS_RemoveElement
  <1> QED BY <1>1, <1>2, <1>3, <1>4

(* The equation of a fold over a finite set has a solution. *)
LEMMA GatherEquation ==
    ASSUME NEW c, NEW d, NEW base, NEW set, IsFiniteSet(set)
    PROVE  \E g : Gathers(g, c, d, base, set)
  <1> DEFINE Value(h, s) == IF s = {} THEN base
                            ELSE Step(c, d, h[s \ {Pick(s)}], Pick(s))
             UpTo(h, k) == \A s \in SUBSET set : Cardinality(s) <= k => h[s] = Value(h, s)
             T == {k \in Nat : \E h : UpTo(h, k)}
             n == Cardinality(set)
  <1>1. n \in Nat
    BY FS_CardinalityType
  <1>2. 0 \in T
    <2> DEFINE h == [s \in SUBSET set |-> base]
    <2>1. UpTo(h, 0)
      BY PickOne
    <2> QED BY <2>1
  <1>3. ASSUME NEW k \in T PROVE k + 1 \in T
    <2>1. k \in Nat /\ \E h : UpTo(h, k)
      OBVIOUS
    <2>2. PICK h : UpTo(h, k)
      BY <2>1
    <2> DEFINE e == [s \in SUBSET set |-> IF Cardinality(s) = k + 1 THEN Value(h, s) ELSE h[s]]
    <2>3. ASSUME NEW s \in SUBSET set, Cardinality(s) <= k + 1
          PROVE  e[s] = Value(e, s)
      <3> DEFINE z == Cardinality(s)
      <3>1. z \in Nat /\ z <= k + 1 /\ k \in Nat
        BY <2>3, <2>1, PickOne
      <3> HIDE DEF z
      <3>2. e[s] = Value(h, s)
        <4>1. CASE z = k + 1
          BY <4>1 DEF z
        <4>2. CASE z # k + 1
          <5>1. z <= k
            BY <3>1, <4>2
          <5> QED BY <5>1, <4>2, <2>2 DEF z
        <4> QED BY <4>1, <4>2
      <3>3. CASE s = {}
        BY <3>2, <3>3
      <3>4. CASE s # {}
        <4> DEFINE r == s \ {Pick(s)}
        <4>1. r \in SUBSET set /\ Cardinality(r) = z - 1
          BY <3>4, PickOne DEF z
        <4>2. Cardinality(r) # k + 1
          <5> HIDE DEF r
          <5> QED BY <4>1, <3>1
        <4>3. e[r] = h[r]
          BY <4>1, <4>2
        <4> QED BY <3>2, <3>4, <4>3
      <3> QED BY <3>3, <3>4
    <2>4. UpTo(e, k + 1)
      BY <2>3
    <2>5. \E q : UpTo(q, k + 1)
      <3> HIDE DEF UpTo, e
      <3> QED BY <2>4
    <2> HIDE DEF UpTo
    <2> QED BY <2>1, <2>5
  <1>4. T = Nat
    <2>1. T \subseteq Nat
      OBVIOUS
    <2> HIDE DEF T
    <2> QED BY <1>2, <1>3, <2>1, NaturalSet
  <1>5. PICK h : UpTo(h, n)
    BY <1>4, <1>1
  <1> DEFINE g == [s \in SUBSET set |-> h[s]]
  <1>6. ASSUME NEW s \in SUBSET set PROVE g[s] = Value(g, s)
    <2>1. g[s] = Value(h, s)
      BY <1>5, PickOne
    <2>2. CASE s # {}
      BY <2>1, <2>2, PickOne
    <2> QED BY <2>1, <2>2
  <1>7. g = [s \in SUBSET set |-> Value(g, s)]
    BY <1>6
  <1> QED BY <1>7 DEF Gathers

(* What every step keeps, the fold over a finite set keeps. *)
THEOREM FoldKeeps ==
    ASSUME NEW c, NEW d, NEW T, NEW base \in T, NEW set, IsFiniteSet(set),
           \A s \in T : \A x \in set : Step(c, d, s, x) \in T
    PROVE  FoldOver(c, d, base, set) \in T
  <1> DEFINE g == CHOOSE h : Gathers(h, c, d, base, set)
             K == {k \in Nat : \A s \in SUBSET set : Cardinality(s) = k => g[s] \in T}
  <1>1. Gathers(g, c, d, base, set)
    BY GatherEquation
  <1>2. FoldOver(c, d, base, set) = g[set]
    BY DEF FoldOver, FoldSet, MapThenFoldSet, Gathers, Pick
  <1> HIDE DEF g
  <1>3. 0 \in K
    <2>1. ASSUME NEW s \in SUBSET set, Cardinality(s) = 0 PROVE g[s] \in T
      <3>1. s = {}
        BY <2>1, PickOne
      <3> QED BY <1>1, <3>1 DEF Gathers
    <2> QED BY <2>1
  <1>4. ASSUME NEW k \in K PROVE k + 1 \in K
    <2>1. ASSUME NEW s \in SUBSET set, Cardinality(s) = k + 1 PROVE g[s] \in T
      <3>1. s # {}
        BY <2>1, PickOne
      <3>2. /\ s \ {Pick(s)} \in SUBSET set /\ Pick(s) \in set
            /\ Cardinality(s \ {Pick(s)}) = k
        BY <2>1, <3>1, PickOne
      <3>3. g[s \ {Pick(s)}] \in T
        BY <3>2
      <3>4. g[s] = Step(c, d, g[s \ {Pick(s)}], Pick(s))
        BY <1>1, <3>1 DEF Gathers
      <3> QED BY <3>2, <3>3, <3>4
    <2> QED BY <2>1
  <1>5. K = Nat
    <2>1. K \subseteq Nat
      OBVIOUS
    <2> HIDE DEF K
    <2> QED BY <1>3, <1>4, <2>1, NaturalSet
  <1>6. Cardinality(set) \in Nat /\ set \in SUBSET set
    BY FS_CardinalityType
  <1> QED BY <1>2, <1>5, <1>6
===============================================================================
