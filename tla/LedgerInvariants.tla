--------------------------- MODULE LedgerInvariants ---------------------------
(***************************************************************************)
(* What every step of the ledger keeps, and the proofs of it, one handler  *)
(* after the other: the shape of the ledger, and in every currency the gap *)
(* between what is held and what was issued, modulo a machine word.  First *)
(* comes how a sum changes with its terms.                                 *)
(***************************************************************************)
EXTENDS LedgerChain, FiniteSetTheorems, WellFoundedInduction, TLAPS

(* The step of the fold that releases what has matured, and the theorems   *)
(* about folds and sums.                                                   *)
ReleaseStep(time, d, t, u) ==
    IF u.at <= time THEN Credit(t, u.addr, Native, u.amt)
    ELSE [t EXCEPT !.unb = Append(@, u)]

Releasing == INSTANCE Folding WITH Step <- ReleaseStep

-----------------------------------------------------------------------------
(* Induction on the subsets of a finite set, for a set of them. *)
LEMMA FiniteSubsets ==
    ASSUME NEW S, IsFiniteSet(S), NEW T, 
           \A U \in SUBSET S : (\A V \in SUBSET U : V # U => V \in T) => U \in T
    PROVE  \A U \in SUBSET S : U \in T
  <1> DEFINE B == {U \in SUBSET S : U \notin T}
             R == StrictSubsetOrdering(S)
  <1> SUFFICES ASSUME B # {} PROVE FALSE
    OBVIOUS
  <1>1. IsWellFoundedOn(R, FiniteSubsetsOf(S))
    BY FS_StrictSubsetOrderingWellFounded
  <1>2. B \subseteq FiniteSubsetsOf(S)
    BY FS_Subset DEF FiniteSubsetsOf
  <1>3. PICK U \in B : \A V \in B : <<V, U>> \notin R
    <2> HIDE DEF B, R
    <2> QED BY <1>1, <1>2, WFMin
  <1>4. \A V \in SUBSET U : V # U => V \in T
    BY <1>3 DEF StrictSubsetOrdering
  <1> QED BY <1>3, <1>4

-----------------------------------------------------------------------------
(* Remainders: the number a remainder stands for, and what a common summand *)
(* leaves of an equation between remainders.                                *)
LEMMA Remainder ==
    ASSUME NEW m \in Nat, m > 0, NEW a \in Int
    PROVE  /\ a \div m \in Int /\ a % m \in Int
           /\ a = m * (a \div m) + (a % m)
           /\ 0 <= a % m /\ a % m < m
  BY SMT

(* The remainder is the only number below m that fits. *)
LEMMA RemainderUnique ==
    ASSUME NEW m \in Nat, m > 0, NEW a \in Int, NEW k \in Int, NEW r \in Int,
           0 <= r, r < m, a = r + k * m
    PROVE  a % m = r
  BY SMT

Congruent(m, a, b) == a % m = b % m

(* Congruent summands, congruent sums. *)
LEMMA ModuloAdd ==
    ASSUME NEW m \in Nat, m > 0, NEW a \in Int, NEW b \in Int, NEW c \in Int, NEW d \in Int,
           Congruent(m, a, b), Congruent(m, c, d)
    PROVE  Congruent(m, a + c, b + d)
  <1> DEFINE p == a \div m
             q == b \div m
             r == a % m
             u == c \div m
             v == d \div m
             w == c % m
             x == (b + d) \div m
             y == (b + d) % m
  <1>1. /\ p \in Int /\ q \in Int /\ r \in Int
        /\ a = m * p + r /\ b = m * q + r
    BY Remainder DEF Congruent
  <1>2. /\ u \in Int /\ v \in Int /\ w \in Int
        /\ c = m * u + w /\ d = m * v + w
    BY Remainder DEF Congruent
  <1>3. b + d \in Int
    OBVIOUS
  <1>4. /\ x \in Int /\ y \in Int /\ 0 <= y /\ y < m
        /\ b + d = m * x + y
    BY <1>3, Remainder
  <1> HIDE DEF p, q, r, u, v, w, x, y
  <1>5. a + c = y + (x + p - q + u - v) * m
    <2>1. a + c = m * p + m * u + (r + w) /\ b + d = m * q + m * v + (r + w)
      BY <1>1, <1>2
    <2>2. m * p + m * u - m * q - m * v + m * x = (x + p - q + u - v) * m
      BY <1>1, <1>2, <1>4, SMT
    <2> QED BY <1>1, <1>2, <1>4, <2>1, <2>2, SMT
  <1>6. (a + c) % m = y
    <2>1. a + c \in Int /\ x + p - q + u - v \in Int
      BY <1>1, <1>2, <1>4
    <2> QED BY <1>4, <1>5, <2>1, RemainderUnique
  <1> QED BY <1>6 DEF y, Congruent

-----------------------------------------------------------------------------
(* The equation that defines a sum, and that it has a solution. *)
SumSolves(g, f, S) ==
    g = [s \in SUBSET S |->
            IF s = {} THEN 0
            ELSE f[CHOOSE x \in s : TRUE] + g[s \ {CHOOSE x \in s : TRUE}]]

(* The equation of a sum has a solution. *)
LEMMA SumEquation ==
    ASSUME NEW S, IsFiniteSet(S), NEW f
    PROVE  \E g : SumSolves(g, f, S)
  <1> DEFINE Pick(s) == CHOOSE x \in s : TRUE
             Value(h, s) == IF s = {} THEN 0 ELSE f[Pick(s)] + h[s \ {Pick(s)}]
             UpTo(h, k) == \A s \in SUBSET S : Cardinality(s) <= k => h[s] = Value(h, s)
             T == {k \in Nat : \E h : UpTo(h, k)}
             n == Cardinality(S)
  <1>1. n \in Nat
    BY FS_CardinalityType
  <1>2. \A s \in SUBSET S : IsFiniteSet(s) /\ Cardinality(s) \in Nat /\ Cardinality(s) <= n
    BY FS_Subset, FS_CardinalityType
  <1>3. \A s \in SUBSET S : s # {} => Pick(s) \in s
    OBVIOUS
  <1> HIDE DEF Pick
  <1>4. \A s \in SUBSET S : s # {} =>
            s \ {Pick(s)} \in SUBSET S /\ Cardinality(s \ {Pick(s)}) = Cardinality(s) - 1
    BY <1>2, <1>3, FS_RemoveElement
  <1>5. \A s \in SUBSET S : Cardinality(s) = 0 <=> s = {}
    BY <1>2, FS_EmptySet
  <1>6. 0 \in T
    <2> DEFINE h == [s \in SUBSET S |-> 0]
    <2>1. UpTo(h, 0)
      BY <1>2, <1>5
    <2> QED BY <2>1
  <1>7. ASSUME NEW k \in T PROVE k + 1 \in T
    <2>1. k \in Nat /\ \E h : UpTo(h, k)
      OBVIOUS
    <2>2. PICK h : UpTo(h, k)
      BY <2>1
    <2> DEFINE e == [s \in SUBSET S |-> IF Cardinality(s) = k + 1 THEN Value(h, s) ELSE h[s]]
    <2>3. ASSUME NEW s \in SUBSET S, Cardinality(s) <= k + 1
          PROVE  e[s] = Value(e, s)
      <3> DEFINE z == Cardinality(s)
      <3>1. z \in Nat /\ z <= k + 1 /\ k \in Nat
        BY <2>3, <2>1, <1>2
      <3> HIDE DEF z
      <3>2. e[s] = Value(h, s)
        <4>1. CASE z = k + 1
          BY <4>1 DEF z
        <4>2. CASE z # k + 1
          <5>1. z <= k
            BY <3>1, <4>2
          <5> QED BY <5>1, <4>2, <2>2 DEF z
        <4> QED BY <4>1, <4>2
      <3>3. CASE s = {}
        BY <3>2, <3>3
      <3>4. CASE s # {}
        <4> DEFINE r == s \ {Pick(s)}
        <4>1. r \in SUBSET S /\ Cardinality(r) = z - 1
          BY <1>4, <3>4 DEF z
        <4>2. Cardinality(r) # k + 1
          <5> HIDE DEF r
          <5> QED BY <4>1, <3>1
        <4>3. e[r] = h[r]
          BY <4>1, <4>2
        <4> QED BY <3>2, <3>4, <4>3
      <3> QED BY <3>3, <3>4
    <2>4. UpTo(e, k + 1)
      BY <2>3
    <2>5. \E q : UpTo(q, k + 1)
      <3> HIDE DEF UpTo, e
      <3> QED BY <2>4
    <2> HIDE DEF UpTo
    <2> QED BY <2>1, <2>5
  <1>8. T = Nat
    <2>1. T \subseteq Nat
      OBVIOUS
    <2> HIDE DEF T
    <2> QED BY <1>6, <1>7, <2>1, Releasing!NaturalSet
  <1>9. PICK h : UpTo(h, n)
    BY <1>8, <1>1
  <1> DEFINE g == [s \in SUBSET S |-> h[s]]
  <1>10. ASSUME NEW s \in SUBSET S PROVE g[s] = Value(g, s)
    <2>1. g[s] = Value(h, s)
      BY <1>9, <1>2
    <2>2. CASE s # {}
      BY <2>1, <2>2, <1>4
    <2> QED BY <2>1, <2>2
  <1>11. g = [s \in SUBSET S |-> Value(g, s)]
    BY <1>10
  <1> QED BY <1>11 DEF SumSolves, Pick

(* A sum over a set is what any solution says of it, larger sets included. *)
LEMMA SumIsSolution ==
    ASSUME NEW S, IsFiniteSet(S), NEW f, NEW g, SumSolves(g, f, S), NEW U \in SUBSET S
    PROVE  SumFunctionOnSet(f, U) = g[U]
  <1> DEFINE h == CHOOSE e : SumSolves(e, f, U)
             T == {V \in SUBSET U : h[V] = g[V]}
  <1>1. IsFiniteSet(U)
    BY FS_Subset
  <1>2. SumSolves(h, f, U)
    BY <1>1, SumEquation
  <1>3. SumFunctionOnSet(f, U) = h[U]
    BY DEF SumFunctionOnSet, FoldFunctionOnSet, MapThenFoldSet, SumSolves
  <1> HIDE DEF h
  <1>4. ASSUME NEW V \in SUBSET U, \A W \in SUBSET V : W # V => W \in T
        PROVE  V \in T
    <2>1. CASE V = {}
      BY <2>1, <1>2 DEF SumSolves
    <2>2. CASE V # {}
      <3> DEFINE x == CHOOSE y \in V : TRUE
      <3>1. x \in V
        BY <2>2
      <3> HIDE DEF x
      <3>2. V \ {x} \in T
        BY <3>1, <1>4
      <3>3. /\ h[V] = f[x] + h[V \ {x}]
            /\ g[V] = f[x] + g[V \ {x}]
        BY <2>2, <1>2 DEF SumSolves, x
      <3> QED BY <3>2, <3>3
    <2> QED BY <2>1, <2>2
  <1>5. \A V \in SUBSET U : V \in T
    <2> HIDE DEF T
    <2> QED BY <1>1, <1>4, FiniteSubsets
  <1> QED BY <1>3, <1>5

(* The sum over nothing, and the sum over a set without one of its members. *)
THEOREM SumOfNone == \A f : SumFunctionOnSet(f, {}) = 0
  <1> TAKE f
  <1>1. IsFiniteSet({})
    BY FS_EmptySet
  <1>2. PICK g : SumSolves(g, f, {})
    BY <1>1, SumEquation
  <1>3. {} \in SUBSET {}
    OBVIOUS
  <1>4. SumFunctionOnSet(f, {}) = g[{}]
    BY <1>1, <1>2, <1>3, SumIsSolution
  <1> QED BY <1>2, <1>4 DEF SumSolves

(* One summand taken out. *)
THEOREM SumRemove ==
    ASSUME NEW S, IsFiniteSet(S), NEW f, \A x \in S : f[x] \in Int
    PROVE  /\ SumFunctionOnSet(f, S) \in Int
           /\ \A x \in S : /\ SumFunctionOnSet(f, S \ {x}) \in Int
                           /\ SumFunctionOnSet(f, S) = f[x] + SumFunctionOnSet(f, S \ {x})
  <1>1. PICK g : SumSolves(g, f, S)
    BY SumEquation
  <1>2. \A U \in SUBSET S : SumFunctionOnSet(f, U) = g[U]
    BY <1>1, SumIsSolution
  <1> DEFINE T == {U \in SUBSET S : g[U] \in Int /\ \A x \in U : g[U] = f[x] + g[U \ {x}]}
  <1>3. ASSUME NEW U \in SUBSET S, \A V \in SUBSET U : V # U => V \in T
        PROVE  U \in T
    <2>1. CASE U = {}
      BY <2>1, <1>1 DEF SumSolves
    <2>2. CASE U # {}
      <3> DEFINE p == CHOOSE y \in U : TRUE
      <3>1. p \in U
        BY <2>2
      <3> HIDE DEF p
      <3>2. g[U] = f[p] + g[U \ {p}]
        BY <2>2, <1>1 DEF SumSolves, p
      <3>3. U \ {p} \in T
        BY <1>3, <3>1
      <3>4. g[U] \in Int
        BY <3>1, <3>2, <3>3
      <3>5. ASSUME NEW x \in U PROVE g[U] = f[x] + g[U \ {x}]
        <4>1. CASE x = p
          BY <4>1, <3>2
        <4>2. CASE x # p
          <5>1. U \ {x} \in T
            BY <1>3
          <5>2. /\ x \in U \ {p} /\ p \in U \ {x}
                /\ (U \ {p}) \ {x} = (U \ {x}) \ {p}
            BY <4>2, <3>1
          <5> DEFINE A == g[U]
                     B == g[U \ {p}]
                     C == g[U \ {x}]
                     D == g[(U \ {p}) \ {x}]
          <5>3. B = f[x] + D /\ C = f[p] + D /\ A = f[p] + B
            BY <3>2, <3>3, <5>1, <5>2
          <5>4. A \in Int /\ B \in Int /\ C \in Int /\ f[x] \in Int /\ f[p] \in Int
            BY <3>1, <3>3, <3>4, <5>1
          <5>5. D \in Int
            <6>1. (U \ {p}) \ {x} \in T
              BY <1>3, <3>1
            <6> QED BY <6>1
          <5> HIDE DEF A, B, C, D
          <5>6. A = f[x] + C
            BY <5>3, <5>4, <5>5
          <5> QED BY <5>6 DEF A, C
        <4> QED BY <4>1, <4>2
      <3> QED BY <3>4, <3>5
    <2> QED BY <2>1, <2>2
  <1>4. \A U \in SUBSET S : U \in T
    <2> HIDE DEF T
    <2> QED BY <1>3, FiniteSubsets
  <1>5. \A U \in SUBSET S : g[U] \in Int /\ \A x \in U : g[U] = f[x] + g[U \ {x}]
    BY <1>4
  <1> QED BY <1>2, <1>5

(* Sums of the same terms are the same. *)
THEOREM SumSame ==
    ASSUME NEW S, IsFiniteSet(S), NEW f, NEW g, \A x \in S : f[x] \in Int /\ g[x] = f[x]
    PROVE  SumFunctionOnSet(g, S) = SumFunctionOnSet(f, S)
  <1> DEFINE T == {U \in SUBSET S : SumFunctionOnSet(g, U) = SumFunctionOnSet(f, U)}
  <1>1. ASSUME NEW U \in SUBSET S, \A V \in SUBSET U : V # U => V \in T
        PROVE  U \in T
    <2>1. CASE U = {}
      BY <2>1, SumOfNone
    <2>2. CASE U # {}
      <3>1. PICK x \in U : TRUE
        BY <2>2
      <3>2. IsFiniteSet(U)
        BY FS_Subset
      <3>3. /\ SumFunctionOnSet(g, U) = g[x] + SumFunctionOnSet(g, U \ {x})
            /\ SumFunctionOnSet(f, U) = f[x] + SumFunctionOnSet(f, U \ {x})
        BY <3>2, SumRemove
      <3>4. U \ {x} \in T
        BY <1>1
      <3> QED BY <3>3, <3>4
    <2> QED BY <2>1, <2>2
  <1>2. \A U \in SUBSET S : U \in T
    <2> HIDE DEF T
    <2> QED BY <1>1, FiniteSubsets
  <1> QED BY <1>2

(* One term changes, or one is added. *)
THEOREM SumChange ==
    ASSUME NEW S, IsFiniteSet(S), NEW x \in S, NEW f, NEW g, f[x] \in Int, g[x] \in Int,
           \A y \in S \ {x} : f[y] \in Int /\ g[y] = f[y]
    PROVE  SumFunctionOnSet(g, S) = SumFunctionOnSet(f, S) - f[x] + g[x]
  <1>1. IsFiniteSet(S \ {x})
    BY FS_RemoveElement
  <1>2. SumFunctionOnSet(g, S \ {x}) = SumFunctionOnSet(f, S \ {x})
    BY <1>1, SumSame
  <1>3. /\ SumFunctionOnSet(f, S \ {x}) \in Int
        /\ SumFunctionOnSet(f, S) = f[x] + SumFunctionOnSet(f, S \ {x})
        /\ SumFunctionOnSet(g, S) = g[x] + SumFunctionOnSet(g, S \ {x})
    BY SumRemove
  <1> QED BY <1>2, <1>3

(* One summand more. *)
THEOREM SumAdd ==
    ASSUME NEW S, IsFiniteSet(S), NEW x, x \notin S, NEW f, NEW g, g[x] \in Int,
           \A y \in S : f[y] \in Int /\ g[y] = f[y]
    PROVE  SumFunctionOnSet(g, S \cup {x}) = SumFunctionOnSet(f, S) + g[x]
  <1>1. IsFiniteSet(S \cup {x}) /\ (S \cup {x}) \ {x} = S
    BY FS_AddElement
  <1>2. SumFunctionOnSet(g, S \cup {x}) = g[x] + SumFunctionOnSet(g, S)
    BY <1>1, SumRemove
  <1>3. SumFunctionOnSet(g, S) = SumFunctionOnSet(f, S) /\ SumFunctionOnSet(f, S) \in Int
    BY SumSame, SumRemove
  <1> QED BY <1>2, <1>3

(* A sum of differences is the difference of the sums. *)
THEOREM SumMinus ==
    ASSUME NEW S, IsFiniteSet(S), NEW f, NEW g, NEW h,
           \A x \in S : f[x] \in Int /\ g[x] \in Int /\ h[x] = f[x] - g[x]
    PROVE  SumFunctionOnSet(h, S) = SumFunctionOnSet(f, S) - SumFunctionOnSet(g, S)
  <1> DEFINE T == {U \in SUBSET S : SumFunctionOnSet(h, U)
                                      = SumFunctionOnSet(f, U) - SumFunctionOnSet(g, U)}
  <1>1. ASSUME NEW U \in SUBSET S, \A V \in SUBSET U : V # U => V \in T
        PROVE  U \in T
    <2>1. CASE U = {}
      BY <2>1, SumOfNone
    <2>2. CASE U # {}
      <3>1. PICK x \in U : TRUE
        BY <2>2
      <3>2. IsFiniteSet(U) /\ IsFiniteSet(U \ {x})
        BY FS_Subset
      <3>3. U \ {x} \in T
        BY <1>1
      <3> DEFINE F == SumFunctionOnSet(f, U)
                 G == SumFunctionOnSet(g, U)
                 F1 == SumFunctionOnSet(f, U \ {x})
                 G1 == SumFunctionOnSet(g, U \ {x})
                 H1 == SumFunctionOnSet(h, U \ {x})
      <3>4. F \in Int /\ F1 \in Int /\ F = f[x] + F1
        BY <3>2, SumRemove
      <3>5. G \in Int /\ G1 \in Int /\ G = g[x] + G1
        BY <3>2, SumRemove
      <3>6. SumFunctionOnSet(h, U) = h[x] + H1
        BY <3>2, SumRemove
      <3>7. H1 = F1 - G1 /\ h[x] = f[x] - g[x] /\ f[x] \in Int /\ g[x] \in Int
        BY <3>3
      <3> HIDE DEF F, G, F1, G1, H1
      <3>8. SumFunctionOnSet(h, U) = F - G
        BY <3>4, <3>5, <3>6, <3>7
      <3> QED BY <3>8 DEF F, G
    <2> QED BY <2>1, <2>2
  <1>2. \A U \in SUBSET S : U \in T
    <2> HIDE DEF T
    <2> QED BY <1>1, FiniteSubsets
  <1> QED BY <1>2

(* A sum of amounts is an amount, and no less than that of a part of them. *)
THEOREM SumNat ==
    ASSUME NEW S, IsFiniteSet(S), NEW f, \A x \in S : f[x] \in Nat
    PROVE  /\ SumFunctionOnSet(f, S) \in Nat
           /\ \A U \in SUBSET S : SumFunctionOnSet(f, U) \in Nat
  <1> DEFINE T == {U \in SUBSET S : SumFunctionOnSet(f, U) \in Nat}
  <1>1. ASSUME NEW U \in SUBSET S, \A V \in SUBSET U : V # U => V \in T
        PROVE  U \in T
    <2>1. CASE U = {}
      BY <2>1, SumOfNone
    <2>2. CASE U # {}
      <3>1. PICK x \in U : TRUE
        BY <2>2
      <3>2. IsFiniteSet(U) /\ \A y \in U : f[y] \in Int
        BY FS_Subset
      <3>3. SumFunctionOnSet(f, U) = f[x] + SumFunctionOnSet(f, U \ {x})
        BY <3>2, SumRemove
      <3>4. U \ {x} \in T
        BY <1>1
      <3> QED BY <3>3, <3>4
    <2> QED BY <2>1, <2>2
  <1>2. \A U \in SUBSET S : U \in T
    <2> HIDE DEF T
    <2> QED BY <1>1, FiniteSubsets
  <1> QED BY <1>2

(* Sums whose terms agree modulo m agree modulo m. *)
THEOREM SumModulo ==
    ASSUME NEW m \in Nat, m > 0, NEW S, IsFiniteSet(S), NEW f, NEW g,
           \A x \in S : f[x] \in Int /\ g[x] \in Int /\ Congruent(m, f[x], g[x])
    PROVE  Congruent(m, SumFunctionOnSet(f, S), SumFunctionOnSet(g, S))
  <1> DEFINE T == {U \in SUBSET S : Congruent(m, SumFunctionOnSet(f, U), SumFunctionOnSet(g, U))}
  <1>1. ASSUME NEW U \in SUBSET S, \A V \in SUBSET U : V # U => V \in T
        PROVE  U \in T
    <2>1. CASE U = {}
      BY <2>1, SumOfNone DEF Congruent
    <2>2. CASE U # {}
      <3>1. PICK x \in U : TRUE
        BY <2>2
      <3>2. IsFiniteSet(U) /\ IsFiniteSet(U \ {x})
        BY FS_Subset
      <3> DEFINE F == SumFunctionOnSet(f, U)
                 G == SumFunctionOnSet(g, U)
                 F1 == SumFunctionOnSet(f, U \ {x})
                 G1 == SumFunctionOnSet(g, U \ {x})
      <3>3. Congruent(m, F1, G1)
        BY <1>1, <3>1
      <3>4. F1 \in Int /\ F = f[x] + F1
        BY <3>2, SumRemove
      <3>5. G1 \in Int /\ G = g[x] + G1
        BY <3>2, SumRemove
      <3>6. f[x] \in Int /\ g[x] \in Int /\ Congruent(m, f[x], g[x])
        BY <3>1
      <3> HIDE DEF F, G, F1, G1
      <3>7. Congruent(m, f[x] + F1, g[x] + G1)
        BY <3>3, <3>4, <3>5, <3>6, ModuloAdd
      <3> QED BY <3>4, <3>5, <3>7 DEF F, G
    <2> QED BY <2>1, <2>2
  <1>2. \A U \in SUBSET S : U \in T
    <2> HIDE DEF T
    <2> QED BY <1>1, FiniteSubsets
  <1> QED BY <1>2

(* The sum of a map: one key is set, or one is deleted. *)
THEOREM SumPut ==
    ASSUME NEW f, NEW g, NEW k, IsFiniteSet(DOMAIN f), DOMAIN g = DOMAIN f \cup {k},
           \A x \in DOMAIN f : f[x] \in Int, g[k] \in Int,
           \A x \in DOMAIN f \ {k} : g[x] = f[x]
    PROVE  /\ SumFunction(f) \in Int /\ SumFunction(g) \in Int
           /\ SumFunction(g) = SumFunction(f) - (IF k \in DOMAIN f THEN f[k] ELSE 0) + g[k]
  <1>1. SumFunctionOnSet(f, DOMAIN f) \in Int
    BY SumRemove
  <1>2. CASE k \in DOMAIN f
    <2>1. DOMAIN g = DOMAIN f
      BY <1>2
    <2>2. SumFunctionOnSet(g, DOMAIN f) = SumFunctionOnSet(f, DOMAIN f) - f[k] + g[k]
      BY <1>2, SumChange
    <2> QED BY <1>1, <1>2, <2>1, <2>2 DEF SumFunction
  <1>3. CASE k \notin DOMAIN f
    <2>1. SumFunctionOnSet(g, DOMAIN f \cup {k}) = SumFunctionOnSet(f, DOMAIN f) + g[k]
      BY <1>3, SumAdd
    <2> QED BY <1>1, <1>3, <2>1 DEF SumFunction
  <1> QED BY <1>2, <1>3

(* The sum of a function without one of its arguments. *)
THEOREM SumWithout ==
    ASSUME NEW f, NEW g, NEW k \in DOMAIN f, IsFiniteSet(DOMAIN f), DOMAIN g = DOMAIN f \ {k},
           \A x \in DOMAIN f : f[x] \in Int,
           \A x \in DOMAIN f \ {k} : g[x] = f[x]
    PROVE  /\ SumFunction(f) \in Int /\ SumFunction(g) \in Int
           /\ SumFunction(g) = SumFunction(f) - f[k]
  <1>1. IsFiniteSet(DOMAIN f \ {k})
    BY FS_RemoveElement
  <1>2. SumFunctionOnSet(g, DOMAIN f \ {k}) = SumFunctionOnSet(f, DOMAIN f \ {k})
    BY <1>1, SumSame
  <1>3. /\ SumFunctionOnSet(f, DOMAIN f) \in Int
        /\ SumFunctionOnSet(f, DOMAIN f \ {k}) \in Int
        /\ SumFunctionOnSet(f, DOMAIN f) = f[k] + SumFunctionOnSet(f, DOMAIN f \ {k})
    BY SumRemove
  <1> QED BY <1>2, <1>3 DEF SumFunction

(* The sum of a map of integers is one, and of amounts an amount. *)
THEOREM SumType ==
    ASSUME NEW f, IsFiniteSet(DOMAIN f)
    PROVE  /\ (\A x \in DOMAIN f : f[x] \in Int) => SumFunction(f) \in Int
           /\ (\A x \in DOMAIN f : f[x] \in Nat) => SumFunction(f) \in Nat
  BY SumRemove, SumNat DEF SumFunction

-----------------------------------------------------------------------------
Same(a, b) == Congruent(Word, a, b)

-----------------------------------------------------------------------------
(* The shape of a ledger. *)
Fields == {"acc", "tok", "val", "ctr", "wasm", "pool", "slashed", "unb", "supply",
           "fee", "height"}

Account == [bal : [Currencies -> Amounts], nonce : Nat, staked : Amounts]

AccOK(acc) ==
    /\ IsFiniteSet(DOMAIN acc)
    /\ \A a \in DOMAIN acc :
          /\ acc[a] \in Account
          /\ a \notin Addr => acc[a].nonce = 0 /\ acc[a].staked = 0

TokOK(tok) ==
    /\ DOMAIN tok \subseteq Symbols
    /\ \A t \in DOMAIN tok :
          "supply" \in DOMAIN tok[t] /\ tok[t].supply \in Amounts

(* What a validator is said to have been delegated is, as a word, the sum. *)
ValidatorOK(w) ==
    /\ w \in [stake : Amounts, delegated : Amounts, delegators : {w.delegators},
              missed : Nat, jailed : BOOLEAN, until : Int]
    /\ DOMAIN w.delegators \subseteq Addr
    /\ w.delegators \in [DOMAIN w.delegators -> Amounts]
    /\ Same(w.delegated, Sum(w.delegators))

ValOK(val) ==
    /\ DOMAIN val \subseteq Addr
    /\ \A v \in DOMAIN val : ValidatorOK(val[v])

Proposals ==
    [to : Addr, amount : Amounts, for : SUBSET Addr, against : SUBSET Addr,
     executed : BOOLEAN, rejected : BOOLEAN]

ContractOK(c) ==
    /\ {"token", "amount", "released", "status", "template"} \subseteq DOMAIN c
    /\ c.token \in Currencies
    /\ c.amount \in Amounts /\ c.amount > 0
    /\ c.released \in Amounts
    /\ c.status \in {"active", "completed", "refunded"}
    /\ c.template \in {"vesting", "escrow", "multisig", "dao"}
    /\ c.template = "vesting" =>
          /\ {"start", "end"} \subseteq DOMAIN c
          /\ c.start \in Int /\ c.end \in Int /\ c.start < c.end
    /\ c.template = "escrow" /\ c.status = "active" => c.released = 0
    /\ c.template \in {"multisig", "dao"} =>
          /\ {"proposals", "threshold"} \subseteq DOMAIN c
          /\ c.proposals \in Seq(Proposals)

CtrOK(ctr) ==
    /\ IsFiniteSet(DOMAIN ctr)
    /\ \A i \in DOMAIN ctr : ContractOK(ctr[i])

WasmOK(wasm) ==
    /\ IsFiniteSet(DOMAIN wasm)
    /\ \A w \in DOMAIN wasm :
          /\ {"code", "store", "bal", "calls"} \subseteq DOMAIN wasm[w]
          /\ wasm[w].bal \in Amounts
          /\ wasm[w].code \in DOMAIN Programs

PoolOK(pool) ==
    /\ pool \in [open : BOOLEAN, cms : Seq(Notes), nfs : SUBSET Nat, bal : Amounts]
    /\ ~pool.open => pool = EmptyLedger.pool

Entries == [addr : Addr, amt : Amounts, at : Int]

(* The supply is what was minted less what was burned. *)
SupplyOK(supply) ==
    /\ supply \in [total : Amounts, minted : Amounts, burned : Amounts]
    /\ supply.total = Minus(supply.minted, supply.burned)

Shape(s) ==
    /\ DOMAIN s = Fields
    /\ AccOK(s.acc)
    /\ TokOK(s.tok)
    /\ ValOK(s.val)
    /\ CtrOK(s.ctr)
    /\ WasmOK(s.wasm)
    /\ PoolOK(s.pool)
    /\ s.unb \in Seq(Entries)
    /\ SupplyOK(s.supply)
    /\ s.fee \in Nat /\ s.height \in Nat

-----------------------------------------------------------------------------
(* What is held of a currency less what was issued of it. *)
Owed(s, t) ==
    IF t = Native THEN s.supply.total
    ELSE IF t \in DOMAIN s.tok THEN s.tok[t].supply ELSE 0

Gap(s, t) ==
    InAccounts(s, t) + InContracts(s, t) + (IF t = Native THEN Locked(s) ELSE 0) - Owed(s, t)

Balanced(s) == \A t \in Currencies : Same(Gap(s, t), 0)

(* From s to o, the gap of t grows by x, as words, and no other changes. *)
Moves(s, o, t, x) ==
    \A u \in Currencies : Same(Gap(o, u), Gap(s, u) + (IF u = t THEN x ELSE 0))

(* A contract is named by a nonce its sender has used up. *)
IdsUsed(s) ==
    \A a \in Addr, n \in Nat :
        <<a, n>> \in DOMAIN s.ctr \cup DOMAIN s.wasm => n < NonceOf(s, a)

StakedOf(s, a) == IF a \in DOMAIN s.acc THEN s.acc[a].staked ELSE 0

(* The two records of every stake agree. *)
StakesExact(s) ==
    /\ \A a \in Addr : StakedOf(s, a) = StakeOf(s, a)
    /\ \A v \in DOMAIN s.val : v \in DOMAIN s.acc /\ s.val[v].stake > 0

(* What a contract owes at a time of the chain. *)
Solvent(c, time) ==
    /\ c.released <= c.amount
    /\ c.status = "completed" <=> c.released = c.amount
    /\ c.template = "vesting" => c.released <= Vested(c, time)
    /\ c.template \in {"multisig", "dao"} =>
          /\ Sum([p \in PaidBy(c) |-> c.proposals[p].amount]) = c.released
          /\ \A p \in DOMAIN c.proposals :
                /\ c.proposals[p].executed =>
                      /\ Cardinality(c.proposals[p].for) >= c.threshold
                      /\ ~c.proposals[p].rejected
                /\ c.proposals[p].for \cap c.proposals[p].against = {}

AllSolvent(s, time) == \A i \in DOMAIN s.ctr : Solvent(s.ctr[i], time)

-----------------------------------------------------------------------------
(* Arithmetic modulo a word. *)
LEMMA WordType ==
    /\ Word \in Nat /\ Word > 0
    /\ \A a \in Amounts : a \in Nat /\ a \in Int /\ 0 <= a /\ a < Word
    /\ 0 \in Amounts
  <1>1. Word \in Nat /\ Params \in [ParamNames -> Nat] /\ Params["JailMs"] < Word
    BY WordHoldsParams, ParamsAreNatural DEF ParamNames
  <1>2. Params["JailMs"] \in Nat
    BY <1>1 DEF ParamNames
  <1>3. Word \in Nat /\ Word > 0
    BY <1>1, <1>2
  <1>4. \A a \in Amounts : a \in Nat /\ a \in Int /\ 0 <= a /\ a < Word
    BY <1>3 DEF Amounts
  <1>5. 0 \in Amounts
    BY <1>3 DEF Amounts
  <1> QED BY <1>3, <1>4, <1>5

(* What is left of a number in a machine word. *)
LEMMA WordOf ==
    ASSUME NEW a \in Int
    PROVE  a % Word \in Amounts /\ Same(a % Word, a)
  <1> DEFINE r == a % Word
  <1>1. r \in Int /\ 0 <= r /\ r < Word
    BY WordType, Remainder
  <1>2. r % Word = r
    <2> HIDE DEF r
    <2>1. r = r + 0 * Word
      BY <1>1, WordType
    <2> QED BY <1>1, <2>1, WordType, RemainderUnique
  <1> QED BY <1>1, <1>2, WordType DEF Amounts, Same, Congruent

(* A sum wraps. *)
LEMMA PlusWord ==
    ASSUME NEW a \in Int, NEW b \in Int
    PROVE  Plus(a, b) \in Amounts /\ Same(Plus(a, b), a + b)
  BY WordOf DEF Plus

(* A difference wraps. *)
LEMMA MinusWord ==
    ASSUME NEW a \in Int, NEW b \in Int
    PROVE  Minus(a, b) \in Amounts /\ Same(Minus(a, b), a - b)
  BY WordOf DEF Minus

(* Amounts that agree as words are the same. *)
LEMMA SameAmount ==
    ASSUME NEW a \in Amounts, NEW b \in Amounts, Same(a, b)
    PROVE  a = b
  <1>1. /\ a \in Int /\ 0 <= a /\ a < Word /\ a = a + 0 * Word
        /\ b \in Int /\ 0 <= b /\ b < Word /\ b = b + 0 * Word
    BY WordType DEF Amounts
  <1>2. a % Word = a
    BY <1>1, WordType, RemainderUnique
  <1>3. b % Word = b
    BY <1>1, WordType, RemainderUnique
  <1> QED BY <1>2, <1>3 DEF Same, Congruent

(* No wrap when there is enough to take. *)
LEMMA MinusExact ==
    ASSUME NEW a \in Amounts, NEW b \in Nat, b <= a
    PROVE  Minus(a, b) = a - b
  <1>1. a \in Nat /\ a < Word /\ a - b \in Amounts /\ a - b \in Int
    BY WordType DEF Amounts
  <1>2. Minus(a, b) \in Amounts /\ Same(Minus(a, b), a - b)
    BY <1>1, MinusWord
  <1> QED BY <1>1, <1>2, SameAmount

(* Congruent summands, congruent sums. *)
LEMMA SameSum ==
    ASSUME NEW a \in Int, NEW b \in Int, NEW c \in Int, NEW d \in Int,
           Same(a, b), Same(c, d)
    PROVE  Same(a + c, b + d)
  BY WordType, ModuloAdd DEF Same

(* Congruence under a change of sign. *)
LEMMA SameNegated ==
    ASSUME NEW c \in Int, NEW d \in Int, Same(c, d)
    PROVE  Same(-c, -d)
  <1> DEFINE e == -c - d
  <1>1. e \in Int /\ Same(e, e)
    BY DEF Same, Congruent
  <1>2. c + e = -d /\ d + e = -c
    OBVIOUS
  <1> HIDE DEF e
  <1>3. Same(c + e, d + e)
    BY <1>1, SameSum
  <1>4. Same(-d, -c)
    BY <1>2, <1>3, Zenon
  <1> QED BY <1>4 DEF Same, Congruent

(* Congruent terms, congruent differences. *)
LEMMA SameDifference ==
    ASSUME NEW a \in Int, NEW b \in Int, NEW c \in Int, NEW d \in Int,
           Same(a, b), Same(c, d)
    PROVE  Same(a - c, b - d)
  <1> DEFINE e == -c
             f == -d
  <1>1. e \in Int /\ f \in Int /\ Same(e, f)
    BY SameNegated
  <1>2. a + e = a - c /\ b + f = b - d
    OBVIOUS
  <1> HIDE DEF e, f
  <1>3. Same(a + e, b + f)
    BY <1>1, SameSum
  <1> QED BY <1>2, <1>3

(* Congruence is transitive. *)
LEMMA SameTransitive ==
    ASSUME NEW a, NEW b, NEW c, Same(a, b), Same(b, c)
    PROVE  Same(a, c)
  BY DEF Same, Congruent

(* A share is a word. *)
LEMMA MulDivWord ==
    ASSUME NEW a \in Int, NEW b \in Int, NEW c \in Nat
    PROVE  MulDiv(a, b, c) \in Amounts
  <1>1. CASE c = 0
    BY <1>1, WordType DEF MulDiv, Amounts
  <1>2. CASE c # 0
    <2>1. a * b \in Int
      OBVIOUS
    <2>2. (a * b) \div c \in Int
      BY <1>2, <2>1, Remainder
    <2> QED BY <1>2, <2>2, WordOf DEF MulDiv
  <1> QED BY <1>1, <1>2

-----------------------------------------------------------------------------
(* The sums over a ledger are integers. *)
LEMMA SumTypes ==
    ASSUME NEW s, Shape(s), NEW t \in Currencies
    PROVE  /\ InAccounts(s, t) \in Nat /\ InAccounts(s, t) \in Int
           /\ InContracts(s, t) \in Int
           /\ Sum([v \in DOMAIN s.val |-> Weight(s.val[v])]) \in Nat
           /\ Sum([i \in DOMAIN s.unb |-> s.unb[i].amt]) \in Nat
           /\ Sum([w \in DOMAIN s.wasm |-> s.wasm[w].bal]) \in Nat
           /\ s.pool.bal \in Nat
           /\ Owed(s, t) \in Amounts
  <1>1. InAccounts(s, t) \in Nat
    <2> DEFINE f == [a \in DOMAIN s.acc |-> s.acc[a].bal[t]]
    <2>1. DOMAIN f = DOMAIN s.acc /\ InAccounts(s, t) = SumFunction(f)
      BY DEF InAccounts, Sum
    <2>2. \A x \in DOMAIN s.acc : f[x] \in Nat
      BY WordType DEF Shape, AccOK, Account
    <2>3. IsFiniteSet(DOMAIN f)
      BY <2>1 DEF Shape, AccOK
    <2> HIDE DEF f
    <2> QED BY <2>1, <2>2, <2>3, SumType
  <1>2. InContracts(s, t) \in Int
    <2> DEFINE f == [i \in DOMAIN s.ctr |-> IF s.ctr[i].token = t THEN Held(s.ctr[i]) ELSE 0]
    <2>1. DOMAIN f = DOMAIN s.ctr /\ InContracts(s, t) = SumFunction(f)
      BY DEF InContracts, Sum
    <2>2. ASSUME NEW x \in DOMAIN s.ctr PROVE f[x] \in Int
      <3>1. s.ctr[x].amount \in Int /\ s.ctr[x].released \in Int
        <4>1. ContractOK(s.ctr[x])
          BY DEF Shape, CtrOK
        <4> QED BY <4>1, WordType DEF ContractOK
      <3> QED BY <3>1 DEF Held
    <2>3. IsFiniteSet(DOMAIN f)
      BY <2>1 DEF Shape, CtrOK
    <2> HIDE DEF f
    <2> QED BY <2>1, <2>2, <2>3, SumType
  <1>3. Sum([v \in DOMAIN s.val |-> Weight(s.val[v])]) \in Nat
    <2> DEFINE f == [v \in DOMAIN s.val |-> Weight(s.val[v])]
    <2>1. DOMAIN f = DOMAIN s.val /\ Sum([v \in DOMAIN s.val |-> Weight(s.val[v])]) = SumFunction(f)
      BY DEF Sum
    <2>2. ASSUME NEW x \in DOMAIN s.val PROVE f[x] \in Nat
      <3>1. s.val[x].stake \in Nat /\ s.val[x].delegated \in Nat
        BY WordType DEF Shape, ValOK, ValidatorOK
      <3> QED BY <3>1 DEF Weight
    <2>3. IsFiniteSet(DOMAIN f)
      BY <2>1, NamesDiffer, FS_Subset DEF Shape, ValOK
    <2> HIDE DEF f
    <2> QED BY <2>1, <2>2, <2>3, SumType
  <1>4. Sum([i \in DOMAIN s.unb |-> s.unb[i].amt]) \in Nat
    <2> DEFINE f == [i \in DOMAIN s.unb |-> s.unb[i].amt]
    <2>1. DOMAIN f = DOMAIN s.unb /\ Sum([i \in DOMAIN s.unb |-> s.unb[i].amt]) = SumFunction(f)
      BY DEF Sum
    <2>2. ASSUME NEW x \in DOMAIN s.unb PROVE f[x] \in Nat
      <3>1. s.unb[x] \in Entries
        BY DEF Shape
      <3> QED BY <3>1, WordType DEF Entries
    <2>3. IsFiniteSet(DOMAIN f)
      <3> DEFINE m == Len(s.unb)
      <3>1. DOMAIN s.unb = 1..m /\ m \in Nat
        BY DEF Shape
      <3> HIDE DEF m, f
      <3>2. 1 \in Int /\ m \in Int
        BY <3>1
      <3>3. IsFiniteSet(1..m)
        BY <3>2, FS_Interval
      <3> QED BY <2>1, <3>1, <3>3
    <2> HIDE DEF f
    <2> QED BY <2>1, <2>2, <2>3, SumType
  <1>5. Sum([w \in DOMAIN s.wasm |-> s.wasm[w].bal]) \in Nat
    <2> DEFINE f == [w \in DOMAIN s.wasm |-> s.wasm[w].bal]
    <2>1. DOMAIN f = DOMAIN s.wasm /\ Sum([w \in DOMAIN s.wasm |-> s.wasm[w].bal]) = SumFunction(f)
      BY DEF Sum
    <2>2. \A x \in DOMAIN s.wasm : f[x] \in Nat
      BY WordType DEF Shape, WasmOK
    <2>3. IsFiniteSet(DOMAIN f)
      BY <2>1 DEF Shape, WasmOK
    <2> HIDE DEF f
    <2> QED BY <2>1, <2>2, <2>3, SumType
  <1>6. s.pool.bal \in Nat
    BY WordType DEF Shape, PoolOK
  <1>7. Owed(s, t) \in Amounts
    <2>1. s.supply.total \in Amounts /\ 0 \in Amounts
      BY WordType DEF Shape, SupplyOK, Amounts
    <2> QED BY <2>1 DEF Shape, TokOK, Owed
  <1> QED BY <1>1, <1>2, <1>3, <1>4, <1>5, <1>6, <1>7

(* Every part of the gap of a currency is a number. *)
LEMMA GapType ==
    ASSUME NEW s, Shape(s), NEW t \in Currencies
    PROVE  /\ Gap(s, t) \in Int /\ Locked(s) \in Nat /\ Locked(s) \in Int
           /\ InAccounts(s, t) \in Int /\ InContracts(s, t) \in Int
           /\ (IF t = Native THEN Locked(s) ELSE 0) \in Int /\ Owed(s, t) \in Int
           /\ Sum([v \in DOMAIN s.val |-> Weight(s.val[v])]) \in Int
           /\ Sum([i \in DOMAIN s.unb |-> s.unb[i].amt]) \in Int
           /\ Sum([w \in DOMAIN s.wasm |-> s.wasm[w].bal]) \in Int
           /\ s.pool.bal \in Int
  <1>1. Locked(s) \in Nat
    BY SumTypes DEF Locked
  <1>2. Owed(s, t) \in Int
    BY SumTypes, WordType
  <1>3. InAccounts(s, t) \in Int /\ InContracts(s, t) \in Int
    BY SumTypes
  <1>4. (IF t = Native THEN Locked(s) ELSE 0) \in Int
    BY <1>1
  <1> DEFINE a == InAccounts(s, t)
             b == InContracts(s, t)
             c == IF t = Native THEN Locked(s) ELSE 0
             d == Owed(s, t)
  <1>5. Gap(s, t) = a + b + c - d
    BY DEF Gap
  <1>6. a \in Int /\ b \in Int /\ c \in Int /\ d \in Int
    BY <1>2, <1>3, <1>4
  <1>7. Gap(s, t) \in Int
    <2> HIDE DEF a, b, c, d
    <2> QED BY <1>5, <1>6
  <1>8. /\ Sum([v \in DOMAIN s.val |-> Weight(s.val[v])]) \in Int
        /\ Sum([i \in DOMAIN s.unb |-> s.unb[i].amt]) \in Int
        /\ Sum([w \in DOMAIN s.wasm |-> s.wasm[w].bal]) \in Int
        /\ s.pool.bal \in Int
    BY SumTypes
  <1>9. Locked(s) \in Int
    BY <1>1
  <1> HIDE DEF a, b, c, d
  <1> QED BY <1>1, <1>2, <1>3, <1>4, <1>7, <1>8, <1>9

(* Movements add up. *)
LEMMA MovesThenMoves ==
    ASSUME NEW s, Shape(s), NEW o, Shape(o), NEW p, Shape(p), NEW t \in Currencies,
           NEW x \in Int, NEW y \in Int, Moves(s, o, t, x), Moves(o, p, t, y)
    PROVE  Moves(s, p, t, x + y)
  <1> SUFFICES ASSUME NEW u \in Currencies
               PROVE  Same(Gap(p, u), Gap(s, u) + (IF u = t THEN x + y ELSE 0))
    BY DEF Moves
  <1> DEFINE a == Gap(s, u)
             b == Gap(o, u)
             c == Gap(p, u)
             dx == IF u = t THEN x ELSE 0
             dy == IF u = t THEN y ELSE 0
  <1>1. a \in Int /\ b \in Int /\ c \in Int /\ dx \in Int /\ dy \in Int
    BY GapType
  <1>2. Same(b, a + dx) /\ Same(c, b + dy)
    BY DEF Moves
  <1>3. (a + dx) + dy = a + (IF u = t THEN x + y ELSE 0)
    BY <1>1
  <1> HIDE DEF a, b, c, dx, dy
  <1>4. Same(b + dy, (a + dx) + dy)
    <2>1. Same(dy, dy) /\ a + dx \in Int
      BY <1>1 DEF Same, Congruent
    <2> QED BY <1>1, <1>2, <2>1, SameSum
  <1>5. Same(c, (a + dx) + dy)
    BY <1>2, <1>4, SameTransitive
  <1> QED BY <1>3, <1>5 DEF a, c

(* A movement by nothing is one of any currency. *)
LEMMA MovesNothing ==
    ASSUME NEW s, Shape(s), NEW o, NEW t, NEW u \in Currencies, Moves(s, o, t, 0)
    PROVE  Moves(s, o, u, 0)
  BY GapType DEF Moves

(* A movement is known by its size modulo a word. *)
LEMMA MovesSame ==
    ASSUME NEW s, Shape(s), NEW o, NEW t, NEW x \in Int, NEW y \in Int,
           Moves(s, o, t, x), Same(x, y)
    PROVE  Moves(s, o, t, y)
  <1> SUFFICES ASSUME NEW u \in Currencies
               PROVE  Same(Gap(o, u), Gap(s, u) + (IF u = t THEN y ELSE 0))
    BY DEF Moves
  <1>1. Gap(s, u) \in Int /\ Same(Gap(s, u), Gap(s, u))
    BY GapType DEF Same, Congruent
  <1>2. Same(Gap(o, u), Gap(s, u) + (IF u = t THEN x ELSE 0))
    BY DEF Moves
  <1>3. CASE u = t
    <2>1. Same(Gap(s, u) + x, Gap(s, u) + y)
      BY <1>1, SameSum
    <2> QED BY <1>2, <1>3, <2>1, SameTransitive
  <1>4. CASE u # t
    BY <1>2, <1>4
  <1> QED BY <1>3, <1>4

(* Nothing moves where every gap stays. *)
LEMMA NoMove ==
    ASSUME NEW s, Shape(s), NEW t, NEW o, \A u \in Currencies : Gap(o, u) = Gap(s, u)
    PROVE  Moves(s, o, t, 0)
  <1> SUFFICES ASSUME NEW u \in Currencies
               PROVE  Same(Gap(o, u), Gap(s, u) + (IF u = t THEN 0 ELSE 0))
    BY DEF Moves
  <1>1. Gap(s, u) \in Int
    BY GapType
  <1> QED BY <1>1 DEF Same, Congruent

(* What moves a gap: one of its parts does. *)
LEMMA PartMoves ==
    ASSUME NEW s, Shape(s), NEW o, NEW t \in Currencies, NEW x \in Int,
           NEW P, NEW Q, P \in Int, Q \in Int, Same(Q, P + x),
           Gap(o, t) = Gap(s, t) - P + Q,
           \A u \in Currencies \ {t} : Gap(o, u) = Gap(s, u)
    PROVE  Moves(s, o, t, x)
  <1> SUFFICES ASSUME NEW u \in Currencies
               PROVE  Same(Gap(o, u), Gap(s, u) + (IF u = t THEN x ELSE 0))
    BY DEF Moves
  <1> DEFINE g == Gap(s, u)
  <1>1. g \in Int
    BY GapType
  <1> HIDE DEF g
  <1>2. CASE u = t
    <2>1. Same(g - P, g - P) /\ g - P \in Int /\ P + x \in Int
      BY <1>1 DEF Same, Congruent
    <2>2. Same(g - P + Q, g - P + (P + x))
      BY <2>1, SameSum
    <2>3. g - P + (P + x) = g + x
      BY <1>1
    <2> QED BY <1>2, <2>2, <2>3 DEF g
  <1>3. CASE u # t
    BY <1>1, <1>3 DEF g, Same, Congruent
  <1> QED BY <1>2, <1>3

(* The fields of a ledger that a step leaves alone. *)
SameBut(s, o, F) == \A f \in Fields \ F : o[f] = s[f]

-----------------------------------------------------------------------------
(* One part of a ledger changes: how the gap moves. *)

(* The purse of one account. *)
LEMMA AccMoves ==
    ASSUME NEW s, Shape(s), NEW o, Shape(o), SameBut(s, o, {"acc"}),
           NEW t \in Currencies, NEW x \in Int, NEW a,
           DOMAIN o.acc = DOMAIN s.acc \cup {a},
           \A b \in DOMAIN s.acc \ {a} : o.acc[b].bal = s.acc[b].bal,
           \A u \in Currencies \ {t} : o.acc[a].bal[u] = BalanceOf(s, a, u),
           Same(o.acc[a].bal[t], BalanceOf(s, a, t) + x)
    PROVE  Moves(s, o, t, x)
  <1>1. /\ o.tok = s.tok /\ o.val = s.val /\ o.ctr = s.ctr /\ o.wasm = s.wasm
        /\ o.pool = s.pool /\ o.unb = s.unb /\ o.supply = s.supply
    BY DEF SameBut, Fields
  <1>2. ASSUME NEW u \in Currencies
        PROVE  InAccounts(o, u) = InAccounts(s, u) - BalanceOf(s, a, u) + o.acc[a].bal[u]
    <2> DEFINE f == [b \in DOMAIN s.acc |-> s.acc[b].bal[u]]
               g == [b \in DOMAIN o.acc |-> o.acc[b].bal[u]]
    <2>1. IsFiniteSet(DOMAIN f) /\ DOMAIN g = DOMAIN f \cup {a}
      BY DEF Shape, AccOK
    <2>2. \A b \in DOMAIN f : f[b] \in Int
      BY WordType DEF Shape, AccOK, Account
    <2>3. g[a] \in Int
      BY WordType DEF Shape, AccOK, Account
    <2>4. \A b \in DOMAIN f \ {a} : g[b] = f[b]
      OBVIOUS
    <2>5. /\ (IF a \in DOMAIN f THEN f[a] ELSE 0) = BalanceOf(s, a, u)
          /\ g[a] = o.acc[a].bal[u]
          /\ InAccounts(s, u) = SumFunction(f) /\ InAccounts(o, u) = SumFunction(g)
      BY DEF BalanceOf, InAccounts, Sum
    <2> HIDE DEF f, g
    <2>6. SumFunction(g) = SumFunction(f) - (IF a \in DOMAIN f THEN f[a] ELSE 0) + g[a]
      BY <2>1, <2>2, <2>3, <2>4, SumPut
    <2> QED BY <2>5, <2>6, Zenon
  <1>3. /\ BalanceOf(s, a, t) \in Int /\ o.acc[a].bal[t] \in Int
        /\ \A u \in Currencies : BalanceOf(s, a, u) \in Int
    BY WordType DEF Shape, AccOK, Account, BalanceOf
  <1>4. ASSUME NEW u \in Currencies
        PROVE  Gap(o, u) = Gap(s, u) - BalanceOf(s, a, u) + o.acc[a].bal[u]
    <2>1. Gap(o, u) = InAccounts(o, u) + InContracts(s, u)
                         + (IF u = Native THEN Locked(s) ELSE 0) - Owed(s, u)
      BY <1>1 DEF Gap, InContracts, Locked, Owed
    <2> DEFINE p == InContracts(s, u)
               q == IF u = Native THEN Locked(s) ELSE 0
               r == Owed(s, u)
               i == InAccounts(s, u)
               e == BalanceOf(s, a, u)
               n == o.acc[a].bal[u]
    <2>2. p \in Int /\ q \in Int /\ r \in Int /\ i \in Int
      BY GapType
    <2>3. e \in Int /\ n \in Int
      BY WordType, <1>3 DEF Shape, AccOK, Account
    <2>4. Gap(s, u) = i + p + q - r /\ Gap(o, u) = i - e + n + p + q - r
      BY <1>2, <2>1 DEF Gap
    <2> HIDE DEF p, q, r, i, e, n
    <2>5. Gap(o, u) = Gap(s, u) - e + n
      BY <2>2, <2>3, <2>4
    <2> QED BY <2>5 DEF e, n
  <1>5. ASSUME NEW u \in Currencies \ {t} PROVE Gap(o, u) = Gap(s, u)
    <2>1. Gap(s, u) \in Int
      BY GapType
    <2>2. Gap(o, u) = Gap(s, u) - BalanceOf(s, a, u) + BalanceOf(s, a, u)
      BY <1>4
    <2> QED BY <1>3, <2>1, <2>2
  <1>6. Gap(o, t) = Gap(s, t) - BalanceOf(s, a, t) + o.acc[a].bal[t]
    BY <1>4
  <1> QED BY <1>3, <1>5, <1>6, PartMoves

(* The supply. *)
LEMMA SupplyMoves ==
    ASSUME NEW s, Shape(s), NEW o, Shape(o), SameBut(s, o, {"supply"}), NEW x \in Int,
           Same(o.supply.total, s.supply.total + x)
    PROVE  Moves(s, o, Native, -x)
  <1>1. /\ o.tok = s.tok /\ o.val = s.val /\ o.ctr = s.ctr /\ o.wasm = s.wasm
        /\ o.pool = s.pool /\ o.unb = s.unb /\ o.acc = s.acc
    BY DEF SameBut, Fields
  <1> DEFINE P == s.supply.total
             Q == o.supply.total
  <1>2. P \in Int /\ Q \in Int
    BY WordType DEF Shape, SupplyOK
  <1>3. Same(-Q, -P - x)
    <2>1. P + x \in Int /\ -(P + x) = -P - x
      BY <1>2
    <2>2. Same(-Q, -(P + x))
      BY <1>2, <2>1, SameNegated
    <2> QED BY <2>1, <2>2, Zenon
  <1>4. ASSUME NEW u \in Currencies
        PROVE  Gap(o, u) = IF u = Native THEN Gap(s, u) + P - Q ELSE Gap(s, u)
    <2> DEFINE i == InAccounts(s, u)
               j == InContracts(s, u)
               l == IF u = Native THEN Locked(s) ELSE 0
    <2>1. Gap(o, u) = i + j + l - Owed(o, u) /\ Gap(s, u) = i + j + l - Owed(s, u)
      <3>1. InAccounts(o, u) = i /\ InContracts(o, u) = j
        BY <1>1 DEF InContracts, InAccounts
      <3>2. Locked(o) = Locked(s)
        BY <1>1 DEF Locked
      <3>3. Gap(o, u) = i + j + l - Owed(o, u)
        BY <3>1, <3>2, Zenon DEF Gap
      <3>4. Gap(s, u) = i + j + l - Owed(s, u)
        BY Zenon DEF Gap
      <3> QED BY <3>3, <3>4
    <2>2. i \in Int /\ j \in Int /\ l \in Int
      BY GapType
    <2>3. u = Native => Owed(o, u) = Q /\ Owed(s, u) = P
      BY DEF Owed
    <2>4. u # Native => Owed(o, u) = Owed(s, u)
      BY <1>1 DEF Owed
    <2> HIDE DEF i, j, l, P, Q
    <2> QED BY <1>2, <2>1, <2>2, <2>3, <2>4
  <1>5. Native \in Currencies
    BY DEF Currencies
  <1> HIDE DEF P, Q
  <1>6. -P \in Int /\ -Q \in Int /\ -x \in Int /\ Gap(s, Native) \in Int
    <2>1. Gap(s, Native) \in Int
      BY <1>5, GapType
    <2> QED BY <1>2, <2>1
  <1>7. Gap(o, Native) = Gap(s, Native) - (-P) + (-Q) /\ -P - x = (-P) + (-x)
    BY <1>2, <1>4, <1>5, <1>6
  <1>8. Same(-Q, (-P) + (-x))
    BY <1>3, <1>7, Zenon
  <1>9. \A u \in Currencies \ {Native} : Gap(o, u) = Gap(s, u)
    BY <1>4
  <1> QED BY <1>5, <1>6, <1>7, <1>8, <1>9, PartMoves

(* The sum of a function that changes at one point. *)
LEMMA SumMoves ==
    ASSUME NEW f, NEW g, NEW k, IsFiniteSet(DOMAIN f), DOMAIN g = DOMAIN f \cup {k},
           \A b \in DOMAIN f : f[b] \in Int, g[k] \in Int,
           \A b \in DOMAIN f \ {k} : g[b] = f[b],
           NEW x \in Int, Same(g[k], (IF k \in DOMAIN f THEN f[k] ELSE 0) + x)
    PROVE  Same(SumFunction(g), SumFunction(f) + x)
  <1> DEFINE e == IF k \in DOMAIN f THEN f[k] ELSE 0
             n == g[k]
             F == SumFunction(f)
             G == SumFunction(g)
  <1>1. F \in Int /\ G = F - e + n
    BY SumPut
  <1>2. e \in Int /\ n \in Int /\ Same(n, e + x)
    OBVIOUS
  <1> HIDE DEF e, n, F, G
  <1>3. F - e \in Int /\ Same(F - e, F - e) /\ e + x \in Int
    BY <1>1, <1>2 DEF Same, Congruent
  <1>4. Same(F - e + n, F - e + (e + x))
    BY <1>2, <1>3, SameSum
  <1>5. F - e + (e + x) = F + x
    BY <1>1, <1>2
  <1>6. Same(F - e + n, F + x)
    BY <1>4, <1>5, Zenon
  <1> QED BY <1>1, <1>6 DEF F, G

(* Something locked up changes. *)
LEMMA LockedMoves ==
    ASSUME NEW s, Shape(s), NEW o, Shape(o), NEW x \in Int,
           \A u \in Currencies : /\ InAccounts(o, u) = InAccounts(s, u)
                                 /\ InContracts(o, u) = InContracts(s, u)
                                 /\ Owed(o, u) = Owed(s, u),
           Same(Locked(o), Locked(s) + x)
    PROVE  Moves(s, o, Native, x)
  <1> DEFINE P == Locked(s)
             Q == Locked(o)
  <1>1. Native \in Currencies
    BY DEF Currencies
  <1>2. P \in Int /\ Q \in Int
    BY <1>1, GapType
  <1>3. ASSUME NEW u \in Currencies
        PROVE  Gap(o, u) = IF u = Native THEN Gap(s, u) - P + Q ELSE Gap(s, u)
    <2> DEFINE i == InAccounts(s, u)
               j == InContracts(s, u)
               r == Owed(s, u)
    <2>1. i \in Int /\ j \in Int /\ r \in Int
      BY GapType
    <2>2. Gap(s, u) = i + j + (IF u = Native THEN P ELSE 0) - r
      BY Zenon DEF Gap
    <2>3. Gap(o, u) = i + j + (IF u = Native THEN Q ELSE 0) - r
      BY Zenon DEF Gap
    <2> HIDE DEF P, Q, i, j, r
    <2> QED BY <1>2, <2>1, <2>2, <2>3
  <1>4. Gap(o, Native) = Gap(s, Native) - P + Q
    BY <1>1, <1>3
  <1>5. \A u \in Currencies \ {Native} : Gap(o, u) = Gap(s, u)
    BY <1>3
  <1>6. Same(Q, P + x)
    OBVIOUS
  <1> HIDE DEF P, Q
  <1> QED BY <1>1, <1>2, <1>4, <1>5, <1>6, PartMoves

(* The parts of what is locked up. *)
InPool(s) == s.pool.bal
InStakes(s) == Sum([v \in DOMAIN s.val |-> Weight(s.val[v])])
InQueue(s) == Sum([i \in DOMAIN s.unb |-> s.unb[i].amt])
InPrograms(s) == Sum([w \in DOMAIN s.wasm |-> s.wasm[w].bal])

(* The four places where coins are locked. *)
LEMMA PartsOfLocked ==
    ASSUME NEW s, Shape(s)
    PROVE  /\ InPool(s) \in Int /\ InStakes(s) \in Int
           /\ InQueue(s) \in Int /\ InPrograms(s) \in Int
           /\ Locked(s) = InPool(s) + InStakes(s) + InQueue(s) + InPrograms(s)
  <1>1. Native \in Currencies
    BY DEF Currencies
  <1>2. Locked(s) = InPool(s) + InStakes(s) + InQueue(s) + InPrograms(s)
    BY Zenon DEF Locked, InPool, InStakes, InQueue, InPrograms
  <1> QED BY <1>1, <1>2, GapType DEF InPool, InStakes, InQueue, InPrograms

(* One of the four changes, and what is locked with it. *)
LEMMA LockedPart ==
    ASSUME NEW s, Shape(s), NEW o, Shape(o), NEW x \in Int,
           \/ /\ Same(InPool(o), InPool(s) + x) /\ InStakes(o) = InStakes(s)
              /\ InQueue(o) = InQueue(s) /\ InPrograms(o) = InPrograms(s)
           \/ /\ InPool(o) = InPool(s) /\ Same(InStakes(o), InStakes(s) + x)
              /\ InQueue(o) = InQueue(s) /\ InPrograms(o) = InPrograms(s)
           \/ /\ InPool(o) = InPool(s) /\ InStakes(o) = InStakes(s)
              /\ Same(InQueue(o), InQueue(s) + x) /\ InPrograms(o) = InPrograms(s)
           \/ /\ InPool(o) = InPool(s) /\ InStakes(o) = InStakes(s)
              /\ InQueue(o) = InQueue(s) /\ Same(InPrograms(o), InPrograms(s) + x)
    PROVE  Same(Locked(o), Locked(s) + x)
  <1>1. ASSUME NEW p \in Int, NEW q \in Int, NEW r \in Int,
               Locked(s) = p + r, Locked(o) = q + r, Same(q, p + x)
        PROVE  Same(Locked(o), Locked(s) + x)
    <2>1. p + x \in Int /\ Same(r, r)
      BY DEF Same, Congruent
    <2>2. Same(q + r, (p + x) + r)
      BY <1>1, <2>1, SameSum
    <2>3. (p + x) + r = (p + r) + x
      BY <1>1
    <2> QED BY <1>1, <2>2, <2>3, Zenon
  <1> DEFINE a == InPool(s)
             b == InStakes(s)
             c == InQueue(s)
             d == InPrograms(s)
             A == InPool(o)
             B == InStakes(o)
             C == InQueue(o)
             D == InPrograms(o)
  <1>2. /\ a \in Int /\ b \in Int /\ c \in Int /\ d \in Int
        /\ A \in Int /\ B \in Int /\ C \in Int /\ D \in Int
        /\ Locked(s) = a + b + c + d /\ Locked(o) = A + B + C + D
    BY PartsOfLocked
  <1>3. \/ Same(A, a + x) /\ B = b /\ C = c /\ D = d
        \/ A = a /\ Same(B, b + x) /\ C = c /\ D = d
        \/ A = a /\ B = b /\ Same(C, c + x) /\ D = d
        \/ A = a /\ B = b /\ C = c /\ Same(D, d + x)
    OBVIOUS
  <1> HIDE DEF a, b, c, d, A, B, C, D
  <1>4. CASE Same(A, a + x) /\ B = b /\ C = c /\ D = d
    <2> DEFINE r == b + c + d
    <2>1. r \in Int /\ Locked(s) = a + r /\ Locked(o) = A + r
      BY <1>2, <1>4
    <2> HIDE DEF r
    <2> QED BY <1>1, <1>2, <1>4, <2>1
  <1>5. CASE A = a /\ Same(B, b + x) /\ C = c /\ D = d
    <2> DEFINE r == a + c + d
    <2>1. r \in Int /\ Locked(s) = b + r /\ Locked(o) = B + r
      BY <1>2, <1>5
    <2> HIDE DEF r
    <2> QED BY <1>1, <1>2, <1>5, <2>1
  <1>6. CASE A = a /\ B = b /\ Same(C, c + x) /\ D = d
    <2> DEFINE r == a + b + d
    <2>1. r \in Int /\ Locked(s) = c + r /\ Locked(o) = C + r
      BY <1>2, <1>6
    <2> HIDE DEF r
    <2> QED BY <1>1, <1>2, <1>6, <2>1
  <1>7. CASE A = a /\ B = b /\ C = c /\ Same(D, d + x)
    <2> DEFINE r == a + b + c
    <2>1. r \in Int /\ Locked(s) = d + r /\ Locked(o) = D + r
      BY <1>2, <1>7
    <2> HIDE DEF r
    <2> QED BY <1>1, <1>2, <1>7, <2>1
  <1> QED BY <1>3, <1>4, <1>5, <1>6, <1>7

(* The pool. *)
LEMMA PoolMoves ==
    ASSUME NEW s, Shape(s), NEW o, Shape(o), SameBut(s, o, {"pool"}), NEW x \in Int,
           Same(o.pool.bal, s.pool.bal + x)
    PROVE  Moves(s, o, Native, x)
  <1>1. /\ o.tok = s.tok /\ o.val = s.val /\ o.ctr = s.ctr /\ o.wasm = s.wasm
        /\ o.unb = s.unb /\ o.supply = s.supply /\ o.acc = s.acc
    BY DEF SameBut, Fields
  <1>2. \A u \in Currencies : /\ InAccounts(o, u) = InAccounts(s, u)
                              /\ InContracts(o, u) = InContracts(s, u)
                              /\ Owed(o, u) = Owed(s, u)
    BY <1>1 DEF InAccounts, InContracts, Owed
  <1>3. /\ InStakes(o) = InStakes(s) /\ InQueue(o) = InQueue(s)
        /\ InPrograms(o) = InPrograms(s) /\ Same(InPool(o), InPool(s) + x)
    BY <1>1 DEF InStakes, InQueue, InPrograms, InPool
  <1> QED BY <1>2, <1>3, LockedPart, LockedMoves

(* The weight of one validator, which may be a new one. *)
LEMMA ValMoves ==
    ASSUME NEW s, Shape(s), NEW o, Shape(o), SameBut(s, o, {"acc", "val", "slashed"}),
           NEW x \in Int, NEW k, DOMAIN o.acc = DOMAIN s.acc,
           \A a \in DOMAIN s.acc : o.acc[a].bal = s.acc[a].bal,
           DOMAIN o.val = DOMAIN s.val \cup {k},
           \A v \in DOMAIN s.val \ {k} : o.val[v] = s.val[v],
           Same(Weight(o.val[k]), (IF k \in DOMAIN s.val THEN Weight(s.val[k]) ELSE 0) + x)
    PROVE  Moves(s, o, Native, x)
  <1>1. /\ o.tok = s.tok /\ o.ctr = s.ctr /\ o.wasm = s.wasm /\ o.pool = s.pool
        /\ o.unb = s.unb /\ o.supply = s.supply
    BY DEF SameBut, Fields
  <1>2. Same(InStakes(o), InStakes(s) + x)
    <2> DEFINE f == [v \in DOMAIN s.val |-> Weight(s.val[v])]
               g == [v \in DOMAIN o.val |-> Weight(o.val[v])]
    <2>1. IsFiniteSet(DOMAIN f) /\ DOMAIN g = DOMAIN f \cup {k}
      <3>1. DOMAIN s.val \subseteq Addr
        BY DEF Shape, ValOK
      <3> QED BY <3>1, NamesDiffer, FS_Subset
    <2>2. (\A b \in DOMAIN f : f[b] \in Int) /\ g[k] \in Int
      <3>1. ASSUME NEW w, ValidatorOK(w) PROVE Weight(w) \in Int
        <4>1. w.stake \in Int /\ w.delegated \in Int
          BY <3>1, WordType DEF ValidatorOK
        <4> QED BY <4>1 DEF Weight
      <3>2. /\ \A v \in DOMAIN s.val : ValidatorOK(s.val[v])
            /\ \A v \in DOMAIN o.val : ValidatorOK(o.val[v])
        BY DEF Shape, ValOK
      <3> QED BY <3>1, <3>2
    <2>3. /\ \A b \in DOMAIN f \ {k} : g[b] = f[b]
          /\ Same(g[k], (IF k \in DOMAIN f THEN f[k] ELSE 0) + x)
      OBVIOUS
    <2>4. InStakes(s) = SumFunction(f) /\ InStakes(o) = SumFunction(g)
      BY DEF InStakes, Sum
    <2> HIDE DEF f, g
    <2>5. Same(SumFunction(g), SumFunction(f) + x)
      BY <2>1, <2>2, <2>3, SumMoves
    <2> QED BY <2>4, <2>5
  <1>3. \A u \in Currencies : /\ InAccounts(o, u) = InAccounts(s, u)
                              /\ InContracts(o, u) = InContracts(s, u)
                              /\ Owed(o, u) = Owed(s, u)
    BY <1>1 DEF InAccounts, InContracts, Owed
  <1>4. /\ InQueue(o) = InQueue(s) /\ InPrograms(o) = InPrograms(s)
        /\ InPool(o) = InPool(s)
    BY <1>1 DEF InQueue, InPrograms, InPool
  <1> QED BY <1>2, <1>3, <1>4, LockedPart, LockedMoves

(* The balance of one program. *)
LEMMA WasmMoves ==
    ASSUME NEW s, Shape(s), NEW o, Shape(o), SameBut(s, o, {"wasm"}), NEW x \in Int,
           NEW k, DOMAIN o.wasm = DOMAIN s.wasm \cup {k},
           \A w \in DOMAIN s.wasm \ {k} : o.wasm[w] = s.wasm[w],
           Same(o.wasm[k].bal, (IF k \in DOMAIN s.wasm THEN s.wasm[k].bal ELSE 0) + x)
    PROVE  Moves(s, o, Native, x)
  <1>1. /\ o.tok = s.tok /\ o.val = s.val /\ o.ctr = s.ctr /\ o.pool = s.pool
        /\ o.unb = s.unb /\ o.supply = s.supply /\ o.acc = s.acc
    BY DEF SameBut, Fields
  <1>2. Same(InPrograms(o), InPrograms(s) + x)
    <2> DEFINE f == [w \in DOMAIN s.wasm |-> s.wasm[w].bal]
               g == [w \in DOMAIN o.wasm |-> o.wasm[w].bal]
    <2>1. IsFiniteSet(DOMAIN f) /\ DOMAIN g = DOMAIN f \cup {k}
      BY DEF Shape, WasmOK
    <2>2. (\A b \in DOMAIN f : f[b] \in Int) /\ g[k] \in Int
      BY WordType DEF Shape, WasmOK
    <2>3. /\ \A b \in DOMAIN f \ {k} : g[b] = f[b]
          /\ Same(g[k], (IF k \in DOMAIN f THEN f[k] ELSE 0) + x)
      OBVIOUS
    <2>4. InPrograms(s) = SumFunction(f) /\ InPrograms(o) = SumFunction(g)
      BY DEF InPrograms, Sum
    <2> HIDE DEF f, g
    <2>5. Same(SumFunction(g), SumFunction(f) + x)
      BY <2>1, <2>2, <2>3, SumMoves
    <2> QED BY <2>4, <2>5
  <1>3. \A u \in Currencies : /\ InAccounts(o, u) = InAccounts(s, u)
                              /\ InContracts(o, u) = InContracts(s, u)
                              /\ Owed(o, u) = Owed(s, u)
    BY <1>1 DEF InAccounts, InContracts, Owed
  <1>4. /\ InQueue(o) = InQueue(s) /\ InStakes(o) = InStakes(s)
        /\ InPool(o) = InPool(s)
    BY <1>1 DEF InQueue, InStakes, InPool
  <1> QED BY <1>2, <1>3, <1>4, LockedPart, LockedMoves

(* The unbonding queue. *)
LEMMA UnbMoves ==
    ASSUME NEW s, Shape(s), NEW o, Shape(o), SameBut(s, o, {"unb"}),
           NEW u \in Entries, o.unb = Append(s.unb, u)
    PROVE  Moves(s, o, Native, u.amt)
  <1>1. /\ o.tok = s.tok /\ o.val = s.val /\ o.ctr = s.ctr /\ o.wasm = s.wasm
        /\ o.pool = s.pool /\ o.supply = s.supply /\ o.acc = s.acc
    BY DEF SameBut, Fields
  <1> DEFINE k == Len(s.unb) + 1
  <1>2. /\ Len(s.unb) \in Nat /\ DOMAIN s.unb = 1..Len(s.unb)
        /\ DOMAIN o.unb = DOMAIN s.unb \cup {k} /\ k \notin DOMAIN s.unb
        /\ \A i \in DOMAIN s.unb : o.unb[i] = s.unb[i]
        /\ o.unb[k] = u
    <2>1. s.unb \in Seq(Entries)
      BY DEF Shape
    <2> QED BY <2>1
  <1>3. IsFiniteSet(DOMAIN s.unb)
    BY <1>2, FS_Interval
  <1>4. (\A i \in DOMAIN s.unb : s.unb[i] \in Entries) /\ u.amt \in Int
    <2>1. s.unb \in Seq(Entries)
      BY DEF Shape
    <2>2. u.amt \in Int
      BY WordType DEF Entries
    <2> QED BY <1>2, <2>1, <2>2
  <1> HIDE DEF k
  <1>5. Same(InQueue(o), InQueue(s) + u.amt)
    <2> DEFINE f == [i \in DOMAIN s.unb |-> s.unb[i].amt]
               g == [i \in DOMAIN o.unb |-> o.unb[i].amt]
    <2>1. IsFiniteSet(DOMAIN f) /\ DOMAIN g = DOMAIN f \cup {k}
      BY <1>2, <1>3
    <2>2. (\A b \in DOMAIN f : f[b] \in Int) /\ g[k] \in Int /\ g[k] = u.amt
      BY <1>2, <1>4, WordType DEF Entries
    <2>3. /\ \A b \in DOMAIN f \ {k} : g[b] = f[b]
          /\ (IF k \in DOMAIN f THEN f[k] ELSE 0) = 0
      BY <1>2
    <2>4. InQueue(s) = SumFunction(f) /\ InQueue(o) = SumFunction(g)
      BY DEF InQueue, Sum
    <2> DEFINE x == u.amt
    <2>5. x \in Int /\ g[k] = x
      BY <1>4, <2>2
    <2> HIDE DEF f, g, x
    <2>6. Same(g[k], (IF k \in DOMAIN f THEN f[k] ELSE 0) + x)
      <3>1. 0 + x = x
        BY <2>5
      <3> QED BY <2>3, <2>5, <3>1 DEF Same, Congruent
    <2>7. Same(SumFunction(g), SumFunction(f) + x)
      BY ONLY <2>1, <2>2, <2>3, <2>5, <2>6, SumMoves
    <2> QED BY <2>4, <2>7 DEF x
  <1>6. \A t \in Currencies : /\ InAccounts(o, t) = InAccounts(s, t)
                              /\ InContracts(o, t) = InContracts(s, t)
                              /\ Owed(o, t) = Owed(s, t)
    BY <1>1 DEF InAccounts, InContracts, Owed
  <1>7. /\ InPrograms(o) = InPrograms(s) /\ InStakes(o) = InStakes(s)
        /\ InPool(o) = InPool(s)
    BY <1>1 DEF InPrograms, InStakes, InPool
  <1> DEFINE x == u.amt
  <1>8. x \in Int /\ Same(InQueue(o), InQueue(s) + x)
    BY <1>4, <1>5
  <1> HIDE DEF x
  <1>9. Moves(s, o, Native, x)
    BY <1>6, <1>7, <1>8, LockedPart, LockedMoves
  <1> QED BY <1>9 DEF x

(* One contract, which may be a new one. *)
LEMMA CtrMoves ==
    ASSUME NEW s, Shape(s), NEW o, Shape(o), SameBut(s, o, {"ctr"}),
           NEW x \in Int, NEW k, DOMAIN o.ctr = DOMAIN s.ctr \cup {k},
           \A i \in DOMAIN s.ctr \ {k} : o.ctr[i] = s.ctr[i],
           k \in DOMAIN s.ctr => s.ctr[k].token = o.ctr[k].token,
           Same(Held(o.ctr[k]), (IF k \in DOMAIN s.ctr THEN Held(s.ctr[k]) ELSE 0) + x)
    PROVE  Moves(s, o, o.ctr[k].token, x)
  <1> DEFINE t == o.ctr[k].token
  <1>1. /\ o.tok = s.tok /\ o.val = s.val /\ o.acc = s.acc /\ o.wasm = s.wasm
        /\ o.pool = s.pool /\ o.unb = s.unb /\ o.supply = s.supply
    BY DEF SameBut, Fields
  <1>2. /\ \A i \in DOMAIN s.ctr : Held(s.ctr[i]) \in Int /\ ContractOK(s.ctr[i])
        /\ \A i \in DOMAIN o.ctr : Held(o.ctr[i]) \in Int /\ ContractOK(o.ctr[i])
    <2>1. ASSUME NEW c, ContractOK(c) PROVE Held(c) \in Int
      <3>1. c.amount \in Int /\ c.released \in Int
        BY <2>1, WordType DEF ContractOK
      <3> QED BY <3>1 DEF Held
    <2> QED BY <2>1 DEF Shape, CtrOK
  <1>3. t \in Currencies
    BY <1>2 DEF ContractOK
  <1>4. ASSUME NEW u \in Currencies
        PROVE  Same(InContracts(o, u), InContracts(s, u) + (IF u = t THEN x ELSE 0))
    <2> DEFINE f == [i \in DOMAIN s.ctr |-> IF s.ctr[i].token = u THEN Held(s.ctr[i]) ELSE 0]
               g == [i \in DOMAIN o.ctr |-> IF o.ctr[i].token = u THEN Held(o.ctr[i]) ELSE 0]
               e == IF u = t THEN x ELSE 0
    <2>1. IsFiniteSet(DOMAIN f) /\ DOMAIN g = DOMAIN f \cup {k}
      BY DEF Shape, CtrOK
    <2>2. (\A i \in DOMAIN f : f[i] \in Int) /\ g[k] \in Int
      BY <1>2
    <2>3. \A i \in DOMAIN f \ {k} : g[i] = f[i]
      OBVIOUS
    <2>4. Same(g[k], (IF k \in DOMAIN f THEN f[k] ELSE 0) + e)
      <3>1. CASE u = t
        BY <3>1
      <3>2. CASE u # t
        <4>1. g[k] = 0 /\ (IF k \in DOMAIN f THEN f[k] ELSE 0) = 0 /\ e = 0
          BY <3>2
        <4> HIDE DEF e, f, g
        <4>2. (IF k \in DOMAIN f THEN f[k] ELSE 0) + e = 0
          BY <4>1
        <4> QED BY <4>1, <4>2 DEF Same, Congruent
      <3> QED BY <3>1, <3>2
    <2>5. InContracts(s, u) = SumFunction(f) /\ InContracts(o, u) = SumFunction(g)
      BY DEF InContracts, Sum
    <2>6. e \in Int
      OBVIOUS
    <2> HIDE DEF f, g, e
    <2>7. Same(SumFunction(g), SumFunction(f) + e)
      BY <2>1, <2>2, <2>3, <2>4, <2>6, SumMoves
    <2> QED BY <2>5, <2>7 DEF e
  <1>5. ASSUME NEW u \in Currencies
        PROVE  Same(Gap(o, u), Gap(s, u) + (IF u = t THEN x ELSE 0))
    <2> DEFINE i == InAccounts(s, u)
               p == InContracts(s, u)
               q == InContracts(o, u)
               l == IF u = Native THEN Locked(s) ELSE 0
               r == Owed(s, u)
               e == IF u = t THEN x ELSE 0
    <2>1. i \in Int /\ p \in Int /\ q \in Int /\ l \in Int /\ r \in Int /\ e \in Int
      <3>1. InContracts(o, u) \in Int
        BY GapType
      <3>2. /\ InAccounts(s, u) \in Int /\ InContracts(s, u) \in Int
            /\ Owed(s, u) \in Int /\ (IF u = Native THEN Locked(s) ELSE 0) \in Int
        BY GapType
      <3> QED BY <3>1, <3>2
    <2>2. Gap(s, u) = i + p + l - r
      BY Zenon DEF Gap
    <2>3. Gap(o, u) = i + q + l - r
      <3>1. InAccounts(o, u) = i /\ Locked(o) = Locked(s) /\ Owed(o, u) = r
        BY <1>1 DEF InAccounts, Locked, Owed
      <3> QED BY <3>1, Zenon DEF Gap
    <2>4. Same(q, p + e)
      BY <1>4
    <2> HIDE DEF i, p, q, l, r, e
    <2> DEFINE z == i + l - r
    <2>5. z \in Int /\ Same(z, z) /\ p + e \in Int
      BY <2>1 DEF Same, Congruent
    <2>6. Gap(s, u) + e = (p + e) + z /\ Gap(o, u) = q + z
      BY <2>1, <2>2, <2>3
    <2> HIDE DEF z
    <2>7. Same(q + z, (p + e) + z)
      BY <2>1, <2>4, <2>5, SameSum
    <2>8. Same(Gap(o, u), Gap(s, u) + e)
      BY <2>6, <2>7, Zenon
    <2> QED BY <2>8 DEF e
  <1> QED BY <1>5 DEF Moves

(* The supply of one token, which may be a new one. *)
LEMMA TokMoves ==
    ASSUME NEW s, Shape(s), NEW o, Shape(o), SameBut(s, o, {"tok"}),
           NEW x \in Int, NEW t \in Symbols, DOMAIN o.tok = DOMAIN s.tok \cup {t},
           \A u \in DOMAIN s.tok \ {t} : o.tok[u] = s.tok[u],
           Same(o.tok[t].supply, (IF t \in DOMAIN s.tok THEN s.tok[t].supply ELSE 0) + x)
    PROVE  Moves(s, o, t, -x)
  <1>1. /\ o.ctr = s.ctr /\ o.val = s.val /\ o.acc = s.acc /\ o.wasm = s.wasm
        /\ o.pool = s.pool /\ o.unb = s.unb /\ o.supply = s.supply
    BY DEF SameBut, Fields
  <1>2. t \in Currencies /\ t # Native
    BY NamesDiffer DEF Currencies
  <1>3. ASSUME NEW u \in Currencies
        PROVE  Same(Owed(o, u), Owed(s, u) + (IF u = t THEN x ELSE 0))
    <2>1. CASE u = t
      BY <1>2, <2>1 DEF Owed
    <2>2. CASE u # t
      <3>1. Owed(o, u) = Owed(s, u) /\ Owed(s, u) \in Int
        BY <1>1, <2>2, GapType DEF Owed
      <3> QED BY <2>2, <3>1 DEF Same, Congruent
    <2> QED BY <2>1, <2>2
  <1>4. ASSUME NEW u \in Currencies
        PROVE  Same(Gap(o, u), Gap(s, u) + (IF u = t THEN -x ELSE 0))
    <2> DEFINE i == InAccounts(s, u)
               p == InContracts(s, u)
               l == IF u = Native THEN Locked(s) ELSE 0
               q == Owed(o, u)
               r == Owed(s, u)
               e == IF u = t THEN x ELSE 0
               y == -e
    <2>1. i \in Int /\ p \in Int /\ q \in Int /\ l \in Int /\ r \in Int /\ e \in Int
      <3>1. Owed(o, u) \in Int
        BY GapType
      <3>2. /\ InAccounts(s, u) \in Int /\ InContracts(s, u) \in Int
            /\ Owed(s, u) \in Int /\ (IF u = Native THEN Locked(s) ELSE 0) \in Int
        BY GapType
      <3> QED BY <3>1, <3>2
    <2>2. Gap(s, u) = i + p + l - r
      BY Zenon DEF Gap
    <2>3. Gap(o, u) = i + p + l - q
      <3>1. InAccounts(o, u) = i /\ Locked(o) = Locked(s) /\ InContracts(o, u) = p
        BY <1>1 DEF InAccounts, Locked, InContracts
      <3> QED BY <3>1, Zenon DEF Gap
    <2>4. Same(q, r + e)
      BY <1>3
    <2>5. y = IF u = t THEN -x ELSE 0
      OBVIOUS
    <2> HIDE DEF i, p, q, l, r, e
    <2> DEFINE z == i + p + l
    <2>6. z \in Int /\ Same(z, z) /\ r + e \in Int
      BY <2>1 DEF Same, Congruent
    <2>7. Gap(s, u) + y = z - (r + e) /\ Gap(o, u) = z - q
      BY <2>1, <2>2, <2>3
    <2> HIDE DEF z, y
    <2>8. Same(z - q, z - (r + e))
      BY <2>1, <2>4, <2>6, SameDifference
    <2>9. Same(Gap(o, u), Gap(s, u) + y)
      BY <2>7, <2>8, Zenon
    <2> QED BY <2>5, <2>9, Zenon
  <1> QED BY <1>4 DEF Moves

(* A validator leaves, with all its weight. *)
LEMMA ValLeaves ==
    ASSUME NEW s, Shape(s), NEW o, Shape(o), SameBut(s, o, {"val"}),
           NEW k \in DOMAIN s.val, o.val = Without(s.val, k)
    PROVE  Moves(s, o, Native, -Weight(s.val[k]))
  <1>1. /\ o.tok = s.tok /\ o.ctr = s.ctr /\ o.wasm = s.wasm /\ o.pool = s.pool
        /\ o.unb = s.unb /\ o.supply = s.supply /\ o.acc = s.acc
    BY DEF SameBut, Fields
  <1> DEFINE w == Weight(s.val[k])
             x == -w
  <1>2. w \in Int
    <2>1. ValidatorOK(s.val[k])
      BY DEF Shape, ValOK
    <2>2. s.val[k].stake \in Int /\ s.val[k].delegated \in Int
      BY <2>1, WordType DEF ValidatorOK
    <2> QED BY <2>2 DEF Weight
  <1>3. Same(InStakes(o), InStakes(s) + x)
    <2> DEFINE f == [v \in DOMAIN s.val |-> Weight(s.val[v])]
               g == [v \in DOMAIN o.val |-> Weight(o.val[v])]
    <2>1. IsFiniteSet(DOMAIN f) /\ DOMAIN g = DOMAIN f \ {k}
      <3>1. DOMAIN s.val \subseteq Addr
        BY DEF Shape, ValOK
      <3>2. IsFiniteSet(DOMAIN s.val)
        BY <3>1, NamesDiffer, FS_Subset
      <3>3. DOMAIN o.val = DOMAIN s.val \ {k}
        BY DEF Without
      <3> QED BY <3>2, <3>3
    <2>2. \A b \in DOMAIN f : f[b] \in Int
      <3>1. ASSUME NEW e, ValidatorOK(e) PROVE Weight(e) \in Int
        <4>1. e.stake \in Int /\ e.delegated \in Int
          BY <3>1, WordType DEF ValidatorOK
        <4> QED BY <4>1 DEF Weight
      <3>2. \A v \in DOMAIN s.val : ValidatorOK(s.val[v])
        BY DEF Shape, ValOK
      <3> QED BY <3>1, <3>2
    <2>3. (\A b \in DOMAIN f \ {k} : g[b] = f[b]) /\ f[k] = w /\ k \in DOMAIN f
      BY DEF Without
    <2>4. InStakes(s) = SumFunction(f) /\ InStakes(o) = SumFunction(g)
      BY DEF InStakes, Sum
    <2> HIDE DEF f, g, w
    <2>5. /\ SumFunction(f) \in Int /\ SumFunction(g) \in Int
          /\ SumFunction(g) = SumFunction(f) - f[k]
      BY <2>1, <2>2, <2>3, SumWithout
    <2>6. SumFunction(g) = SumFunction(f) + x
      BY <1>2, <2>3, <2>5
    <2> QED BY <2>4, <2>6 DEF Same, Congruent
  <1>4. \A u \in Currencies : /\ InAccounts(o, u) = InAccounts(s, u)
                              /\ InContracts(o, u) = InContracts(s, u)
                              /\ Owed(o, u) = Owed(s, u)
    BY <1>1 DEF InAccounts, InContracts, Owed
  <1>5. /\ InQueue(o) = InQueue(s) /\ InPrograms(o) = InPrograms(s)
        /\ InPool(o) = InPool(s)
    BY <1>1 DEF InQueue, InPrograms, InPool
  <1>6. x \in Int
    <2> HIDE DEF w
    <2> QED BY <1>2
  <1> HIDE DEF x
  <1>7. Moves(s, o, Native, x)
    BY <1>3, <1>4, <1>5, <1>6, LockedPart, LockedMoves
  <1> QED BY <1>7 DEF x

(* A step that leaves every amount where it was. *)
LEMMA StillMoves ==
    ASSUME NEW s, Shape(s), NEW o, NEW t, o.tok = s.tok, o.ctr = s.ctr, o.wasm = s.wasm,
           o.unb = s.unb, o.supply = s.supply, o.pool.bal = s.pool.bal,
           DOMAIN o.acc = DOMAIN s.acc,
           \A a \in DOMAIN s.acc : o.acc[a].bal = s.acc[a].bal,
           DOMAIN o.val = DOMAIN s.val,
           \A v \in DOMAIN s.val :
               o.val[v].stake = s.val[v].stake /\ o.val[v].delegated = s.val[v].delegated
    PROVE  Moves(s, o, t, 0)
  <1>1. ASSUME NEW u \in Currencies PROVE Gap(o, u) = Gap(s, u)
    <2>1. InAccounts(o, u) = InAccounts(s, u) /\ InContracts(o, u) = InContracts(s, u)
      BY DEF InAccounts, InContracts
    <2>2. Locked(o) = Locked(s)
      <3>1. [v \in DOMAIN o.val |-> Weight(o.val[v])] = [v \in DOMAIN s.val |-> Weight(s.val[v])]
        BY DEF Weight
      <3> QED BY <3>1 DEF Locked
    <2>3. Owed(o, u) = Owed(s, u)
      BY DEF Owed
    <2> QED BY <2>1, <2>2, <2>3, Zenon DEF Gap
  <1> QED BY <1>1, NoMove

-----------------------------------------------------------------------------
(* The primitives of the ledger. *)

(* From s to o only purses change. *)
Pays(s, o) ==
    /\ SameBut(s, o, {"acc"})
    /\ DOMAIN s.acc \subseteq DOMAIN o.acc
    /\ \A a \in Addr : NonceOf(o, a) = NonceOf(s, a) /\ StakedOf(o, a) = StakedOf(s, a)

(* One change of purses after another. *)
LEMMA PaysThenPays ==
    ASSUME NEW s, NEW o, NEW p, Pays(s, o), Pays(o, p)
    PROVE  Pays(s, p)
  BY DEF Pays, SameBut

(* A new account has the shape of an account. *)
LEMMA NewAccountOK ==
    /\ NewAccount \in Account /\ NewAccount.nonce = 0 /\ NewAccount.staked = 0
    /\ \A t \in Currencies : NewAccount.bal[t] = 0
  BY WordType DEF NewAccount, Account

(* acct *)
LEMMA AcctStep ==
    ASSUME NEW s, Shape(s), NEW a
    PROVE  /\ Shape(Acct(s, a)) /\ Pays(s, Acct(s, a)) /\ Moves(s, Acct(s, a), Native, 0)
           /\ DOMAIN Acct(s, a).acc = DOMAIN s.acc \cup {a}
           /\ \A b \in DOMAIN s.acc : Acct(s, a).acc[b] = s.acc[b]
           /\ a \notin DOMAIN s.acc => Acct(s, a).acc[a] = NewAccount
  <1>1. CASE a \in DOMAIN s.acc
    <2>1. Acct(s, a) = s
      BY <1>1 DEF Acct
    <2>2. Moves(s, s, Native, 0)
      BY NoMove
    <2> QED BY <1>1, <2>1, <2>2 DEF Pays, SameBut
  <1>2. CASE a \notin DOMAIN s.acc
    <2> DEFINE o == Acct(s, a)
               n == NewAccount
    <2>1. o = [s EXCEPT !.acc = Put(s.acc, a, n)]
      BY <1>2 DEF Acct
    <2>2. DOMAIN s = Fields /\ AccOK(s.acc)
      BY DEF Shape
    <2>3. DOMAIN o = Fields /\ o.acc = Put(s.acc, a, n) /\ \A f \in Fields \ {"acc"} : o[f] = s[f]
      BY <2>1, <2>2 DEF Fields
    <2> HIDE DEF o, n
    <2>4. /\ DOMAIN o.acc = DOMAIN s.acc \cup {a} /\ o.acc[a] = n
          /\ \A b \in DOMAIN s.acc : o.acc[b] = s.acc[b]
      BY <1>2, <2>3 DEF Put
    <2>5. AccOK(o.acc)
      <3>1. IsFiniteSet(DOMAIN o.acc)
        BY <2>2, <2>4, FS_AddElement DEF AccOK
      <3> QED BY <2>2, <2>4, <3>1, NewAccountOK DEF AccOK, n
    <2>6. Shape(o)
      BY <2>3, <2>5 DEF Shape, Fields
    <2>7. Pays(s, o)
      BY <1>2, <2>3, <2>4, NewAccountOK DEF Pays, SameBut, NonceOf, StakedOf, n
    <2>8. Moves(s, o, Native, 0)
      <3>1. \A u \in Currencies : o.acc[a].bal[u] = 0 /\ BalanceOf(s, a, u) = 0
        BY <1>2, <2>4, NewAccountOK DEF BalanceOf, n
      <3>2. Native \in Currencies
        BY DEF Currencies
      <3>3. Same(o.acc[a].bal[Native], BalanceOf(s, a, Native) + 0)
        BY <3>1, <3>2 DEF Same, Congruent
      <3>4. SameBut(s, o, {"acc"})
        BY <2>7 DEF Pays
      <3> QED BY <2>4, <2>6, <3>1, <3>2, <3>3, <3>4, AccMoves
    <2> QED BY <1>2, <2>4, <2>6, <2>7, <2>8 DEF o, n
  <1> QED BY <1>1, <1>2

(* A purse that exists gets or loses. *)
LEMMA PurseStep ==
    ASSUME NEW s, Shape(s), NEW a \in DOMAIN s.acc, NEW t \in Currencies, NEW x \in Int,
           NEW y \in Amounts, Same(y, s.acc[a].bal[t] + x),
           NEW o, o = [s EXCEPT !.acc[a].bal[t] = y]
    PROVE  /\ Shape(o) /\ Pays(s, o) /\ Moves(s, o, t, x)
           /\ DOMAIN o.acc = DOMAIN s.acc
  <1> DEFINE n == [s.acc[a] EXCEPT !.bal[t] = y]
  <1>1. DOMAIN s = Fields /\ AccOK(s.acc) /\ s.acc[a] \in Account
    BY DEF Shape, AccOK
  <1>2. DOMAIN o = Fields /\ o.acc = [s.acc EXCEPT ![a] = n] /\ \A f \in Fields \ {"acc"} : o[f] = s[f]
    BY <1>1 DEF Fields
  <1>3. /\ n \in Account /\ n.nonce = s.acc[a].nonce /\ n.staked = s.acc[a].staked
        /\ n.bal[t] = y /\ \A u \in Currencies \ {t} : n.bal[u] = s.acc[a].bal[u]
    BY <1>1 DEF Account
  <1> HIDE DEF n
  <1>4. /\ DOMAIN o.acc = DOMAIN s.acc /\ o.acc[a] = n
        /\ \A b \in DOMAIN s.acc \ {a} : o.acc[b] = s.acc[b]
    BY <1>2
  <1>5. AccOK(o.acc)
    BY <1>1, <1>3, <1>4 DEF AccOK
  <1>6. Shape(o)
    BY <1>2, <1>5 DEF Shape, Fields
  <1>7. Pays(s, o)
    BY <1>2, <1>3, <1>4 DEF Pays, SameBut, NonceOf, StakedOf
  <1>8. Moves(s, o, t, x)
    <2>1. SameBut(s, o, {"acc"})
      BY <1>7 DEF Pays
    <2>2. \A u \in Currencies : BalanceOf(s, a, u) = s.acc[a].bal[u]
      BY DEF BalanceOf
    <2>3. \A u \in Currencies \ {t} : o.acc[a].bal[u] = BalanceOf(s, a, u)
      BY <1>3, <1>4, <2>2
    <2>4. Same(o.acc[a].bal[t], BalanceOf(s, a, t) + x)
      BY <1>3, <1>4, <2>2
    <2>5. DOMAIN o.acc = DOMAIN s.acc \cup {a}
      BY <1>4
    <2>6. \A b \in DOMAIN s.acc \ {a} : o.acc[b].bal = s.acc[b].bal
      BY <1>4
    <2> QED BY <1>6, <2>1, <2>3, <2>4, <2>5, <2>6, AccMoves
  <1> QED BY <1>4, <1>6, <1>7, <1>8

(* Credit: the gap of the token grows by what an account gets. *)
LEMMA CreditStep ==
    ASSUME NEW s, Shape(s), NEW a, NEW t \in Currencies, NEW x \in Int
    PROVE  /\ Shape(Credit(s, a, t, x)) /\ Pays(s, Credit(s, a, t, x))
           /\ Moves(s, Credit(s, a, t, x), t, x)
           /\ DOMAIN Credit(s, a, t, x).acc = DOMAIN s.acc \cup {a}
  <1> DEFINE r == Acct(s, a)
             o == Credit(s, a, t, x)
             y == Plus(r.acc[a].bal[t], x)
  <1>1. /\ Shape(r) /\ Pays(s, r) /\ Moves(s, r, Native, 0)
        /\ DOMAIN r.acc = DOMAIN s.acc \cup {a}
    BY AcctStep
  <1>2. a \in DOMAIN r.acc
    BY <1>1
  <1>3. o = [r EXCEPT !.acc[a].bal[t] = y]
    BY DEF Credit
  <1> HIDE DEF r, o
  <1>4. r.acc[a].bal[t] \in Int
    BY <1>1, <1>2, WordType DEF Shape, AccOK, Account
  <1>5. y \in Amounts /\ Same(y, r.acc[a].bal[t] + x)
    BY <1>4, PlusWord
  <1> HIDE DEF y
  <1>6. Shape(o) /\ Pays(r, o) /\ Moves(r, o, t, x) /\ DOMAIN o.acc = DOMAIN r.acc
    BY <1>1, <1>2, <1>3, <1>5, PurseStep
  <1>7. Moves(s, r, t, 0)
    BY <1>1, MovesNothing
  <1>8. Moves(s, o, t, 0 + x)
    BY <1>1, <1>6, <1>7, MovesThenMoves
  <1>9. 0 + x = x
    OBVIOUS
  <1>10. Moves(s, o, t, x)
    BY <1>8, <1>9
  <1> QED BY <1>1, <1>6, <1>10, PaysThenPays DEF o

(* Debit: it shrinks by what an account gives. *)
LEMMA DebitStep ==
    ASSUME NEW s, Shape(s), NEW a \in DOMAIN s.acc, NEW t \in Currencies, NEW x \in Int
    PROVE  /\ Shape(Debit(s, a, t, x)) /\ Pays(s, Debit(s, a, t, x))
           /\ Moves(s, Debit(s, a, t, x), t, -x)
           /\ DOMAIN Debit(s, a, t, x).acc = DOMAIN s.acc
  <1> DEFINE o == Debit(s, a, t, x)
             b == s.acc[a].bal[t]
             y == Minus(b, x)
             z == -x
  <1>1. o = [s EXCEPT !.acc[a].bal[t] = y]
    BY DEF Debit
  <1>2. b \in Int
    BY WordType DEF Shape, AccOK, Account
  <1>3. y \in Amounts /\ Same(y, b - x)
    BY <1>2, MinusWord
  <1> HIDE DEF o, y
  <1>4. z \in Int /\ Same(y, b + z)
    <2> HIDE DEF b
    <2>1. z \in Int /\ b - x = b + z
      BY <1>2
    <2> QED BY <1>3, <2>1
  <1> HIDE DEF z
  <1>5. Shape(o) /\ Pays(s, o) /\ Moves(s, o, t, z) /\ DOMAIN o.acc = DOMAIN s.acc
    BY <1>1, <1>3, <1>4, PurseStep
  <1> QED BY <1>5 DEF o, z

(* BurnSupply: what is burned is owed no more. *)
LEMMA BurnStep ==
    ASSUME NEW s, Shape(s), NEW x \in Int
    PROVE  /\ Shape(BurnSupply(s, x)) /\ SameBut(s, BurnSupply(s, x), {"supply"})
           /\ Moves(s, BurnSupply(s, x), Native, x)
  <1> DEFINE o == BurnSupply(s, x)
             T == s.supply.total
             M == s.supply.minted
             B == s.supply.burned
             P == Minus(T, x)
             Q == Plus(B, x)
             z == -x
  <1>1. /\ DOMAIN s = Fields /\ s.supply \in [total : Amounts, minted : Amounts, burned : Amounts]
        /\ T = Minus(M, B)
    BY DEF Shape, SupplyOK
  <1>2. T \in Int /\ M \in Int /\ B \in Int
    BY <1>1, WordType
  <1>3. o = [s EXCEPT !.supply = [s.supply EXCEPT !.total = P, !.burned = Q]]
    BY <1>1 DEF BurnSupply, Fields
  <1>4. P \in Amounts /\ Same(P, T - x) /\ Q \in Amounts /\ Same(Q, B + x)
    BY <1>2, PlusWord, MinusWord
  <1>5. Same(T, M - B)
    BY <1>1, <1>2, MinusWord
  <1> HIDE DEF T, M, B
  <1>6. P = Minus(M, Q)
    <2> HIDE DEF P, Q
    <2>1. Q \in Int /\ P \in Int
      BY <1>4, WordType
    <2>2. Minus(M, Q) \in Amounts /\ Same(Minus(M, Q), M - Q)
      BY <2>1, <1>2, MinusWord
    <2>3. Same(T - x, (M - B) - x)
      <3>1. Same(x, x) /\ M - B \in Int
        BY <1>2 DEF Same, Congruent
      <3> QED BY <1>2, <1>5, <3>1, SameDifference
    <2>4. Same(M - Q, M - (B + x))
      <3>1. Same(M, M) /\ B + x \in Int
        BY <1>2 DEF Same, Congruent
      <3> QED BY <1>2, <1>4, <2>1, <3>1, SameDifference
    <2>5. (M - B) - x = M - (B + x)
      BY <1>2
    <2>6. Same(P, M - (B + x))
      BY <1>4, <2>3, <2>5, SameTransitive, Zenon
    <2>7. Same(M - (B + x), Minus(M, Q))
      BY <2>2, <2>4 DEF Same, Congruent
    <2> QED BY <1>4, <2>2, <2>6, <2>7, SameTransitive, SameAmount
  <1> HIDE DEF o, P, Q
  <1>7. /\ DOMAIN o = Fields /\ \A f \in Fields \ {"supply"} : o[f] = s[f]
        /\ o.supply = [s.supply EXCEPT !.total = P, !.burned = Q]
    BY <1>1, <1>3 DEF Fields
  <1>8. SupplyOK(o.supply)
    BY <1>1, <1>4, <1>6, <1>7 DEF SupplyOK, M
  <1>9. Shape(o)
    BY <1>7, <1>8 DEF Shape, Fields
  <1>10. SameBut(s, o, {"supply"})
    BY <1>7 DEF SameBut
  <1>11. o.supply.total = P
    BY <1>1, <1>7
  <1>12. z \in Int /\ T - x = T + z /\ -z = x
    BY <1>2
  <1>13. Same(o.supply.total, s.supply.total + z)
    <2>1. Same(P, T + z)
      BY <1>4, <1>12, Zenon
    <2> QED BY <1>11, <2>1 DEF T
  <1> HIDE DEF z
  <1>14. Moves(s, o, Native, -z)
    BY <1>9, <1>10, <1>12, <1>13, SupplyMoves
  <1>15. Moves(s, o, Native, x)
    BY <1>12, <1>14, Zenon
  <1> QED BY <1>9, <1>10, <1>15 DEF o

(* MintSupply: what is minted is owed, until an account has it. *)
LEMMA MintSupplyStep ==
    ASSUME NEW s, Shape(s), NEW x \in Int
    PROVE  /\ Shape(MintSupply(s, x)) /\ SameBut(s, MintSupply(s, x), {"supply"})
           /\ Moves(s, MintSupply(s, x), Native, -x)
  <1> DEFINE o == MintSupply(s, x)
             T == s.supply.total
             M == s.supply.minted
             B == s.supply.burned
             P == Plus(T, x)
             Q == Plus(M, x)
  <1>1. /\ DOMAIN s = Fields /\ s.supply \in [total : Amounts, minted : Amounts, burned : Amounts]
        /\ T = Minus(M, B)
    BY DEF Shape, SupplyOK
  <1>2. T \in Int /\ M \in Int /\ B \in Int
    BY <1>1, WordType
  <1>3. o = [s EXCEPT !.supply = [s.supply EXCEPT !.total = P, !.minted = Q]]
    BY <1>1 DEF MintSupply, Fields
  <1>4. P \in Amounts /\ Same(P, T + x) /\ Q \in Amounts /\ Same(Q, M + x)
    BY <1>2, PlusWord
  <1>5. Same(T, M - B)
    BY <1>1, <1>2, MinusWord
  <1> HIDE DEF T, M, B
  <1>6. P = Minus(Q, B)
    <2> HIDE DEF P, Q
    <2>1. Q \in Int /\ P \in Int
      BY <1>4, WordType
    <2>2. Minus(Q, B) \in Amounts /\ Same(Minus(Q, B), Q - B)
      BY <2>1, <1>2, MinusWord
    <2>3. Same(T + x, (M - B) + x)
      <3>1. Same(x, x) /\ M - B \in Int
        BY <1>2 DEF Same, Congruent
      <3> QED BY <1>2, <1>5, <3>1, SameSum
    <2>4. Same(Q - B, (M + x) - B)
      <3>1. Same(B, B) /\ M + x \in Int
        BY <1>2 DEF Same, Congruent
      <3> QED BY <1>2, <1>4, <2>1, <3>1, SameDifference
    <2>5. (M - B) + x = (M + x) - B
      BY <1>2
    <2>6. Same(P, (M + x) - B)
      BY <1>4, <2>3, <2>5, SameTransitive, Zenon
    <2>7. Same((M + x) - B, Minus(Q, B))
      BY <2>2, <2>4 DEF Same, Congruent
    <2> QED BY <1>4, <2>2, <2>6, <2>7, SameTransitive, SameAmount
  <1> HIDE DEF o, P, Q
  <1>7. /\ DOMAIN o = Fields /\ \A f \in Fields \ {"supply"} : o[f] = s[f]
        /\ o.supply = [s.supply EXCEPT !.total = P, !.minted = Q]
    BY <1>1, <1>3 DEF Fields
  <1>8. SupplyOK(o.supply)
    BY <1>1, <1>4, <1>6, <1>7 DEF SupplyOK, B
  <1>9. Shape(o)
    BY <1>7, <1>8 DEF Shape, Fields
  <1>10. SameBut(s, o, {"supply"})
    BY <1>7 DEF SameBut
  <1>11. o.supply.total = P
    BY <1>1, <1>7
  <1>12. Same(o.supply.total, s.supply.total + x)
    BY <1>4, <1>11 DEF T
  <1>13. Moves(s, o, Native, -x)
    BY <1>9, <1>10, <1>12, SupplyMoves
  <1> QED BY <1>9, <1>10, <1>13 DEF o

(* The queue grows by an entry. *)
LEMMA QueueStep ==
    ASSUME NEW s, Shape(s), NEW u \in Entries, NEW o, o = [s EXCEPT !.unb = Append(s.unb, u)]
    PROVE  Shape(o) /\ SameBut(s, o, {"unb"}) /\ Moves(s, o, Native, u.amt)
  <1>1. DOMAIN s = Fields /\ s.unb \in Seq(Entries)
    BY DEF Shape
  <1>2. DOMAIN o = Fields /\ o.unb = Append(s.unb, u) /\ \A f \in Fields \ {"unb"} : o[f] = s[f]
    BY <1>1 DEF Fields
  <1>3. o.unb \in Seq(Entries)
    BY <1>1, <1>2
  <1>4. Shape(o)
    BY <1>2, <1>3 DEF Shape, Fields
  <1>5. SameBut(s, o, {"unb"})
    BY <1>2 DEF SameBut
  <1>6. Moves(s, o, Native, u.amt)
    BY <1>2, <1>4, <1>5, UnbMoves
  <1> QED BY <1>4, <1>5, <1>6

(* What starts to unbond joins the queue. *)
LEMMA UnbondStep ==
    ASSUME NEW s, Shape(s), NEW a \in Addr, NEW x \in Amounts, NEW time \in Nat
    PROVE  /\ Shape(Unbond(s, a, x, time)) /\ SameBut(s, Unbond(s, a, x, time), {"unb"})
           /\ Moves(s, Unbond(s, a, x, time), Native, x)
  <1> DEFINE o == Unbond(s, a, x, time)
             u == Entry(a, x, time + Params.UnbondingMs)
  <1>1. Params.UnbondingMs \in Nat
    BY ParamsAreNatural DEF ParamNames
  <1>2. u \in Entries /\ u.amt = x
    BY <1>1 DEF Entries, Entry
  <1>3. o = [s EXCEPT !.unb = Append(s.unb, u)]
    BY DEF Unbond
  <1> HIDE DEF o, u
  <1>4. Shape(o) /\ SameBut(s, o, {"unb"}) /\ Moves(s, o, Native, u.amt)
    BY <1>2, <1>3, QueueStep
  <1> QED BY <1>2, <1>4 DEF o

-----------------------------------------------------------------------------
(* Steps that neither make nor lose anything. *)

(* Nonces stay, and nobody disappears. *)
Present(s, o) ==
    /\ DOMAIN s.acc \subseteq DOMAIN o.acc
    /\ \A a \in Addr : NonceOf(o, a) = NonceOf(s, a)

Neutral(s, o) == Shape(o) /\ Moves(s, o, Native, 0) /\ Present(s, o)

SameStakes(s, o) == o.val = s.val /\ \A a \in Addr : StakedOf(o, a) = StakedOf(s, a)

SameContracts(s, o) == o.ctr = s.ctr /\ o.wasm = s.wasm

(* The native coin is a currency. *)
LEMMA NativeCurrency == Native \in Currencies
  BY DEF Currencies

(* Out and back in. *)
LEMMA MovesBack ==
    ASSUME NEW s, Shape(s), NEW o, Shape(o), NEW p, Shape(p), NEW t \in Currencies,
           NEW x \in Int, NEW y \in Int, Moves(s, o, t, x), Moves(o, p, t, y), x + y = 0
    PROVE  Moves(s, p, Native, 0)
  <1>1. Moves(s, p, t, x + y)
    BY MovesThenMoves
  <1>2. Moves(s, p, t, 0)
    BY <1>1, Zenon
  <1> QED BY <1>2, NativeCurrency, MovesNothing

(* There and back by the same amount. *)
LEMMA MovesForth ==
    ASSUME NEW s, Shape(s), NEW o, Shape(o), NEW p, Shape(p), NEW t \in Currencies,
           NEW x \in Int,
           \/ Moves(s, o, t, x) /\ Moves(o, p, t, -x)
           \/ Moves(s, o, t, -x) /\ Moves(o, p, t, x)
    PROVE  Moves(s, p, Native, 0)
  <1> DEFINE y == -x
  <1>1. y \in Int /\ x + y = 0 /\ y + x = 0
    OBVIOUS
  <1>2. \/ Moves(s, o, t, x) /\ Moves(o, p, t, y)
        \/ Moves(s, o, t, y) /\ Moves(o, p, t, x)
    OBVIOUS
  <1> HIDE DEF y
  <1> QED BY <1>1, <1>2, MovesBack

(* Two neutral steps make one. *)
LEMMA NeutralThenNeutral ==
    ASSUME NEW s, Shape(s), NEW o, NEW p, Neutral(s, o), Neutral(o, p)
    PROVE  Neutral(s, p)
  <1>1. Moves(s, p, Native, 0)
    BY NativeCurrency, MovesBack DEF Neutral
  <1> QED BY <1>1 DEF Neutral, Present

(* A neutral step keeps every gap closed. *)
LEMMA NeutralBalances ==
    ASSUME NEW s, Shape(s), NEW o, Neutral(s, o), Balanced(s)
    PROVE  Balanced(o)
  <1> SUFFICES ASSUME NEW t \in Currencies PROVE Same(Gap(o, t), 0)
    BY DEF Balanced
  <1>1. Gap(s, t) \in Int /\ Same(Gap(s, t), 0)
    BY GapType DEF Balanced
  <1>2. Same(Gap(o, t), Gap(s, t) + (IF t = Native THEN 0 ELSE 0))
    BY DEF Neutral, Moves
  <1>3. Gap(s, t) + (IF t = Native THEN 0 ELSE 0) = Gap(s, t)
    BY <1>1
  <1> QED BY <1>1, <1>2, <1>3, SameTransitive

(* A change of purses leaves everything else. *)
LEMMA PaysPresent ==
    ASSUME NEW s, NEW o, Pays(s, o)
    PROVE  /\ Present(s, o) /\ SameStakes(s, o)
           /\ o.ctr = s.ctr /\ o.wasm = s.wasm /\ o.tok = s.tok /\ o.pool = s.pool
           /\ o.unb = s.unb /\ o.supply = s.supply /\ o.slashed = s.slashed
           /\ o.fee = s.fee /\ o.height = s.height
  BY DEF Pays, SameBut, Present, SameStakes, Fields

-----------------------------------------------------------------------------
(* Tokens. *)
LEMMA TransferStep ==
    ASSUME NEW s, Shape(s), NEW a \in DOMAIN s.acc, NEW b, NEW t \in Currencies, NEW x \in Int
    PROVE  /\ Neutral(s, Credit(Debit(s, a, t, x), b, t, x))
           /\ Pays(s, Credit(Debit(s, a, t, x), b, t, x))
  <1> DEFINE d == Debit(s, a, t, x)
             o == Credit(d, b, t, x)
  <1>1. Shape(d) /\ Pays(s, d) /\ Moves(s, d, t, -x)
    BY DebitStep
  <1> HIDE DEF d
  <1>2. Shape(o) /\ Pays(d, o) /\ Moves(d, o, t, x)
    BY <1>1, CreditStep
  <1> HIDE DEF o
  <1>3. Moves(s, o, Native, 0)
    BY <1>1, <1>2, MovesForth
  <1>4. Pays(s, o)
    BY <1>1, <1>2, PaysThenPays
  <1>5. Neutral(s, o) /\ Pays(s, o)
    BY <1>2, <1>3, <1>4, PaysPresent DEF Neutral
  <1> QED BY <1>5 DEF d, o

(* A token is issued to somebody: the supply grows by what is credited. *)
LEMMA IssueStep ==
    ASSUME NEW s, Shape(s), NEW a, NEW t \in Symbols, NEW x \in Int, NEW r,
           "supply" \in DOMAIN r, r.supply \in Amounts,
           Same(r.supply, (IF t \in DOMAIN s.tok THEN s.tok[t].supply ELSE 0) + x),
           NEW o, o = [Credit(s, a, t, x) EXCEPT !.tok = Put(s.tok, t, r)]
    PROVE  Neutral(s, o) /\ SameStakes(s, o) /\ SameContracts(s, o)
  <1> DEFINE c == Credit(s, a, t, x)
  <1>1. t \in Currencies
    BY DEF Currencies
  <1>2. Shape(c) /\ Pays(s, c) /\ Moves(s, c, t, x)
    BY <1>1, CreditStep
  <1>3. DOMAIN c = Fields /\ c.tok = s.tok /\ c.ctr = s.ctr /\ c.wasm = s.wasm
    BY <1>2, PaysPresent DEF Shape
  <1> HIDE DEF c
  <1>4. /\ DOMAIN o = Fields /\ \A f \in Fields \ {"tok"} : o[f] = c[f]
        /\ o.tok = Put(s.tok, t, r)
    BY <1>3 DEF Fields, c
  <1>5. /\ DOMAIN o.tok = DOMAIN s.tok \cup {t} /\ o.tok[t] = r
        /\ \A u \in DOMAIN s.tok \ {t} : o.tok[u] = s.tok[u]
    BY <1>4 DEF Put
  <1>6. TokOK(o.tok)
    BY <1>2, <1>3, <1>5 DEF TokOK, Shape
  <1>7. Shape(o)
    BY <1>2, <1>4, <1>6 DEF Shape, Fields
  <1>8. SameBut(c, o, {"tok"})
    BY <1>4 DEF SameBut
  <1>9. Moves(c, o, t, -x)
    BY <1>2, <1>3, <1>5, <1>7, <1>8, TokMoves
  <1>10. Moves(s, o, Native, 0)
    BY <1>1, <1>2, <1>7, <1>9, MovesForth
  <1>11. o.acc = c.acc /\ o.val = c.val /\ o.ctr = c.ctr /\ o.wasm = c.wasm
    BY <1>4 DEF Fields
  <1>12. Present(s, o) /\ SameStakes(s, o)
    BY <1>2, <1>11, PaysPresent DEF Present, SameStakes, NonceOf, StakedOf
  <1> QED BY <1>3, <1>7, <1>10, <1>11, <1>12 DEF Neutral, SameContracts

(* The handlers of tokens and transfers. *)
LEMMA TokenStep ==
    ASSUME NEW s, Shape(s), NEW tx, Decoded(tx), ValidateBasic(tx), tx.from \in DOMAIN s.acc,
           tx.type \in TokenTypes, TokenAllowed(s, tx)
    PROVE  LET o == TokenEffect(s, tx)
           IN  Neutral(s, o) /\ SameStakes(s, o) /\ SameContracts(s, o)
  <1> DEFINE o == TokenEffect(s, tx)
  <1>1. tx.amount \in Int
    BY WordType DEF Decoded
  <1>2. CASE tx.type = "transfer"
    <2>1. tx.token \in Currencies
      BY <1>2 DEF Decoded
    <2>2. o = Credit(Debit(s, tx.from, tx.token, tx.amount), tx.to, tx.token, tx.amount)
      BY <1>2 DEF TokenEffect
    <2> HIDE DEF o
    <2>3. Neutral(s, o) /\ Pays(s, o)
      BY <1>1, <2>1, <2>2, TransferStep
    <2> QED BY <2>3, PaysPresent DEF o, SameContracts
  <1>3. CASE tx.type = "create_token"
    <2> DEFINE t == tx.token.symbol
               x == tx.token.supply
               r == [creator |-> tx.from, supply |-> x, mintable |-> tx.token.mintable]
    <2>1. t \in Symbols /\ x \in Amounts /\ t \notin DOMAIN s.tok
      BY <1>3 DEF Decoded, ValidateBasic, TokenAllowed
    <2>2. x \in Int /\ r.supply = x /\ "supply" \in DOMAIN r
      BY <2>1, WordType
    <2>3. o = [Credit(s, tx.from, t, x) EXCEPT !.tok = Put(@, t, r)]
      BY <1>3 DEF TokenEffect, CreateToken
    <2>4. Credit(s, tx.from, t, x).tok = s.tok
      <3>1. t \in Currencies
        BY <2>1 DEF Currencies
      <3> HIDE DEF t, x
      <3> QED BY <2>2, <3>1, CreditStep, PaysPresent
    <2> HIDE DEF o, t, x, r
    <2>5. o = [Credit(s, tx.from, t, x) EXCEPT !.tok = Put(s.tok, t, r)]
      BY <2>3, <2>4
    <2>6. Same(r.supply, (IF t \in DOMAIN s.tok THEN s.tok[t].supply ELSE 0) + x)
      <3>1. (IF t \in DOMAIN s.tok THEN s.tok[t].supply ELSE 0) + x = x
        BY <2>1, <2>2
      <3> QED BY <2>2, <3>1 DEF Same, Congruent
    <2>7. t \in Symbols /\ x \in Int /\ "supply" \in DOMAIN r /\ r.supply \in Amounts
      BY <2>1, <2>2
    <2>8. Neutral(s, o) /\ SameStakes(s, o) /\ SameContracts(s, o)
      <3>1. Shape(s)
        OBVIOUS
      <3> QED BY ONLY <2>5, <2>6, <2>7, <3>1, IssueStep
    <2> QED BY <2>8 DEF o
  <1>4. CASE tx.type = "mint"
    <2> DEFINE t == tx.token
               x == tx.amount
               to == IF tx.to # NoAddr THEN tx.to ELSE tx.from
               q == s.tok[t].supply
               r == [s.tok[t] EXCEPT !.supply = Plus(q, x)]
    <2>1. t \in Symbols /\ t \in DOMAIN s.tok
      BY <1>4 DEF Decoded, ValidateBasic, TokenAllowed, Currencies
    <2>2. "supply" \in DOMAIN s.tok[t] /\ q \in Int
      BY <2>1, WordType DEF Shape, TokOK
    <2>3. Plus(q, x) \in Amounts /\ Same(Plus(q, x), q + x)
      BY <1>1, <2>2, PlusWord
    <2>4. "supply" \in DOMAIN r /\ r.supply = Plus(q, x)
      BY <2>2
    <2>5. o = [Credit(s, to, t, x) EXCEPT !.tok[t].supply = Plus(@, x)]
      BY <1>4 DEF TokenEffect, MintToken
    <2>6. Credit(s, to, t, x).tok = s.tok
      <3>1. t \in Currencies
        BY <2>1 DEF Currencies
      <3> HIDE DEF t, x, to
      <3> QED BY <1>1, <3>1, CreditStep, PaysPresent DEF x
    <2>7. o = [Credit(s, to, t, x) EXCEPT !.tok = Put(s.tok, t, r)]
      <3>1. [s.tok EXCEPT ![t] = r] = Put(s.tok, t, r)
        BY <2>1 DEF Put
      <3>2. o = [Credit(s, to, t, x) EXCEPT !.tok = [s.tok EXCEPT ![t] = r]]
        <4> HIDE DEF o, t, x, to
        <4> QED BY <2>5, <2>6
      <3> QED BY <3>1, <3>2
    <2>8. Same(r.supply, (IF t \in DOMAIN s.tok THEN s.tok[t].supply ELSE 0) + x)
      BY <2>1, <2>3, <2>4
    <2> HIDE DEF o, t, r, to
    <2>9. Neutral(s, o) /\ SameStakes(s, o) /\ SameContracts(s, o)
      <3>1. t \in Symbols /\ x \in Int /\ "supply" \in DOMAIN r /\ r.supply \in Amounts
        BY <1>1, <2>1, <2>3, <2>4
      <3>2. Shape(s)
        OBVIOUS
      <3> HIDE DEF x, q
      <3> QED BY ONLY <2>7, <2>8, <3>1, <3>2, IssueStep
    <2> QED BY <2>9 DEF o
  <1> QED BY <1>2, <1>3, <1>4 DEF TokenTypes

-----------------------------------------------------------------------------
(* The shielded pool. *)
LEMMA PoolStep ==
    ASSUME NEW s, Shape(s), NEW p, PoolOK(p), NEW x \in Int, Same(p.bal, s.pool.bal + x),
           NEW o, o = [s EXCEPT !.pool = p]
    PROVE  /\ Shape(o) /\ Moves(s, o, Native, x) /\ Present(s, o) /\ SameStakes(s, o)
           /\ SameContracts(s, o)
  <1>1. DOMAIN s = Fields
    BY DEF Shape
  <1>2. DOMAIN o = Fields /\ o.pool = p /\ \A f \in Fields \ {"pool"} : o[f] = s[f]
    BY <1>1 DEF Fields
  <1>3. Shape(o)
    BY <1>2 DEF Shape, Fields
  <1>4. SameBut(s, o, {"pool"})
    BY <1>2 DEF SameBut
  <1>5. Moves(s, o, Native, x)
    BY <1>2, <1>3, <1>4, PoolMoves
  <1>6. o.acc = s.acc /\ o.val = s.val /\ o.ctr = s.ctr /\ o.wasm = s.wasm
    BY <1>2 DEF Fields
  <1> QED BY <1>3, <1>5, <1>6 DEF Present, SameStakes, SameContracts, NonceOf, StakedOf

(* Shield: the coins of a note go into the pool. *)
LEMMA ShieldStep ==
    ASSUME NEW s, Shape(s), NEW tx, Decoded(tx), tx.from \in DOMAIN s.acc, tx.type = "shield"
    PROVE  Neutral(s, Shield(s, tx)) /\ SameStakes(s, Shield(s, tx)) /\ SameContracts(s, Shield(s, tx))
  <1> DEFINE x == tx.amount
             d == Debit(s, tx.from, Native, x)
             q == d.pool
             b == Plus(q.bal, x)
             p == [q EXCEPT !.open = TRUE, !.bal = b, !.cms = Append(q.cms, tx.note)]
             o == Shield(s, tx)
  <1>1. x \in Int /\ tx.note \in Notes
    BY WordType DEF Decoded
  <1>2. Shape(d) /\ Pays(s, d) /\ Moves(s, d, Native, -x)
    BY <1>1, NativeCurrency, DebitStep
  <1>3. DOMAIN d = Fields /\ PoolOK(q)
    BY <1>2 DEF Shape
  <1>4. q.bal \in Int
    BY <1>3, WordType DEF PoolOK
  <1>5. b \in Amounts /\ Same(b, q.bal + x)
    BY <1>1, <1>4, PlusWord
  <1>6. o = [d EXCEPT !.pool = p]
    BY <1>3 DEF Shield, Fields
  <1>12. Append(q.cms, tx.note) \in Seq(Notes)
    <2>1. q.cms \in Seq(Notes)
      BY <1>3 DEF PoolOK
    <2> HIDE DEF q
    <2> QED BY <1>1, <2>1
  <1> HIDE DEF x, d, o, b
  <1>7. PoolOK(p) /\ p.bal = b
    <2> DEFINE l == Append(q.cms, tx.note)
    <2>1. l \in Seq(Notes)
      BY <1>12
    <2> HIDE DEF q, l
    <2>2. p = [q EXCEPT !.open = TRUE, !.bal = b, !.cms = l]
      BY DEF l
    <2> HIDE DEF p
    <2> QED BY <1>3, <1>5, <2>1, <2>2 DEF PoolOK
  <1>8. Same(p.bal, d.pool.bal + x)
    BY <1>5, <1>7
  <1> HIDE DEF p
  <1>9. /\ Shape(o) /\ Moves(d, o, Native, x) /\ Present(d, o) /\ SameStakes(d, o)
        /\ SameContracts(d, o)
    BY <1>1, <1>2, <1>6, <1>7, <1>8, PoolStep
  <1>10. Moves(s, o, Native, 0)
    BY <1>1, <1>2, <1>9, NativeCurrency, MovesForth
  <1>11. Present(s, o) /\ SameStakes(s, o) /\ SameContracts(s, o)
    BY <1>2, <1>9, PaysPresent DEF Present, SameStakes, SameContracts
  <1> QED BY <1>9, <1>10, <1>11 DEF Neutral, o

(* Both spends take the public amount out of the pool. *)
LEMMA SpendStep ==
    ASSUME NEW s, Shape(s), NEW tx, Decoded(tx), tx.type \in {"shielded_transfer", "unshield"},
           SpendAccepted(s, tx)
    PROVE  /\ Shape(Spend(s, tx)) /\ Moves(s, Spend(s, tx), Native, -tx.spend.fee)
           /\ Present(s, Spend(s, tx)) /\ SameStakes(s, Spend(s, tx))
           /\ SameContracts(s, Spend(s, tx)) /\ tx.spend.fee \in Int
  <1> DEFINE x == tx.spend.fee
             z == -x
             q == s.pool
             b == Minus(q.bal, x)
             n == Range(Nullifiers(tx))
             p == [q EXCEPT !.nfs = q.nfs \cup n, !.cms = q.cms \o tx.spend.outs, !.bal = b]
             o == Spend(s, tx)
  <1>1. tx.spend \in [root : Seq(Notes), ins : Seq(Notes), outs : Seq(Notes), fee : Amounts]
    BY DEF Decoded
  <1>2. x \in Int /\ tx.spend.outs \in Seq(Notes) /\ tx.spend.ins \in Seq(Notes)
    BY <1>1, WordType
  <1>3. DOMAIN s = Fields /\ PoolOK(q) /\ q.open
    BY DEF Shape, SpendAccepted
  <1>4. n \subseteq Nat
    <2> DEFINE ins == tx.spend.ins
               f == Nullifiers(tx)
    <2>1. ins \in Seq(Notes)
      BY <1>2
    <2>2. f = [i \in 1..Len(ins) |-> ins[i].id]
      BY DEF Nullifiers, NoteIds
    <2> HIDE DEF ins, f
    <2>3. \A i \in 1..Len(ins) : ins[i] \in Notes
      BY <2>1
    <2>4. \A i \in DOMAIN f : f[i] \in Nat
      BY <2>2, <2>3 DEF Notes
    <2>5. Range(f) \subseteq Nat
      BY <2>4 DEF Range
    <2> QED BY <2>5 DEF f
  <1>5. q.bal \in Int
    BY <1>3, WordType DEF PoolOK
  <1>6. b \in Amounts /\ Same(b, q.bal - x)
    BY <1>2, <1>5, MinusWord
  <1>7. o = [s EXCEPT !.pool = p]
    BY <1>3 DEF Spend, Fields
  <1>8. q.cms \o tx.spend.outs \in Seq(Notes)
    BY <1>2, <1>3 DEF PoolOK
  <1> HIDE DEF x, o, b, n
  <1>9. PoolOK(p) /\ p.bal = b
    <2> HIDE DEF q
    <2> QED BY <1>3, <1>4, <1>6, <1>8 DEF PoolOK
  <1>10. z \in Int /\ Same(b, q.bal + z)
    <2> HIDE DEF q
    <2>1. z \in Int /\ q.bal - x = q.bal + z
      BY <1>2, <1>5
    <2> QED BY <1>6, <2>1
  <1> HIDE DEF p, z
  <1>11. Same(p.bal, s.pool.bal + z)
    BY <1>9, <1>10
  <1>12. /\ Shape(o) /\ Moves(s, o, Native, z) /\ Present(s, o) /\ SameStakes(s, o)
         /\ SameContracts(s, o)
    BY <1>7, <1>9, <1>10, <1>11, PoolStep
  <1> QED BY <1>2, <1>12 DEF o, x, z

(* The handlers of the shielded pool. *)
LEMMA ShieldedStep ==
    ASSUME NEW s, Shape(s), NEW tx, Decoded(tx), tx.from \in DOMAIN s.acc,
           tx.type \in ShieldedTypes, ShieldedAllowed(s, tx)
    PROVE  LET o == ShieldedEffect(s, tx)
           IN  Neutral(s, o) /\ SameStakes(s, o) /\ SameContracts(s, o)
  <1> DEFINE o == ShieldedEffect(s, tx)
  <1>1. CASE tx.type = "shield"
    <2>1. o = Shield(s, tx)
      BY <1>1 DEF ShieldedEffect
    <2> HIDE DEF o
    <2>2. Neutral(s, o) /\ SameStakes(s, o) /\ SameContracts(s, o)
      BY <1>1, <2>1, ShieldStep
    <2> QED BY <2>2 DEF o
  <1>2. CASE tx.type \in {"shielded_transfer", "unshield"}
    <2> DEFINE x == tx.spend.fee
               p == Spend(s, tx)
    <2>1. SpendAccepted(s, tx)
      BY <1>2 DEF ShieldedAllowed
    <2>2. /\ Shape(p) /\ Moves(s, p, Native, -x) /\ Present(s, p) /\ SameStakes(s, p)
          /\ SameContracts(s, p) /\ x \in Int
      BY <1>2, <2>1, SpendStep
    <2>3. /\ Shape(o) /\ Moves(p, o, Native, x) /\ Present(p, o) /\ SameStakes(p, o)
          /\ SameContracts(p, o)
      <3>1. CASE tx.type = "shielded_transfer"
        <4>1. o = BurnSupply(p, x)
          BY <3>1 DEF ShieldedEffect, ShieldedTransfer
        <4> HIDE DEF o, p, x
        <4>2. Shape(o) /\ SameBut(p, o, {"supply"}) /\ Moves(p, o, Native, x)
          BY <2>2, <4>1, BurnStep
        <4> QED BY <4>2 DEF SameBut, Fields, Present, SameStakes, SameContracts, NonceOf, StakedOf
      <3>2. CASE tx.type = "unshield"
        <4>1. o = Credit(p, tx.to, Native, x)
          BY <3>2 DEF ShieldedEffect, Unshield
        <4> HIDE DEF o, p, x
        <4>2. Shape(o) /\ Pays(p, o) /\ Moves(p, o, Native, x)
          BY <2>2, <4>1, NativeCurrency, CreditStep
        <4> QED BY <4>2, PaysPresent DEF SameContracts
      <3> QED BY <1>2, <3>1, <3>2
    <2> HIDE DEF o, p, x
    <2>4. Moves(s, o, Native, 0)
      BY <2>2, <2>3, NativeCurrency, MovesForth
    <2>5. Present(s, o) /\ SameStakes(s, o) /\ SameContracts(s, o)
      BY <2>2, <2>3 DEF Present, SameStakes, SameContracts
    <2>6. Neutral(s, o)
      BY <2>3, <2>4, <2>5 DEF Neutral
    <2> QED BY <2>5, <2>6 DEF o
  <1> QED BY <1>1, <1>2 DEF ShieldedTypes

-----------------------------------------------------------------------------
(* Fees: what the sender loses is burned and tipped. *)
LEMMA FeeTypes ==
    ASSUME NEW s, Shape(s), NEW tx, Decoded(tx)
    PROVE  Burned(s, tx) \in Int /\ Fee(s, tx) \in Int /\ tx.tip \in Int
           /\ Same(Fee(s, tx), Burned(s, tx) + tx.tip)
  <1> DEFINE f == s.fee
             m == Params.PrivacyFeeMult
             g == IF tx.private THEN f * m ELSE 0
             h == Surcharge(tx)
  <1>1. tx.tip \in Int
    BY WordType DEF Decoded
  <1>2. \A p \in ParamNames : Params[p] \in Nat
    BY ParamsAreNatural
  <1>3. h \in Int
    BY <1>2 DEF Surcharge, ParamNames
  <1>4. f \in Nat /\ m \in Nat
    BY <1>2 DEF Shape, ParamNames
  <1>5. f * m \in Nat
    <2> HIDE DEF f, m
    <2> QED BY <1>4
  <1>6. g \in Int
    BY <1>5
  <1>7. Burned(s, tx) = Plus(f + g, h)
    BY DEF Burned
  <1> HIDE DEF f, g, h
  <1>8. f + g \in Int
    BY <1>4, <1>6
  <1>9. Burned(s, tx) \in Int
    BY <1>3, <1>7, <1>8, PlusWord, WordType
  <1> QED BY <1>1, <1>9, PlusWord, WordType DEF Fee

(* The nonce of one account. *)
LEMMA NonceStep ==
    ASSUME NEW s, Shape(s), NEW a \in Addr, a \in DOMAIN s.acc,
           NEW o, o = [s EXCEPT !.acc[a].nonce = @ + 1]
    PROVE  /\ Shape(o) /\ Moves(s, o, Native, 0) /\ SameStakes(s, o) /\ SameContracts(s, o)
           /\ DOMAIN o.acc = DOMAIN s.acc
           /\ NonceOf(o, a) = NonceOf(s, a) + 1
           /\ \A b \in Addr \ {a} : NonceOf(o, b) = NonceOf(s, b)
  <1> DEFINE m == s.acc[a].nonce + 1
             n == [s.acc[a] EXCEPT !.nonce = m]
  <1>1. DOMAIN s = Fields /\ AccOK(s.acc) /\ s.acc[a] \in Account
    BY DEF Shape, AccOK
  <1>2. DOMAIN o = Fields /\ o.acc = [s.acc EXCEPT ![a] = n] /\ \A f \in Fields \ {"acc"} : o[f] = s[f]
    BY <1>1 DEF Fields
  <1>3. m \in Nat
    BY <1>1 DEF Account
  <1> HIDE DEF m
  <1>4. /\ n \in Account /\ n.nonce = m /\ n.staked = s.acc[a].staked /\ n.bal = s.acc[a].bal
    BY <1>1, <1>3 DEF Account
  <1> HIDE DEF n
  <1>5. /\ DOMAIN o.acc = DOMAIN s.acc /\ o.acc[a] = n
        /\ \A b \in DOMAIN s.acc \ {a} : o.acc[b] = s.acc[b]
    BY <1>2
  <1>6. AccOK(o.acc)
    BY <1>1, <1>4, <1>5 DEF AccOK
  <1>7. Shape(o)
    BY <1>2, <1>6 DEF Shape, Fields
  <1>8. /\ o.tok = s.tok /\ o.ctr = s.ctr /\ o.wasm = s.wasm /\ o.val = s.val
        /\ o.unb = s.unb /\ o.supply = s.supply /\ o.pool = s.pool
    BY <1>2 DEF Fields
  <1>9. \A b \in DOMAIN s.acc : o.acc[b].bal = s.acc[b].bal
    BY <1>4, <1>5
  <1>10. Moves(s, o, Native, 0)
    BY <1>5, <1>7, <1>8, <1>9, StillMoves
  <1>11. SameStakes(s, o)
    BY <1>4, <1>5, <1>8 DEF SameStakes, StakedOf
  <1>12. NonceOf(o, a) = NonceOf(s, a) + 1
    BY <1>4, <1>5 DEF NonceOf, m
  <1>13. \A b \in Addr \ {a} : NonceOf(o, b) = NonceOf(s, b)
    BY <1>5 DEF NonceOf
  <1> QED BY <1>5, <1>7, <1>8, <1>10, <1>11, <1>12, <1>13 DEF SameContracts

(* ChargeFee: the fee is burned, the tip goes to the proposer. *)
LEMMA ChargeFeeStep ==
    ASSUME NEW s, Shape(s), NEW tx, Decoded(tx), tx.from \in Addr, tx.from \in DOMAIN s.acc,
           NEW proposer
    PROVE  LET o == ChargeFee(s, tx, proposer)
           IN  /\ Shape(o) /\ Moves(s, o, Native, 0) /\ SameStakes(s, o) /\ SameContracts(s, o)
               /\ DOMAIN s.acc \subseteq DOMAIN o.acc
               /\ NonceOf(o, tx.from) = NonceOf(s, tx.from) + 1
               /\ \A b \in Addr \ {tx.from} : NonceOf(o, b) = NonceOf(s, b)
  <1> DEFINE a == tx.from
             f == Fee(s, tx)
             b == Burned(s, tx)
             c == tx.tip
             d == Debit(s, a, Native, f)
             p == BurnSupply(d, b)
             r == IF proposer # NoAddr THEN Credit(p, proposer, Native, c)
                  ELSE BurnSupply(p, c)
             o == ChargeFee(s, tx, proposer)
  <1>1. f \in Int /\ b \in Int /\ c \in Int /\ Same(f, b + c)
    BY FeeTypes
  <1>2. o = [r EXCEPT !.acc[a].nonce = @ + 1]
    BY DEF ChargeFee
  <1> HIDE DEF f, b, c, o
  <1>3. /\ Shape(d) /\ Pays(s, d) /\ Moves(s, d, Native, -f) /\ DOMAIN d.acc = DOMAIN s.acc
    BY <1>1, NativeCurrency, DebitStep
  <1> HIDE DEF d
  <1>4. Shape(p) /\ SameBut(d, p, {"supply"}) /\ Moves(d, p, Native, b)
    BY <1>1, <1>3, BurnStep
  <1> HIDE DEF p
  <1>5. /\ Shape(r) /\ Moves(p, r, Native, c) /\ Present(p, r) /\ SameStakes(p, r)
        /\ SameContracts(p, r)
    <2>1. CASE proposer # NoAddr
      <3>1. Shape(r) /\ Pays(p, r) /\ Moves(p, r, Native, c)
        BY <1>1, <1>4, <2>1, NativeCurrency, CreditStep
      <3> HIDE DEF r
      <3> QED BY <3>1, PaysPresent DEF SameContracts
    <2>2. CASE proposer = NoAddr
      <3>1. Shape(r) /\ SameBut(p, r, {"supply"}) /\ Moves(p, r, Native, c)
        BY <1>1, <1>4, <2>2, BurnStep
      <3> HIDE DEF r
      <3> QED BY <3>1 DEF SameBut, Fields, Present, SameStakes, SameContracts, NonceOf, StakedOf
    <2> QED BY <2>1, <2>2
  <1> HIDE DEF r
  <1>6. Moves(s, r, Native, 0)
    <2> DEFINE z == -f
    <2>1. z \in Int /\ Moves(s, d, Native, z)
      BY <1>1, <1>3
    <2> HIDE DEF z
    <2>2. z + b \in Int /\ Moves(s, p, Native, z + b)
      BY <1>1, <1>3, <1>4, <2>1, NativeCurrency, MovesThenMoves
    <2>3. Moves(s, r, Native, (z + b) + c)
      BY <1>1, <1>4, <1>5, <2>2, NativeCurrency, MovesThenMoves
    <2>4. Same((z + b) + c, 0)
      <3>1. Same(f, b + c) /\ Same(b + c, b + c) /\ b + c \in Int
        BY <1>1 DEF Same, Congruent
      <3>2. Same((b + c) - f, (b + c) - (b + c))
        BY <1>1, <3>1, SameDifference
      <3>3. (b + c) - f = (z + b) + c /\ (b + c) - (b + c) = 0
        BY <1>1 DEF z
      <3> QED BY <3>2, <3>3, Zenon
    <2>5. (z + b) + c \in Int /\ 0 \in Int
      BY <1>1, <2>1
    <2> QED BY <2>3, <2>4, <2>5, MovesSame
  <1>7. /\ Present(s, r) /\ SameStakes(s, r) /\ SameContracts(s, r)
    <2>1. Present(d, p) /\ SameStakes(d, p) /\ SameContracts(d, p)
      BY <1>4 DEF SameBut, Fields, Present, SameStakes, SameContracts, NonceOf, StakedOf
    <2>2. Present(s, d) /\ SameStakes(s, d) /\ SameContracts(s, d)
      BY <1>3, PaysPresent DEF SameContracts
    <2> QED BY <1>5, <2>1, <2>2 DEF Present, SameStakes, SameContracts
  <1>8. a \in DOMAIN r.acc /\ a \in Addr
    BY <1>7 DEF Present
  <1> HIDE DEF a
  <1>9. /\ Shape(o) /\ Moves(r, o, Native, 0) /\ SameStakes(r, o) /\ SameContracts(r, o)
        /\ DOMAIN o.acc = DOMAIN r.acc /\ NonceOf(o, a) = NonceOf(r, a) + 1
        /\ \A e \in Addr \ {a} : NonceOf(o, e) = NonceOf(r, e)
    BY <1>2, <1>5, <1>8, NonceStep
  <1>10. Moves(s, o, Native, 0)
    BY <1>5, <1>6, <1>9, NativeCurrency, MovesBack
  <1>11. /\ Shape(o) /\ Moves(s, o, Native, 0) /\ SameStakes(s, o) /\ SameContracts(s, o)
         /\ DOMAIN s.acc \subseteq DOMAIN o.acc
         /\ NonceOf(o, a) = NonceOf(s, a) + 1
         /\ \A e \in Addr \ {a} : NonceOf(o, e) = NonceOf(s, e)
    BY <1>7, <1>8, <1>9, <1>10 DEF Present, SameStakes, SameContracts
  <1> QED BY <1>11 DEF o, a

-----------------------------------------------------------------------------
(* Contracts: linear vesting never runs backwards, nor over the amount. *)
LEMMA DivMonotone ==
    ASSUME NEW m \in Int, NEW n \in Int, m <= n, NEW d \in Nat, d > 0
    PROVE  m \div d <= n \div d
  <1> DEFINE p == m \div d
             q == n \div d
             i == m % d
             j == n % d
  <1>1. /\ p \in Int /\ q \in Int /\ i \in Int /\ j \in Int
        /\ m = d * p + i /\ n = d * q + j
        /\ 0 <= i /\ i < d /\ 0 <= j /\ j < d
    BY Remainder
  <1> HIDE DEF p, q, i, j
  <1>2. SUFFICES ASSUME p > q PROVE FALSE
    BY <1>1 DEF p, q
  <1>3. p >= q + 1
    BY <1>1, <1>2
  <1>4. d * p >= d * (q + 1)
    BY <1>1, <1>3
  <1>5. d * (q + 1) = d * q + d
    BY <1>1
  <1>6. d * p \in Int /\ d * q \in Int /\ d * (q + 1) \in Int
    BY <1>1
  <1> QED BY <1>1, <1>4, <1>5, <1>6

(* A share of a whole is no more than the whole. *)
LEMMA DivBounds ==
    ASSUME NEW a \in Nat, NEW b \in Nat, NEW d \in Nat, d > 0, b <= d
    PROVE  (a * b) \div d \in Nat /\ (a * b) \div d <= a
  <1> DEFINE n == a * b
             m == a * d
             q == n \div d
             i == n % d
  <1>1. n \in Nat /\ m \in Nat /\ n <= m
    BY SMT
  <1> HIDE DEF n
  <1>2. /\ q \in Int /\ i \in Int /\ n = d * q + i /\ 0 <= i /\ i < d
    BY <1>1, Remainder
  <1> HIDE DEF q, i
  <1>3. q >= 0
    <2>1. SUFFICES ASSUME q <= -1 PROVE FALSE
      BY <1>2
    <2>2. d * q <= d * (-1) /\ d * q \in Int
      BY <1>2, <2>1
    <2> QED BY <1>1, <1>2, <2>2
  <1>4. q <= a
    <2>1. SUFFICES ASSUME q >= a + 1 PROVE FALSE
      BY <1>2
    <2>2. d * q >= d * (a + 1) /\ d * q \in Int
      BY <1>2, <2>1
    <2>3. d * (a + 1) = m + d
      BY DEF m
    <2> HIDE DEF m
    <2> QED BY <1>1, <1>2, <2>2, <2>3
  <1> QED BY <1>2, <1>3, <1>4 DEF n, q

(* A word that holds a natural number is that number. *)
LEMMA WordExact ==
    ASSUME NEW a \in Nat, a < Word
    PROVE  a \in Amounts /\ a % Word = a
  <1>1. a \in Amounts
    BY WordType DEF Amounts
  <1>2. a % Word \in Amounts /\ Same(a % Word, a)
    BY WordOf
  <1> QED BY <1>1, <1>2, SameAmount

(* No wrap below the limit of a word. *)
LEMMA PlusExact ==
    ASSUME NEW a \in Nat, NEW b \in Nat, a + b < Word
    PROVE  Plus(a, b) = a + b
  <1>1. a + b \in Nat
    OBVIOUS
  <1> QED BY <1>1, WordExact DEF Plus

(* What has vested is between nothing and everything. *)
LEMMA VestedBounds ==
    ASSUME NEW c, ContractOK(c), c.template = "vesting", NEW time \in Nat
    PROVE  /\ Vested(c, time) \in Amounts /\ Vested(c, time) <= c.amount
           /\ c.start < time /\ time < c.end =>
                 Vested(c, time) = (c.amount * (time - c.start)) \div (c.end - c.start)
  <1> DEFINE a == c.amount
             s == c.start
             e == c.end
  <1>1. a \in Amounts /\ s \in Int /\ e \in Int /\ s < e
    BY DEF ContractOK
  <1>2. a \in Nat /\ a < Word /\ 0 \in Amounts
    BY <1>1, WordType
  <1> HIDE DEF a, s, e
  <1>3. CASE time <= s
    <2>1. Vested(c, time) = 0
      BY <1>3 DEF Vested, s
    <2> QED BY <1>1, <1>2, <1>3, <2>1 DEF a, s, e
  <1>4. CASE ~(time <= s) /\ time >= e
    <2>1. Vested(c, time) = a
      BY <1>4 DEF Vested, a, s, e
    <2> QED BY <1>1, <1>2, <1>4, <2>1 DEF a, s, e
  <1>5. CASE ~(time <= s) /\ ~(time >= e)
    <2> DEFINE b == time - s
               d == e - s
               q == (a * b) \div d
    <2>1. b \in Nat /\ d \in Nat /\ d > 0 /\ b <= d
      BY <1>1, <1>5
    <2>2. Vested(c, time) = MulDiv(a, b, d)
      BY <1>5 DEF Vested, a, s, e
    <2> HIDE DEF b, d
    <2>3. q \in Nat /\ q <= a
      BY <1>2, <2>1, DivBounds
    <2>4. MulDiv(a, b, d) = q % Word
      BY <2>1 DEF MulDiv
    <2> HIDE DEF q
    <2>5. q < Word
      BY <1>2, <2>3, WordType
    <2>6. q \in Amounts /\ q % Word = q
      BY <2>3, <2>5, WordExact
    <2> QED BY <2>2, <2>3, <2>4, <2>6 DEF a, b, d, e, q, s
  <1> QED BY <1>3, <1>4, <1>5

(* Time only adds to what has vested. *)
LEMMA VestedMonotone ==
    ASSUME NEW c, ContractOK(c), c.template = "vesting",
           NEW before \in Nat, NEW after \in Nat, before <= after
    PROVE  Vested(c, before) <= Vested(c, after)
  <1> DEFINE a == c.amount
             s == c.start
             e == c.end
             v == Vested(c, before)
             w == Vested(c, after)
  <1>1. a \in Nat /\ s \in Int /\ e \in Int /\ s < e
    BY WordType DEF ContractOK
  <1>2. v \in Nat /\ w \in Nat /\ v <= a /\ w <= a
    BY VestedBounds, WordType
  <1>3. before <= s => v = 0
    BY DEF Vested
  <1>4. ~(after <= s) /\ after >= e => w = a
    BY DEF Vested
  <1>5. ASSUME s < before, after < e
        PROVE  v <= w
    <2> DEFINE m == a * (before - s)
               n == a * (after - s)
               d == e - s
    <2>1. v = m \div d /\ w = n \div d
      <3>1. s < after /\ before < e
        BY <1>1, <1>5
      <3>2. /\ c.start < before /\ before < c.end
            /\ c.start < after /\ after < c.end
        BY <1>5, <3>1
      <3>3. /\ Vested(c, before) = (c.amount * (before - c.start)) \div (c.end - c.start)
            /\ Vested(c, after) = (c.amount * (after - c.start)) \div (c.end - c.start)
        BY <3>2, VestedBounds
      <3> QED BY <3>3, Zenon
    <2>2. d \in Nat /\ d > 0
      BY <1>1
    <2> HIDE DEF a, s, e, d
    <2>3. m \in Int /\ n \in Int /\ m <= n
      <3> DEFINE p == before - s
                 q == after - s
      <3>1. p \in Nat /\ q \in Nat /\ p <= q
        BY <1>1, <1>5
      <3> HIDE DEF p, q
      <3>2. a * p \in Int /\ a * q \in Int /\ a * p <= a * q
        BY <1>1, <3>1
      <3> QED BY <3>2 DEF p, q
    <2> HIDE DEF m, n, v, w
    <2> QED BY <2>1, <2>2, <2>3, DivMonotone
  <1> HIDE DEF a, s, e, v, w
  <1>6. v <= w
    BY <1>1, <1>2, <1>3, <1>4, <1>5
  <1> QED BY <1>6 DEF v, w

(* Time that passes leaves a contract solvent. *)
LEMMA SolventLater ==
    ASSUME NEW c, ContractOK(c), NEW before \in Nat, NEW after \in Nat, before <= after,
           Solvent(c, before)
    PROVE  Solvent(c, after)
  <1>1. CASE c.template = "vesting"
    <2>1. Vested(c, before) <= Vested(c, after)
      BY <1>1, VestedMonotone
    <2>2. Vested(c, before) \in Nat /\ Vested(c, after) \in Nat
      BY <1>1, VestedBounds, WordType
    <2>3. c.released \in Nat /\ c.released <= Vested(c, before)
      BY <1>1, WordType DEF ContractOK, Solvent
    <2>4. c.released <= Vested(c, after)
      BY <2>1, <2>2, <2>3
    <2> QED BY <1>1, <2>4 DEF Solvent
  <1>2. CASE c.template # "vesting"
    BY <1>2 DEF Solvent
  <1> QED BY <1>1, <1>2

-----------------------------------------------------------------------------
(* One contract of a ledger is replaced, or added. *)
Becomes(s, o, k, c) == o.ctr = Put(s.ctr, k, c) /\ o.wasm = s.wasm

(* A contract is written: the gap of its token moves with what it holds. *)
LEMMA CtrStep ==
    ASSUME NEW s, Shape(s), NEW k, NEW c, ContractOK(c),
           k \in DOMAIN s.ctr => s.ctr[k].token = c.token, NEW x \in Int,
           Same(Held(c), (IF k \in DOMAIN s.ctr THEN Held(s.ctr[k]) ELSE 0) + x),
           NEW o, o = [s EXCEPT !.ctr = Put(s.ctr, k, c)]
    PROVE  /\ Shape(o) /\ Moves(s, o, c.token, x) /\ Present(s, o) /\ SameStakes(s, o)
           /\ Becomes(s, o, k, c)
  <1>1. DOMAIN s = Fields /\ CtrOK(s.ctr)
    BY DEF Shape
  <1>2. DOMAIN o = Fields /\ o.ctr = Put(s.ctr, k, c) /\ \A f \in Fields \ {"ctr"} : o[f] = s[f]
    BY <1>1 DEF Fields
  <1>3. /\ DOMAIN o.ctr = DOMAIN s.ctr \cup {k} /\ o.ctr[k] = c
        /\ \A i \in DOMAIN s.ctr \ {k} : o.ctr[i] = s.ctr[i]
    BY <1>2 DEF Put
  <1>4. CtrOK(o.ctr)
    <2>1. IsFiniteSet(DOMAIN o.ctr)
      BY <1>1, <1>3, FS_AddElement DEF CtrOK
    <2> QED BY <1>1, <1>3, <2>1 DEF CtrOK
  <1>5. Shape(o)
    BY <1>2, <1>4 DEF Shape, Fields
  <1>6. SameBut(s, o, {"ctr"})
    BY <1>2 DEF SameBut
  <1>7. Moves(s, o, o.ctr[k].token, x)
    BY <1>3, <1>5, <1>6, CtrMoves
  <1>8. Moves(s, o, c.token, x)
    BY <1>3, <1>7, Zenon
  <1>9. o.acc = s.acc /\ o.val = s.val /\ o.wasm = s.wasm
    BY <1>2 DEF Fields
  <1> QED BY <1>2, <1>5, <1>8, <1>9 DEF Present, SameStakes, Becomes, NonceOf, StakedOf

(* A contract pays, and holds so much less. *)
LEMMA PayStep ==
    ASSUME NEW s, Shape(s), NEW k \in DOMAIN s.ctr, NEW c, ContractOK(c),
           s.ctr[k].token = c.token, NEW x \in Int, Same(Held(c), Held(s.ctr[k]) - x),
           NEW to, NEW o, o = [Credit(s, to, c.token, x) EXCEPT !.ctr = Put(s.ctr, k, c)]
    PROVE  Neutral(s, o) /\ SameStakes(s, o) /\ Becomes(s, o, k, c)
  <1> DEFINE t == c.token
             d == Credit(s, to, t, x)
             z == -x
             h == Held(s.ctr[k])
  <1>1. t \in Currencies
    BY DEF ContractOK
  <1>2. Shape(d) /\ Pays(s, d) /\ Moves(s, d, t, x)
    BY <1>1, CreditStep
  <1>3. d.ctr = s.ctr /\ d.wasm = s.wasm
    BY <1>2, PaysPresent
  <1>4. h \in Int
    <2>1. ContractOK(s.ctr[k])
      BY DEF Shape, CtrOK
    <2>2. s.ctr[k].amount \in Int /\ s.ctr[k].released \in Int
      BY <2>1, WordType DEF ContractOK
    <2> QED BY <2>2 DEF Held
  <1>5. z \in Int /\ h - x = h + z
    <2> HIDE DEF h
    <2> QED BY <1>4
  <1>6. o = [d EXCEPT !.ctr = Put(d.ctr, k, c)]
    BY <1>3
  <1>7. Same(Held(c), h + z)
    BY <1>5
  <1> HIDE DEF d, z
  <1>8. Same(Held(c), (IF k \in DOMAIN d.ctr THEN Held(d.ctr[k]) ELSE 0) + z)
    BY <1>3, <1>7
  <1>9. k \in DOMAIN d.ctr => d.ctr[k].token = c.token
    BY <1>3
  <1> HIDE DEF t, h
  <1>10. /\ Shape(o) /\ Moves(d, o, c.token, z) /\ Present(d, o) /\ SameStakes(d, o)
         /\ Becomes(d, o, k, c)
    BY <1>2, <1>5, <1>6, <1>8, <1>9, CtrStep
  <1>11. Moves(s, o, Native, 0)
    BY <1>1, <1>2, <1>10, MovesForth DEF t, z
  <1>12. Present(s, o) /\ SameStakes(s, o)
    BY <1>2, <1>10, PaysPresent DEF Present, SameStakes
  <1>13. Becomes(s, o, k, c)
    BY <1>3, <1>10 DEF Becomes
  <1> QED BY <1>10, <1>11, <1>12, <1>13 DEF Neutral

(* A contract as it is after a payment out of what it holds. *)
Paid(c, x) ==
    [c EXCEPT !.released = Plus(c.released, x),
              !.status = IF Plus(c.released, x) = c.amount THEN "completed" ELSE c.status]

(* A payment out of a contract that is not an escrow. *)
LEMMA ReleaseStepOK ==
    ASSUME NEW s, Shape(s), NEW k \in DOMAIN s.ctr, s.ctr[k].status = "active",
           s.ctr[k].template # "escrow", NEW x \in Int, NEW to
    PROVE  LET o == Release(s, k, to, x)
           IN  /\ Neutral(s, o) /\ SameStakes(s, o)
               /\ Becomes(s, o, k, Paid(s.ctr[k], x)) /\ ContractOK(Paid(s.ctr[k], x))
  <1> DEFINE c == s.ctr[k]
             y == Plus(c.released, x)
             e == Paid(c, x)
             d == Credit(s, to, c.token, x)
             o == Release(s, k, to, x)
  <1>1. ContractOK(c)
    BY DEF Shape, CtrOK
  <1>2. c.released \in Int /\ c.amount \in Int /\ c.token \in Currencies
    BY <1>1, WordType DEF ContractOK
  <1>3. y \in Amounts /\ Same(y, c.released + x)
    BY <1>2, PlusWord
  <1>4. DOMAIN e = DOMAIN c /\ \A f \in DOMAIN c \ {"released", "status"} : e[f] = c[f]
    BY DEF Paid
  <1>5. {"token", "amount", "released", "status", "template"} \subseteq DOMAIN c
    BY <1>1 DEF ContractOK
  <1>6. e.released = y /\ e.status = (IF y = c.amount THEN "completed" ELSE c.status)
    BY <1>5 DEF Paid
  <1>7. Shape(d) /\ Pays(s, d)
    BY <1>2, CreditStep
  <1>8. d.ctr = s.ctr
    BY <1>7, PaysPresent
  <1>9. o = [d EXCEPT !.ctr = Put(s.ctr, k, e)]
    <2>1. [s.ctr EXCEPT ![k] = e] = Put(s.ctr, k, e)
      BY DEF Put
    <2>2. o = [d EXCEPT !.ctr = [s.ctr EXCEPT ![k] = e]]
      <3>1. o = [d EXCEPT !.ctr[k].released = y,
                          !.ctr[k].status = IF y = c.amount THEN "completed" ELSE @]
        BY DEF Release, Pay
      <3> HIDE DEF o, d, y
      <3> QED BY <3>1, <1>5, <1>8 DEF Paid, y
    <2> QED BY <2>1, <2>2
  <1>10. c.status = "active" /\ c.template # "escrow"
    OBVIOUS
  <1> HIDE DEF c, y, e, d, o
  <1>11. e.token = c.token /\ e.amount = c.amount /\ e.template = c.template
    BY <1>4, <1>5
  <1>12. ContractOK(e)
    <2>1. e.template = "vesting" => e.start = c.start /\ e.end = c.end
      BY <1>1, <1>4, <1>11 DEF ContractOK
    <2>2. e.template \in {"multisig", "dao"} => e.proposals = c.proposals
      BY <1>1, <1>4, <1>11 DEF ContractOK
    <2> QED BY <1>1, <1>3, <1>4, <1>6, <1>10, <1>11, <2>1, <2>2 DEF ContractOK
  <1>13. Same(Held(e), Held(c) - x)
    <2>1. Held(c) = c.amount - c.released
      BY <1>10 DEF Held
    <2>2. Held(e) = c.amount - y
      <3>1. CASE y = c.amount
        BY <1>2, <1>6, <3>1 DEF Held
      <3>2. CASE y # c.amount
        BY <1>6, <1>10, <1>11, <3>2 DEF Held
      <3> QED BY <3>1, <3>2
    <2> DEFINE m == c.amount
               r == c.released
    <2>3. m \in Int /\ r \in Int /\ y \in Int /\ Same(y, r + x)
      BY <1>2, <1>3, WordType
    <2>4. Held(c) = m - r /\ Held(e) = m - y
      BY <2>1, <2>2
    <2> HIDE DEF m, r
    <2>5. Same(m - y, m - (r + x))
      <3>1. Same(m, m) /\ r + x \in Int
        BY <2>3 DEF Same, Congruent
      <3> QED BY <2>3, <3>1, SameDifference
    <2>6. m - (r + x) = (m - r) - x
      BY <2>3
    <2> QED BY <2>4, <2>5, <2>6, Zenon
  <1>14. Neutral(s, o) /\ SameStakes(s, o) /\ Becomes(s, o, k, e)
    <2>1. s.ctr[k].token = e.token /\ Same(Held(e), Held(s.ctr[k]) - x)
      BY <1>11, <1>13 DEF c
    <2>2. o = [Credit(s, to, e.token, x) EXCEPT !.ctr = Put(s.ctr, k, e)]
      BY <1>9, <1>11 DEF d
    <2> QED BY <1>12, <2>1, <2>2, PayStep
  <1> QED BY <1>12, <1>14 DEF o, e, c

(* The proposals of a contract are rewritten. *)
LEMMA ReviseStep ==
    ASSUME NEW s, Shape(s), NEW k \in DOMAIN s.ctr, s.ctr[k].template \in {"multisig", "dao"},
           NEW ps \in Seq(Proposals), NEW o, o = [s EXCEPT !.ctr[k].proposals = ps]
    PROVE  /\ Neutral(s, o) /\ SameStakes(s, o)
           /\ Becomes(s, o, k, [s.ctr[k] EXCEPT !.proposals = ps])
           /\ ContractOK([s.ctr[k] EXCEPT !.proposals = ps])
  <1> DEFINE c == s.ctr[k]
             e == [c EXCEPT !.proposals = ps]
  <1>1. ContractOK(c) /\ DOMAIN s = Fields
    BY DEF Shape, CtrOK
  <1>2. DOMAIN e = DOMAIN c /\ \A f \in DOMAIN c \ {"proposals"} : e[f] = c[f]
    OBVIOUS
  <1>3. {"token", "amount", "released", "status", "template", "proposals", "threshold"}
            \subseteq DOMAIN c /\ c.template \in {"multisig", "dao"}
    BY <1>1 DEF ContractOK
  <1>4. e.proposals = ps
    BY <1>3
  <1>5. o = [s EXCEPT !.ctr = Put(s.ctr, k, e)]
    <2>1. [s.ctr EXCEPT ![k] = e] = Put(s.ctr, k, e)
      BY DEF Put
    <2>2. o = [s EXCEPT !.ctr = [s.ctr EXCEPT ![k] = e]]
      BY <1>1 DEF Fields
    <2> QED BY <2>1, <2>2
  <1> HIDE DEF e
  <1>6. /\ e.token = c.token /\ e.amount = c.amount /\ e.released = c.released
        /\ e.status = c.status /\ e.template = c.template
    BY <1>2, <1>3
  <1>7. ContractOK(e)
    <2> HIDE DEF c
    <2> QED BY <1>1, <1>2, <1>3, <1>4, <1>6 DEF ContractOK
  <1>8. Same(Held(e), (IF k \in DOMAIN s.ctr THEN Held(s.ctr[k]) ELSE 0) + 0)
    <2>1. c.amount \in Int /\ c.released \in Int
      BY <1>1, WordType DEF ContractOK
    <2>2. Held(c) \in Int /\ Held(e) = Held(c)
      <3> HIDE DEF c
      <3> QED BY <1>6, <2>1 DEF Held
    <2>3. (IF k \in DOMAIN s.ctr THEN Held(s.ctr[k]) ELSE 0) + 0 = Held(e)
      BY <2>2
    <2> QED BY <2>3 DEF Same, Congruent
  <1>9. k \in DOMAIN s.ctr => s.ctr[k].token = e.token
    BY <1>6
  <1> HIDE DEF c
  <1>10. /\ Shape(o) /\ Moves(s, o, e.token, 0) /\ Present(s, o) /\ SameStakes(s, o)
         /\ Becomes(s, o, k, e)
    <2>1. 0 \in Int
      OBVIOUS
    <2> QED BY <1>5, <1>7, <1>8, <1>9, <2>1, CtrStep
  <1>11. Moves(s, o, Native, 0)
    BY <1>7, <1>10, NativeCurrency, MovesNothing DEF ContractOK
  <1> QED BY <1>7, <1>10, <1>11 DEF Neutral, e, c

-----------------------------------------------------------------------------
(* What folds and sums over a list come to. *)

(* Along the positions of a list. *)
LEMMA Positions ==
    ASSUME NEW n \in Nat, NEW T, 0 \in T, \A k \in 1..n : k - 1 \in T => k \in T
    PROVE  \A k \in 0..n : k \in T
  <1> DEFINE U == {m \in Nat : m > n \/ m \in T}
  <1>1. U \subseteq Nat /\ 0 \in U
    OBVIOUS
  <1>2. ASSUME NEW m \in U PROVE m + 1 \in U
    <2>1. m \in Nat /\ (m > n \/ m \in T)
      OBVIOUS
    <2>2. CASE m + 1 > n
      BY <2>1, <2>2
    <2>3. CASE m + 1 <= n
      <3>1. m + 1 \in 1..n /\ (m + 1) - 1 = m /\ m \in T
        BY <2>1, <2>3
      <3>2. m + 1 \in T
        BY <3>1
      <3> QED BY <2>1, <3>2
    <2> QED BY <2>1, <2>2, <2>3
  <1> HIDE DEF U
  <1>3. U = Nat
    BY <1>1, <1>2, Releasing!NaturalSet
  <1> QED BY <1>3 DEF U

(* One more summand. *)
LEMMA SumNext ==
    ASSUME NEW S, IsFiniteSet(S), NEW x, x \notin S, NEW f, f[x] \in Int,
           \A y \in S : f[y] \in Int
    PROVE  SumFunctionOnSet(f, S \cup {x}) = SumFunctionOnSet(f, S) + f[x]
  <1>1. \A y \in S : f[y] \in Int /\ f[y] = f[y]
    OBVIOUS
  <1> QED BY <1>1, SumAdd, Zenon

(* And the sum over the first positions of a list. *)
LEMMA SumPrefix ==
    ASSUME NEW k \in Nat, k > 0, NEW x, \A i \in 1..k : x[i] \in Int
    PROVE  SumFunctionOnSet(x, 1..k) = SumFunctionOnSet(x, 1..(k - 1)) + x[k]
  <1> DEFINE S == 1..(k - 1)
  <1>1. k \notin S /\ 1..k = S \cup {k} /\ k \in 1..k /\ S \subseteq 1..k
    OBVIOUS
  <1>2. IsFiniteSet(S)
    BY FS_Interval
  <1>3. x[k] \in Int /\ \A i \in S : x[i] \in Int
    BY <1>1
  <1> HIDE DEF S
  <1>4. SumFunctionOnSet(x, S \cup {k}) = SumFunctionOnSet(x, S) + x[k]
    BY <1>1, <1>2, <1>3, SumNext
  <1>5. SumFunctionOnSet(x, 1..k) = SumFunctionOnSet(x, S) + x[k]
    BY <1>1, <1>4, Zenon
  <1> QED BY <1>5 DEF S

(* A run of steps moves the gap by the sum of what each moves. *)
LEMMA TraceMoves ==
    ASSUME NEW n \in Nat, NEW f, NEW x, Shape(f[0]),
           \A k \in 1..n : x[k] \in Int,
           \A k \in 1..n : Shape(f[k - 1]) =>
               Shape(f[k]) /\ Moves(f[k - 1], f[k], Native, x[k])
    PROVE  /\ Shape(f[n]) /\ SumFunctionOnSet(x, 1..n) \in Int
           /\ Moves(f[0], f[n], Native, SumFunctionOnSet(x, 1..n))
  <1> DEFINE P(k) == SumFunctionOnSet(x, 1..k)
             T == {k \in Nat : Shape(f[k]) /\ P(k) \in Int /\ Moves(f[0], f[k], Native, P(k))}
  <1>1. 0 \in T
    <2>1. 1..0 = {} /\ 0 \in Nat
      OBVIOUS
    <2>2. P(0) = 0
      BY <2>1, SumOfNone
    <2>3. Moves(f[0], f[0], Native, 0)
      BY NoMove
    <2> QED BY <2>1, <2>2, <2>3
  <1>2. ASSUME NEW k \in 1..n, k - 1 \in T PROVE k \in T
    <2>1. k \in Nat /\ k > 0 /\ \A i \in 1..k : i \in 1..n
      OBVIOUS
    <2>2. \A i \in 1..k : x[i] \in Int
      BY <2>1
    <2>3. P(k) = P(k - 1) + x[k]
      BY <2>1, <2>2, SumPrefix
    <2>4. Shape(f[k - 1]) /\ P(k - 1) \in Int /\ Moves(f[0], f[k - 1], Native, P(k - 1))
      BY <1>2
    <2>5. Shape(f[k]) /\ Moves(f[k - 1], f[k], Native, x[k]) /\ x[k] \in Int
      BY <2>4
    <2> HIDE DEF P
    <2>6. Moves(f[0], f[k], Native, P(k - 1) + x[k])
      BY <2>4, <2>5, NativeCurrency, MovesThenMoves
    <2>7. P(k) \in Int
      BY <2>3, <2>4, <2>5
    <2>8. Moves(f[0], f[k], Native, P(k))
      BY <2>3, <2>6, Zenon
    <2> QED BY <2>1, <2>5, <2>7, <2>8
  <1> HIDE DEF T
  <1>3. \A k \in 0..n : k \in T
    BY <1>1, <1>2, Positions
  <1>4. n \in T
    BY <1>3
  <1> QED BY <1>4 DEF T

(* A list of all the members of a set, each once. *)
Lists(order, S) ==
    /\ order \in [1..Cardinality(S) -> S]
    /\ \A a \in S : \E i \in DOMAIN order : order[i] = a
    /\ \A i, j \in DOMAIN order : order[i] = order[j] => i = j

(* The sum over a set, taken along a list of it. *)
LEMMA SumAlong ==
    ASSUME NEW S, IsFiniteSet(S), NEW order, Lists(order, S), NEW f, NEW x,
           \A a \in S : f[a] \in Int,
           \A i \in 1..Cardinality(S) : x[i] = f[order[i]]
    PROVE  SumFunctionOnSet(x, 1..Cardinality(S)) = SumFunctionOnSet(f, S)
  <1> DEFINE n == Cardinality(S)
             Before(k) == {order[i] : i \in 1..k}
             T == {k \in Nat : SumFunctionOnSet(x, 1..k) = SumFunctionOnSet(f, Before(k))}
  <1>1. n \in Nat
    BY FS_CardinalityType
  <1>2. 0 \in T
    <2>1. 1..0 = {} /\ Before(0) = {}
      OBVIOUS
    <2> QED BY <2>1, SumOfNone
  <1>3. ASSUME NEW k \in 1..n, k - 1 \in T PROVE k \in T
    <2>1. k \in Nat /\ k > 0 /\ k - 1 \in Nat /\ k \notin 1..(k - 1)
          /\ 1..k = (1..(k - 1)) \cup {k} /\ \A i \in 1..k : i \in 1..n
      BY <1>1
    <2>3. Before(k) = Before(k - 1) \cup {order[k]}
      BY <2>1
    <2>4. Before(k - 1) \subseteq S /\ order[k] \in S
      BY <2>1 DEF Lists
    <2>5. order[k] \notin Before(k - 1)
      BY <2>1 DEF Lists
    <2>6. IsFiniteSet(Before(k - 1))
      BY <2>4, FS_Subset
    <2>7. \A i \in 1..k : x[i] \in Int
      BY <2>1, <1>1 DEF Lists
    <2>8. x[k] \in Int /\ x[k] = f[order[k]]
      BY <2>4
    <2>9. SumFunctionOnSet(x, 1..k) = SumFunctionOnSet(x, 1..(k - 1)) + x[k]
      BY <2>1, <2>7, SumPrefix
    <2>10. \A a \in Before(k - 1) : f[a] \in Int
      BY <2>4
    <2>11. f[order[k]] \in Int
      BY <2>4
    <2> HIDE DEF Before
    <2>12. SumFunctionOnSet(f, Before(k - 1) \cup {order[k]})
              = SumFunctionOnSet(f, Before(k - 1)) + f[order[k]]
      BY <2>5, <2>6, <2>10, <2>11, SumNext
    <2> QED BY <1>3, <2>1, <2>3, <2>8, <2>9, <2>12
  <1> HIDE DEF T
  <1>4. n \in T
    <2>1. \A k \in 0..n : k \in T
      BY <1>1, <1>2, <1>3, Positions
    <2> QED BY <1>1, <2>1
  <1>5. Before(n) = S
    BY DEF Lists
  <1> QED BY <1>4, <1>5 DEF T

-----------------------------------------------------------------------------
(* Sorted lists. *)

(* In a finite set with a strict order, for every number below its size    *)
(* there is one member that so many others come before.                    *)
LEMMA Ranks ==
    ASSUME NEW S, IsFiniteSet(S), NEW R,
           \A a \in S : <<a, a>> \notin R,
           \A a, b, c \in S : <<a, b>> \in R /\ <<b, c>> \in R => <<a, c>> \in R,
           \A a, b \in S : a = b \/ <<a, b>> \in R \/ <<b, a>> \in R
    PROVE  /\ \A i \in 1..Cardinality(S) : \E a \in S :
                 Cardinality({b \in S : <<b, a>> \in R}) = i - 1
           /\ \A a \in S : Cardinality({b \in S : <<b, a>> \in R}) + 1 \in 1..Cardinality(S)
           /\ \A a, b \in S : Cardinality({c \in S : <<c, a>> \in R})
                                 = Cardinality({c \in S : <<c, b>> \in R}) => a = b
  <1> DEFINE Below(a) == {b \in S : <<b, a>> \in R}
             n == Cardinality(S)
             T == 0..(n - 1)
             rank == [a \in S |-> Cardinality(Below(a))]
  <1>1. n \in Nat
    BY FS_CardinalityType
  <1>2. ASSUME NEW a \in S PROVE IsFiniteSet(Below(a)) /\ rank[a] \in T
    <2>1. Below(a) \in SUBSET S /\ Below(a) # S
      OBVIOUS
    <2>2. IsFiniteSet(Below(a)) /\ Cardinality(Below(a)) <= n /\ n # Cardinality(Below(a))
      BY <2>1, FS_Subset
    <2>3. Cardinality(Below(a)) \in Nat
      BY <2>2, FS_CardinalityType
    <2>4. Cardinality(Below(a)) \in T
      BY <1>1, <2>2, <2>3
    <2> QED BY <2>2, <2>4
  <1>3. ASSUME NEW a \in S, NEW b \in S, <<a, b>> \in R PROVE rank[a] # rank[b]
    <2>1. Below(a) \in SUBSET Below(b) /\ Below(a) # Below(b)
      BY <1>3
    <2>2. IsFiniteSet(Below(b))
      BY <1>2
    <2> HIDE DEF Below
    <2>3. Cardinality(Below(b)) # Cardinality(Below(a))
      BY <2>1, <2>2, FS_Subset
    <2> QED BY <2>3
  <1>4. \A a, b \in S : rank[a] = rank[b] => a = b
    BY <1>3
  <1>5. rank \in Injection(S, T)
    <2>1. rank \in [S -> T]
      BY <1>2
    <2> HIDE DEF rank
    <2> QED BY <1>4, <2>1 DEF Injection, IsInjective
  <1>6. IsFiniteSet(T) /\ Cardinality(T) = n
    <2>1. 0 \in Int /\ n - 1 \in Int /\ (IF 0 > n - 1 THEN 0 ELSE (n - 1) - 0 + 1) = n
      BY <1>1
    <2> HIDE DEF n
    <2> QED BY <2>1, FS_Interval
  <1>7. rank \in Surjection(S, T)
    <2> HIDE DEF rank, T
    <2> QED BY <1>5, <1>6, FS_Injection
  <1>8. ASSUME NEW i \in 1..n PROVE \E a \in S : Cardinality(Below(a)) = i - 1
    <2>1. i - 1 \in T
      BY <1>1
    <2>2. \E a \in S : rank[a] = i - 1
      BY <1>7, <2>1 DEF Surjection
    <2> QED BY <2>2
  <1>9. ASSUME NEW a \in S PROVE Cardinality(Below(a)) + 1 \in 1..n
    <2> DEFINE c == Cardinality(Below(a))
    <2>1. c \in T
      BY <1>2
    <2>2. c \in 0..(n - 1)
      BY <2>1
    <2>3. n \in Nat
      BY <1>1
    <2> HIDE DEF c, n
    <2>4. c + 1 \in 1..n
      BY <2>2, <2>3
    <2> QED BY <2>4 DEF c, n
  <1>10. \A i \in 1..n : \E a \in S : Cardinality(Below(a)) = i - 1
    BY <1>8
  <1>11. \A a \in S : Cardinality(Below(a)) + 1 \in 1..n
    BY <1>9
  <1>12. ASSUME NEW a \in S, NEW b \in S, Cardinality(Below(a)) = Cardinality(Below(b))
         PROVE  a = b
    <2>1. rank[a] = rank[b]
      BY <1>12
    <2> HIDE DEF rank
    <2> QED BY <1>4, <2>1
  <1>13. \A a, b \in S : Cardinality(Below(a)) = Cardinality(Below(b)) => a = b
    BY <1>12
  <1> QED BY <1>10, <1>11, <1>13

(* A list of a finite set in which every member stands at its rank. *)
LEMMA RankedLists ==
    ASSUME NEW S, IsFiniteSet(S), NEW rank \in [S -> Int],
           NEW order \in [1..Cardinality(S) -> S],
           \A i \in 1..Cardinality(S) : rank[order[i]] = i - 1,
           \A a \in S : rank[a] + 1 \in 1..Cardinality(S),
           \A a, b \in S : rank[a] = rank[b] => a = b
    PROVE  Lists(order, S)
  <1> DEFINE n == Cardinality(S)
  <1>1. n \in Nat
    BY FS_CardinalityType
  <1>2. /\ \A i \in 1..n : order[i] \in S /\ rank[order[i]] = i - 1
        /\ \A a \in S : rank[a] + 1 \in 1..n /\ rank[a] \in Int
        /\ order \in [1..n -> S]
    OBVIOUS
  <1> HIDE DEF n
  <1>3. \A i, j \in 1..n : order[i] = order[j] => i = j
    <2>1. SUFFICES ASSUME NEW i \in 1..n, NEW j \in 1..n, order[i] = order[j] PROVE i = j
      OBVIOUS
    <2>2. i - 1 = j - 1
      BY <1>2, <2>1
    <2> QED BY <1>1, <2>2
  <1>4. ASSUME NEW a \in S PROVE \E i \in 1..n : order[i] = a
    <2> DEFINE i == rank[a] + 1
    <2>1. i \in 1..n /\ i - 1 = rank[a]
      BY <1>2
    <2> HIDE DEF i
    <2>2. order[i] \in S /\ rank[order[i]] = rank[a]
      BY <1>2, <2>1
    <2>3. order[i] = a
      BY <2>2
    <2> QED BY <2>1, <2>3
  <1> QED BY <1>2, <1>3, <1>4 DEF Lists, n

(* Addresses in ascending order. *)
LEMMA InOrderLists ==
    ASSUME NEW S, IsFiniteSet(S),
           S \subseteq Nat
    PROVE  Lists(InOrder(S), S)
  <1> DEFINE R == {p \in S \X S : p[1] < p[2]}
             below(a) == {b \in S : b < a}
             rank == [a \in S |-> Cardinality(below(a))]
             order == InOrder(S)
             n == Cardinality(S)
  <1>1. \A a, b \in S : <<a, b>> \in R <=> a < b
    OBVIOUS
  <1>2. \A a \in S : {b \in S : <<b, a>> \in R} = below(a)
    BY <1>1
  <1>7. /\ \A a \in S : <<a, a>> \notin R
        /\ \A a, b, c \in S : <<a, b>> \in R /\ <<b, c>> \in R => <<a, c>> \in R
        /\ \A a, b \in S : a = b \/ <<a, b>> \in R \/ <<b, a>> \in R
    <2>1. \A a \in S : a \in Int
      OBVIOUS
    <2> HIDE DEF R
    <2> QED BY <1>1, <2>1
  <1>8. /\ \A i \in 1..n : \E a \in S : Cardinality({b \in S : <<b, a>> \in R}) = i - 1
        /\ \A a \in S : Cardinality({b \in S : <<b, a>> \in R}) + 1 \in 1..n
        /\ \A a, b \in S : Cardinality({c \in S : <<c, a>> \in R})
                              = Cardinality({c \in S : <<c, b>> \in R}) => a = b
    <2> HIDE DEF R
    <2> QED BY <1>7, Ranks
  <1>9. /\ \A i \in 1..n : \E a \in S : Cardinality(below(a)) = i - 1
        /\ \A a \in S : Cardinality(below(a)) + 1 \in 1..n
        /\ \A a, b \in S : Cardinality(below(a)) = Cardinality(below(b)) => a = b
    <2> HIDE DEF R
    <2> QED BY <1>2, <1>8
  <1>10. order = [i \in 1..n |-> CHOOSE a \in S : Cardinality(below(a)) = i - 1]
    BY DEF InOrder, Ranked
  <1>11. \A a \in S : Cardinality(below(a)) \in Int
    <2>1. \A a \in S : below(a) \in SUBSET S
      OBVIOUS
    <2> HIDE DEF below
    <2>2. \A a \in S : IsFiniteSet(below(a))
      BY <2>1, FS_Subset
    <2>3. \A a \in S : Cardinality(below(a)) \in Nat
      BY <2>2, FS_CardinalityType
    <2> QED BY <2>3
  <1> HIDE DEF below, order, n
  <1>12. \A i \in 1..n : order[i] \in S /\ Cardinality(below(order[i])) = i - 1
    BY <1>9, <1>10
  <1>13. order \in [1..n -> S]
    BY <1>10, <1>12
  <1>14. /\ rank \in [S -> Int]
         /\ \A i \in 1..n : rank[order[i]] = i - 1
         /\ \A a \in S : rank[a] + 1 \in 1..n
         /\ \A a, b \in S : rank[a] = rank[b] => a = b
    BY <1>9, <1>11, <1>12
  <1> HIDE DEF rank
  <1>15. order \in [1..Cardinality(S) -> S]
    BY <1>13 DEF n
  <1>16. /\ \A i \in 1..Cardinality(S) : rank[order[i]] = i - 1
         /\ \A a \in S : rank[a] + 1 \in 1..Cardinality(S)
    BY <1>14 DEF n
  <1>17. Lists(order, S)
    BY <1>14, <1>15, <1>16, RankedLists
  <1> QED BY <1>17 DEF order

(* Grants in the order of the genesis document. *)
LEMMA SortedLists ==
    ASSUME NEW S, IsFiniteSet(S),
           S \subseteq [beneficiary : Addr, amount : Amounts, start : Nat, end : Nat]
    PROVE  Lists(Sorted(S), S)
  <1> DEFINE R == {p \in S \X S : GrantBefore(p[1], p[2])}
             below(a) == {b \in S : GrantBefore(b, a)}
             rank == [a \in S |-> Cardinality(below(a))]
             order == Sorted(S)
             n == Cardinality(S)
  <1>1. \A a, b \in S : <<a, b>> \in R <=> GrantBefore(a, b)
    OBVIOUS
  <1>2. \A a \in S : {b \in S : <<b, a>> \in R} = below(a)
    BY <1>1
  <1>3. \A g \in S : /\ g.beneficiary \in Int /\ g.amount \in Int
                     /\ g.start \in Int /\ g.end \in Int
    <2>1. \A g \in S : /\ g.beneficiary \in Addr /\ g.amount \in Amounts
                       /\ g.start \in Nat /\ g.end \in Nat
      OBVIOUS
    <2>2. \A a \in Addr : a \in Int
      BY NamesDiffer
    <2>3. \A x \in Amounts : x \in Int
      BY WordType
    <2> QED BY <2>1, <2>2, <2>3
  <1>4. \A a \in S : ~GrantBefore(a, a)
    BY <1>3 DEF GrantBefore
  <1>5. \A a, b, c \in S : GrantBefore(a, b) /\ GrantBefore(b, c) => GrantBefore(a, c)
    BY <1>3 DEF GrantBefore
  <1>6. \A a, b \in S : a = b \/ GrantBefore(a, b) \/ GrantBefore(b, a)
    <2>1. SUFFICES ASSUME NEW a \in S, NEW b \in S, ~GrantBefore(a, b), ~GrantBefore(b, a)
                   PROVE  a = b
      OBVIOUS
    <2>2. /\ a.beneficiary = b.beneficiary /\ a.amount = b.amount
          /\ a.start = b.start /\ a.end = b.end
      BY <1>3, <2>1 DEF GrantBefore
    <2> QED BY <2>2
  <1>7. /\ \A a \in S : <<a, a>> \notin R
        /\ \A a, b, c \in S : <<a, b>> \in R /\ <<b, c>> \in R => <<a, c>> \in R
        /\ \A a, b \in S : a = b \/ <<a, b>> \in R \/ <<b, a>> \in R
    <2> HIDE DEF R
    <2> QED BY <1>1, <1>4, <1>5, <1>6
  <1>8. /\ \A i \in 1..n : \E a \in S : Cardinality({b \in S : <<b, a>> \in R}) = i - 1
        /\ \A a \in S : Cardinality({b \in S : <<b, a>> \in R}) + 1 \in 1..n
        /\ \A a, b \in S : Cardinality({c \in S : <<c, a>> \in R})
                              = Cardinality({c \in S : <<c, b>> \in R}) => a = b
    <2> HIDE DEF R
    <2> QED BY <1>7, Ranks
  <1>9. /\ \A i \in 1..n : \E a \in S : Cardinality(below(a)) = i - 1
        /\ \A a \in S : Cardinality(below(a)) + 1 \in 1..n
        /\ \A a, b \in S : Cardinality(below(a)) = Cardinality(below(b)) => a = b
    <2> HIDE DEF R
    <2> QED BY <1>2, <1>8
  <1>10. order = [i \in 1..n |-> CHOOSE a \in S : Cardinality(below(a)) = i - 1]
    BY DEF Sorted, Ranked
  <1>11. \A a \in S : Cardinality(below(a)) \in Int
    <2>1. \A a \in S : below(a) \in SUBSET S
      OBVIOUS
    <2> HIDE DEF below
    <2>2. \A a \in S : IsFiniteSet(below(a))
      BY <2>1, FS_Subset
    <2>3. \A a \in S : Cardinality(below(a)) \in Nat
      BY <2>2, FS_CardinalityType
    <2> QED BY <2>3
  <1> HIDE DEF below, order, n
  <1>12. \A i \in 1..n : order[i] \in S /\ Cardinality(below(order[i])) = i - 1
    BY <1>9, <1>10
  <1>13. order \in [1..n -> S]
    BY <1>10, <1>12
  <1>14. /\ rank \in [S -> Int]
         /\ \A i \in 1..n : rank[order[i]] = i - 1
         /\ \A a \in S : rank[a] + 1 \in 1..n
         /\ \A a, b \in S : rank[a] = rank[b] => a = b
    BY <1>9, <1>11, <1>12
  <1> HIDE DEF rank
  <1>15. order \in [1..Cardinality(S) -> S]
    BY <1>13 DEF n
  <1>16. /\ \A i \in 1..Cardinality(S) : rank[order[i]] = i - 1
         /\ \A a \in S : rank[a] + 1 \in 1..Cardinality(S)
    BY <1>14 DEF n
  <1>17. Lists(order, S)
    BY <1>14, <1>15, <1>16, RankedLists
  <1> QED BY <1>17 DEF order

(* And in descending order. *)
LEMMA ReverseLists ==
    ASSUME NEW S, IsFiniteSet(S), NEW order, Lists(order, S)
    PROVE  Lists(Reverse(order), S)
  <1> DEFINE n == Cardinality(S)
             back == Reverse(order)
  <1>1. n \in Nat /\ DOMAIN order = 1..n
    BY FS_CardinalityType DEF Lists
  <1>2. Len(order) = n
    <2>1. order \in [1..n -> S]
      BY DEF Lists
    <2> HIDE DEF n
    <2>2. order \in Seq(S)
      BY <1>1, <2>1
    <2> QED BY <1>1, <2>1, <2>2
  <1>3. back = [i \in 1..n |-> order[(n - i) + 1]]
    BY <1>2 DEF Reverse
  <1>4. DOMAIN back = 1..n /\ \A i \in 1..n : back[i] = order[(n - i) + 1]
    BY <1>3
  <1> HIDE DEF n, back
  <1>5. \A i \in 1..n : (n - i) + 1 \in 1..n /\ (n - ((n - i) + 1)) + 1 = i
    BY <1>1
  <1>6. \A i \in 1..n : back[i] \in S
    <2>1. \A k \in 1..n : order[k] \in S
      BY DEF Lists, n
    <2>2. SUFFICES ASSUME NEW i \in 1..n PROVE back[i] \in S
      OBVIOUS
    <2> DEFINE j == (n - i) + 1
    <2>3. j \in 1..n
      BY <1>5
    <2>4. back[i] = order[j]
      BY <1>4
    <2> HIDE DEF j
    <2> QED BY <2>1, <2>3, <2>4
  <1>7. \A a \in S : \E i \in 1..n : back[i] = a
    <2>1. SUFFICES ASSUME NEW a \in S PROVE \E i \in 1..n : back[i] = a
      OBVIOUS
    <2>2. PICK j \in 1..n : order[j] = a
      BY DEF Lists, n
    <2> DEFINE i == (n - j) + 1
    <2>3. i \in 1..n /\ (n - i) + 1 = j
      BY <1>5
    <2>4. back[i] = order[(n - i) + 1]
      BY <1>4, <2>3
    <2> HIDE DEF i
    <2> QED BY <2>2, <2>3, <2>4
  <1>8. \A i, j \in 1..n : back[i] = back[j] => i = j
    <2>1. SUFFICES ASSUME NEW i \in 1..n, NEW j \in 1..n, back[i] = back[j] PROVE i = j
      OBVIOUS
    <2>2. order[(n - i) + 1] = order[(n - j) + 1]
      BY <1>4, <2>1
    <2>3. (n - i) + 1 = (n - j) + 1
      BY <1>1, <1>5, <2>2 DEF Lists
    <2> QED BY <1>1, <2>3
  <1>9. back \in [1..n -> S]
    BY <1>3, <1>6
  <1> QED BY <1>6, <1>7, <1>8, <1>9 DEF Lists, n, back

-----------------------------------------------------------------------------
(* The unbonding queue. *)

(* From s to o only purses and the queue change. *)
Matures(s, o) ==
    /\ SameBut(s, o, {"acc", "unb"})
    /\ DOMAIN s.acc \subseteq DOMAIN o.acc
    /\ \A a \in Addr : NonceOf(o, a) = NonceOf(s, a) /\ StakedOf(o, a) = StakedOf(s, a)

(* A release from the queue touches purses and the queue only. *)
LEMMA MaturesPresent ==
    ASSUME NEW s, NEW o, Matures(s, o)
    PROVE  Present(s, o) /\ SameStakes(s, o) /\ SameContracts(s, o)
  BY DEF Matures, Present, SameStakes, SameContracts, SameBut, Fields

(* Emptying the queue takes all of it out of what is held. *)
LEMMA ClearStep ==
    ASSUME NEW s, Shape(s), NEW o, o = [s EXCEPT !.unb = <<>>]
    PROVE  /\ Shape(o) /\ Matures(s, o) /\ o.unb = <<>>
           /\ InQueue(s) \in Int /\ Moves(s, o, Native, -InQueue(s))
  <1>1. DOMAIN s = Fields
    BY DEF Shape
  <1>2. DOMAIN o = Fields /\ o.unb = <<>> /\ \A f \in Fields \ {"unb"} : o[f] = s[f]
    BY <1>1 DEF Fields
  <1>3. Shape(o)
    <2>1. o.unb \in Seq(Entries)
      BY <1>2
    <2> QED BY <1>2, <2>1 DEF Shape, Fields
  <1>4. /\ o.acc = s.acc /\ o.tok = s.tok /\ o.val = s.val /\ o.ctr = s.ctr
        /\ o.wasm = s.wasm /\ o.pool = s.pool /\ o.supply = s.supply
    BY <1>2 DEF Fields
  <1>5. InQueue(o) = 0
    <2>1. DOMAIN [i \in DOMAIN o.unb |-> o.unb[i].amt] = {}
      BY <1>2
    <2> QED BY <2>1, SumOfNone DEF InQueue, Sum, SumFunction
  <1>6. InQueue(s) \in Int
    BY PartsOfLocked
  <1> DEFINE x == -InQueue(s)
  <1>7. x \in Int /\ Same(InQueue(o), InQueue(s) + x)
    <2>1. InQueue(s) + x = 0 /\ x \in Int
      BY <1>6
    <2> QED BY <1>5, <2>1 DEF Same, Congruent
  <1> HIDE DEF x
  <1>8. InPool(o) = InPool(s) /\ InStakes(o) = InStakes(s) /\ InPrograms(o) = InPrograms(s)
    BY <1>4 DEF InPool, InStakes, InPrograms
  <1>9. Same(Locked(o), Locked(s) + x)
    BY <1>3, <1>7, <1>8, LockedPart
  <1>10. \A u \in Currencies : /\ InAccounts(o, u) = InAccounts(s, u)
                               /\ InContracts(o, u) = InContracts(s, u)
                               /\ Owed(o, u) = Owed(s, u)
    BY <1>4 DEF InAccounts, InContracts, Owed
  <1>11. Moves(s, o, Native, x)
    BY <1>3, <1>7, <1>9, <1>10, LockedMoves
  <1>12. Matures(s, o)
    BY <1>2, <1>4 DEF Matures, SameBut, NonceOf, StakedOf
  <1> QED BY <1>2, <1>3, <1>6, <1>11, <1>12 DEF x

(* One entry is paid, or queues again. *)
LEMMA ReleaseEntry ==
    ASSUME NEW s, Shape(s), NEW u \in Entries, NEW time
    PROVE  LET o == ReleaseStep(time, 0, s, u)
           IN  Shape(o) /\ Matures(s, o) /\ Moves(s, o, Native, u.amt)
  <1> DEFINE o == ReleaseStep(time, 0, s, u)
  <1>1. CASE u.at <= time
    <2>1. o = Credit(s, u.addr, Native, u.amt)
      BY <1>1 DEF ReleaseStep
    <2>2. u.amt \in Int
      BY WordType DEF Entries
    <2> HIDE DEF o
    <2>3. Shape(o) /\ Pays(s, o) /\ Moves(s, o, Native, u.amt)
      BY <2>1, <2>2, NativeCurrency, CreditStep
    <2> QED BY <2>3 DEF o, Pays, Matures, SameBut
  <1>2. CASE ~(u.at <= time)
    <2>1. o = [s EXCEPT !.unb = Append(s.unb, u)]
      BY <1>2 DEF ReleaseStep
    <2> HIDE DEF o
    <2>2. Shape(o) /\ SameBut(s, o, {"unb"}) /\ Moves(s, o, Native, u.amt)
      BY <2>1, QueueStep
    <2>3. o.acc = s.acc
      BY <2>2 DEF SameBut, Fields
    <2>4. Matures(s, o)
      BY <2>2, <2>3 DEF Matures, SameBut, NonceOf, StakedOf
    <2> QED BY <2>2, <2>4 DEF o
  <1> QED BY <1>1, <1>2

(* releaseUnbondedLocked pays or keeps every entry, once. *)
LEMMA ReleaseUnbondedStep ==
    ASSUME NEW s, Shape(s), NEW time
    PROVE  LET o == ReleaseUnbonded(s, time)
           IN  Neutral(s, o) /\ SameStakes(s, o) /\ SameContracts(s, o)
  <1> DEFINE b == [s EXCEPT !.unb = <<>>]
             n == Len(s.unb)
             x == [i \in 1..n |-> s.unb[i].amt]
             o == ReleaseUnbonded(s, time)
  <1>1. s.unb \in Seq(Entries)
    BY DEF Shape
  <1>2. n \in Nat /\ DOMAIN s.unb = 1..n /\ \A i \in 1..n : s.unb[i] \in Entries
    BY <1>1
  <1>3. o = Releasing!Fold(time, 0, b, s.unb)
    BY DEF ReleaseUnbonded, Releasing!Fold, FoldLeft, Releasing!FoldLeft, MapThenFoldSet,
           Releasing!MapThenFoldSet, Max, Releasing!Max, ReleaseStep
  <1>4. Shape(b) /\ Matures(s, b) /\ InQueue(s) \in Int /\ Moves(s, b, Native, -InQueue(s))
    BY ClearStep
  <1>5. PICK f : /\ f[0] = b
                 /\ \A k \in 1..n : f[k] = ReleaseStep(time, 0, f[k - 1], s.unb[k])
                 /\ f[n] = Releasing!Fold(time, 0, b, s.unb)
    <2>1. Releasing!Traced(time, 0, b, n, s.unb)
      BY <1>2, Releasing!FoldTrace
    <2> HIDE DEF b, n
    <2> QED BY <2>1 DEF Releasing!Traced
  <1>6. \A k \in 1..n : x[k] = s.unb[k].amt /\ x[k] \in Int
    BY <1>2, WordType DEF Entries
  <1>7. SumFunctionOnSet(x, 1..n) = InQueue(s)
    BY <1>2 DEF InQueue, Sum, SumFunction
  <1> HIDE DEF b, n, x, o
  <1>8. ASSUME NEW k \in 1..n, Shape(f[k - 1])
        PROVE  Shape(f[k]) /\ Matures(f[k - 1], f[k]) /\ Moves(f[k - 1], f[k], Native, x[k])
    <2>1. s.unb[k] \in Entries
      BY <1>2
    <2> QED BY <1>5, <1>6, <1>8, <2>1, ReleaseEntry
  <1>9. Shape(f[n]) /\ Moves(f[0], f[n], Native, InQueue(s))
    <2>1. Shape(f[0])
      BY <1>4, <1>5
    <2>2. /\ Shape(f[n]) /\ Moves(f[0], f[n], Native, SumFunctionOnSet(x, 1..n))
      BY <1>2, <1>6, <1>8, <2>1, TraceMoves
    <2> QED BY <1>7, <2>2
  <1>10. Matures(s, f[n])
    <2> DEFINE T == {k \in Nat : Shape(f[k]) /\ Matures(s, f[k])}
    <2>1. 0 \in T
      BY <1>4, <1>5
    <2>2. ASSUME NEW k \in 1..n, k - 1 \in T PROVE k \in T
      <3>1. Shape(f[k]) /\ Matures(f[k - 1], f[k]) /\ Matures(s, f[k - 1])
        BY <1>8, <2>2
      <3>2. Matures(s, f[k])
        BY <3>1 DEF Matures, SameBut
      <3> QED BY <3>1, <3>2
    <2> HIDE DEF T
    <2>3. \A k \in 0..n : k \in T
      BY <1>2, <2>1, <2>2, Positions
    <2> QED BY <1>2, <2>3 DEF T
  <1>11. f[n] = o
    BY <1>3, <1>5
  <1>12. Moves(s, o, Native, 0)
    <2>1. Moves(b, o, Native, InQueue(s))
      BY <1>5, <1>9, <1>11
    <2> QED BY <1>4, <1>9, <1>11, <2>1, NativeCurrency, MovesForth
  <1>13. Neutral(s, o) /\ SameStakes(s, o) /\ SameContracts(s, o)
    BY <1>9, <1>10, <1>11, <1>12, MaturesPresent DEF Neutral
  <1> QED BY <1>13 DEF o

-----------------------------------------------------------------------------
(* A validator that leaves. *)
LeaveEntry(time, delegators, t, a) == Unbond(t, a, delegators[a], time)

Leaving == INSTANCE Folding WITH Step <- LeaveEntry

(* Its delegations join the queue one by one, and it is gone. *)
LEMMA LeaveStep ==
    ASSUME NEW s, Shape(s), NEW v \in DOMAIN s.val, s.val[v].stake = 0, NEW time \in Nat,
           NEW order, Lists(order, DOMAIN s.val[v].delegators)
    PROVE  LET o == Leave(s, v, order, time)
           IN  /\ Neutral(s, o) /\ SameContracts(s, o)
               /\ o.acc = s.acc /\ o.val = Without(s.val, v)
  <1> DEFINE d == s.val[v].delegators
             S == DOMAIN d
             n == Cardinality(S)
             x == [i \in 1..n |-> d[order[i]]]
             w == s.val[v].delegated
             o == Leave(s, v, order, time)
  <1>1. /\ S \subseteq Addr /\ \A a \in S : d[a] \in Amounts /\ d[a] \in Int
        /\ w \in Int /\ Same(w, Sum(d)) /\ Weight(s.val[v]) = w
    <2>1. ValidatorOK(s.val[v])
      BY DEF Shape, ValOK
    <2>2. /\ S \subseteq Addr /\ d \in [S -> Amounts] /\ w \in Amounts /\ Same(w, Sum(d))
      BY <2>1 DEF ValidatorOK
    <2>3. \A a \in S : d[a] \in Amounts
      BY <2>2
    <2>4. w \in Int /\ \A a \in S : d[a] \in Int
      BY <2>2, <2>3, WordType
    <2>5. Weight(s.val[v]) = w
      BY <2>4 DEF Weight
    <2> QED BY <2>2, <2>3, <2>4, <2>5
  <1>2. IsFiniteSet(S) /\ n \in Nat
    BY <1>1, NamesDiffer, FS_Subset, FS_CardinalityType
  <1>3. order \in [1..n -> S]
    BY DEF Lists
  <1> DEFINE out == Leaving!Fold(time, d, s, order)
  <1>4. o = [out EXCEPT !.val = Without(@, v)]
    BY DEF Leave, Leaving!Fold, FoldLeft, Leaving!FoldLeft, MapThenFoldSet,
           Leaving!MapThenFoldSet, Max, Leaving!Max, LeaveEntry
  <1>5. PICK f : /\ f[0] = s
                 /\ \A k \in 1..n : f[k] = LeaveEntry(time, d, f[k - 1], order[k])
                 /\ f[n] = out
    <2>1. Leaving!Traced(time, d, s, n, order)
      BY <1>2, <1>3, Leaving!FoldTrace
    <2> HIDE DEF n, d
    <2> QED BY <2>1 DEF Leaving!Traced
  <1>6. \A k \in 1..n : order[k] \in S /\ x[k] = d[order[k]]
    BY <1>3
  <1>7. SumFunctionOnSet(x, 1..n) = Sum(d)
    <2>1. SumFunctionOnSet(x, 1..n) = SumFunctionOnSet(d, S)
      <3>1. \A a \in S : d[a] \in Int
        BY <1>1
      <3>2. \A i \in 1..Cardinality(S) : x[i] = d[order[i]]
        BY <1>6
      <3>3. Lists(order, S)
        OBVIOUS
      <3> HIDE DEF x, d, S, n
      <3> QED BY <1>2, <3>1, <3>2, <3>3, SumAlong DEF n
    <2> QED BY <2>1 DEF Sum, SumFunction
  <1> HIDE DEF d, S, n, x, w, o, out
  <1>8. ASSUME NEW k \in 1..n, Shape(f[k - 1])
        PROVE  /\ Shape(f[k]) /\ SameBut(f[k - 1], f[k], {"unb"})
               /\ Moves(f[k - 1], f[k], Native, x[k])
    <2>1. order[k] \in Addr /\ d[order[k]] \in Amounts
      BY <1>1, <1>6
    <2>2. f[k] = Unbond(f[k - 1], order[k], d[order[k]], time)
      BY <1>5 DEF LeaveEntry
    <2> QED BY <1>6, <1>8, <2>1, <2>2, UnbondStep
  <1>9. Shape(out) /\ Sum(d) \in Int /\ Moves(s, out, Native, Sum(d))
    <2>1. \A k \in 1..n : x[k] \in Int
      BY <1>1, <1>6
    <2>2. Shape(f[0])
      BY <1>5
    <2>3. /\ Shape(f[n]) /\ SumFunctionOnSet(x, 1..n) \in Int
          /\ Moves(f[0], f[n], Native, SumFunctionOnSet(x, 1..n))
      BY <1>2, <1>8, <2>1, <2>2, TraceMoves
    <2> QED BY <1>5, <1>7, <2>3
  <1>10. SameBut(s, out, {"unb"})
    <2> DEFINE T == {k \in Nat : Shape(f[k]) /\ SameBut(s, f[k], {"unb"})}
    <2>1. 0 \in T
      BY <1>5 DEF SameBut
    <2>2. ASSUME NEW k \in 1..n, k - 1 \in T PROVE k \in T
      <3>1. Shape(f[k]) /\ SameBut(f[k - 1], f[k], {"unb"}) /\ SameBut(s, f[k - 1], {"unb"})
        BY <1>8, <2>2
      <3>2. SameBut(s, f[k], {"unb"})
        BY <3>1 DEF SameBut
      <3> QED BY <3>1, <3>2
    <2> HIDE DEF T
    <2>3. \A k \in 0..n : k \in T
      BY <1>2, <2>1, <2>2, Positions
    <2> QED BY <1>2, <1>5, <2>3 DEF T
  <1>11. out.val = s.val /\ out.acc = s.acc /\ out.ctr = s.ctr /\ out.wasm = s.wasm
    BY <1>10 DEF SameBut, Fields
  <1>12. /\ Shape(o) /\ SameBut(out, o, {"val"}) /\ o.val = Without(out.val, v)
    <2>1. DOMAIN out = Fields
      BY <1>9 DEF Shape
    <2>2. /\ DOMAIN o = Fields /\ o.val = Without(out.val, v)
          /\ \A g \in Fields \ {"val"} : o[g] = out[g]
      BY <1>4, <2>1 DEF Fields
    <2>3. ValOK(o.val)
      <3>1. ValOK(out.val)
        BY <1>9 DEF Shape
      <3> QED BY <2>2, <3>1 DEF ValOK, Without
    <2> QED BY <1>9, <2>2, <2>3 DEF Shape, Fields, SameBut
  <1>13. Moves(out, o, Native, -w)
    <2>1. v \in DOMAIN out.val /\ Weight(out.val[v]) = w
      BY <1>1, <1>11
    <2>2. Moves(out, o, Native, -Weight(out.val[v]))
      BY <1>9, <1>12, <2>1, ValLeaves
    <2> QED BY <2>1, <2>2
  <1>14. Moves(s, out, Native, w)
    <2>1. Same(Sum(d), w)
      BY <1>1 DEF Same, Congruent
    <2> QED BY <1>1, <1>9, <2>1, MovesSame
  <1>15. Moves(s, o, Native, 0)
    BY <1>1, <1>9, <1>12, <1>13, <1>14, NativeCurrency, MovesForth
  <1>16. o.acc = s.acc /\ o.ctr = s.ctr /\ o.wasm = s.wasm
    BY <1>11, <1>12 DEF SameBut, Fields
  <1>17. Neutral(s, o) /\ SameContracts(s, o)
    BY <1>12, <1>15, <1>16 DEF Neutral, Present, NonceOf, SameContracts
  <1> QED BY <1>11, <1>12, <1>16, <1>17 DEF o

-----------------------------------------------------------------------------
(* Records of validators and their stakes. *)

(* The stake an account is said to have changes, and nothing else of it. *)
LEMMA RestakeOK ==
    ASSUME NEW acc, AccOK(acc), NEW a \in Addr, a \in DOMAIN acc, NEW y \in Amounts,
           NEW new, new = [acc EXCEPT ![a].staked = y]
    PROVE  /\ AccOK(new) /\ DOMAIN new = DOMAIN acc
           /\ \A b \in DOMAIN acc : new[b].bal = acc[b].bal /\ new[b].nonce = acc[b].nonce
           /\ new[a].staked = y
           /\ \A b \in DOMAIN acc \ {a} : new[b].staked = acc[b].staked
  <1>1. \A b \in DOMAIN acc : acc[b] \in Account
    BY DEF AccOK
  <1>2. DOMAIN new = DOMAIN acc /\ \A b \in DOMAIN acc \ {a} : new[b] = acc[b]
    OBVIOUS
  <1>3. /\ new[a] \in Account /\ new[a].bal = acc[a].bal /\ new[a].nonce = acc[a].nonce
        /\ new[a].staked = y
    BY <1>1 DEF Account
  <1> QED BY <1>2, <1>3 DEF AccOK

(* The accounts and the validators of a ledger are written, nothing else. *)
Writes(s, o, acc, val) ==
    /\ o.acc = acc /\ o.val = val
    /\ \A f \in Fields \ {"acc", "val"} : o[f] = s[f]

(* One validator is replaced, or added, and the accounts say so. *)
LEMMA ValStep ==
    ASSUME NEW s, Shape(s), NEW k \in Addr, NEW w, ValidatorOK(w),
           NEW acc, AccOK(acc), DOMAIN acc = DOMAIN s.acc,
           \A b \in DOMAIN acc : acc[b].bal = s.acc[b].bal /\ acc[b].nonce = s.acc[b].nonce,
           NEW x \in Int,
           Same(Weight(w), (IF k \in DOMAIN s.val THEN Weight(s.val[k]) ELSE 0) + x),
           NEW o, o = [s EXCEPT !.acc = acc, !.val = Put(s.val, k, w)]
    PROVE  /\ Shape(o) /\ Moves(s, o, Native, x) /\ Present(s, o) /\ SameContracts(s, o)
           /\ Writes(s, o, acc, Put(s.val, k, w))
  <1>1. DOMAIN s = Fields
    BY DEF Shape
  <1>2. /\ DOMAIN o = Fields /\ o.acc = acc /\ o.val = Put(s.val, k, w)
        /\ \A f \in Fields \ {"acc", "val"} : o[f] = s[f]
    BY <1>1 DEF Fields
  <1>3. /\ DOMAIN o.val = DOMAIN s.val \cup {k} /\ o.val[k] = w
        /\ \A v \in DOMAIN s.val \ {k} : o.val[v] = s.val[v]
    BY <1>2 DEF Put
  <1>4. ValOK(o.val)
    <2>1. ValOK(s.val)
      BY DEF Shape
    <2> QED BY <1>3, <2>1 DEF ValOK
  <1>5. Shape(o)
    BY <1>2, <1>4 DEF Shape, Fields
  <1>6. SameBut(s, o, {"acc", "val", "slashed"})
    BY <1>2 DEF SameBut
  <1>7. DOMAIN o.acc = DOMAIN s.acc /\ \A a \in DOMAIN s.acc : o.acc[a].bal = s.acc[a].bal
    BY <1>2
  <1>8. Same(Weight(o.val[k]), (IF k \in DOMAIN s.val THEN Weight(s.val[k]) ELSE 0) + x)
    BY <1>3
  <1>9. Moves(s, o, Native, x)
    BY <1>3, <1>5, <1>6, <1>7, <1>8, ValMoves
  <1>10. Present(s, o)
    BY <1>2 DEF Present, NonceOf
  <1>11. SameContracts(s, o)
    BY <1>2 DEF SameContracts, Fields
  <1> QED BY <1>2, <1>5, <1>9, <1>10, <1>11 DEF Writes

(* Both records of a stake are written together. *)
LEMMA ExactPut ==
    ASSUME NEW s, StakesExact(s), NEW o, NEW k \in Addr, NEW w, w.stake > 0,
           o.val = Put(s.val, k, w), DOMAIN s.acc \subseteq DOMAIN o.acc, k \in DOMAIN o.acc,
           \A a \in Addr \ {k} : StakedOf(o, a) = StakedOf(s, a), StakedOf(o, k) = w.stake
    PROVE  StakesExact(o)
  BY DEF StakesExact, StakeOf, Put

(* The records of stakes agree after a validator has gone. *)
LEMMA ExactWithout ==
    ASSUME NEW s, StakesExact(s), NEW o, NEW k,
           o.val = Without(s.val, k), DOMAIN s.acc \subseteq DOMAIN o.acc,
           \A a \in Addr \ {k} : StakedOf(o, a) = StakedOf(s, a), StakedOf(o, k) = 0
    PROVE  StakesExact(o)
  BY DEF StakesExact, StakeOf, Without

(* And after a step that touches no stake. *)
LEMMA ExactSame ==
    ASSUME NEW s, StakesExact(s), NEW o, SameStakes(s, o), Present(s, o)
    PROVE  StakesExact(o)
  BY DEF StakesExact, StakeOf, SameStakes, Present

(* A new validator weighs nothing. *)
LEMMA NewValidatorOK ==
    ValidatorOK(NewValidator) /\ NewValidator.stake = 0 /\ Weight(NewValidator) = 0
  <1>1. Sum(<<>>) = 0
    BY SumOfNone DEF Sum, SumFunction
  <1>2. 0 \in Amounts /\ 0 \in Int /\ <<>> \in [DOMAIN <<>> -> Amounts]
    BY WordType
  <1>3. DOMAIN NewValidator.delegators \subseteq Addr
    BY DEF NewValidator
  <1>4. Same(0, Sum(<<>>))
    BY <1>1 DEF Same, Congruent
  <1> QED BY <1>2, <1>3, <1>4 DEF ValidatorOK, NewValidator, Weight

(* What a validator's stake and delegations come to when one of them moves. *)
LEMMA WeightMoves ==
    ASSUME NEW a \in Int, NEW b \in Int, NEW x \in Int, NEW c \in Int, Same(c, a + x)
    PROVE  Same(c + b, (a + b) + x) /\ Same(b + c, (b + a) + x)
  <1>1. Same(b, b)
    BY DEF Same, Congruent
  <1>2. Same(c + b, (a + x) + b) /\ Same(b + c, b + (a + x))
    <2>1. a + x \in Int
      OBVIOUS
    <2> QED BY <1>1, <2>1, SameSum
  <1>3. (a + x) + b = (a + b) + x /\ b + (a + x) = (b + a) + x
    OBVIOUS
  <1> QED BY <1>2, <1>3, Zenon

(* A validator whose stake is written anew. *)
LEMMA RestakedOK ==
    ASSUME NEW v, ValidatorOK(v), NEW x \in Int, NEW y \in Amounts, Same(y, v.stake + x),
           NEW w, w = [v EXCEPT !.stake = y]
    PROVE  /\ ValidatorOK(w) /\ Same(Weight(w), Weight(v) + x)
           /\ w.stake = y /\ w.delegators = v.delegators /\ w.delegated = v.delegated
  <1>1. /\ w.stake = y /\ w.delegators = v.delegators /\ w.delegated = v.delegated
        /\ ValidatorOK(w)
    BY DEF ValidatorOK
  <1>2. v.stake \in Int /\ v.delegated \in Int /\ y \in Int
    BY WordType DEF ValidatorOK
  <1> DEFINE a == v.stake
             b == v.delegated
  <1>3. a \in Int /\ b \in Int /\ Same(y, a + x) /\ Weight(w) = y + b /\ Weight(v) = a + b
    BY <1>1, <1>2 DEF Weight
  <1> HIDE DEF a, b
  <1>4. Same(y + b, (a + b) + x)
    BY <1>2, <1>3, WeightMoves
  <1>5. Same(Weight(w), Weight(v) + x)
    BY <1>3, <1>4, Zenon
  <1> QED BY <1>1, <1>5

(* A validator whose delegations are written anew. *)
Redelegated(v, d, y) == [v EXCEPT !.delegators = d, !.delegated = y]

(* A validator whose delegations have changed. *)
LEMMA RedelegatedOK ==
    ASSUME NEW v, ValidatorOK(v), NEW x \in Int, NEW y \in Amounts, Same(y, v.delegated + x),
           NEW d, DOMAIN d \subseteq Addr, d \in [DOMAIN d -> Amounts], Same(y, Sum(d))
    PROVE  LET w == Redelegated(v, d, y)
           IN  ValidatorOK(w) /\ Same(Weight(w), Weight(v) + x) /\ w.stake = v.stake
  <1> DEFINE w == Redelegated(v, d, y)
  <1>1. /\ w.stake = v.stake /\ w.delegators = d /\ w.delegated = y
        /\ ValidatorOK(w)
    BY DEF ValidatorOK, Redelegated
  <1> HIDE DEF w
  <1>2. v.stake \in Int /\ v.delegated \in Int /\ y \in Int
    BY WordType DEF ValidatorOK
  <1> DEFINE a == v.delegated
             b == v.stake
  <1>3. a \in Int /\ b \in Int /\ Same(y, a + x) /\ Weight(w) = b + y /\ Weight(v) = b + a
    BY <1>1, <1>2 DEF Weight
  <1> HIDE DEF a, b
  <1>4. Same(b + y, (b + a) + x)
    BY <1>2, <1>3, WeightMoves
  <1>5. Same(Weight(w), Weight(v) + x)
    BY <1>3, <1>4, Zenon
  <1> QED BY <1>1, <1>5 DEF w

-----------------------------------------------------------------------------
(* The transactions of validators and delegators. *)
LEMMA StakeStep ==
    ASSUME NEW s, Shape(s), NEW tx, tx.from \in Addr, tx.from \in DOMAIN s.acc,
           tx.amount \in Amounts, Params.MinValidatorStake > 0,
           Plus(StakeOf(s, tx.from), tx.amount) >= Params.MinValidatorStake
    PROVE  LET o == Stake(s, tx)
           IN  Neutral(s, o) /\ SameContracts(s, o) /\ (StakesExact(s) => StakesExact(o))
  <1> DEFINE a == tx.from
             x == tx.amount
             v == IF a \in DOMAIN s.val THEN s.val[a] ELSE NewValidator
             d == Debit(s, a, Native, x)
             y == Plus(v.stake, x)
             z == Plus(d.acc[a].staked, x)
             w == [v EXCEPT !.stake = y]
             acc == [d.acc EXCEPT ![a].staked = z]
             o == Stake(s, tx)
  <1>1. x \in Int
    BY WordType
  <1>2. Shape(d) /\ Pays(s, d) /\ Moves(s, d, Native, -x) /\ DOMAIN d.acc = DOMAIN s.acc
    BY <1>1, NativeCurrency, DebitStep
  <1>3. d.val = s.val /\ Present(s, d) /\ SameStakes(s, d) /\ SameContracts(s, d)
    <2> HIDE DEF d
    <2>1. Pays(s, d)
      BY <1>2
    <2>2. /\ Present(s, d) /\ SameStakes(s, d) /\ d.ctr = s.ctr /\ d.wasm = s.wasm
      BY ONLY <2>1, PaysPresent
    <2> QED BY <2>2 DEF SameContracts, SameStakes
  <1>4. ValidatorOK(v) /\ v.stake \in Int
    <2>1. ValidatorOK(v)
      BY NewValidatorOK DEF Shape, ValOK
    <2> QED BY <2>1, WordType DEF ValidatorOK
  <1>5. y \in Amounts /\ Same(y, v.stake + x)
    BY <1>1, <1>4, PlusWord
  <1>6. AccOK(d.acc) /\ a \in DOMAIN d.acc /\ d.acc[a].staked \in Int
    <2>1. AccOK(d.acc) /\ a \in DOMAIN d.acc
      BY <1>2 DEF Shape
    <2> QED BY <2>1, WordType DEF AccOK, Account
  <1>7. z \in Amounts
    BY <1>1, <1>6, PlusWord
  <1>8. y = Plus(StakeOf(s, a), x) /\ StakeOf(s, a) = v.stake
    BY NewValidatorOK DEF StakeOf
  <1>9. o = [d EXCEPT !.acc = acc, !.val = Put(d.val, a, w)]
    <2>1. o = [d EXCEPT !.acc[a].staked = z, !.val = Put(d.val, a, w)]
      BY DEF Stake
    <2>2. DOMAIN d = Fields
      BY <1>2 DEF Shape
    <2> HIDE DEF d, o, w, z
    <2> QED BY <2>1, <2>2 DEF Fields
  <1>10. StakedOf(s, a) = StakedOf(d, a) /\ StakedOf(d, a) = d.acc[a].staked
    BY <1>3, <1>6 DEF SameStakes, StakedOf
  <1>11. Params.MinValidatorStake \in Nat
    BY ParamsAreNatural DEF ParamNames
  <1> HIDE DEF a, x, d, o, y, v
  <1>12. ValidatorOK(w) /\ Same(Weight(w), Weight(v) + x) /\ w.stake = y
    BY <1>1, <1>4, <1>5, RestakedOK
  <1> HIDE DEF w, z
  <1>13. /\ AccOK(acc) /\ DOMAIN acc = DOMAIN d.acc
         /\ \A b \in DOMAIN acc : acc[b].bal = d.acc[b].bal /\ acc[b].nonce = d.acc[b].nonce
         /\ acc[a].staked = z
         /\ \A b \in DOMAIN acc \ {a} : acc[b].staked = d.acc[b].staked
    <2>1. a \in Addr
      BY DEF a
    <2> QED BY <1>6, <1>7, <2>1, RestakeOK
  <1>14. Same(Weight(w), (IF a \in DOMAIN d.val THEN Weight(d.val[a]) ELSE 0) + x)
    BY <1>3, <1>12, NewValidatorOK DEF v
  <1> HIDE DEF acc
  <1>15. /\ Shape(o) /\ Moves(d, o, Native, x) /\ Present(d, o) /\ SameContracts(d, o)
         /\ o.acc = acc /\ o.val = Put(d.val, a, w)
    <2>1. a \in Addr
      BY DEF a
    <2>2. /\ Shape(o) /\ Moves(d, o, Native, x) /\ Present(d, o) /\ SameContracts(d, o)
          /\ Writes(d, o, acc, Put(d.val, a, w))
      BY <1>1, <1>2, <1>9, <1>12, <1>13, <1>14, <2>1, ValStep
    <2> QED BY <2>2 DEF Writes
  <1>16. Neutral(s, o)
    <2>1. Moves(s, o, Native, 0)
      BY <1>1, <1>2, <1>15, NativeCurrency, MovesForth
    <2>2. Present(s, o)
      BY <1>3, <1>15 DEF Present
    <2> QED BY <1>15, <2>1, <2>2 DEF Neutral
  <1>17. SameContracts(s, o)
    BY <1>3, <1>15 DEF SameContracts
  <1>18. ASSUME StakesExact(s) PROVE StakesExact(o)
    <2>1. a \in Addr /\ x \in Amounts
      BY DEF a, x
    <2>2. StakedOf(s, a) = v.stake
      BY <1>8, <1>18, <2>1 DEF StakesExact
    <2>3. z = y
      BY <1>10, <2>2 DEF z, y
    <2>4. StakedOf(o, a) = w.stake
      BY <1>6, <1>12, <1>13, <1>15, <2>3 DEF StakedOf
    <2>5. \A b \in Addr \ {a} : StakedOf(o, b) = StakedOf(s, b)
      <3>1. \A b \in Addr \ {a} : StakedOf(o, b) = StakedOf(d, b)
        BY <1>13, <1>15 DEF StakedOf
      <3> QED BY <1>3, <3>1 DEF SameStakes
    <2>6. w.stake > 0
      <3>1. y \in Nat /\ y >= Params.MinValidatorStake
        BY <1>5, <1>8, WordType DEF a, x
      <3> QED BY <1>11, <1>12, <3>1
    <2>7. o.val = Put(s.val, a, w) /\ DOMAIN s.acc \subseteq DOMAIN o.acc /\ a \in DOMAIN o.acc
      BY <1>2, <1>3, <1>6, <1>13, <1>15
    <2> QED BY <1>18, <2>1, <2>4, <2>5, <2>6, <2>7, ExactPut
  <1> QED BY <1>16, <1>17, <1>18 DEF o

(* Unstake: the stake and the delegations go to the queue. *)
LEMMA UnstakeStep ==
    ASSUME NEW s, Shape(s), NEW tx, tx.from \in Addr, tx.from \in DOMAIN s.acc,
           tx.amount \in Amounts, tx.from \in DOMAIN s.val,
           s.acc[tx.from].staked >= tx.amount, NEW time \in Nat
    PROVE  LET o == Unstake(s, tx, time)
           IN  Neutral(s, o) /\ SameContracts(s, o) /\ (StakesExact(s) => StakesExact(o))
  <1> DEFINE a == tx.from
             x == tx.amount
             v == s.val[a]
             d == Unbond(s, a, x, time)
             y == Minus(v.stake, x)
             z == Minus(s.acc[a].staked, x)
             w == [v EXCEPT !.stake = y]
             acc == [d.acc EXCEPT ![a].staked = z]
             out == [d EXCEPT !.acc = acc, !.val = Put(d.val, a, w)]
             m == -x
             o == Unstake(s, tx, time)
  <1>1. x \in Int /\ m \in Int /\ a \in Addr
    BY WordType
  <1>2. Shape(d) /\ SameBut(s, d, {"unb"}) /\ Moves(s, d, Native, x)
    BY UnbondStep
  <1>3. d.val = s.val /\ d.acc = s.acc /\ SameContracts(s, d)
    BY <1>2 DEF SameBut, Fields, SameContracts
  <1>4. ValidatorOK(v) /\ v.stake \in Int
    <2>1. ValidatorOK(v)
      BY DEF Shape, ValOK
    <2> QED BY <2>1, WordType DEF ValidatorOK
  <1>5. y \in Amounts /\ Same(y, v.stake + m)
    <2>1. v.stake - x = v.stake + m
      BY <1>1, <1>4
    <2>2. y \in Amounts /\ Same(y, v.stake - x)
      BY <1>1, <1>4, MinusWord
    <2> QED BY <2>1, <2>2, Zenon
  <1>6. AccOK(d.acc) /\ a \in DOMAIN d.acc /\ s.acc[a].staked \in Int
    <2>1. AccOK(d.acc) /\ a \in DOMAIN d.acc
      BY <1>2, <1>3 DEF Shape
    <2> QED BY <1>3, <2>1, WordType DEF AccOK, Account
  <1>7. z \in Amounts
    BY <1>1, <1>6, MinusWord
  <1>8. StakeOf(s, a) = v.stake /\ StakedOf(s, a) = s.acc[a].staked
    BY DEF StakeOf, StakedOf
  <1>9. o = IF y # 0 THEN out ELSE Leave(out, a, InOrder(DOMAIN v.delegators), time)
    <2>1. out = [d EXCEPT !.acc[a].staked = z, !.val[a].stake = y]
      <3>1. DOMAIN d = Fields /\ a \in DOMAIN d.val
        BY <1>2, <1>3 DEF Shape
      <3>2. Put(d.val, a, w) = [d.val EXCEPT ![a].stake = y]
        BY <1>3 DEF Put
      <3> HIDE DEF d, y, z
      <3> QED BY <3>1, <3>2 DEF Fields
    <2>2. z = Minus(d.acc[a].staked, x)
      BY <1>3
    <2> QED BY <1>3, <2>1, <2>2 DEF Unstake
  <1> HIDE DEF a, x, d, o, y, v, z, m
  <1>10. ValidatorOK(w) /\ Same(Weight(w), Weight(v) + m) /\ w.stake = y
         /\ w.delegators = v.delegators
    BY <1>1, <1>4, <1>5, RestakedOK
  <1>11. /\ AccOK(acc) /\ DOMAIN acc = DOMAIN d.acc
         /\ \A b \in DOMAIN acc : acc[b].bal = d.acc[b].bal /\ acc[b].nonce = d.acc[b].nonce
         /\ acc[a].staked = z
         /\ \A b \in DOMAIN acc \ {a} : acc[b].staked = d.acc[b].staked
    BY <1>1, <1>6, <1>7, RestakeOK
  <1>12. Same(Weight(w), (IF a \in DOMAIN d.val THEN Weight(d.val[a]) ELSE 0) + m)
    <2>1. a \in DOMAIN d.val /\ d.val[a] = v
      BY <1>3 DEF a, v
    <2> QED BY <1>10, <2>1
  <1> HIDE DEF w, acc, out
  <1>13. /\ Shape(out) /\ Moves(d, out, Native, m) /\ Present(d, out) /\ SameContracts(d, out)
         /\ out.acc = acc /\ out.val = Put(d.val, a, w)
    <2>1. out = [d EXCEPT !.acc = acc, !.val = Put(d.val, a, w)]
      BY DEF out
    <2>2. /\ Shape(out) /\ Moves(d, out, Native, m) /\ Present(d, out) /\ SameContracts(d, out)
          /\ Writes(d, out, acc, Put(d.val, a, w))
      BY <1>1, <1>2, <1>10, <1>11, <1>12, <2>1, ValStep
    <2> QED BY <2>2 DEF Writes
  <1>14. Neutral(s, out) /\ SameContracts(s, out)
    <2>1. Moves(s, out, Native, 0)
      BY <1>1, <1>2, <1>13, NativeCurrency, MovesForth DEF m
    <2>2. Present(s, d)
      BY <1>3 DEF Present, NonceOf
    <2>3. Present(s, out) /\ SameContracts(s, out)
      BY <1>3, <1>13, <2>2 DEF Present, SameContracts
    <2> QED BY <1>13, <2>1, <2>3 DEF Neutral
  <1>15. \A b \in Addr \ {a} : StakedOf(out, b) = StakedOf(s, b)
    BY <1>3, <1>11, <1>13 DEF StakedOf
  <1>16. StakedOf(out, a) = z
    BY <1>6, <1>11, <1>13 DEF StakedOf
  <1>17. StakesExact(s) => z = y
    BY <1>1, <1>8 DEF StakesExact, y, z
  <1>18. CASE y # 0
    <2>1. o = out
      BY <1>9, <1>18
    <2>2. ASSUME StakesExact(s) PROVE StakesExact(out)
      <3>1. w.stake > 0
        <4>1. y \in Nat
          BY <1>5, WordType
        <4> QED BY <1>10, <1>18, <4>1
      <3>2. StakedOf(out, a) = w.stake
        BY <1>10, <1>16, <1>17, <2>2
      <3>3. out.val = Put(s.val, a, w) /\ DOMAIN s.acc \subseteq DOMAIN out.acc
            /\ a \in DOMAIN out.acc
        BY <1>3, <1>6, <1>11, <1>13
      <3> QED BY <1>1, <1>15, <2>2, <3>1, <3>2, <3>3, ExactPut
    <2> QED BY <1>14, <2>1, <2>2 DEF o
  <1>19. CASE y = 0
    <2> DEFINE order == InOrder(DOMAIN v.delegators)
    <2>1. o = Leave(out, a, order, time)
      BY <1>9, <1>19
    <2>2. a \in DOMAIN out.val /\ out.val[a] = w
      BY <1>13 DEF Put
    <2>3. out.val[a].stake = 0 /\ out.val[a].delegators = v.delegators
      BY <1>10, <1>19, <2>2
    <2>4. Lists(order, DOMAIN out.val[a].delegators)
      <3> DEFINE S == DOMAIN v.delegators
      <3>1. S \subseteq Addr
        BY <1>4 DEF ValidatorOK
      <3>2. IsFiniteSet(S) /\ S \subseteq Nat
        BY <3>1, NamesDiffer, FS_Subset
      <3> HIDE DEF S
      <3>3. Lists(InOrder(S), S)
        BY <3>2, InOrderLists
      <3> QED BY <2>3, <3>3 DEF S
    <2> HIDE DEF order
    <2>5. /\ Neutral(out, o) /\ SameContracts(out, o)
          /\ o.acc = out.acc /\ o.val = Without(out.val, a)
      BY <1>13, <2>1, <2>2, <2>3, <2>4, LeaveStep
    <2>6. Neutral(s, o)
      BY <1>14, <2>5, NeutralThenNeutral
    <2>7. SameContracts(s, o)
      BY <1>14, <2>5 DEF SameContracts
    <2>8. ASSUME StakesExact(s) PROVE StakesExact(o)
      <3>1. o.val = Without(s.val, a)
        <4>1. out.val = Put(s.val, a, w)
          BY <1>3, <1>13
        <4> QED BY <2>5, <4>1 DEF Put, Without
      <3>2. \A b \in Addr : StakedOf(o, b) = StakedOf(out, b)
        BY <2>5 DEF StakedOf
      <3>3. StakedOf(o, a) = 0
        BY <1>1, <1>16, <1>17, <1>19, <2>8, <3>2
      <3>4. \A b \in Addr \ {a} : StakedOf(o, b) = StakedOf(s, b)
        BY <1>15, <3>2
      <3>5. DOMAIN s.acc \subseteq DOMAIN o.acc
        BY <1>3, <1>11, <1>13, <2>5
      <3> QED BY <2>8, <3>1, <3>3, <3>4, <3>5, ExactWithout
    <2> QED BY <2>6, <2>7, <2>8 DEF o
  <1> QED BY <1>18, <1>19

(* One delegation is written anew, or added. *)
LEMMA DelegationMoves ==
    ASSUME NEW v, ValidatorOK(v), NEW a \in Addr, NEW x \in Int, NEW y \in Amounts,
           Same(y, (IF a \in DOMAIN v.delegators THEN v.delegators[a] ELSE 0) + x),
           NEW z \in Amounts, Same(z, v.delegated + x),
           NEW d, d = Put(v.delegators, a, y)
    PROVE  /\ DOMAIN d \subseteq Addr /\ d \in [DOMAIN d -> Amounts] /\ Same(z, Sum(d))
  <1> DEFINE f == v.delegators
  <1>1. DOMAIN f \subseteq Addr /\ f \in [DOMAIN f -> Amounts] /\ v.delegated \in Amounts
        /\ Same(v.delegated, Sum(f))
    BY DEF ValidatorOK
  <1>2. IsFiniteSet(DOMAIN f)
    BY <1>1, NamesDiffer, FS_Subset
  <1>3. /\ DOMAIN d = DOMAIN f \cup {a} /\ d[a] = y
        /\ \A b \in DOMAIN f \ {a} : d[b] = f[b]
    BY DEF Put
  <1>4. d \in [DOMAIN d -> Amounts] /\ DOMAIN d \subseteq Addr
    <2>1. \A b \in DOMAIN d : d[b] \in Amounts
      BY <1>1, <1>3
    <2>2. d = [b \in DOMAIN d |-> d[b]]
      BY DEF Put
    <2> HIDE DEF f
    <2> QED BY <1>1, <1>3, <2>1, <2>2
  <1>5. (\A b \in DOMAIN f : f[b] \in Int) /\ y \in Int /\ v.delegated \in Int
    <2>1. \A b \in DOMAIN f : f[b] \in Amounts
      BY <1>1
    <2> QED BY <1>1, <2>1, WordType
  <1> HIDE DEF f
  <1>6. Same(d[a], (IF a \in DOMAIN f THEN f[a] ELSE 0) + x) /\ d[a] \in Int
    BY <1>3, <1>5 DEF f
  <1>7. Same(Sum(d), Sum(f) + x)
    <2>1. Same(SumFunction(d), SumFunction(f) + x)
      BY <1>2, <1>3, <1>5, <1>6, SumMoves
    <2> QED BY <2>1 DEF Sum
  <1>8. Sum(f) \in Int
    BY <1>2, <1>5, SumType DEF Sum
  <1> DEFINE g == v.delegated
             h == Sum(f)
  <1>9. Same(g + x, h + x)
    <2>1. Same(x, x) /\ Same(g, h)
      BY <1>1 DEF Same, Congruent
    <2> HIDE DEF g, h
    <2>2. g \in Int /\ h \in Int
      BY <1>5, <1>8 DEF g, h
    <2> QED BY <2>1, <2>2, SameSum
  <1>10. Same(z, Sum(d))
    <2> HIDE DEF g, h
    <2>1. Same(z, g + x) /\ Same(h + x, Sum(d))
      BY <1>7 DEF Same, Congruent, g, h
    <2> QED BY <1>9, <2>1, SameTransitive
  <1> QED BY <1>4, <1>10

(* A delegation that is gone leaves nothing. *)
LEMMA DelegationGone ==
    ASSUME NEW v, ValidatorOK(v), NEW a \in DOMAIN v.delegators,
           NEW z \in Amounts, Same(z, v.delegated - v.delegators[a]),
           NEW d, d = Without(v.delegators, a)
    PROVE  /\ DOMAIN d \subseteq Addr /\ d \in [DOMAIN d -> Amounts] /\ Same(z, Sum(d))
  <1> DEFINE f == v.delegators
  <1>1. DOMAIN f \subseteq Addr /\ f \in [DOMAIN f -> Amounts] /\ v.delegated \in Amounts
        /\ Same(v.delegated, Sum(f))
    BY DEF ValidatorOK
  <1>2. IsFiniteSet(DOMAIN f)
    BY <1>1, NamesDiffer, FS_Subset
  <1>3. DOMAIN d = DOMAIN f \ {a} /\ \A b \in DOMAIN f \ {a} : d[b] = f[b]
    BY DEF Without
  <1>4. d \in [DOMAIN d -> Amounts] /\ DOMAIN d \subseteq Addr
    <2>1. \A b \in DOMAIN d : d[b] \in Amounts
      BY <1>1, <1>3
    <2>2. d = [b \in DOMAIN d |-> d[b]]
      BY DEF Without
    <2> HIDE DEF f
    <2> QED BY <1>1, <1>3, <2>1, <2>2
  <1>5. (\A b \in DOMAIN f : f[b] \in Int) /\ v.delegated \in Int /\ a \in DOMAIN f
    <2>1. \A b \in DOMAIN f : f[b] \in Amounts
      BY <1>1
    <2> QED BY <1>1, <2>1, WordType
  <1> HIDE DEF f
  <1>6. Sum(d) = Sum(f) - f[a] /\ Sum(f) \in Int /\ f[a] \in Int
    BY <1>2, <1>3, <1>5, SumWithout DEF Sum
  <1> DEFINE g == v.delegated
             h == Sum(f)
             x == f[a]
  <1>7. Same(g - x, h - x)
    <2>1. Same(x, x) /\ Same(g, h) /\ g \in Int /\ h \in Int /\ x \in Int
      BY <1>1, <1>5, <1>6 DEF Same, Congruent
    <2> HIDE DEF g, h, x
    <2> QED BY <2>1, SameDifference
  <1>8. Same(z, Sum(d))
    <2>1. Same(z, g - x) /\ Sum(d) = h - x
      BY <1>6 DEF f
    <2> HIDE DEF g, h, x
    <2> QED BY <1>7, <2>1, SameTransitive
  <1> QED BY <1>4, <1>8

(* A validator rewritten with its stake as it was. *)
LEMMA ExactRewrite ==
    ASSUME NEW s, StakesExact(s), NEW o, NEW k \in DOMAIN s.val, NEW w,
           w.stake = s.val[k].stake, o.val = Put(s.val, k, w),
           DOMAIN s.acc \subseteq DOMAIN o.acc, \A a \in Addr : StakedOf(o, a) = StakedOf(s, a)
    PROVE  StakesExact(o)
  BY DEF StakesExact, StakeOf, Put

(* Delegate: a purse pays, the weight of the validator grows. *)
LEMMA DelegateStep ==
    ASSUME NEW s, Shape(s), NEW tx, tx.from \in Addr, tx.from \in DOMAIN s.acc,
           tx.amount \in Amounts, tx.to \in DOMAIN s.val
    PROVE  LET o == Delegate(s, tx)
           IN  Neutral(s, o) /\ SameContracts(s, o) /\ (StakesExact(s) => StakesExact(o))
  <1> DEFINE a == tx.from
             k == tx.to
             x == tx.amount
             v == s.val[k]
             d == Debit(s, a, Native, x)
             y == Plus(Delegation(s, k, a), x)
             z == Plus(v.delegated, x)
             ds == Put(v.delegators, a, y)
             w == Redelegated(v, ds, z)
             o == Delegate(s, tx)
  <1>1. x \in Int /\ a \in Addr /\ k \in Addr
    BY WordType DEF Shape, ValOK
  <1>2. Shape(d) /\ Pays(s, d) /\ Moves(s, d, Native, -x) /\ DOMAIN d.acc = DOMAIN s.acc
    BY <1>1, NativeCurrency, DebitStep
  <1>3. d.val = s.val /\ Present(s, d) /\ SameContracts(s, d) /\ SameStakes(s, d)
    <2> HIDE DEF d
    <2>1. Pays(s, d)
      BY <1>2
    <2>2. Present(s, d) /\ SameStakes(s, d) /\ d.ctr = s.ctr /\ d.wasm = s.wasm
      BY ONLY <2>1, PaysPresent
    <2> QED BY <2>2 DEF SameContracts, SameStakes
  <1>4. ValidatorOK(v)
    BY DEF Shape, ValOK
  <1>5. Delegation(s, k, a) = (IF a \in DOMAIN v.delegators THEN v.delegators[a] ELSE 0)
    BY DEF Delegation
  <1>6. Delegation(s, k, a) \in Int /\ v.delegated \in Int
    <2>1. v.delegated \in Amounts /\ v.delegators \in [DOMAIN v.delegators -> Amounts]
      BY <1>4 DEF ValidatorOK
    <2>2. Delegation(s, k, a) \in Amounts
      BY <1>5, <2>1, WordType
    <2> QED BY <2>1, <2>2, WordType
  <1>7. /\ y \in Amounts /\ Same(y, Delegation(s, k, a) + x)
        /\ z \in Amounts /\ Same(z, v.delegated + x)
    BY <1>1, <1>6, PlusWord
  <1>8. o = [d EXCEPT !.acc = d.acc, !.val = Put(d.val, k, w)]
    <2>1. o = [d EXCEPT !.val[k].delegators = Put(@, a, y), !.val[k].delegated = Plus(@, x)]
      BY DEF Delegate
    <2>2. Put(d.val, k, w) = [d.val EXCEPT ![k] = w] /\ DOMAIN d = Fields /\ k \in DOMAIN d.val
      BY ZenonT(40), <1>2, <1>3 DEF Put, Shape
    <2>3. d.val[k] = v
      BY <1>3
    <2> HIDE DEF d, o, y, v
    <2> QED BY ZenonT(40), <2>1, <2>2, <2>3 DEF Fields, Redelegated
  <1> HIDE DEF a, k, x, v, d, y, z, o, ds
  <1>9. DOMAIN ds \subseteq Addr /\ ds \in [DOMAIN ds -> Amounts] /\ Same(z, Sum(ds))
    <2>1. ds = Put(v.delegators, a, y)
      BY DEF ds
    <2>2. Same(y, (IF a \in DOMAIN v.delegators THEN v.delegators[a] ELSE 0) + x)
      BY <1>5, <1>7
    <2> QED BY <1>1, <1>4, <1>7, <2>1, <2>2, DelegationMoves
  <1>10. ValidatorOK(w) /\ Same(Weight(w), Weight(v) + x) /\ w.stake = v.stake
    BY <1>1, <1>4, <1>7, <1>9, RedelegatedOK
  <1> HIDE DEF w
  <1>11. Same(Weight(w), (IF k \in DOMAIN d.val THEN Weight(d.val[k]) ELSE 0) + x)
    <2>1. k \in DOMAIN d.val /\ d.val[k] = v
      BY <1>3 DEF v, k
    <2> QED BY <1>10, <2>1
  <1> DEFINE acc == d.acc
  <1>12. AccOK(acc) /\ DOMAIN acc = DOMAIN d.acc
         /\ \A b \in DOMAIN acc : acc[b].bal = d.acc[b].bal /\ acc[b].nonce = d.acc[b].nonce
    BY <1>2 DEF Shape
  <1>13. o = [d EXCEPT !.acc = acc, !.val = Put(d.val, k, w)]
    BY <1>8
  <1>14. acc = d.acc
    OBVIOUS
  <1> HIDE DEF acc
  <1>15. /\ Shape(o) /\ Moves(d, o, Native, x) /\ Present(d, o) /\ SameContracts(d, o)
         /\ Writes(d, o, acc, Put(d.val, k, w))
    BY <1>1, <1>2, <1>10, <1>11, <1>12, <1>13, ValStep
  <1>16. Neutral(s, o) /\ SameContracts(s, o)
    <2>1. Moves(s, o, Native, 0)
      BY <1>1, <1>2, <1>15, NativeCurrency, MovesForth
    <2>2. Present(s, o) /\ SameContracts(s, o)
      BY <1>3, <1>15 DEF Present, SameContracts
    <2> QED BY <1>15, <2>1, <2>2 DEF Neutral
  <1>17. ASSUME StakesExact(s) PROVE StakesExact(o)
    <2>1. \A b \in Addr : StakedOf(o, b) = StakedOf(s, b)
      BY <1>3, <1>14, <1>15 DEF Writes, StakedOf, SameStakes
    <2>2. o.val = Put(s.val, k, w) /\ DOMAIN s.acc \subseteq DOMAIN o.acc
      BY <1>2, <1>3, <1>14, <1>15 DEF Writes
    <2>3. k \in DOMAIN s.val /\ w.stake = s.val[k].stake
      BY <1>10 DEF v, k
    <2> QED BY <1>17, <2>1, <2>2, <2>3, ExactRewrite
  <1> QED BY <1>16, <1>17 DEF o

(* Undelegate: the queue gets what the validator loses. *)
LEMMA UndelegateStep ==
    ASSUME NEW s, Shape(s), NEW tx, tx.from \in Addr, tx.from \in DOMAIN s.acc,
           tx.amount \in Amounts, tx.amount > 0, tx.to \in DOMAIN s.val, NEW time \in Nat,
           Delegation(s, tx.to, tx.from) >= tx.amount
    PROVE  LET o == Undelegate(s, tx, time)
           IN  Neutral(s, o) /\ SameContracts(s, o) /\ (StakesExact(s) => StakesExact(o))
  <1> DEFINE a == tx.from
             k == tx.to
             x == tx.amount
             m == -x
             v == s.val[k]
             d == Unbond(s, a, x, time)
             y == Delegation(s, k, a) - x
             z == Minus(v.delegated, x)
             ds == IF y = 0 THEN Without(v.delegators, a) ELSE [v.delegators EXCEPT ![a] = y]
             w == Redelegated(v, ds, z)
             o == Undelegate(s, tx, time)
  <1>1. x \in Int /\ m \in Int /\ a \in Addr /\ k \in Addr /\ x \in Amounts /\ x > 0
    BY WordType DEF Shape, ValOK
  <1>2. Shape(d) /\ SameBut(s, d, {"unb"}) /\ Moves(s, d, Native, x)
    BY UnbondStep
  <1>3. d.val = s.val /\ d.acc = s.acc /\ SameContracts(s, d)
    BY <1>2 DEF SameBut, Fields, SameContracts
  <1>4. ValidatorOK(v)
    BY DEF Shape, ValOK
  <1>5. Delegation(s, k, a) = (IF a \in DOMAIN v.delegators THEN v.delegators[a] ELSE 0)
    BY DEF Delegation
  <1>6. Delegation(s, k, a) \in Amounts /\ v.delegated \in Int
    <2>1. v.delegated \in Amounts /\ v.delegators \in [DOMAIN v.delegators -> Amounts]
      BY <1>4 DEF ValidatorOK
    <2>2. Delegation(s, k, a) \in Amounts
      BY <1>5, <2>1, WordType
    <2> QED BY <2>1, <2>2, WordType
  <1>7. Delegation(s, k, a) >= x
    OBVIOUS
  <1>8. o = [d EXCEPT !.acc = d.acc, !.val = Put(d.val, k, w)]
    <2>1. o = [d EXCEPT !.val[k].delegated = Minus(@, x),
                        !.val[k].delegators = IF y = 0 THEN Without(@, a)
                                              ELSE [@ EXCEPT ![a] = y]]
      BY DEF Undelegate
    <2>2. Put(d.val, k, w) = [d.val EXCEPT ![k] = w] /\ DOMAIN d = Fields /\ k \in DOMAIN d.val
      BY <1>2, <1>3 DEF Put, Shape
    <2>3. d.val[k] = v
      BY <1>3
    <2>4. w = [v EXCEPT !.delegated = z, !.delegators = ds]
      <3> HIDE DEF v, z, ds
      <3> QED BY DEF Redelegated
    <2> HIDE DEF d, o, y, v, w
    <2>5. o = [d EXCEPT !.val[k] = [v EXCEPT !.delegated = z, !.delegators = ds]]
      BY <2>1, <2>2, <2>3 DEF Fields
    <2> QED BY <2>2, <2>4, <2>5 DEF Fields
  <1> HIDE DEF a, k, x, v, d, o
  <1>9. a \in DOMAIN v.delegators /\ Delegation(s, k, a) = v.delegators[a]
    BY <1>1, <1>5, <1>7
  <1>10. y \in Amounts /\ Same(y, v.delegators[a] + m)
    <2>1. Delegation(s, k, a) \in Nat /\ Delegation(s, k, a) < Word /\ Word \in Nat
      BY <1>6, WordType
    <2>2. y \in 0..(Word - 1) /\ y = Delegation(s, k, a) + m
      BY <1>1, <1>7, <2>1
    <2> QED BY <1>9, <2>2 DEF Amounts, Same, Congruent
  <1>11. z \in Amounts /\ Same(z, v.delegated + m) /\ Same(z, v.delegated - x)
    <2>1. v.delegated - x = v.delegated + m
      BY <1>1, <1>6
    <2>2. z \in Amounts /\ Same(z, v.delegated - x)
      BY <1>1, <1>6, MinusWord
    <2> QED BY <2>1, <2>2, Zenon
  <1>12. DOMAIN ds \subseteq Addr /\ ds \in [DOMAIN ds -> Amounts] /\ Same(z, Sum(ds))
    <2>1. CASE y = 0
      <3>1. ds = Without(v.delegators, a) /\ v.delegators[a] = x
        <4>1. Delegation(s, k, a) \in Int
          BY <1>6, WordType
        <4>2. v.delegators[a] = x
          BY <1>1, <1>9, <2>1, <4>1
        <4> QED BY <2>1, <4>2
      <3> HIDE DEF ds, z, y
      <3>2. Same(z, v.delegated - v.delegators[a])
        BY <1>11, <3>1
      <3> QED BY <1>4, <1>9, <1>11, <3>1, <3>2, DelegationGone
    <2>2. CASE y # 0
      <3>1. ds = Put(v.delegators, a, y)
        BY <1>9, <2>2 DEF Put
      <3> HIDE DEF ds, z, y, m
      <3>2. Same(y, (IF a \in DOMAIN v.delegators THEN v.delegators[a] ELSE 0) + m)
        BY <1>9, <1>10
      <3> QED BY <1>1, <1>4, <1>10, <1>11, <3>1, <3>2, DelegationMoves
    <2> QED BY <2>1, <2>2
  <1> HIDE DEF y, z, ds, m
  <1>13. ValidatorOK(w) /\ Same(Weight(w), Weight(v) + m) /\ w.stake = v.stake
    BY <1>1, <1>4, <1>11, <1>12, RedelegatedOK
  <1> HIDE DEF w
  <1>14. Same(Weight(w), (IF k \in DOMAIN d.val THEN Weight(d.val[k]) ELSE 0) + m)
    <2>1. k \in DOMAIN d.val /\ d.val[k] = v
      BY <1>3 DEF v, k
    <2> QED BY <1>13, <2>1
  <1> DEFINE acc == d.acc
  <1>15. AccOK(acc) /\ DOMAIN acc = DOMAIN d.acc
         /\ \A b \in DOMAIN acc : acc[b].bal = d.acc[b].bal /\ acc[b].nonce = d.acc[b].nonce
    BY <1>2 DEF Shape
  <1>16. o = [d EXCEPT !.acc = acc, !.val = Put(d.val, k, w)] /\ acc = s.acc
    BY <1>3, <1>8
  <1> HIDE DEF acc
  <1>17. /\ Shape(o) /\ Moves(d, o, Native, m) /\ Present(d, o) /\ SameContracts(d, o)
         /\ Writes(d, o, acc, Put(d.val, k, w))
    BY <1>1, <1>2, <1>13, <1>14, <1>15, <1>16, ValStep
  <1>18. Neutral(s, o) /\ SameContracts(s, o)
    <2>1. Moves(s, o, Native, 0)
      BY <1>1, <1>2, <1>17, NativeCurrency, MovesForth DEF m
    <2>2. Present(s, d)
      BY <1>3 DEF Present, NonceOf
    <2>3. Present(s, o) /\ SameContracts(s, o)
      BY <1>3, <1>17, <2>2 DEF Present, SameContracts
    <2> QED BY <1>17, <2>1, <2>3 DEF Neutral
  <1>19. ASSUME StakesExact(s) PROVE StakesExact(o)
    <2>1. \A b \in Addr : StakedOf(o, b) = StakedOf(s, b)
      BY <1>16, <1>17 DEF Writes, StakedOf
    <2>2. o.val = Put(s.val, k, w) /\ DOMAIN s.acc \subseteq DOMAIN o.acc
      BY <1>3, <1>16, <1>17 DEF Writes
    <2>3. k \in DOMAIN s.val /\ w.stake = s.val[k].stake
      BY <1>13 DEF v, k
    <2> QED BY <1>19, <2>1, <2>2, <2>3, ExactRewrite
  <1> QED BY <1>18, <1>19 DEF o

-----------------------------------------------------------------------------
(* What the steps on validators have in common. *)

(* No fault costs more than there is, and a skipped block costs less. *)
SlashRates ==
    Params.SlashDoubleSignBps <= 10000 /\ Params.SlashDowntimeBps < 10000

Settles(s, o) ==
    /\ Neutral(s, o) /\ SameContracts(s, o)
    /\ SlashRates /\ StakesExact(s) => StakesExact(o)

(* Doing nothing settles. *)
LEMMA SettlesItself ==
    ASSUME NEW s, Shape(s)
    PROVE  Settles(s, s)
  <1>1. Moves(s, s, Native, 0)
    BY NoMove
  <1> QED BY <1>1 DEF Settles, Neutral, Present, SameContracts

(* Two such steps make one. *)
LEMMA SettlesThenSettles ==
    ASSUME NEW s, Shape(s), NEW o, NEW p, Settles(s, o), Settles(o, p)
    PROVE  Settles(s, p)
  <1>1. Neutral(s, p)
    BY NeutralThenNeutral DEF Settles
  <1> QED BY <1>1 DEF Settles, SameContracts

(* A neutral step that touches neither stakes nor contracts. *)
LEMMA SameSettles ==
    ASSUME NEW s, NEW o, Neutral(s, o), SameContracts(s, o), SameStakes(s, o)
    PROVE  Settles(s, o)
  BY ExactSame DEF Settles, Neutral

(* A fold of such steps is one. *)
LEMMA TraceSettles ==
    ASSUME NEW n \in Nat, NEW f, Shape(f[0]),
           \A k \in 1..n : Shape(f[k - 1]) => Settles(f[k - 1], f[k])
    PROVE  Settles(f[0], f[n])
  <1> DEFINE T == {k \in Nat : Settles(f[0], f[k])}
  <1>1. 0 \in T
    BY SettlesItself
  <1>2. ASSUME NEW k \in 1..n, k - 1 \in T PROVE k \in T
    <2>1. Settles(f[0], f[k - 1])
      BY <1>2
    <2>2. Shape(f[k - 1])
      BY <2>1 DEF Settles, Neutral
    <2>3. Settles(f[k - 1], f[k])
      BY <2>2
    <2>4. Settles(f[0], f[k])
      BY <2>1, <2>3, SettlesThenSettles
    <2> QED BY <2>4
  <1> HIDE DEF T
  <1>3. \A k \in 0..n : k \in T
    BY <1>1, <1>2, Positions
  <1>4. n \in T
    BY <1>3
  <1> QED BY <1>4 DEF T

(* A validator's record of its conduct. *)
Noted(v, missed, jailed, until) ==
    [v EXCEPT !.missed = missed, !.jailed = jailed, !.until = until]

(* A validator whose conduct is noted keeps its weight. *)
LEMMA NotedOK ==
    ASSUME NEW v, ValidatorOK(v), NEW m \in Nat, NEW j \in BOOLEAN, NEW u \in Int
    PROVE  LET w == Noted(v, m, j, u)
           IN  /\ ValidatorOK(w) /\ w.stake = v.stake /\ w.delegated = v.delegated
               /\ w.delegators = v.delegators /\ Weight(w) = Weight(v)
  BY DEF Noted, ValidatorOK, Weight

(* And so does the ledger. *)
LEMMA NoteStep ==
    ASSUME NEW s, Shape(s), NEW k \in DOMAIN s.val, NEW m \in Nat, NEW j \in BOOLEAN,
           NEW u \in Int, NEW o, o = [s EXCEPT !.val = Put(s.val, k, Noted(s.val[k], m, j, u))]
    PROVE  Settles(s, o)
  <1> DEFINE w == Noted(s.val[k], m, j, u)
             acc == s.acc
  <1>1. ValidatorOK(s.val[k]) /\ k \in Addr /\ DOMAIN s = Fields
    BY DEF Shape, ValOK
  <1>2. ValidatorOK(w) /\ w.stake = s.val[k].stake /\ Weight(w) = Weight(s.val[k])
    BY <1>1, NotedOK
  <1>3. AccOK(acc) /\ DOMAIN acc = DOMAIN s.acc
         /\ \A b \in DOMAIN acc : acc[b].bal = s.acc[b].bal /\ acc[b].nonce = s.acc[b].nonce
    BY DEF Shape
  <1>4. o = [s EXCEPT !.acc = acc, !.val = Put(s.val, k, w)]
    <2> HIDE DEF w
    <2> QED BY <1>1 DEF w, Fields
  <1>5. Weight(s.val[k]) \in Int
    BY <1>1, WordType DEF ValidatorOK, Weight
  <1> HIDE DEF w
  <1>6. Same(Weight(w), (IF k \in DOMAIN s.val THEN Weight(s.val[k]) ELSE 0) + 0)
    BY <1>2, <1>5 DEF Same, Congruent
  <1>7. acc = s.acc
    OBVIOUS
  <1> HIDE DEF acc
  <1>8. /\ Shape(o) /\ Moves(s, o, Native, 0) /\ Present(s, o) /\ SameContracts(s, o)
        /\ Writes(s, o, acc, Put(s.val, k, w))
    <2>1. 0 \in Int
      OBVIOUS
    <2> QED BY <1>1, <1>2, <1>3, <1>4, <1>6, <2>1, ValStep
  <1>9. ASSUME StakesExact(s) PROVE StakesExact(o)
    <2>1. o.acc = s.acc /\ o.val = Put(s.val, k, w)
      BY <1>7, <1>8 DEF Writes
    <2>2. DOMAIN s.acc \subseteq DOMAIN o.acc /\ \A a \in Addr : StakedOf(o, a) = StakedOf(s, a)
      BY <2>1 DEF StakedOf
    <2> QED BY <1>2, <1>9, <2>1, <2>2, ExactRewrite
  <1> QED BY <1>8, <1>9 DEF Settles, Neutral

-----------------------------------------------------------------------------
(* The transactions of validators and delegators, together. *)
LEMMA UnjailStep ==
    ASSUME NEW s, Shape(s), NEW tx, tx.from \in DOMAIN s.val
    PROVE  Settles(s, Unjail(s, tx))
  <1> DEFINE k == tx.from
             v == s.val[k]
             o == Unjail(s, tx)
  <1>1. ValidatorOK(v) /\ DOMAIN s = Fields
    BY DEF Shape, ValOK
  <1>2. v.until \in Int
    BY <1>1 DEF ValidatorOK
  <1>3. [v EXCEPT !.jailed = FALSE, !.missed = 0] = Noted(v, 0, FALSE, v.until)
    <2> HIDE DEF v
    <2> QED BY <1>1 DEF Noted, ValidatorOK
  <1>4. o = [s EXCEPT !.val = Put(s.val, k, Noted(v, 0, FALSE, v.until))]
    <2>1. o = [s EXCEPT !.val[k] = [v EXCEPT !.jailed = FALSE, !.missed = 0]]
      BY <1>1 DEF Unjail, Fields
    <2>2. \A e : Put(s.val, k, e) = [s.val EXCEPT ![k] = e]
      BY DEF Put
    <2> HIDE DEF o, v
    <2> QED BY <1>1, <1>3, <2>1, <2>2 DEF Fields
  <1> HIDE DEF o
  <1>5. 0 \in Nat /\ FALSE \in BOOLEAN
    OBVIOUS
  <1> QED BY <1>2, <1>4, <1>5, NoteStep DEF o

(* The handlers of stakes and delegations. *)
LEMMA StakingStep ==
    ASSUME NEW s, Shape(s), NEW tx, Decoded(tx), ValidateBasic(tx), tx.from \in DOMAIN s.acc,
           tx.type \in StakingTypes, NEW time \in Nat, StakingAllowed(s, tx, time),
           Params.MinValidatorStake > 0
    PROVE  Settles(s, StakingEffect(s, tx, time))
  <1> DEFINE o == StakingEffect(s, tx, time)
  <1>1. tx.from \in Addr /\ tx.amount \in Amounts
    BY DEF Decoded, ValidateBasic
  <1>2. CASE tx.type = "stake"
    <2>1. o = Stake(s, tx) /\ Plus(StakeOf(s, tx.from), tx.amount) >= Params.MinValidatorStake
      BY <1>2 DEF StakingEffect, StakingAllowed
    <2> HIDE DEF o
    <2>2. Neutral(s, o) /\ SameContracts(s, o) /\ (StakesExact(s) => StakesExact(o))
      BY <1>1, <2>1, StakeStep
    <2> QED BY <2>2 DEF Settles, o
  <1>3. CASE tx.type = "unstake"
    <2>1. o = Unstake(s, tx, time) /\ tx.from \in DOMAIN s.val
          /\ s.acc[tx.from].staked >= tx.amount
      BY <1>3 DEF StakingEffect, StakingAllowed
    <2> HIDE DEF o
    <2>2. Neutral(s, o) /\ SameContracts(s, o) /\ (StakesExact(s) => StakesExact(o))
      BY <1>1, <2>1, UnstakeStep
    <2> QED BY <2>2 DEF Settles, o
  <1>4. CASE tx.type = "unjail"
    <2>1. o = Unjail(s, tx) /\ tx.from \in DOMAIN s.val
      BY <1>4 DEF StakingEffect, StakingAllowed
    <2> QED BY <2>1, UnjailStep
  <1>5. CASE tx.type = "delegate"
    <2>1. o = Delegate(s, tx) /\ tx.to \in DOMAIN s.val
      BY <1>5 DEF StakingEffect, StakingAllowed
    <2> HIDE DEF o
    <2>2. Neutral(s, o) /\ SameContracts(s, o) /\ (StakesExact(s) => StakesExact(o))
      BY <1>1, <2>1, DelegateStep
    <2> QED BY <2>2 DEF Settles, o
  <1>6. CASE tx.type = "undelegate"
    <2>1. o = Undelegate(s, tx, time) /\ tx.to \in DOMAIN s.val
          /\ Delegation(s, tx.to, tx.from) >= tx.amount
      BY <1>6 DEF StakingEffect, StakingAllowed
    <2>2. tx.amount > 0
      BY <1>6 DEF ValidateBasic
    <2> HIDE DEF o
    <2>3. Neutral(s, o) /\ SameContracts(s, o) /\ (StakesExact(s) => StakesExact(o))
      BY <1>1, <2>1, <2>2, UndelegateStep
    <2> QED BY <2>3 DEF Settles, o
  <1>7. CASE tx.type = "validator_profile"
    <2>1. o = s
      BY <1>7 DEF StakingEffect
    <2> QED BY <2>1, SettlesItself
  <1> QED BY <1>2, <1>3, <1>4, <1>5, <1>6, <1>7 DEF StakingTypes

-----------------------------------------------------------------------------
(* Slashing. *)

(* A share of less than all of something is less than it. *)
LEMMA DivStrict ==
    ASSUME NEW a \in Nat, a > 0, NEW b \in Nat, NEW d \in Nat, b < d
    PROVE  (a * b) \div d < a
  <1> DEFINE n == a * b
             m == a * d
             q == n \div d
             i == n % d
  <1>1. n \in Nat /\ m \in Nat /\ n < m
    <2>1. n \in Nat /\ m \in Nat /\ a * (d - b) > 0 /\ d - b \in Nat
      BY SMT
    <2>2. m = n + a * (d - b)
      BY SMT
    <2> DEFINE r == a * (d - b)
    <2>3. r > 0 /\ r \in Int /\ m = n + r
      BY <2>1, <2>2
    <2> HIDE DEF r, n, m
    <2> QED BY <2>1, <2>3
  <1> HIDE DEF n
  <1>2. /\ q \in Int /\ i \in Int /\ n = d * q + i /\ 0 <= i /\ i < d
    BY <1>1, Remainder
  <1> HIDE DEF q, i
  <1>3. q < a
    <2>1. SUFFICES ASSUME q >= a PROVE FALSE
      BY <1>2
    <2>2. d * q >= d * a /\ d * q \in Int
      BY <1>2, <2>1
    <2>3. d * a = m
      BY DEF m
    <2> HIDE DEF m
    <2> QED BY <1>1, <1>2, <2>2, <2>3
  <1> QED BY <1>3 DEF n, q

(* The part of a stake that a fault costs. *)
LEMMA CutBounds ==
    ASSUME NEW x \in Amounts, NEW bps \in Nat, bps <= 10000
    PROVE  /\ Bps(x, bps) \in Amounts /\ Bps(x, bps) <= x
           /\ bps < 10000 /\ x > 0 => Bps(x, bps) < x
  <1> DEFINE q == (x * bps) \div 10000
  <1>1. x \in Nat /\ x < Word /\ Word \in Nat /\ 10000 \in Nat /\ 10000 > 0
    BY WordType
  <1>2. q \in Nat /\ q <= x
    BY <1>1, DivBounds
  <1>3. bps < 10000 /\ x > 0 => q < x
    BY <1>1, DivStrict
  <1>4. Bps(x, bps) = q % Word
    <2>1. 10000 # 0
      OBVIOUS
    <2> QED BY <2>1 DEF Bps, MulDiv
  <1> HIDE DEF q
  <1>5. q < Word
    BY <1>1, <1>2
  <1>6. q \in Amounts /\ q % Word = q
    BY <1>2, <1>5, WordExact
  <1> QED BY <1>2, <1>3, <1>4, <1>6

(* What slashWeightLocked makes of a validator. *)
Slashed(w, bps) ==
    LET dcut == [a \in DOMAIN w.delegators |-> Bps(w.delegators[a], bps)]
    IN  [w EXCEPT !.stake = Minus(w.stake, Bps(w.stake, bps)),
                  !.delegated = Minus(w.delegated, SumFunction(dcut)),
                  !.delegators = [a \in DOMAIN w.delegators |->
                                     Minus(w.delegators[a], dcut[a])]]

(* And what it burns. *)
CutOf(w, bps) ==
    Bps(w.stake, bps)
        + SumFunction([a \in DOMAIN w.delegators |-> Bps(w.delegators[a], bps)])

(* A slashed validator weighs less by what is cut, as words. *)
LEMMA SlashedOK ==
    ASSUME NEW w, ValidatorOK(w), NEW bps \in Nat
    PROVE  /\ ValidatorOK(Slashed(w, bps)) /\ CutOf(w, bps) \in Int
           /\ Same(Weight(Slashed(w, bps)), Weight(w) - CutOf(w, bps))
           /\ Slashed(w, bps).stake = Minus(w.stake, Bps(w.stake, bps))
           /\ DOMAIN Slashed(w, bps).delegators = DOMAIN w.delegators
  <1> DEFINE S == DOMAIN w.delegators
             f == w.delegators
             c == [a \in S |-> Bps(f[a], bps)]
             g == [a \in S |-> Minus(f[a], c[a])]
             h == [a \in S |-> f[a] - c[a]]
             x == Bps(w.stake, bps)
             D == SumFunction(c)
             y == Minus(w.stake, x)
             z == Minus(w.delegated, D)
             e == Slashed(w, bps)
  <1>1. /\ S \subseteq Addr /\ f \in [S -> Amounts] /\ w.stake \in Amounts
        /\ w.delegated \in Amounts /\ Same(w.delegated, Sum(f))
    BY DEF ValidatorOK
  <1>2. IsFiniteSet(S)
    BY <1>1, NamesDiffer, FS_Subset
  <1>3. \A b \in Amounts : Bps(b, bps) \in Amounts /\ Bps(b, bps) \in Int
    <2>1. SUFFICES ASSUME NEW b \in Amounts PROVE Bps(b, bps) \in Amounts
      BY WordType
    <2>2. b \in Int /\ bps \in Int /\ 10000 \in Nat
      BY WordType
    <2> QED BY <2>2, MulDivWord DEF Bps
  <1>4. \A a \in S : /\ f[a] \in Int /\ c[a] \in Int /\ h[a] = f[a] - c[a]
                     /\ h[a] \in Int /\ g[a] \in Amounts /\ g[a] \in Int
                     /\ Same(g[a], h[a])
    <2>1. SUFFICES ASSUME NEW a \in S
                   PROVE  /\ f[a] \in Int /\ c[a] \in Int /\ h[a] = f[a] - c[a]
                          /\ h[a] \in Int /\ g[a] \in Amounts /\ g[a] \in Int
                          /\ Same(g[a], h[a])
      OBVIOUS
    <2>2. f[a] \in Amounts /\ c[a] = Bps(f[a], bps)
      BY <1>1
    <2>3. f[a] \in Int /\ c[a] \in Int /\ h[a] = f[a] - c[a] /\ g[a] = Minus(f[a], c[a])
      BY <1>3, <2>2, WordType
    <2> HIDE DEF f, c, g, h
    <2>4. g[a] \in Amounts /\ Same(g[a], h[a])
      BY <2>3, MinusWord
    <2> QED BY <2>3, <2>4, WordType
  <1>5. D \in Int
    <2>1. DOMAIN c = S
      OBVIOUS
    <2> HIDE DEF c, S
    <2> QED BY <1>2, <1>4, <2>1, SumType
  <1>6. x \in Int /\ w.stake \in Int /\ w.delegated \in Int /\ w.stake \in Amounts
    BY <1>1, <1>3, WordType
  <1>7. y \in Amounts /\ Same(y, w.stake - x) /\ z \in Amounts /\ Same(z, w.delegated - D)
    <2> HIDE DEF x, D
    <2> QED BY <1>5, <1>6, MinusWord
  <1>8. e = [w EXCEPT !.stake = y, !.delegated = z, !.delegators = g]
    BY DEF Slashed
  <1>9. CutOf(w, bps) = x + D
    BY DEF CutOf
  <1>10. g \in [S -> Amounts] /\ DOMAIN g = S /\ DOMAIN h = S /\ DOMAIN f = S /\ DOMAIN c = S
    BY <1>4
  <1> HIDE DEF f, c, g, h, x, D, y, z, e
  <1>11. Same(z, Sum(g))
    <2>1. SumFunctionOnSet(h, S) = SumFunctionOnSet(f, S) - SumFunctionOnSet(c, S)
      <3> HIDE DEF S
      <3> QED BY <1>2, <1>4, SumMinus
    <2>2. Sum(h) = Sum(f) - D /\ SumFunctionOnSet(g, S) = Sum(g) /\ SumFunctionOnSet(h, S) = Sum(h)
      BY <1>10, <2>1 DEF Sum, SumFunction, D
    <2>3. Same(Sum(g), Sum(h))
      <3>1. \A a \in S : g[a] \in Int /\ h[a] \in Int /\ Congruent(Word, g[a], h[a])
        BY <1>4 DEF Same
      <3> HIDE DEF S
      <3>2. Congruent(Word, SumFunctionOnSet(g, S), SumFunctionOnSet(h, S))
        BY <1>2, <3>1, WordType, SumModulo
      <3> QED BY <2>2, <3>2 DEF Same
    <2>4. Same(w.delegated - D, Sum(f) - D)
      <3>1. Sum(f) \in Int
        <4> HIDE DEF S
        <4> QED BY <1>2, <1>4, <1>10, SumType DEF Sum
      <3>2. Same(w.delegated, Sum(f)) /\ Same(D, D)
        BY <1>1 DEF f, Same, Congruent
      <3> QED BY <1>5, <1>6, <3>1, <3>2, SameDifference
    <2>5. Same(z, Sum(h))
      BY <1>7, <2>2, <2>4 DEF Same, Congruent
    <2> QED BY <2>3, <2>5 DEF Same, Congruent
  <1>12. e.stake = y /\ e.delegated = z /\ e.delegators = g
    BY <1>8 DEF ValidatorOK
  <1>13. ValidatorOK(e)
    <2>1. e \in [stake : Amounts, delegated : Amounts, delegators : {e.delegators},
                 missed : Nat, jailed : BOOLEAN, until : Int]
      BY <1>7, <1>8 DEF ValidatorOK
    <2> QED BY <1>1, <1>10, <1>11, <1>12, <2>1 DEF ValidatorOK
  <1>14. Same(Weight(e), Weight(w) - CutOf(w, bps))
    <2> DEFINE a == w.stake
               b == w.delegated
    <2>1. y \in Int /\ z \in Int /\ a \in Int /\ b \in Int /\ a - x \in Int /\ b - D \in Int
      BY <1>5, <1>6, <1>7, WordType
    <2>2. Same(y, a - x) /\ Same(z, b - D) /\ Weight(e) = y + z /\ Weight(w) = a + b
      BY <1>7, <1>12 DEF Weight
    <2> HIDE DEF a, b
    <2>3. Same(y + z, (a - x) + (b - D))
      BY <2>1, <2>2, SameSum
    <2>4. (a - x) + (b - D) = (a + b) - (x + D)
      BY <1>5, <1>6, <2>1
    <2> QED BY <1>9, <2>2, <2>3, <2>4, Zenon
  <1>15. CutOf(w, bps) \in Int
    BY <1>5, <1>6, <1>9
  <1> QED BY <1>10, <1>12, <1>13, <1>14, <1>15 DEF e, y, x

(* slashWeightLocked: what is cut is burned. *)
LEMMA SlashWeightStep ==
    ASSUME NEW s, Shape(s), NEW v \in DOMAIN s.val, NEW bps \in Nat
    PROVE  LET o == SlashWeight(s, v, bps)
           IN  /\ Neutral(s, o) /\ SameContracts(s, o)
               /\ o.val = Put(s.val, v, Slashed(s.val[v], bps))
               /\ o.val[v] = Slashed(s.val[v], bps)
               /\ DOMAIN o.val[v].delegators = DOMAIN s.val[v].delegators
               /\ StakesExact(s) /\ bps <= 10000 =>
                     /\ \A a \in Addr \ {v} : StakedOf(o, a) = StakedOf(s, a)
                     /\ StakedOf(o, v) = o.val[v].stake
                     /\ v \in DOMAIN o.acc
                     /\ bps < 10000 => o.val[v].stake > 0
  <1> DEFINE w == s.val[v]
             e == Slashed(w, bps)
             x == CutOf(w, bps)
             m == -x
             cut == Bps(w.stake, bps)
             d == BurnSupply(s, x)
             y == IF s.acc[v].staked >= cut THEN s.acc[v].staked - cut ELSE 0
             acc == IF v \in DOMAIN s.acc THEN [s.acc EXCEPT ![v].staked = y] ELSE s.acc
             o == SlashWeight(s, v, bps)
  <1>1. ValidatorOK(w) /\ v \in Addr
    BY DEF Shape, ValOK
  <1>2. /\ ValidatorOK(e) /\ x \in Int /\ Same(Weight(e), Weight(w) - x)
        /\ e.stake = Minus(w.stake, cut) /\ DOMAIN e.delegators = DOMAIN w.delegators
    BY <1>1, SlashedOK
  <1>3. Shape(d) /\ SameBut(s, d, {"supply"}) /\ Moves(s, d, Native, x)
    BY <1>2, BurnStep
  <1>4. d.acc = s.acc /\ d.val = s.val /\ SameContracts(s, d) /\ DOMAIN d = Fields
    <2> HIDE DEF d
    <2> QED BY <1>3 DEF SameBut, Fields, SameContracts, Shape
  <1>5. o = [d EXCEPT !.acc = acc, !.val = Put(d.val, v, e)]
    <2> DEFINE dcut == [a \in DOMAIN w.delegators |-> Bps(w.delegators[a], bps)]
    <2>1. o = [d EXCEPT !.acc = acc,
                        !.val[v].stake = Minus(@, cut),
                        !.val[v].delegated = Minus(@, SumFunction(dcut)),
                        !.val[v].delegators = [a \in DOMAIN @ |-> Minus(@[a], dcut[a])]]
      BY DEF SlashWeight, CutOf
    <2>2. e = [w EXCEPT !.stake = Minus(w.stake, cut),
                        !.delegated = Minus(w.delegated, SumFunction(dcut)),
                        !.delegators = [a \in DOMAIN w.delegators |->
                                           Minus(w.delegators[a], dcut[a])]]
      BY DEF Slashed
    <2>3. v \in DOMAIN d.val /\ d.val[v] = w
      BY <1>4
    <2>4. \A r : Put(d.val, v, r) = [d.val EXCEPT ![v] = r]
      BY <2>3 DEF Put
    <2>5. /\ DOMAIN w = {"stake", "delegated", "delegators", "missed", "jailed", "until"}
          /\ "val" \in DOMAIN d
      BY <1>1, <1>4 DEF ValidatorOK, Fields
    <2> DEFINE ns == Minus(w.stake, cut)
               nd == Minus(w.delegated, SumFunction(dcut))
               ng == [a \in DOMAIN w.delegators |-> Minus(w.delegators[a], dcut[a])]
    <2>6. o = [d EXCEPT !.acc = acc, !.val[v].stake = ns, !.val[v].delegated = nd,
                        !.val[v].delegators = ng]
      <3> HIDE DEF d, o, w, cut, dcut, acc
      <3> QED BY <2>1, <2>3, <2>5
    <2>7. e = [w EXCEPT !.stake = ns, !.delegated = nd, !.delegators = ng]
      BY <2>2
    <2> HIDE DEF d, o, w, e, cut, dcut, acc, ns, nd, ng
    <2>8. o = [d EXCEPT !.acc = acc, !.val = [d.val EXCEPT ![v] = e]]
      BY <2>3, <2>5, <2>6, <2>7
    <2> QED BY <2>4, <2>8
  <1> HIDE DEF w, e, x, cut, d, o
  <1>6. cut \in Amounts /\ w.stake \in Amounts
    <2>1. w.stake \in Amounts
      BY <1>1 DEF ValidatorOK
    <2>2. w.stake \in Int /\ bps \in Int /\ 10000 \in Nat
      BY <2>1, WordType
    <2> QED BY <2>1, <2>2, MulDivWord DEF cut, Bps
  <1>7. v \in DOMAIN s.acc => y \in Amounts
    <2>1. SUFFICES ASSUME v \in DOMAIN s.acc PROVE y \in Amounts
      OBVIOUS
    <2>2. s.acc[v].staked \in Amounts
      BY <2>1 DEF Shape, AccOK, Account
    <2> DEFINE a == s.acc[v].staked
    <2>3. a \in Nat /\ a < Word /\ cut \in Nat /\ Word \in Nat
      BY <1>6, <2>2, WordType
    <2> HIDE DEF a
    <2>4. a >= cut => a - cut \in 0..(Word - 1)
      BY <2>3
    <2> QED BY <2>4, WordType DEF a, Amounts
  <1> HIDE DEF y
  <1>8. /\ AccOK(acc) /\ DOMAIN acc = DOMAIN s.acc
        /\ \A b \in DOMAIN acc : acc[b].bal = s.acc[b].bal /\ acc[b].nonce = s.acc[b].nonce
        /\ v \in DOMAIN s.acc => acc[v].staked = y
        /\ \A b \in DOMAIN acc \ {v} : acc[b].staked = s.acc[b].staked
    <2>1. AccOK(s.acc)
      BY DEF Shape
    <2>2. CASE v \in DOMAIN s.acc
      BY <1>1, <1>7, <2>1, <2>2, RestakeOK
    <2>3. CASE v \notin DOMAIN s.acc
      BY <2>1, <2>3
    <2> QED BY <2>2, <2>3
  <1>9. m \in Int /\ Same(Weight(e), (IF v \in DOMAIN d.val THEN Weight(d.val[v]) ELSE 0) + m)
    <2>1. v \in DOMAIN d.val /\ d.val[v] = w
      BY <1>4 DEF w
    <2>2. Weight(w) \in Int
      BY <1>1, WordType DEF ValidatorOK, Weight
    <2>3. Weight(w) - x = Weight(w) + m /\ m \in Int
      BY <1>2, <2>2
    <2> QED BY <1>2, <2>1, <2>3
  <1> HIDE DEF acc, m
  <1>10. /\ Shape(o) /\ Moves(d, o, Native, m) /\ Present(d, o) /\ SameContracts(d, o)
         /\ Writes(d, o, acc, Put(d.val, v, e))
    <2>1. /\ DOMAIN acc = DOMAIN d.acc
          /\ \A b \in DOMAIN acc : acc[b].bal = d.acc[b].bal /\ acc[b].nonce = d.acc[b].nonce
      BY <1>4, <1>8
    <2> QED BY <1>1, <1>2, <1>3, <1>5, <1>8, <1>9, <2>1, ValStep
  <1>11. Neutral(s, o) /\ SameContracts(s, o)
    <2>1. Moves(s, o, Native, 0)
      BY <1>2, <1>3, <1>10, NativeCurrency, MovesForth DEF m
    <2>2. Present(s, d)
      BY <1>4 DEF Present, NonceOf
    <2>3. Present(s, o) /\ SameContracts(s, o)
      BY <1>4, <1>10, <2>2 DEF Present, SameContracts
    <2> QED BY <1>10, <2>1, <2>3 DEF Neutral
  <1>12. o.acc = acc /\ o.val = Put(s.val, v, e) /\ o.val[v] = e
    <2>1. o.acc = acc /\ o.val = Put(s.val, v, e)
      BY <1>4, <1>10 DEF Writes
    <2> QED BY <2>1 DEF Put
  <1>13. ASSUME StakesExact(s), bps <= 10000
         PROVE  /\ \A a \in Addr \ {v} : StakedOf(o, a) = StakedOf(s, a)
                /\ StakedOf(o, v) = o.val[v].stake
                /\ v \in DOMAIN o.acc
                /\ bps < 10000 => o.val[v].stake > 0
    <2>1. v \in DOMAIN s.acc /\ s.acc[v].staked = w.stake /\ w.stake > 0
      BY <1>1, <1>13 DEF StakesExact, StakedOf, StakeOf, w
    <2>2. cut <= w.stake /\ (bps < 10000 => cut < w.stake)
      BY <1>6, <1>13, <2>1, CutBounds DEF cut
    <2>3. e.stake = w.stake - cut /\ y = w.stake - cut
      <3>1. s.acc[v].staked = w.stake
        BY <2>1
      <3>2. cut \in Nat /\ w.stake \in Int
        BY <1>6, WordType
      <3>3. Minus(w.stake, cut) = w.stake - cut
        BY <1>6, <2>2, <3>2, MinusExact
      <3> QED BY <1>2, <2>2, <3>1, <3>2, <3>3 DEF y
    <2>4. StakedOf(o, v) = e.stake /\ v \in DOMAIN o.acc
      BY <1>4, <1>8, <1>12, <2>1, <2>3 DEF StakedOf
    <2>5. \A a \in Addr \ {v} : StakedOf(o, a) = StakedOf(s, a)
      BY <1>4, <1>8, <1>12 DEF StakedOf
    <2>6. bps < 10000 => e.stake > 0
      <3>1. cut \in Int /\ w.stake \in Int
        BY <1>6, WordType
      <3> QED BY <2>2, <2>3, <3>1
    <2> QED BY <1>12, <2>4, <2>5, <2>6
  <1>14. DOMAIN o.val[v].delegators = DOMAIN w.delegators
    BY <1>2, <1>12
  <1> QED BY <1>11, <1>12, <1>13, <1>14 DEF o, e, w

-----------------------------------------------------------------------------
(* Faults and skipped blocks. *)

(* The list of faults is no money. *)
LEMMA MarkStep ==
    ASSUME NEW s, Shape(s), NEW F, NEW o, o = [s EXCEPT !.slashed = F]
    PROVE  /\ Settles(s, o) /\ Shape(o) /\ o.acc = s.acc /\ o.val = s.val
           /\ o.ctr = s.ctr /\ o.wasm = s.wasm
  <1>1. DOMAIN s = Fields
    BY DEF Shape
  <1>2. DOMAIN o = Fields /\ \A f \in Fields \ {"slashed"} : o[f] = s[f]
    BY <1>1 DEF Fields
  <1>3. /\ o.acc = s.acc /\ o.val = s.val /\ o.ctr = s.ctr /\ o.wasm = s.wasm
        /\ o.tok = s.tok /\ o.unb = s.unb /\ o.supply = s.supply /\ o.pool = s.pool
    BY <1>2 DEF Fields
  <1>4. Shape(o)
    BY <1>2 DEF Shape, Fields
  <1>5. Moves(s, o, Native, 0)
    BY <1>3, StillMoves
  <1>6. Neutral(s, o) /\ SameContracts(s, o) /\ SameStakes(s, o)
    BY <1>3, <1>4, <1>5 DEF Neutral, Present, NonceOf, SameContracts, SameStakes, StakedOf
  <1> QED BY <1>3, <1>4, <1>6, SameSettles

(* A validator that keeps a stake is recorded with it. *)
LEMMA SlashWeightExact ==
    ASSUME NEW s, Shape(s), NEW v \in DOMAIN s.val, NEW bps \in Nat, bps <= 10000,
           StakesExact(s), SlashWeight(s, v, bps).val[v].stake > 0
    PROVE  StakesExact(SlashWeight(s, v, bps))
  <1> DEFINE o == SlashWeight(s, v, bps)
             w == Slashed(s.val[v], bps)
  <1>1. /\ Neutral(s, o) /\ o.val = Put(s.val, v, w) /\ o.val[v] = w
        /\ \A a \in Addr \ {v} : StakedOf(o, a) = StakedOf(s, a)
        /\ StakedOf(o, v) = o.val[v].stake /\ v \in DOMAIN o.acc
    BY SlashWeightStep
  <1>2. v \in Addr
    BY DEF Shape, ValOK
  <1> HIDE DEF w, o
  <1>3. DOMAIN s.acc \subseteq DOMAIN o.acc /\ w.stake > 0 /\ StakedOf(o, v) = w.stake
    BY <1>1 DEF Neutral, Present, o
  <1> QED BY <1>1, <1>2, <1>3, ExactPut DEF o

(* A list of the delegators of every validator. *)
OrderOK(order) == \A S \in SUBSET Addr : Lists(order[S], S)

(* slashLocked *)
LEMMA SlashStep ==
    ASSUME NEW s, Shape(s), NEW fault, NEW time \in Nat, NEW order,
           fault.voter \in DOMAIN s.val =>
               Lists(order, DOMAIN s.val[fault.voter].delegators)
    PROVE  Settles(s, Slash(s, fault, order, time))
  <1> DEFINE v == fault.voter
             m == [s EXCEPT !.slashed = s.slashed \cup {fault}]
             bps == Params.SlashDoubleSignBps
             c == SlashWeight(m, v, bps)
             l == Leave(c, v, order, time)
             o == Slash(s, fault, order, time)
  <1>1. o = IF fault \in s.slashed THEN s
            ELSE IF v \notin DOMAIN s.val THEN m
            ELSE IF c.val[v].stake = 0 THEN l ELSE c
    BY DEF Slash
  <1>2. Settles(s, m) /\ Shape(m) /\ m.acc = s.acc /\ m.val = s.val
    BY MarkStep
  <1>3. bps \in Nat
    BY ParamsAreNatural DEF ParamNames
  <1> HIDE DEF o, m, c, l, v, bps
  <1>4. CASE fault \in s.slashed
    BY <1>1, <1>4, SettlesItself DEF o
  <1>5. CASE fault \notin s.slashed /\ v \notin DOMAIN s.val
    BY <1>1, <1>2, <1>5 DEF o
  <1>6. ASSUME v \in DOMAIN s.val
        PROVE  /\ Neutral(m, c) /\ SameContracts(m, c) /\ Shape(c)
               /\ c.val = Put(m.val, v, Slashed(m.val[v], bps)) /\ v \in DOMAIN c.val
               /\ DOMAIN c.val[v].delegators = DOMAIN s.val[v].delegators
               /\ SlashRates /\ StakesExact(m) =>
                     /\ \A a \in Addr \ {v} : StakedOf(c, a) = StakedOf(m, a)
                     /\ StakedOf(c, v) = c.val[v].stake
    <2>1. v \in DOMAIN m.val
      BY <1>2, <1>6
    <2>2. SlashRates => bps <= 10000
      BY DEF SlashRates, bps
    <2>3. Shape(c)
      BY <1>2, <1>3, <2>1, SlashWeightStep DEF c, Neutral
    <2> QED BY <1>2, <1>3, <2>1, <2>2, <2>3, SlashWeightStep DEF c, Put
  <1>7. CASE fault \notin s.slashed /\ v \in DOMAIN s.val /\ c.val[v].stake = 0
    <2>1. Lists(order, DOMAIN c.val[v].delegators)
      BY <1>6, <1>7 DEF v
    <2>2. Neutral(c, l) /\ SameContracts(c, l) /\ l.acc = c.acc /\ l.val = Without(c.val, v)
      BY <1>6, <1>7, <2>1, LeaveStep DEF l
    <2>3. Neutral(m, l) /\ SameContracts(m, l)
      BY <1>2, <1>6, <1>7, <2>2, NeutralThenNeutral DEF SameContracts
    <2>4. ASSUME SlashRates, StakesExact(m) PROVE StakesExact(l)
      <3>1. l.val = Without(m.val, v)
        BY <1>6, <1>7, <2>2 DEF Without, Put
      <3>2. \A a : StakedOf(l, a) = StakedOf(c, a)
        BY <2>2 DEF StakedOf
      <3>3. /\ \A a \in Addr \ {v} : StakedOf(l, a) = StakedOf(m, a)
            /\ StakedOf(l, v) = 0
        BY <1>6, <1>7, <2>4, <3>2
      <3>4. DOMAIN m.acc \subseteq DOMAIN l.acc
        BY <2>3 DEF Neutral, Present
      <3> QED BY <2>4, <3>1, <3>3, <3>4, ExactWithout
    <2>5. Settles(m, l)
      BY <2>3, <2>4 DEF Settles
    <2>6. Settles(s, l)
      BY <1>2, <2>5, SettlesThenSettles
    <2> QED BY <1>1, <1>7, <2>6 DEF o
  <1>8. CASE fault \notin s.slashed /\ v \in DOMAIN s.val /\ c.val[v].stake # 0
    <2>1. c.val[v].stake > 0
      <3>1. ValidatorOK(c.val[v])
        BY <1>6, <1>8 DEF Shape, ValOK
      <3>2. c.val[v].stake \in Nat
        BY <3>1, WordType DEF ValidatorOK
      <3> QED BY <1>8, <3>2
    <2>2. ASSUME SlashRates, StakesExact(m) PROVE StakesExact(c)
      <3>1. bps <= 10000 /\ v \in DOMAIN m.val
        BY <1>2, <1>8, <2>2 DEF SlashRates, bps
      <3> QED BY <1>2, <1>3, <2>1, <2>2, <3>1, SlashWeightExact DEF c
    <2>3. Settles(m, c)
      BY <1>6, <1>8, <2>2 DEF Settles
    <2>4. Settles(s, c)
      BY <1>2, <2>3, SettlesThenSettles
    <2> QED BY <1>1, <1>8, <2>4 DEF o
  <1> QED BY <1>4, <1>5, <1>7, <1>8

-----------------------------------------------------------------------------
(* All the faults of a block. *)
SlashOne(time, order, t, f) ==
    Slash(t, f, IF f.voter \in DOMAIN t.val
                THEN order[DOMAIN t.val[f.voter].delegators] ELSE <<>>, time)

Slashing == INSTANCE Folding WITH Step <- SlashOne

(* The evidence of a block, one fault after the other. *)
LEMMA SlashAllStep ==
    ASSUME NEW s, Shape(s), NEW E, NEW evidence \in Seq(E), NEW time \in Nat,
           NEW order, OrderOK(order)
    PROVE  Settles(s, SlashAll(s, evidence, order, time))
  <1> DEFINE n == Len(evidence)
             o == SlashAll(s, evidence, order, time)
  <1>1. n \in Nat /\ DOMAIN evidence = 1..n
    OBVIOUS
  <1>2. o = Slashing!Fold(time, order, s, evidence)
    BY DEF SlashAll, Slashing!Fold, FoldLeft, Slashing!FoldLeft, MapThenFoldSet,
           Slashing!MapThenFoldSet, Max, Slashing!Max, SlashOne
  <1>3. PICK f : /\ f[0] = s
                 /\ \A k \in 1..n : f[k] = SlashOne(time, order, f[k - 1], evidence[k])
                 /\ f[n] = Slashing!Fold(time, order, s, evidence)
    <2>1. Slashing!Traced(time, order, s, n, evidence)
      BY <1>1, Slashing!FoldTrace
    <2> HIDE DEF n
    <2> QED BY <2>1 DEF Slashing!Traced
  <1> HIDE DEF n, o
  <1>4. ASSUME NEW k \in 1..n, Shape(f[k - 1]) PROVE Settles(f[k - 1], f[k])
    <2> DEFINE t == f[k - 1]
               v == evidence[k].voter
               list == IF v \in DOMAIN t.val THEN order[DOMAIN t.val[v].delegators] ELSE <<>>
    <2>1. f[k] = Slash(t, evidence[k], list, time)
      BY <1>3 DEF SlashOne
    <2>2. v \in DOMAIN t.val => Lists(list, DOMAIN t.val[v].delegators)
      <3>1. \A u \in DOMAIN t.val : DOMAIN t.val[u].delegators \subseteq Addr
        BY SMTT(40), <1>4 DEF Shape, ValOK, ValidatorOK
      <3> QED BY <3>1 DEF OrderOK
    <2> HIDE DEF list, t
    <2>3. Shape(t)
      BY <1>4 DEF t
    <2>4. Settles(t, f[k])
      BY <2>1, <2>2, <2>3, SlashStep
    <2> QED BY <2>4 DEF t
  <1>5. Shape(f[0])
    BY <1>3
  <1>6. Settles(f[0], f[n])
    BY <1>1, <1>4, <1>5, TraceSettles
  <1> QED BY <1>2, <1>3, <1>6 DEF o

(* applyDowntimeLocked, for one of the proposers that were skipped. *)
LEMMA MissStep ==
    ASSUME NEW s, Shape(s), NEW v, NEW time \in Nat
    PROVE  Settles(s, Miss(s, v, time))
  <1> DEFINE w == s.val[v]
             n == w.missed + 1
             bps == Params.SlashDowntimeBps
             c == SlashWeight(s, v, bps)
             u == time + Params.JailMs
             o == Miss(s, v, time)
  <1>1. bps \in Nat /\ Params.JailMs \in Nat /\ u \in Int
    BY ParamsAreNatural DEF ParamNames
  <1>2. CASE v \notin DOMAIN s.val \/ w.jailed
    BY <1>2, SettlesItself DEF Miss
  <1>3. ASSUME v \in DOMAIN s.val
        PROVE  ValidatorOK(w) /\ n \in Nat /\ w.jailed \in BOOLEAN /\ w.until \in Int
    BY <1>3 DEF Shape, ValOK, ValidatorOK
  <1>4. CASE v \in DOMAIN s.val /\ ~w.jailed /\ n < Params.DowntimeJailThreshold
    <2>1. o = [s EXCEPT !.val[v].missed = n]
      BY <1>4 DEF Miss
    <2>2. [w EXCEPT !.missed = n] = Noted(w, n, w.jailed, w.until)
      <3>1. ValidatorOK(w)
        BY <1>3, <1>4
      <3> HIDE DEF w, n
      <3> QED BY <3>1 DEF Noted, ValidatorOK
    <2>3. o = [s EXCEPT !.val = Put(s.val, v, Noted(w, n, w.jailed, w.until))]
      <3>1. \A e : Put(s.val, v, e) = [s.val EXCEPT ![v] = e]
        BY <1>4 DEF Put
      <3>2. "val" \in DOMAIN s
        BY DEF Shape, Fields
      <3> HIDE DEF n, o
      <3> QED BY <2>1, <2>2, <3>1, <3>2
    <2> HIDE DEF o, n
    <2>4. Settles(s, o)
      BY <1>3, <1>4, <2>3, NoteStep
    <2> QED BY <2>4 DEF o
  <1>5. CASE v \in DOMAIN s.val /\ ~w.jailed /\ ~(n < Params.DowntimeJailThreshold)
    <2>1. o = [c EXCEPT !.val[v].jailed = TRUE, !.val[v].until = u, !.val[v].missed = 0]
      BY <1>5 DEF Miss
    <2>2. /\ Neutral(s, c) /\ SameContracts(s, c) /\ Shape(c) /\ v \in DOMAIN c.val
          /\ SlashRates /\ StakesExact(s) => c.val[v].stake > 0
      <3>1. SlashRates => bps < 10000 /\ bps <= 10000
        BY <1>1 DEF SlashRates
      <3> HIDE DEF bps, c
      <3>2. /\ Neutral(s, c) /\ SameContracts(s, c)
            /\ c.val = Put(s.val, v, Slashed(s.val[v], bps))
        BY <1>1, <1>5, SlashWeightStep DEF c
      <3>4. v \in DOMAIN c.val
        BY <3>2 DEF Put
      <3>3. SlashRates /\ StakesExact(s) => c.val[v].stake > 0
        BY <1>1, <1>5, <3>1, SlashWeightStep DEF c
      <3> QED BY <3>2, <3>3, <3>4 DEF Neutral
    <2>3. Settles(s, c)
      <3>1. SlashRates => bps <= 10000
        BY <1>1 DEF SlashRates
      <3>2. SlashRates /\ StakesExact(s) => StakesExact(c)
        <4> HIDE DEF bps
        <4> QED BY <1>1, <1>5, <2>2, <3>1, SlashWeightExact
      <3> HIDE DEF c
      <3> QED BY <2>2, <3>2 DEF Settles
    <2> HIDE DEF c
    <2>4. ValidatorOK(c.val[v]) /\ DOMAIN c = Fields
      BY <2>2 DEF Shape, ValOK
    <2>5. [c.val[v] EXCEPT !.jailed = TRUE, !.until = u, !.missed = 0]
              = Noted(c.val[v], 0, TRUE, u)
      <3> DEFINE e == c.val[v]
      <3>1. ValidatorOK(e)
        BY <2>4
      <3> HIDE DEF e, u
      <3>2. [e EXCEPT !.jailed = TRUE, !.until = u, !.missed = 0] = Noted(e, 0, TRUE, u)
        BY <3>1 DEF Noted, ValidatorOK
      <3> QED BY <3>2 DEF e
    <2>6. o = [c EXCEPT !.val = Put(c.val, v, Noted(c.val[v], 0, TRUE, u))]
      <3>1. \A e : Put(c.val, v, e) = [c.val EXCEPT ![v] = e]
        BY <2>2 DEF Put
      <3>2. "val" \in DOMAIN c
        BY <2>4 DEF Fields
      <3> HIDE DEF u, o
      <3>3. o = [c EXCEPT !.val = [c.val EXCEPT ![v] = [c.val[v] EXCEPT
                    !.jailed = TRUE, !.until = u, !.missed = 0]]]
        BY <2>1, <2>2, <2>4, <3>2
      <3> QED BY <2>5, <3>1, <3>3
    <2> HIDE DEF o, u
    <2>7. 0 \in Nat /\ TRUE \in BOOLEAN
      OBVIOUS
    <2>8. Settles(c, o)
      BY <1>1, <2>2, <2>6, <2>7, NoteStep
    <2>9. Settles(s, o)
      BY <2>3, <2>8, SettlesThenSettles
    <2> QED BY <2>9 DEF o
  <1> QED BY <1>2, <1>4, <1>5

MissOne(time, d, t, v) == Miss(t, v, time)

Missing == INSTANCE Folding WITH Step <- MissOne

(* A proposer is present, and whoever it names was not. *)
LEMMA ApplyDowntimeStep ==
    ASSUME NEW s, Shape(s), NEW p, NEW N, NEW absent \in Seq(N), NEW time \in Nat
    PROVE  Settles(s, ApplyDowntime(s, p, absent, time))
  <1> DEFINE n == Len(absent)
             b == IF p \in DOMAIN s.val THEN [s EXCEPT !.val[p].missed = 0] ELSE s
             o == ApplyDowntime(s, p, absent, time)
  <1>1. n \in Nat /\ DOMAIN absent = 1..n
    OBVIOUS
  <1>2. o = Missing!Fold(time, 0, b, absent)
    BY DEF ApplyDowntime, Missing!Fold, FoldLeft, Missing!FoldLeft, MapThenFoldSet,
           Missing!MapThenFoldSet, Max, Missing!Max, MissOne
  <1>3. PICK f : /\ f[0] = b
                 /\ \A k \in 1..n : f[k] = MissOne(time, 0, f[k - 1], absent[k])
                 /\ f[n] = Missing!Fold(time, 0, b, absent)
    <2>1. Missing!Traced(time, 0, b, n, absent)
      BY <1>1, Missing!FoldTrace
    <2> HIDE DEF n, b
    <2> QED BY <2>1 DEF Missing!Traced
  <1>4. Settles(s, b)
    <2>1. CASE p \in DOMAIN s.val
      <3> DEFINE w == s.val[p]
                 e == [w EXCEPT !.missed = 0]
      <3>1. ValidatorOK(w) /\ "val" \in DOMAIN s
        BY <2>1 DEF Shape, ValOK, Fields
      <3>2. w.jailed \in BOOLEAN /\ w.until \in Int
        BY <3>1 DEF ValidatorOK
      <3>3. e = Noted(w, 0, w.jailed, w.until)
        <4> HIDE DEF w
        <4> QED BY <3>1 DEF Noted, ValidatorOK
      <3>4. \A r : Put(s.val, p, r) = [s.val EXCEPT ![p] = r]
        BY <2>1 DEF Put
      <3>5. b = [s EXCEPT !.val[p].missed = 0]
        BY <2>1
      <3>6. b = [s EXCEPT !.val = [s.val EXCEPT ![p] = e]]
        <4> HIDE DEF b
        <4> QED BY <2>1, <3>1, <3>5
      <3> HIDE DEF b, e
      <3>7. b = [s EXCEPT !.val = Put(s.val, p, Noted(w, 0, w.jailed, w.until))]
        BY <3>3, <3>4, <3>6
      <3>8. 0 \in Nat
        OBVIOUS
      <3> QED BY <2>1, <3>2, <3>7, <3>8, NoteStep
    <2>2. CASE p \notin DOMAIN s.val
      BY <2>2, SettlesItself
    <2> QED BY <2>1, <2>2
  <1> HIDE DEF n, o, b
  <1>5. ASSUME NEW k \in 1..n, Shape(f[k - 1]) PROVE Settles(f[k - 1], f[k])
    <2>1. f[k] = Miss(f[k - 1], absent[k], time)
      BY <1>3 DEF MissOne
    <2> QED BY <1>5, <2>1, MissStep
  <1>6. Shape(f[0])
    BY <1>3, <1>4 DEF Settles, Neutral
  <1>7. Settles(f[0], f[n])
    BY <1>1, <1>5, <1>6, TraceSettles
  <1>8. Settles(s, o)
    BY <1>2, <1>3, <1>4, <1>7, SettlesThenSettles
  <1> QED BY <1>8 DEF o

-----------------------------------------------------------------------------
(* The reward of a block. *)
RewardEntry(c, shares, t, a) == Credit(t, a, Native, shares[a])

Rewarding == INSTANCE Folding WITH Step <- RewardEntry

(* Every delegator is credited with its share, once. *)
LEMMA SharesStep ==
    ASSUME NEW s, Shape(s), NEW S, S \subseteq Addr, NEW shares, DOMAIN shares = S,
           \A a \in S : shares[a] \in Int
    PROVE  LET o == Rewarding!Fold(0, shares, s, InOrder(S))
           IN  /\ Shape(o) /\ Pays(s, o) /\ SumFunction(shares) \in Int
               /\ Moves(s, o, Native, SumFunction(shares))
  <1> DEFINE n == Cardinality(S)
             list == InOrder(S)
             x == [i \in 1..n |-> shares[list[i]]]
             D == SumFunction(shares)
  <1>1. IsFiniteSet(S) /\ n \in Nat /\ S \subseteq Nat
    BY NamesDiffer, FS_Subset, FS_CardinalityType
  <1>2. Lists(list, S)
    BY <1>1, InOrderLists
  <1>3. list \in [1..n -> S]
    BY <1>2 DEF Lists
  <1>4. PICK f : /\ f[0] = s
                 /\ \A k \in 1..n : f[k] = RewardEntry(0, shares, f[k - 1], list[k])
                 /\ f[n] = Rewarding!Fold(0, shares, s, list)
    <2> HIDE DEF list, n
    <2>1. Rewarding!Traced(0, shares, s, n, list)
      BY <1>1, <1>3, Rewarding!FoldTrace
    <2> QED BY <2>1 DEF Rewarding!Traced
  <1>5. \A k \in 1..n : list[k] \in S /\ x[k] = shares[list[k]] /\ x[k] \in Int
    BY <1>3
  <1>6. SumFunctionOnSet(x, 1..n) = D
    <2>1. \A i \in 1..Cardinality(S) : x[i] = shares[list[i]]
      BY <1>5
    <2>3. IsFiniteSet(S) /\ Lists(list, S) /\ \A a \in S : shares[a] \in Int
      BY <1>1, <1>2
    <2> HIDE DEF x, list, n
    <2>2. SumFunctionOnSet(x, 1..Cardinality(S)) = SumFunctionOnSet(shares, S)
      BY ONLY <2>1, <2>3, SumAlong
    <2> QED BY <2>2 DEF n, SumFunction
  <1> HIDE DEF list, n, x, D
  <1>7. ASSUME NEW k \in 1..n, Shape(f[k - 1])
        PROVE  Shape(f[k]) /\ Pays(f[k - 1], f[k]) /\ Moves(f[k - 1], f[k], Native, x[k])
    <2>1. f[k] = Credit(f[k - 1], list[k], Native, x[k]) /\ x[k] \in Int
      BY <1>4, <1>5 DEF RewardEntry
    <2> DEFINE t == f[k - 1]
               y == x[k]
    <2>2. Shape(t) /\ y \in Int /\ f[k] = Credit(t, list[k], Native, y)
      BY <1>7, <2>1
    <2> HIDE DEF t, y
    <2> DEFINE a == list[k]
               o == Credit(t, a, Native, y)
    <2>3. f[k] = o
      BY <2>2
    <2> HIDE DEF a
    <2>4. Shape(o) /\ Pays(t, o) /\ Moves(t, o, Native, y)
      BY <2>2, NativeCurrency, CreditStep
    <2> HIDE DEF o
    <2> QED BY <2>3, <2>4 DEF t, y
  <1>8. Shape(f[0])
    BY <1>4
  <1>9. \A k \in 1..n : x[k] \in Int
    BY <1>5
  <1>10. Shape(f[n]) /\ D \in Int /\ Moves(f[0], f[n], Native, D)
    <2>1. /\ Shape(f[n]) /\ SumFunctionOnSet(x, 1..n) \in Int
          /\ Moves(f[0], f[n], Native, SumFunctionOnSet(x, 1..n))
      BY <1>1, <1>7, <1>8, <1>9, TraceMoves
    <2> QED BY <1>6, <2>1
  <1>11. Pays(s, f[n])
    <2> DEFINE T == {k \in Nat : Shape(f[k]) /\ Pays(s, f[k])}
    <2>1. 0 \in T
      BY <1>4, <1>8 DEF Pays, SameBut
    <2>2. ASSUME NEW k \in 1..n, k - 1 \in T PROVE k \in T
      <3>1. Shape(f[k]) /\ Pays(f[k - 1], f[k]) /\ Pays(s, f[k - 1])
        BY <1>7, <2>2
      <3>2. Pays(s, f[k])
        BY <3>1, PaysThenPays
      <3> QED BY <3>1, <3>2
    <2> HIDE DEF T
    <2>3. \A k \in 0..n : k \in T
      BY <1>1, <2>1, <2>2, Positions
    <2> QED BY <1>1, <2>3 DEF T
  <1> QED BY <1>4, <1>10, <1>11 DEF D, list

(* Money that is credited and counted as minted. *)
LEMMA MintedStep ==
    ASSUME NEW s, Shape(s), NEW d, Shape(d), Pays(s, d), NEW x \in Int, Moves(s, d, Native, x)
    PROVE  Settles(s, MintSupply(d, x)) /\ SameStakes(s, MintSupply(d, x))
  <1> DEFINE o == MintSupply(d, x)
  <1>1. Shape(o) /\ SameBut(d, o, {"supply"}) /\ Moves(d, o, Native, -x)
    BY MintSupplyStep
  <1> HIDE DEF o
  <1>2. Moves(s, o, Native, 0)
    BY <1>1, NativeCurrency, MovesForth
  <1>3. o.acc = d.acc /\ o.val = d.val /\ o.ctr = d.ctr /\ o.wasm = d.wasm
    BY <1>1 DEF SameBut, Fields
  <1>4. Present(s, d) /\ SameStakes(s, d) /\ d.ctr = s.ctr /\ d.wasm = s.wasm
    BY PaysPresent
  <1>5. Present(s, o) /\ SameStakes(s, o) /\ SameContracts(s, o)
    BY <1>3, <1>4 DEF Present, SameStakes, SameContracts, NonceOf, StakedOf
  <1>6. Neutral(s, o)
    BY <1>1, <1>2, <1>5 DEF Neutral
  <1> QED BY <1>5, <1>6, SameSettles DEF o

(* Mint *)
LEMMA MintStep ==
    ASSUME NEW s, Shape(s), NEW a, NEW x \in Int
    PROVE  Settles(s, Mint(s, a, x)) /\ SameStakes(s, Mint(s, a, x))
  <1> DEFINE d == Credit(s, a, Native, x)
  <1>1. Shape(d) /\ Pays(s, d) /\ Moves(s, d, Native, x)
    BY NativeCurrency, CreditStep
  <1> HIDE DEF d
  <1> QED BY <1>1, MintedStep DEF d, Mint

(* distributeRewardLocked pays out what it mints, whatever is rounded. *)
LEMMA DistributeRewardStep ==
    ASSUME NEW s, Shape(s), NEW p, NEW reward \in Int
    PROVE  Settles(s, DistributeReward(s, p, reward))
  <1> DEFINE w == s.val[p]
             ds == MulDiv(reward, w.delegated, Weight(w))
             cm == Bps(ds, Params.DelegationCommissionBps)
             S == DOMAIN w.delegators
             shares == [a \in S |-> MulDiv(ds - cm, w.delegators[a], w.delegated)]
             D == SumFunction(shares)
             own == reward - D
             paid == Rewarding!Fold(0, shares, s, InOrder(DOMAIN shares))
             new == MintSupply(Credit(paid, p, Native, own), reward)
             o == DistributeReward(s, p, reward)
  <1>0. o = IF reward = 0 THEN s
            ELSE IF p \notin DOMAIN s.val \/ s.val[p].delegated = 0
            THEN Mint(s, p, reward) ELSE new
    BY DEF DistributeReward, Rewarding!Fold, FoldLeft, Rewarding!FoldLeft, MapThenFoldSet,
           Rewarding!MapThenFoldSet, Max, Rewarding!Max, RewardEntry
  <1>1. CASE reward = 0
    <2>1. o = s
      <3> HIDE DEF o, new
      <3> QED BY <1>0, <1>1
    <2> QED BY <2>1, SettlesItself
  <1>2. CASE reward # 0 /\ (p \notin DOMAIN s.val \/ s.val[p].delegated = 0)
    <2>1. o = Mint(s, p, reward)
      <3> HIDE DEF o, new
      <3> QED BY <1>0, <1>2
    <2> QED BY <2>1, MintStep
  <1>3. CASE reward # 0 /\ p \in DOMAIN s.val /\ s.val[p].delegated # 0
    <2>1. o = new
      <3> HIDE DEF o, new
      <3> QED BY <1>0, <1>3
    <2>2. ValidatorOK(w)
      BY <1>3 DEF Shape, ValOK
    <2>3. /\ S \subseteq Addr /\ w.delegated \in Amounts /\ w.stake \in Amounts
          /\ w.delegators \in [S -> Amounts]
      BY <2>2 DEF ValidatorOK
    <2>4. w.delegated \in Nat /\ w.delegated \in Int /\ Weight(w) \in Nat
      BY <2>3, WordType DEF Weight
    <2>5. ds \in Int
      BY <2>4, MulDivWord, WordType
    <2>6. cm \in Int
      <3>1. Params.DelegationCommissionBps \in Int /\ 10000 \in Nat
        BY ParamsAreNatural DEF ParamNames
      <3> HIDE DEF ds
      <3>2. MulDiv(ds, Params.DelegationCommissionBps, 10000) \in Amounts
        BY <2>5, <3>1, MulDivWord
      <3> QED BY <3>2, WordType DEF Bps
    <2>7. \A a \in S : shares[a] \in Int
      <3>1. SUFFICES ASSUME NEW a \in S PROVE shares[a] \in Int
        OBVIOUS
      <3> DEFINE part == ds - cm
                 r == w.delegators[a]
      <3>2. part \in Int /\ r \in Int
        <4>1. r \in Amounts
          BY <2>3
        <4> HIDE DEF ds, cm, r
        <4> QED BY <2>5, <2>6, <4>1, WordType
      <3>3. shares[a] = MulDiv(part, r, w.delegated)
        OBVIOUS
      <3> HIDE DEF part, r, shares, w
      <3>4. MulDiv(part, r, w.delegated) \in Amounts
        BY <2>4, <3>2, MulDivWord
      <3> QED BY <3>3, <3>4, WordType
    <2>8. DOMAIN shares = S
      OBVIOUS
    <2> HIDE DEF shares, w, S
    <2>9. /\ Shape(paid) /\ Pays(s, paid) /\ D \in Int
          /\ Moves(s, paid, Native, D)
      BY <2>3, <2>7, <2>8, SharesStep
    <2> HIDE DEF paid, D
    <2> DEFINE d == Credit(paid, p, Native, own)
    <2>10. own \in Int /\ D + own = reward
      BY <2>9
    <2> HIDE DEF own, o
    <2>11. Shape(d) /\ Pays(paid, d) /\ Moves(paid, d, Native, own)
      BY <2>9, <2>10, NativeCurrency, CreditStep
    <2> HIDE DEF d
    <2>12. Pays(s, d) /\ Moves(s, d, Native, D + own)
      BY <2>9, <2>10, <2>11, NativeCurrency, PaysThenPays, MovesThenMoves
    <2>13. Moves(s, d, Native, reward)
      BY <2>10, <2>12, Zenon
    <2>14. Settles(s, MintSupply(d, reward))
      BY <2>11, <2>12, <2>13, MintedStep
    <2> QED BY <2>1, <2>14 DEF d, o
  <1> QED BY <1>1, <1>2, <1>3

(* releaseUnbondedLocked leaves validators and contracts alone. *)
LEMMA ReleaseSettles ==
    ASSUME NEW s, Shape(s), NEW time
    PROVE  Settles(s, ReleaseUnbonded(s, time))
  BY ReleaseUnbondedStep, SameSettles

-----------------------------------------------------------------------------
(* Contracts: what a payment leaves them solvent. *)

(* What a vesting contract owes, once it is claimed. *)
LEMMA ClaimSolvent ==
    ASSUME NEW c, ContractOK(c), c.template = "vesting", c.status = "active",
           NEW time \in Nat, Solvent(c, time)
    PROVE  Solvent(Paid(c, Claimable(c, time)), time)
  <1> DEFINE v == Vested(c, time)
             r == c.released
             x == Claimable(c, time)
             e == Paid(c, x)
  <1>1. v \in Amounts /\ v <= c.amount /\ r \in Amounts /\ c.amount \in Amounts /\ r <= v
    BY VestedBounds DEF ContractOK, Solvent
  <1>2. v \in Nat /\ r \in Nat /\ v < Word /\ c.amount \in Nat
    BY <1>1, WordType
  <1>3. x = v - r
    <2>1. x = Minus(v, r)
      BY DEF Claimable
    <2> HIDE DEF x, v, r
    <2> QED BY <1>1, <1>2, <2>1, MinusExact
  <1>4. Plus(r, x) = v
    <2> HIDE DEF x, v, r
    <2>1. x \in Nat /\ r + x = v
      BY <1>1, <1>2, <1>3
    <2> QED BY <1>2, <2>1, PlusExact
  <1>5. /\ e.released = v /\ e.status = (IF v = c.amount THEN "completed" ELSE "active")
        /\ e.amount = c.amount /\ e.template = "vesting"
        /\ e.start = c.start /\ e.end = c.end
    <2> HIDE DEF x, v
    <2> QED BY <1>4 DEF Paid, ContractOK
  <1>6. Vested(e, time) = v
    <2> HIDE DEF e
    <2> QED BY <1>5 DEF Vested
  <1> HIDE DEF e, v
  <1>7. Solvent(e, time)
    BY <1>1, <1>2, <1>5, <1>6 DEF Solvent
  <1> QED BY <1>7 DEF e

(* A vault whose proposals are rewritten, and those it paid are not. *)
LEMMA ReviseSolvent ==
    ASSUME NEW c, ContractOK(c), c.template \in {"multisig", "dao"}, NEW time,
           Solvent(c, time), NEW ps \in Seq(Proposals),
           {i \in DOMAIN ps : ps[i].executed} = PaidBy(c),
           \A i \in PaidBy(c) : ps[i].amount = c.proposals[i].amount,
           \A i \in DOMAIN ps :
               /\ ps[i].executed => Cardinality(ps[i].for) >= c.threshold /\ ~ps[i].rejected
               /\ ps[i].for \cap ps[i].against = {}
    PROVE  Solvent([c EXCEPT !.proposals = ps], time)
  <1> DEFINE e == [c EXCEPT !.proposals = ps]
  <1>1. /\ e.proposals = ps /\ e.released = c.released /\ e.amount = c.amount
        /\ e.status = c.status /\ e.template = c.template /\ e.threshold = c.threshold
    BY DEF ContractOK
  <1>2. c.template # "vesting"
    OBVIOUS
  <1> HIDE DEF e
  <1>3. PaidBy(e) = PaidBy(c)
    BY <1>1 DEF PaidBy
  <1>4. [p \in PaidBy(e) |-> e.proposals[p].amount] = [p \in PaidBy(c) |-> c.proposals[p].amount]
    BY <1>1, <1>3
  <1>5. Solvent(e, time)
    BY <1>1, <1>2, <1>4 DEF Solvent
  <1> QED BY <1>5 DEF e

(* A proposal that is covered is paid once, and counts as paid. *)
LEMMA ExecuteSolvent ==
    ASSUME NEW c, ContractOK(c), c.template \in {"multisig", "dao"}, c.status = "active",
           NEW time, Solvent(c, time), NEW i \in DOMAIN c.proposals,
           ~c.proposals[i].executed, ~c.proposals[i].rejected,
           QuorumReached(c, c.proposals[i]), Covered(c, c.proposals[i]),
           NEW ps, ps = [c.proposals EXCEPT ![i] = [c.proposals[i] EXCEPT !.executed = TRUE]]
    PROVE  Solvent([Paid(c, c.proposals[i].amount) EXCEPT !.proposals = ps], time)
  <1> DEFINE old == c.proposals
             p == old[i]
             x == p.amount
             r == c.released
             d == Paid(c, x)
             e == [d EXCEPT !.proposals = ps]
             f == [k \in PaidBy(c) |-> old[k].amount]
             g == [k \in PaidBy(e) |-> ps[k].amount]
  <1>1. /\ old \in Seq(Proposals) /\ r \in Amounts /\ c.amount \in Amounts
        /\ {"token", "amount", "released", "status", "template", "proposals", "threshold"}
              \subseteq DOMAIN c
    BY DEF ContractOK
  <1>2. DOMAIN old = 1..Len(old) /\ \A k \in DOMAIN old : old[k] \in Proposals
    BY <1>1
  <1>3. p \in Proposals /\ x \in Amounts
    BY <1>2 DEF Proposals
  <1>4. /\ DOMAIN ps = DOMAIN old /\ ps[i] = [p EXCEPT !.executed = TRUE]
        /\ \A k \in DOMAIN old \ {i} : ps[k] = old[k]
    OBVIOUS
  <1>5. /\ ps[i].executed /\ ps[i].amount = x /\ ps[i].for = p.for
        /\ ps[i].against = p.against /\ ps[i].rejected = p.rejected
    <2> HIDE DEF old, p
    <2> QED BY <1>3, <1>4 DEF Proposals
  <1>6. r \in Nat /\ x \in Nat /\ c.amount \in Nat /\ c.amount < Word /\ r <= c.amount
    BY <1>1, <1>3, WordType DEF Solvent
  <1>7. r + x <= c.amount
    <2>1. Minus(c.amount, r) >= x
      BY DEF Covered
    <2>2. Minus(c.amount, r) = c.amount - r
      BY <1>1, <1>6, MinusExact
    <2> HIDE DEF r, x
    <2> QED BY <1>6, <2>1, <2>2
  <1>8. Plus(r, x) = r + x
    <2> HIDE DEF r, x
    <2>1. r + x < Word
      BY <1>6, <1>7, WordType
    <2> QED BY <1>6, <2>1, PlusExact
  <1>9. /\ e.released = r + x /\ e.amount = c.amount /\ e.template = c.template
        /\ e.status = (IF r + x = c.amount THEN "completed" ELSE "active")
        /\ e.proposals = ps /\ e.threshold = c.threshold
    <2> HIDE DEF x, old, p
    <2> QED BY <1>1, <1>8 DEF Paid
  <1>10. PaidBy(c) = {k \in DOMAIN old : old[k].executed}
         /\ PaidBy(e) = {k \in DOMAIN ps : ps[k].executed}
    BY <1>9 DEF PaidBy
  <1>11. p = c.proposals[i] /\ ~p.executed /\ ~p.rejected
    OBVIOUS
  <1> HIDE DEF old, p, x, d, e
  <1>12. i \notin PaidBy(c) /\ PaidBy(e) = PaidBy(c) \cup {i}
    BY <1>4, <1>5, <1>10, <1>11 DEF p, old
  <1>13. SumFunction(g) = SumFunction(f) + x
    <2>1. IsFiniteSet(PaidBy(c))
      <3>1. PaidBy(c) \subseteq 1..Len(old) /\ Len(old) \in Nat
        BY <1>1, <1>2, <1>10
      <3> DEFINE m == Len(old)
      <3>3. 1 \in Int /\ m \in Int
        BY <3>1
      <3> HIDE DEF m
      <3>2. IsFiniteSet(1..m)
        BY <3>3, FS_Interval
      <3> QED BY <3>1, <3>2, FS_Subset DEF m
    <2>2. \A k \in PaidBy(c) : f[k] \in Int /\ g[k] = f[k]
      <3>1. SUFFICES ASSUME NEW k \in PaidBy(c) PROVE f[k] \in Int /\ g[k] = f[k]
        OBVIOUS
      <3>2. k \in DOMAIN old /\ k # i /\ k \in PaidBy(e) /\ f[k] = old[k].amount
        BY <1>10, <1>12
      <3>3. old[k].amount \in Amounts
        BY <1>2, <3>2 DEF Proposals
      <3> QED BY <1>4, <3>2, <3>3, WordType
    <2>3. g[i] = x /\ DOMAIN g = PaidBy(c) \cup {i} /\ DOMAIN f = PaidBy(c)
      BY <1>5, <1>12
    <2>4. i \notin PaidBy(c) /\ x \in Int
      BY <1>6, <1>12
    <2> DEFINE S == PaidBy(c)
    <2> HIDE DEF f, g, S
    <2>5. SumFunctionOnSet(g, S \cup {i}) = SumFunctionOnSet(f, S) + g[i]
      BY <2>1, <2>2, <2>3, <2>4, SumAdd DEF S
    <2> QED BY <2>3, <2>5 DEF S, SumFunction
  <1>14. Sum([k \in PaidBy(c) |-> c.proposals[k].amount]) = r
    BY DEF Solvent
  <1>15. Sum([k \in PaidBy(e) |-> e.proposals[k].amount]) = r + x
    <2>1. Sum(f) = r
      BY <1>14 DEF old
    <2>2. Sum(g) = r + x
      <3> HIDE DEF f, g
      <3> QED BY <1>13, <2>1 DEF Sum
    <2> QED BY <1>9, <2>2
  <1>16. \A k \in DOMAIN ps :
            /\ ps[k].executed => Cardinality(ps[k].for) >= c.threshold /\ ~ps[k].rejected
            /\ ps[k].for \cap ps[k].against = {}
    <2>1. \A k \in DOMAIN old :
             /\ old[k].executed => Cardinality(old[k].for) >= c.threshold /\ ~old[k].rejected
             /\ old[k].for \cap old[k].against = {}
      BY DEF Solvent, old
    <2>2. Cardinality(p.for) >= c.threshold
      BY DEF QuorumReached, p, old
    <2> QED BY <1>4, <1>5, <1>11, <2>1, <2>2 DEF p
  <1>17. e.template # "vesting"
    BY <1>9
  <1>18. Solvent(e, time)
    <2> HIDE DEF f, g
    <2> QED BY <1>6, <1>7, <1>9, <1>15, <1>16, <1>17 DEF Solvent
  <1> QED BY <1>18 DEF e, d, x, p, old

-----------------------------------------------------------------------------
(* Contracts: the transactions on them. *)

(* One contract is replaced by one that is solvent if it was. *)
Serves(s, o, k, time) ==
    /\ Neutral(s, o) /\ SameStakes(s, o)
    /\ o.wasm = s.wasm /\ DOMAIN o.ctr = DOMAIN s.ctr \cup {k}
    /\ \A i \in DOMAIN s.ctr \ {k} : o.ctr[i] = s.ctr[i]
    /\ Solvent(s.ctr[k], time) => Solvent(o.ctr[k], time)

(* A contract that is written serves if it stays solvent. *)
LEMMA BecomesServes ==
    ASSUME NEW s, NEW o, NEW k, NEW c, NEW time, Neutral(s, o), SameStakes(s, o),
           Becomes(s, o, k, c), Solvent(s.ctr[k], time) => Solvent(c, time)
    PROVE  Serves(s, o, k, time) /\ o.ctr[k] = c
  <1>1. /\ o.ctr[k] = c /\ o.wasm = s.wasm /\ DOMAIN o.ctr = DOMAIN s.ctr \cup {k}
        /\ \A i \in DOMAIN s.ctr \ {k} : o.ctr[i] = s.ctr[i]
    BY DEF Becomes, Put
  <1> QED BY <1>1 DEF Serves

(* Two such steps make one. *)
LEMMA ServesThenServes ==
    ASSUME NEW s, Shape(s), NEW o, NEW p, NEW k, NEW time, Serves(s, o, k, time),
           Serves(o, p, k, time)
    PROVE  Serves(s, p, k, time)
  <1>1. Neutral(s, p) /\ SameStakes(s, p)
    BY NeutralThenNeutral DEF Serves, SameStakes
  <1> QED BY <1>1 DEF Serves

(* Doing nothing serves. *)
LEMMA ServesItself ==
    ASSUME NEW s, Shape(s), NEW k \in DOMAIN s.ctr, NEW time
    PROVE  Serves(s, s, k, time)
  <1>1. Neutral(s, s)
    BY SettlesItself DEF Settles
  <1> QED BY <1>1 DEF Serves, SameStakes

(* A vesting contract pays what is vested and not released. *)
LEMMA ClaimStep ==
    ASSUME NEW s, Shape(s), NEW tx, tx.id \in DOMAIN s.ctr, s.ctr[tx.id].status = "active",
           s.ctr[tx.id].template = "vesting", NEW time \in Nat
    PROVE  Serves(s, Claim(s, tx, time), tx.id, time)
  <1> DEFINE k == tx.id
             c == s.ctr[k]
             x == Claimable(c, time)
             o == Claim(s, tx, time)
  <1>1. ContractOK(c)
    BY DEF Shape, CtrOK
  <1>2. x \in Int
    <2>1. Vested(c, time) \in Int /\ c.released \in Int
      BY <1>1, VestedBounds, WordType DEF ContractOK
    <2> QED BY <2>1, MinusWord, WordType DEF Claimable
  <1>3. o = Release(s, k, c.beneficiary, x)
    BY DEF Claim
  <1> HIDE DEF x
  <1>4. Neutral(s, o) /\ SameStakes(s, o) /\ Becomes(s, o, k, Paid(c, x))
    <2> DEFINE to == c.beneficiary
    <2> HIDE DEF to
    <2>1. s.ctr[k].status = "active" /\ s.ctr[k].template # "escrow"
      OBVIOUS
    <2>2. /\ Neutral(s, Release(s, k, to, x)) /\ SameStakes(s, Release(s, k, to, x))
          /\ Becomes(s, Release(s, k, to, x), k, Paid(s.ctr[k], x))
      BY <1>2, <2>1, ReleaseStepOK
    <2> QED BY <1>3, <2>2 DEF to
  <1>5. Solvent(c, time) => Solvent(Paid(c, x), time)
    BY <1>1, ClaimSolvent DEF x
  <1> HIDE DEF o
  <1> QED BY <1>4, <1>5, BecomesServes DEF o

(* An escrow pays the seller, and is complete. *)
LEMMA EscrowStep ==
    ASSUME NEW s, Shape(s), NEW tx, tx.id \in DOMAIN s.ctr, s.ctr[tx.id].status = "active",
           s.ctr[tx.id].template = "escrow", NEW time
    PROVE  /\ Serves(s, ReleaseEscrow(s, tx), tx.id, time)
           /\ Serves(s, Refund(s, tx), tx.id, time)
  <1> DEFINE k == tx.id
             c == s.ctr[k]
             x == c.amount
             y == [c EXCEPT !.released = x, !.status = "completed"]
             z == [c EXCEPT !.status = "refunded"]
             d(to) == Credit(s, to, c.token, x)
  <1>1. /\ ContractOK(c) /\ c.status = "active" /\ c.template = "escrow" /\ c.released = 0
        /\ x \in Amounts /\ x > 0 /\ c.token \in Currencies
    <2>1. ContractOK(c) /\ c.status = "active" /\ c.template = "escrow"
      BY DEF Shape, CtrOK
    <2> HIDE DEF c
    <2> QED BY <2>1 DEF ContractOK
  <1>2. x \in Int /\ x \in Nat
    BY <1>1, WordType
  <1>3. \A to : Shape(d(to)) /\ d(to).ctr = s.ctr
    <2>1. SUFFICES ASSUME NEW to PROVE Shape(d(to)) /\ d(to).ctr = s.ctr
      OBVIOUS
    <2>2. Shape(d(to)) /\ Pays(s, d(to))
      BY <1>1, <1>2, CreditStep
    <2> QED BY <2>2, PaysPresent
  <1>4. \A e : Put(s.ctr, k, e) = [s.ctr EXCEPT ![k] = e]
    BY DEF Put
  <1>5. "ctr" \in Fields
    BY DEF Fields
  <1> HIDE DEF c, d
  <1>6. /\ ContractOK(y) /\ y.token = c.token /\ y.released = x /\ y.amount = x
        /\ y.status = "completed" /\ y.template = "escrow"
    BY <1>1 DEF ContractOK
  <1>7. /\ ContractOK(z) /\ z.token = c.token /\ z.released = 0 /\ z.amount = x
        /\ z.status = "refunded" /\ z.template = "escrow"
    BY <1>1 DEF ContractOK
  <1> HIDE DEF y, z
  <1>8. Held(c) = x /\ Held(y) = 0 /\ Held(z) = 0
    <2> HIDE DEF x
    <2> QED BY <1>1, <1>2, <1>6, <1>7 DEF Held, x
  <1>9. Same(Held(y), Held(s.ctr[k]) - x) /\ Same(Held(z), Held(s.ctr[k]) - x)
    <2> HIDE DEF x
    <2>1. x - x = 0
      BY <1>2
    <2> QED BY <1>8, <2>1 DEF c, Same, Congruent
  <1>10. Serves(s, ReleaseEscrow(s, tx), k, time)
    <2> DEFINE o == ReleaseEscrow(s, tx)
               to == c.seller
               b == d(to)
    <2>1. o = [b EXCEPT !.ctr[k].released = x, !.ctr[k].status = "completed"]
      BY DEF ReleaseEscrow, Pay, d, c
    <2>2. DOMAIN b = Fields /\ b.ctr = s.ctr
      BY <1>3 DEF Shape
    <2> HIDE DEF b, o, x
    <2>3. o = [b EXCEPT !.ctr = [s.ctr EXCEPT ![k] = y]]
      BY <1>5, <2>1, <2>2 DEF y, c
    <2>4. o = [Credit(s, to, y.token, x) EXCEPT !.ctr = Put(s.ctr, k, y)]
      BY <1>4, <1>6, <2>3 DEF b, d
    <2>5. s.ctr[k].token = y.token
      BY <1>6 DEF c
    <2> HIDE DEF to
    <2>6. Neutral(s, o) /\ SameStakes(s, o) /\ Becomes(s, o, k, y)
      BY <1>2, <1>6, <1>9, <2>4, <2>5, PayStep
    <2>7. Solvent(y, time)
      BY <1>2, <1>6 DEF Solvent
    <2> QED BY <2>6, <2>7, BecomesServes DEF o
  <1>11. Serves(s, Refund(s, tx), k, time)
    <2> DEFINE o == Refund(s, tx)
               to == c.creator
               b == d(to)
    <2>1. o = [b EXCEPT !.ctr[k].status = "refunded"]
      BY DEF Refund, Pay, d, c
    <2>2. DOMAIN b = Fields /\ b.ctr = s.ctr
      BY <1>3 DEF Shape
    <2> HIDE DEF b, o, x
    <2>3. o = [b EXCEPT !.ctr = [s.ctr EXCEPT ![k] = z]]
      BY <1>5, <2>1, <2>2 DEF z, c
    <2>4. o = [Credit(s, to, z.token, x) EXCEPT !.ctr = Put(s.ctr, k, z)]
      BY <1>4, <1>7, <2>3 DEF b, d
    <2>5. s.ctr[k].token = z.token
      BY <1>7 DEF c
    <2> HIDE DEF to
    <2>6. Neutral(s, o) /\ SameStakes(s, o) /\ Becomes(s, o, k, z)
      BY <1>2, <1>7, <1>9, <2>4, <2>5, PayStep
    <2>7. Solvent(z, time)
      BY <1>1, <1>2, <1>7 DEF Solvent, x
    <2> QED BY <2>6, <2>7, BecomesServes DEF o
  <1> QED BY <1>10, <1>11

(* A list of proposals with one of them rewritten. *)
LEMMA ProposalsPut ==
    ASSUME NEW ps \in Seq(Proposals), NEW i \in DOMAIN ps, NEW p \in Proposals,
           NEW qs, qs = [ps EXCEPT ![i] = p]
    PROVE  /\ qs \in Seq(Proposals) /\ DOMAIN qs = DOMAIN ps /\ qs[i] = p
           /\ \A k \in DOMAIN ps \ {i} : qs[k] = ps[k]
           /\ ps[i] \in Proposals /\ \A k \in DOMAIN ps : ps[k] \in Proposals
  <1>1. /\ DOMAIN ps = 1..Len(ps) /\ Len(ps) \in Nat
        /\ \A k \in 1..Len(ps) : ps[k] \in Proposals
    OBVIOUS
  <1>2. qs \in [1..Len(ps) -> Proposals]
    BY <1>1
  <1>3. qs \in Seq(Proposals)
    BY <1>1, <1>2
  <1> QED BY <1>1, <1>3

(* Only the proposals of a contract change. *)
LEMMA RevisedServes ==
    ASSUME NEW s, Shape(s), NEW k \in DOMAIN s.ctr, s.ctr[k].template \in {"multisig", "dao"},
           NEW ps \in Seq(Proposals), NEW o, o = [s EXCEPT !.ctr[k].proposals = ps], NEW time,
           Solvent(s.ctr[k], time) => Solvent([s.ctr[k] EXCEPT !.proposals = ps], time)
    PROVE  Serves(s, o, k, time) /\ o.ctr[k] = [s.ctr[k] EXCEPT !.proposals = ps]
  <1> DEFINE e == [s.ctr[k] EXCEPT !.proposals = ps]
  <1>1. Neutral(s, o) /\ SameStakes(s, o) /\ Becomes(s, o, k, e)
    BY ReviseStep
  <1>2. Solvent(s.ctr[k], time) => Solvent(e, time)
    OBVIOUS
  <1> HIDE DEF e
  <1>3. Serves(s, o, k, time) /\ o.ctr[k] = e
    BY <1>1, <1>2, BecomesServes
  <1> QED BY <1>3 DEF e

(* A proposal that reached its quorum and is covered is paid. *)
LEMMA ExecuteStep ==
    ASSUME NEW s, Shape(s), NEW k \in DOMAIN s.ctr, s.ctr[k].template \in {"multisig", "dao"},
           s.ctr[k].status = "active", NEW i \in DOMAIN s.ctr[k].proposals,
           ~s.ctr[k].proposals[i].executed, ~s.ctr[k].proposals[i].rejected,
           QuorumReached(s.ctr[k], s.ctr[k].proposals[i]), Covered(s.ctr[k], s.ctr[k].proposals[i]),
           NEW time
    PROVE  Serves(s, ExecuteProposal(s, k, i), k, time)
  <1> DEFINE c == s.ctr[k]
             old == c.proposals
             p == old[i]
             e == [p EXCEPT !.executed = TRUE]
             ps == [old EXCEPT ![i] = e]
             d == Release(s, k, p.to, p.amount)
             o == ExecuteProposal(s, k, i)
             b == Paid(c, p.amount)
  <1>1. /\ ContractOK(c) /\ c.template \in {"multisig", "dao"} /\ c.status = "active"
        /\ c.template # "escrow" /\ i \in DOMAIN old /\ ~p.executed /\ ~p.rejected
        /\ QuorumReached(c, p) /\ Covered(c, p)
    BY DEF Shape, CtrOK
  <1>2. old \in Seq(Proposals) /\ {"proposals", "released", "status", "template"} \subseteq DOMAIN c
    BY <1>1 DEF ContractOK
  <1> HIDE DEF c
  <1>3. p \in Proposals
    BY <1>1, <1>2
  <1> HIDE DEF p, old
  <1>4. e \in Proposals /\ p.amount \in Int
    BY <1>3, WordType DEF Proposals
  <1> HIDE DEF e
  <1>5. ps \in Seq(Proposals)
    BY <1>1, <1>2, <1>4, ProposalsPut
  <1> HIDE DEF ps
  <1>6. /\ Neutral(s, d) /\ SameStakes(s, d) /\ Becomes(s, d, k, b) /\ ContractOK(b)
    <2> DEFINE to == p.to
               x == p.amount
    <2>1. s.ctr[k].status = "active" /\ s.ctr[k].template # "escrow" /\ x \in Int
      BY <1>4
    <2> HIDE DEF to, x
    <2>2. LET r == Release(s, k, to, x)
          IN  /\ Neutral(s, r) /\ SameStakes(s, r)
              /\ Becomes(s, r, k, Paid(s.ctr[k], x)) /\ ContractOK(Paid(s.ctr[k], x))
      BY <2>1, ReleaseStepOK
    <2> QED BY <2>2 DEF c, x, to
  <1>7. o = [d EXCEPT !.ctr[k].proposals[i].executed = TRUE]
    BY DEF ExecuteProposal, d, p, old, c
  <1> HIDE DEF d, o
  <1>8. Shape(d) /\ d.ctr[k] = b /\ k \in DOMAIN d.ctr /\ DOMAIN d = Fields
    BY <1>6 DEF Neutral, Becomes, Put, Shape
  <1>9. b.proposals = old /\ b.template = c.template /\ "proposals" \in DOMAIN b
    <2> HIDE DEF c
    <2> QED BY <1>2 DEF Paid, old
  <1> HIDE DEF b
  <1>10. o = [d EXCEPT !.ctr[k].proposals = ps]
    BY <1>1, <1>7, <1>8, <1>9 DEF ps, e, p, Fields
  <1>11. Neutral(d, o) /\ SameStakes(d, o) /\ Becomes(d, o, k, [b EXCEPT !.proposals = ps])
    BY <1>1, <1>5, <1>8, <1>9, <1>10, ReviseStep
  <1>12. Solvent(c, time) => Solvent([b EXCEPT !.proposals = ps], time)
    <2>1. SUFFICES ASSUME Solvent(c, time) PROVE Solvent([b EXCEPT !.proposals = ps], time)
      OBVIOUS
    <2>2. /\ i \in DOMAIN c.proposals /\ ~c.proposals[i].executed /\ ~c.proposals[i].rejected
          /\ QuorumReached(c, c.proposals[i]) /\ Covered(c, c.proposals[i])
      BY <1>1 DEF p, old
    <2>3. ps = [c.proposals EXCEPT ![i] = [c.proposals[i] EXCEPT !.executed = TRUE]]
      BY DEF ps, e, p, old
    <2>4. Solvent([Paid(c, c.proposals[i].amount) EXCEPT !.proposals = ps], time)
      BY <1>1, <2>1, <2>2, <2>3, ExecuteSolvent
    <2> QED BY <2>4 DEF b, p, old
  <1>13. Neutral(s, o) /\ SameStakes(s, o) /\ Becomes(s, o, k, [b EXCEPT !.proposals = ps])
    BY <1>6, <1>8, <1>11, NeutralThenNeutral DEF SameStakes, Becomes, Put
  <1>14. Serves(s, o, k, time)
    <2> DEFINE f == [b EXCEPT !.proposals = ps]
    <2>1. Becomes(s, o, k, f) /\ (Solvent(s.ctr[k], time) => Solvent(f, time))
      BY <1>12, <1>13 DEF c
    <2> HIDE DEF f
    <2> QED BY <1>13, <2>1, BecomesServes
  <1> QED BY <1>14 DEF o

(* maybeExecuteMultisig, maybeResolveDAO *)
LEMMA SettleStep ==
    ASSUME NEW s, Shape(s), NEW k \in DOMAIN s.ctr, s.ctr[k].template \in {"multisig", "dao"},
           s.ctr[k].status = "active", NEW i \in DOMAIN s.ctr[k].proposals,
           ~s.ctr[k].proposals[i].executed, ~s.ctr[k].proposals[i].rejected, NEW time
    PROVE  Serves(s, Settle(s, k, i), k, time)
  <1> DEFINE c == s.ctr[k]
             old == c.proposals
             p == old[i]
             e == [p EXCEPT !.rejected = TRUE]
             ps == [old EXCEPT ![i] = e]
             o == [s EXCEPT !.ctr[k].proposals[i].rejected = TRUE]
  <1>1. /\ ContractOK(c) /\ c.template \in {"multisig", "dao"} /\ i \in DOMAIN old
        /\ ~p.executed /\ DOMAIN s = Fields
    BY DEF Shape, CtrOK
  <1>2. old \in Seq(Proposals) /\ "proposals" \in DOMAIN c
    BY <1>1 DEF ContractOK
  <1>3. \/ Settle(s, k, i) = s
        \/ Settle(s, k, i) = o
        \/ /\ Settle(s, k, i) = ExecuteProposal(s, k, i)
           /\ QuorumReached(c, p) /\ Covered(c, p)
    BY DEF Settle
  <1>4. Serves(s, o, k, time)
    <2>1. o = [s EXCEPT !.ctr[k].proposals = ps]
      BY <1>1, <1>2 DEF Fields
    <2> HIDE DEF c, o
    <2>2. p \in Proposals
      BY <1>1, <1>2
    <2> HIDE DEF p, old
    <2>3. /\ e \in Proposals /\ e.executed = p.executed /\ e.amount = p.amount
          /\ e.for = p.for /\ e.against = p.against
      BY <2>2 DEF Proposals
    <2> HIDE DEF e
    <2>4. /\ ps \in Seq(Proposals) /\ DOMAIN ps = DOMAIN old /\ ps[i] = e
          /\ \A n \in DOMAIN old \ {i} : ps[n] = old[n]
      BY <1>1, <1>2, <2>3, ProposalsPut
    <2> HIDE DEF ps
    <2>5. ASSUME Solvent(c, time) PROVE Solvent([c EXCEPT !.proposals = ps], time)
      <3>1. ~e.executed /\ PaidBy(c) = {n \in DOMAIN old : old[n].executed}
        BY <1>1, <2>3 DEF PaidBy, old
      <3>2. i \notin PaidBy(c)
        BY <1>1, <3>1 DEF p
      <3>3. {n \in DOMAIN ps : ps[n].executed} = PaidBy(c)
        BY <2>4, <3>1, <3>2
      <3>4. \A n \in PaidBy(c) : ps[n].amount = c.proposals[n].amount
        BY <2>4, <3>1, <3>2 DEF old
      <3>5. \A n \in DOMAIN old :
               /\ old[n].executed => Cardinality(old[n].for) >= c.threshold /\ ~old[n].rejected
               /\ old[n].for \cap old[n].against = {}
        BY <1>1, <2>5 DEF Solvent, old
      <3>6. \A n \in DOMAIN ps :
               /\ ps[n].executed => Cardinality(ps[n].for) >= c.threshold /\ ~ps[n].rejected
               /\ ps[n].for \cap ps[n].against = {}
        BY <1>1, <2>3, <2>4, <3>1, <3>5 DEF p
      <3> QED BY <1>1, <2>4, <2>5, <3>3, <3>4, <3>6, ReviseSolvent
    <2>6. Solvent(s.ctr[k], time) => Solvent([s.ctr[k] EXCEPT !.proposals = ps], time)
      BY <2>5 DEF c
    <2> QED BY <2>1, <2>4, <2>6, RevisedServes
  <1> HIDE DEF o
  <1>5. CASE Settle(s, k, i) = s
    BY <1>5, ServesItself
  <1>6. CASE Settle(s, k, i) = o
    BY <1>4, <1>6
  <1>7. CASE /\ Settle(s, k, i) = ExecuteProposal(s, k, i)
             /\ QuorumReached(c, p) /\ Covered(c, p)
    BY <1>7, ExecuteStep
  <1> QED BY <1>3, <1>5, <1>6, <1>7

(* A member proposes, and the vote it brings along may decide. *)
LEMMA ProposeStep ==
    ASSUME NEW s, Shape(s), NEW tx, tx.id \in DOMAIN s.ctr,
           s.ctr[tx.id].template \in {"multisig", "dao"}, s.ctr[tx.id].status = "active",
           tx.from \in Addr, tx.to \in Addr, tx.amount \in Amounts, NEW time
    PROVE  Serves(s, Propose(s, tx), tx.id, time)
  <1> DEFINE k == tx.id
             c == s.ctr[k]
             old == c.proposals
             p == Proposal(tx.to, tx.amount, tx.from)
             ps == Append(old, p)
             f == [s EXCEPT !.ctr[k].proposals = ps]
             e == [c EXCEPT !.proposals = ps]
             n == Len(old) + 1
  <1>1. /\ ContractOK(c) /\ c.template \in {"multisig", "dao"} /\ c.status = "active"
        /\ DOMAIN s = Fields /\ k \in DOMAIN s.ctr
    BY DEF Shape, CtrOK
  <1>2. old \in Seq(Proposals) /\ {"proposals", "template", "status"} \subseteq DOMAIN c
    BY <1>1 DEF ContractOK
  <1>3. /\ p \in Proposals /\ ~p.executed /\ ~p.rejected /\ p.for \cap p.against = {}
    BY DEF Proposal, Proposals
  <1>4. Propose(s, tx) = Settle(f, k, Len(f.ctr[k].proposals))
    BY <1>1 DEF Propose, Fields
  <1> HIDE DEF c, p, old, k
  <1>5. /\ ps \in Seq(Proposals) /\ Len(ps) = n /\ n \in Nat /\ n > 0 /\ DOMAIN ps = 1..n
        /\ DOMAIN old = 1..(n - 1) /\ ps[n] = p /\ \A i \in 1..(n - 1) : ps[i] = old[i]
    BY <1>2, <1>3
  <1> HIDE DEF ps, n
  <1>6. ASSUME Solvent(c, time) PROVE Solvent(e, time)
    <2>1. PaidBy(c) = {i \in DOMAIN old : old[i].executed}
      BY DEF PaidBy, old
    <2>2. DOMAIN ps = DOMAIN old \cup {n} /\ n \notin DOMAIN old
      BY <1>5
    <2>3. {i \in DOMAIN ps : ps[i].executed} = PaidBy(c)
      BY <1>3, <1>5, <2>1, <2>2
    <2>4. \A i \in PaidBy(c) : ps[i].amount = c.proposals[i].amount
      BY <1>5, <2>1 DEF old
    <2>5. \A i \in DOMAIN old :
             /\ old[i].executed => Cardinality(old[i].for) >= c.threshold /\ ~old[i].rejected
             /\ old[i].for \cap old[i].against = {}
      BY <1>1, <1>6 DEF Solvent, old
    <2>6. \A i \in DOMAIN ps :
             /\ ps[i].executed => Cardinality(ps[i].for) >= c.threshold /\ ~ps[i].rejected
             /\ ps[i].for \cap ps[i].against = {}
      BY <1>3, <1>5, <2>2, <2>5
    <2> QED BY <1>1, <1>5, <1>6, <2>3, <2>4, <2>6, ReviseSolvent
  <1>7. Serves(s, f, k, time) /\ f.ctr[k] = e /\ Shape(f) /\ k \in DOMAIN f.ctr
    <2>1. s.ctr[k].template \in {"multisig", "dao"}
      BY <1>1 DEF c
    <2>2. Solvent(s.ctr[k], time) => Solvent([s.ctr[k] EXCEPT !.proposals = ps], time)
      BY <1>6 DEF c
    <2>3. f = [s EXCEPT !.ctr[k].proposals = ps]
      OBVIOUS
    <2> HIDE DEF f
    <2>4. Serves(s, f, k, time) /\ f.ctr[k] = [s.ctr[k] EXCEPT !.proposals = ps]
      BY <1>1, <1>5, <2>1, <2>2, <2>3, RevisedServes
    <2> QED BY <2>4 DEF Serves, Neutral, c
  <1>8. /\ e.proposals = ps /\ e.template = c.template /\ e.status = c.status
    BY <1>2
  <1> HIDE DEF f, e
  <1>9. Serves(f, Settle(f, k, n), k, time)
    <2>1. /\ f.ctr[k].template \in {"multisig", "dao"} /\ f.ctr[k].status = "active"
          /\ n \in DOMAIN f.ctr[k].proposals
          /\ ~f.ctr[k].proposals[n].executed /\ ~f.ctr[k].proposals[n].rejected
      <3>1. n \in 1..n
        BY <1>2, <1>5 DEF n
      <3> QED BY <1>1, <1>3, <1>5, <1>7, <1>8, <3>1
    <2> QED BY <1>7, <2>1, SettleStep
  <1>10. Len(f.ctr[k].proposals) = n
    BY <1>5, <1>7, <1>8
  <1> QED BY <1>4, <1>7, <1>9, <1>10, ServesThenServes DEF k

(* A member votes, once, on a proposal that is open. *)
LEMMA VoteStep ==
    ASSUME NEW s, Shape(s), NEW tx, tx.id \in DOMAIN s.ctr,
           s.ctr[tx.id].template \in {"multisig", "dao"}, s.ctr[tx.id].status = "active",
           tx.from \in Addr, tx.proposal \in 1..Len(s.ctr[tx.id].proposals),
           ~s.ctr[tx.id].proposals[tx.proposal].executed,
           ~s.ctr[tx.id].proposals[tx.proposal].rejected,
           ~Voted(s.ctr[tx.id].proposals[tx.proposal], tx.from), NEW time
    PROVE  Serves(s, Vote(s, tx), tx.id, time)
  <1> DEFINE k == tx.id
             i == tx.proposal
             c == s.ctr[k]
             old == c.proposals
             p == old[i]
             side == IF tx.action = "approve" THEN "for" ELSE "against"
             q == [p EXCEPT ![side] = p[side] \cup {tx.from}]
             ps == [old EXCEPT ![i] = q]
             f == [s EXCEPT !.ctr[k].proposals[i][side] = @ \cup {tx.from}]
             e == [c EXCEPT !.proposals = ps]
  <1>1. /\ ContractOK(c) /\ c.template \in {"multisig", "dao"} /\ c.status = "active"
        /\ DOMAIN s = Fields /\ k \in DOMAIN s.ctr
        /\ i \in 1..Len(old) /\ ~p.executed /\ ~p.rejected /\ ~Voted(p, tx.from)
    BY DEF Shape, CtrOK
  <1>2. /\ old \in Seq(Proposals) /\ {"proposals", "template", "status"} \subseteq DOMAIN c
        /\ i \in DOMAIN old
    BY <1>1 DEF ContractOK
  <1>3. Vote(s, tx) = Settle(f, k, i)
    BY DEF Vote
  <1>4. side \in {"for", "against"}
    OBVIOUS
  <1> HIDE DEF side
  <1>5. p \in Proposals
    BY <1>2
  <1>6. f = [s EXCEPT !.ctr[k].proposals = ps]
    <2>1. "ctr" \in DOMAIN s
      BY <1>1 DEF Fields
    <2>2. side \in DOMAIN p
      BY <1>4, <1>5 DEF Proposals
    <2> HIDE DEF side, k, i
    <2> QED BY <1>1, <1>2, <2>1, <2>2
  <1> HIDE DEF f, c, p, old, k, i
  <1>7. /\ q \in Proposals /\ q.executed = p.executed /\ q.rejected = p.rejected
        /\ q.amount = p.amount
        /\ p.for \cap p.against = {} => q.for \cap q.against = {}
    <2>1. tx.from \notin p.for /\ tx.from \notin p.against
      BY <1>1 DEF Voted
    <2>2. CASE side = "for"
      BY <1>5, <2>1, <2>2 DEF Proposals
    <2>3. CASE side = "against"
      BY <1>5, <2>1, <2>3 DEF Proposals
    <2> QED BY <1>4, <2>2, <2>3
  <1> HIDE DEF q
  <1>8. /\ ps \in Seq(Proposals) /\ DOMAIN ps = DOMAIN old /\ ps[i] = q
        /\ \A m \in DOMAIN old \ {i} : ps[m] = old[m]
    BY <1>2, <1>7, ProposalsPut
  <1> HIDE DEF ps
  <1>9. ASSUME Solvent(c, time) PROVE Solvent(e, time)
    <2>1. PaidBy(c) = {m \in DOMAIN old : old[m].executed}
      BY DEF PaidBy, old
    <2>2. i \notin PaidBy(c)
      BY <1>1, <2>1 DEF p
    <2>3. {m \in DOMAIN ps : ps[m].executed} = PaidBy(c)
      BY <1>1, <1>7, <1>8, <2>1, <2>2
    <2>4. \A m \in PaidBy(c) : ps[m].amount = c.proposals[m].amount
      BY <1>8, <2>1, <2>2 DEF old
    <2>5. \A m \in DOMAIN old :
             /\ old[m].executed => Cardinality(old[m].for) >= c.threshold /\ ~old[m].rejected
             /\ old[m].for \cap old[m].against = {}
      BY <1>1, <1>9 DEF Solvent, old
    <2>6. \A m \in DOMAIN ps :
             /\ ps[m].executed => Cardinality(ps[m].for) >= c.threshold /\ ~ps[m].rejected
             /\ ps[m].for \cap ps[m].against = {}
      BY <1>1, <1>2, <1>7, <1>8, <2>5 DEF p
    <2> QED BY <1>1, <1>8, <1>9, <2>3, <2>4, <2>6, ReviseSolvent
  <1>10. Serves(s, f, k, time) /\ f.ctr[k] = e /\ Shape(f) /\ k \in DOMAIN f.ctr
    <2>1. s.ctr[k].template \in {"multisig", "dao"}
      BY <1>1 DEF c
    <2>2. Solvent(s.ctr[k], time) => Solvent([s.ctr[k] EXCEPT !.proposals = ps], time)
      BY <1>9 DEF c
    <2>4. Serves(s, f, k, time) /\ f.ctr[k] = [s.ctr[k] EXCEPT !.proposals = ps]
      <3>1. Shape(s) /\ k \in DOMAIN s.ctr /\ ps \in Seq(Proposals)
        BY <1>1, <1>8
      <3> QED BY ONLY <1>6, <2>1, <2>2, <3>1, RevisedServes
    <2> QED BY <2>4 DEF Serves, Neutral, c
  <1>11. /\ e.proposals = ps /\ e.template = c.template /\ e.status = c.status
    BY <1>2
  <1> HIDE DEF e
  <1>12. Serves(f, Settle(f, k, i), k, time)
    <2>1. /\ f.ctr[k].template \in {"multisig", "dao"} /\ f.ctr[k].status = "active"
          /\ i \in DOMAIN f.ctr[k].proposals
          /\ ~f.ctr[k].proposals[i].executed /\ ~f.ctr[k].proposals[i].rejected
      BY <1>1, <1>2, <1>7, <1>8, <1>10, <1>11
    <2> QED BY <1>10, <2>1, SettleStep
  <1> QED BY <1>3, <1>10, <1>12, ServesThenServes DEF k, i

(* contract_exec *)
LEMMA ExecStep ==
    ASSUME NEW s, Shape(s), NEW tx, Decoded(tx), ValidateBasic(tx), tx.type = "contract_exec",
           NEW time \in Nat, ExecAllowed(s, tx, time)
    PROVE  Serves(s, Exec(s, tx, time), tx.id, time) /\ tx.id \in DOMAIN s.ctr
  <1> DEFINE c == s.ctr[tx.id]
             o == Exec(s, tx, time)
  <1>1. /\ tx.id \in DOMAIN s.ctr /\ c.status = "active" /\ tx.from \in Addr
        /\ tx.amount \in Amounts
        /\ tx.action = "propose" => tx.to \in Addr
    BY DEF ExecAllowed, Decoded, ValidateBasic, ValidAction
  <1>2. CASE c.template = "vesting" /\ tx.action = "claim"
    <2>1. o = Claim(s, tx, time)
      BY <1>2 DEF Exec
    <2> QED BY <1>1, <1>2, <2>1, ClaimStep
  <1>3. CASE c.template = "escrow" /\ tx.action = "release"
    <2>1. o = ReleaseEscrow(s, tx)
      BY <1>3 DEF Exec
    <2> QED BY <1>1, <1>3, <2>1, EscrowStep
  <1>4. CASE c.template = "escrow" /\ tx.action = "refund"
    <2>1. o = Refund(s, tx)
      BY <1>4 DEF Exec
    <2> QED BY <1>1, <1>4, <2>1, EscrowStep
  <1>5. CASE c.template \in {"multisig", "dao"} /\ tx.action = "propose"
    <2>1. o = Propose(s, tx)
      BY <1>5 DEF Exec
    <2> QED BY <1>1, <1>5, <2>1, ProposeStep
  <1>6. CASE /\ c.template \in {"multisig", "dao"} /\ tx.action \in {"approve", "reject"}
             /\ tx.proposal \in 1..Len(c.proposals)
             /\ ~c.proposals[tx.proposal].executed /\ ~c.proposals[tx.proposal].rejected
             /\ ~Voted(c.proposals[tx.proposal], tx.from)
    <2>1. o = Vote(s, tx)
      BY <1>6 DEF Exec
    <2> QED BY ZenonT(40), <1>1, <1>6, <2>1, VoteStep
  <1> QED BY <1>1, <1>2, <1>3, <1>4, <1>5, <1>6 DEF ExecAllowed

(* contract_create: the money of a new contract leaves its creator. *)
LEMMA CreateStep ==
    ASSUME NEW s, Shape(s), NEW tx, Decoded(tx), ValidateBasic(tx), tx.type = "contract_create",
           tx.from \in DOMAIN s.acc, <<tx.from, tx.nonce>> \notin DOMAIN s.ctr, NEW time \in Nat
    PROVE  LET o == Create(s, tx)
               k == <<tx.from, tx.nonce>>
           IN  /\ Neutral(s, o) /\ SameStakes(s, o) /\ Becomes(s, o, k, o.ctr[k])
               /\ Solvent(o.ctr[k], time)
  <1> DEFINE k == <<tx.from, tx.nonce>>
             c == tx.contract
             e == [x \in DOMAIN c \cup {"creator", "released", "proposals", "status"} |->
                      CASE x = "creator"   -> tx.from
                        [] x = "released"  -> 0
                        [] x = "proposals" -> <<>>
                        [] x = "status"    -> "active"
                        [] OTHER           -> c[x]]
             x == c.amount
             d == Debit(s, tx.from, c.token, x)
             o == Create(s, tx)
             z == -x
  <1>1. c \in ContractParams /\ ValidContract(tx)
    BY DEF Decoded, ValidateBasic
  <1>2. /\ c.token \in Currencies /\ x \in Amounts /\ x > 0
        /\ {"token", "amount", "template"} \subseteq DOMAIN c
        /\ c.template \in {"vesting", "escrow", "multisig", "dao"}
        /\ c.template = "vesting" =>
              /\ {"start", "end"} \subseteq DOMAIN c
              /\ c.start \in Int /\ c.end \in Int /\ c.start < c.end
        /\ c.template \in {"multisig", "dao"} => "threshold" \in DOMAIN c
    <2>1. /\ c.token \in Currencies /\ x \in Amounts
          /\ {"token", "amount", "template"} \subseteq DOMAIN c
          /\ c.template \in {"vesting", "escrow", "multisig", "dao"}
      BY <1>1 DEF ContractParams
    <2>2. c.template = "vesting" => {"start", "end"} \subseteq DOMAIN c
                                    /\ c.start \in Int /\ c.end \in Int
      BY <1>1 DEF ContractParams
    <2>3. c.template \in {"multisig", "dao"} => "threshold" \in DOMAIN c
      BY <1>1 DEF ContractParams
    <2>4. x > 0 /\ (c.template = "vesting" => c.start < c.end)
      BY <1>1 DEF ValidContract
    <2> QED BY <2>1, <2>2, <2>3, <2>4
  <1> HIDE DEF c
  <1>3. /\ DOMAIN e = DOMAIN c \cup {"creator", "released", "proposals", "status"}
        /\ e.released = 0 /\ e.proposals = <<>> /\ e.status = "active"
        /\ \A f \in DOMAIN c \ {"creator", "released", "proposals", "status"} : e[f] = c[f]
    OBVIOUS
  <1>4. o = [d EXCEPT !.ctr = Put(@, k, e)]
    BY DEF Create, c
  <1> HIDE DEF e, k
  <1>5. /\ e.token = c.token /\ e.amount = x /\ e.template = c.template
        /\ e.template = "vesting" => e.start = c.start /\ e.end = c.end
        /\ e.template \in {"multisig", "dao"} => e.threshold = c.threshold
    BY <1>2, <1>3
  <1> HIDE DEF x
  <1>6. ContractOK(e)
    <2>1. 0 \in Amounts /\ <<>> \in Seq(Proposals)
      BY WordType
    <2> QED BY <1>2, <1>3, <1>5, <2>1 DEF ContractOK
  <1>7. Solvent(e, time)
    <2>1. x \in Nat
      BY <1>2, WordType
    <2>2. e.template = "vesting" => Vested(e, time) \in Nat
      BY <1>6, VestedBounds, WordType
    <2>3. PaidBy(e) = {}
      BY <1>3 DEF PaidBy
    <2>4. Sum([p \in PaidBy(e) |-> e.proposals[p].amount]) = 0
      <3> DEFINE f == [p \in PaidBy(e) |-> e.proposals[p].amount]
      <3>1. DOMAIN f = {}
        BY <2>3
      <3> HIDE DEF f
      <3>2. Sum(f) = 0
        BY <3>1, SumOfNone DEF Sum, SumFunction
      <3> QED BY <3>2 DEF f
    <2> QED BY <1>2, <1>3, <1>5, <2>1, <2>2, <2>4 DEF Solvent
  <1>8. x \in Int /\ z \in Int /\ Shape(d) /\ Pays(s, d) /\ Moves(s, d, c.token, z)
    <2>1. x \in Int
      BY <1>2, WordType
    <2> QED BY <1>2, <2>1, DebitStep
  <1> HIDE DEF d, z
  <1>9. d.ctr = s.ctr /\ d.wasm = s.wasm
    BY <1>8, PaysPresent
  <1>10. k \notin DOMAIN d.ctr
    BY <1>9 DEF k
  <1>11. Same(Held(e), (IF k \in DOMAIN d.ctr THEN Held(d.ctr[k]) ELSE 0) + x)
    <2>1. Held(e) = x
      BY <1>3, <1>5, <1>8 DEF Held
    <2>2. 0 + x = x
      BY <1>8
    <2> QED BY <1>10, <2>1, <2>2 DEF Same, Congruent
  <1>12. o = [d EXCEPT !.ctr = Put(d.ctr, k, e)]
    BY <1>4
  <1> HIDE DEF o
  <1>13. /\ Shape(o) /\ Moves(d, o, e.token, x) /\ Present(d, o) /\ SameStakes(d, o)
         /\ Becomes(d, o, k, e)
    BY <1>6, <1>8, <1>10, <1>11, <1>12, CtrStep
  <1>14. Moves(s, o, Native, 0)
    BY <1>2, <1>5, <1>8, <1>13, MovesForth DEF z
  <1>15. Present(s, o) /\ SameStakes(s, o) /\ Becomes(s, o, k, e)
    BY <1>8, <1>9, <1>13, PaysPresent DEF Present, SameStakes, Becomes
  <1>16. o.ctr[k] = e
    BY <1>15 DEF Becomes, Put
  <1> QED BY <1>7, <1>13, <1>14, <1>15, <1>16 DEF Neutral, o, k

-----------------------------------------------------------------------------
(* Programs. *)

(* One program of a ledger is replaced, or added. *)
Loads(s, o, k) == o.ctr = s.ctr /\ DOMAIN o.wasm = DOMAIN s.wasm \cup {k}

(* A program is written: the native gap moves with its balance. *)
LEMMA ProgramStep ==
    ASSUME NEW s, Shape(s), NEW k, NEW e,
           {"code", "store", "bal", "calls"} \subseteq DOMAIN e,
           e.bal \in Amounts, e.code \in DOMAIN Programs, NEW x \in Int,
           Same(e.bal, (IF k \in DOMAIN s.wasm THEN s.wasm[k].bal ELSE 0) + x),
           NEW o, o = [s EXCEPT !.wasm = Put(s.wasm, k, e)]
    PROVE  /\ Shape(o) /\ Moves(s, o, Native, x) /\ Present(s, o) /\ SameStakes(s, o)
           /\ Loads(s, o, k)
  <1>1. DOMAIN s = Fields /\ WasmOK(s.wasm)
    BY DEF Shape
  <1>2. DOMAIN o = Fields /\ o.wasm = Put(s.wasm, k, e) /\ \A f \in Fields \ {"wasm"} : o[f] = s[f]
    BY <1>1 DEF Fields
  <1>3. /\ DOMAIN o.wasm = DOMAIN s.wasm \cup {k} /\ o.wasm[k] = e
        /\ \A i \in DOMAIN s.wasm \ {k} : o.wasm[i] = s.wasm[i]
    BY <1>2 DEF Put
  <1>4. WasmOK(o.wasm)
    <2>1. IsFiniteSet(DOMAIN o.wasm)
      BY <1>1, <1>3, FS_AddElement DEF WasmOK
    <2> QED BY <1>1, <1>3, <2>1 DEF WasmOK
  <1>5. Shape(o)
    BY <1>2, <1>4 DEF Shape, Fields
  <1>6. SameBut(s, o, {"wasm"})
    BY <1>2 DEF SameBut
  <1>7. Same(o.wasm[k].bal, (IF k \in DOMAIN s.wasm THEN s.wasm[k].bal ELSE 0) + x)
    BY <1>3
  <1>8. Moves(s, o, Native, x)
    BY <1>3, <1>5, <1>6, <1>7, WasmMoves
  <1>9. o.acc = s.acc /\ o.val = s.val /\ o.ctr = s.ctr
    BY <1>2 DEF Fields
  <1> QED BY <1>3, <1>5, <1>8, <1>9 DEF Present, SameStakes, Loads, NonceOf, StakedOf

(* wasm_deploy *)
LEMMA DeployStep ==
    ASSUME NEW s, Shape(s), NEW tx, Decoded(tx), tx.type = "wasm_deploy",
           <<tx.from, tx.nonce>> \notin DOMAIN s.wasm
    PROVE  LET o == Deploy(s, tx)
           IN  Neutral(s, o) /\ SameStakes(s, o) /\ Loads(s, o, <<tx.from, tx.nonce>>)
  <1> DEFINE k == <<tx.from, tx.nonce>>
             e == [code |-> tx.code, store |-> <<>>, bal |-> 0, calls |-> 0,
                   creator |-> tx.from]
             o == Deploy(s, tx)
  <1>1. tx.code \in DOMAIN Programs
    BY DEF Decoded
  <1>2. /\ {"code", "store", "bal", "calls"} \subseteq DOMAIN e
        /\ e.bal = 0 /\ e.bal \in Amounts /\ e.code \in DOMAIN Programs
    BY <1>1, WordType
  <1>3. o = [s EXCEPT !.wasm = Put(s.wasm, k, e)]
    BY DEF Deploy
  <1> HIDE DEF e, k, o
  <1>4. Same(e.bal, (IF k \in DOMAIN s.wasm THEN s.wasm[k].bal ELSE 0) + 0)
    BY <1>2 DEF k, Same, Congruent
  <1>5. 0 \in Int
    OBVIOUS
  <1>6. /\ Shape(o) /\ Moves(s, o, Native, 0) /\ Present(s, o) /\ SameStakes(s, o)
        /\ Loads(s, o, k)
    <2>1. Shape(s) /\ {"code", "store", "bal", "calls"} \subseteq DOMAIN e
      BY <1>2
    <2>2. e.bal \in Amounts /\ e.code \in DOMAIN Programs
      BY <1>2
    <2> QED BY ONLY <2>1, <2>2, <1>3, <1>4, <1>5, ProgramStep
  <1> QED BY <1>6 DEF Neutral, o, k

(* What a call has set aside to pay out. *)
Out(box) == SumFunction([i \in DOMAIN box.out |-> box.out[i][2]])

(* The sandbox of a call: what it may still spend and what it has set      *)
(* aside come to what it was given.                                        *)
Keeps(box, names, given) ==
    /\ DOMAIN box = {"bal", "store", "out", "gas", "trapped"}
    /\ box.bal \in Amounts
    /\ box.out \in Seq(names \X Nat)
    /\ box.bal + Out(box) = given

Filled(box, names) == "out" \in DOMAIN box /\ box.out \in Seq(names \X Nat)

(* A payment set aside leaves the sandbox. *)
LEMMA OutGrows ==
    ASSUME NEW names, NEW box, Filled(box, names),
           NEW to \in names, NEW x \in Nat, NEW b, "out" \in DOMAIN b,
           b.out = Append(box.out, <<to, x>>)
    PROVE  /\ Filled(b, names) /\ Out(box) \in Int /\ Out(b) = Out(box) + x
  <1> DEFINE f == [i \in DOMAIN box.out |-> box.out[i][2]]
             g == [i \in DOMAIN b.out |-> b.out[i][2]]
             k == Len(box.out) + 1
  <1>1. /\ b.out \in Seq(names \X Nat) /\ DOMAIN b.out = DOMAIN box.out \cup {k}
        /\ DOMAIN box.out = 1..Len(box.out) /\ Len(box.out) \in Nat /\ k \notin DOMAIN box.out
        /\ b.out[k] = <<to, x>> /\ \A i \in DOMAIN box.out : b.out[i] = box.out[i]
    BY DEF Filled
  <1>2. DOMAIN f = 1..Len(box.out) /\ DOMAIN g = DOMAIN f \cup {k} /\ k \notin DOMAIN f
    BY <1>1
  <1>3. /\ \A i \in DOMAIN f : f[i] \in Int
        /\ g[k] = x /\ x \in Int /\ \A i \in DOMAIN f \ {k} : g[i] = f[i]
    <2>1. \A i \in DOMAIN box.out : box.out[i] \in names \X Nat
      BY DEF Filled
    <2> QED BY <1>1, <1>2, <2>1
  <1>4. IsFiniteSet(DOMAIN f)
    <2> DEFINE m == Len(box.out)
    <2>1. 1 \in Int /\ m \in Int /\ DOMAIN f = 1..m
      BY <1>1, <1>2
    <2> HIDE DEF m, f
    <2>2. IsFiniteSet(1..m)
      BY <2>1, FS_Interval
    <2> QED BY <2>1, <2>2
  <1>5. Out(box) = SumFunction(f) /\ Out(b) = SumFunction(g)
    BY DEF Out
  <1> HIDE DEF f, g, k
  <1>6. /\ SumFunction(f) \in Int /\ SumFunction(g) \in Int
        /\ SumFunction(g) = SumFunction(f) - (IF k \in DOMAIN f THEN f[k] ELSE 0) + g[k]
    <2>1. g[k] \in Int /\ \A i \in DOMAIN f : f[i] \in Int
      BY <1>3
    <2>2. \A i \in DOMAIN f \ {k} : g[i] = f[i]
      BY <1>3
    <2> QED BY ONLY ZenonT(40), <1>2, <1>4, <2>1, <2>2, SumPut
  <1> QED BY <1>1, <1>2, <1>3, <1>5, <1>6 DEF Filled

(* The balance of a sandbox, signed, is never more than it is. *)
LEMMA SignedBound ==
    ASSUME NEW x \in Amounts
    PROVE  Signed(x) \in Int /\ Signed(x) <= x
  <1>1. x \in Int /\ Word \in Int /\ 0 < Word
    BY WordType
  <1> QED BY <1>1 DEF Signed

(* No host call makes money. *)
LEMMA HostCallStep ==
    ASSUME NEW names, NEW given, NEW box, Keeps(box, names, given), NEW op,
           \/ op[1] \in {"charge", "trap", "write", "expect"}
           \/ op[1] = "transfer" /\ op[2] \in names /\ op[3] \in Int
    PROVE  Keeps(HostCall(box, op), names, given)
  <1> DEFINE b == HostCall(box, op)
  <1>1. CASE box.trapped
    BY <1>1 DEF HostCall
  <1>2. CASE ~box.trapped /\ op[1] \in {"charge", "trap", "write", "expect"}
    <2>1. DOMAIN b = DOMAIN box /\ b.bal = box.bal /\ b.out = box.out
      BY <1>2 DEF HostCall, Keeps
    <2> HIDE DEF b
    <2>2. Out(b) = Out(box)
      BY <2>1 DEF Out
    <2> QED BY <2>1, <2>2 DEF Keeps, b
  <1>3. CASE ~box.trapped /\ op[1] = "transfer"
    <2> DEFINE to == op[2]
               x == op[3]
    <2>1. b = Transfer(box, to, x)
      BY <1>3 DEF HostCall
    <2>2. to \in names /\ x \in Int
      BY <1>3
    <2> HIDE DEF b, to, x
    <2>3. CASE x < 0 \/ x > Signed(box.bal)
      BY <2>1, <2>3 DEF Transfer, b
    <2>4. CASE ~(x < 0 \/ x > Signed(box.bal))
      <3>1. /\ DOMAIN b = DOMAIN box /\ b.bal = box.bal - x
            /\ b.out = Append(box.out, <<to, x>>)
        BY <2>1, <2>4 DEF Transfer, Keeps
      <3>2. box.bal \in Amounts /\ box.bal \in Int /\ box.bal < Word /\ Word \in Int
        BY WordType DEF Keeps
      <3>3. x \in Nat /\ x <= box.bal
        BY <2>2, <2>4, <3>2, SignedBound
      <3>4. b.bal \in Amounts
        BY <3>1, <3>2, <3>3 DEF Amounts
      <3>5. Filled(b, names) /\ Out(box) \in Int /\ Out(b) = Out(box) + x
        <4>1. Filled(box, names)
          BY DEF Keeps, Filled
        <4>2. "out" \in DOMAIN b /\ b.out = Append(box.out, <<to, x>>)
          BY <3>1 DEF Keeps
        <4> QED BY ONLY <2>2, <3>3, <4>1, <4>2, OutGrows
      <3>6. b.bal + Out(b) = box.bal + Out(box)
        BY <3>1, <3>2, <3>3, <3>5
      <3> QED BY <3>1, <3>4, <3>5, <3>6 DEF Keeps, Filled, b
    <2> QED BY <2>3, <2>4 DEF b
  <1> QED BY <1>1, <1>2, <1>3

(* The host calls of one exported function, one after the other. *)
HostStep(c, d, box, op) == HostCall(box, op)

Hosting == INSTANCE Folding WITH Step <- HostStep

(* A call that does not trap. *)
LEMMA RunStep ==
    ASSUME NEW code \in DOMAIN Programs, NEW fn, NEW box, "trapped" \in DOMAIN box,
           NEW given, \A names : Keeps(box, names, given), ~Run(box, code, fn).trapped
    PROVE  \E names : Keeps(Run(box, code, fn), names, given)
  <1> DEFINE ops == Programs[code].fns[fn]
             first == <<"charge">>
             seq == <<first>> \o ops
             n == Len(seq)
             o == Run(box, code, fn)
             names == {op[2] : op \in Range(ops)}
  <1>1. fn \in DOMAIN Programs[code].fns
    BY DEF Run
  <1>2. /\ ops \in Seq(Range(ops))
        /\ \A i \in DOMAIN ops : \/ ops[i][1] \in {"charge", "trap", "write", "expect"}
                                 \/ ops[i][1] = "transfer" /\ ops[i][3] \in Int
    BY <1>1, ProgramsCallTheHost
  <1>3. o = Hosting!Fold(0, 0, box, seq)
    BY ZenonT(40), <1>1 DEF Run, Hosting!Fold, FoldLeft, Hosting!FoldLeft, MapThenFoldSet,
           Hosting!MapThenFoldSet, Max, Hosting!Max, HostStep
  <1> HIDE DEF ops, o
  <1>4. first[1] = "charge" /\ \A i \in DOMAIN ops : ops[i][2] \in names
    BY DEF Range
  <1> HIDE DEF names, first
  <1>5. /\ n \in Nat /\ DOMAIN seq = 1..n /\ n = Len(ops) + 1 /\ DOMAIN ops = 1..Len(ops)
        /\ Len(ops) \in Nat
        /\ \A k \in 1..n : seq[k] = IF k = 1 THEN first ELSE ops[k - 1]
    <2> DEFINE R == Range(ops)
               r == R \cup {first}
    <2>1. ops \in Seq(r) /\ <<first>> \in Seq(r)
      BY <1>2
    <2> HIDE DEF R, r
    <2> QED BY <2>1
  <1> HIDE DEF seq, n
  <1>6. ASSUME NEW k \in 1..n
        PROVE  \/ seq[k][1] \in {"charge", "trap", "write", "expect"}
               \/ seq[k][1] = "transfer" /\ seq[k][2] \in names /\ seq[k][3] \in Int
    <2>1. CASE k = 1
      BY <1>4, <1>5, <2>1
    <2>2. CASE k # 1
      <3>1. k - 1 \in DOMAIN ops /\ seq[k] = ops[k - 1]
        BY <1>5, <2>2
      <3> QED BY <1>2, <1>4, <3>1
    <2> QED BY <2>1, <2>2
  <1>7. PICK f : /\ f[0] = box
                 /\ \A k \in 1..n : f[k] = HostStep(0, 0, f[k - 1], seq[k])
                 /\ f[n] = Hosting!Fold(0, 0, box, seq)
    <2>1. Hosting!Traced(0, 0, box, n, seq)
      BY <1>5, Hosting!FoldTrace
    <2> QED BY <2>1 DEF Hosting!Traced
  <1> DEFINE T == {k \in Nat : Keeps(f[k], names, given)}
  <1>8. 0 \in T
    BY <1>7
  <1>9. ASSUME NEW k \in 1..n, k - 1 \in T PROVE k \in T
    <2>1. f[k] = HostCall(f[k - 1], seq[k]) /\ k \in Nat
      BY <1>7 DEF HostStep
    <2>2. Keeps(f[k - 1], names, given)
      BY <1>9
    <2>3. Keeps(f[k], names, given)
      BY <1>6, <2>1, <2>2, HostCallStep
    <2> QED BY <2>1, <2>3
  <1> HIDE DEF T
  <1>10. \A k \in 0..n : k \in T
    BY <1>5, <1>8, <1>9, Positions
  <1>11. n \in T
    BY <1>5, <1>10
  <1> QED BY <1>3, <1>7, <1>11 DEF T, o

(* What a call pays out, once it has ended well. *)
PayOne(c, d, t, p) == IF p[2] > 0 THEN Credit(t, p[1], Native, p[2]) ELSE t

Paying == INSTANCE Folding WITH Step <- PayOne

(* What a program paid out, one transfer after the other. *)
LEMMA PayoutsStep ==
    ASSUME NEW s, Shape(s), NEW names, NEW box, Filled(box, names)
    PROVE  LET o == Paying!Fold(0, 0, s, box.out)
           IN  Shape(o) /\ Pays(s, o) /\ Moves(s, o, Native, Out(box)) /\ Out(box) \in Int
  <1> DEFINE out == box.out
             n == Len(out)
             x == [k \in DOMAIN out |-> out[k][2]]
             o == Paying!Fold(0, 0, s, out)
  <1>1. n \in Nat /\ DOMAIN out = 1..n /\ \A k \in 1..n : out[k] \in names \X Nat
    BY DEF Filled
  <1>2. \A k \in 1..n : x[k] = out[k][2] /\ out[k][2] \in Nat /\ x[k] \in Int
    BY <1>1
  <1>3. Out(box) = SumFunctionOnSet(x, 1..n)
    BY <1>1 DEF Out, SumFunction
  <1> HIDE DEF x, n, o, out
  <1>4. PICK f : /\ f[0] = s
                 /\ \A k \in 1..n : f[k] = PayOne(0, 0, f[k - 1], out[k])
                 /\ f[n] = Paying!Fold(0, 0, s, out)
    <2>1. Paying!Traced(0, 0, s, n, out)
      BY <1>1, Paying!FoldTrace
    <2> QED BY <2>1 DEF Paying!Traced
  <1>5. ASSUME NEW k \in 1..n, Shape(f[k - 1])
        PROVE  /\ Shape(f[k]) /\ Moves(f[k - 1], f[k], Native, x[k])
               /\ Pays(f[k - 1], f[k])
    <2> DEFINE t == f[k - 1]
               a == out[k][1]
               y == out[k][2]
               r == Credit(t, a, Native, y)
    <2>1. f[k] = IF y > 0 THEN r ELSE t
      BY <1>4 DEF PayOne
    <2>2. x[k] = y /\ y \in Int /\ y \in Nat
      BY <1>2
    <2> HIDE DEF t, a, y, r
    <2>3. Shape(t)
      BY <1>5 DEF t
    <2>4. CASE y > 0
      <3>1. Shape(r) /\ Pays(t, r) /\ Moves(t, r, Native, y)
        BY <2>2, <2>3, NativeCurrency, CreditStep DEF r
      <3> QED BY <2>1, <2>2, <2>4, <3>1 DEF t
    <2>5. CASE ~(y > 0)
      <3>1. y = 0 /\ f[k] = t
        BY <2>1, <2>2, <2>5
      <3>2. Moves(t, t, Native, 0)
        BY <2>3, NoMove
      <3>3. Pays(t, t)
        BY DEF Pays, SameBut
      <3> QED BY <2>2, <2>3, <3>1, <3>2, <3>3 DEF t
    <2> QED BY <2>4, <2>5
  <1>6. Shape(f[0]) /\ \A k \in 1..n : x[k] \in Int
    BY <1>2, <1>4
  <1>7. /\ Shape(f[n]) /\ SumFunctionOnSet(x, 1..n) \in Int
        /\ Moves(f[0], f[n], Native, SumFunctionOnSet(x, 1..n))
    BY <1>1, <1>5, <1>6, TraceMoves
  <1>8. Pays(f[0], f[n])
    <2> DEFINE T == {k \in Nat : Shape(f[k]) /\ Pays(f[0], f[k])}
    <2>1. 0 \in T
      BY <1>6 DEF Pays, SameBut
    <2>2. ASSUME NEW k \in 1..n, k - 1 \in T PROVE k \in T
      <3>1. Shape(f[k - 1]) /\ Pays(f[0], f[k - 1]) /\ k \in Nat
        BY <2>2
      <3>2. Shape(f[k]) /\ Pays(f[k - 1], f[k])
        BY <1>5, <3>1
      <3>3. Pays(f[0], f[k])
        BY <3>1, <3>2, PaysThenPays
      <3> QED BY <3>1, <3>2, <3>3
    <2> HIDE DEF T
    <2>3. \A k \in 0..n : k \in T
      BY <1>1, <2>1, <2>2, Positions
    <2>4. n \in T
      BY <1>1, <2>3
    <2> QED BY <2>4 DEF T
  <1>9. Shape(o) /\ Pays(s, o) /\ Moves(s, o, Native, Out(box)) /\ Out(box) \in Int
    BY <1>3, <1>4, <1>7, <1>8 DEF o
  <1> QED BY <1>9 DEF o, out

(* wasm_call: the program holds what it was given less what it paid. *)
LEMMA CallStep ==
    ASSUME NEW s, Shape(s), NEW tx, Decoded(tx), tx.from \in DOMAIN s.acc,
           tx.id \in DOMAIN s.wasm
    PROVE  LET o == Call(s, tx)
           IN  Neutral(s, o) /\ SameStakes(s, o) /\ Loads(s, o, tx.id)
  <1> DEFINE id == tx.id
             wc == s.wasm[id]
             given == Plus(wc.bal, tx.amount)
             new == NewSandbox(wc, tx.amount, GasLimit(tx))
             box == Run(new, wc.code, tx.action)
             d == Debit(s, tx.from, Native, tx.amount)
             paid == Paying!Fold(0, 0, d, box.out)
             o == Call(s, tx)
             e == [wc EXCEPT !.store = box.store, !.bal = box.bal, !.calls = wc.calls + 1]
             a == tx.amount
  <1>1. CASE box.trapped
    <2>1. o = s
      BY SMTT(40), <1>1 DEF Call
    <2>2. Neutral(s, s)
      BY SettlesItself DEF Settles
    <2> QED BY <2>1, <2>2 DEF SameStakes, Loads
  <1>2. CASE ~box.trapped
    <2>1. /\ {"code", "store", "bal", "calls"} \subseteq DOMAIN wc
          /\ wc.bal \in Amounts /\ wc.code \in DOMAIN Programs
      BY DEF Shape, WasmOK
    <2>2. a \in Int /\ wc.bal \in Int
      BY <2>1, WordType DEF Decoded
    <2>3. given \in Amounts /\ Same(given, wc.bal + a)
      BY <2>2, PlusWord
    <2>4. "trapped" \in DOMAIN new /\ \A names : Keeps(new, names, given)
      <3>1. DOMAIN new = {"bal", "store", "out", "gas", "trapped"} /\ new.bal = given
            /\ new.out = <<>>
        BY DEF NewSandbox
      <3>2. Out(new) = 0
        <4> DEFINE f == [i \in DOMAIN new.out |-> new.out[i][2]]
        <4>1. DOMAIN f = {}
          BY <3>1
        <4> HIDE DEF f
        <4>2. SumFunction(f) = 0
          BY <4>1, SumOfNone DEF SumFunction
        <4> QED BY SMTT(40), <4>2 DEF f, Out
      <3>3. given + 0 = given
        BY <2>3, WordType
      <3> HIDE DEF new, given
      <3> QED BY <2>3, <3>1, <3>2, <3>3 DEF Keeps
    <2>5. o = [paid EXCEPT !.wasm[id].store = box.store, !.wasm[id].bal = box.bal,
                           !.wasm[id].calls = @ + 1]
      BY ZenonT(40), <1>2 DEF Call, Paying!Fold, FoldLeft, Paying!FoldLeft, MapThenFoldSet,
             Paying!MapThenFoldSet, Max, Paying!Max, PayOne
    <2> HIDE DEF new, given
    <2>6. PICK names : Keeps(box, names, given)
      BY <1>2, <2>1, <2>4, RunStep
    <2>7. Filled(box, names) /\ box.bal \in Amounts /\ box.bal + Out(box) = given
      BY <2>6 DEF Keeps, Filled
    <2>8. Shape(d) /\ Pays(s, d) /\ Moves(s, d, Native, -a)
      BY <2>2, NativeCurrency, DebitStep
    <2> HIDE DEF d, box
    <2>9. Shape(paid) /\ Pays(d, paid) /\ Moves(d, paid, Native, Out(box)) /\ Out(box) \in Int
      BY <2>7, <2>8, PayoutsStep
    <2>10. Pays(s, paid)
      BY <2>8, <2>9, PaysThenPays
    <2> HIDE DEF paid
    <2>11. /\ Present(s, paid) /\ SameStakes(s, paid) /\ paid.ctr = s.ctr /\ paid.wasm = s.wasm
           /\ DOMAIN paid = Fields
      BY <2>9, <2>10, PaysPresent DEF Shape
    <2>12. o = [paid EXCEPT !.wasm = Put(paid.wasm, id, e)]
      <3> DEFINE bs == box.store
                 bb == box.bal
      <3>1. o = [paid EXCEPT !.wasm[id].store = bs, !.wasm[id].bal = bb,
                             !.wasm[id].calls = @ + 1]
        BY <2>5
      <3>2. e = [wc EXCEPT !.store = bs, !.bal = bb, !.calls = wc.calls + 1]
        OBVIOUS
      <3>3. \A r : Put(s.wasm, id, r) = [s.wasm EXCEPT ![id] = r]
        BY DEF Put
      <3>4. "wasm" \in DOMAIN paid
        BY <2>11 DEF Fields
      <3>5. paid.wasm[id] = wc
        BY <2>11
      <3> HIDE DEF o, e, bs, bb, wc
      <3>6. o = [paid EXCEPT !.wasm = [s.wasm EXCEPT ![id] = e]]
        BY <2>1, <2>11, <3>1, <3>2, <3>4, <3>5
      <3> QED BY <2>11, <3>3, <3>6
    <2> DEFINE z == a - Out(box)
               u == -a
    <2>13. /\ {"code", "store", "bal", "calls"} \subseteq DOMAIN e
           /\ e.bal = box.bal /\ e.code = wc.code
      BY <2>1
    <2>14. z \in Int /\ u \in Int /\ (u + Out(box)) + z = 0 /\ u + Out(box) \in Int
      BY <2>2, <2>9
    <2>15. Moves(s, paid, Native, u + Out(box))
      <3> HIDE DEF u
      <3>1. Moves(s, d, Native, u)
        BY <2>8 DEF u
      <3> QED BY <2>8, <2>9, <2>14, <3>1, NativeCurrency, MovesThenMoves
    <2>16. Same(e.bal, wc.bal + z)
      <3> DEFINE x == Out(box)
                 g == box.bal
                 b == wc.bal
      <3>1. x \in Int /\ g \in Int /\ b \in Int /\ given \in Int /\ g + x = given
        BY <2>2, <2>3, <2>7, <2>9, WordType
      <3>2. Same(given - x, (b + a) - x)
        <4>1. Same(x, x) /\ b + a \in Int
          BY <2>2, <3>1 DEF Same, Congruent
        <4> HIDE DEF x, b
        <4> QED BY <2>3, <3>1, <4>1, SameDifference DEF b
      <3> HIDE DEF x, g, b
      <3>3. given - x = g /\ (b + a) - x = b + (a - x)
        BY <2>2, <3>1
      <3>4. Same(g, b + (a - x))
        BY <3>2, <3>3, Zenon
      <3> QED BY <2>13, <3>4 DEF x, g, b
    <2> HIDE DEF o, e, z, u, wc
    <2>17. Same(e.bal, (IF id \in DOMAIN paid.wasm THEN paid.wasm[id].bal ELSE 0) + z)
      BY <2>11, <2>16 DEF wc
    <2>18. e.bal \in Amounts /\ e.code \in DOMAIN Programs
      BY <2>1, <2>7, <2>13
    <2>19. /\ Shape(o) /\ Moves(paid, o, Native, z) /\ Present(paid, o) /\ SameStakes(paid, o)
           /\ Loads(paid, o, id)
      <3>1. {"code", "store", "bal", "calls"} \subseteq DOMAIN e /\ Shape(paid) /\ z \in Int
        BY <2>9, <2>13, <2>14
      <3> QED BY ONLY <3>1, <2>12, <2>17, <2>18, ProgramStep
    <2>20. Moves(s, o, Native, 0)
      BY <2>9, <2>14, <2>15, <2>19, NativeCurrency, MovesBack
    <2>21. Present(s, o) /\ SameStakes(s, o) /\ Loads(s, o, id)
      BY <2>11, <2>19 DEF Present, SameStakes, Loads
    <2> QED BY <2>19, <2>20, <2>21 DEF Neutral, o
  <1> QED BY <1>1, <1>2
===============================================================================
