----------------------------- MODULE GossipProofs -----------------------------
(***************************************************************************)
(* Nodes stay within their limits and the chain takes the transactions of  *)
(* every account in the order of their nonces: for any nodes, connections, *)
(* transactions, bounds and number of crashes.  No transfer of the faucet  *)
(* waits for a nonce that nobody holds, in a tree of connections, and in   *)
(* any network as long as the node of the faucet does not crash.           *)
(***************************************************************************)
EXTENDS Gossip, SequenceTheorems, FiniteSetTheorems, WellFoundedInduction, TLAPS

Executing == INSTANCE Folding WITH Step <- LAMBDA c, d, s, x : Keep(c, s, x)

-----------------------------------------------------------------------------
(***************************************************************************)
(* Sequences of transactions.                                              *)
(***************************************************************************)
(* The transactions of an account among the first n. *)
CountTo(s, n, a) == Cardinality({j \in 1..n : s[j].from = a})

Count(s, a) == CountTo(s, Len(s), a)

(* Every account continues its nonces from a base. *)
InOrder(s, base) ==
    \A i \in 1..Len(s) : s[i].nonce = base[s[i].from] + CountTo(s, i - 1, s[i].from)

(* One more transaction counts for its sender. *)
LEMMA Counting ==
    ASSUME NEW s, NEW n \in Nat, NEW a
    PROVE  /\ CountTo(s, n, a) \in Nat
           /\ CountTo(s, 0, a) = 0
           /\ s[n + 1].from = a => CountTo(s, n + 1, a) = CountTo(s, n, a) + 1
           /\ s[n + 1].from # a => CountTo(s, n + 1, a) = CountTo(s, n, a)
  <1> DEFINE S(k) == {j \in 1..k : s[j].from = a}
  <1>1. IsFiniteSet(1..n)
    BY FS_Interval
  <1>2. IsFiniteSet(S(n)) /\ Cardinality(S(n)) \in Nat
    BY <1>1, FS_Subset, FS_CardinalityType
  <1>3. S(0) = {}
    OBVIOUS
  <1>4. S(n + 1) = IF s[n + 1].from = a THEN S(n) \cup {n + 1} ELSE S(n)
    OBVIOUS
  <1>5. n + 1 \notin S(n)
    OBVIOUS
  <1> HIDE DEF S
  <1>6. Cardinality(S(n) \cup {n + 1}) = Cardinality(S(n)) + 1
    BY <1>2, <1>5, FS_AddElement
  <1>7. Cardinality(S(0)) = 0
    BY <1>3, FS_EmptySet
  <1> QED BY <1>2, <1>4, <1>6, <1>7 DEF CountTo, S

(* The count of the first ones is that of any sequence that begins alike.  *)
LEMMA CountAlike ==
    ASSUME NEW s, NEW t, NEW n \in Nat, NEW a, \A j \in 1..n : s[j] = t[j]
    PROVE  CountTo(s, n, a) = CountTo(t, n, a)
  <1>1. {j \in 1..n : s[j].from = a} = {j \in 1..n : t[j].from = a}
    OBVIOUS
  <1> QED BY <1>1 DEF CountTo

(* Two sequences in a row. *)
LEMMA CountConcat ==
    ASSUME NEW X, NEW s \in Seq(X), NEW t \in Seq(X), NEW a, NEW n \in 0..Len(t)
    PROVE  CountTo(s \o t, Len(s) + n, a) = Count(s, a) + CountTo(t, n, a)
  <1> DEFINE u == s \o t
             T == {k \in Nat : k <= Len(t) => CountTo(u, Len(s) + k, a) = Count(s, a) + CountTo(t, k, a)}
  <1>1. /\ Len(s) \in Nat /\ Len(t) \in Nat
        /\ \A j \in 1..Len(s) : u[j] = s[j]
        /\ \A j \in 1..Len(t) : u[Len(s) + j] = t[j]
    BY ConcatProperties
  <1> HIDE DEF u
  <1>2. CountTo(u, Len(s), a) = CountTo(s, Len(s), a) /\ CountTo(s, Len(s), a) \in Nat
    <2>1. CountTo(u, Len(s), a) = CountTo(s, Len(s), a)
      <3>1. Len(s) \in Nat /\ \A j \in 1..Len(s) : u[j] = s[j]
        BY <1>1
      <3> QED BY <3>1, CountAlike, ZenonT(40)
    <2>2. CountTo(s, Len(s), a) \in Nat
      BY <1>1, Counting
    <2> QED BY <2>1, <2>2
  <1>3. 0 \in T
    BY <1>1, <1>2, Counting DEF Count
  <1>4. ASSUME NEW k \in T PROVE k + 1 \in T
    <2>1. k \in Nat
      OBVIOUS
    <2>2. SUFFICES ASSUME k + 1 <= Len(t)
                   PROVE  CountTo(u, Len(s) + (k + 1), a) = Count(s, a) + CountTo(t, k + 1, a)
      BY <2>1
    <2>3. CountTo(u, Len(s) + k, a) = Count(s, a) + CountTo(t, k, a)
      BY <1>1, <2>1, <2>2
    <2>4. u[(Len(s) + k) + 1] = t[k + 1]
      <3>1. (Len(s) + k) + 1 = Len(s) + (k + 1) /\ k + 1 \in 1..Len(t)
        BY <1>1, <2>1, <2>2
      <3> QED BY <1>1, <3>1
    <2> DEFINE m == Len(s) + k
    <2>5. m \in Nat
      BY <1>1, <2>1
    <2>6. m + 1 = Len(s) + (k + 1) /\ u[m + 1] = t[k + 1] /\ CountTo(u, m, a) = Count(s, a) + CountTo(t, k, a)
      BY <1>1, <2>1, <2>3, <2>4
    <2> HIDE DEF m
    <2>7. /\ u[m + 1].from = a => CountTo(u, m + 1, a) = CountTo(u, m, a) + 1
          /\ u[m + 1].from # a => CountTo(u, m + 1, a) = CountTo(u, m, a)
      BY <2>5, Counting
    <2>8. /\ t[k + 1].from = a => CountTo(t, k + 1, a) = CountTo(t, k, a) + 1
          /\ t[k + 1].from # a => CountTo(t, k + 1, a) = CountTo(t, k, a)
          /\ CountTo(t, k, a) \in Nat
      BY <2>1, Counting
    <2>9. Count(s, a) \in Nat
      BY <1>2 DEF Count
    <2> QED BY <2>6, <2>7, <2>8, <2>9
  <1>5. T = Nat
    <2>1. T \subseteq Nat
      OBVIOUS
    <2> HIDE DEF T
    <2> QED BY <1>3, <1>4, <2>1, Executing!NaturalSet
  <1>6. n \in T
    BY <1>5
  <1> QED BY <1>6, <1>1 DEF u

(* What continues a sequence in order leaves it in order. *)
LEMMA OrderConcat ==
    ASSUME NEW X, NEW s \in Seq(X), NEW t \in Seq(X), NEW base,
           InOrder(s, base),
           \A i \in 1..Len(t) :
              t[i].nonce = base[t[i].from] + (Count(s, t[i].from) + CountTo(t, i - 1, t[i].from))
    PROVE  InOrder(s \o t, base)
  <1> DEFINE u == s \o t
  <1>1. /\ Len(s) \in Nat /\ Len(t) \in Nat /\ Len(u) = Len(s) + Len(t)
        /\ \A j \in 1..Len(s) : u[j] = s[j]
        /\ \A j \in 1..Len(t) : u[Len(s) + j] = t[j]
    BY ConcatProperties
  <1>2. ASSUME NEW i \in 1..Len(u)
        PROVE  u[i].nonce = base[u[i].from] + CountTo(u, i - 1, u[i].from)
    <2>1. CASE i <= Len(s)
      <3>1. i \in 1..Len(s) /\ i - 1 \in Nat /\ \A j \in 1..(i - 1) : j \in 1..Len(s)
        BY <1>1, <2>1
      <3>2. CountTo(u, i - 1, u[i].from) = CountTo(s, i - 1, s[i].from)
        <4> HIDE DEF u
        <4> QED BY <1>1, <3>1, CountAlike
      <3>3. s[i].nonce = base[s[i].from] + CountTo(s, i - 1, s[i].from)
        BY <3>1 DEF InOrder
      <3> HIDE DEF u
      <3> QED BY <1>1, <3>1, <3>2, <3>3
    <2>2. CASE i > Len(s)
      <3> DEFINE k == i - Len(s)
      <3>1. k \in 1..Len(t) /\ k - 1 \in 0..Len(t) /\ i = Len(s) + k
            /\ i - 1 = Len(s) + (k - 1)
        BY <1>1, <2>2
      <3>2. u[i] = t[k]
        BY <1>1, <3>1
      <3>3. CountTo(u, Len(s) + (k - 1), t[k].from) = Count(s, t[k].from) + CountTo(t, k - 1, t[k].from)
        BY <3>1, CountConcat
      <3>4. t[k].nonce = base[t[k].from] + (Count(s, t[k].from) + CountTo(t, k - 1, t[k].from))
        BY <3>1
      <3> HIDE DEF u, k
      <3> QED BY <3>1, <3>2, <3>3, <3>4
    <2> QED BY <1>1, <2>1, <2>2
  <1> HIDE DEF u
  <1>3. InOrder(u, base)
    BY <1>2 DEF InOrder
  <1> QED BY <1>3 DEF u

-----------------------------------------------------------------------------
(* FlattenSeq, one sequence after the other. *)
Flattens(f, ss) == f[0] = <<>> /\ \A k \in 1..Len(ss) : f[k] = f[k - 1] \o ss[k]

(* The equation in its definition has a solution. *)
LEMMA FlattenEquation ==
    ASSUME NEW n \in Nat, NEW ss
    PROVE  \E g : g = [i \in 1..n |-> IF i = 1 THEN ss[i] ELSE g[i - 1] \o ss[i]]
  <1> DEFINE Value(h, i) == IF i = 1 THEN ss[i] ELSE h[i - 1] \o ss[i]
             UpTo(h, k) == \A i \in 1..n : i <= k => h[i] = Value(h, i)
             T == {k \in Nat : \E h : UpTo(h, k)}
  <1>1. 0 \in T
    <2>1. UpTo(<<>>, 0)
      OBVIOUS
    <2> QED BY <2>1
  <1>2. ASSUME NEW k \in T PROVE k + 1 \in T
    <2>1. k \in Nat /\ \E h : UpTo(h, k)
      OBVIOUS
    <2>2. PICK h : UpTo(h, k)
      BY <2>1
    <2> DEFINE e == [i \in 1..n |-> IF i = k + 1 THEN Value(h, i) ELSE h[i]]
    <2>3. ASSUME NEW i \in 1..n, i <= k + 1 PROVE e[i] = Value(e, i)
      <3>1. e[i] = Value(h, i)
        BY <2>1, <2>2, <2>3
      <3>2. i # 1 => i - 1 \in 1..n /\ i - 1 # k + 1
        BY <2>1, <2>3
      <3>3. i # 1 => e[i - 1] = h[i - 1]
        BY <3>2
      <3> QED BY <3>1, <3>3
    <2>4. UpTo(e, k + 1)
      BY <2>3
    <2>5. \E q : UpTo(q, k + 1)
      <3> HIDE DEF UpTo, e
      <3> QED BY <2>4
    <2> HIDE DEF UpTo
    <2> QED BY <2>1, <2>5
  <1>3. T = Nat
    <2>1. T \subseteq Nat
      OBVIOUS
    <2> HIDE DEF T
    <2> QED BY <1>1, <1>2, <2>1, Executing!NaturalSet
  <1>4. PICK h : UpTo(h, n)
    BY <1>3
  <1> DEFINE g == [i \in 1..n |-> h[i]]
  <1>5. ASSUME NEW i \in 1..n PROVE g[i] = Value(g, i)
    <2>1. g[i] = Value(h, i)
      BY <1>4
    <2>2. i # 1 => g[i - 1] = h[i - 1]
      OBVIOUS
    <2> QED BY <2>1, <2>2
  <1>6. g = [i \in 1..n |-> Value(g, i)]
    BY <1>5
  <1> QED BY <1>6

(* What it has reached after each of its sequences. *)
LEMMA FlattenTrace ==
    ASSUME NEW X, NEW ss \in Seq(Seq(X))
    PROVE  \E f : Flattens(f, ss) /\ FlattenSeq(ss) = f[Len(ss)]
  <1> DEFINE n == Len(ss)
             iter == CHOOSE g : g = [i \in 1..n |-> IF i = 1 THEN ss[i] ELSE g[i - 1] \o ss[i]]
             f == [k \in 0..n |-> IF k = 0 THEN <<>> ELSE iter[k]]
  <1>1. n \in Nat /\ \A i \in 1..n : ss[i] \in Seq(X)
    OBVIOUS
  <1>2. iter = [i \in 1..n |-> IF i = 1 THEN ss[i] ELSE iter[i - 1] \o ss[i]]
    BY ZenonT(40), <1>1, FlattenEquation
  <1>3. FlattenSeq(ss) = IF n = 0 THEN ss ELSE iter[n]
    BY DEF FlattenSeq
  <1> HIDE DEF iter
  <1>4. n = 0 => ss = <<>>
    BY EmptySeq
  <1> HIDE DEF n
  <1>5. ASSUME NEW k \in 1..n PROVE f[k] = f[k - 1] \o ss[k]
    <2>1. f[k] = IF k = 1 THEN ss[k] ELSE iter[k - 1] \o ss[k]
      <3>1. k \in 0..n /\ k # 0
        BY <1>1
      <3>2. f[k] = iter[k]
        BY <3>1
      <3> HIDE DEF f
      <3> QED BY <1>2, <3>2
    <2>2. CASE k = 1
      <3>1. f[k - 1] = <<>> /\ ss[k] \in Seq(X)
        BY <1>1, <2>2
      <3>2. <<>> \o ss[k] = ss[k]
        BY <3>1, ConcatEmptySeq
      <3> HIDE DEF f
      <3> QED BY <2>1, <2>2, <3>1, <3>2
    <2>3. CASE k # 1
      <3>1. k - 1 \in 0..n /\ k - 1 # 0
        BY <1>1, <2>3
      <3>2. f[k - 1] = iter[k - 1]
        BY <3>1
      <3> HIDE DEF f
      <3> QED BY <2>1, <2>3, <3>2
    <2> QED BY <2>2, <2>3
  <1>6. f[0] = <<>> /\ f[n] = IF n = 0 THEN <<>> ELSE iter[n]
    BY <1>1
  <1> HIDE DEF f
  <1>7. Flattens(f, ss)
    BY <1>5, <1>6 DEF Flattens, n
  <1>8. FlattenSeq(ss) = f[n]
    BY <1>3, <1>4, <1>6
  <1> QED BY <1>7, <1>8 DEF n

(* Two traces agree. *)
LEMMA TracesAgree ==
    ASSUME NEW f, NEW g, NEW ss, NEW n \in Nat, n = Len(ss), Flattens(f, ss), Flattens(g, ss)
    PROVE  f[n] = g[n]
  <1> DEFINE T == {k \in Nat : k <= n => f[k] = g[k]}
  <1>1. 0 \in T
    BY DEF Flattens
  <1>2. ASSUME NEW k \in T PROVE k + 1 \in T
    <2>1. CASE k + 1 <= n
      <3>1. k + 1 \in 1..n /\ (k + 1) - 1 = k /\ f[k] = g[k]
        BY <2>1
      <3>2. f[k + 1] = f[k] \o ss[k + 1] /\ g[k + 1] = g[k] \o ss[k + 1]
        BY <3>1 DEF Flattens
      <3>3. f[k + 1] = g[k + 1]
        BY <3>1, <3>2
      <3>4. k + 1 \in Nat
        BY <3>1
      <3> QED BY <3>3, <3>4
    <2> QED BY <2>1
  <1>3. T = Nat
    <2>1. T \subseteq Nat
      OBVIOUS
    <2> HIDE DEF T
    <2> QED BY <1>1, <1>2, <2>1, Executing!NaturalSet
  <1> QED BY <1>3

(* One more sequence goes to the end. *)
LEMMA FlattenAppend ==
    ASSUME NEW X, NEW ss \in Seq(Seq(X)), NEW s \in Seq(X)
    PROVE  FlattenSeq(Append(ss, s)) = FlattenSeq(ss) \o s
  <1> DEFINE n == Len(ss)
             tt == Append(ss, s)
  <1>1. /\ tt \in Seq(Seq(X)) /\ n \in Nat /\ Len(tt) = n + 1
        /\ \A k \in 1..n : tt[k] = ss[k]
        /\ tt[n + 1] = s
    BY AppendProperties
  <1>2. PICK f : Flattens(f, ss) /\ FlattenSeq(ss) = f[n]
    BY FlattenTrace
  <1>3. PICK g : Flattens(g, tt) /\ FlattenSeq(tt) = g[Len(tt)]
    BY <1>1, FlattenTrace
  <1> HIDE DEF tt
  <1> DEFINE e == [k \in 0..(n + 1) |-> IF k = n + 1 THEN f[n] \o s ELSE f[k]]
  <1>4. Flattens(e, tt)
    <2>1. e[0] = <<>>
      BY <1>1, <1>2 DEF Flattens
    <2>2. ASSUME NEW k \in 1..(n + 1) PROVE e[k] = e[k - 1] \o tt[k]
      <3>1. CASE k = n + 1
        <4>1. e[k - 1] = f[n] /\ e[k] = f[n] \o s
          BY <1>1, <3>1
        <4> QED BY <1>1, <3>1, <4>1
      <3>2. CASE k # n + 1
        <4>1. k \in 1..n /\ k - 1 # n + 1 /\ k - 1 \in 0..(n + 1)
          BY <1>1, <3>2
        <4>2. e[k] = f[k] /\ e[k - 1] = f[k - 1]
          BY <1>1, <4>1
        <4>3. f[k] = f[k - 1] \o ss[k]
          BY <1>2, <4>1 DEF Flattens
        <4> QED BY <1>1, <4>1, <4>2, <4>3
      <3> QED BY <3>1, <3>2
    <2> HIDE DEF e
    <2> QED BY <1>1, <2>1, <2>2 DEF Flattens
  <1>5. e[n + 1] = f[n] \o s
    BY <1>1
  <1> HIDE DEF e
  <1>6. e[n + 1] = g[n + 1]
    <2> DEFINE m == n + 1
    <2>1. m \in Nat /\ m = Len(tt)
      BY <1>1
    <2> HIDE DEF m
    <2>2. e[m] = g[m]
      BY <2>1, <1>3, <1>4, TracesAgree
    <2> QED BY <2>2 DEF m
  <1>7. FlattenSeq(tt) = g[n + 1]
    BY <1>1, <1>3
  <1> QED BY <1>2, <1>5, <1>6, <1>7 DEF tt

(* It is a sequence of what the sequences hold. *)
LEMMA FlattenTyped ==
    ASSUME NEW X, NEW ss \in Seq(Seq(X))
    PROVE  FlattenSeq(ss) \in Seq(X)
  <1> DEFINE n == Len(ss)
  <1>1. PICK f : Flattens(f, ss) /\ FlattenSeq(ss) = f[n]
    BY FlattenTrace
  <1> DEFINE T == {k \in Nat : k <= n => f[k] \in Seq(X)}
  <1>2. 0 \in T
    BY <1>1, EmptySeq DEF Flattens
  <1>3. ASSUME NEW k \in T PROVE k + 1 \in T
    <2>1. CASE k + 1 <= n
      <3>1. k + 1 \in 1..n /\ (k + 1) - 1 = k /\ f[k] \in Seq(X) /\ ss[k + 1] \in Seq(X)
        BY <2>1
      <3>2. f[k + 1] = f[k] \o ss[k + 1]
        BY <1>1, <3>1 DEF Flattens
      <3>3. f[k + 1] \in Seq(X)
        BY <3>1, <3>2, ConcatProperties
      <3> QED BY <3>3
    <2> QED BY <2>1
  <1>4. T = Nat
    <2>1. T \subseteq Nat
      OBVIOUS
    <2> HIDE DEF T
    <2> QED BY <1>2, <1>3, <2>1, Executing!NaturalSet
  <1>5. n \in Nat
    OBVIOUS
  <1> QED BY <1>1, <1>4, <1>5

(* What a sequence of sequences holds is what they hold. *)
LEMMA FlattenRange ==
    ASSUME NEW X, NEW ss \in Seq(Seq(X))
    PROVE  \A x : (\E i \in 1..Len(FlattenSeq(ss)) : FlattenSeq(ss)[i] = x)
                <=> (\E h \in 1..Len(ss) : \E i \in 1..Len(ss[h]) : ss[h][i] = x)
  <1> DEFINE n == Len(ss)
  <1>1. PICK f : Flattens(f, ss) /\ FlattenSeq(ss) = f[n]
    BY FlattenTrace
  <1> DEFINE Has(s, x) == \E i \in 1..Len(s) : s[i] = x
             T == {k \in Nat : k <= n => /\ f[k] \in Seq(X)
                                        /\ \A x : Has(f[k], x) <=> \E h \in 1..k : Has(ss[h], x)}
  <1>2. 0 \in T
    <2>1. f[0] = <<>>
      BY <1>1 DEF Flattens
    <2>2. f[0] \in Seq(X) /\ Len(f[0]) = 0
      BY <2>1, EmptySeq
    <2>3. \A x : ~Has(f[0], x) /\ ~\E h \in 1..0 : Has(ss[h], x)
      BY <2>2
    <2> HIDE DEF Has
    <2> QED BY <2>2, <2>3
  <1>3. ASSUME NEW k \in T PROVE k + 1 \in T
    <2>1. SUFFICES ASSUME k + 1 <= n
                   PROVE  /\ f[k + 1] \in Seq(X)
                          /\ \A x : Has(f[k + 1], x) <=> \E h \in 1..(k + 1) : Has(ss[h], x)
      OBVIOUS
    <2>2. k + 1 \in 1..n /\ (k + 1) - 1 = k /\ f[k] \in Seq(X) /\ ss[k + 1] \in Seq(X) /\ k \in Nat
      BY <2>1
    <2>3. f[k + 1] = f[k] \o ss[k + 1]
      BY <1>1, <2>2 DEF Flattens
    <2> DEFINE s == f[k]
               t == ss[k + 1]
               u == s \o t
    <2>4. s \in Seq(X) /\ t \in Seq(X) /\ \A x : Has(s, x) <=> \E h \in 1..k : Has(ss[h], x)
      <3> HIDE DEF Has
      <3> QED BY <2>1, <2>2
    <2> HIDE DEF s, t
    <2>5. /\ u \in Seq(X) /\ Len(s) \in Nat /\ Len(t) \in Nat /\ Len(u) = Len(s) + Len(t)
          /\ \A j \in 1..Len(s) : u[j] = s[j]
          /\ \A j \in 1..Len(t) : u[Len(s) + j] = t[j]
      BY <2>4, ConcatProperties
    <2> HIDE DEF u
    <2>6. \A x : Has(u, x) <=> Has(s, x) \/ Has(t, x)
      <3>1. ASSUME NEW x, Has(u, x) PROVE Has(s, x) \/ Has(t, x)
        <4>1. PICK i \in 1..Len(u) : u[i] = x
          BY <3>1
        <4>2. CASE i <= Len(s)
          <5>1. i \in 1..Len(s)
            BY <2>5, <4>2
          <5> QED BY <2>5, <4>1, <5>1
        <4>3. CASE i > Len(s)
          <5>1. i - Len(s) \in 1..Len(t) /\ Len(s) + (i - Len(s)) = i
            BY <2>5, <4>3
          <5>2. t[i - Len(s)] = x
            BY <2>5, <4>1, <5>1
          <5> QED BY <5>1, <5>2
        <4>4. Len(s) \in Nat /\ i \in Nat
          BY <2>5
        <4> QED BY <4>2, <4>3, <4>4
      <3>2. ASSUME NEW x, Has(s, x) PROVE Has(u, x)
        <4>1. PICK i \in 1..Len(s) : s[i] = x
          BY <3>2
        <4>2. i \in 1..Len(u)
          BY <2>5
        <4> QED BY <2>5, <4>1, <4>2
      <3>3. ASSUME NEW x, Has(t, x) PROVE Has(u, x)
        <4>1. PICK i \in 1..Len(t) : t[i] = x
          BY <3>3
        <4>2. Len(s) + i \in 1..Len(u)
          <5>1. Len(u) = Len(s) + Len(t) /\ Len(s) \in Nat /\ Len(t) \in Nat
            BY <2>5
          <5> QED BY <5>1
        <4>3. u[Len(s) + i] = x
          BY <2>5, <4>1
        <4> QED BY <4>2, <4>3
      <3> HIDE DEF Has
      <3> QED BY <3>1, <3>2, <3>3
    <2>7. \A x : (\E h \in 1..(k + 1) : Has(ss[h], x)) <=> (\E h \in 1..k : Has(ss[h], x)) \/ Has(t, x)
      <3>1. \A h : h \in 1..(k + 1) <=> h \in 1..k \/ h = k + 1
        BY <2>2
      <3> HIDE DEF Has
      <3> QED BY <3>1 DEF t
    <2> HIDE DEF Has
    <2> QED BY <2>3, <2>4, <2>5, <2>6, <2>7 DEF s, t, u
  <1>4. T = Nat
    <2>1. T \subseteq Nat
      OBVIOUS
    <2> HIDE DEF T
    <2> QED BY <1>2, <1>3, <2>1, Executing!NaturalSet
  <1>5. n \in Nat
    OBVIOUS
  <1>6. \A x : Has(f[n], x) <=> \E h \in 1..n : Has(ss[h], x)
    <2>1. n <= n /\ n \in T
      <3> HIDE DEF T
      <3> QED BY <1>4, <1>5
    <2> HIDE DEF Has
    <2> QED BY <2>1
  <1> QED BY <1>1, <1>6

-----------------------------------------------------------------------------
(***************************************************************************)
(* Take.                                                                   *)
(***************************************************************************)
(* Every place among the transactions of an account is somebody's. *)
LEMMA Ranks ==
    ASSUME NEW s, NEW n \in Nat, NEW a, NEW r \in Nat, r < CountTo(s, n, a)
    PROVE  \E i \in 1..n : s[i].from = a /\ CountTo(s, i - 1, a) = r
  <1> DEFINE T == {k \in Nat : r < CountTo(s, k, a) =>
                                 \E i \in 1..k : s[i].from = a /\ CountTo(s, i - 1, a) = r}
  <1>1. 0 \in T
    BY Counting
  <1>2. ASSUME NEW k \in T PROVE k + 1 \in T
    <2>1. SUFFICES ASSUME r < CountTo(s, k + 1, a)
                   PROVE  \E i \in 1..(k + 1) : s[i].from = a /\ CountTo(s, i - 1, a) = r
      OBVIOUS
    <2>2. /\ k \in Nat /\ CountTo(s, k, a) \in Nat
          /\ s[k + 1].from = a => CountTo(s, k + 1, a) = CountTo(s, k, a) + 1
          /\ s[k + 1].from # a => CountTo(s, k + 1, a) = CountTo(s, k, a)
      BY Counting
    <2>3. CASE r < CountTo(s, k, a)
      <3>1. PICK i \in 1..k : s[i].from = a /\ CountTo(s, i - 1, a) = r
        BY <2>3
      <3>2. i \in 1..(k + 1)
        OBVIOUS
      <3> QED BY <3>1, <3>2
    <2>4. CASE ~(r < CountTo(s, k, a))
      <3>1. s[k + 1].from = a /\ CountTo(s, k, a) = r
        BY <2>1, <2>2, <2>4
      <3>2. k + 1 \in 1..(k + 1) /\ (k + 1) - 1 = k
        BY <2>2
      <3> QED BY <3>1, <3>2
    <2> QED BY <2>3, <2>4
  <1>3. T = Nat
    <2>1. T \subseteq Nat
      OBVIOUS
    <2> HIDE DEF T
    <2> QED BY <1>1, <1>2, <2>1, Executing!NaturalSet
  <1> QED BY <1>3

(* A later place has a higher count. *)
LEMMA CountGrows ==
    ASSUME NEW s, NEW n \in Nat, NEW a, NEW i \in 1..n, s[i].from = a
    PROVE  CountTo(s, i - 1, a) \in Nat /\ CountTo(s, i - 1, a) < CountTo(s, n, a)
  <1> DEFINE A == {j \in 1..(i - 1) : s[j].from = a}
             B == {j \in 1..n : s[j].from = a}
  <1>1. IsFiniteSet(B) /\ Cardinality(B) \in Nat
    <2>1. IsFiniteSet(1..n)
      BY FS_Interval
    <2> QED BY <2>1, FS_Subset, FS_CardinalityType
  <1>2. A \subseteq B /\ i \in B /\ i \notin A
    OBVIOUS
  <1> HIDE DEF A, B
  <1>3. A # B /\ IsFiniteSet(A) /\ Cardinality(A) \in Nat
    BY <1>1, <1>2, FS_Subset, FS_CardinalityType
  <1>4. Cardinality(A) < Cardinality(B)
    <2>1. Cardinality(A \cup {i}) = Cardinality(A) + 1
      BY <1>2, <1>3, FS_AddElement
    <2>2. A \cup {i} \in SUBSET B
      BY <1>2
    <2>3. Cardinality(A \cup {i}) <= Cardinality(B)
      BY <1>1, <2>2, FS_Subset
    <2> QED BY <1>1, <1>3, <2>1, <2>3
  <1> QED BY <1>3, <1>4 DEF A, B, CountTo

(* One account alone counts every place. *)
LEMMA CountAlone ==
    ASSUME NEW s, NEW n \in Nat, NEW a, \A i \in 1..n : s[i].from = a
    PROVE  /\ CountTo(s, n, a) = n
           /\ \A b : b # a => CountTo(s, n, b) = 0
  <1>1. {j \in 1..n : s[j].from = a} = 1..n
    OBVIOUS
  <1>2. \A b : b # a => {j \in 1..n : s[j].from = b} = {}
    OBVIOUS
  <1>3. Cardinality(1..n) = n /\ Cardinality({}) = 0
    BY FS_Interval, FS_EmptySet
  <1> QED BY <1>1, <1>2, <1>3 DEF CountTo

(* The nonces of a finite pool have a first hole. *)
LEMMA RunEnds ==
    ASSUME NEW set, IsFiniteSet(set), NEW a, NEW base \in Nat
    PROVE  RunLength(set, a, base) \in Nat
  <1> DEFINE n == Cardinality(set)
             Held(i) == base + i \in Nonces(set, a)
  <1>1. n \in Nat
    BY FS_CardinalityType
  <1>2. PICK i \in 0..n : ~Held(i)
    <2>1. SUFFICES ASSUME \A i \in 0..n : Held(i) PROVE FALSE
      OBVIOUS
    <2> DEFINE f == [i \in 0..n |-> CHOOSE t \in set : t.nonce = base + i]
    <2>2. \A i \in 0..n : f[i] \in set /\ f[i].nonce = base + i
      BY <2>1 DEF Nonces
    <2>3. f \in [0..n -> set]
      BY <2>2
    <2>4. IsFiniteSet(0..n) /\ Cardinality(0..n) = n + 1
      BY <1>1, FS_Interval
    <2> HIDE DEF f
    <2>5. Cardinality(set) < Cardinality(0..n)
      BY <1>1, <2>4
    <2>6. \E x, y \in 0..n : x # y /\ f[x] = f[y]
      BY <2>3, <2>4, <2>5, FS_PigeonHole
    <2> QED BY <2>2, <2>6, <1>1
  <1> DEFINE T == {k \in Nat : k <= n => \A j \in 0..k : Held(j)}
  <1>3. \E k \in 0..n : ~Held(k) /\ \A j \in 0..(k - 1) : Held(j)
    <2>1. SUFFICES ASSUME \A k \in 0..n : (\A j \in 0..(k - 1) : Held(j)) => Held(k) PROVE FALSE
      <3> HIDE DEF Held
      <3> QED OBVIOUS
    <2> HIDE DEF Held
    <2>2. 0 \in T
      BY <1>1, <2>1
    <2>3. ASSUME NEW k \in T PROVE k + 1 \in T
      <3>1. CASE k + 1 <= n
        <4>1. \A j \in 0..((k + 1) - 1) : Held(j)
          <5>1. k \in Nat /\ (k + 1) - 1 = k /\ \A j \in 0..k : Held(j)
            BY <1>1, <3>1
          <5> QED BY <5>1
        <4>2. k + 1 \in 0..n
          BY <3>1
        <4>3. Held(k + 1)
          BY <2>1, <4>1, <4>2
        <4>4. \A j \in 0..(k + 1) : j \in 0..((k + 1) - 1) \/ j = k + 1
          BY <3>1
        <4>5. \A j \in 0..(k + 1) : Held(j)
          BY <4>1, <4>3, <4>4
        <4>6. k + 1 \in Nat
          OBVIOUS
        <4> QED BY <4>5, <4>6
      <3> QED BY <3>1
    <2>4. T = Nat
      <3>1. T \subseteq Nat
        OBVIOUS
      <3> HIDE DEF T
      <3> QED BY <2>2, <2>3, <3>1, Executing!NaturalSet
    <2>5. i \in T
      BY <2>4, <1>1
    <2> QED BY <1>2, <2>5, <1>1
  <1>4. RunLength(set, a, base) \in 0..n
    BY <1>3 DEF RunLength
  <1> QED BY <1>1, <1>4

(* What an account may have in the queue: its transactions, nonce by nonce. *)
LEMMA ChainFacts ==
    ASSUME NEW set, IsFiniteSet(set), NEW a, NEW base \in Nat, NEW c \in Chains(set, a, base)
    PROVE  /\ c \in Seq(set)
           /\ \A i \in 1..Len(c) : /\ c[i].from = a /\ c[i].nonce = base + (i - 1)
                                   /\ CountTo(c, i - 1, a) = i - 1
           /\ \A b : b # a => Count(c, b) = 0
  <1> DEFINE n == RunLength(set, a, base)
  <1>1. n \in Nat
    BY RunEnds
  <1>2. c \in [1..n -> {t \in set : t.from = a}] /\ \A i \in DOMAIN c : c[i].nonce = base + i - 1
    BY DEF Chains
  <1> HIDE DEF n
  <1>3. DOMAIN c = 1..n /\ \A i \in 1..n : c[i] \in set /\ c[i].from = a
    BY <1>2
  <1>4. c \in Seq(set) /\ Len(c) = n
    <2>1. c \in [1..n -> set]
      BY <1>2
    <2>2. c \in Seq(set)
      BY <1>1, <2>1, SeqDef
    <2> QED BY <1>1, <1>3, <2>2, LenProperties
  <1>5. \A i \in 1..n : c[i].nonce = base + (i - 1)
    BY <1>1, <1>2, <1>3
  <1>6. ASSUME NEW i \in 1..n PROVE CountTo(c, i - 1, a) = i - 1
    <2>1. i - 1 \in Nat /\ \A j \in 1..(i - 1) : c[j].from = a
      BY <1>1, <1>3
    <2> QED BY ZenonT(40), <2>1, CountAlone
  <1>7. \A b : b # a => CountTo(c, n, b) = 0
    <2>1. \A i \in 1..n : c[i].from = a
      BY <1>3
    <2>2. n \in Nat
      BY <1>1
    <2> QED BY <2>1, <2>2, CountAlone
  <1> QED BY <1>3, <1>4, <1>5, <1>6, <1>7 DEF Count

(* The senders of a finite pool are finitely many. *)
LEMMA SendersFinite ==
    ASSUME NEW set, IsFiniteSet(set)
    PROVE  IsFiniteSet(Senders(set))
  <1> DEFINE f == [t \in set |-> t.from]
  <1>1. f \in [set -> Senders(set)] /\ \A a \in Senders(set) : \E t \in set : f[t] = a
    BY DEF Senders
  <1>2. f \in Surjection(set, Senders(set))
    BY <1>1 DEF Surjection
  <1> HIDE DEF f
  <1> QED BY <1>2, FS_Surjection

(* The queue continues the nonces of every account. *)
LEMMA QueueOrdered ==
    ASSUME NEW set, IsFiniteSet(set), NEW base, \A t \in set : base[t.from] \in Nat,
           NEW p \in Picks(set, base), NEW o \in Served(p)
    PROVE  Queue(p, o) \in Seq(set) /\ InOrder(Queue(p, o), base)
  <1> DEFINE S == DOMAIN p
             n == Cardinality(S)
             ss == [i \in DOMAIN o |-> p[o[i]]]
  <1>1. S \subseteq Senders(set) /\ \A a \in S : p[a] \in Chains(set, a, base[a]) /\ base[a] \in Nat
    <2>1. S \subseteq Senders(set) /\ \A a \in S : p[a] \in Chains(set, a, base[a])
      BY DEF Picks
    <2>2. \A a \in Senders(set) : base[a] \in Nat
      BY DEF Senders
    <2> QED BY <2>1, <2>2
  <1>2. IsFiniteSet(S) /\ n \in Nat
    BY <1>1, SendersFinite, FS_Subset, FS_CardinalityType
  <1>3. o \in [1..n -> S] /\ \A i, j \in 1..n : i # j => o[i] # o[j]
    BY DEF Served, SetToSeqs
  <1> HIDE DEF S, n
  <1>4. \A i \in 1..n : /\ ss[i] = p[o[i]] /\ o[i] \in S /\ base[o[i]] \in Nat
                        /\ ss[i] \in Chains(set, o[i], base[o[i]])
    BY <1>1, <1>3
  <1>5. DOMAIN ss = 1..n
    BY <1>3
  <1>6. Queue(p, o) = FlattenSeq(ss)
    BY DEF Queue
  <1> HIDE DEF ss
  <1>7. ASSUME NEW i \in 1..n
        PROVE  /\ ss[i] \in Seq(set)
               /\ \A j \in 1..Len(ss[i]) : /\ ss[i][j].from = o[i]
                                           /\ ss[i][j].nonce = base[o[i]] + (j - 1)
                                           /\ CountTo(ss[i], j - 1, o[i]) = j - 1
               /\ \A b : b # o[i] => Count(ss[i], b) = 0
    BY <1>4, ChainFacts
  <1>8. ss \in Seq(Seq(set)) /\ Len(ss) = n
    <2>1. ss \in [1..n -> Seq(set)]
      <3>1. ss = [i \in 1..n |-> ss[i]]
        <4>1. ss = [i \in 1..n |-> p[o[i]]]
          BY <1>3 DEF ss
        <4> QED BY <1>4, <4>1
      <3>2. \A i \in 1..n : ss[i] \in Seq(set)
        BY <1>7
      <3> QED BY <3>1, <3>2
    <2>2. ss \in Seq(Seq(set))
      BY <1>2, <2>1, SeqDef
    <2> QED BY <1>2, <1>5, <2>2, LenProperties
  <1>9. PICK f : Flattens(f, ss) /\ FlattenSeq(ss) = f[n]
    BY <1>8, FlattenTrace
  <1> DEFINE T == {k \in Nat : k <= n => /\ f[k] \in Seq(set)
                                        /\ InOrder(f[k], base)
                                        /\ \A j \in (k + 1)..n : Count(f[k], o[j]) = 0}
  <1>10. 0 \in T
    <2>1. f[0] = <<>>
      BY <1>9 DEF Flattens
    <2>2. f[0] \in Seq(set) /\ Len(f[0]) = 0
      BY <2>1, EmptySeq
    <2>3. InOrder(f[0], base)
      BY <2>2 DEF InOrder
    <2>4. \A a : Count(f[0], a) = 0
      BY <2>2, Counting DEF Count
    <2> QED BY <2>2, <2>3, <2>4
  <1>11. ASSUME NEW k \in T PROVE k + 1 \in T
    <2>1. SUFFICES ASSUME k + 1 <= n
                   PROVE  /\ f[k + 1] \in Seq(set)
                          /\ InOrder(f[k + 1], base)
                          /\ \A j \in ((k + 1) + 1)..n : Count(f[k + 1], o[j]) = 0
      OBVIOUS
    <2> DEFINE s == f[k]
               m == k + 1
               t == ss[m]
               a == o[m]
    <2>2. /\ k \in Nat /\ m \in 1..n /\ m - 1 = k /\ s \in Seq(set) /\ InOrder(s, base)
          /\ \A j \in m..n : Count(s, o[j]) = 0
      BY <1>2, <2>1
    <2>3. f[m] = s \o t
      <3>1. f[m] = f[m - 1] \o ss[m]
        BY <1>8, <1>9, <2>2 DEF Flattens
      <3> QED BY <3>1, <2>2
    <2> HIDE DEF s, m, t, a
    <2>4. /\ t \in Seq(set)
          /\ \A j \in 1..Len(t) : /\ t[j].from = a /\ t[j].nonce = base[a] + (j - 1)
                                  /\ CountTo(t, j - 1, a) = j - 1
          /\ \A b : b # a => Count(t, b) = 0
      BY <1>7, <2>2 DEF t, a
    <2>5. Count(s, a) = 0
      BY <2>2 DEF a
    <2>6. \A j \in 1..Len(t) :
             t[j].nonce = base[t[j].from] + (Count(s, t[j].from) + CountTo(t, j - 1, t[j].from))
      <3>1. ASSUME NEW j \in 1..Len(t)
            PROVE  t[j].nonce = base[t[j].from] + (Count(s, t[j].from) + CountTo(t, j - 1, t[j].from))
        <4>1. 0 + CountTo(t, j - 1, a) = j - 1 /\ t[j].from = a /\ t[j].nonce = base[a] + (j - 1)
          BY <2>4
        <4> QED BY <4>1, <2>5
      <3> QED BY <3>1
    <2>7. s \o t \in Seq(set)
      BY <2>2, <2>4, ConcatProperties
    <2>8. InOrder(s \o t, base)
      BY <2>2, <2>4, <2>6, OrderConcat
    <2>9. ASSUME NEW j \in (m + 1)..n PROVE Count(s \o t, o[j]) = 0
      <3>1. j \in m..n /\ j # m /\ j \in 1..n
        BY <2>2
      <3>2. o[j] # a
        BY <1>3, <2>2, <3>1 DEF a
      <3>3. Count(s, o[j]) = 0 /\ Count(t, o[j]) = 0
        BY <2>2, <2>4, <3>1, <3>2
      <3>4. Len(t) \in 0..Len(t) /\ Len(s \o t) = Len(s) + Len(t)
        BY <2>2, <2>4, ConcatProperties, LenProperties
      <3>5. CountTo(s \o t, Len(s) + Len(t), o[j]) = Count(s, o[j]) + CountTo(t, Len(t), o[j])
        BY <2>2, <2>4, <3>4, CountConcat
      <3> QED BY <3>3, <3>4, <3>5 DEF Count
    <2> QED BY <2>3, <2>7, <2>8, <2>9 DEF m
  <1>12. T = Nat
    <2>1. T \subseteq Nat
      OBVIOUS
    <2> HIDE DEF T
    <2> QED BY <1>10, <1>11, <2>1, Executing!NaturalSet
  <1>13. n \in T
    <2> HIDE DEF T
    <2> QED BY <1>2, <1>12
  <1>14. f[n] \in Seq(set) /\ InOrder(f[n], base)
    BY <1>2, <1>13
  <1> QED BY <1>6, <1>9, <1>14

(* What Take returns can be executed in that order. *)
LEMMA TakeOrdered ==
    ASSUME NEW set, IsFiniteSet(set), NEW base, \A t \in set : base[t.from] \in Nat,
           NEW max \in Nat, NEW q \in TakeUpTo(set, base, max)
    PROVE  q \in Seq(set) /\ InOrder(q, base)
  <1>0. PICK p \in Picks(set, base) : \E o \in Served(p) : q = Cut(Queue(p, o), max)
    BY DEF TakeUpTo
  <1>1. PICK o \in Served(p) : q = Cut(Queue(p, o), max)
    BY <1>0
  <1> DEFINE u == Queue(p, o)
             m == IF Len(u) > max THEN max ELSE Len(u)
  <1>2. u \in Seq(set) /\ InOrder(u, base)
    BY QueueOrdered
  <1>3. q = SubSeq(u, 1, m)
    BY <1>1 DEF Cut
  <1> HIDE DEF u
  <1>4. m \in Nat /\ m <= Len(u) /\ Len(u) \in Nat
    BY <1>2, LenProperties
  <1> HIDE DEF m
  <1>5. q \in Seq(set) /\ Len(q) = m /\ \A i \in 1..m : q[i] = u[i]
    <2>1. \A i \in 1..m : u[i] \in set /\ i \in 1..Len(u)
      BY <1>2, <1>4, ElementOfSeq
    <2>2. /\ SubSeq(u, 1, m) \in Seq(set)
          /\ Len(SubSeq(u, 1, m)) = IF 1 <= m THEN m - 1 + 1 ELSE 0
          /\ \A i \in 1..(m - 1 + 1) : SubSeq(u, 1, m)[i] = u[1 + i - 1]
      BY <1>4, <2>1, SubSeqProperties
    <2>3. m - 1 + 1 = m /\ \A i \in 1..m : 1 + i - 1 = i
      BY <1>4
    <2> QED BY <1>3, <1>4, <2>2, <2>3
  <1>6. ASSUME NEW i \in 1..m PROVE q[i].nonce = base[q[i].from] + CountTo(q, i - 1, q[i].from)
    <2>1. i \in 1..Len(u) /\ i - 1 \in Nat /\ \A j \in 1..(i - 1) : j \in 1..m
      BY <1>4
    <2>2. CountTo(q, i - 1, u[i].from) = CountTo(u, i - 1, u[i].from)
      BY <1>5, <2>1, CountAlike
    <2>3. u[i].nonce = base[u[i].from] + CountTo(u, i - 1, u[i].from)
      BY <1>2, <2>1 DEF InOrder
    <2> QED BY <1>5, <2>2, <2>3
  <1> QED BY <1>5, <1>6 DEF InOrder

-----------------------------------------------------------------------------
(***************************************************************************)
(* Produce.                                                                *)
(***************************************************************************)
(* One more transaction in order. *)
LEMMA OrderAppend ==
    ASSUME NEW X, NEW s \in Seq(X), NEW x \in X, NEW base
    PROVE  /\ Append(s, x) \in Seq(X) /\ Len(Append(s, x)) = Len(s) + 1
           /\ \A j \in 1..Len(s) : Append(s, x)[j] = s[j]
           /\ Append(s, x)[Len(s) + 1] = x
           /\ Count(Append(s, x), x.from) = Count(s, x.from) + 1
           /\ \A b : b # x.from => Count(Append(s, x), b) = Count(s, b)
           /\ InOrder(s, base) /\ x.nonce = base[x.from] + Count(s, x.from)
                => InOrder(Append(s, x), base)
  <1> DEFINE u == Append(s, x)
             n == Len(s)
  <1>1. /\ u \in Seq(X) /\ Len(u) = n + 1 /\ \A j \in 1..n : u[j] = s[j]
        /\ u[n + 1] = x /\ n \in Nat
    BY AppendProperties, LenProperties
  <1> HIDE DEF u
  <1>2. \A a : CountTo(u, n, a) = CountTo(s, n, a)
    BY <1>1, CountAlike
  <1>3. \A a : /\ u[n + 1].from = a => CountTo(u, n + 1, a) = CountTo(u, n, a) + 1
               /\ u[n + 1].from # a => CountTo(u, n + 1, a) = CountTo(u, n, a)
    BY <1>1, Counting
  <1>4. /\ Count(u, x.from) = Count(s, x.from) + 1
        /\ \A b : b # x.from => Count(u, b) = Count(s, b)
    BY <1>1, <1>2, <1>3 DEF Count
  <1>5. ASSUME InOrder(s, base), x.nonce = base[x.from] + Count(s, x.from)
        PROVE  InOrder(u, base)
    <2>1. ASSUME NEW i \in 1..(n + 1)
          PROVE  u[i].nonce = base[u[i].from] + CountTo(u, i - 1, u[i].from)
      <3>1. CASE i = n + 1
        <4>1. i - 1 = n /\ u[i] = x
          BY <1>1, <3>1
        <4> QED BY <1>2, <1>5, <4>1 DEF Count
      <3>2. CASE i # n + 1
        <4>1. i \in 1..n /\ i - 1 \in Nat /\ \A j \in 1..(i - 1) : j \in 1..n
          BY <1>1, <3>2
        <4>2. CountTo(u, i - 1, s[i].from) = CountTo(s, i - 1, s[i].from)
          BY <1>1, <4>1, CountAlike
        <4>3. s[i].nonce = base[s[i].from] + CountTo(s, i - 1, s[i].from)
          BY <1>5, <4>1 DEF InOrder
        <4> QED BY <1>1, <4>1, <4>2, <4>3
      <3> QED BY <3>1, <3>2
    <2> QED BY <1>1, <2>1 DEF InOrder
  <1> QED BY <1>1, <1>4, <1>5 DEF u

(* A block takes what applies, in order, and of an account without failures *)
(* all that Take returned.                                                 *)
LEMMA ExecutedFacts ==
    ASSUME NEW X, NEW q \in Seq(X), NEW base, InOrder(q, base)
    PROVE  /\ Executed(q) \in Seq(X)
           /\ InOrder(Executed(q), base)
           /\ \A i \in 1..Len(Executed(q)) : Executed(q)[i].good
           /\ \A a : (\A j \in 1..Len(q) : q[j].from = a => q[j].good)
                       => Count(Executed(q), a) = Count(q, a)
  <1> DEFINE n == Len(q)
             places == [i \in DOMAIN q |-> i]
  <1>1. n \in Nat /\ DOMAIN q = 1..n /\ \A i \in 1..n : q[i] \in X
    BY LenProperties, ElementOfSeq
  <1>2. DOMAIN places = 1..n /\ \A i \in 1..n : places[i] = i
    BY <1>1
  <1>3. Executed(q) = Executing!Fold(q, 0, <<>>, places)
    BY DEF Executed, Executing!Fold, FoldLeft, Executing!FoldLeft, MapThenFoldSet,
           Executing!MapThenFoldSet, Max, Executing!Max
  <1> HIDE DEF places, n
  <1>4. Executing!Traced(q, 0, <<>>, n, places)
    BY <1>1, <1>2, Executing!FoldTrace
  <1>5. PICK f : /\ f[0] = <<>>
                 /\ \A k \in 1..n : f[k] = Keep(q, f[k - 1], places[k])
                 /\ f[n] = Executing!Fold(q, 0, <<>>, places)
    BY <1>4 DEF Executing!Traced
  <1> DEFINE Clean(k, a) == \A j \in 1..k : q[j].from = a => q[j].good
             Fine(k) == /\ f[k] \in Seq(X)
                        /\ InOrder(f[k], base)
                        /\ \A i \in 1..Len(f[k]) : f[k][i].good
                        /\ \A a : Clean(k, a) => Count(f[k], a) = CountTo(q, k, a)
             T == {k \in Nat : k <= n => Fine(k)}
  <1>6. 0 \in T
    <2>1. f[0] \in Seq(X) /\ Len(f[0]) = 0
      BY <1>5, EmptySeq
    <2>2. InOrder(f[0], base)
      BY <2>1 DEF InOrder
    <2>3. \A a : Count(f[0], a) = 0 /\ CountTo(q, 0, a) = 0
      BY <2>1, Counting DEF Count
    <2> QED BY <2>1, <2>2, <2>3
  <1>7. ASSUME NEW k \in T PROVE k + 1 \in T
    <2>1. SUFFICES ASSUME k + 1 <= n PROVE Fine(k + 1)
      OBVIOUS
    <2> DEFINE m == k + 1
               s == f[k]
               x == q[m]
    <2>2. k \in Nat /\ m \in 1..n /\ m - 1 = k /\ Fine(k) /\ x \in X
      BY <1>1, <2>1
    <2>3. f[m] = Keep(q, s, m)
      BY <1>2, <1>5, <2>2
    <2>4. /\ s \in Seq(X) /\ InOrder(s, base) /\ (\A i \in 1..Len(s) : s[i].good)
          /\ \A a : Clean(k, a) => Count(s, a) = CountTo(q, k, a)
      BY <2>2
    <2>5. \A a : /\ x.from = a => CountTo(q, m, a) = CountTo(q, k, a) + 1
                 /\ x.from # a => CountTo(q, m, a) = CountTo(q, k, a)
      BY <2>2, Counting
    <2>6. \A j : j \in 1..m <=> j \in 1..k \/ j = m
      BY <2>2
    <2>7. x.nonce = base[x.from] + CountTo(q, k, x.from)
      <3>1. q[m].nonce = base[q[m].from] + CountTo(q, m - 1, q[m].from)
        BY <2>2 DEF InOrder, n
      <3> QED BY <2>2, <3>1
    <2> HIDE DEF m, s
    <2>8. Applies(q, m) <=> Clean(k, x.from) /\ x.good
      BY <2>6 DEF Applies
    <2>9. \A a : Clean(m, a) <=> Clean(k, a) /\ (x.from = a => x.good)
      BY <2>6
    <2> HIDE DEF x, Clean
    <2>10. CASE Applies(q, m)
      <3> DEFINE u == Append(s, x)
      <3>1. f[m] = u
        BY <2>3, <2>10 DEF Keep, x
      <3>2. Count(s, x.from) = CountTo(q, k, x.from)
        BY <2>4, <2>8, <2>10
      <3>3. x.nonce = base[x.from] + Count(s, x.from)
        BY <2>7, <3>2
      <3>4. /\ u \in Seq(X) /\ Len(u) = Len(s) + 1
            /\ \A j \in 1..Len(s) : u[j] = s[j]
            /\ u[Len(s) + 1] = x
            /\ Count(u, x.from) = Count(s, x.from) + 1
            /\ \A b : b # x.from => Count(u, b) = Count(s, b)
        BY <2>2, <2>4, OrderAppend
      <3>5. InOrder(u, base)
        BY <2>2, <2>4, <3>3, OrderAppend
      <3> HIDE DEF u
      <3>6. ASSUME NEW i \in 1..Len(u) PROVE u[i].good
        <4>1. Len(s) \in Nat
          BY <2>4, LenProperties
        <4>2. i \in 1..Len(s) \/ i = Len(s) + 1
          BY <3>4, <4>1
        <4> QED BY <2>4, <2>8, <2>10, <3>4, <4>2
      <3>7. ASSUME NEW a, Clean(m, a) PROVE Count(u, a) = CountTo(q, m, a)
        <4>1. Count(s, a) = CountTo(q, k, a)
          BY <2>4, <2>9, <3>7
        <4>2. CASE x.from = a
          BY <2>5, <3>4, <4>1, <4>2
        <4>3. CASE x.from # a
          BY <2>5, <3>4, <4>1, <4>3
        <4> QED BY <4>2, <4>3
      <3> QED BY <3>1, <3>4, <3>5, <3>6, <3>7 DEF m
    <2>11. CASE ~Applies(q, m)
      <3>1. f[m] = s
        BY <2>3, <2>11 DEF Keep
      <3>2. ASSUME NEW a, Clean(m, a) PROVE Count(s, a) = CountTo(q, m, a)
        <4>1. Clean(k, a) /\ x.from # a
          BY <2>8, <2>9, <2>11, <3>2
        <4> QED BY <2>4, <2>5, <4>1
      <3> QED BY <2>4, <3>1, <3>2 DEF m
    <2> QED BY <2>10, <2>11
  <1>8. T = Nat
    <2>1. T \subseteq Nat
      OBVIOUS
    <2> HIDE DEF T
    <2> QED BY <1>6, <1>7, <2>1, Executing!NaturalSet
  <1>9. Fine(n)
    <2>1. n \in T /\ n <= n
      <3> HIDE DEF T
      <3> QED BY <1>1, <1>8
    <2> HIDE DEF Fine
    <2> QED BY <2>1
  <1> QED BY <1>3, <1>5, <1>9 DEF Count, n

-----------------------------------------------------------------------------
(***************************************************************************)
(* The invariant.                                                          *)
(***************************************************************************)
Txs == UserTxs \cup FaucetTxs

Zero == [a \in Accounts |-> 0]

Messages(T, top) ==
    {Hello(h) : h \in Nat} \cup {TxMsg(tx) : tx \in T}
        \cup {Block(h) : h \in 1..top} \cup {GetBlocks(h) : h \in Nat \ {0}}

(* T[l]: the transactions that may travel on link l.                       *)
Sound(T, top, c, open) ==
    /\ DOMAIN c = Links
    /\ \A l \in Links : /\ c[l] \in Seq(Messages(T[l], top))
                        /\ c[l] # <<>> => l \in open

Open ==
    /\ up \subseteq Nodes /\ conn \subseteq Links
    /\ \A l \in conn : <<l[2], l[1]>> \in conn /\ l[1] \in up /\ l[2] \in up

Blocks ==
    /\ chain \in Seq(Seq(Txs))
    /\ have \in [Nodes -> Nat] /\ have[Producer] = Len(chain)
    /\ \A n \in Nodes : have[n] <= Len(chain)

Pools ==
    /\ DOMAIN pool = Nodes
    /\ \A n \in Nodes : /\ pool[n] \subseteq Txs /\ IsFiniteSet(pool[n])
                        /\ Cardinality(pool[n]) <= PoolMax

Wires(T) == Sound(T, Len(chain), chan, conn)

Everything == [l \in Links |-> Txs]

Requests ==
    /\ plan \in Plans /\ checked \subseteq Entries \X UserTxs
    /\ calls \in Nat /\ calls <= plan.calls
    /\ faucet \in Nat \cup {NoCall}
    /\ faucet # NoCall => Producer \in up /\ calls >= 1

Ordered ==
    /\ InOrder(History, Zero)
    /\ \A i \in 1..Len(History) : History[i].good

Core == Open /\ Blocks /\ Pools /\ Requests /\ Ordered

IInv == Core /\ Wires(Everything) /\ taken \subseteq conn

(* What may be on its way after a step, U, when T may before: what a user   *)
(* sends, and what a node sends on.                                        *)
Passes(T, U) ==
    \A l \in Links : /\ T[l] \subseteq U[l] /\ UserTxs \subseteq U[l]
                     /\ \A m \in Links : m[1] = l[2] /\ m[2] # l[1] => T[l] \subseteq U[m]

-----------------------------------------------------------------------------
(* Of finitely many bounds one is the largest. *)
LEMMA CallsBounded ==
    ASSUME NEW p \in Plans
    PROVE  MaxOf("calls") \in Nat /\ p.calls <= MaxOf("calls")
  <1> DEFINE N == Cardinality(Plans)
  <1>1. N \in Nat /\ ExistsBijection(1..N, Plans)
    BY PlansBound, FS_CardinalityType
  <1> HIDE DEF N
  <1>2. PICK f : f \in Bijection(1..N, Plans)
    BY <1>1 DEF ExistsBijection
  <1>3. (\A i \in 1..N : f[i] \in Plans /\ f[i].calls \in Nat) /\ \A q \in Plans : \E i \in 1..N : f[i] = q
    BY <1>2, PlansBound DEF Bijection, Injection, Surjection
  <1> DEFINE T == {k \in Nat : 1 <= k /\ k <= N =>
                                \E i \in 1..k : \A j \in 1..k : f[j].calls <= f[i].calls}
  <1>4. 0 \in T
    OBVIOUS
  <1>5. ASSUME NEW k \in T PROVE k + 1 \in T
    <2>1. SUFFICES ASSUME k + 1 <= N
                   PROVE  \E i \in 1..(k + 1) : \A j \in 1..(k + 1) : f[j].calls <= f[i].calls
      OBVIOUS
    <2>2. k \in Nat /\ k + 1 \in 1..N /\ (\A j : j \in 1..(k + 1) <=> j \in 1..k \/ j = k + 1)
          /\ \A j \in 1..(k + 1) : j \in 1..N /\ f[j].calls \in Nat
      BY <1>1, <1>3, <2>1
    <2>3. CASE k = 0
      <3>1. \A j \in 1..(k + 1) : f[j].calls <= f[k + 1].calls
        BY <2>2, <2>3
      <3> QED BY <2>2, <3>1
    <2>4. CASE k # 0
      <3>1. PICK i \in 1..k : \A j \in 1..k : f[j].calls <= f[i].calls
        BY <1>1, <2>1, <2>2, <2>4
      <3>2. CASE f[k + 1].calls <= f[i].calls
        <4>1. \A j \in 1..(k + 1) : f[j].calls <= f[i].calls
          BY <2>2, <3>1, <3>2
        <4> QED BY <2>2, <4>1
      <3>3. CASE ~(f[k + 1].calls <= f[i].calls)
        <4>1. \A j \in 1..(k + 1) : f[j].calls <= f[k + 1].calls
          BY <2>2, <3>1, <3>3
        <4> QED BY <2>2, <4>1
      <3> QED BY <3>2, <3>3
    <2> QED BY <2>3, <2>4
  <1>6. T = Nat
    <2>1. T \subseteq Nat
      OBVIOUS
    <2> HIDE DEF T
    <2> QED BY <1>4, <1>5, <2>1, Executing!NaturalSet
  <1>7. PICK i \in 1..N : \A j \in 1..N : f[j].calls <= f[i].calls
    <2>1. N \in T
      <3> HIDE DEF T
      <3> QED BY <1>1, <1>6
    <2>2. 1 <= N
      BY <1>1, <1>3
    <2> QED BY <1>1, <2>1, <2>2
  <1>8. f[i] \in Plans /\ \A q \in Plans : q["calls"] <= f[i]["calls"]
    BY <1>3, <1>7
  <1> DEFINE P == CHOOSE r \in Plans : \A q \in Plans : q["calls"] <= r["calls"]
  <1>9. P \in Plans /\ \A q \in Plans : q["calls"] <= P["calls"]
    BY <1>8
  <1>10. MaxOf("calls") = P["calls"]
    BY DEF MaxOf
  <1> HIDE DEF P
  <1> QED BY <1>9, <1>10, PlansBound

(* What a transaction is. *)
LEMMA TxFacts ==
    /\ UserTxs \subseteq Txs /\ FaucetTxs \subseteq Txs
    /\ \A tx \in Txs : tx.from \in Accounts /\ tx.nonce \in Nat
    /\ \A tx \in UserTxs : tx.from # Faucet
    /\ \A tx \in FaucetTxs : tx.from = Faucet
    /\ \A tx \in Txs : tx.from = Faucet => tx.good
  <1>1. \A tx \in UserTxs : tx.from \in Accounts \ {Faucet} /\ tx.nonce \in Nat
    BY TxsTyped
  <1>2. \A tx \in FaucetTxs : tx.from = Faucet /\ tx.nonce \in Nat /\ tx.good
    BY DEF FaucetTxs
  <1> QED BY <1>1, <1>2, TxsTyped DEF Txs

(* Sequences over a larger set. *)
LEMMA Wider ==
    ASSUME NEW S, NEW T, S \subseteq T
    PROVE  Seq(S) \subseteq Seq(T)
  <1> SUFFICES ASSUME NEW s \in Seq(S) PROVE s \in Seq(T)
    OBVIOUS
  <1>1. Len(s) \in Nat /\ s \in [1..Len(s) -> S]
    BY LenProperties
  <1>2. s \in [1..Len(s) -> T]
    BY <1>1
  <1> QED BY <1>1, <1>2, SeqDef

(* The kinds of messages. *)
LEMMA Kinds ==
    ASSUME NEW T, NEW top, NEW m \in Messages(T, top)
    PROVE  /\ m.type = "hello" => m.height \in Nat
           /\ m.type = "tx" => m.tx \in T
           /\ m.type = "block" => m.height \in 1..top /\ m = Block(m.height)
           /\ m.type = "get" => m.height \in Nat \ {0}
  BY DEF Messages, Hello, TxMsg, Block, GetBlocks

(* More blocks and more transactions allow more messages. *)
LEMMA MessagesGrow ==
    ASSUME NEW T, NEW top \in Nat
    PROVE  Messages(T, top) \subseteq Messages(T, top + 1)
  <1>1. 1..top \subseteq 1..(top + 1)
    OBVIOUS
  <1> QED BY <1>1 DEF Messages

(* No transaction of an account is in the chain twice, because its nonces   *)
(* are in order.                                                           *)
LEMMA ChainCounts ==
    ASSUME NEW c \in Seq(Seq(Txs)), InOrder(FlattenSeq(c), Zero), NEW a \in Accounts
    PROVE  /\ Cardinality({tx \in UNION {Range(c[h]) : h \in 1..Len(c)} : tx.from = a})
                = Count(FlattenSeq(c), a)
           /\ Count(FlattenSeq(c), a) \in Nat
  <1> DEFINE H == FlattenSeq(c)
             n == Len(H)
             S == {i \in 1..n : H[i].from = a}
             R == {tx \in UNION {Range(c[h]) : h \in 1..Len(c)} : tx.from = a}
  <1>1. H \in Seq(Txs)
    BY FlattenTyped
  <1>2. n \in Nat
    BY <1>1, LenProperties
  <1>3. \A x : x \in UNION {Range(c[h]) : h \in 1..Len(c)} <=> \E i \in 1..n : H[i] = x
    <2>1. \A x : (\E i \in 1..n : H[i] = x)
                   <=> (\E h \in 1..Len(c) : \E i \in 1..Len(c[h]) : c[h][i] = x)
      BY FlattenRange
    <2>2. \A h \in 1..Len(c) : DOMAIN c[h] = 1..Len(c[h])
      BY LenProperties, ElementOfSeq
    <2>3. \A x : x \in UNION {Range(c[h]) : h \in 1..Len(c)} <=>
                    \E h \in 1..Len(c) : \E i \in DOMAIN c[h] : c[h][i] = x
      <3>1. \A x : x \in UNION {Range(c[h]) : h \in 1..Len(c)}
                     <=> \E h \in 1..Len(c) : x \in Range(c[h])
        OBVIOUS
      <3>2. \A h, x : x \in Range(c[h]) <=> \E i \in DOMAIN c[h] : c[h][i] = x
        BY DEF Range
      <3> QED BY <3>1, <3>2
    <2>4. \A x : x \in UNION {Range(c[h]) : h \in 1..Len(c)} <=>
                    \E h \in 1..Len(c) : \E i \in 1..Len(c[h]) : c[h][i] = x
      BY <2>2, <2>3
    <2> HIDE DEF H, n
    <2> QED BY <2>1, <2>4
  <1>4. \A i \in 1..n : H[i] \in Txs /\ H[i].from \in Accounts
    BY <1>1, ElementOfSeq, TxFacts
  <1>5. InOrder(H, Zero)
    OBVIOUS
  <1> HIDE DEF H
  <1>6. \A i \in S : H[i].nonce = CountTo(H, i - 1, a)
    <2>1. ASSUME NEW i \in S PROVE H[i].nonce = CountTo(H, i - 1, a)
      <3>1. i \in 1..n /\ H[i].from = a /\ i - 1 \in Nat
        BY <1>2
      <3>2. H[i].nonce = Zero[a] + CountTo(H, i - 1, a)
        BY <1>5, <3>1 DEF InOrder
      <3>3. CountTo(H, i - 1, a) \in Nat /\ Zero[a] = 0
        BY <3>1, Counting DEF Zero
      <3> QED BY <3>2, <3>3
    <2> QED BY <2>1
  <1> HIDE DEF n
  <1>7. \A i, j \in S : i < j => CountTo(H, i - 1, a) # CountTo(H, j - 1, a)
    <2>1. ASSUME NEW i \in S, NEW j \in S, i < j
          PROVE  CountTo(H, i - 1, a) # CountTo(H, j - 1, a)
      <3>1. j - 1 \in Nat /\ i \in 1..(j - 1) /\ H[i].from = a
        BY <1>2, <2>1
      <3>2. CountTo(H, i - 1, a) \in Nat /\ CountTo(H, i - 1, a) < CountTo(H, j - 1, a)
        BY <3>1, CountGrows
      <3>3. CountTo(H, j - 1, a) \in Nat
        BY <3>1, Counting
      <3> QED BY <3>2, <3>3
    <2> QED BY <2>1
  <1> DEFINE f == [i \in S |-> H[i]]
  <1>8. f \in Bijection(S, R)
    <2>1. f \in [S -> R] /\ \A x \in R : \E i \in S : f[i] = x
      BY <1>3
    <2>2. ASSUME NEW i \in S, NEW j \in S, f[i] = f[j] PROVE i = j
      <3>1. CountTo(H, i - 1, a) = CountTo(H, j - 1, a)
        BY <1>6, <2>2
      <3>2. i \in Nat /\ j \in Nat
        BY <1>2
      <3> QED BY <1>7, <3>1, <3>2
    <2> HIDE DEF S, R, f
    <2>3. f \in Injection(S, R)
      BY <2>1, <2>2 DEF Injection, IsInjective
    <2>4. f \in Surjection(S, R)
      BY <2>1 DEF Surjection
    <2> QED BY <2>3, <2>4 DEF Bijection
  <1>9. IsFiniteSet(S) /\ Cardinality(S) \in Nat
    <2>1. IsFiniteSet(1..n)
      BY <1>2, FS_Interval
    <2> QED BY <2>1, FS_Subset, FS_CardinalityType
  <1> HIDE DEF S, R, f
  <1>10. Cardinality(R) = Cardinality(S)
    <2>1. ExistsBijection(S, R)
      BY <1>8 DEF ExistsBijection
    <2> QED BY <1>9, <2>1, FS_Bijection
  <1> QED BY <1>9, <1>10 DEF Count, CountTo, S, R, n, H

(* The nonce of an account at the producer is the number of its             *)
(* transactions in the chain.                                              *)
LEMMA NonceCounts ==
    ASSUME Blocks, Ordered, NEW a \in Accounts
    PROVE  /\ History \in Seq(Txs)
           /\ NonceOf(Producer, a) = Count(History, a)
           /\ NonceOf(Producer, a) \in Nat
  <1>1. chain \in Seq(Seq(Txs)) /\ have[Producer] = Len(chain) /\ InOrder(FlattenSeq(chain), Zero)
    BY DEF Blocks, Ordered, History
  <1>2. /\ Cardinality({tx \in UNION {Range(chain[h]) : h \in 1..Len(chain)} : tx.from = a})
             = Count(FlattenSeq(chain), a)
        /\ Count(FlattenSeq(chain), a) \in Nat
    BY <1>1, ChainCounts
  <1>3. FlattenSeq(chain) \in Seq(Txs)
    BY <1>1, FlattenTyped
  <1> QED BY <1>1, <1>2, <1>3 DEF NonceOf, OnChain, History

(* What Take returns to the producer. *)
LEMMA TakenByProducer ==
    ASSUME Blocks, Ordered, Pools, NEW max \in Nat,
           NEW q \in TakeUpTo(pool[Producer], NoncesAt(Producer), max)
    PROVE  /\ q \in Seq(pool[Producer]) /\ q \in Seq(Txs)
           /\ InOrder(q, NoncesAt(Producer))
           /\ \A a \in Accounts : NoncesAt(Producer)[a] = Count(History, a)
  <1>1. \A a \in Accounts : NoncesAt(Producer)[a] = Count(History, a) /\ NoncesAt(Producer)[a] \in Nat
    BY NonceCounts DEF NoncesAt
  <1>2. pool[Producer] \subseteq Txs /\ IsFiniteSet(pool[Producer])
    BY Configured DEF Pools
  <1>3. \A t \in pool[Producer] : NoncesAt(Producer)[t.from] \in Nat
    BY <1>1, <1>2, TxFacts
  <1>4. q \in Seq(pool[Producer]) /\ InOrder(q, NoncesAt(Producer))
    BY <1>2, <1>3, TakeOrdered
  <1>5. q \in Seq(Txs)
    BY <1>2, <1>4, Wider
  <1> QED BY <1>1, <1>4, <1>5

-----------------------------------------------------------------------------
(***************************************************************************)
(* What goes out on the links.                                             *)
(***************************************************************************)
(* A link that may carry more. *)
LEMMA SoundWidens ==
    ASSUME NEW T, NEW U, \A l \in Links : T[l] \subseteq U[l],
           NEW top, NEW c, NEW open, Sound(T, top, c, open)
    PROVE  Sound(U, top, c, open)
  <1>1. \A l \in Links : Messages(T[l], top) \subseteq Messages(U[l], top)
    BY DEF Messages
  <1>2. \A l \in Links : Seq(Messages(T[l], top)) \subseteq Seq(Messages(U[l], top))
    BY <1>1, Wider
  <1> QED BY <1>2 DEF Sound

(* To every peer but one. *)
LEMMA BroadcastSound ==
    ASSUME NEW T, NEW top, NEW c, Sound(T, top, c, conn), NEW n, NEW except, NEW m,
           \A l \in Links : l[1] = n /\ l[2] # except => m \in Messages(T[l], top)
    PROVE  Sound(T, top, Broadcast(c, n, m, except), conn)
  <1> DEFINE d == Broadcast(c, n, m, except)
             M(l) == Messages(T[l], top)
             Goes(l) == l[1] = n /\ l[2] \in Targets(n, except)
  <1>1. DOMAIN d = Links /\ \A l \in Links : d[l] = IF Goes(l) THEN Append(c[l], m) ELSE c[l]
    BY DEF Broadcast
  <1> HIDE DEF d
  <1>2. \A l \in Links : c[l] \in Seq(M(l)) /\ (c[l] # <<>> => l \in conn)
    BY DEF Sound
  <1>3. \A l \in Links : Goes(l) => l \in conn /\ m \in M(l)
    <2>1. \A l \in Links : Goes(l) => <<l[1], l[2]>> \in conn /\ l[2] # except
      BY DEF Targets, Peers
    <2>2. \A l \in Links : <<l[1], l[2]>> = l
      BY DEF Links
    <2> QED BY <2>1, <2>2
  <1> HIDE DEF M, Goes
  <1>4. ASSUME NEW l \in Links PROVE d[l] \in Seq(M(l)) /\ (d[l] # <<>> => l \in conn)
    <2>1. CASE Goes(l)
      <3>1. d[l] = Append(c[l], m) /\ m \in M(l) /\ c[l] \in Seq(M(l)) /\ l \in conn
        BY <1>1, <1>2, <1>3, <2>1
      <3> QED BY <3>1, AppendProperties
    <2>2. CASE ~Goes(l)
      BY <1>1, <1>2, <2>2
    <2> QED BY <2>1, <2>2
  <1> QED BY <1>1, <1>4 DEF Sound, M, d

(* To one peer. *)
LEMMA ReplySound ==
    ASSUME NEW T, NEW top, NEW c, Sound(T, top, c, conn), NEW n, NEW p,
           <<n, p>> \in Links, <<n, p>> \in conn,
           NEW ms, ms \in Seq(Messages(T[<<n, p>>], top))
    PROVE  Sound(T, top, Reply(c, n, p, ms), conn)
  <1> DEFINE d == Reply(c, n, p, ms)
             M(l) == Messages(T[l], top)
             k == <<n, p>>
  <1>1. DOMAIN c = Links /\ \A l \in Links : c[l] \in Seq(M(l)) /\ (c[l] # <<>> => l \in conn)
    BY DEF Sound
  <1>2. DOMAIN d = Links /\ d[k] = c[k] \o ms /\ \A l \in Links : l # k => d[l] = c[l]
    BY <1>1 DEF Reply
  <1>3. k \in Links /\ k \in conn /\ ms \in Seq(M(k))
    OBVIOUS
  <1> HIDE DEF d, M, k
  <1>4. d[k] \in Seq(M(k))
    BY <1>1, <1>2, <1>3, ConcatProperties
  <1>5. \A l \in Links : d[l] \in Seq(M(l)) /\ (d[l] # <<>> => l \in conn)
    BY <1>1, <1>2, <1>3, <1>4
  <1> QED BY <1>2, <1>5 DEF Sound, M, d

(* What a handler finds on its link, and what it leaves there. *)
LEMMA Handled ==
    ASSUME Open, NEW T, Wires(T), NEW l \in Links, NEW p, NEW n, l = <<p, n>>, Next1(p, n)
    PROVE  /\ p \in Nodes /\ n \in Nodes
           /\ <<n, p>> \in conn /\ <<n, p>> \in Links
           /\ Head(chan[<<p, n>>]) \in Messages(T[l], Len(chain))
           /\ Sound(T, Len(chain), Rest(p, n), conn)
  <1> DEFINE M(k) == Messages(T[k], Len(chain))
             d == Rest(p, n)
  <1>1. p \in Nodes /\ n \in Nodes
    BY DEF Links
  <1>2. DOMAIN chan = Links /\ \A k \in Links : chan[k] \in Seq(M(k)) /\ (chan[k] # <<>> => k \in conn)
    BY DEF Wires, Sound
  <1>3. chan[l] # <<>> /\ chan[l] \in Seq(M(l)) /\ l \in conn
    BY <1>2 DEF Next1
  <1>4. <<n, p>> \in conn /\ <<n, p>> \in Links
    <2>1. <<l[2], l[1]>> \in conn /\ conn \subseteq Links
      BY <1>3 DEF Open
    <2> QED BY <2>1
  <1>5. DOMAIN d = Links /\ d[l] = Tail(chan[l]) /\ \A k \in Links : k # l => d[k] = chan[k]
    BY <1>2 DEF Rest
  <1> HIDE DEF M, d
  <1>6. Head(chan[l]) \in M(l) /\ Tail(chan[l]) \in Seq(M(l))
    BY <1>3, HeadTailProperties
  <1>7. \A k \in Links : d[k] \in Seq(M(k)) /\ (d[k] # <<>> => k \in conn)
    BY <1>2, <1>3, <1>5, <1>6
  <1>8. Sound(T, Len(chain), d, conn)
    BY <1>5, <1>7 DEF Sound, M
  <1> QED BY <1>1, <1>4, <1>6, <1>8 DEF M, d

(* A transaction that goes out if it is new. *)
LEMMA EnqueueSends ==
    ASSUME NEW T, NEW top, NEW c, Sound(T, top, c, conn), NEW n, NEW tx, NEW except,
           Enqueue(c, n, tx, except),
           IsNew(pool[n], tx) => \A l \in Links : l[1] = n /\ l[2] # except => tx \in T[l]
    PROVE  Sound(T, top, chan', conn)
  <1>1. CASE IsNew(pool[n], tx)
    <2>1. \A l \in Links : l[1] = n /\ l[2] # except => TxMsg(tx) \in Messages(T[l], top)
      BY <1>1 DEF Messages
    <2>2. Sound(T, top, Broadcast(c, n, TxMsg(tx), except), conn)
      BY <2>1, BroadcastSound
    <2> QED BY <1>1, <2>2 DEF Enqueue
  <1>2. CASE ~IsNew(pool[n], tx)
    BY <1>2 DEF Enqueue
  <1> QED BY <1>1, <1>2

(* A pool stays within its limit. *)
LEMMA EnqueueAdds ==
    ASSUME Pools, NEW c, NEW n \in Nodes, NEW tx \in Txs, NEW except, Enqueue(c, n, tx, except)
    PROVE  Pools'
  <1>1. DOMAIN pool = Nodes /\ pool' = [pool EXCEPT ![n] = Add(@, tx)]
    BY DEF Pools, Enqueue
  <1>2. \A k \in Nodes : pool'[k] = IF k = n THEN Add(pool[n], tx) ELSE pool[k]
    BY <1>1
  <1> DEFINE P == pool[n]
  <1>3. P \subseteq Txs /\ IsFiniteSet(P) /\ Cardinality(P) <= PoolMax /\ Cardinality(P) \in Nat
    BY FS_CardinalityType DEF Pools
  <1>4. Add(P, tx) \subseteq Txs /\ IsFiniteSet(Add(P, tx)) /\ Cardinality(Add(P, tx)) <= PoolMax
    <2>1. CASE tx \in P \/ Full(P)
      BY <1>3, <2>1 DEF Add
    <2>2. CASE ~(tx \in P \/ Full(P))
      <3>1. Add(P, tx) = P \cup {tx}
        BY <2>2 DEF Add
      <3>2. IsFiniteSet(P \cup {tx}) /\ Cardinality(P \cup {tx}) = Cardinality(P) + 1
        BY <1>3, <2>2, FS_AddElement
      <3>3. Cardinality(P) + 1 <= PoolMax
        BY <1>3, <2>2, Configured DEF Full
      <3> HIDE DEF P
      <3> QED BY <1>3, <3>1, <3>2, <3>3
    <2> QED BY <2>1, <2>2
  <1> HIDE DEF P
  <1>5. \A k \in Nodes : /\ pool[k] \subseteq Txs /\ IsFiniteSet(pool[k])
                         /\ Cardinality(pool[k]) <= PoolMax
    BY DEF Pools
  <1>6. \A k \in Nodes : /\ pool'[k] \subseteq Txs /\ IsFiniteSet(pool'[k])
                         /\ Cardinality(pool'[k]) <= PoolMax
    BY <1>2, <1>4, <1>5 DEF P
  <1>7. DOMAIN pool' = Nodes
    BY <1>1
  <1> QED BY <1>6, <1>7 DEF Pools

(* Smaller pools as well. *)
LEMMA PoolsShrink ==
    ASSUME Pools, DOMAIN pool' = Nodes, \A k \in Nodes : pool'[k] \in SUBSET pool[k]
    PROVE  Pools'
  <1>1. \A k \in Nodes : /\ pool[k] \subseteq Txs /\ IsFiniteSet(pool[k])
                         /\ Cardinality(pool[k]) <= PoolMax
    BY DEF Pools
  <1>2. ASSUME NEW k \in Nodes
        PROVE  /\ pool'[k] \subseteq Txs /\ IsFiniteSet(pool'[k])
               /\ Cardinality(pool'[k]) <= PoolMax
    <2>1. IsFiniteSet(pool'[k]) /\ Cardinality(pool'[k]) <= Cardinality(pool[k])
      BY <1>1, FS_Subset
    <2>2. Cardinality(pool'[k]) \in Nat /\ Cardinality(pool[k]) \in Nat
      BY <1>1, <2>1, FS_CardinalityType
    <2>3. pool'[k] \subseteq Txs
      BY <1>1
    <2> QED BY <1>1, <2>1, <2>2, <2>3, Configured
  <1> QED BY <1>2 DEF Pools

(* What does not change stays as it is. *)
LEMMA Unmoved ==
    /\ Open /\ UNCHANGED <<up, conn>> => Open'
    /\ Blocks /\ UNCHANGED <<chain, have>> => Blocks'
    /\ Pools /\ UNCHANGED pool => Pools'
    /\ Ordered /\ UNCHANGED chain => Ordered'
    /\ Requests /\ UNCHANGED <<plan, up, checked, calls, faucet>> => Requests'
  BY DEF Open, Blocks, Pools, Ordered, History, Requests

(* In the beginning nothing has happened. *)
LEMMA InitHolds ==
    ASSUME Init
    PROVE  Core /\ \A T : Wires(T)
  <1>1. plan \in Plans /\ plan.nodes \subseteq Nodes /\ plan.up \subseteq plan.nodes
        /\ plan.calls \in Nat
    BY PlansBound DEF Init
  <1>2. Open
    <2>1. up \subseteq Nodes /\ conn = {l \in Links : {l[1], l[2]} \subseteq up}
      BY <1>1 DEF Init
    <2>2. \A l \in Links : <<l[2], l[1]>> \in Links
      BY DEF Links
    <2> QED BY <2>1, <2>2 DEF Open
  <1>3. chain = <<>> /\ Len(chain) = 0 /\ chain \in Seq(Seq(Txs))
    BY EmptySeq DEF Init
  <1>4. Blocks
    BY <1>3, Configured DEF Init, Blocks
  <1>5. Pools
    <2>1. IsFiniteSet({}) /\ Cardinality({}) = 0
      BY FS_EmptySet
    <2> QED BY <2>1, Configured DEF Init, Pools
  <1>6. ASSUME NEW T PROVE Wires(T)
    <2>1. ASSUME NEW l \in Links
          PROVE  chan[l] \in Seq(Messages(T[l], Len(chain))) /\ (chan[l] # <<>> => l \in conn)
      <3>1. Hello(0) \in Messages(T[l], Len(chain))
        BY DEF Messages
      <3>2. <<Hello(0)>> \in Seq(Messages(T[l], Len(chain)))
        BY <3>1
      <3>3. <<>> \in Seq(Messages(T[l], Len(chain)))
        BY EmptySeq
      <3> QED BY <3>2, <3>3 DEF Init
    <2>2. DOMAIN chan = Links
      BY DEF Init
    <2> QED BY <2>1, <2>2 DEF Wires, Sound
  <1>7. Requests
    BY <1>1 DEF Init, Requests, NoCall
  <1>8. Ordered
    <2>1. History = <<>> /\ Len(History) = 0
      BY <1>3 DEF History, FlattenSeq
    <2> QED BY <2>1 DEF Ordered, InOrder
  <1> QED BY <1>2, <1>4, <1>5, <1>6, <1>7, <1>8 DEF Core

-----------------------------------------------------------------------------
(***************************************************************************)
(* The faucet and the producer.                                            *)
(***************************************************************************)
(* The nonce that the faucet gives away. *)
LEMMA FaucetNonces ==
    ASSUME IInv, faucet # NoCall, NEW nonce \in PendingNonce(faucet, Faucet)
    PROVE  /\ \E q \in TakeUpTo(pool[Producer], NoncesAt(Producer), PoolMax) :
                 nonce = faucet + Count(q, Faucet)
           /\ nonce \in Nat
           /\ [from |-> Faucet, nonce |-> nonce, tip |-> 4, good |-> TRUE, id |-> calls] \in FaucetTxs
  <1>1. PICK q \in TakeUpTo(pool[Producer], NoncesAt(Producer), PoolMax) :
           nonce = faucet + Cardinality({i \in DOMAIN q : q[i].from = Faucet})
    BY DEF PendingNonce, PendingOf
  <1>2. q \in Seq(Txs)
    BY TakenByProducer, Configured DEF Core, IInv
  <1>3. DOMAIN q = 1..Len(q) /\ Len(q) \in Nat
    BY <1>2, LenProperties
  <1>4. Count(q, Faucet) \in Nat
    BY <1>3, Counting DEF Count
  <1>5. nonce = faucet + Count(q, Faucet) /\ faucet \in Nat
    BY <1>1, <1>3 DEF Count, CountTo, Core, IInv, Requests
  <1>6. nonce \in Nat
    BY <1>4, <1>5
  <1>7. calls \in 1..MaxOf("calls")
    <2>1. plan \in Plans /\ calls \in Nat /\ calls <= plan.calls /\ calls >= 1 /\ plan.calls \in Nat
      BY PlansBound DEF Core, IInv, Requests
    <2>2. MaxOf("calls") \in Nat /\ plan.calls <= MaxOf("calls")
      BY <2>1, CallsBounded
    <2> QED BY <2>1, <2>2
  <1> QED BY <1>1, <1>5, <1>6, <1>7 DEF FaucetTxs

(* The chain with a new block. *)
LEMMA Longer ==
    ASSUME Blocks, Ordered, NEW q \in Seq(Txs), InOrder(q, NoncesAt(Producer)),
           chain' = Append(chain, Executed(q))
    PROVE  /\ Executed(q) \in Seq(Txs)
           /\ History \in Seq(Txs) /\ History' = History \o Executed(q)
           /\ Ordered'
  <1> DEFINE H == History
             e == Executed(q)
  <1>1. /\ e \in Seq(Txs) /\ InOrder(e, NoncesAt(Producer))
        /\ \A i \in 1..Len(e) : e[i].good
    BY ExecutedFacts
  <1>2. H \in Seq(Txs) /\ \A a \in Accounts : NoncesAt(Producer)[a] = Count(H, a) /\ Count(H, a) \in Nat
    <2>1. History \in Seq(Txs)
      BY FlattenTyped DEF Blocks, History
    <2> QED BY <2>1, NonceCounts DEF NoncesAt
  <1>3. History' = H \o e
    BY <1>1, FlattenAppend DEF History, Blocks
  <1> HIDE DEF H, e
  <1>4. \A i \in 1..Len(e) : e[i].from \in Accounts
    BY <1>1, ElementOfSeq, TxFacts
  <1>5. \A i \in 1..Len(e) :
           e[i].nonce = Zero[e[i].from] + (Count(H, e[i].from) + CountTo(e, i - 1, e[i].from))
    <2>1. ASSUME NEW i \in 1..Len(e)
          PROVE  e[i].nonce = Zero[e[i].from] + (Count(H, e[i].from) + CountTo(e, i - 1, e[i].from))
      <3> DEFINE a == e[i].from
      <3>1. a \in Accounts /\ Zero[a] = 0 /\ NoncesAt(Producer)[a] = Count(H, a) /\ Count(H, a) \in Nat
        BY <1>2, <1>4 DEF Zero
      <3>2. e[i].nonce = NoncesAt(Producer)[a] + CountTo(e, i - 1, a)
        BY <1>1 DEF InOrder
      <3>3. i - 1 \in Nat
        BY <1>1, LenProperties
      <3>4. CountTo(e, i - 1, a) \in Nat
        BY <3>3, Counting
      <3> HIDE DEF a
      <3>5. e[i].nonce = Zero[a] + (Count(H, a) + CountTo(e, i - 1, a))
        BY <3>1, <3>2, <3>4
      <3> QED BY <3>5 DEF a
    <2> QED BY <2>1
  <1>6. InOrder(H, Zero) /\ \A i \in 1..Len(H) : H[i].good
    BY DEF Ordered, H
  <1>7. InOrder(H \o e, Zero)
    BY <1>1, <1>2, <1>5, <1>6, OrderConcat
  <1>8. \A i \in 1..Len(H \o e) : (H \o e)[i].good
    <2>1. /\ Len(H) \in Nat /\ Len(e) \in Nat /\ Len(H \o e) = Len(H) + Len(e)
          /\ \A i \in 1..(Len(H) + Len(e)) : (H \o e)[i] = IF i <= Len(H) THEN H[i] ELSE e[i - Len(H)]
      BY <1>1, <1>2, ConcatProperties, LenProperties
    <2>2. ASSUME NEW i \in 1..(Len(H) + Len(e)) PROVE (H \o e)[i].good
      <3>1. CASE i <= Len(H)
        <4>1. i \in 1..Len(H) /\ (H \o e)[i] = H[i]
          BY <2>1, <3>1
        <4> QED BY <1>6, <4>1
      <3>2. CASE ~(i <= Len(H))
        <4>1. i - Len(H) \in 1..Len(e) /\ (H \o e)[i] = e[i - Len(H)]
          BY <2>1, <3>2
        <4> QED BY <1>1, <4>1
      <3> QED BY <3>1, <3>2
    <2> QED BY <2>1, <2>2
  <1>9. Ordered'
    BY <1>3, <1>7, <1>8 DEF Ordered
  <1> QED BY <1>1, <1>2, <1>3, <1>9 DEF H, e

-----------------------------------------------------------------------------
(***************************************************************************)
(* Every step keeps the messages within what the links may carry.          *)
(***************************************************************************)
Sending(T, U) == IInv /\ Wires(T) /\ Passes(T, U)

(* What the faucet sends. *)
FaucetGoes(U) ==
    \A tx \in FaucetTxs :
        Enqueue(chan, Producer, tx, Producer) /\ IsNew(pool[Producer], tx)
            => \A l \in Links : l[1] = Producer => tx \in U[l]

(* Nothing is lost of what could be on its way. *)
LEMMA Before ==
    ASSUME NEW T, NEW U, Sending(T, U)
    PROVE  Sound(U, Len(chain), chan, conn)
  BY SoundWidens DEF Sending, Passes, Wires

(* SubmitTx, its second half. *)
LEMMA AddCheckedSends ==
    ASSUME NEW T, NEW U, Sending(T, U), NEW n, NEW tx \in UserTxs, AddChecked(n, tx)
    PROVE  Sound(U, Len(chain'), chan', conn')
  <1>1. Enqueue(chan, n, tx, n) /\ UNCHANGED <<conn, chain>>
    BY DEF AddChecked
  <1>2. \A l \in Links : tx \in U[l]
    BY DEF Sending, Passes
  <1>3. Sound(U, Len(chain), chan', conn)
    BY <1>1, <1>2, Before, EnqueueSends
  <1> QED BY <1>1, <1>3

(* FaucetSend. *)
LEMMA FaucetSends ==
    ASSUME NEW T, NEW U, Sending(T, U), FaucetSend, FaucetGoes(U)
    PROVE  Sound(U, Len(chain'), chan', conn')
  <1>1. UNCHANGED <<conn, chain>> /\ faucet # NoCall
    BY DEF FaucetSend
  <1>2. PICK nonce \in PendingNonce(faucet, Faucet) :
           IF nonce < NonceOf(Producer, Faucet)
           THEN UNCHANGED <<pool, chan, refused>>
           ELSE Enqueue(chan, Producer,
                     [from |-> Faucet, nonce |-> nonce, tip |-> 4, good |-> TRUE, id |-> calls],
                     Producer)
    BY DEF FaucetSend
  <1>3. CASE UNCHANGED chan
    BY <1>1, <1>3, Before
  <1>4. CASE ~UNCHANGED chan
    <2> DEFINE tx == [from |-> Faucet, nonce |-> nonce, tip |-> 4, good |-> TRUE, id |-> calls]
    <2>1. tx \in FaucetTxs
      BY <1>1, FaucetNonces DEF Sending
    <2>2. Enqueue(chan, Producer, tx, Producer)
      BY <1>2, <1>4
    <2> HIDE DEF tx
    <2>3. IsNew(pool[Producer], tx) => \A l \in Links : l[1] = Producer => tx \in U[l]
      BY <2>1, <2>2 DEF FaucetGoes
    <2>4. Sound(U, Len(chain), chan', conn)
      BY <2>2, <2>3, Before, EnqueueSends
    <2> QED BY <1>1, <2>4
  <1> QED BY <1>3, <1>4

(* ProduceOnce. *)
LEMMA ProduceSends ==
    ASSUME NEW T, NEW U, Sending(T, U), NEW q, Produce(q), Len(chain') = Len(chain) + 1
    PROVE  Sound(U, Len(chain'), chan', conn')
  <1> DEFINE top == Len(chain)
  <1>1. top \in Nat
    BY LenProperties DEF Sending, IInv, Core, Blocks
  <1>2. conn' = conn /\ chan' = Broadcast(chan, Producer, Block(top + 1), Producer)
    BY DEF Produce
  <1>3. Sound(U, top, chan, conn)
    BY Before
  <1>4. Len(chain') = top + 1
    OBVIOUS
  <1> HIDE DEF top
  <1>5. Sound(U, top + 1, chan, conn)
    <2>1. \A l \in Links : Seq(Messages(U[l], top)) \subseteq Seq(Messages(U[l], top + 1))
      BY <1>1, MessagesGrow, Wider
    <2> QED BY <1>3, <2>1 DEF Sound
  <1>6. \A l \in Links : Block(top + 1) \in Messages(U[l], top + 1)
    BY <1>1 DEF Messages
  <1>7. Sound(U, top + 1, chan', conn)
    BY <1>2, <1>5, <1>6, BroadcastSound
  <1> QED BY <1>2, <1>4, <1>7

(* handlePeer, the greeting. *)
LEMMA OnHelloSends ==
    ASSUME NEW T, NEW U, Sending(T, U), NEW l \in Links, NEW p, NEW n, l = <<p, n>>, OnHello(p, n)
    PROVE  Sound(U, Len(chain'), chan', conn')
  <1>1. Next1(p, n) /\ UNCHANGED chain /\ Open /\ Wires(U)
    BY Before DEF OnHello, Sending, IInv, Core, Wires
  <1>2. /\ n \in Nodes /\ <<n, p>> \in conn /\ <<n, p>> \in Links
        /\ Sound(U, Len(chain), Rest(p, n), conn)
    BY <1>1, Handled
  <1>3. CASE Compatible(n, p)
    <2>1. UNCHANGED conn
          /\ \/ chan' = Rest(p, n)
             \/ chan' = Reply(Rest(p, n), n, p, <<GetBlocks(RequestFrom(n))>>)
      BY <1>3 DEF OnHello
    <2>2. GetBlocks(RequestFrom(n)) \in Messages(U[<<n, p>>], Len(chain))
      <3>1. have[n] \in Nat
        BY <1>2 DEF Sending, IInv, Core, Blocks
      <3> QED BY <3>1 DEF Messages, RequestFrom
    <2>3. <<GetBlocks(RequestFrom(n))>> \in Seq(Messages(U[<<n, p>>], Len(chain)))
      BY <2>2
    <2>4. Sound(U, Len(chain), Reply(Rest(p, n), n, p, <<GetBlocks(RequestFrom(n))>>), conn)
      BY <1>2, <2>3, ReplySound
    <2> QED BY <1>1, <1>2, <2>1, <2>4
  <1>4. CASE ~Compatible(n, p)
    <2>1. /\ conn' = conn \ {<<p, n>>, <<n, p>>}
          /\ chan' = [chan EXCEPT ![<<p, n>>] = <<>>, ![<<n, p>>] = <<>>]
      BY <1>4 DEF OnHello
    <2>2. DOMAIN chan = Links
          /\ \A k \in Links : /\ chan[k] \in Seq(Messages(U[k], Len(chain)))
                              /\ chan[k] # <<>> => k \in conn
      BY <1>1 DEF Wires, Sound
    <2>3. DOMAIN chan' = Links
          /\ \A k \in Links : /\ k \in {<<p, n>>, <<n, p>>} => chan'[k] = <<>>
                              /\ k \notin {<<p, n>>, <<n, p>>} => chan'[k] = chan[k]
      BY <2>1, <2>2
    <2>4. \A k \in Links : <<>> \in Seq(Messages(U[k], Len(chain)))
      BY EmptySeq
    <2>5. \A k \in Links : /\ chan'[k] \in Seq(Messages(U[k], Len(chain)))
                           /\ chan'[k] # <<>> => k \in conn'
      BY <2>1, <2>2, <2>3, <2>4
    <2> QED BY <1>1, <2>3, <2>5 DEF Sound
  <1> QED BY <1>3, <1>4

(* handlePeer, a transaction. *)
LEMMA OnTxSends ==
    ASSUME NEW T, NEW U, Sending(T, U), NEW l \in Links, NEW p, NEW n, l = <<p, n>>, OnTx(p, n)
    PROVE  /\ Head(chan[<<p, n>>]).tx \in T[l]
           /\ Sound(U, Len(chain'), chan', conn')
  <1> DEFINE m == Head(chan[<<p, n>>])
  <1>1. Next1(p, n) /\ UNCHANGED <<chain, conn>> /\ m.type = "tx"
    BY DEF OnTx, CheckTx, AddTx
  <1>2. Open /\ Wires(T) /\ Wires(U)
    BY Before DEF Sending, IInv, Core, Wires
  <1>3. m \in Messages(T[l], Len(chain)) /\ Sound(U, Len(chain), Rest(p, n), conn)
    BY <1>1, <1>2, Handled
  <1>4. \/ UNCHANGED chan
        \/ chan' = Rest(p, n)
        \/ Enqueue(Rest(p, n), n, m.tx, p)
    BY DEF OnTx, CheckTx, AddTx
  <1> HIDE DEF m
  <1>5. m.tx \in T[l]
    BY <1>1, <1>3, Kinds
  <1>6. \A k \in Links : k[1] = n /\ k[2] # p => m.tx \in U[k]
    BY <1>5 DEF Sending, Passes
  <1>7. Sound(U, Len(chain), chan', conn)
    <2>1. CASE chan' = Rest(p, n)
      BY <1>3, <2>1
    <2>2. CASE Enqueue(Rest(p, n), n, m.tx, p)
      BY <1>3, <1>6, <2>2, EnqueueSends
    <2>3. CASE UNCHANGED chan
      BY <1>2, <2>3 DEF Wires
    <2> QED BY <1>4, <2>1, <2>2, <2>3
  <1> QED BY <1>1, <1>5, <1>7 DEF m

(* handlePeer, a block. *)
LEMMA OnBlockSends ==
    ASSUME NEW T, NEW U, Sending(T, U), NEW l \in Links, NEW p, NEW n, l = <<p, n>>, OnBlock(p, n)
    PROVE  /\ Head(chan[<<p, n>>]).height \in 1..Len(chain)
           /\ Sound(U, Len(chain'), chan', conn')
  <1> DEFINE m == Head(chan[<<p, n>>])
  <1>1. Next1(p, n) /\ UNCHANGED <<chain, conn>> /\ m.type = "block"
    BY DEF OnBlock
  <1>2. Open /\ Wires(U)
    BY Before DEF Sending, IInv, Core, Wires
  <1>3. /\ n \in Nodes /\ m \in Messages(U[l], Len(chain))
        /\ <<n, p>> \in conn /\ <<n, p>> \in Links
        /\ Sound(U, Len(chain), Rest(p, n), conn)
    BY <1>1, <1>2, Handled
  <1>4. chan' = Reply(Rest(p, n), n, p, <<GetBlocks(RequestFrom(n))>>)
        \/ chan' = Broadcast(Rest(p, n), n, m, p)
    BY DEF OnBlock
  <1> HIDE DEF m
  <1>5. m.height \in 1..Len(chain) /\ m = Block(m.height)
    BY <1>1, <1>3, Kinds
  <1>6. GetBlocks(RequestFrom(n)) \in Messages(U[<<n, p>>], Len(chain))
    <2>1. have[n] \in Nat
      BY <1>3 DEF Sending, IInv, Core, Blocks
    <2> QED BY <2>1 DEF Messages, RequestFrom
  <1>7. <<GetBlocks(RequestFrom(n))>> \in Seq(Messages(U[<<n, p>>], Len(chain)))
    BY <1>6
  <1>8. Sound(U, Len(chain), Reply(Rest(p, n), n, p, <<GetBlocks(RequestFrom(n))>>), conn)
    BY <1>3, <1>7, ReplySound
  <1>9. \A k \in Links : m \in Messages(U[k], Len(chain))
    BY <1>5 DEF Messages
  <1>10. Sound(U, Len(chain), Broadcast(Rest(p, n), n, m, p), conn)
    BY <1>3, <1>9, BroadcastSound
  <1> QED BY <1>1, <1>4, <1>5, <1>8, <1>10 DEF m

(* A batch holds blocks that the node has. *)
LEMMA BatchOfBlocks ==
    ASSUME NEW n, have[n] \in Nat, NEW from \in Nat \ {0}, NEW T, NEW top \in Nat, have[n] <= top
    PROVE  Batch(n, from) \in Seq(Messages(T, top))
  <1> DEFINE S == {h \in 1..have[n] : h >= from /\ h < from + SyncBatch}
             k == Cardinality(S)
  <1>1. IsFiniteSet(from..have[n])
        /\ Cardinality(from..have[n]) = IF from > have[n] THEN 0 ELSE have[n] - from + 1
    <2> DEFINE b == have[n]
    <2>1. from \in Int /\ b \in Int
      OBVIOUS
    <2> HIDE DEF b
    <2>2. IsFiniteSet(from..b) /\ Cardinality(from..b) = IF from > b THEN 0 ELSE b - from + 1
      BY <2>1, FS_Interval
    <2> QED BY <2>2 DEF b
  <1>2. S \in SUBSET (from..have[n])
    OBVIOUS
  <1> HIDE DEF S
  <1>3. k \in Nat /\ k <= Cardinality(from..have[n])
    BY <1>1, <1>2, FS_Subset, FS_CardinalityType
  <1>4. Batch(n, from) = [i \in 1..k |-> Block(from + i - 1)]
    BY DEF Batch, S
  <1> HIDE DEF k
  <1>5. \A i \in 1..k : from + i - 1 \in 1..top
    BY <1>1, <1>3
  <1>6. \A i \in 1..k : Block(from + i - 1) \in Messages(T, top)
    BY <1>5 DEF Messages
  <1>7. [i \in 1..k |-> Block(from + i - 1)] \in [1..k -> Messages(T, top)]
    BY <1>6
  <1> DEFINE g == [i \in 1..k |-> Block(from + i - 1)]
             M == Messages(T, top)
  <1>8. g \in [1..k -> M] /\ k \in Nat
    BY <1>3, <1>7
  <1> HIDE DEF g, M
  <1>9. g \in Seq(M)
    BY <1>8, SeqDef
  <1> QED BY <1>4, <1>9 DEF g, M

(* handlePeer, a request. *)
LEMMA OnGetBlocksSends ==
    ASSUME NEW T, NEW U, Sending(T, U), NEW l \in Links, NEW p, NEW n, l = <<p, n>>,
           OnGetBlocks(p, n)
    PROVE  Sound(U, Len(chain'), chan', conn')
  <1> DEFINE m == Head(chan[<<p, n>>])
  <1>1. Next1(p, n) /\ UNCHANGED <<chain, conn>> /\ m.type = "get"
    BY DEF OnGetBlocks
  <1>2. Open /\ Wires(U)
    BY Before DEF Sending, IInv, Core, Wires
  <1>3. /\ n \in Nodes /\ m \in Messages(U[l], Len(chain))
        /\ <<n, p>> \in conn /\ <<n, p>> \in Links
        /\ Sound(U, Len(chain), Rest(p, n), conn)
    BY <1>1, <1>2, Handled
  <1>4. have[n] \in Nat /\ have[n] <= Len(chain) /\ Len(chain) \in Nat
    BY <1>3, LenProperties DEF Sending, IInv, Core, Blocks
  <1>5. chan' = Reply(Rest(p, n), n, p, Batch(n, m.height))
    BY DEF OnGetBlocks
  <1> HIDE DEF m
  <1>6. m.height \in Nat \ {0}
    BY <1>1, <1>3, Kinds
  <1>7. Batch(n, m.height) \in Seq(Messages(U[<<n, p>>], Len(chain)))
    BY <1>4, <1>6, BatchOfBlocks
  <1>8. Sound(U, Len(chain), chan', conn)
    BY <1>3, <1>5, <1>7, ReplySound
  <1> QED BY <1>1, <1>8

(* A crash. *)
LEMMA CrashSends ==
    ASSUME NEW T, NEW U, Sending(T, U), NEW n, Crash(n)
    PROVE  Sound(U, Len(chain'), chan', conn')
  <1>1. /\ UNCHANGED chain
        /\ conn' = {l \in conn : n \notin {l[1], l[2]}}
        /\ chan' = [l \in Links |-> IF n \in {l[1], l[2]} THEN <<>> ELSE chan[l]]
    BY DEF Crash
  <1>2. \A k \in Links : /\ chan[k] \in Seq(Messages(U[k], Len(chain)))
                         /\ chan[k] # <<>> => k \in conn
    BY Before DEF Sound
  <1>3. \A k \in Links : <<>> \in Seq(Messages(U[k], Len(chain)))
    BY EmptySeq
  <1>4. DOMAIN chan' = Links
        /\ \A k \in Links : /\ chan'[k] \in Seq(Messages(U[k], Len(chain)))
                            /\ chan'[k] # <<>> => k \in conn'
    BY <1>1, <1>2, <1>3
  <1> QED BY <1>1, <1>4 DEF Sound

(* A start. *)
LEMMA StartSends ==
    ASSUME NEW T, NEW U, Sending(T, U), NEW n, Start(n)
    PROVE  Sound(U, Len(chain'), chan', conn')
  <1> DEFINE new == {<<n, p>> : p \in Dials[n] \cap up} \cup {<<p, n>> : p \in Dials[n] \cap up}
  <1>1. /\ UNCHANGED chain
        /\ conn' = conn \cup new
        /\ chan' = [l \in Links |-> IF l \in new THEN <<Hello(have[l[1]])>> ELSE chan[l]]
    BY DEF Start
  <1> HIDE DEF new
  <1>2. \A k \in Links : /\ chan[k] \in Seq(Messages(U[k], Len(chain)))
                         /\ chan[k] # <<>> => k \in conn
    BY Before DEF Sound
  <1>3. \A k \in Links : <<Hello(have[k[1]])>> \in Seq(Messages(U[k], Len(chain)))
    <2>1. \A k \in Links : have[k[1]] \in Nat
      BY DEF Sending, IInv, Core, Blocks, Links
    <2>2. \A k \in Links : Hello(have[k[1]]) \in Messages(U[k], Len(chain))
      BY <2>1 DEF Messages
    <2> QED BY <2>2
  <1>4. DOMAIN chan' = Links
        /\ \A k \in Links : /\ chan'[k] \in Seq(Messages(U[k], Len(chain)))
                            /\ chan'[k] # <<>> => k \in conn'
    BY <1>1, <1>2, <1>3
  <1> QED BY <1>1, <1>4 DEF Sound

-----------------------------------------------------------------------------
(***************************************************************************)
(* Every step keeps the invariant.                                         *)
(***************************************************************************)
(* SubmitTx. *)
LEMMA SubmitKeeps ==
    ASSUME IInv, NEW n \in Entries, NEW tx \in UserTxs, Submit(n, tx)
    PROVE  Core'
  <1>1. Requests'
    BY DEF IInv, Core, Requests, Submit
  <1>2. UNCHANGED <<up, conn, chain, have, pool>>
    BY DEF Submit
  <1> QED BY <1>1, <1>2, Unmoved DEF IInv, Core

(* ... and its second half. *)
LEMMA AddCheckedKeeps ==
    ASSUME IInv, NEW n \in Entries, NEW tx \in UserTxs, AddChecked(n, tx)
    PROVE  Core'
  <1>1. Requests'
    BY DEF IInv, Core, Requests, AddChecked
  <1>2. UNCHANGED <<up, conn, chain, have>> /\ Enqueue(chan, n, tx, n)
    BY DEF AddChecked
  <1>3. n \in Nodes /\ tx \in Txs
    BY Configured, TxFacts
  <1>4. Pools'
    BY <1>2, <1>3, EnqueueAdds DEF IInv, Core
  <1> QED BY <1>1, <1>2, <1>4, Unmoved DEF IInv, Core

(* FaucetSend reads the nonce ... *)
LEMMA FaucetReadKeeps ==
    ASSUME IInv, FaucetRead
    PROVE  Core'
  <1>1. NonceOf(Producer, Faucet) \in Nat
    BY NonceCounts, TxsTyped DEF IInv, Core
  <1>2. plan.calls \in Nat
    BY PlansBound DEF IInv, Core, Requests
  <1>3. Requests'
    BY <1>1, <1>2 DEF IInv, Core, Requests, FaucetRead
  <1>4. UNCHANGED <<up, conn, chain, have, pool>>
    BY DEF FaucetRead
  <1> QED BY <1>3, <1>4, Unmoved DEF IInv, Core

(* ... and adds what it signed. *)
LEMMA FaucetSendKeeps ==
    ASSUME IInv, FaucetSend
    PROVE  Core'
  <1>1. Requests'
    BY DEF IInv, Core, Requests, FaucetSend
  <1>2. UNCHANGED <<up, conn, chain, have>> /\ faucet # NoCall
    BY DEF FaucetSend
  <1>3. Pools'
    <2>1. PICK nonce \in PendingNonce(faucet, Faucet) :
             \/ UNCHANGED pool
             \/ Enqueue(chan, Producer,
                     [from |-> Faucet, nonce |-> nonce, tip |-> 4, good |-> TRUE, id |-> calls],
                     Producer)
      BY DEF FaucetSend
    <2>2. CASE UNCHANGED pool
      BY <2>2, Unmoved DEF IInv, Core
    <2>3. CASE Enqueue(chan, Producer,
                     [from |-> Faucet, nonce |-> nonce, tip |-> 4, good |-> TRUE, id |-> calls],
                     Producer)
      <3>1. [from |-> Faucet, nonce |-> nonce, tip |-> 4, good |-> TRUE, id |-> calls] \in Txs
        BY <1>2, FaucetNonces, TxFacts
      <3> QED BY <2>3, <3>1, EnqueueAdds, Configured DEF IInv, Core
    <2> QED BY <2>1, <2>2, <2>3
  <1> QED BY <1>1, <1>2, <1>3, Unmoved DEF IInv, Core

(* ProduceOnce. *)
LEMMA ProduceKeeps ==
    ASSUME IInv, NEW q \in Take(pool[Producer], NoncesAt(Producer)), Produce(q)
    PROVE  Core' /\ Len(chain') = Len(chain) + 1
  <1>1. q \in Seq(Txs) /\ InOrder(q, NoncesAt(Producer))
    BY TakenByProducer, Configured DEF IInv, Core, Take
  <1>2. chain' = Append(chain, Executed(q))
    BY DEF Produce
  <1>3. Executed(q) \in Seq(Txs) /\ Ordered'
    BY <1>1, <1>2, Longer DEF IInv, Core
  <1>4. Open' /\ Requests'
    BY Unmoved DEF IInv, Core, Produce
  <1> DEFINE top == Len(chain)
  <1>5. chain' \in Seq(Seq(Txs)) /\ Len(chain') = top + 1 /\ top \in Nat
    BY <1>2, <1>3, AppendProperties, LenProperties DEF IInv, Core, Blocks
  <1>6. Blocks'
    <2>1. have' = [have EXCEPT ![Producer] = @ + 1]
      BY DEF Produce
    <2>2. have \in [Nodes -> Nat] /\ have[Producer] = top /\ \A n \in Nodes : have[n] <= top
      BY DEF IInv, Core, Blocks
    <2> HIDE DEF top
    <2>3. have' \in [Nodes -> Nat] /\ have'[Producer] = top + 1 /\ \A n \in Nodes : have'[n] <= top + 1
      BY <1>5, <2>1, <2>2, Configured
    <2> QED BY <1>5, <2>3 DEF Blocks
  <1>7. Pools'
    <2>1. DOMAIN pool = Nodes /\ pool' = [pool EXCEPT ![Producer] = @ \ Range(q)]
      BY DEF IInv, Core, Pools, Produce
    <2>2. DOMAIN pool' = Nodes /\ \A k \in Nodes : pool'[k] \in SUBSET pool[k]
      BY <2>1
    <2> QED BY <2>2, PoolsShrink DEF IInv, Core
  <1> QED BY <1>3, <1>4, <1>5, <1>6, <1>7 DEF Core

(* handlePeer, the greeting. *)
LEMMA OnHelloKeeps ==
    ASSUME IInv, NEW l \in Links, NEW p, NEW n, l = <<p, n>>, OnHello(p, n)
    PROVE  Core'
  <1>1. UNCHANGED <<plan, up, chain, have, pool, checked, calls, faucet>>
    BY DEF OnHello
  <1>2. CASE UNCHANGED conn
    BY <1>1, <1>2, Unmoved DEF IInv, Core
  <1>3. CASE conn' = conn \ {<<p, n>>, <<n, p>>}
    <2>1. up \subseteq Nodes /\ conn \subseteq Links
          /\ \A k \in conn : <<k[2], k[1]>> \in conn /\ k[1] \in up /\ k[2] \in up
      BY DEF IInv, Core, Open
    <2>2. \A k \in Links : <<k[2], k[1]>> \in {<<p, n>>, <<n, p>>} => k \in {<<p, n>>, <<n, p>>}
      <3>1. \A k \in Links : k = <<k[1], k[2]>>
        BY DEF Links
      <3> QED BY <3>1
    <2>3. \A k \in conn' : <<k[2], k[1]>> \in conn' /\ k[1] \in up /\ k[2] \in up
      BY <1>3, <2>1, <2>2
    <2>4. Open'
      BY <1>1, <1>3, <2>1, <2>3 DEF Open
    <2> QED BY <1>1, <2>4, Unmoved DEF IInv, Core
  <1> QED BY <1>2, <1>3 DEF OnHello

(* handlePeer, a transaction. *)
LEMMA OnTxKeeps ==
    ASSUME IInv, NEW l \in Links, NEW p, NEW n, l = <<p, n>>, OnTx(p, n)
    PROVE  Core'
  <1> DEFINE m == Head(chan[<<p, n>>])
  <1>1. UNCHANGED <<plan, up, conn, chain, have, checked, calls, faucet>>
    BY DEF OnTx, CheckTx, AddTx
  <1>2. \/ UNCHANGED pool
        \/ Enqueue(Rest(p, n), n, m.tx, p)
    BY DEF OnTx, CheckTx, AddTx
  <1>3. m.tx \in Txs /\ n \in Nodes
    <2>1. Sending(Everything, Everything)
      BY TxFacts DEF Sending, IInv, Passes, Everything
    <2>2. m.tx \in Everything[l]
      BY <2>1, OnTxSends
    <2> HIDE DEF m
    <2> QED BY <2>2 DEF Everything, Links
  <1> HIDE DEF m
  <1>4. Pools'
    <2>1. CASE UNCHANGED pool
      BY <2>1, Unmoved DEF IInv, Core
    <2>2. CASE Enqueue(Rest(p, n), n, m.tx, p)
      BY <1>3, <2>2, EnqueueAdds DEF IInv, Core
    <2> QED BY <1>2, <2>1, <2>2
  <1> QED BY <1>1, <1>4, Unmoved DEF IInv, Core

(* handlePeer, a block. *)
LEMMA OnBlockKeeps ==
    ASSUME IInv, NEW l \in Links, NEW p, NEW n, l = <<p, n>>, OnBlock(p, n)
    PROVE  Core' /\ (n = Producer => UNCHANGED pool)
  <1> DEFINE m == Head(chan[<<p, n>>])
  <1>1. UNCHANGED <<plan, up, conn, chain, checked, calls, faucet>>
    BY DEF OnBlock
  <1>2. m.height \in 1..Len(chain)
    <2>1. Sending(Everything, Everything)
      BY TxFacts DEF Sending, IInv, Passes, Everything
    <2> QED BY <2>1, OnBlockSends
  <1>3. n \in Nodes
    BY DEF Links
  <1>4. /\ have \in [Nodes -> Nat] /\ have[Producer] = Len(chain) /\ Len(chain) \in Nat
        /\ \A k \in Nodes : have[k] <= Len(chain)
    BY LenProperties DEF IInv, Core, Blocks
  <1>5. \/ UNCHANGED <<have, pool>>
        \/ /\ m.height = have[n] + 1
           /\ have' = [have EXCEPT ![n] = @ + 1]
           /\ pool' = [pool EXCEPT ![n] = @ \ Range(chain[m.height])]
    <2>1. \/ UNCHANGED <<have, pool>>
          \/ /\ ~(m.height > have[n] + 1) /\ ~(m.height <= have[n])
             /\ have' = [have EXCEPT ![n] = @ + 1]
             /\ pool' = [pool EXCEPT ![n] = @ \ Range(chain[m.height])]
      BY DEF OnBlock
    <2> HIDE DEF m
    <2> QED BY <1>2, <1>3, <1>4, <2>1
  <1> HIDE DEF m
  <1>6. n = Producer => UNCHANGED pool
    BY <1>2, <1>4, <1>5
  <1>7. Blocks' /\ Pools'
    <2>1. CASE UNCHANGED <<have, pool>>
      BY <1>1, <2>1, Unmoved DEF IInv, Core
    <2>2. CASE /\ m.height = have[n] + 1
               /\ have' = [have EXCEPT ![n] = @ + 1]
               /\ pool' = [pool EXCEPT ![n] = @ \ Range(chain[m.height])]
      <3>1. n # Producer
        BY <1>2, <1>4, <2>2
      <3>2. /\ have' \in [Nodes -> Nat] /\ have'[Producer] = Len(chain)
            /\ \A k \in Nodes : have'[k] <= Len(chain)
        BY <1>2, <1>3, <1>4, <2>2, <3>1, Configured
      <3>3. Blocks'
        BY <1>1, <3>2 DEF IInv, Core, Blocks
      <3>4. DOMAIN pool = Nodes
        BY DEF IInv, Core, Pools
      <3>5. DOMAIN pool' = Nodes /\ \A k \in Nodes : pool'[k] \in SUBSET pool[k]
        BY <2>2, <3>4
      <3>6. Pools'
        BY <3>5, PoolsShrink DEF IInv, Core
      <3> QED BY <3>3, <3>6
    <2> QED BY <1>5, <2>1, <2>2
  <1> QED BY <1>1, <1>6, <1>7, Unmoved DEF IInv, Core

(* handlePeer, a request. *)
LEMMA OnGetBlocksKeeps ==
    ASSUME IInv, NEW p, NEW n, OnGetBlocks(p, n)
    PROVE  Core'
  BY Unmoved DEF IInv, Core, OnGetBlocks

(* A crash. *)
LEMMA CrashKeeps ==
    ASSUME IInv, NEW n \in Nodes, Crash(n)
    PROVE  Core'
  <1>1. /\ UNCHANGED <<plan, chain, have, calls>>
        /\ up' = up \ {n}
        /\ conn' = {l \in conn : n \notin {l[1], l[2]}}
        /\ pool' = [pool EXCEPT ![n] = {}]
        /\ checked' = {c \in checked : c[1] # n}
        /\ faucet' = IF n = Producer THEN NoCall ELSE faucet
    BY DEF Crash
  <1>2. Open'
    <2>1. up \subseteq Nodes /\ conn \subseteq Links
          /\ \A k \in conn : <<k[2], k[1]>> \in conn /\ k[1] \in up /\ k[2] \in up
      BY DEF IInv, Core, Open
    <2>2. \A k \in conn' : <<k[2], k[1]>> \in conn' /\ k[1] \in up' /\ k[2] \in up'
      BY <1>1, <2>1
    <2> QED BY <1>1, <2>1, <2>2 DEF Open
  <1>3. Pools'
    <2>1. DOMAIN pool = Nodes
      BY DEF IInv, Core, Pools
    <2>2. DOMAIN pool' = Nodes /\ \A k \in Nodes : pool'[k] \in SUBSET pool[k]
      BY <1>1, <2>1
    <2> QED BY <2>2, PoolsShrink DEF IInv, Core
  <1>4. Requests'
    BY <1>1 DEF IInv, Core, Requests
  <1> QED BY <1>1, <1>2, <1>3, <1>4, Unmoved DEF IInv, Core

(* A start. *)
LEMMA StartKeeps ==
    ASSUME IInv, NEW n \in Nodes, Start(n)
    PROVE  Core'
  <1> DEFINE new == {<<n, p>> : p \in Dials[n] \cap up} \cup {<<p, n>> : p \in Dials[n] \cap up}
  <1>1. /\ UNCHANGED <<plan, chain, have, pool, checked, calls, faucet>>
        /\ up' = up \cup {n}
        /\ conn' = conn \cup new
    BY DEF Start
  <1>2. /\ new \subseteq Links
        /\ \A k \in new : <<k[2], k[1]>> \in new /\ k[1] \in up \cup {n} /\ k[2] \in up \cup {n}
    <2>1. up \subseteq Nodes
      BY DEF IInv, Core, Open
    <2> QED BY <2>1 DEF Links
  <1> HIDE DEF new
  <1>3. Open'
    <2>1. up \subseteq Nodes /\ conn \subseteq Links
          /\ \A k \in conn : <<k[2], k[1]>> \in conn /\ k[1] \in up /\ k[2] \in up
      BY DEF IInv, Core, Open
    <2> QED BY <1>1, <1>2, <2>1 DEF Open
  <1>4. Requests'
    BY <1>1 DEF IInv, Core, Requests
  <1> QED BY <1>1, <1>3, <1>4, Unmoved DEF IInv, Core

(* Every step. *)
LEMMA NextKeeps ==
    ASSUME IInv, [Next]_vars
    PROVE  Core'
  <1>1. CASE UNCHANGED vars
    BY <1>1, Unmoved DEF IInv, Core, vars
  <1>2. CASE \E n \in Entries, tx \in UserTxs : Submit(n, tx) \/ AddChecked(n, tx)
    BY <1>2, SubmitKeeps, AddCheckedKeeps
  <1>3. CASE FaucetRead
    BY <1>3, FaucetReadKeeps
  <1>4. CASE FaucetSend
    BY <1>4, FaucetSendKeeps
  <1>5. CASE Work
    BY <1>5, ProduceKeeps DEF Work
  <1>6. ASSUME NEW l \in Links, Receive(l) PROVE Core'
    <2>1. l = <<l[1], l[2]>>
      BY DEF Links
    <2> QED BY <1>6, <2>1, OnHelloKeeps, OnTxKeeps, OnBlockKeeps, OnGetBlocksKeeps DEF Receive
  <1>7. CASE \E n \in Nodes : Crash(n) \/ Start(n)
    BY <1>7, CrashKeeps, StartKeeps
  <1> QED BY <1>1, <1>2, <1>3, <1>4, <1>5, <1>6, <1>7 DEF Next

(* ... and what it sends. *)
LEMMA NextSends ==
    ASSUME NEW T, NEW U, Sending(T, U), FaucetGoes(U), [Next]_vars
    PROVE  Sound(U, Len(chain'), chan', conn')
  <1>1. ASSUME UNCHANGED <<chan, conn, chain>> PROVE Sound(U, Len(chain'), chan', conn')
    BY <1>1, Before
  <1>2. CASE UNCHANGED vars
    BY <1>1, <1>2 DEF vars
  <1>3. ASSUME NEW n \in Entries, NEW tx \in UserTxs, Submit(n, tx) \/ AddChecked(n, tx)
        PROVE  Sound(U, Len(chain'), chan', conn')
    BY <1>1, <1>3, AddCheckedSends DEF Submit
  <1>4. CASE FaucetRead
    BY <1>1, <1>4 DEF FaucetRead
  <1>5. CASE FaucetSend
    BY <1>5, FaucetSends
  <1>6. CASE Work
    BY <1>6, ProduceSends, ProduceKeeps DEF Work, Sending
  <1>7. ASSUME NEW l \in Links, Receive(l) PROVE Sound(U, Len(chain'), chan', conn')
    <2>1. l = <<l[1], l[2]>>
      BY DEF Links
    <2> QED BY <1>7, <2>1, OnHelloSends, OnTxSends, OnBlockSends, OnGetBlocksSends DEF Receive
  <1>8. CASE \E n \in Nodes : Crash(n) \/ Start(n)
    BY <1>8, CrashSends, StartSends
  <1> QED BY <1>2, <1>3, <1>4, <1>5, <1>6, <1>7, <1>8 DEF Next

(* A handler works for an open connection. *)
LEMMA TakenStep ==
    ASSUME IInv, [Next]_vars
    PROVE  taken' \subseteq conn'
  <1>1. taken \subseteq conn /\ conn \subseteq Links
    BY DEF IInv, Core, Open
  <1>2. ASSUME UNCHANGED <<taken, conn>> PROVE taken' \subseteq conn'
    BY <1>1, <1>2
  <1>3. CASE UNCHANGED vars
    BY <1>2, <1>3 DEF vars
  <1>4. ASSUME NEW n \in Entries, NEW tx \in UserTxs, Submit(n, tx) \/ AddChecked(n, tx)
        PROVE  taken' \subseteq conn'
    BY <1>2, <1>4 DEF Submit, AddChecked
  <1>5. CASE FaucetRead \/ FaucetSend
    BY <1>2, <1>5 DEF FaucetRead, FaucetSend
  <1>6. CASE Work
    BY <1>2, <1>6 DEF Work, Produce
  <1>7. ASSUME NEW l \in Links, Receive(l) PROVE taken' \subseteq conn'
    <2> DEFINE p == l[1]
               n == l[2]
    <2>1. l = <<p, n>>
      BY DEF Links
    <2> HIDE DEF p, n
    <2>2. CASE OnHello(p, n)
      <3>1. \/ UNCHANGED <<taken, conn>>
            \/ /\ conn' = conn \ {<<p, n>>, <<n, p>>}
               /\ taken' = taken \ {<<p, n>>, <<n, p>>}
        BY <2>2 DEF OnHello
      <3> QED BY <1>1, <3>1
    <2>3. CASE CheckTx(p, n)
      <3>1. chan[l] # <<>>
        BY <2>1, <2>3 DEF CheckTx, Next1
      <3>2. l \in conn
        BY <3>1 DEF IInv, Wires, Sound
      <3>3. UNCHANGED conn /\ taken' \subseteq taken \cup {l}
        BY <2>1, <2>3 DEF CheckTx
      <3> QED BY <1>1, <3>2, <3>3
    <2>4. CASE AddTx(p, n)
      BY <1>1, <2>4 DEF AddTx
    <2>5. CASE OnBlock(p, n) \/ OnGetBlocks(p, n)
      BY <1>2, <2>5 DEF OnBlock, OnGetBlocks
    <2> QED BY <1>7, <2>2, <2>3, <2>4, <2>5 DEF Receive, OnTx, p, n
  <1>8. ASSUME NEW n \in Nodes, Crash(n) PROVE taken' \subseteq conn'
    <2>1. /\ conn' = {l \in conn : n \notin {l[1], l[2]}}
          /\ taken' = {l \in taken : n \notin {l[1], l[2]}}
      BY <1>8 DEF Crash
    <2> QED BY <1>1, <2>1
  <1>9. ASSUME NEW n \in Nodes, Start(n) PROVE taken' \subseteq conn'
    <2>1. conn \subseteq conn' /\ UNCHANGED taken
      BY <1>9 DEF Start
    <2> QED BY <1>1, <2>1
  <1> QED BY <1>3, <1>4, <1>5, <1>6, <1>7, <1>8, <1>9 DEF Next

(* Everything may travel everywhere: the invariant. *)
LEMMA TypedStep ==
    ASSUME IInv, [Next]_vars
    PROVE  IInv'
  <1>1. Sending(Everything, Everything)
    BY TxFacts DEF Sending, IInv, Passes, Everything
  <1>2. FaucetGoes(Everything)
    BY TxFacts DEF FaucetGoes, Everything
  <1>3. Sound(Everything, Len(chain'), chan', conn')
    BY <1>1, <1>2, NextSends
  <1> QED BY <1>3, NextKeeps, TakenStep DEF IInv, Wires

(* Nodes stay within their limits and messages on open connections, for any *)
(* nodes, connections and transactions.                                    *)
THEOREM GossipTyped == Spec => []TypeOK
  <1>1. Init => IInv
    BY InitHolds DEF IInv, Core, Init
  <1>2. IInv /\ [Next]_vars => IInv'
    BY TypedStep
  <1>3. IInv => TypeOK
    <2> SUFFICES ASSUME IInv PROVE TypeOK
      OBVIOUS
    <2>1. up \subseteq Nodes /\ checked \subseteq Entries \X UserTxs /\ taken \subseteq conn
      BY DEF IInv, Core, Open, Requests
    <2>2. \A n \in Nodes : have[n] \in 0..Len(chain)
      <3>1. Len(chain) \in Nat /\ \A n \in Nodes : have[n] \in Nat /\ have[n] <= Len(chain)
        BY LenProperties DEF IInv, Core, Blocks
      <3> QED BY <3>1
    <2>3. \A n \in Nodes : pool[n] \subseteq UserTxs \cup FaucetTxs /\ Cardinality(pool[n]) <= PoolMax
      BY DEF IInv, Core, Pools, Txs
    <2>4. \A l \in Links : chan[l] # <<>> => l \in conn /\ {l[1], l[2]} \subseteq up
      BY DEF IInv, Core, Wires, Sound, Open
    <2>5. faucet # NoCall => Producer \in up
      BY DEF IInv, Core, Requests
    <2> QED BY <2>1, <2>2, <2>3, <2>4, <2>5 DEF TypeOK
  <1> QED BY <1>1, <1>2, <1>3, PTL DEF Spec

(* The chain takes the transactions of every account in the order of their  *)
(* nonces, each nonce once, and none that fails, whatever Take, the pools   *)
(* and the gossip do in between.                                           *)
THEOREM NoncesFollow == Spec => []NoncesInOrder
  <1>1. Init => IInv
    BY InitHolds DEF IInv, Core, Init
  <1>2. IInv /\ [Next]_vars => IInv'
    BY TypedStep
  <1>3. IInv => NoncesInOrder
    <2> SUFFICES ASSUME IInv PROVE NoncesInOrder
      OBVIOUS
    <2>1. History \in Seq(Txs)
      BY FlattenTyped DEF IInv, Core, Blocks, History
    <2>2. DOMAIN History = 1..Len(History)
          /\ \A i \in 1..Len(History) : History[i] \in Txs /\ i - 1 \in Nat
      BY <2>1, LenProperties, ElementOfSeq
    <2>3. ASSUME NEW i \in 1..Len(History)
          PROVE  /\ History[i].good
                 /\ History[i].nonce = Cardinality({j \in 1..(i-1) : History[j].from = History[i].from})
      <3> DEFINE a == History[i].from
      <3>1. a \in Accounts /\ Zero[a] = 0
        BY <2>2, TxFacts DEF Zero
      <3>2. History[i].good /\ History[i].nonce = Zero[a] + CountTo(History, i - 1, a)
        BY DEF IInv, Core, Ordered, InOrder
      <3>3. CountTo(History, i - 1, a) \in Nat
        BY <2>2, Counting
      <3> HIDE DEF a
      <3>4. History[i].nonce = CountTo(History, i - 1, a)
        BY <3>1, <3>2, <3>3
      <3> QED BY <3>2, <3>4 DEF CountTo, a
    <2> QED BY <2>2, <2>3 DEF NoncesInOrder
  <1> QED BY <1>1, <1>2, <1>3, PTL DEF Spec

-----------------------------------------------------------------------------
(***************************************************************************)
(* The faucet.                                                             *)
(***************************************************************************)
(* No transaction of the faucet in a pool waits for a nonce it does not     *)
(* hold.                                                                   *)
NoHole(set, base) ==
    \A tx \in set : tx.from = Faucet =>
        \A k \in base..(tx.nonce - 1) : k \in Nonces(set, Faucet)

FaucetInv ==
    /\ NoHole(pool[Producer], NonceOf(Producer, Faucet))
    /\ faucet # NoCall => faucet <= NonceOf(Producer, Faucet)

(* A transaction of a user makes no hole. *)
LEMMA AddOther ==
    ASSUME NEW set, NEW base, NoHole(set, base), NEW tx, tx.from # Faucet
    PROVE  NoHole(Add(set, tx), base)
  <1>1. \A t \in Add(set, tx) : t.from = Faucet => t \in set
    BY DEF Add
  <1>2. Nonces(set, Faucet) \subseteq Nonces(Add(set, tx), Faucet)
    BY DEF Add, Nonces
  <1> QED BY <1>1, <1>2 DEF NoHole

(* Neither does a transaction whose lower nonces are there. *)
LEMMA AddNext ==
    ASSUME NEW set, NEW base, NoHole(set, base), NEW tx,
           \A k \in base..(tx.nonce - 1) : k \in Nonces(set, Faucet)
    PROVE  NoHole(Add(set, tx), base)
  <1>1. \A t \in Add(set, tx) : t \in set \/ t = tx
    BY DEF Add
  <1>2. Nonces(set, Faucet) \subseteq Nonces(Add(set, tx), Faucet)
    BY DEF Add, Nonces
  <1> QED BY <1>1, <1>2 DEF NoHole

(* As long as the chain does not grow the nonce stays. *)
LEMMA NonceStays ==
    ASSUME IInv, IInv', UNCHANGED chain
    PROVE  NonceOf(Producer, Faucet)' = NonceOf(Producer, Faucet)
  <1>1. have[Producer] = Len(chain) /\ have'[Producer] = Len(chain)
    BY DEF IInv, Core, Blocks
  <1> QED BY <1>1 DEF NonceOf, OnChain

(* The nonce that the faucet gives away leaves no hole. *)
LEMMA FaucetSendFills ==
    ASSUME IInv, FaucetInv, FaucetSend, IInv'
    PROVE  FaucetInv'
  <1> DEFINE P == pool[Producer]
             N == NonceOf(Producer, Faucet)
  <1>1. NonceOf(Producer, Faucet)' = N
    BY NonceStays DEF FaucetSend
  <1>2. faucet' = NoCall /\ faucet # NoCall
    BY DEF FaucetSend
  <1>3. PICK nonce \in PendingNonce(faucet, Faucet) :
           IF nonce < N
           THEN UNCHANGED <<pool, chan, refused>>
           ELSE Enqueue(chan, Producer,
                     [from |-> Faucet, nonce |-> nonce, tip |-> 4, good |-> TRUE, id |-> calls],
                     Producer)
    BY DEF FaucetSend
  <1> DEFINE tx == [from |-> Faucet, nonce |-> nonce, tip |-> 4, good |-> TRUE, id |-> calls]
  <1>4. PICK q \in TakeUpTo(pool[Producer], NoncesAt(Producer), PoolMax) :
           nonce = faucet + Count(q, Faucet)
    BY <1>2, FaucetNonces
  <1>5. /\ q \in Seq(P) /\ q \in Seq(Txs) /\ InOrder(q, NoncesAt(Producer))
        /\ NoncesAt(Producer)[Faucet] = N
    <2>1. q \in Seq(pool[Producer]) /\ q \in Seq(Txs) /\ InOrder(q, NoncesAt(Producer))
      BY TakenByProducer, Configured DEF IInv, Core
    <2>2. NoncesAt(Producer)[Faucet] = N
      BY TxsTyped DEF NoncesAt
    <2> QED BY <2>1, <2>2
  <1>6. N \in Nat /\ faucet \in Nat /\ faucet <= N
    <2>1. N \in Nat
      BY NonceCounts, TxsTyped DEF IInv, Core
    <2>2. faucet \in Nat
      BY <1>2 DEF IInv, Core, Requests
    <2> QED BY <1>2, <2>1, <2>2 DEF FaucetInv
  <1>7. Len(q) \in Nat /\ Count(q, Faucet) \in Nat
    BY <1>5, LenProperties, Counting DEF Count
  <1> HIDE DEF P, N
  <1>8. ASSUME NEW k \in N..(nonce - 1) PROVE k \in Nonces(P, Faucet)
    <2> DEFINE r == k - N
    <2>1. r \in Nat /\ r < Count(q, Faucet) /\ k = N + r
      BY <1>4, <1>6, <1>7
    <2> HIDE DEF r
    <2>2. PICK i \in 1..Len(q) : q[i].from = Faucet /\ CountTo(q, i - 1, Faucet) = r
      BY <1>7, <2>1, Ranks DEF Count
    <2>3. q[i].nonce = NoncesAt(Producer)[Faucet] + CountTo(q, i - 1, Faucet)
      BY <1>5, <2>2 DEF InOrder
    <2>4. q[i].nonce = k /\ q[i] \in P
      BY <1>5, <2>1, <2>2, <2>3, ElementOfSeq
    <2> QED BY <2>2, <2>4 DEF Nonces
  <1>9. NoHole(P, N)
    BY DEF FaucetInv, P, N
  <1>10. NoHole(pool'[Producer], N)
    <2>1. CASE nonce < N
      <3>1. pool' = pool
        BY <1>3, <2>1
      <3> QED BY <1>9, <3>1 DEF P
    <2>2. CASE ~(nonce < N)
      <3>1. tx.nonce = nonce
        OBVIOUS
      <3>2. Enqueue(chan, Producer, tx, Producer)
        BY <1>3, <2>2
      <3> HIDE DEF tx
      <3>3. pool'[Producer] = Add(P, tx)
        BY <3>2, Configured DEF Enqueue, Core, IInv, Pools, P
      <3>4. NoHole(Add(P, tx), N)
        BY <1>8, <1>9, <3>1, AddNext
      <3> QED BY <3>3, <3>4
    <2> QED BY <2>1, <2>2
  <1> QED BY <1>1, <1>2, <1>10 DEF FaucetInv, N

(* A block takes the lowest nonces first, and the nonce grows with it. *)
LEMMA ProduceMoves ==
    ASSUME IInv, IInv',
           NEW q \in Take(pool[Producer], NoncesAt(Producer)), Produce(q)
    PROVE  /\ NonceOf(Producer, Faucet) \in Nat /\ Count(q, Faucet) \in Nat
           /\ NonceOf(Producer, Faucet)' = NonceOf(Producer, Faucet) + Count(q, Faucet)
           /\ pool'[Producer] = pool[Producer] \ Range(q)
           /\ \A tx \in Range(q) : tx.from = Faucet =>
                 tx.nonce < NonceOf(Producer, Faucet) + Count(q, Faucet)
  <1> DEFINE P == pool[Producer]
             N == NonceOf(Producer, Faucet)
             c == Count(q, Faucet)
             e == Executed(q)
  <1>1. /\ q \in Seq(P) /\ q \in Seq(Txs) /\ InOrder(q, NoncesAt(Producer))
        /\ NoncesAt(Producer)[Faucet] = N
    <2>1. q \in Seq(pool[Producer]) /\ q \in Seq(Txs) /\ InOrder(q, NoncesAt(Producer))
      BY TakenByProducer, Configured DEF IInv, Core, Take
    <2>2. NoncesAt(Producer)[Faucet] = N
      BY TxsTyped DEF NoncesAt
    <2> QED BY <2>1, <2>2
  <1>2. N \in Nat /\ N = Count(History, Faucet)
    BY NonceCounts, TxsTyped DEF IInv, Core
  <1>3. Len(q) \in Nat /\ c \in Nat
    BY <1>1, LenProperties, Counting DEF Count
  <1>4. e \in Seq(Txs) /\ History \in Seq(Txs) /\ History' = History \o e
    BY <1>1, Longer DEF IInv, Core, Produce
  <1>5. Count(e, Faucet) = c
    <2>1. \A j \in 1..Len(q) : q[j].from = Faucet => q[j].good
      BY <1>1, ElementOfSeq, TxFacts
    <2> QED BY <1>1, <2>1, ExecutedFacts
  <1>6. NonceOf(Producer, Faucet)' = N + c
    <2>1. chain' \in Seq(Seq(Txs)) /\ have'[Producer] = Len(chain') /\ InOrder(FlattenSeq(chain'), Zero)
      BY DEF IInv, Core, Blocks, Ordered, History
    <2>2. Cardinality({tx \in UNION {Range(chain'[h]) : h \in 1..Len(chain')} : tx.from = Faucet})
            = Count(FlattenSeq(chain'), Faucet)
      BY <2>1, ChainCounts, TxsTyped
    <2>3. NonceOf(Producer, Faucet)' = Count(History', Faucet)
      BY <2>1, <2>2 DEF NonceOf, OnChain, History
    <2>4. Count(History \o e, Faucet) = Count(History, Faucet) + Count(e, Faucet)
      <3> DEFINE H == History
      <3>1. H \in Seq(Txs) /\ e \in Seq(Txs)
        BY <1>4
      <3> HIDE DEF H, e
      <3>2. Len(e) \in 0..Len(e) /\ Len(H \o e) = Len(H) + Len(e)
        BY <3>1, ConcatProperties, LenProperties
      <3>3. CountTo(H \o e, Len(H) + Len(e), Faucet) = Count(H, Faucet) + CountTo(e, Len(e), Faucet)
        BY <3>1, <3>2, CountConcat
      <3> QED BY <3>2, <3>3 DEF Count, H
    <2> QED BY <1>2, <1>4, <1>5, <2>3, <2>4
  <1>7. pool'[Producer] = P \ Range(q)
    BY Configured DEF IInv, Core, Pools, Produce
  <1> HIDE DEF P, N, c, e
  <1>8. ASSUME NEW tx \in Range(q), tx.from = Faucet PROVE tx.nonce < N + c
    <2>1. PICK i \in 1..Len(q) : q[i] = tx
      BY <1>1, LenProperties DEF Range
    <2>2. q[i].nonce = N + CountTo(q, i - 1, Faucet)
      BY <1>1, <1>8, <2>1 DEF InOrder
    <2>3. CountTo(q, i - 1, Faucet) \in Nat /\ CountTo(q, i - 1, Faucet) < c
      BY <1>3, <1>8, <2>1, CountGrows DEF Count, c
    <2> QED BY <1>2, <1>3, <2>1, <2>2, <2>3
  <1> QED BY <1>2, <1>3, <1>6, <1>7, <1>8 DEF P, N, c

(* What is left in the pool has no hole either. *)
LEMMA ProduceFills ==
    ASSUME IInv, FaucetInv, IInv',
           NEW q \in Take(pool[Producer], NoncesAt(Producer)), Produce(q)
    PROVE  FaucetInv'
  <1> DEFINE P == pool[Producer]
             N == NonceOf(Producer, Faucet)
             c == Count(q, Faucet)
  <1>1. /\ N \in Nat /\ c \in Nat /\ NonceOf(Producer, Faucet)' = N + c
        /\ pool'[Producer] = P \ Range(q)
        /\ \A tx \in Range(q) : tx.from = Faucet => tx.nonce < N + c
    BY ProduceMoves
  <1>2. NoHole(P, N) /\ (faucet # NoCall => faucet <= N)
    BY DEF FaucetInv
  <1>3. faucet \in Nat \cup {NoCall} /\ P \subseteq Txs /\ faucet' = faucet
    BY Configured DEF IInv, Core, Requests, Pools, Produce
  <1> HIDE DEF P, N, c
  <1>4. ASSUME NEW tx \in P \ Range(q), tx.from = Faucet, NEW k \in (N + c)..(tx.nonce - 1)
        PROVE  k \in Nonces(P \ Range(q), Faucet)
    <2>1. tx.nonce \in Nat
      BY <1>3, TxFacts
    <2>2. k \in N..(tx.nonce - 1) /\ k >= N + c
      BY <1>1, <2>1
    <2>3. k \in Nonces(P, Faucet)
      BY <1>2, <1>4, <2>2 DEF NoHole
    <2>4. PICK w \in P : w.from = Faucet /\ w.nonce = k
      BY <2>3 DEF Nonces
    <2>5. w \notin Range(q)
      BY <1>1, <2>2, <2>4
    <2> QED BY <2>4, <2>5 DEF Nonces
  <1>5. NoHole(P \ Range(q), N + c)
    BY <1>4 DEF NoHole
  <1>6. faucet' # NoCall => faucet' <= N + c
    BY <1>1, <1>2, <1>3
  <1> QED BY <1>1, <1>5, <1>6 DEF FaucetInv

(* What comes back to the producer makes no hole: a transfer of the faucet  *)
(* that is still in the pool or that the nonce has passed.                 *)
ComesBack(T) ==
    \A l \in Links : l[2] = Producer =>
        \A tx \in T[l] : tx.from = Faucet =>
            tx \in pool[Producer] \/ tx.nonce < NonceOf(Producer, Faucet)

(* Every step. *)
LEMMA FaucetStep ==
    ASSUME NEW T, Sending(T, T), ComesBack(T), IInv, FaucetInv, [Next]_vars
    PROVE  FaucetInv'
  <1>0. IInv'
    BY TypedStep
  <1> DEFINE N == NonceOf(Producer, Faucet)
  <1>1. NoHole(pool[Producer], N) /\ (faucet # NoCall => faucet <= N)
    BY DEF FaucetInv
  <1>2. UNCHANGED chain => NonceOf(Producer, Faucet)' = N
    BY <1>0, NonceStays
  <1>3. DOMAIN pool = Nodes /\ Producer \in Nodes
    BY Configured DEF IInv, Core, Pools
  <1> HIDE DEF N
  <1>4. ASSUME UNCHANGED chain, pool'[Producer] = pool[Producer],
               faucet' = faucet \/ faucet' = NoCall
        PROVE  FaucetInv'
    BY <1>1, <1>2, <1>4 DEF FaucetInv, N
  <1>5. ASSUME UNCHANGED <<chain, faucet>>, NEW c, NEW n \in Nodes, NEW tx, NEW except,
               Enqueue(c, n, tx, except), n = Producer => tx.from # Faucet
        PROVE  FaucetInv'
    <2>1. pool' = [pool EXCEPT ![n] = Add(@, tx)]
      BY <1>5 DEF Enqueue
    <2>2. CASE n = Producer
      <3>1. pool'[Producer] = Add(pool[Producer], tx)
        BY <1>3, <2>1, <2>2
      <3>2. NoHole(Add(pool[Producer], tx), N)
        BY <1>1, <1>5, <2>2, AddOther
      <3> QED BY <1>1, <1>2, <1>5, <3>1, <3>2 DEF FaucetInv, N
    <2>3. CASE n # Producer
      <3>1. pool'[Producer] = pool[Producer]
        BY <1>3, <2>1, <2>3
      <3> QED BY <1>4, <1>5, <3>1
    <2> QED BY <2>2, <2>3
  <1>6. CASE UNCHANGED vars
    BY <1>4, <1>6 DEF vars
  <1>7. ASSUME NEW n \in Entries, NEW tx \in UserTxs, Submit(n, tx) PROVE FaucetInv'
    BY <1>4, <1>7 DEF Submit
  <1>8. ASSUME NEW n \in Entries, NEW tx \in UserTxs, AddChecked(n, tx) PROVE FaucetInv'
    <2>1. n \in Nodes /\ tx.from # Faucet
      BY Configured, TxFacts
    <2>2. UNCHANGED <<chain, faucet>> /\ Enqueue(chan, n, tx, n)
      BY <1>8 DEF AddChecked
    <2> QED BY <1>5, <2>1, <2>2
  <1>9. CASE FaucetRead
    <2>1. faucet' = N /\ pool' = pool /\ chain' = chain /\ N \in Nat
      BY <1>9, NonceCounts, TxsTyped DEF FaucetRead, N, IInv, Core
    <2>2. N <= N
      BY <2>1
    <2> QED BY <1>1, <1>2, <2>1, <2>2 DEF FaucetInv, N
  <1>10. CASE FaucetSend
    BY <1>0, <1>10, FaucetSendFills
  <1>11. CASE Work
    BY <1>0, <1>11, ProduceFills DEF Work
  <1>12. ASSUME NEW l \in Links, Receive(l) PROVE FaucetInv'
    <2> DEFINE p == l[1]
               n == l[2]
    <2>1. l = <<p, n>> /\ n \in Nodes
      BY DEF Links
    <2> HIDE DEF p, n
    <2>2. CASE OnHello(p, n)
      BY <1>4, <2>2 DEF OnHello
    <2>3. CASE OnTx(p, n)
      <3> DEFINE m == Head(chan[<<p, n>>])
      <3>1. /\ UNCHANGED <<chain, faucet>>
            /\ \/ UNCHANGED pool
               \/ Enqueue(Rest(p, n), n, m.tx, p)
        BY <2>3 DEF OnTx, CheckTx, AddTx
      <3>2. m.tx \in T[l]
        BY <2>1, <2>3, OnTxSends
      <3>6. m.tx \in Txs
        <4>1. Sending(Everything, Everything)
          BY TxFacts DEF Sending, IInv, Passes, Everything
        <4>2. m.tx \in Everything[l]
          BY <2>1, <2>3, <4>1, OnTxSends
        <4> HIDE DEF m
        <4> QED BY <4>2 DEF Everything
      <3> HIDE DEF m
      <3>3. CASE UNCHANGED pool
        BY <1>4, <3>1, <3>3
      <3>4. CASE n = Producer /\ m.tx.from = Faucet /\ ~UNCHANGED pool
        <4>1. m.tx \in pool[Producer] \/ m.tx.nonce < N
          BY <2>1, <3>1, <3>2, <3>4 DEF ComesBack, N
        <4>2. pool' = [pool EXCEPT ![n] = Add(@, m.tx)]
          BY <3>1, <3>4 DEF Enqueue
        <4>3. pool'[Producer] = Add(pool[Producer], m.tx)
          BY <1>3, <3>4, <4>2
        <4>4. CASE m.tx \in pool[Producer]
          <5>1. pool'[Producer] = pool[Producer]
            BY <4>3, <4>4 DEF Add
          <5> QED BY <1>4, <3>1, <5>1
        <4>5. CASE m.tx.nonce < N
          <5>1. m.tx.nonce \in Nat /\ N \in Nat
            <6>1. N \in Nat
              BY NonceCounts, TxsTyped DEF N, IInv, Core
            <6>2. m.tx \in Txs
              BY <3>6
            <6> QED BY <6>1, <6>2, TxFacts
          <5>2. NoHole(Add(pool[Producer], m.tx), N)
            <6>1. N..(m.tx.nonce - 1) = {}
              BY <4>5, <5>1
            <6> QED BY <1>1, <6>1, AddNext
          <5> QED BY <1>1, <1>2, <3>1, <4>3, <5>2 DEF FaucetInv, N
        <4> QED BY <4>1, <4>4, <4>5
      <3>5. CASE ~(n = Producer /\ m.tx.from = Faucet) /\ ~UNCHANGED pool
        BY <1>5, <2>1, <3>1, <3>5
      <3> QED BY <3>3, <3>4, <3>5
    <2>4. CASE OnBlock(p, n)
      <3>1. UNCHANGED <<chain, faucet>>
        BY <2>4 DEF OnBlock
      <3>2. CASE n = Producer
        <4>1. UNCHANGED pool
          BY <2>1, <2>4, <3>2, OnBlockKeeps
        <4> QED BY <1>4, <3>1, <4>1
      <3>3. CASE n # Producer
        <4>1. pool'[Producer] = pool[Producer]
          BY <1>3, <2>4, <3>3 DEF OnBlock
        <4> QED BY <1>4, <3>1, <4>1
      <3> QED BY <3>2, <3>3
    <2>5. CASE OnGetBlocks(p, n)
      BY <1>4, <2>5 DEF OnGetBlocks
    <2> QED BY <1>12, <2>2, <2>3, <2>4, <2>5 DEF Receive, p, n
  <1>13. ASSUME NEW n \in Nodes, Crash(n) PROVE FaucetInv'
    <2>1. /\ UNCHANGED chain /\ pool' = [pool EXCEPT ![n] = {}]
          /\ faucet' = IF n = Producer THEN NoCall ELSE faucet
      BY <1>13 DEF Crash
    <2>2. CASE n = Producer
      <3>1. pool'[Producer] = {} /\ faucet' = NoCall
        BY <1>3, <2>1, <2>2
      <3> QED BY <3>1 DEF FaucetInv, NoHole
    <2>3. CASE n # Producer
      <3>1. pool'[Producer] = pool[Producer] /\ faucet' = faucet
        BY <1>3, <2>1, <2>3
      <3> QED BY <1>4, <2>1, <3>1
    <2> QED BY <2>2, <2>3
  <1>14. ASSUME NEW n \in Nodes, Start(n) PROVE FaucetInv'
    BY <1>4, <1>14 DEF Start
  <1> QED BY <1>6, <1>7, <1>8, <1>9, <1>10, <1>11, <1>12, <1>13, <1>14 DEF Next

(* Where the connections form a tree, the transactions of the faucet never *)
(* come back to the node that signed them, and none of them waits for a    *)
(* nonce that nobody holds: however calls, blocks, gossip and crashes      *)
(* interleave.                                                             *)
THEOREM FaucetNeverStuck ==
    ASSUME \E parent \in [Nodes -> Nodes] :
              /\ parent[Producer] = Producer
              /\ \A l \in Links : l[1] = parent[l[2]] \/ l[2] = parent[l[1]]
    PROVE  Spec => []FaucetNotStuck
  <1>1. PICK parent \in [Nodes -> Nodes] :
              /\ parent[Producer] = Producer
              /\ \A l \in Links : l[1] = parent[l[2]] \/ l[2] = parent[l[1]]
    OBVIOUS
  <1>2. \A l \in Links : l[1] # l[2] /\ l[1] \in Nodes /\ l[2] \in Nodes
    BY Configured DEF Links
  <1> DEFINE T == [l \in Links |-> IF l[1] = parent[l[2]] THEN Txs ELSE UserTxs]
  <1>3. /\ \A l \in Links : T[l] \subseteq Txs /\ UserTxs \subseteq T[l]
        /\ \A l \in Links : l[1] = parent[l[2]] => T[l] = Txs
        /\ \A l \in Links : l[1] # parent[l[2]] => T[l] = UserTxs
    BY TxFacts
  <1> HIDE DEF T
  <1>4. Passes(T, T)
    <2>1. ASSUME NEW l \in Links, NEW m \in Links, m[1] = l[2], m[2] # l[1]
          PROVE  T[l] \subseteq T[m]
      <3>1. CASE l[1] = parent[l[2]]
        <4>1. m[1] = parent[m[2]]
          BY <1>1, <2>1, <3>1
        <4> QED BY <1>3, <4>1
      <3>2. CASE l[1] # parent[l[2]]
        BY <1>3, <3>2
      <3> QED BY <3>1, <3>2
    <2> QED BY <1>3, <2>1 DEF Passes
  <1>5. \A l \in Links : l[2] = Producer => T[l] = UserTxs
    BY <1>1, <1>2, <1>3
  <1>6. \A l \in Links : l[1] = Producer => T[l] = Txs
    BY <1>1, <1>2, <1>3
  <1> DEFINE Inv == IInv /\ FaucetInv /\ Wires(T)
  <1>7. Init => Inv
    <2> SUFFICES ASSUME Init PROVE Inv
      OBVIOUS
    <2>1. IInv /\ Wires(T)
      BY InitHolds DEF IInv, Init
    <2>2. pool[Producer] = {} /\ faucet = NoCall
      BY Configured DEF Init
    <2> QED BY <2>1, <2>2 DEF FaucetInv, NoHole
  <1>8. Inv /\ [Next]_vars => Inv'
    <2> SUFFICES ASSUME Inv, [Next]_vars PROVE Inv'
      OBVIOUS
    <2>1. Sending(T, T)
      BY <1>4 DEF Sending
    <2>2. ComesBack(T)
      BY <1>5, TxFacts DEF ComesBack
    <2>3. FaucetGoes(T)
      BY <1>6, TxFacts DEF FaucetGoes
    <2>4. IInv' /\ FaucetInv'
      BY <2>1, <2>2, TypedStep, FaucetStep
    <2>5. Sound(T, Len(chain'), chan', conn')
      BY <2>1, <2>3, NextSends
    <2> QED BY <2>4, <2>5 DEF Wires
  <1>9. Inv => FaucetNotStuck
    BY DEF FaucetInv, NoHole, FaucetNotStuck
  <1> HIDE DEF Inv
  <1> QED BY <1>7, <1>8, <1>9, PTL DEF Spec

-----------------------------------------------------------------------------
(***************************************************************************)
(* The faucet in any network, while its node runs.                         *)
(***************************************************************************)
(* What may travel: transfers of the faucet that its node still holds or    *)
(* that the chain has passed.                                              *)
Known ==
    {tx \in Txs : tx.from = Faucet =>
        tx \in pool[Producer] \/ tx.nonce < NonceOf(Producer, Faucet)}

Everywhere(S) == [l \in Links |-> S]

(* Without a crash of the producer a transfer leaves its pool only with a   *)
(* block.                                                                  *)
LEMMA KnownGrows ==
    ASSUME IInv, [Next]_vars, ~Crash(Producer)
    PROVE  Known \subseteq Known'
  <1> DEFINE N == NonceOf(Producer, Faucet)
             P == pool[Producer]
  <1>0. IInv' /\ DOMAIN pool = Nodes /\ Producer \in Nodes
    BY TypedStep, Configured DEF IInv, Core, Pools
  <1>1. UNCHANGED chain => NonceOf(Producer, Faucet)' = N
    BY <1>0, NonceStays
  <1> HIDE DEF N, P
  <1>2. ASSUME UNCHANGED chain, P \subseteq pool'[Producer]
        PROVE  Known \subseteq Known'
    BY <1>1, <1>2 DEF Known, N, P
  <1>3. ASSUME UNCHANGED chain, NEW c, NEW n, NEW tx, NEW except, Enqueue(c, n, tx, except)
        PROVE  Known \subseteq Known'
    <2>1. pool' = [pool EXCEPT ![n] = Add(@, tx)]
      BY <1>3 DEF Enqueue
    <2>2. pool[Producer] \subseteq pool'[Producer]
      BY <1>0, <2>1 DEF Add
    <2> QED BY <1>2, <1>3, <2>2 DEF P
  <1>4. ASSUME UNCHANGED <<chain, pool>> PROVE Known \subseteq Known'
    BY <1>2, <1>4 DEF P
  <1>5. CASE UNCHANGED vars
    BY <1>4, <1>5 DEF vars
  <1>6. ASSUME NEW n \in Entries, NEW tx \in UserTxs, Submit(n, tx) \/ AddChecked(n, tx)
        PROVE  Known \subseteq Known'
    BY <1>3, <1>4, <1>6 DEF Submit, AddChecked
  <1>7. CASE FaucetRead
    BY <1>4, <1>7 DEF FaucetRead
  <1>8. CASE FaucetSend
    <2>1. PICK nonce \in PendingNonce(faucet, Faucet) :
             \/ UNCHANGED pool
             \/ Enqueue(chan, Producer,
                     [from |-> Faucet, nonce |-> nonce, tip |-> 4, good |-> TRUE, id |-> calls],
                     Producer)
      BY <1>8 DEF FaucetSend
    <2>2. UNCHANGED chain
      BY <1>8 DEF FaucetSend
    <2> QED BY <1>3, <1>4, <2>1, <2>2
  <1>9. ASSUME NEW q \in Take(pool[Producer], NoncesAt(Producer)), Produce(q)
        PROVE  Known \subseteq Known'
    <2> DEFINE c == Count(q, Faucet)
    <2>1. /\ NonceOf(Producer, Faucet)' = N + c /\ N \in Nat /\ c \in Nat
          /\ pool'[Producer] = P \ Range(q)
          /\ \A tx \in Range(q) : tx.from = Faucet => tx.nonce < N + c
      BY <1>0, <1>9, ProduceMoves DEF N, P
    <2> HIDE DEF c
    <2>2. \A tx \in Txs : tx.from = Faucet => tx.nonce \in Nat
      BY TxFacts
    <2>3. ASSUME NEW tx \in Txs, tx.from = Faucet, tx \in P \/ tx.nonce < N
          PROVE  tx \in pool'[Producer] \/ tx.nonce < N + c
      BY <2>1, <2>2, <2>3
    <2> QED BY <2>1, <2>3 DEF Known, N, P
  <1>10. ASSUME NEW l \in Links, Receive(l) PROVE Known \subseteq Known'
    <2> DEFINE p == l[1]
               n == l[2]
    <2>1. l = <<p, n>> /\ n \in Nodes
      BY DEF Links
    <2> HIDE DEF p, n
    <2>2. CASE OnHello(p, n)
      BY <1>4, <2>2 DEF OnHello
    <2>3. CASE OnTx(p, n)
      <3>1. UNCHANGED chain /\ (UNCHANGED pool \/ Enqueue(Rest(p, n), n, Head(chan[<<p, n>>]).tx, p))
        BY <2>3 DEF OnTx, CheckTx, AddTx
      <3> QED BY <1>3, <1>4, <3>1
    <2>4. CASE OnBlock(p, n)
      <3>1. UNCHANGED chain /\ (UNCHANGED pool \/ \E S : pool' = [pool EXCEPT ![n] = @ \ S])
        BY <2>4 DEF OnBlock
      <3>2. CASE n = Producer
        BY <1>4, <2>1, <2>4, <3>1, <3>2, OnBlockKeeps
      <3>3. CASE n # Producer
        <4>1. pool'[Producer] = pool[Producer]
          BY <1>0, <3>1, <3>3
        <4> QED BY <1>2, <3>1, <4>1 DEF P
      <3> QED BY <3>2, <3>3
    <2>5. CASE OnGetBlocks(p, n)
      BY <1>4, <2>5 DEF OnGetBlocks
    <2> QED BY <1>10, <2>2, <2>3, <2>4, <2>5 DEF Receive, p, n
  <1>11. ASSUME NEW n \in Nodes, Crash(n) \/ Start(n) PROVE Known \subseteq Known'
    <2>1. CASE Crash(n)
      <3>1. n # Producer /\ UNCHANGED chain /\ pool' = [pool EXCEPT ![n] = {}]
        BY <2>1 DEF Crash
      <3>2. pool'[Producer] = pool[Producer]
        BY <1>0, <3>1
      <3> QED BY <1>2, <3>1, <3>2 DEF P
    <2>2. CASE Start(n)
      BY <1>4, <2>2 DEF Start
    <2> QED BY <1>11, <2>1, <2>2
  <1> QED BY <1>5, <1>6, <1>7, <1>8, <1>9, <1>10, <1>11 DEF Next, Work

(* In any network, with cycles or not, no transfer of the faucet waits for  *)
(* a nonce that nobody holds as long as the node of the faucet does not     *)
(* crash: what comes back to it is in its pool or has been executed.       *)
THEOREM FaucetNotStuckWhileUp ==
    Spec /\ [][~Crash(Producer)]_vars => []FaucetNotStuck
  <1> DEFINE Inv == IInv /\ FaucetInv /\ Wires(Everywhere(Known))
  <1>1. Init => Inv
    <2> SUFFICES ASSUME Init PROVE Inv
      OBVIOUS
    <2>1. IInv /\ Wires(Everywhere(Known))
      BY InitHolds DEF IInv, Init
    <2>2. pool[Producer] = {} /\ faucet = NoCall
      BY Configured DEF Init
    <2> QED BY <2>1, <2>2 DEF FaucetInv, NoHole
  <1>2. Inv /\ [Next]_vars /\ [~Crash(Producer)]_vars => Inv'
    <2> SUFFICES ASSUME Inv, [Next]_vars, [~Crash(Producer)]_vars PROVE Inv'
      OBVIOUS
    <2> DEFINE K == Known
               L == Known'
               T == Everywhere(K)
               U == Everywhere(L)
    <2>1. ~Crash(Producer)
      <3>1. CASE UNCHANGED vars
        <4>1. up' = up
          BY <3>1 DEF vars
        <4> QED BY <4>1 DEF Crash
      <3> QED BY <3>1
    <2>2. K \subseteq L /\ UserTxs \subseteq K
      BY <2>1, KnownGrows, TxFacts DEF Known
    <2>3. \A l \in Links : T[l] = K /\ U[l] = L
      BY DEF Everywhere
    <2>4. Wires(T) /\ IInv /\ FaucetInv
      OBVIOUS
    <2>5. ComesBack(T)
      BY <2>3 DEF ComesBack, Known
    <2>6. FaucetGoes(U)
      <3>1. ASSUME NEW tx \in FaucetTxs, Enqueue(chan, Producer, tx, Producer),
                   IsNew(pool[Producer], tx)
            PROVE  tx \in L
        <4>1. pool'[Producer] = Add(pool[Producer], tx)
          BY <3>1, Configured DEF Enqueue, IInv, Core, Pools
        <4>2. tx \in pool'[Producer]
          BY <3>1, <4>1 DEF Add, IsNew
        <4> QED BY <4>2, TxFacts DEF Known
      <3> QED BY <2>3, <3>1 DEF FaucetGoes
    <2> HIDE DEF K, L, T, U
    <2>7. Sending(T, T) /\ Sending(T, U)
      BY <2>2, <2>3, <2>4 DEF Sending, Passes
    <2>8. IInv' /\ FaucetInv'
      BY <2>4, <2>5, <2>7, TypedStep, FaucetStep
    <2>9. Sound(U, Len(chain'), chan', conn')
      BY <2>6, <2>7, NextSends
    <2> QED BY <2>8, <2>9 DEF Wires, U, L, Everywhere
  <1>3. Inv => FaucetNotStuck
    BY DEF FaucetInv, NoHole, FaucetNotStuck
  <1> HIDE DEF Inv
  <1> QED BY <1>1, <1>2, <1>3, PTL DEF Spec
===============================================================================
