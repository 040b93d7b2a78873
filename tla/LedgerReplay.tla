------------------------------ MODULE LedgerReplay ------------------------------
(***************************************************************************)
(* The replay of a block leads where its proposer got: two ledgers that    *)
(* differ in empty accounts and in the order of the unbonding queue, and   *)
(* in nothing else, still do so after every step of a block.               *)
(***************************************************************************)
EXTENDS LedgerProofs

(* An account, as everything that reads it sees it. *)
At(s, a) == IF a \in DOMAIN s.acc THEN s.acc[a] ELSE NewAccount

Times(q, x) == Cardinality({i \in DOMAIN q : q[i] = x})

(* The same entries, each as often, in any order. *)
Shuffled(p, q) ==
    /\ \E E : p \in Seq(E) /\ q \in Seq(E)
    /\ \A x : Times(p, x) = Times(q, x)

(* The same but for the accounts and the queue. *)
SameRest(s, t) ==
    /\ s.tok = t.tok /\ s.val = t.val /\ s.ctr = t.ctr /\ s.wasm = t.wasm
    /\ s.pool = t.pool /\ s.slashed = t.slashed /\ s.supply = t.supply
    /\ s.fee = t.fee /\ s.height = t.height

Alike(s, t) ==
    /\ DOMAIN s = Fields /\ DOMAIN t = Fields
    /\ SameRest(s, t)
    /\ \A a : At(s, a) = At(t, a)
    /\ Shuffled(s.unb, t.unb)

(* Nothing differs but the order of the queue. *)
Requeued(s, t) == Alike(s, t) /\ s.acc = t.acc

(* Both know the account of a sender. *)
Twins(s, t, a) == Alike(s, t) /\ a \in DOMAIN s.acc /\ a \in DOMAIN t.acc

-----------------------------------------------------------------------------
(* One more entry in a list. *)
LEMMA TimesAppend ==
    ASSUME NEW E, NEW q \in Seq(E), NEW e, NEW x
    PROVE  Times(Append(q, e), x) = Times(q, x) + (IF e = x THEN 1 ELSE 0)
  <1> DEFINE n == Len(q)
             r == Append(q, e)
             P == {i \in DOMAIN q : q[i] = x}
             Q == {i \in DOMAIN r : r[i] = x}
  <1>1. n \in Nat /\ DOMAIN q = 1..n /\ DOMAIN r = 1..(n + 1)
        /\ (\A i \in 1..n : r[i] = q[i]) /\ r[n + 1] = e
    <2> DEFINE F == E \cup {e}
    <2>1. q \in Seq(F) /\ e \in F
      OBVIOUS
    <2> HIDE DEF F
    <2> QED BY <2>1
  <1>2. IsFiniteSet(P) /\ Cardinality(P) \in Nat
    <2>1. P \subseteq 1..n /\ n \in Nat
      BY <1>1
    <2> HIDE DEF P, n
    <2>2. IsFiniteSet(1..n)
      BY <2>1, FS_Interval
    <2> QED BY <2>1, <2>2, FS_Subset, FS_CardinalityType
  <1>3. n + 1 \notin P
    BY <1>1
  <1>4. Q = IF e = x THEN P \cup {n + 1} ELSE P
    <2>1. 1..(n + 1) = (1..n) \cup {n + 1} /\ n + 1 \notin 1..n
      BY <1>1
    <2> HIDE DEF n, r
    <2>2. \A i \in 1..(n + 1) : r[i] = IF i = n + 1 THEN e ELSE q[i]
      BY <1>1, <2>1
    <2>3. \A i : i \in Q <=> i \in P \/ (i = n + 1 /\ e = x)
      BY <1>1, <2>1, <2>2
    <2> HIDE DEF P, Q
    <2> QED BY <2>3
  <1>5. Cardinality(Q) = Cardinality(P) + (IF e = x THEN 1 ELSE 0)
    <2> HIDE DEF P, Q, n, r
    <2>1. CASE e = x
      <3>1. Q = P \cup {n + 1}
        BY <1>4, <2>1
      <3> QED BY ZenonT(40), <1>2, <1>3, <2>1, <3>1, FS_AddElement
    <2>2. CASE e # x
      BY <1>2, <1>4, <2>2
    <2> QED BY <2>1, <2>2
  <1> QED BY ZenonT(40), <1>5 DEF Times

(* Shuffled lists with the same new entry are shuffled. *)
LEMMA ShuffledAppend ==
    ASSUME NEW p, NEW q, Shuffled(p, q), NEW e
    PROVE  Shuffled(Append(p, e), Append(q, e))
  <1>1. PICK E : p \in Seq(E) /\ q \in Seq(E)
    BY DEF Shuffled
  <1>2. Append(p, e) \in Seq(E \cup {e}) /\ Append(q, e) \in Seq(E \cup {e})
    <2>1. p \in Seq(E \cup {e}) /\ q \in Seq(E \cup {e}) /\ e \in E \cup {e}
      BY <1>1
    <2> QED BY <2>1
  <1>3. \A x : Times(Append(p, e), x) = Times(Append(q, e), x)
    BY <1>1, TimesAppend DEF Shuffled
  <1> QED BY <1>2, <1>3 DEF Shuffled

(* Likeness, from a ledger to itself. *)
LEMMA AlikeItself ==
    ASSUME NEW s, DOMAIN s = Fields, NEW E, s.unb \in Seq(E)
    PROVE  Requeued(s, s)
  BY DEF Requeued, Alike, SameRest, Shuffled

(* Back. *)
LEMMA AlikeBack ==
    ASSUME NEW s, NEW t, Alike(s, t)
    PROVE  Alike(t, s)
  BY DEF Alike, SameRest, Shuffled

(* And on. *)
LEMMA AlikeThenAlike ==
    ASSUME NEW s, NEW t, NEW u, Alike(s, t), Alike(t, u)
    PROVE  Alike(s, u)
  <1>1. PICK E : s.unb \in Seq(E) /\ t.unb \in Seq(E)
    BY DEF Alike, Shuffled
  <1>2. PICK F : t.unb \in Seq(F) /\ u.unb \in Seq(F)
    BY DEF Alike, Shuffled
  <1>3. s.unb \in Seq(E \cup F) /\ u.unb \in Seq(E \cup F)
    BY <1>1, <1>2
  <1>4. Shuffled(s.unb, u.unb)
    BY <1>3 DEF Alike, Shuffled
  <1> QED BY <1>4 DEF Alike, SameRest

-----------------------------------------------------------------------------
(* The steps the handlers are made of. *)

(* Fields other than the accounts and the queue are written alike. *)
LEMMA TwinsWrite ==
    ASSUME NEW s, NEW t, NEW a, Twins(s, t, a), NEW o, NEW p,
           DOMAIN o = Fields, DOMAIN p = Fields, SameRest(o, p),
           o.acc = s.acc, p.acc = t.acc, o.unb = s.unb, p.unb = t.unb
    PROVE  Twins(o, p, a)
  BY DEF Twins, Alike, At

(* acct: a name is looked up. *)
LEMMA AlikeAcct ==
    ASSUME NEW s, DOMAIN s = Fields, NEW E, s.unb \in Seq(E), NEW a
    PROVE  /\ Alike(Acct(s, a), s) /\ a \in DOMAIN Acct(s, a).acc
           /\ DOMAIN s.acc \subseteq DOMAIN Acct(s, a).acc
  <1> DEFINE o == Acct(s, a)
  <1>1. CASE a \in DOMAIN s.acc
    BY <1>1, AlikeItself DEF Acct, Requeued
  <1>2. CASE a \notin DOMAIN s.acc
    <2> DEFINE acc == Put(s.acc, a, NewAccount)
    <2>1. o = [s EXCEPT !.acc = acc]
      BY <1>2 DEF Acct
    <2>2. DOMAIN acc = DOMAIN s.acc \cup {a}
          /\ \A b \in DOMAIN acc : acc[b] = IF b = a THEN NewAccount ELSE s.acc[b]
      BY DEF Put
    <2> HIDE DEF acc, o
    <2>3. DOMAIN o = Fields /\ o.acc = acc /\ o.unb = s.unb /\ SameRest(o, s)
      BY <2>1 DEF Fields, SameRest
    <2>4. \A b : At(o, b) = At(s, b)
      BY <1>2, <2>2, <2>3 DEF At
    <2>5. Shuffled(o.unb, s.unb)
      BY <2>3 DEF Shuffled
    <2> QED BY <2>2, <2>3, <2>4, <2>5 DEF Alike, o
  <1> QED BY <1>1, <1>2

(* Both ledgers look a name up. *)
LEMMA TwinsAcct ==
    ASSUME NEW s, NEW t, Alike(s, t), NEW a
    PROVE  Twins(Acct(s, a), Acct(t, a), a)
  <1>1. PICK E : s.unb \in Seq(E) /\ t.unb \in Seq(E)
    BY DEF Alike, Shuffled
  <1>2. DOMAIN s = Fields /\ DOMAIN t = Fields
    BY DEF Alike
  <1>3. Alike(Acct(s, a), s) /\ a \in DOMAIN Acct(s, a).acc
    BY <1>1, <1>2, AlikeAcct
  <1>4. Alike(Acct(t, a), t) /\ a \in DOMAIN Acct(t, a).acc
    BY <1>1, <1>2, AlikeAcct
  <1>5. Alike(Acct(s, a), Acct(t, a))
    <2> DEFINE o == Acct(s, a)
               p == Acct(t, a)
    <2> HIDE DEF o, p
    <2>1. Alike(o, s) /\ Alike(t, p)
      BY <1>3, <1>4, AlikeBack DEF o, p
    <2>2. Alike(o, p)
      BY <2>1, AlikeThenAlike
    <2> QED BY <2>2 DEF o, p
  <1> QED BY <1>3, <1>4, <1>5 DEF Twins

(* The account of one name is written alike. *)
LEMMA TwinsPurse ==
    ASSUME NEW s, NEW t, NEW a, Twins(s, t, a), NEW r, NEW o, NEW p,
           o = [s EXCEPT !.acc = [s.acc EXCEPT ![a] = r]],
           p = [t EXCEPT !.acc = [t.acc EXCEPT ![a] = r]]
    PROVE  /\ Twins(o, p, a) /\ SameRest(o, s) /\ o.acc[a] = r /\ p.acc[a] = r
           /\ DOMAIN o.acc = DOMAIN s.acc /\ DOMAIN p.acc = DOMAIN t.acc
           /\ o.unb = s.unb /\ p.unb = t.unb
  <1>1. DOMAIN s = Fields /\ DOMAIN t = Fields /\ SameRest(s, t)
    BY DEF Twins, Alike
  <1> DEFINE acc == [s.acc EXCEPT ![a] = r]
             bcc == [t.acc EXCEPT ![a] = r]
  <1>2. /\ DOMAIN acc = DOMAIN s.acc
        /\ \A b \in DOMAIN s.acc : acc[b] = IF b = a THEN r ELSE s.acc[b]
    OBVIOUS
  <1>3. /\ DOMAIN bcc = DOMAIN t.acc
        /\ \A b \in DOMAIN t.acc : bcc[b] = IF b = a THEN r ELSE t.acc[b]
    OBVIOUS
  <1>4. o = [s EXCEPT !.acc = acc] /\ p = [t EXCEPT !.acc = bcc]
    OBVIOUS
  <1> HIDE DEF acc, bcc
  <1>5. DOMAIN o = Fields /\ o.acc = acc /\ o.unb = s.unb /\ SameRest(o, s)
    BY <1>1, <1>4 DEF Fields, SameRest
  <1>6. DOMAIN p = Fields /\ p.acc = bcc /\ p.unb = t.unb /\ SameRest(p, t)
    BY <1>1, <1>4 DEF Fields, SameRest
  <1>7. SameRest(o, p)
    BY <1>1, <1>5, <1>6 DEF SameRest
  <1>8. a \in DOMAIN s.acc /\ a \in DOMAIN t.acc /\ \A b : At(s, b) = At(t, b)
    BY DEF Twins, Alike
  <1>9. \A b : At(o, b) = At(p, b)
    <2> SUFFICES ASSUME NEW b PROVE At(o, b) = At(p, b)
      OBVIOUS
    <2>1. At(o, b) = IF b = a THEN r ELSE At(s, b)
      BY <1>2, <1>5, <1>8 DEF At
    <2>2. At(p, b) = IF b = a THEN r ELSE At(t, b)
      BY <1>3, <1>6, <1>8 DEF At
    <2> QED BY <1>8, <2>1, <2>2
  <1>10. Shuffled(o.unb, p.unb)
    BY <1>5, <1>6 DEF Twins, Alike
  <1> QED BY <1>2, <1>3, <1>5, <1>6, <1>7, <1>8, <1>9, <1>10 DEF Twins, Alike

(* A record of an account is the same in both. *)
LEMMA TwinsAt ==
    ASSUME NEW s, NEW t, NEW a, Twins(s, t, a)
    PROVE  s.acc[a] = t.acc[a]
  BY DEF Twins, Alike, At

(* Credit *)
LEMMA AlikeCredit ==
    ASSUME NEW s, NEW t, Alike(s, t), NEW a, NEW c, NEW x
    PROVE  LET o == Credit(s, a, c, x)
               p == Credit(t, a, c, x)
           IN  /\ Alike(o, p) /\ DOMAIN s.acc \subseteq DOMAIN o.acc
               /\ DOMAIN t.acc \subseteq DOMAIN p.acc
               /\ SameRest(o, s)
  <1> DEFINE u == Acct(s, a)
             w == Acct(t, a)
             o == Credit(s, a, c, x)
             p == Credit(t, a, c, x)
  <1>1. PICK E : s.unb \in Seq(E) /\ t.unb \in Seq(E)
    BY DEF Alike, Shuffled
  <1>2. DOMAIN s = Fields /\ DOMAIN t = Fields
    BY DEF Alike
  <1>3. Twins(u, w, a) /\ Alike(u, s)
        /\ DOMAIN s.acc \subseteq DOMAIN u.acc /\ DOMAIN t.acc \subseteq DOMAIN w.acc
    BY <1>1, <1>2, TwinsAcct, AlikeAcct
  <1>4. o = [u EXCEPT !.acc[a].bal[c] = Plus(@, x)] /\ p = [w EXCEPT !.acc[a].bal[c] = Plus(@, x)]
    BY DEF Credit
  <1> HIDE DEF u, w, o, p
  <1> DEFINE r == [u.acc[a] EXCEPT !.bal[c] = Plus(@, x)]
  <1>5. DOMAIN u = Fields /\ DOMAIN w = Fields /\ u.acc[a] = w.acc[a]
    BY <1>3, TwinsAt DEF Twins, Alike
  <1>6. o = [u EXCEPT !.acc = [u.acc EXCEPT ![a] = r]]
    BY <1>3, <1>4, <1>5 DEF Fields, Twins
  <1>7. p = [w EXCEPT !.acc = [w.acc EXCEPT ![a] = r]]
    BY <1>3, <1>4, <1>5 DEF Fields, Twins
  <1> HIDE DEF r
  <1>8. Twins(o, p, a) /\ SameRest(o, u)
        /\ DOMAIN o.acc = DOMAIN u.acc /\ DOMAIN p.acc = DOMAIN w.acc
    BY <1>3, <1>6, <1>7, TwinsPurse
  <1>9. SameRest(o, s)
    BY <1>3, <1>8 DEF SameRest, Alike
  <1> QED BY <1>3, <1>8, <1>9 DEF Twins, o, p

(* Credit, with a sender at hand. *)
LEMMA TwinsCredit ==
    ASSUME NEW s, NEW t, NEW a, Twins(s, t, a), NEW b, NEW c, NEW x
    PROVE  Twins(Credit(s, b, c, x), Credit(t, b, c, x), a) /\ SameRest(Credit(s, b, c, x), s)
  <1> DEFINE o == Credit(s, b, c, x)
             p == Credit(t, b, c, x)
  <1>1. /\ Alike(o, p) /\ DOMAIN s.acc \subseteq DOMAIN o.acc
        /\ DOMAIN t.acc \subseteq DOMAIN p.acc /\ SameRest(o, s)
    BY AlikeCredit DEF Twins
  <1> HIDE DEF o, p
  <1> QED BY <1>1 DEF Twins, o, p

(* Debit *)
LEMMA TwinsDebit ==
    ASSUME NEW s, NEW t, NEW a, Twins(s, t, a), NEW c, NEW x
    PROVE  Twins(Debit(s, a, c, x), Debit(t, a, c, x), a) /\ SameRest(Debit(s, a, c, x), s)
  <1> DEFINE o == Debit(s, a, c, x)
             p == Debit(t, a, c, x)
             r == [s.acc[a] EXCEPT !.bal[c] = Minus(@, x)]
  <1>1. DOMAIN s = Fields /\ DOMAIN t = Fields /\ s.acc[a] = t.acc[a]
    BY TwinsAt DEF Twins, Alike
  <1>2. o = [s EXCEPT !.acc = [s.acc EXCEPT ![a] = r]]
    BY <1>1 DEF Fields, Twins, Debit
  <1>3. p = [t EXCEPT !.acc = [t.acc EXCEPT ![a] = r]]
    BY <1>1 DEF Fields, Twins, Debit
  <1> HIDE DEF r, o, p
  <1>4. Twins(o, p, a) /\ SameRest(o, s)
    BY <1>2, <1>3, TwinsPurse
  <1> QED BY <1>4 DEF o, p

(* BurnSupply *)
LEMMA TwinsBurn ==
    ASSUME NEW s, NEW t, NEW a, Twins(s, t, a), NEW x
    PROVE  Twins(BurnSupply(s, x), BurnSupply(t, x), a)
  <1> DEFINE o == BurnSupply(s, x)
             p == BurnSupply(t, x)
             r == [s.supply EXCEPT !.total = Minus(@, x), !.burned = Plus(@, x)]
  <1>1. DOMAIN s = Fields /\ DOMAIN t = Fields /\ SameRest(s, t)
    BY DEF Twins, Alike
  <1>2. o = [s EXCEPT !.supply = r] /\ p = [t EXCEPT !.supply = r]
    BY <1>1 DEF BurnSupply, Fields, SameRest
  <1> HIDE DEF r, o, p
  <1>3. /\ DOMAIN o = Fields /\ DOMAIN p = Fields /\ SameRest(o, p)
        /\ o.acc = s.acc /\ p.acc = t.acc /\ o.unb = s.unb /\ p.unb = t.unb
    BY <1>1, <1>2 DEF Fields, SameRest
  <1>4. Twins(o, p, a)
    BY <1>3, TwinsWrite
  <1> QED BY <1>4 DEF o, p

(* Unbond *)
LEMMA TwinsUnbond ==
    ASSUME NEW s, NEW t, NEW a, Twins(s, t, a), NEW b, NEW x, NEW time
    PROVE  /\ Twins(Unbond(s, b, x, time), Unbond(t, b, x, time), a)
           /\ SameRest(Unbond(s, b, x, time), s)
           /\ Unbond(s, b, x, time).acc = s.acc /\ Unbond(t, b, x, time).acc = t.acc
  <1> DEFINE o == Unbond(s, b, x, time)
             p == Unbond(t, b, x, time)
             e == Entry(b, x, time + Params.UnbondingMs)
             u == Append(s.unb, e)
             w == Append(t.unb, e)
  <1>1. DOMAIN s = Fields /\ DOMAIN t = Fields /\ SameRest(s, t) /\ Shuffled(s.unb, t.unb)
    BY DEF Twins, Alike
  <1>2. Shuffled(u, w)
    BY <1>1, ShuffledAppend
  <1>3. o = [s EXCEPT !.unb = u] /\ p = [t EXCEPT !.unb = w]
    BY DEF Unbond
  <1> HIDE DEF u, w, o, p
  <1>4. /\ DOMAIN o = Fields /\ DOMAIN p = Fields /\ SameRest(o, p) /\ SameRest(o, s)
        /\ o.acc = s.acc /\ p.acc = t.acc /\ o.unb = u /\ p.unb = w
    BY <1>1, <1>3 DEF Fields, SameRest
  <1>5. Twins(o, p, a)
    BY <1>2, <1>4 DEF Twins, Alike, At
  <1> QED BY <1>4, <1>5 DEF o, p

-----------------------------------------------------------------------------
(* A validator that leaves. *)

(* How often an entry is among those of a leaving validator's delegators. *)
Owes(delegators, time, x) ==
    SumFunctionOnSet([a \in DOMAIN delegators |->
                         IF Entry(a, delegators[a], time + Params.UnbondingMs) = x THEN 1 ELSE 0],
                     DOMAIN delegators)

(* From s to o a validator has left, and its delegations have queued. *)
Leaves(s, o, v, time, E) ==
    LET d == s.val[v].delegators
        F == E \cup {Entry(a, d[a], time + Params.UnbondingMs) : a \in DOMAIN d}
    IN  /\ o.unb \in Seq(F)
        /\ \A x : Times(o.unb, x) = Times(s.unb, x) + Owes(d, time, x)
        /\ DOMAIN o = Fields /\ o.val = Without(s.val, v)
        /\ \A g \in Fields \ {"val", "unb"} : o[g] = s[g]

(* Its delegations queue, each once, whatever their order. *)
LEMMA LeaveQueue ==
    ASSUME NEW s, DOMAIN s = Fields, NEW E, s.unb \in Seq(E), NEW v, NEW time,
           IsFiniteSet(DOMAIN s.val[v].delegators),
           NEW order, Lists(order, DOMAIN s.val[v].delegators)
    PROVE  Leaves(s, Leave(s, v, order, time), v, time, E)
  <1> DEFINE d == s.val[v].delegators
             S == DOMAIN d
             n == Cardinality(S)
             entry(a) == Entry(a, d[a], time + Params.UnbondingMs)
             F == E \cup {entry(a) : a \in S}
             o == Leave(s, v, order, time)
             out == Leaving!Fold(time, d, s, order)
  <1>1. IsFiniteSet(S) /\ n \in Nat
    BY FS_CardinalityType
  <1>2. order \in [1..n -> S]
    BY DEF Lists
  <1>3. o = [out EXCEPT !.val = Without(@, v)]
    BY DEF Leave, Leaving!Fold, FoldLeft, Leaving!FoldLeft, MapThenFoldSet,
           Leaving!MapThenFoldSet, Max, Leaving!Max, LeaveEntry
  <1>4. PICK f : /\ f[0] = s
                 /\ \A k \in 1..n : f[k] = LeaveEntry(time, d, f[k - 1], order[k])
                 /\ f[n] = out
    <2>1. Leaving!Traced(time, d, s, n, order)
      BY <1>1, <1>2, Leaving!FoldTrace
    <2> HIDE DEF n, d
    <2> QED BY <2>1 DEF Leaving!Traced
  <1>5. \A k \in 1..n : order[k] \in S /\ entry(order[k]) \in F
    BY <1>2
  <1>6. s.unb \in Seq(F)
    OBVIOUS
  <1>7. Lists(order, S)
    OBVIOUS
  <1> HIDE DEF d, S, F, n, o, out
  <1> DEFINE T == {k \in Nat : /\ DOMAIN f[k] = Fields
                               /\ f[k].unb \in Seq(F)
                               /\ \A g \in Fields \ {"unb"} : f[k][g] = s[g]}
  <1>8. 0 \in T
    BY <1>4, <1>6
  <1>9. ASSUME NEW k \in 1..n
        PROVE  f[k] = [f[k - 1] EXCEPT !.unb = Append(@, entry(order[k]))]
    BY <1>4 DEF LeaveEntry, Unbond
  <1> HIDE DEF entry
  <1>10. ASSUME NEW k \in 1..n, k - 1 \in T PROVE k \in T
    <2> DEFINE q == f[k - 1].unb
               e == entry(order[k])
    <2>1. q \in Seq(F) /\ e \in F
      BY <1>5, <1>10
    <2> HIDE DEF q, e
    <2>2. Append(q, e) \in Seq(F)
      BY <2>1
    <2>3. f[k] = [f[k - 1] EXCEPT !.unb = Append(q, e)]
      BY <1>9 DEF q, e
    <2>4. k \in Nat /\ DOMAIN f[k - 1] = Fields
          /\ \A g \in Fields \ {"unb"} : f[k - 1][g] = s[g]
      BY <1>10
    <2>5. /\ DOMAIN f[k] = Fields /\ f[k].unb = Append(q, e)
          /\ \A g \in Fields \ {"unb"} : f[k][g] = s[g]
      BY <2>3, <2>4 DEF Fields
    <2> QED BY <2>2, <2>4, <2>5
  <1>11. \A k \in 0..n : k \in T
    <2> HIDE DEF T
    <2> QED BY <1>1, <1>8, <1>10, Positions
  <1>12. \A x : Times(out.unb, x) = Times(s.unb, x) + Owes(d, time, x)
    <2> SUFFICES ASSUME NEW x PROVE Times(out.unb, x) = Times(s.unb, x) + Owes(d, time, x)
      OBVIOUS
    <2> DEFINE h == [a \in S |-> IF entry(a) = x THEN 1 ELSE 0]
               y == [i \in 1..n |-> h[order[i]]]
               P(k) == SumFunctionOnSet(y, 1..k)
               U == {k \in Nat : P(k) \in Int /\ Times(f[k].unb, x) = Times(s.unb, x) + P(k)}
    <2>1. \A a \in S : h[a] \in Int
      OBVIOUS
    <2>2. \A i \in 1..n : y[i] = h[order[i]] /\ y[i] \in Int
                          /\ y[i] = (IF entry(order[i]) = x THEN 1 ELSE 0)
      BY <1>5
    <2>3. SumFunctionOnSet(y, 1..n) = SumFunctionOnSet(h, S)
      <3> HIDE DEF y, h
      <3>1. \A i \in 1..Cardinality(S) : y[i] = h[order[i]]
        BY <2>2 DEF n
      <3>2. SumFunctionOnSet(y, 1..Cardinality(S)) = SumFunctionOnSet(h, S)
        BY <1>1, <1>7, <2>1, <3>1, SumAlong
      <3> QED BY <3>2 DEF n
    <2>4. Owes(d, time, x) = SumFunctionOnSet(h, S)
      BY DEF Owes, S, entry
    <2>5. Times(s.unb, x) \in Int
      <3> DEFINE q == s.unb
                 D == {i \in DOMAIN q : q[i] = x}
      <3>1. q \in Seq(F)
        BY <1>6
      <3>2. Len(q) \in Nat /\ D \subseteq 1..Len(q)
        BY <3>1
      <3> HIDE DEF D, q
      <3>3. Cardinality(D) \in Nat
        <4>1. IsFiniteSet(1..Len(q))
          BY <3>2, FS_Interval
        <4> QED BY <3>2, <4>1, FS_Subset, FS_CardinalityType
      <3> QED BY <3>3 DEF D, q, Times
    <2> HIDE DEF h, y
    <2>6. 0 \in U
      <3>1. 1..0 = {}
        OBVIOUS
      <3>2. P(0) = 0
        BY <3>1, SumOfNone
      <3> QED BY <1>4, <2>5, <3>2
    <2>7. ASSUME NEW k \in 1..n, k - 1 \in U PROVE k \in U
      <3> DEFINE q == f[k - 1].unb
                 e == entry(order[k])
      <3>1. k - 1 \in 0..n
        BY <1>1
      <3>2. q \in Seq(F) /\ DOMAIN f[k - 1] = Fields
        BY <1>11, <3>1
      <3>3. f[k].unb = Append(q, e)
        <4>1. f[k] = [f[k - 1] EXCEPT !.unb = Append(q, e)]
          BY <1>9
        <4> HIDE DEF q, e
        <4> QED BY <3>2, <4>1 DEF Fields
      <3>4. y[k] = (IF e = x THEN 1 ELSE 0) /\ y[k] \in Int
        BY <2>2
      <3> HIDE DEF q, e
      <3>5. Times(f[k].unb, x) = Times(q, x) + y[k]
        BY <3>2, <3>3, <3>4, TimesAppend
      <3>6. k \in Nat /\ k > 0 /\ \A i \in 1..k : y[i] \in Int
        BY <1>1, <2>2
      <3>7. P(k) = P(k - 1) + y[k]
        BY <3>6, SumPrefix
      <3> HIDE DEF P
      <3>8. P(k - 1) \in Int /\ Times(q, x) = Times(s.unb, x) + P(k - 1)
        BY <2>7 DEF q
      <3>9. P(k) \in Int /\ Times(f[k].unb, x) = Times(s.unb, x) + P(k)
        BY <2>5, <3>4, <3>5, <3>7, <3>8
      <3> QED BY <3>6, <3>9
    <2> HIDE DEF U
    <2>8. n \in U
      <3>1. \A k \in 0..n : k \in U
        BY <1>1, <2>6, <2>7, Positions
      <3> QED BY <1>1, <3>1
    <2>9. Times(f[n].unb, x) = Times(s.unb, x) + P(n)
      BY <2>8 DEF U
    <2> QED BY <1>4, <2>3, <2>4, <2>9
  <1>13. /\ DOMAIN out = Fields /\ out.unb \in Seq(F)
         /\ \A g \in Fields \ {"unb"} : out[g] = s[g]
    <2>1. n \in T
      BY <1>1, <1>11
    <2> QED BY <1>4, <2>1
  <1>14. /\ DOMAIN o = Fields /\ o.unb = out.unb /\ o.val = Without(out.val, v)
         /\ \A g \in Fields \ {"val", "unb"} : o[g] = out[g]
    BY <1>3, <1>13 DEF Fields
  <1>15. /\ DOMAIN o = Fields /\ o.unb = out.unb /\ o.val = Without(s.val, v)
         /\ \A g \in Fields \ {"val", "unb"} : o[g] = s[g]
    BY <1>13, <1>14 DEF Fields
  <1>16. /\ o.unb \in Seq(F)
         /\ \A x : Times(o.unb, x) = Times(s.unb, x) + Owes(d, time, x)
    BY <1>12, <1>13, <1>15
  <1> QED BY <1>15, <1>16 DEF o, d, F, S, entry, Leaves

(* So it leaves both ledgers alike. *)
LEMMA AlikeLeave ==
    ASSUME NEW s, NEW t, Alike(s, t), NEW v, NEW time,
           IsFiniteSet(DOMAIN s.val[v].delegators),
           NEW order, Lists(order, DOMAIN s.val[v].delegators),
           NEW other, Lists(other, DOMAIN s.val[v].delegators)
    PROVE  LET o == Leave(s, v, order, time)
               p == Leave(t, v, other, time)
           IN  Alike(o, p) /\ o.acc = s.acc /\ p.acc = t.acc
  <1> DEFINE o == Leave(s, v, order, time)
             p == Leave(t, v, other, time)
             d == s.val[v].delegators
             G == {Entry(a, d[a], time + Params.UnbondingMs) : a \in DOMAIN d}
  <1>1. PICK E : s.unb \in Seq(E) /\ t.unb \in Seq(E)
    BY DEF Alike, Shuffled
  <1>2. /\ DOMAIN s = Fields /\ DOMAIN t = Fields /\ SameRest(s, t)
        /\ \A a : At(s, a) = At(t, a)
        /\ \A x : Times(s.unb, x) = Times(t.unb, x)
        /\ t.val[v].delegators = d
    BY DEF Alike, SameRest, Shuffled
  <1>3. /\ o.unb \in Seq(E \cup G)
        /\ \A x : Times(o.unb, x) = Times(s.unb, x) + Owes(d, time, x)
        /\ DOMAIN o = Fields /\ o.val = Without(s.val, v)
        /\ \A g \in Fields \ {"val", "unb"} : o[g] = s[g]
    <2>1. Leaves(s, o, v, time, E)
      BY <1>1, <1>2, LeaveQueue
    <2> QED BY <2>1 DEF Leaves
  <1>4. /\ p.unb \in Seq(E \cup G)
        /\ \A x : Times(p.unb, x) = Times(t.unb, x) + Owes(d, time, x)
        /\ DOMAIN p = Fields /\ p.val = Without(t.val, v)
        /\ \A g \in Fields \ {"val", "unb"} : p[g] = t[g]
    <2>1. IsFiniteSet(DOMAIN t.val[v].delegators) /\ Lists(other, DOMAIN t.val[v].delegators)
          /\ DOMAIN t = Fields /\ t.unb \in Seq(E)
      BY <1>1, <1>2
    <2>2. Leaves(t, p, v, time, E)
      BY ONLY <2>1, LeaveQueue
    <2>3. t.val[v].delegators = d
      BY <1>2
    <2> HIDE DEF p, d
    <2> QED BY <2>2, <2>3 DEF Leaves, G
  <1> HIDE DEF o, p, d, G
  <1>5. SameRest(o, p) /\ o.acc = s.acc /\ p.acc = t.acc
    BY <1>2, <1>3, <1>4 DEF SameRest, Fields
  <1>6. \A a : At(o, a) = At(p, a)
    BY <1>2, <1>5 DEF At
  <1>7. Shuffled(o.unb, p.unb)
    BY <1>2, <1>3, <1>4 DEF Shuffled
  <1>8. Alike(o, p)
    BY <1>3, <1>4, <1>5, <1>6, <1>7 DEF Alike
  <1> QED BY <1>5, <1>8 DEF o, p

-----------------------------------------------------------------------------
(* Slashing and downtime, in ledgers that differ in their queues only. *)

(* Everything else is written alike. *)
LEMMA RequeuedWrite ==
    ASSUME NEW s, NEW t, Requeued(s, t), NEW o, NEW p,
           DOMAIN o = Fields, DOMAIN p = Fields, SameRest(o, p), o.acc = p.acc,
           o.unb = s.unb, p.unb = t.unb
    PROVE  Requeued(o, p)
  BY DEF Requeued, Alike, At

(* The ledger after slashWeightLocked, as one change of three fields. *)
Cutting(s, v, bps) ==
    LET cut  == Bps(s.val[v].stake, bps)
        left == IF s.acc[v].staked >= cut THEN s.acc[v].staked - cut ELSE 0
        x    == CutOf(s.val[v], bps)
    IN  [s EXCEPT !.supply = [s.supply EXCEPT !.total = Minus(@, x), !.burned = Plus(@, x)],
                  !.acc = IF v \in DOMAIN s.acc
                          THEN [s.acc EXCEPT ![v].staked = left] ELSE s.acc,
                  !.val = Put(s.val, v, Slashed(s.val[v], bps))]

(* That is what it does to the record of a validator. *)
LEMMA SlashWeightFields ==
    ASSUME NEW s, DOMAIN s = Fields, NEW v \in DOMAIN s.val, ValidatorOK(s.val[v]), NEW bps
    PROVE  SlashWeight(s, v, bps) = Cutting(s, v, bps)
  <1> DEFINE w == s.val[v]
             e == Slashed(w, bps)
             cut == Bps(w.stake, bps)
             left == IF s.acc[v].staked >= cut THEN s.acc[v].staked - cut ELSE 0
             acc == IF v \in DOMAIN s.acc THEN [s.acc EXCEPT ![v].staked = left] ELSE s.acc
             x == CutOf(w, bps)
             sup == [s.supply EXCEPT !.total = Minus(@, x), !.burned = Plus(@, x)]
             dcut == [a \in DOMAIN w.delegators |-> Bps(w.delegators[a], bps)]
             ns == Minus(w.stake, cut)
             nd == Minus(w.delegated, SumFunction(dcut))
             ng == [a \in DOMAIN w.delegators |-> Minus(w.delegators[a], dcut[a])]
             d == BurnSupply(s, x)
             o == SlashWeight(s, v, bps)
  <1>1. o = [d EXCEPT !.acc = acc,
                      !.val[v].stake = Minus(@, cut),
                      !.val[v].delegated = Minus(@, SumFunction(dcut)),
                      !.val[v].delegators = [a \in DOMAIN @ |-> Minus(@[a], dcut[a])]]
    BY DEF SlashWeight, CutOf
  <1>2. e = [w EXCEPT !.stake = ns, !.delegated = nd, !.delegators = ng]
    BY DEF Slashed
  <1>3. \A r : Put(s.val, v, r) = [s.val EXCEPT ![v] = r]
    BY DEF Put
  <1>4. DOMAIN w = {"stake", "delegated", "delegators", "missed", "jailed", "until"}
    BY DEF ValidatorOK
  <1>5. d = [s EXCEPT !.supply = sup]
    <2> HIDE DEF x
    <2> QED BY ZenonT(40) DEF BurnSupply, Fields
  <1>6. DOMAIN d = Fields /\ d.val = s.val
    <2> HIDE DEF d, sup
    <2> QED BY <1>5 DEF Fields
  <1>7. v \in DOMAIN d.val /\ d.val[v] = w /\ "val" \in DOMAIN d
    <2> HIDE DEF d
    <2> QED BY <1>6 DEF Fields
  <1> HIDE DEF d, o, w, e, cut, acc, sup
  <1>8. o = [d EXCEPT !.acc = acc, !.val[v].stake = ns, !.val[v].delegated = nd,
                      !.val[v].delegators = ng]
    <2> HIDE DEF dcut
    <2> QED BY <1>1, <1>4, <1>7
  <1> HIDE DEF dcut, ns, nd, ng
  <1>9. o = [d EXCEPT !.acc = acc, !.val = [d.val EXCEPT ![v] = e]]
    BY <1>2, <1>4, <1>7, <1>8
  <1>10. o = [s EXCEPT !.supply = sup, !.acc = acc, !.val = Put(s.val, v, e)]
    BY <1>3, <1>5, <1>6, <1>9 DEF Fields
  <1> QED BY <1>10 DEF o, w, e, cut, acc, sup, Cutting

(* slashWeightLocked *)
LEMMA RequeuedSlashWeight ==
    ASSUME NEW s, NEW t, Requeued(s, t), NEW v \in DOMAIN s.val, ValidatorOK(s.val[v]), NEW bps
    PROVE  Requeued(SlashWeight(s, v, bps), SlashWeight(t, v, bps))
  <1> DEFINE w == s.val[v]
             cut == Bps(w.stake, bps)
             left == IF s.acc[v].staked >= cut THEN s.acc[v].staked - cut ELSE 0
             acc == IF v \in DOMAIN s.acc THEN [s.acc EXCEPT ![v].staked = left] ELSE s.acc
             x == CutOf(w, bps)
             sup == [s.supply EXCEPT !.total = Minus(@, x), !.burned = Plus(@, x)]
             val == Put(s.val, v, Slashed(w, bps))
             o == SlashWeight(s, v, bps)
             p == SlashWeight(t, v, bps)
  <1>1. /\ DOMAIN s = Fields /\ DOMAIN t = Fields
        /\ t.val = s.val /\ t.acc = s.acc /\ t.supply = s.supply /\ SameRest(s, t)
    BY DEF Requeued, Alike, SameRest
  <1>2. o = [s EXCEPT !.supply = sup, !.acc = acc, !.val = val]
    BY ZenonT(40), <1>1, SlashWeightFields DEF Cutting
  <1>3. p = [t EXCEPT !.supply = sup, !.acc = acc, !.val = val]
    <2>1. v \in DOMAIN t.val /\ ValidatorOK(t.val[v])
      BY <1>1
    <2>2. p = Cutting(t, v, bps)
      BY <1>1, <2>1, SlashWeightFields
    <2> HIDE DEF p
    <2> QED BY <1>1, <2>2 DEF Cutting
  <1> HIDE DEF sup, acc, val, o, p
  <1>4. /\ DOMAIN o = Fields /\ DOMAIN p = Fields /\ SameRest(o, p) /\ o.acc = p.acc
        /\ o.unb = s.unb /\ p.unb = t.unb
    BY <1>1, <1>2, <1>3 DEF Fields, SameRest
  <1> QED BY <1>4, RequeuedWrite DEF o, p

(* slashLocked, with the delegations released in two orders. *)
LEMMA RequeuedSlash ==
    ASSUME NEW s, NEW t, Requeued(s, t), Shape(s), NEW fault, NEW time,
           NEW order, NEW other,
           fault.voter \in DOMAIN s.val =>
               /\ Lists(order, DOMAIN s.val[fault.voter].delegators)
               /\ Lists(other, DOMAIN s.val[fault.voter].delegators)
    PROVE  Requeued(Slash(s, fault, order, time), Slash(t, fault, other, time))
  <1> DEFINE v == fault.voter
             slashed == s.slashed \cup {fault}
             bps == Params.SlashDoubleSignBps
             m == [s EXCEPT !.slashed = slashed]
             n == [t EXCEPT !.slashed = slashed]
             c == SlashWeight(m, v, bps)
             e == SlashWeight(n, v, bps)
             o == Slash(s, fault, order, time)
             p == Slash(t, fault, other, time)
  <1>1. /\ DOMAIN s = Fields /\ DOMAIN t = Fields
        /\ t.slashed = s.slashed /\ t.val = s.val /\ t.acc = s.acc /\ SameRest(s, t)
    BY DEF Requeued, Alike, SameRest
  <1>2. o = IF fault \in s.slashed THEN s
            ELSE IF v \notin DOMAIN s.val THEN m
            ELSE IF c.val[v].stake = 0 THEN Leave(c, v, order, time) ELSE c
    BY DEF Slash
  <1>3. p = IF fault \in t.slashed THEN t
            ELSE IF v \notin DOMAIN t.val THEN n
            ELSE IF e.val[v].stake = 0 THEN Leave(e, v, other, time) ELSE e
    BY <1>1 DEF Slash
  <1>4. Requeued(m, n) /\ m.val = s.val
    <2>1. /\ DOMAIN m = Fields /\ DOMAIN n = Fields /\ SameRest(m, n) /\ m.acc = n.acc
          /\ m.unb = s.unb /\ n.unb = t.unb /\ m.val = s.val
      <3> HIDE DEF slashed
      <3> QED BY <1>1 DEF Fields, SameRest
    <2> HIDE DEF m, n
    <2> QED BY <2>1, RequeuedWrite
  <1>5. bps \in Nat
    BY ParamsAreNatural DEF ParamNames
  <1>6. Shape(m)
    BY MarkStep
  <1> HIDE DEF m, n, o, p, c, e, v, bps
  <1>7. ASSUME v \in DOMAIN s.val
        PROVE  /\ Requeued(c, e) /\ IsFiniteSet(DOMAIN c.val[v].delegators)
               /\ DOMAIN c.val[v].delegators = DOMAIN s.val[v].delegators
    <2>1. v \in DOMAIN m.val /\ ValidatorOK(m.val[v])
      BY <1>4, <1>6, <1>7 DEF Shape, ValOK
    <2>2. Requeued(c, e)
      BY <1>4, <2>1, RequeuedSlashWeight DEF c, e
    <2>3. DOMAIN c.val[v].delegators = DOMAIN m.val[v].delegators
      BY <1>5, <1>6, <2>1, SlashWeightStep DEF c
    <2>4. DOMAIN m.val[v].delegators \subseteq Addr
      BY <2>1 DEF ValidatorOK
    <2> QED BY <1>4, <2>2, <2>3, <2>4, NamesDiffer, FS_Subset
  <1>8. ASSUME v \in DOMAIN s.val
        PROVE  Requeued(Leave(c, v, order, time), Leave(e, v, other, time))
    <2> DEFINE l == Leave(c, v, order, time)
               k == Leave(e, v, other, time)
    <2>1. /\ Alike(c, e) /\ IsFiniteSet(DOMAIN c.val[v].delegators) /\ c.acc = e.acc
          /\ Lists(order, DOMAIN c.val[v].delegators)
          /\ Lists(other, DOMAIN c.val[v].delegators)
      BY <1>7, <1>8 DEF Requeued, v
    <2>2. Alike(l, k) /\ l.acc = c.acc /\ k.acc = e.acc
      BY <2>1, AlikeLeave
    <2> HIDE DEF l, k
    <2>3. Requeued(l, k)
      BY <2>1, <2>2 DEF Requeued
    <2> QED BY <2>3 DEF l, k
  <1>9. ASSUME v \in DOMAIN s.val PROVE c.val[v].stake = e.val[v].stake
    BY <1>7, <1>9 DEF Requeued, Alike, SameRest
  <1> QED BY <1>1, <1>2, <1>3, <1>4, <1>7, <1>8, <1>9 DEF o, p

(* All the evidence of a block, with the maps walked in two orders. *)
LEMMA RequeuedSlashAll ==
    ASSUME NEW s, NEW t, Requeued(s, t), Shape(s), NEW E, NEW evidence \in Seq(E),
           NEW time \in Nat, NEW order, OrderOK(order), NEW other, OrderOK(other)
    PROVE  /\ Requeued(SlashAll(s, evidence, order, time), SlashAll(t, evidence, other, time))
           /\ Shape(SlashAll(s, evidence, order, time))
  <1> DEFINE n == Len(evidence)
             o == SlashAll(s, evidence, order, time)
             p == SlashAll(t, evidence, other, time)
  <1>1. n \in Nat /\ DOMAIN evidence = 1..n
    OBVIOUS
  <1>2. o = Slashing!Fold(time, order, s, evidence)
    BY DEF SlashAll, Slashing!Fold, FoldLeft, Slashing!FoldLeft, MapThenFoldSet,
           Slashing!MapThenFoldSet, Max, Slashing!Max, SlashOne
  <1>3. p = Slashing!Fold(time, other, t, evidence)
    BY DEF SlashAll, Slashing!Fold, FoldLeft, Slashing!FoldLeft, MapThenFoldSet,
           Slashing!MapThenFoldSet, Max, Slashing!Max, SlashOne
  <1>4. PICK f : /\ f[0] = s
                 /\ \A k \in 1..n : f[k] = SlashOne(time, order, f[k - 1], evidence[k])
                 /\ f[n] = Slashing!Fold(time, order, s, evidence)
    <2>1. Slashing!Traced(time, order, s, n, evidence)
      BY <1>1, Slashing!FoldTrace
    <2> HIDE DEF n
    <2> QED BY <2>1 DEF Slashing!Traced
  <1>5. PICK g : /\ g[0] = t
                 /\ \A k \in 1..n : g[k] = SlashOne(time, other, g[k - 1], evidence[k])
                 /\ g[n] = Slashing!Fold(time, other, t, evidence)
    <2>1. Slashing!Traced(time, other, t, n, evidence)
      BY <1>1, Slashing!FoldTrace
    <2> HIDE DEF n
    <2> QED BY <2>1 DEF Slashing!Traced
  <1> HIDE DEF n, o, p
  <1> DEFINE T == {k \in Nat : Shape(f[k]) /\ Requeued(f[k], g[k])}
  <1>6. 0 \in T
    BY <1>4, <1>5
  <1>7. ASSUME NEW k \in 1..n, k - 1 \in T PROVE k \in T
    <2> DEFINE a == f[k - 1]
               b == g[k - 1]
               v == evidence[k].voter
               D == DOMAIN a.val[v].delegators
               list == IF v \in DOMAIN a.val THEN order[D] ELSE <<>>
               back == IF v \in DOMAIN a.val THEN other[D] ELSE <<>>
    <2>1. Shape(a) /\ Requeued(a, b) /\ k \in Nat
      BY <1>7
    <2>2. b.val = a.val
      BY <2>1 DEF Requeued, Alike, SameRest
    <2>3. f[k] = Slash(a, evidence[k], list, time)
      BY <1>4 DEF SlashOne
    <2>4. g[k] = Slash(b, evidence[k], back, time)
      <3>1. g[k] = SlashOne(time, other, b, evidence[k])
        BY <1>5
      <3> HIDE DEF b, a
      <3> QED BY <2>2, <3>1 DEF SlashOne
    <2>5. v \in DOMAIN a.val => Lists(list, D) /\ Lists(back, D)
      <3>1. \A u \in DOMAIN a.val : DOMAIN a.val[u].delegators \subseteq Addr
        BY SMTT(40), <2>1 DEF Shape, ValOK, ValidatorOK
      <3> QED BY SMTT(40), <3>1 DEF OrderOK
    <2> HIDE DEF a, b, list, back
    <2>6. Settles(a, f[k])
      BY <2>1, <2>3, <2>5, SlashStep
    <2>7. Requeued(f[k], g[k])
      BY <2>1, <2>3, <2>4, <2>5, RequeuedSlash
    <2> QED BY <2>1, <2>6, <2>7 DEF Settles, Neutral
  <1> HIDE DEF T
  <1>8. n \in T
    <2>1. \A k \in 0..n : k \in T
      BY <1>1, <1>6, <1>7, Positions
    <2> QED BY <1>1, <2>1
  <1> QED BY <1>2, <1>3, <1>4, <1>5, <1>8 DEF o, p, T

(* applyDowntimeLocked, for one of the proposers that were skipped. *)
LEMMA RequeuedMiss ==
    ASSUME NEW s, NEW t, Requeued(s, t), Shape(s), NEW v, NEW time
    PROVE  Requeued(Miss(s, v, time), Miss(t, v, time))
  <1> DEFINE w == s.val[v]
             missed == w.missed + 1
             bps == Params.SlashDowntimeBps
             until == time + Params.JailMs
             c == SlashWeight(s, v, bps)
             e == SlashWeight(t, v, bps)
             o == Miss(s, v, time)
             p == Miss(t, v, time)
  <1>1. /\ DOMAIN s = Fields /\ DOMAIN t = Fields /\ t.val = s.val /\ t.acc = s.acc
        /\ SameRest(s, t)
    BY DEF Requeued, Alike, SameRest
  <1>2. o = IF v \notin DOMAIN s.val \/ w.jailed THEN s
            ELSE IF missed < Params.DowntimeJailThreshold
            THEN [s EXCEPT !.val[v].missed = missed]
            ELSE [c EXCEPT !.val[v].jailed = TRUE, !.val[v].until = until, !.val[v].missed = 0]
    BY DEF Miss
  <1>3. p = IF v \notin DOMAIN s.val \/ w.jailed THEN t
            ELSE IF missed < Params.DowntimeJailThreshold
            THEN [t EXCEPT !.val[v].missed = missed]
            ELSE [e EXCEPT !.val[v].jailed = TRUE, !.val[v].until = until, !.val[v].missed = 0]
    BY <1>1 DEF Miss
  <1> HIDE DEF o, p, c, e, missed, until, bps
  <1>4. CASE v \notin DOMAIN s.val \/ w.jailed
    BY <1>2, <1>3, <1>4 DEF o, p
  <1>5. CASE v \in DOMAIN s.val /\ ~w.jailed /\ missed < Params.DowntimeJailThreshold
    <2> DEFINE val == [s.val EXCEPT ![v].missed = missed]
    <2>1. o = [s EXCEPT !.val = val] /\ p = [t EXCEPT !.val = val]
      BY <1>1, <1>2, <1>3, <1>5 DEF Fields
    <2> HIDE DEF val
    <2>2. /\ DOMAIN o = Fields /\ DOMAIN p = Fields /\ SameRest(o, p) /\ o.acc = p.acc
          /\ o.unb = s.unb /\ p.unb = t.unb
      BY <1>1, <2>1 DEF Fields, SameRest
    <2> QED BY <2>2, RequeuedWrite DEF o, p
  <1>6. CASE v \in DOMAIN s.val /\ ~w.jailed /\ ~(missed < Params.DowntimeJailThreshold)
    <2>1. ValidatorOK(s.val[v])
      BY <1>6 DEF Shape, ValOK
    <2>2. Requeued(c, e)
      BY <1>6, <2>1, RequeuedSlashWeight DEF c, e
    <2>3. /\ DOMAIN c = Fields /\ DOMAIN e = Fields /\ e.val = c.val /\ e.acc = c.acc
          /\ SameRest(c, e)
      BY <2>2 DEF Requeued, Alike, SameRest
    <2> DEFINE q == [c.val[v] EXCEPT !.jailed = TRUE, !.until = until, !.missed = 0]
               val == [c.val EXCEPT ![v] = q]
    <2>4. v \in DOMAIN c.val
      <3>1. bps \in Nat
        BY ParamsAreNatural DEF ParamNames, bps
      <3>2. c.val = Put(s.val, v, Slashed(s.val[v], bps))
        BY <1>6, <3>1, SlashWeightStep DEF c
      <3> QED BY <3>2 DEF Put
    <2>5. o = [c EXCEPT !.val = val]
      BY ZenonT(40), <1>2, <1>6, <2>3, <2>4 DEF Fields
    <2>6. p = [e EXCEPT !.val = val]
      BY ZenonT(40), <1>3, <1>6, <2>3, <2>4 DEF Fields
    <2> HIDE DEF val
    <2>7. /\ DOMAIN o = Fields /\ DOMAIN p = Fields /\ SameRest(o, p) /\ o.acc = p.acc
          /\ o.unb = c.unb /\ p.unb = e.unb
      BY <2>3, <2>5, <2>6 DEF Fields, SameRest
    <2> QED BY <2>2, <2>7, RequeuedWrite DEF o, p
  <1> QED BY <1>4, <1>5, <1>6

(* And for all of them. *)
LEMMA RequeuedDowntime ==
    ASSUME NEW s, NEW t, Requeued(s, t), Shape(s), NEW a, NEW N, NEW absent \in Seq(N),
           NEW time \in Nat
    PROVE  Requeued(ApplyDowntime(s, a, absent, time), ApplyDowntime(t, a, absent, time))
  <1> DEFINE n == Len(absent)
             b == IF a \in DOMAIN s.val THEN [s EXCEPT !.val[a].missed = 0] ELSE s
             c == IF a \in DOMAIN t.val THEN [t EXCEPT !.val[a].missed = 0] ELSE t
             o == ApplyDowntime(s, a, absent, time)
             p == ApplyDowntime(t, a, absent, time)
  <1>1. n \in Nat /\ DOMAIN absent = 1..n
    OBVIOUS
  <1>2. o = Missing!Fold(time, 0, b, absent)
    BY DEF ApplyDowntime, Missing!Fold, FoldLeft, Missing!FoldLeft, MapThenFoldSet,
           Missing!MapThenFoldSet, Max, Missing!Max, MissOne
  <1>3. p = Missing!Fold(time, 0, c, absent)
    BY DEF ApplyDowntime, Missing!Fold, FoldLeft, Missing!FoldLeft, MapThenFoldSet,
           Missing!MapThenFoldSet, Max, Missing!Max, MissOne
  <1>4. Requeued(b, c)
    <2>1. /\ DOMAIN s = Fields /\ DOMAIN t = Fields /\ t.val = s.val /\ t.acc = s.acc
          /\ SameRest(s, t)
      BY DEF Requeued, Alike, SameRest
    <2>2. CASE a \in DOMAIN s.val
      <3> DEFINE val == [s.val EXCEPT ![a].missed = 0]
      <3>1. b = [s EXCEPT !.val = val] /\ c = [t EXCEPT !.val = val]
        BY <2>1, <2>2 DEF Fields
      <3> HIDE DEF val, b, c
      <3>2. /\ DOMAIN b = Fields /\ DOMAIN c = Fields /\ SameRest(b, c) /\ b.acc = c.acc
            /\ b.unb = s.unb /\ c.unb = t.unb
        BY <2>1, <3>1 DEF Fields, SameRest
      <3> QED BY <3>2, RequeuedWrite
    <2>3. CASE a \notin DOMAIN s.val
      BY <2>1, <2>3
    <2> QED BY <2>2, <2>3
  <1>5. Shape(b)
    <2>1. DOMAIN <<>> = 1..0
      OBVIOUS
    <2>2. b = Missing!Fold(time, 0, b, <<>>)
      <3>1. Missing!Traced(time, 0, b, 0, <<>>)
        BY <2>1, Missing!FoldTrace
      <3> QED BY <3>1 DEF Missing!Traced
    <2>3. ApplyDowntime(s, a, <<>>, time) = Missing!Fold(time, 0, b, <<>>)
      BY DEF ApplyDowntime, Missing!Fold, FoldLeft, Missing!FoldLeft, MapThenFoldSet,
             Missing!MapThenFoldSet, Max, Missing!Max, MissOne
    <2>4. <<>> \in Seq(N)
      OBVIOUS
    <2>5. Settles(s, ApplyDowntime(s, a, <<>>, time))
      BY <2>4, ApplyDowntimeStep
    <2> HIDE DEF b
    <2> QED BY <2>2, <2>3, <2>5 DEF Settles, Neutral
  <1>6. PICK f : /\ f[0] = b
                 /\ \A k \in 1..n : f[k] = MissOne(time, 0, f[k - 1], absent[k])
                 /\ f[n] = Missing!Fold(time, 0, b, absent)
    <2>1. Missing!Traced(time, 0, b, n, absent)
      BY <1>1, Missing!FoldTrace
    <2> HIDE DEF n, b
    <2> QED BY <2>1 DEF Missing!Traced
  <1>7. PICK g : /\ g[0] = c
                 /\ \A k \in 1..n : g[k] = MissOne(time, 0, g[k - 1], absent[k])
                 /\ g[n] = Missing!Fold(time, 0, c, absent)
    <2>1. Missing!Traced(time, 0, c, n, absent)
      BY <1>1, Missing!FoldTrace
    <2> HIDE DEF n, c
    <2> QED BY <2>1 DEF Missing!Traced
  <1> HIDE DEF n, b, c, o, p
  <1> DEFINE T == {k \in Nat : Shape(f[k]) /\ Requeued(f[k], g[k])}
  <1>8. 0 \in T
    BY <1>4, <1>5, <1>6, <1>7
  <1>9. ASSUME NEW k \in 1..n, k - 1 \in T PROVE k \in T
    <2>1. Shape(f[k - 1]) /\ Requeued(f[k - 1], g[k - 1]) /\ k \in Nat
      BY <1>9
    <2>2. f[k] = Miss(f[k - 1], absent[k], time) /\ g[k] = Miss(g[k - 1], absent[k], time)
      BY <1>6, <1>7 DEF MissOne
    <2>3. Requeued(f[k], g[k])
      BY <2>1, <2>2, RequeuedMiss
    <2>4. Settles(f[k - 1], f[k])
      BY <2>1, <2>2, MissStep
    <2> QED BY <2>1, <2>3, <2>4 DEF Settles, Neutral
  <1> HIDE DEF T
  <1>10. n \in T
    <2>1. \A k \in 0..n : k \in T
      BY <1>1, <1>8, <1>9, Positions
    <2> QED BY <1>1, <2>1
  <1> QED BY <1>2, <1>3, <1>6, <1>7, <1>10 DEF o, p, T

-----------------------------------------------------------------------------
(* The handlers of the transactions. *)

(* One field other than the accounts and the queue is written alike. *)
LEMMA TwinsField ==
    ASSUME NEW s, NEW t, NEW a, Twins(s, t, a), NEW f \in Fields \ {"acc", "unb"}, NEW r,
           NEW o, o = [s EXCEPT ![f] = r], NEW p, p = [t EXCEPT ![f] = r]
    PROVE  /\ Twins(o, p, a) /\ o.acc = s.acc /\ p.acc = t.acc
           /\ \A g \in Fields \ {f} : o[g] = s[g]
  <1>1. DOMAIN s = Fields /\ DOMAIN t = Fields /\ SameRest(s, t)
    BY DEF Twins, Alike
  <1>2. /\ DOMAIN o = Fields /\ DOMAIN p = Fields /\ o[f] = r /\ p[f] = r
        /\ \A g \in Fields \ {f} : o[g] = s[g] /\ p[g] = t[g]
    BY <1>1
  <1>3. \A g \in Fields \ {"acc", "unb"} : s[g] = t[g]
    BY <1>1 DEF SameRest, Fields
  <1>4. \A g \in Fields \ {"acc", "unb"} : o[g] = p[g]
    BY <1>2, <1>3
  <1>5. SameRest(o, p) /\ o.acc = s.acc /\ p.acc = t.acc /\ o.unb = s.unb /\ p.unb = t.unb
    BY <1>2, <1>4 DEF SameRest, Fields
  <1>6. Twins(o, p, a)
    BY <1>2, <1>5, TwinsWrite
  <1> QED BY <1>2, <1>5, <1>6

(* What twins agree on. *)
LEMMA TwinsAgree ==
    ASSUME NEW s, NEW t, NEW a, Twins(s, t, a)
    PROVE  /\ DOMAIN s = Fields /\ DOMAIN t = Fields
           /\ s.acc[a] = t.acc[a] /\ a \in DOMAIN s.acc /\ a \in DOMAIN t.acc
           /\ s.tok = t.tok /\ s.val = t.val /\ s.ctr = t.ctr /\ s.wasm = t.wasm
           /\ s.pool = t.pool /\ s.fee = t.fee
  BY TwinsAt DEF Twins, Alike, SameRest

(* Transfers and tokens. *)
LEMMA TwinsToken ==
    ASSUME NEW s, NEW t, NEW tx, Twins(s, t, tx.from), tx.type \in TokenTypes
    PROVE  Twins(TokenEffect(s, tx), TokenEffect(t, tx), tx.from)
  <1> DEFINE a == tx.from
  <1>1. CASE tx.type = "transfer"
    <2> DEFINE d == Debit(s, a, tx.token, tx.amount)
               e == Debit(t, a, tx.token, tx.amount)
    <2>1. Twins(d, e, a)
      BY TwinsDebit
    <2> HIDE DEF d, e
    <2>2. Twins(Credit(d, tx.to, tx.token, tx.amount), Credit(e, tx.to, tx.token, tx.amount), a)
      BY <2>1, TwinsCredit
    <2> QED BY <1>1, <2>2 DEF TokenEffect, d, e
  <1>2. CASE tx.type = "create_token"
    <2> DEFINE u == Credit(s, a, tx.token.symbol, tx.token.supply)
               w == Credit(t, a, tx.token.symbol, tx.token.supply)
               r == Put(u.tok, tx.token.symbol,
                        [creator |-> a, supply |-> tx.token.supply,
                         mintable |-> tx.token.mintable])
    <2>1. Twins(u, w, a)
      BY TwinsCredit
    <2>2. u.tok = w.tok
      BY <2>1, TwinsAgree
    <2>3. TokenEffect(s, tx) = [u EXCEPT !.tok = r]
      BY <1>2 DEF TokenEffect, CreateToken
    <2>4. TokenEffect(t, tx) = [w EXCEPT !.tok = r]
      <3>1. TokenEffect(t, tx) = [w EXCEPT !.tok = Put(@, tx.token.symbol,
                        [creator |-> a, supply |-> tx.token.supply,
                         mintable |-> tx.token.mintable])]
        BY <1>2 DEF TokenEffect, CreateToken
      <3> HIDE DEF u, w
      <3> QED BY <2>2, <3>1
    <2> HIDE DEF u, w, r
    <2>5. "tok" \in Fields \ {"acc", "unb"}
      BY DEF Fields
    <2> QED BY <2>1, <2>3, <2>4, <2>5, TwinsField
  <1>3. CASE tx.type = "mint"
    <2> DEFINE to == IF tx.to # NoAddr THEN tx.to ELSE tx.from
               u == Credit(s, to, tx.token, tx.amount)
               w == Credit(t, to, tx.token, tx.amount)
               r == [u.tok EXCEPT ![tx.token].supply = Plus(@, tx.amount)]
    <2>1. Twins(u, w, a)
      BY TwinsCredit
    <2>2. u.tok = w.tok /\ DOMAIN u = Fields /\ DOMAIN w = Fields
      BY <2>1, TwinsAgree
    <2>3. TokenEffect(s, tx) = [u EXCEPT !.tok[tx.token].supply = Plus(@, tx.amount)]
      BY <1>3 DEF TokenEffect, MintToken
    <2>4. TokenEffect(t, tx) = [w EXCEPT !.tok[tx.token].supply = Plus(@, tx.amount)]
      BY <1>3 DEF TokenEffect, MintToken
    <2> HIDE DEF u, w
    <2>5. TokenEffect(s, tx) = [u EXCEPT !.tok = r] /\ TokenEffect(t, tx) = [w EXCEPT !.tok = r]
      BY <2>2, <2>3, <2>4 DEF Fields
    <2> HIDE DEF r
    <2>6. "tok" \in Fields \ {"acc", "unb"}
      BY DEF Fields
    <2> QED BY <2>1, <2>5, <2>6, TwinsField
  <1> QED BY <1>1, <1>2, <1>3 DEF TokenTypes

(* stake *)
LEMMA TwinsStake ==
    ASSUME NEW s, NEW t, NEW tx, Twins(s, t, tx.from)
    PROVE  Twins(Stake(s, tx), Stake(t, tx), tx.from)
  <1> DEFINE a == tx.from
             v == IF a \in DOMAIN s.val THEN s.val[a] ELSE NewValidator
             val == Put(s.val, a, [v EXCEPT !.stake = Plus(@, tx.amount)])
             d == Debit(s, a, Native, tx.amount)
             e == Debit(t, a, Native, tx.amount)
             r == [d.acc[a] EXCEPT !.staked = Plus(@, tx.amount)]
             u == [d EXCEPT !.acc = [d.acc EXCEPT ![a] = r]]
             w == [e EXCEPT !.acc = [e.acc EXCEPT ![a] = r]]
             o == Stake(s, tx)
             p == Stake(t, tx)
  <1>1. s.val = t.val
    BY TwinsAgree
  <1>2. o = [d EXCEPT !.acc[a].staked = Plus(@, tx.amount),
                      !.val = Put(@, a, [v EXCEPT !.stake = Plus(@, tx.amount)])]
    BY DEF Stake
  <1>3. p = [e EXCEPT !.acc[a].staked = Plus(@, tx.amount),
                      !.val = Put(@, a, [v EXCEPT !.stake = Plus(@, tx.amount)])]
    BY <1>1 DEF Stake
  <1>4. Twins(d, e, a) /\ SameRest(d, s)
    BY TwinsDebit
  <1>5. /\ DOMAIN d = Fields /\ DOMAIN e = Fields /\ d.acc[a] = e.acc[a]
        /\ d.val = s.val /\ e.val = s.val /\ a \in DOMAIN d.acc /\ a \in DOMAIN e.acc
    BY <1>4, TwinsAgree DEF SameRest
  <1>6. o = [u EXCEPT !.val = val]
    <2> HIDE DEF d, v, o
    <2> QED BY <1>2, <1>5 DEF Fields
  <1>7. p = [w EXCEPT !.val = val]
    <2> HIDE DEF d, e, v, p
    <2> QED BY <1>3, <1>5 DEF Fields
  <1>8. Twins(u, w, a)
    <2> HIDE DEF d, e, r
    <2> QED BY <1>4, TwinsPurse
  <1>9. "val" \in Fields \ {"acc", "unb"}
    BY DEF Fields
  <1> HIDE DEF u, w, val, o, p
  <1>10. Twins(o, p, a)
    BY <1>6, <1>7, <1>8, <1>9, TwinsField
  <1> QED BY <1>10 DEF o, p

(* unstake *)
LEMMA TwinsUnstake ==
    ASSUME NEW s, NEW t, NEW tx, Twins(s, t, tx.from), tx.from \in DOMAIN s.val,
           ValidatorOK(s.val[tx.from]), NEW time
    PROVE  Twins(Unstake(s, tx, time), Unstake(t, tx, time), tx.from)
  <1> DEFINE a == tx.from
             S == DOMAIN s.val[a].delegators
             left == Minus(s.val[a].stake, tx.amount)
             d == Unbond(s, a, tx.amount, time)
             e == Unbond(t, a, tx.amount, time)
             r == [d.acc[a] EXCEPT !.staked = Minus(@, tx.amount)]
             val == [s.val EXCEPT ![a].stake = left]
             u == [d EXCEPT !.acc = [d.acc EXCEPT ![a] = r]]
             w == [e EXCEPT !.acc = [e.acc EXCEPT ![a] = r]]
             m == [u EXCEPT !.val = val]
             n == [w EXCEPT !.val = val]
             o == Unstake(s, tx, time)
             p == Unstake(t, tx, time)
  <1>1. s.val = t.val
    BY TwinsAgree
  <1>2. Twins(d, e, a) /\ SameRest(d, s)
    BY TwinsUnbond
  <1>3. /\ DOMAIN d = Fields /\ DOMAIN e = Fields /\ d.acc[a] = e.acc[a]
        /\ d.val = s.val /\ e.val = s.val /\ a \in DOMAIN d.acc /\ a \in DOMAIN e.acc
    BY <1>2, TwinsAgree DEF SameRest
  <1>4. o = IF left # 0 THEN m ELSE Leave(m, a, InOrder(S), time)
    <2>1. [d EXCEPT !.acc[a].staked = Minus(@, tx.amount), !.val[a].stake = left] = m
      <3> HIDE DEF d, left
      <3> QED BY <1>3 DEF Fields
    <2> QED BY <2>1 DEF Unstake
  <1>5. p = IF left # 0 THEN n ELSE Leave(n, a, InOrder(S), time)
    <2>1. [e EXCEPT !.acc[a].staked = Minus(@, tx.amount), !.val[a].stake = left] = n
      <3> HIDE DEF d, e, left
      <3> QED BY <1>3 DEF Fields
    <2> QED BY <1>1, <2>1 DEF Unstake
  <1>6. Twins(u, w, a) /\ SameRest(u, d)
    <2> HIDE DEF d, e, r
    <2> QED BY <1>2, TwinsPurse
  <1>7. "val" \in Fields \ {"acc", "unb"}
    BY DEF Fields
  <1> HIDE DEF d, e, u, w, val, o, p
  <1>8. Twins(m, n, a)
    BY <1>6, <1>7, TwinsField
  <1>9. m.val = val /\ DOMAIN m.val[a].delegators = S
    <2>1. DOMAIN u = Fields
      BY <1>6, TwinsAgree
    <2>2. m.val = val
      BY <2>1 DEF Fields
    <2>3. val[a] = [s.val[a] EXCEPT !.stake = left]
      BY DEF val
    <2>4. val[a].delegators = s.val[a].delegators
      BY <2>3 DEF ValidatorOK
    <2> QED BY <2>2, <2>4
  <1>10. IsFiniteSet(S) /\ Lists(InOrder(S), S)
    <2>1. S \subseteq Addr
      BY DEF ValidatorOK
    <2> HIDE DEF S
    <2> QED BY <2>1, NamesDiffer, FS_Subset, InOrderLists
  <1> DEFINE l == Leave(m, a, InOrder(S), time)
             k == Leave(n, a, InOrder(S), time)
  <1> HIDE DEF m, n
  <1>11. Twins(l, k, a)
    <2>1. /\ Alike(m, n) /\ IsFiniteSet(DOMAIN m.val[a].delegators)
          /\ Lists(InOrder(S), DOMAIN m.val[a].delegators)
      BY <1>8, <1>9, <1>10 DEF Twins
    <2> HIDE DEF S
    <2>2. Alike(l, k) /\ l.acc = m.acc /\ k.acc = n.acc
      BY <2>1, AlikeLeave
    <2> HIDE DEF l, k
    <2> QED BY <1>8, <2>2 DEF Twins
  <1> QED BY <1>4, <1>5, <1>8, <1>11 DEF o, p

(* unjail *)
LEMMA TwinsUnjail ==
    ASSUME NEW s, NEW t, NEW tx, Twins(s, t, tx.from)
    PROVE  Twins(Unjail(s, tx), Unjail(t, tx), tx.from)
  <1> DEFINE a == tx.from
             val == [s.val EXCEPT ![a].jailed = FALSE, ![a].missed = 0]
             o == Unjail(s, tx)
             p == Unjail(t, tx)
  <1>1. s.val = t.val /\ DOMAIN s = Fields /\ DOMAIN t = Fields
    BY TwinsAgree
  <1>2. o = [s EXCEPT !.val = val]
    BY <1>1 DEF Unjail, Fields
  <1>3. p = [t EXCEPT !.val = val]
    BY ZenonT(40), <1>1 DEF Unjail, Fields
  <1>4. "val" \in Fields \ {"acc", "unb"}
    BY DEF Fields
  <1> HIDE DEF val, o, p
  <1>5. Twins(o, p, a)
    BY <1>2, <1>3, <1>4, TwinsField
  <1> QED BY <1>5 DEF o, p

(* delegate *)
LEMMA TwinsDelegate ==
    ASSUME NEW s, NEW t, NEW tx, Twins(s, t, tx.from)
    PROVE  Twins(Delegate(s, tx), Delegate(t, tx), tx.from)
  <1> DEFINE a == tx.from
             x == Plus(Delegation(s, tx.to, a), tx.amount)
             d == Debit(s, a, Native, tx.amount)
             e == Debit(t, a, Native, tx.amount)
             mid == [s.val EXCEPT ![tx.to].delegators = Put(@, a, x)]
             val == [mid EXCEPT ![tx.to].delegated = Plus(@, tx.amount)]
             m == [d EXCEPT !.val = mid]
             n == [e EXCEPT !.val = mid]
             o == Delegate(s, tx)
             p == Delegate(t, tx)
  <1>1. Delegation(t, tx.to, a) = Delegation(s, tx.to, a) /\ s.val = t.val
    BY TwinsAgree DEF Delegation
  <1>2. Twins(d, e, a) /\ SameRest(d, s)
    BY TwinsDebit
  <1>3. DOMAIN d = Fields /\ DOMAIN e = Fields /\ d.val = s.val /\ e.val = s.val
    BY <1>2, TwinsAgree DEF SameRest
  <1>4. o = [[d EXCEPT !.val[tx.to].delegators = Put(@, a, x)] EXCEPT
                 !.val[tx.to].delegated = Plus(@, tx.amount)]
    BY DEF Delegate
  <1>5. p = [[e EXCEPT !.val[tx.to].delegators = Put(@, a, x)] EXCEPT
                 !.val[tx.to].delegated = Plus(@, tx.amount)]
    BY <1>1 DEF Delegate
  <1> HIDE DEF d, e, o, p, x
  <1>6. [d EXCEPT !.val[tx.to].delegators = Put(@, a, x)] = m
    BY <1>3 DEF Fields
  <1>7. [e EXCEPT !.val[tx.to].delegators = Put(@, a, x)] = n
    BY <1>3 DEF Fields
  <1>8. "val" \in Fields \ {"acc", "unb"}
    BY DEF Fields
  <1>9. DOMAIN m = Fields /\ m.val = mid /\ DOMAIN n = Fields /\ n.val = mid
    BY <1>3 DEF Fields
  <1> HIDE DEF mid
  <1>10. Twins(m, n, a)
    BY <1>2, <1>8, TwinsField
  <1> HIDE DEF m, n
  <1>11. o = [m EXCEPT !.val = val] /\ p = [n EXCEPT !.val = val]
    BY ZenonT(40), <1>4, <1>5, <1>6, <1>7, <1>9 DEF Fields
  <1> HIDE DEF val
  <1>12. Twins(o, p, a)
    BY <1>8, <1>10, <1>11, TwinsField
  <1> QED BY <1>12 DEF o, p

(* undelegate *)
LEMMA TwinsUndelegate ==
    ASSUME NEW s, NEW t, NEW tx, Twins(s, t, tx.from), NEW time
    PROVE  Twins(Undelegate(s, tx, time), Undelegate(t, tx, time), tx.from)
  <1> DEFINE a == tx.from
             left == Delegation(s, tx.to, a) - tx.amount
             d == Unbond(s, a, tx.amount, time)
             e == Unbond(t, a, tx.amount, time)
             mid == [s.val EXCEPT ![tx.to].delegated = Minus(@, tx.amount)]
             val == [mid EXCEPT ![tx.to].delegators = IF left = 0 THEN Without(@, a)
                                                      ELSE [@ EXCEPT ![a] = left]]
             m == [d EXCEPT !.val = mid]
             n == [e EXCEPT !.val = mid]
             o == Undelegate(s, tx, time)
             p == Undelegate(t, tx, time)
  <1>1. Delegation(t, tx.to, a) = Delegation(s, tx.to, a) /\ s.val = t.val
    BY TwinsAgree DEF Delegation
  <1>2. Twins(d, e, a) /\ SameRest(d, s)
    BY TwinsUnbond
  <1>3. DOMAIN d = Fields /\ DOMAIN e = Fields /\ d.val = s.val /\ e.val = s.val
    BY <1>2, TwinsAgree DEF SameRest
  <1>4. o = [[d EXCEPT !.val[tx.to].delegated = Minus(@, tx.amount)] EXCEPT
                 !.val[tx.to].delegators = IF left = 0 THEN Without(@, a)
                                           ELSE [@ EXCEPT ![a] = left]]
    BY DEF Undelegate
  <1>5. p = [[e EXCEPT !.val[tx.to].delegated = Minus(@, tx.amount)] EXCEPT
                 !.val[tx.to].delegators = IF left = 0 THEN Without(@, a)
                                           ELSE [@ EXCEPT ![a] = left]]
    BY ZenonT(40), <1>1 DEF Undelegate
  <1> HIDE DEF d, e, o, p, left
  <1>6. [d EXCEPT !.val[tx.to].delegated = Minus(@, tx.amount)] = m
    BY <1>3 DEF Fields
  <1>7. [e EXCEPT !.val[tx.to].delegated = Minus(@, tx.amount)] = n
    BY <1>3 DEF Fields
  <1>8. "val" \in Fields \ {"acc", "unb"}
    BY DEF Fields
  <1>9. DOMAIN m = Fields /\ m.val = mid /\ DOMAIN n = Fields /\ n.val = mid
    BY <1>3 DEF Fields
  <1> HIDE DEF mid
  <1>10. Twins(m, n, a)
    BY <1>2, <1>8, TwinsField
  <1> HIDE DEF m, n
  <1>11. o = [m EXCEPT !.val = val] /\ p = [n EXCEPT !.val = val]
    <2>1. CASE left = 0
      <3>1. o = [m EXCEPT !.val[tx.to].delegators = Without(@, a)]
        BY ZenonT(40), <1>4, <1>6, <2>1
      <3>2. p = [n EXCEPT !.val[tx.to].delegators = Without(@, a)]
        BY <1>5, <1>7, <2>1
      <3>3. val = [mid EXCEPT ![tx.to].delegators = Without(@, a)]
        BY <2>1
      <3> HIDE DEF val
      <3>4. o = [m EXCEPT !.val = val]
        BY <1>9, <3>1, <3>3 DEF Fields
      <3>5. p = [n EXCEPT !.val = val]
        BY <1>9, <3>2, <3>3 DEF Fields
      <3> QED BY <3>4, <3>5
    <2>2. CASE left # 0
      <3>1. o = [m EXCEPT !.val[tx.to].delegators[a] = left]
        BY ZenonT(40), <1>4, <1>6, <2>2
      <3>2. p = [n EXCEPT !.val[tx.to].delegators[a] = left]
        BY <1>5, <1>7, <2>2
      <3>3. val = [mid EXCEPT ![tx.to].delegators[a] = left]
        BY <2>2
      <3> HIDE DEF val
      <3>4. o = [m EXCEPT !.val = val]
        BY <1>9, <3>1, <3>3 DEF Fields
      <3>5. p = [n EXCEPT !.val = val]
        BY <1>9, <3>2, <3>3 DEF Fields
      <3> QED BY <3>4, <3>5
    <2> QED BY <2>1, <2>2
  <1> HIDE DEF val
  <1>12. Twins(o, p, a)
    BY <1>8, <1>10, <1>11, TwinsField
  <1> QED BY <1>12 DEF o, p

(* The transactions of validators and delegators. *)
LEMMA TwinsStaking ==
    ASSUME NEW s, NEW t, NEW tx, Twins(s, t, tx.from), ValOK(s.val), NEW time,
           tx.type \in StakingTypes, StakingAllowed(s, tx, time)
    PROVE  Twins(StakingEffect(s, tx, time), StakingEffect(t, tx, time), tx.from)
  <1>1. CASE tx.type = "stake"
    BY <1>1, TwinsStake DEF StakingEffect
  <1>2. CASE tx.type = "unstake"
    <2>1. tx.from \in DOMAIN s.val
      BY <1>2 DEF StakingAllowed
    <2>2. ValidatorOK(s.val[tx.from])
      BY <2>1 DEF ValOK
    <2> QED BY <1>2, <2>1, <2>2, TwinsUnstake DEF StakingEffect
  <1>3. CASE tx.type = "unjail"
    BY <1>3, TwinsUnjail DEF StakingEffect
  <1>4. CASE tx.type = "delegate"
    BY <1>4, TwinsDelegate DEF StakingEffect
  <1>5. CASE tx.type = "undelegate"
    BY <1>5, TwinsUndelegate DEF StakingEffect
  <1>6. CASE tx.type = "validator_profile"
    BY <1>6 DEF StakingEffect
  <1> QED BY <1>1, <1>2, <1>3, <1>4, <1>5, <1>6 DEF StakingTypes

(* contract_create *)
LEMMA TwinsCreate ==
    ASSUME NEW s, NEW t, NEW tx, Twins(s, t, tx.from)
    PROVE  Twins(Create(s, tx), Create(t, tx), tx.from)
  <1> DEFINE a == tx.from
             c == tx.contract
             new == [x \in DOMAIN c \cup {"creator", "released", "proposals", "status"} |->
                        CASE x = "creator"   -> tx.from
                          [] x = "released"  -> 0
                          [] x = "proposals" -> <<>>
                          [] x = "status"    -> "active"
                          [] OTHER           -> c[x]]
             d == Debit(s, a, c.token, c.amount)
             e == Debit(t, a, c.token, c.amount)
             r == Put(s.ctr, <<a, tx.nonce>>, new)
             o == Create(s, tx)
             p == Create(t, tx)
  <1>1. o = [d EXCEPT !.ctr = Put(@, <<a, tx.nonce>>, new)]
    BY DEF Create
  <1>2. p = [e EXCEPT !.ctr = Put(@, <<a, tx.nonce>>, new)]
    BY DEF Create
  <1>3. Twins(d, e, a) /\ SameRest(d, s)
    BY TwinsDebit
  <1>4. DOMAIN d = Fields /\ DOMAIN e = Fields /\ d.ctr = s.ctr /\ e.ctr = s.ctr
    BY <1>3, TwinsAgree DEF SameRest
  <1> HIDE DEF d, e, o, p, new
  <1>5. o = [d EXCEPT !.ctr = r] /\ p = [e EXCEPT !.ctr = r]
    BY <1>1, <1>2, <1>4 DEF Fields
  <1>6. "ctr" \in Fields \ {"acc", "unb"}
    BY DEF Fields
  <1> HIDE DEF r
  <1>7. Twins(o, p, a)
    BY <1>3, <1>5, <1>6, TwinsField
  <1> QED BY <1>7 DEF o, p

(* A payment out of a contract. *)
LEMMA TwinsPay ==
    ASSUME NEW s, NEW t, NEW a, Twins(s, t, a), NEW id, NEW to, NEW x
    PROVE  /\ Twins(Pay(s, id, to, x), Pay(t, id, to, x), a)
           /\ Pay(s, id, to, x).ctr = s.ctr /\ Pay(t, id, to, x).ctr = s.ctr
           /\ DOMAIN Pay(s, id, to, x) = Fields /\ DOMAIN Pay(t, id, to, x) = Fields
  <1> DEFINE o == Pay(s, id, to, x)
             p == Pay(t, id, to, x)
  <1>1. s.ctr = t.ctr
    BY TwinsAgree
  <1>2. o = Credit(s, to, s.ctr[id].token, x) /\ p = Credit(t, to, s.ctr[id].token, x)
    BY <1>1 DEF Pay
  <1>3. Twins(o, p, a) /\ SameRest(o, s)
    BY <1>2, TwinsCredit
  <1> HIDE DEF o, p
  <1> QED BY <1>3, TwinsAgree DEF SameRest, o, p

(* Part of a contract is paid out. *)
LEMMA TwinsRelease ==
    ASSUME NEW s, NEW t, NEW a, Twins(s, t, a), NEW id, NEW to, NEW x
    PROVE  Twins(Release(s, id, to, x), Release(t, id, to, x), a)
  <1> DEFINE d == Pay(s, id, to, x)
             e == Pay(t, id, to, x)
             sum == Plus(s.ctr[id].released, x)
             mid == [s.ctr EXCEPT ![id].released = sum]
             ctr == [mid EXCEPT ![id].status = IF sum = s.ctr[id].amount
                                               THEN "completed" ELSE @]
             m == [d EXCEPT !.ctr = mid]
             n == [e EXCEPT !.ctr = mid]
             o == Release(s, id, to, x)
             p == Release(t, id, to, x)
  <1>1. s.ctr = t.ctr
    BY TwinsAgree
  <1>2. /\ Twins(d, e, a) /\ DOMAIN d = Fields /\ DOMAIN e = Fields
        /\ d.ctr = s.ctr /\ e.ctr = s.ctr
    BY TwinsPay
  <1>3. o = [[d EXCEPT !.ctr[id].released = sum] EXCEPT
                !.ctr[id].status = IF sum = s.ctr[id].amount THEN "completed" ELSE @]
    BY DEF Release
  <1>4. p = [[e EXCEPT !.ctr[id].released = sum] EXCEPT
                !.ctr[id].status = IF sum = s.ctr[id].amount THEN "completed" ELSE @]
    BY <1>1 DEF Release
  <1> HIDE DEF d, e, o, p, sum
  <1>5. [d EXCEPT !.ctr[id].released = sum] = m
    BY <1>2 DEF Fields
  <1>6. [e EXCEPT !.ctr[id].released = sum] = n
    BY <1>2 DEF Fields
  <1>7. "ctr" \in Fields \ {"acc", "unb"}
    BY DEF Fields
  <1>8. DOMAIN m = Fields /\ m.ctr = mid /\ DOMAIN n = Fields /\ n.ctr = mid
    BY <1>2 DEF Fields
  <1> HIDE DEF mid
  <1>9. Twins(m, n, a)
    BY <1>2, <1>7, TwinsField
  <1> HIDE DEF m, n
  <1>10. o = [m EXCEPT !.ctr = ctr] /\ p = [n EXCEPT !.ctr = ctr]
    <2>1. CASE sum = s.ctr[id].amount
      <3>1. o = [m EXCEPT !.ctr[id].status = "completed"]
        BY <1>3, <1>5, <2>1
      <3>2. p = [n EXCEPT !.ctr[id].status = "completed"]
        BY <1>4, <1>6, <2>1
      <3>3. ctr = [mid EXCEPT ![id].status = "completed"]
        BY <2>1
      <3> HIDE DEF ctr
      <3> QED BY <1>8, <3>1, <3>2, <3>3 DEF Fields
    <2>2. CASE sum # s.ctr[id].amount
      <3>1. o = [m EXCEPT !.ctr[id].status = @]
        BY <1>3, <1>5, <2>2
      <3>2. p = [n EXCEPT !.ctr[id].status = @]
        BY <1>4, <1>6, <2>2
      <3>3. ctr = [mid EXCEPT ![id].status = @]
        BY <2>2
      <3> HIDE DEF ctr
      <3> QED BY <1>8, <3>1, <3>2, <3>3 DEF Fields
    <2> QED BY <2>1, <2>2
  <1> HIDE DEF ctr
  <1>11. Twins(o, p, a)
    BY <1>7, <1>9, <1>10, TwinsField
  <1> QED BY <1>11 DEF o, p

(* The contracts of both are written alike. *)
LEMMA TwinsCtr ==
    ASSUME NEW s, NEW t, NEW a, Twins(s, t, a), NEW r
    PROVE  Twins([s EXCEPT !.ctr = r], [t EXCEPT !.ctr = r], a)
  <1>1. "ctr" \in Fields \ {"acc", "unb"}
    BY DEF Fields
  <1> QED BY <1>1, TwinsField

(* Escrow: the payment. *)
LEMMA TwinsReleaseEscrow ==
    ASSUME NEW s, NEW t, NEW tx, NEW a, Twins(s, t, a)
    PROVE  Twins(ReleaseEscrow(s, tx), ReleaseEscrow(t, tx), a)
  <1> DEFINE c == s.ctr[tx.id]
             d == Pay(s, tx.id, c.seller, c.amount)
             e == Pay(t, tx.id, c.seller, c.amount)
             r == [s.ctr EXCEPT ![tx.id].released = c.amount, ![tx.id].status = "completed"]
             o == ReleaseEscrow(s, tx)
             p == ReleaseEscrow(t, tx)
  <1>1. s.ctr = t.ctr
    BY TwinsAgree
  <1>2. /\ Twins(d, e, a) /\ DOMAIN d = Fields /\ DOMAIN e = Fields
        /\ d.ctr = s.ctr /\ e.ctr = s.ctr
    BY TwinsPay
  <1>3. o = [d EXCEPT !.ctr[tx.id].released = c.amount, !.ctr[tx.id].status = "completed"]
    BY DEF ReleaseEscrow
  <1>4. p = [e EXCEPT !.ctr[tx.id].released = c.amount, !.ctr[tx.id].status = "completed"]
    BY <1>1 DEF ReleaseEscrow
  <1> HIDE DEF d, e, o, p
  <1>5. o = [d EXCEPT !.ctr = r]
    BY <1>2, <1>3 DEF Fields
  <1>6. p = [e EXCEPT !.ctr = r]
    BY ZenonT(40), <1>2, <1>4 DEF Fields
  <1> HIDE DEF r
  <1>7. Twins(o, p, a)
    BY <1>2, <1>5, <1>6, TwinsCtr
  <1> QED BY <1>7 DEF o, p

(* Escrow: the refund. *)
LEMMA TwinsRefund ==
    ASSUME NEW s, NEW t, NEW tx, NEW a, Twins(s, t, a)
    PROVE  Twins(Refund(s, tx), Refund(t, tx), a)
  <1> DEFINE c == s.ctr[tx.id]
             d == Pay(s, tx.id, c.creator, c.amount)
             e == Pay(t, tx.id, c.creator, c.amount)
             r == [s.ctr EXCEPT ![tx.id].status = "refunded"]
             o == Refund(s, tx)
             p == Refund(t, tx)
  <1>1. s.ctr = t.ctr
    BY TwinsAgree
  <1>2. /\ Twins(d, e, a) /\ DOMAIN d = Fields /\ DOMAIN e = Fields
        /\ d.ctr = s.ctr /\ e.ctr = s.ctr
    BY TwinsPay
  <1>3. o = [d EXCEPT !.ctr[tx.id].status = "refunded"]
    BY DEF Refund
  <1>4. p = [e EXCEPT !.ctr[tx.id].status = "refunded"]
    BY <1>1 DEF Refund
  <1> HIDE DEF d, e, o, p
  <1>5. o = [d EXCEPT !.ctr = r]
    BY <1>2, <1>3 DEF Fields
  <1>6. p = [e EXCEPT !.ctr = r]
    BY <1>2, <1>4 DEF Fields
  <1> HIDE DEF r
  <1>7. Twins(o, p, a)
    BY <1>2, <1>5, <1>6, TwinsCtr
  <1> QED BY <1>7 DEF o, p

(* A proposal is paid. *)
LEMMA TwinsExecute ==
    ASSUME NEW s, NEW t, NEW a, Twins(s, t, a), NEW id, NEW i
    PROVE  Twins(ExecuteProposal(s, id, i), ExecuteProposal(t, id, i), a)
  <1> DEFINE q == s.ctr[id].proposals[i]
             d == Release(s, id, q.to, q.amount)
             e == Release(t, id, q.to, q.amount)
             r == [d.ctr EXCEPT ![id].proposals[i].executed = TRUE]
             o == ExecuteProposal(s, id, i)
             p == ExecuteProposal(t, id, i)
  <1>1. s.ctr = t.ctr
    BY TwinsAgree
  <1>2. Twins(d, e, a)
    BY TwinsRelease
  <1>3. DOMAIN d = Fields /\ DOMAIN e = Fields /\ d.ctr = e.ctr
    BY SMTT(40), <1>2, TwinsAgree
  <1>4. o = [d EXCEPT !.ctr[id].proposals[i].executed = TRUE]
    BY DEF ExecuteProposal
  <1>5. p = [e EXCEPT !.ctr[id].proposals[i].executed = TRUE]
    BY <1>1 DEF ExecuteProposal
  <1> HIDE DEF d, e, o, p
  <1>6. o = [d EXCEPT !.ctr = r]
    BY <1>3, <1>4 DEF Fields
  <1>7. p = [e EXCEPT !.ctr = r]
    BY <1>3, <1>5 DEF Fields
  <1> HIDE DEF r
  <1>8. Twins(o, p, a)
    BY <1>2, <1>6, <1>7, TwinsCtr
  <1> QED BY <1>8 DEF o, p

(* What the votes on a proposal decide. *)
LEMMA TwinsSettle ==
    ASSUME NEW s, NEW t, NEW a, Twins(s, t, a), NEW id, NEW i
    PROVE  Twins(Settle(s, id, i), Settle(t, id, i), a)
  <1> DEFINE c == s.ctr[id]
             q == c.proposals[i]
             r == [s.ctr EXCEPT ![id].proposals[i].rejected = TRUE]
  <1>1. s.ctr = t.ctr /\ DOMAIN s = Fields /\ DOMAIN t = Fields
    BY TwinsAgree
  <1>2. CASE QuorumReached(c, q)
    <2>1. Twins(ExecuteProposal(s, id, i), ExecuteProposal(t, id, i), a)
      BY TwinsExecute
    <2> QED BY <1>1, <1>2, <2>1 DEF Settle
  <1>3. CASE ~QuorumReached(c, q) /\ c.template = "dao" /\ QuorumLost(c, q)
    <2>1. Settle(s, id, i) = [s EXCEPT !.ctr[id].proposals[i].rejected = TRUE]
      BY <1>3 DEF Settle
    <2>2. Settle(t, id, i) = [t EXCEPT !.ctr[id].proposals[i].rejected = TRUE]
      BY <1>1, <1>3 DEF Settle
    <2>3. Settle(s, id, i) = [s EXCEPT !.ctr = r]
      BY <1>1, <2>1 DEF Fields
    <2>4. Settle(t, id, i) = [t EXCEPT !.ctr = r]
      BY <1>1, <2>2 DEF Fields
    <2> HIDE DEF r
    <2> QED BY <2>3, <2>4, TwinsCtr
  <1>4. CASE ~QuorumReached(c, q) /\ ~(c.template = "dao" /\ QuorumLost(c, q))
    <2>1. Settle(s, id, i) = s /\ Settle(t, id, i) = t
      BY <1>1, <1>4 DEF Settle
    <2> QED BY <2>1
  <1> QED BY <1>2, <1>3, <1>4

(* contract_exec *)
LEMMA TwinsExec ==
    ASSUME NEW s, NEW t, NEW tx, Twins(s, t, tx.from), NEW time,
           tx.action \in {"claim", "release", "refund", "propose", "approve", "reject"}
    PROVE  Twins(Exec(s, tx, time), Exec(t, tx, time), tx.from)
  <1> DEFINE a == tx.from
             id == tx.id
  <1>1. s.ctr = t.ctr /\ DOMAIN s = Fields /\ DOMAIN t = Fields
    BY TwinsAgree
  <1>2. CASE tx.action = "claim"
    <2> DEFINE b == s.ctr[id].beneficiary
               x == Claimable(s.ctr[id], time)
    <2>1. Exec(s, tx, time) = Release(s, id, b, x) /\ Exec(t, tx, time) = Release(t, id, b, x)
      BY <1>1, <1>2 DEF Exec, Claim
    <2> HIDE DEF b, x
    <2> QED BY <2>1, TwinsRelease
  <1>3. CASE tx.action = "release"
    BY <1>3, TwinsReleaseEscrow DEF Exec
  <1>4. CASE tx.action = "refund"
    BY <1>4, TwinsRefund DEF Exec
  <1>5. CASE tx.action = "propose"
    <2> DEFINE q == Proposal(tx.to, tx.amount, a)
               r == [s.ctr EXCEPT ![id].proposals = Append(@, q)]
               m == [s EXCEPT !.ctr = r]
               n == [t EXCEPT !.ctr = r]
    <2>1. [s EXCEPT !.ctr[id].proposals = Append(@, q)] = m
      <3> HIDE DEF q
      <3> QED BY <1>1 DEF Fields
    <2>2. [t EXCEPT !.ctr[id].proposals = Append(@, q)] = n
      <3> HIDE DEF q
      <3> QED BY <1>1 DEF Fields
    <2>3. Exec(s, tx, time) = Settle(m, id, Len(m.ctr[id].proposals))
      BY <1>5, <2>1 DEF Exec, Propose
    <2>4. Exec(t, tx, time) = Settle(n, id, Len(n.ctr[id].proposals))
      BY <1>5, <2>2 DEF Exec, Propose
    <2>5. Twins(m, n, a)
      BY TwinsCtr
    <2> HIDE DEF m, n
    <2>6. m.ctr = n.ctr
      BY <2>5, TwinsAgree
    <2> QED BY <2>3, <2>4, <2>5, <2>6, TwinsSettle
  <1>6. CASE tx.action \in {"approve", "reject"}
    <2> DEFINE side == IF tx.action = "approve" THEN "for" ELSE "against"
               i == tx.proposal
               r == [s.ctr EXCEPT ![id].proposals[i][side] = @ \cup {a}]
               m == [s EXCEPT !.ctr = r]
               n == [t EXCEPT !.ctr = r]
    <2>1. [s EXCEPT !.ctr[id].proposals[i][side] = @ \cup {a}] = m
      <3> HIDE DEF side
      <3> QED BY <1>1 DEF Fields
    <2>2. [t EXCEPT !.ctr[id].proposals[i][side] = @ \cup {a}] = n
      <3> HIDE DEF side
      <3> QED BY <1>1 DEF Fields
    <2>3. Exec(s, tx, time) = Settle(m, id, i)
      BY SMTT(40), <1>6, <2>1 DEF Exec, Vote
    <2>4. Exec(t, tx, time) = Settle(n, id, i)
      BY ZenonT(40), <1>6, <2>2 DEF Exec, Vote
    <2>5. Twins(m, n, a)
      BY ZenonT(40), TwinsCtr
    <2> HIDE DEF m, n
    <2> QED BY <2>3, <2>4, <2>5, TwinsSettle
  <1> QED BY <1>2, <1>3, <1>4, <1>5, <1>6

-----------------------------------------------------------------------------
(* One more field that both read is written alike. *)
LEMMA TwinsPool ==
    ASSUME NEW s, NEW t, NEW a, Twins(s, t, a), NEW r
    PROVE  LET o == [s EXCEPT !.pool = r]
               p == [t EXCEPT !.pool = r]
           IN  Twins(o, p, a) /\ o.pool = r /\ p.pool = r
  <1> DEFINE o == [s EXCEPT !.pool = r]
             p == [t EXCEPT !.pool = r]
  <1>1. "pool" \in Fields \ {"acc", "unb"}
    BY DEF Fields
  <1>2. Twins(o, p, a)
    BY <1>1, TwinsField
  <1>3. o.pool = r /\ p.pool = r
    BY TwinsAgree DEF Fields
  <1> QED BY <1>2, <1>3

(* A deposit. *)
LEMMA TwinsShield ==
    ASSUME NEW s, NEW t, NEW tx, Twins(s, t, tx.from)
    PROVE  Twins(Shield(s, tx), Shield(t, tx), tx.from)
  <1> DEFINE a == tx.from
             d == Debit(s, a, Native, tx.amount)
             e == Debit(t, a, Native, tx.amount)
             r == [s.pool EXCEPT !.open = TRUE, !.bal = Plus(@, tx.amount),
                                 !.cms = Append(@, tx.note)]
             o == Shield(s, tx)
             p == Shield(t, tx)
  <1>1. Twins(d, e, a) /\ SameRest(d, s)
    BY TwinsDebit
  <1>2. /\ o = [d EXCEPT !.pool.open = TRUE, !.pool.bal = Plus(@, tx.amount),
                         !.pool.cms = Append(@, tx.note)]
        /\ p = [e EXCEPT !.pool.open = TRUE, !.pool.bal = Plus(@, tx.amount),
                         !.pool.cms = Append(@, tx.note)]
    BY DEF Shield
  <1> HIDE DEF d, e, o, p
  <1>3. DOMAIN d = Fields /\ DOMAIN e = Fields /\ d.pool = s.pool /\ e.pool = s.pool
    BY <1>1, TwinsAgree DEF SameRest
  <1>4. o = [d EXCEPT !.pool = r]
    BY <1>2, <1>3 DEF Fields
  <1>5. p = [e EXCEPT !.pool = r]
    BY <1>2, <1>3 DEF Fields
  <1> HIDE DEF r
  <1>6. Twins(o, p, a)
    BY <1>1, <1>4, <1>5, TwinsPool
  <1> QED BY <1>6 DEF o, p

(* Notes that are spent. *)
LEMMA TwinsSpend ==
    ASSUME NEW s, NEW t, NEW tx, Twins(s, t, tx.from)
    PROVE  Twins(Spend(s, tx), Spend(t, tx), tx.from)
  <1> DEFINE a == tx.from
             N == Range(Nullifiers(tx))
             r == [s.pool EXCEPT !.nfs = @ \cup N, !.cms = @ \o tx.spend.outs,
                                 !.bal = Minus(@, tx.spend.fee)]
             o == Spend(s, tx)
             p == Spend(t, tx)
  <1>1. /\ o = [s EXCEPT !.pool.nfs = @ \cup N, !.pool.cms = @ \o tx.spend.outs,
                         !.pool.bal = Minus(@, tx.spend.fee)]
        /\ p = [t EXCEPT !.pool.nfs = @ \cup N, !.pool.cms = @ \o tx.spend.outs,
                         !.pool.bal = Minus(@, tx.spend.fee)]
    BY DEF Spend
  <1> HIDE DEF N, o, p
  <1>2. DOMAIN s = Fields /\ DOMAIN t = Fields /\ s.pool = t.pool
    BY TwinsAgree
  <1>3. o = [s EXCEPT !.pool = r]
    BY <1>1, <1>2 DEF Fields
  <1>4. p = [t EXCEPT !.pool = r]
    BY <1>1, <1>2 DEF Fields
  <1> HIDE DEF r
  <1>5. Twins(o, p, a)
    BY <1>3, <1>4, TwinsPool
  <1> QED BY <1>5 DEF o, p

(* The shielded pool. *)
LEMMA TwinsShielded ==
    ASSUME NEW s, NEW t, NEW tx, Twins(s, t, tx.from), tx.type \in ShieldedTypes
    PROVE  Twins(ShieldedEffect(s, tx), ShieldedEffect(t, tx), tx.from)
  <1>1. CASE tx.type = "shield"
    BY <1>1, TwinsShield DEF ShieldedEffect
  <1>2. CASE tx.type = "shielded_transfer"
    <2>1. Twins(ShieldedTransfer(s, tx), ShieldedTransfer(t, tx), tx.from)
      BY TwinsSpend, TwinsBurn DEF ShieldedTransfer
    <2> QED BY <1>2, <2>1 DEF ShieldedEffect
  <1>3. CASE tx.type = "unshield"
    <2>1. Twins(Unshield(s, tx), Unshield(t, tx), tx.from)
      BY TwinsSpend, TwinsCredit DEF Unshield
    <2> QED BY <1>3, <2>1 DEF ShieldedEffect
  <1> QED BY <1>1, <1>2, <1>3 DEF ShieldedTypes

(* What a call that ends well pays out is a list. *)
LEMMA CallFilled ==
    ASSUME NEW s, Shape(s), NEW tx, Decoded(tx), tx.id \in DOMAIN s.wasm,
           NEW box, box = Run(NewSandbox(s.wasm[tx.id], tx.amount, GasLimit(tx)),
                              s.wasm[tx.id].code, tx.action),
           ~box.trapped
    PROVE  \E names : Filled(box, names)
  <1> DEFINE wc == s.wasm[tx.id]
             given == Plus(wc.bal, tx.amount)
             new == NewSandbox(wc, tx.amount, GasLimit(tx))
             a == tx.amount
  <1>1. /\ {"code", "store", "bal", "calls"} \subseteq DOMAIN wc
        /\ wc.bal \in Amounts /\ wc.code \in DOMAIN Programs
    BY DEF Shape, WasmOK
  <1>2. a \in Int /\ wc.bal \in Int
    BY <1>1, WordType DEF Decoded
  <1>3. given \in Amounts /\ Same(given, wc.bal + a)
    BY <1>2, PlusWord
  <1>4. "trapped" \in DOMAIN new /\ \A names : Keeps(new, names, given)
    <2>1. DOMAIN new = {"bal", "store", "out", "gas", "trapped"} /\ new.bal = given
          /\ new.out = <<>>
      BY DEF NewSandbox
    <2>2. Out(new) = 0
      <3> DEFINE f == [i \in DOMAIN new.out |-> new.out[i][2]]
      <3>1. DOMAIN f = {}
        BY <2>1
      <3> HIDE DEF f
      <3>2. SumFunction(f) = 0
        BY <3>1, SumOfNone DEF SumFunction
      <3> QED BY <3>2 DEF f, Out
    <2>3. given + 0 = given
      BY <1>3, WordType
    <2> HIDE DEF new, given
    <2> QED BY <1>3, <2>1, <2>2, <2>3 DEF Keeps
  <1> HIDE DEF new, given
  <1>5. box = Run(new, wc.code, tx.action)
    BY DEF new
  <1>6. PICK names : Keeps(box, names, given)
    BY <1>1, <1>4, <1>5, RunStep
  <1> QED BY SMTT(40), <1>6 DEF Keeps, Filled

(* What a program pays out, it pays to both. *)
LEMMA TwinsPayouts ==
    ASSUME NEW s, NEW t, NEW a, Twins(s, t, a), NEW names, NEW box, Filled(box, names)
    PROVE  LET o == Paying!Fold(0, 0, s, box.out)
               p == Paying!Fold(0, 0, t, box.out)
           IN  Twins(o, p, a) /\ o.wasm = s.wasm
  <1> DEFINE out == box.out
             n == Len(out)
  <1>1. n \in Nat /\ DOMAIN out = 1..n
    BY DEF Filled
  <1> HIDE DEF n, out
  <1>2. PICK f : /\ f[0] = s
                 /\ \A k \in 1..n : f[k] = PayOne(0, 0, f[k - 1], out[k])
                 /\ f[n] = Paying!Fold(0, 0, s, out)
    <2>1. Paying!Traced(0, 0, s, n, out)
      BY <1>1, Paying!FoldTrace
    <2> QED BY <2>1 DEF Paying!Traced
  <1>3. PICK g : /\ g[0] = t
                 /\ \A k \in 1..n : g[k] = PayOne(0, 0, g[k - 1], out[k])
                 /\ g[n] = Paying!Fold(0, 0, t, out)
    <2>1. Paying!Traced(0, 0, t, n, out)
      BY <1>1, Paying!FoldTrace
    <2> QED BY <2>1 DEF Paying!Traced
  <1> DEFINE T == {k \in Nat : Twins(f[k], g[k], a) /\ f[k].wasm = s.wasm}
  <1>4. 0 \in T
    BY <1>2, <1>3
  <1>5. ASSUME NEW k \in 1..n, k - 1 \in T PROVE k \in T
    <2>1. Twins(f[k - 1], g[k - 1], a) /\ f[k - 1].wasm = s.wasm /\ k \in Nat
      BY <1>5
    <2> DEFINE u == f[k - 1]
               w == g[k - 1]
    <2>2. /\ f[k] = IF out[k][2] > 0 THEN Credit(u, out[k][1], Native, out[k][2]) ELSE u
          /\ g[k] = IF out[k][2] > 0 THEN Credit(w, out[k][1], Native, out[k][2]) ELSE w
      BY <1>2, <1>3 DEF PayOne
    <2>3. Twins(u, w, a) /\ u.wasm = s.wasm
      BY <2>1
    <2> HIDE DEF u, w
    <2>4. Twins(f[k], g[k], a) /\ f[k].wasm = s.wasm
      BY <2>2, <2>3, TwinsCredit DEF SameRest
    <2> QED BY <2>1, <2>4
  <1> HIDE DEF T
  <1>6. \A k \in 0..n : k \in T
    BY <1>1, <1>4, <1>5, Positions
  <1>7. n \in T
    BY <1>1, <1>6
  <1>8. Twins(f[n], g[n], a) /\ f[n].wasm = s.wasm
    BY <1>7 DEF T
  <1> QED BY <1>2, <1>3, <1>8 DEF out

(* A call that ends well, written as one change after its payments. *)
Calling(s, tx) ==
    LET box  == Run(NewSandbox(s.wasm[tx.id], tx.amount, GasLimit(tx)),
                    s.wasm[tx.id].code, tx.action)
        paid == Paying!Fold(0, 0, Debit(s, tx.from, Native, tx.amount), box.out)
    IN  IF box.trapped THEN s
        ELSE [paid EXCEPT !.wasm[tx.id].store = box.store,
                          !.wasm[tx.id].bal = box.bal,
                          !.wasm[tx.id].calls = @ + 1]

(* A call of a WASM contract is its payments, then one change. *)
LEMMA CallPays ==
    ASSUME NEW s, NEW tx
    PROVE  Call(s, tx) = Calling(s, tx)
  BY SMTT(40) DEF Call, Calling, Paying!Fold, FoldLeft, Paying!FoldLeft, MapThenFoldSet,
         Paying!MapThenFoldSet, Max, Paying!Max, PayOne

(* wasm_call *)
LEMMA TwinsCall ==
    ASSUME NEW s, NEW t, NEW tx, Twins(s, t, tx.from), Shape(s), Decoded(tx),
           tx.id \in DOMAIN s.wasm
    PROVE  Twins(Call(s, tx), Call(t, tx), tx.from)
  <1> DEFINE a == tx.from
             id == tx.id
             wc == s.wasm[id]
             box == Run(NewSandbox(wc, tx.amount, GasLimit(tx)), wc.code, tx.action)
             d == Debit(s, a, Native, tx.amount)
             e == Debit(t, a, Native, tx.amount)
             u == Paying!Fold(0, 0, d, box.out)
             w == Paying!Fold(0, 0, e, box.out)
             o == Call(s, tx)
             p == Call(t, tx)
  <1>1. s.wasm = t.wasm
    BY TwinsAgree
  <1>2. CASE box.trapped
    <2>1. o = s /\ p = t
      BY SMTT(40), <1>1, <1>2 DEF Call
    <2> QED BY <2>1
  <1>3. CASE ~box.trapped
    <2>1. o = [u EXCEPT !.wasm[id].store = box.store, !.wasm[id].bal = box.bal,
                        !.wasm[id].calls = @ + 1]
      BY ZenonT(40), <1>3, CallPays DEF Calling
    <2>2. p = [w EXCEPT !.wasm[id].store = box.store, !.wasm[id].bal = box.bal,
                        !.wasm[id].calls = @ + 1]
      BY ZenonT(40), <1>1, <1>3, CallPays DEF Calling
    <2>3. PICK names : Filled(box, names)
      BY <1>3, CallFilled
    <2>4. Twins(d, e, a) /\ SameRest(d, s)
      BY TwinsDebit
    <2> HIDE DEF box, d, e, o, p
    <2>5. Twins(u, w, a) /\ u.wasm = d.wasm
      BY <2>3, <2>4, TwinsPayouts
    <2>6. DOMAIN u = Fields /\ DOMAIN w = Fields /\ u.wasm = w.wasm
      BY <2>5, TwinsAgree
    <2> HIDE DEF u, w
    <2> DEFINE r == [u.wasm EXCEPT ![id].store = box.store, ![id].bal = box.bal,
                                   ![id].calls = @ + 1]
    <2>7. o = [u EXCEPT !.wasm = r]
      <3> DEFINE bs == box.store
                 bb == box.bal
      <3>1. o = [u EXCEPT !.wasm[id].store = bs, !.wasm[id].bal = bb,
                          !.wasm[id].calls = @ + 1]
        BY <2>1
      <3>2. r = [u.wasm EXCEPT ![id].store = bs, ![id].bal = bb, ![id].calls = @ + 1]
        OBVIOUS
      <3> HIDE DEF r, bs, bb
      <3> QED BY ZenonT(40), <2>6, <3>1, <3>2 DEF Fields
    <2>8. p = [w EXCEPT !.wasm = r]
      <3> DEFINE bs == box.store
                 bb == box.bal
      <3>1. p = [w EXCEPT !.wasm[id].store = bs, !.wasm[id].bal = bb,
                          !.wasm[id].calls = @ + 1]
        BY <2>2
      <3>2. r = [w.wasm EXCEPT ![id].store = bs, ![id].bal = bb, ![id].calls = @ + 1]
        BY <2>6
      <3> HIDE DEF r, bs, bb
      <3> QED BY <2>6, <3>1, <3>2 DEF Fields
    <2> HIDE DEF r
    <2>9. "wasm" \in Fields \ {"acc", "unb"}
      BY DEF Fields
    <2>10. Twins(o, p, a)
      BY <2>5, <2>7, <2>8, <2>9, TwinsField
    <2> QED BY <2>10 DEF o, p
  <1> QED BY <1>2, <1>3

(* wasm_deploy and wasm_call *)
LEMMA TwinsWasm ==
    ASSUME NEW s, NEW t, NEW tx, Twins(s, t, tx.from), Shape(s), Decoded(tx),
           tx.type \in WasmTypes, WasmAllowed(s, tx)
    PROVE  Twins(WasmEffect(s, tx), WasmEffect(t, tx), tx.from)
  <1>1. CASE tx.type = "wasm_deploy"
    <2> DEFINE c == [code |-> tx.code, store |-> <<>>, bal |-> 0, calls |-> 0,
                     creator |-> tx.from]
               r == Put(s.wasm, <<tx.from, tx.nonce>>, c)
    <2>1. s.wasm = t.wasm /\ DOMAIN s = Fields /\ DOMAIN t = Fields
      BY TwinsAgree
    <2>2. Deploy(s, tx) = [s EXCEPT !.wasm = r] /\ Deploy(t, tx) = [t EXCEPT !.wasm = r]
      <3>1. /\ Deploy(s, tx) = [s EXCEPT !.wasm = Put(@, <<tx.from, tx.nonce>>, c)]
            /\ Deploy(t, tx) = [t EXCEPT !.wasm = Put(@, <<tx.from, tx.nonce>>, c)]
        BY DEF Deploy
      <3> HIDE DEF c
      <3> QED BY <2>1, <3>1
    <2> HIDE DEF r
    <2>3. "wasm" \in Fields \ {"acc", "unb"}
      BY DEF Fields
    <2>4. Twins(Deploy(s, tx), Deploy(t, tx), tx.from)
      BY <2>2, <2>3, TwinsField
    <2> QED BY <1>1, <2>4 DEF WasmEffect
  <1>2. CASE tx.type # "wasm_deploy"
    <2>1. tx.id \in DOMAIN s.wasm
      BY <1>2 DEF WasmAllowed
    <2>2. Twins(Call(s, tx), Call(t, tx), tx.from)
      BY <2>1, TwinsCall
    <2> QED BY <1>2, <2>2 DEF WasmEffect
  <1> QED BY <1>1, <1>2

-----------------------------------------------------------------------------
(* A whole transaction. *)

(* The family of a transaction tells what it needs and does. *)
LEMMA ByFamily ==
    ASSUME NEW s, NEW tx, NEW time
    PROVE  /\ tx.type \in TokenTypes => /\ Effect(s, tx, time) = TokenEffect(s, tx)
                                        /\ Allowed(s, tx, time) <=> TokenAllowed(s, tx)
           /\ tx.type \in StakingTypes => /\ Effect(s, tx, time) = StakingEffect(s, tx, time)
                                          /\ Allowed(s, tx, time) <=> StakingAllowed(s, tx, time)
           /\ tx.type = "contract_create" => /\ Effect(s, tx, time) = Create(s, tx)
                                             /\ Allowed(s, tx, time) <=> CreateAllowed(s, tx)
           /\ tx.type = "contract_exec" => /\ Effect(s, tx, time) = Exec(s, tx, time)
                                           /\ Allowed(s, tx, time) <=> ExecAllowed(s, tx, time)
           /\ tx.type \in ShieldedTypes => /\ Effect(s, tx, time) = ShieldedEffect(s, tx)
                                           /\ Allowed(s, tx, time) <=> ShieldedAllowed(s, tx)
           /\ tx.type \in WasmTypes => /\ Effect(s, tx, time) = WasmEffect(s, tx)
                                       /\ Allowed(s, tx, time) <=> WasmAllowed(s, tx)
  <1>1. CASE tx.type \in TokenTypes
    BY <1>1 DEF Effect, Allowed, TokenTypes, StakingTypes, ShieldedTypes, WasmTypes
  <1>2. CASE tx.type \in StakingTypes
    BY <1>2 DEF Effect, Allowed, TokenTypes, StakingTypes, ShieldedTypes, WasmTypes
  <1>3. CASE tx.type = "contract_create"
    BY <1>3 DEF Effect, Allowed, TokenTypes, StakingTypes, ShieldedTypes, WasmTypes
  <1>4. CASE tx.type = "contract_exec"
    BY <1>4 DEF Effect, Allowed, TokenTypes, StakingTypes, ShieldedTypes, WasmTypes
  <1>5. CASE tx.type \in ShieldedTypes
    BY ZenonT(40), <1>5 DEF Effect, Allowed, TokenTypes, StakingTypes, ShieldedTypes, WasmTypes
  <1>6. CASE tx.type \in WasmTypes
    BY <1>6 DEF Effect, Allowed, TokenTypes, StakingTypes, ShieldedTypes, WasmTypes
  <1> QED BY <1>1, <1>2, <1>3, <1>4, <1>5, <1>6

(* What it may do, it may do in both. *)
LEMMA TwinsAllowed ==
    ASSUME NEW s, NEW t, NEW tx, Twins(s, t, tx.from), NEW time, Decoded(tx)
    PROVE  Allowed(s, tx, time) <=> Allowed(t, tx, time)
  <1> DEFINE a == tx.from
  <1>1. /\ s.acc[a] = t.acc[a] /\ a \in DOMAIN s.acc /\ a \in DOMAIN t.acc
        /\ s.tok = t.tok /\ s.val = t.val /\ s.ctr = t.ctr /\ s.wasm = t.wasm /\ s.pool = t.pool
    BY TwinsAgree
  <1>2. \A c : BalanceOf(s, a, c) = BalanceOf(t, a, c)
    BY <1>1 DEF BalanceOf
  <1>3. CASE tx.type \in TokenTypes
    <2>1. TokenAllowed(s, tx) <=> TokenAllowed(t, tx)
      <3>1. CASE tx.type = "transfer"
        BY <1>1, <1>2, <3>1 DEF TokenAllowed
      <3>2. CASE tx.type = "create_token"
        BY <1>1, <3>2 DEF TokenAllowed
      <3>3. CASE tx.type = "mint"
        BY <1>1, <3>3 DEF TokenAllowed
      <3> QED BY <1>3, <3>1, <3>2, <3>3 DEF TokenTypes
    <2> QED BY <1>3, <2>1, ByFamily
  <1>4. CASE tx.type \in StakingTypes
    <2>1. StakeOf(s, a) = StakeOf(t, a)
          /\ Delegation(s, tx.to, a) = Delegation(t, tx.to, a)
      BY <1>1 DEF StakeOf, Delegation
    <2>2. StakingAllowed(s, tx, time) <=> StakingAllowed(t, tx, time)
      <3>1. CASE tx.type = "stake"
        BY <2>1, <3>1 DEF StakingAllowed
      <3>2. CASE tx.type = "unstake"
        BY <1>1, <3>2 DEF StakingAllowed
      <3>3. CASE tx.type = "unjail"
        BY <1>1, <3>3 DEF StakingAllowed
      <3>4. CASE tx.type = "delegate"
        BY <1>1, <2>1, <3>4 DEF StakingAllowed
      <3>5. CASE tx.type = "undelegate"
        BY <1>1, <2>1, <3>5 DEF StakingAllowed
      <3>6. CASE tx.type = "validator_profile"
        BY <1>1, <3>6 DEF StakingAllowed
      <3> QED BY <1>4, <3>1, <3>2, <3>3, <3>4, <3>5, <3>6 DEF StakingTypes
    <2> QED BY <1>4, <2>2, ByFamily
  <1>5. CASE tx.type = "contract_create"
    <2>1. CreateAllowed(s, tx) <=> CreateAllowed(t, tx)
      BY <1>1, <1>2 DEF CreateAllowed
    <2> QED BY <1>5, <2>1, ByFamily
  <1>6. CASE tx.type = "contract_exec"
    <2>1. ExecAllowed(s, tx, time) <=> ExecAllowed(t, tx, time)
      BY <1>1 DEF ExecAllowed
    <2> QED BY <1>6, <2>1, ByFamily
  <1>7. CASE tx.type \in ShieldedTypes
    <2>1. ShieldedAllowed(s, tx) <=> ShieldedAllowed(t, tx)
      BY <1>1 DEF ShieldedAllowed, SpendAccepted, Fits
    <2> QED BY <1>7, <2>1, ByFamily
  <1>8. CASE tx.type \in WasmTypes
    <2>1. WasmAllowed(s, tx) <=> WasmAllowed(t, tx)
      BY <1>1 DEF WasmAllowed
    <2> QED BY <1>8, <2>1, ByFamily
  <1> QED BY <1>3, <1>4, <1>5, <1>6, <1>7, <1>8 DEF Decoded, ContractTypes

(* Who can pay for it, can in both. *)
LEMMA TwinsAffordable ==
    ASSUME NEW s, NEW t, NEW tx, Twins(s, t, tx.from)
    PROVE  /\ Affordable(s, tx) = Affordable(t, tx)
           /\ Fee(s, tx) = Fee(t, tx) /\ Burned(s, tx) = Burned(t, tx)
  BY TwinsAgree DEF Affordable, Fee, Burned

(* What it does, it does to both. *)
LEMMA TwinsEffect ==
    ASSUME NEW s, NEW t, NEW tx, Twins(s, t, tx.from), Shape(s), Decoded(tx), ValidateBasic(tx),
           NEW time \in Nat, Allowed(s, tx, time)
    PROVE  Twins(Effect(s, tx, time), Effect(t, tx, time), tx.from)
  <1>1. CASE tx.type \in TokenTypes
    <2>1. Twins(TokenEffect(s, tx), TokenEffect(t, tx), tx.from)
      BY <1>1, TwinsToken
    <2> QED BY <1>1, <2>1, ByFamily
  <1>2. CASE tx.type \in StakingTypes
    <2>1. StakingAllowed(s, tx, time)
      BY <1>2, ByFamily
    <2>2. Twins(StakingEffect(s, tx, time), StakingEffect(t, tx, time), tx.from)
      BY <1>2, <2>1, TwinsStaking DEF Shape
    <2> QED BY <1>2, <2>2, ByFamily
  <1>3. CASE tx.type = "contract_create"
    <2>1. Twins(Create(s, tx), Create(t, tx), tx.from)
      BY TwinsCreate
    <2> QED BY <1>3, <2>1, ByFamily
  <1>4. CASE tx.type = "contract_exec"
    <2>1. tx.action \in {"claim", "release", "refund", "propose", "approve", "reject"}
      BY <1>4 DEF ValidateBasic, ValidAction
    <2>2. Twins(Exec(s, tx, time), Exec(t, tx, time), tx.from)
      BY <2>1, TwinsExec
    <2> QED BY <1>4, <2>2, ByFamily
  <1>5. CASE tx.type \in ShieldedTypes
    <2>1. Twins(ShieldedEffect(s, tx), ShieldedEffect(t, tx), tx.from)
      BY <1>5, TwinsShielded
    <2> QED BY <1>5, <2>1, ByFamily
  <1>6. CASE tx.type \in WasmTypes
    <2>1. WasmAllowed(s, tx)
      BY <1>6, ByFamily
    <2>2. Twins(WasmEffect(s, tx), WasmEffect(t, tx), tx.from)
      BY <1>6, <2>1, TwinsWasm
    <2> QED BY <1>6, <2>2, ByFamily
  <1> QED BY <1>1, <1>2, <1>3, <1>4, <1>5, <1>6 DEF Decoded, ContractTypes

(* What it costs, it costs in both. *)
LEMMA TwinsCharge ==
    ASSUME NEW s, NEW t, NEW tx, Twins(s, t, tx.from), NEW proposer
    PROVE  Twins(ChargeFee(s, tx, proposer), ChargeFee(t, tx, proposer), tx.from)
  <1> DEFINE a == tx.from
             d == Debit(s, a, Native, Fee(s, tx))
             e == Debit(t, a, Native, Fee(t, tx))
             b == BurnSupply(d, Burned(s, tx))
             c == BurnSupply(e, Burned(t, tx))
             u == IF proposer # NoAddr THEN Credit(b, proposer, Native, tx.tip)
                  ELSE BurnSupply(b, tx.tip)
             w == IF proposer # NoAddr THEN Credit(c, proposer, Native, tx.tip)
                  ELSE BurnSupply(c, tx.tip)
             o == ChargeFee(s, tx, proposer)
             p == ChargeFee(t, tx, proposer)
  <1>1. Fee(s, tx) = Fee(t, tx) /\ Burned(s, tx) = Burned(t, tx)
    BY TwinsAffordable
  <1>2. Twins(d, e, a)
    BY <1>1, TwinsDebit
  <1>3. Twins(b, c, a)
    <2> HIDE DEF d, e
    <2> QED BY <1>1, <1>2, TwinsBurn
  <1>4. Twins(u, w, a)
    <2> HIDE DEF b, c
    <2> QED BY <1>3, TwinsCredit, TwinsBurn
  <1>5. o = [u EXCEPT !.acc[a].nonce = @ + 1] /\ p = [w EXCEPT !.acc[a].nonce = @ + 1]
    BY DEF ChargeFee
  <1> HIDE DEF u, w, o, p
  <1>6. DOMAIN u = Fields /\ DOMAIN w = Fields /\ u.acc[a] = w.acc[a]
    BY <1>4, TwinsAgree
  <1> DEFINE r == [u.acc[a] EXCEPT !.nonce = @ + 1]
  <1>7. o = [u EXCEPT !.acc = [u.acc EXCEPT ![a] = r]]
    BY <1>4, <1>5, <1>6 DEF Fields, Twins
  <1>8. p = [w EXCEPT !.acc = [w.acc EXCEPT ![a] = r]]
    BY <1>4, <1>5, <1>6 DEF Fields, Twins
  <1> HIDE DEF r
  <1>9. Twins(o, p, a)
    BY <1>4, <1>7, <1>8, TwinsPurse
  <1> QED BY <1>9 DEF o, p

(* applyTx: accepted in both or in neither, and alike afterwards; one that *)
(* fails leaves nothing that can be told.                                  *)
LEMMA AlikeApply ==
    ASSUME NEW s, NEW t, Alike(s, t), Shape(s), IdsUsed(s), NEW tx, Decoded(tx),
           ValidateBasic(tx), NEW time \in Nat, NEW proposer
    PROVE  LET o == ApplyTx(s, tx, proposer, time)
               p == ApplyTx(t, tx, proposer, time)
           IN  /\ o.ok \in BOOLEAN /\ o.ok = p.ok /\ Alike(o.s, p.s)
               /\ ~o.ok => Alike(o.s, t)
  <1> DEFINE a == tx.from
             u == Acct(s, a)
             w == Acct(t, a)
             yes == Affordable(u, tx) /\ Allowed(u, tx, time)
             x == ChargeFee(Effect(u, tx, time), tx, proposer)
             y == ChargeFee(Effect(w, tx, time), tx, proposer)
             o == ApplyTx(s, tx, proposer, time)
             p == ApplyTx(t, tx, proposer, time)
  <1>1. Twins(u, w, a)
    BY TwinsAcct
  <1>2. Alike(u, t)
    <2>1. PICK E : s.unb \in Seq(E)
      BY DEF Alike, Shuffled
    <2>2. DOMAIN s = Fields
      BY DEF Alike
    <2>3. Alike(u, s)
      BY <2>1, <2>2, AlikeAcct
    <2> HIDE DEF u
    <2> QED BY <2>3, AlikeThenAlike
  <1>3. Shape(u)
    <2>1. Carries(s, u, time)
      BY LookupStep
    <2> HIDE DEF u
    <2> QED BY <2>1 DEF Carries
  <1>4. o = IF Affordable(u, tx) /\ Allowed(u, tx, time)
            THEN [ok |-> TRUE, s |-> x] ELSE [ok |-> FALSE, s |-> u]
    BY DEF ApplyTx
  <1>5. p = IF Affordable(w, tx) /\ Allowed(w, tx, time)
            THEN [ok |-> TRUE, s |-> y] ELSE [ok |-> FALSE, s |-> w]
    BY DEF ApplyTx
  <1> HIDE DEF u, w, o, p
  <1>6. Affordable(u, tx) = Affordable(w, tx) /\ (Allowed(u, tx, time) <=> Allowed(w, tx, time))
    BY <1>1, TwinsAffordable, TwinsAllowed
  <1>7. CASE Affordable(u, tx) /\ Allowed(u, tx, time)
    <2>1. Twins(Effect(u, tx, time), Effect(w, tx, time), a)
      BY <1>1, <1>3, <1>7, TwinsEffect
    <2>2. Twins(x, y, a)
      BY <2>1, TwinsCharge
    <2>3. o = [ok |-> TRUE, s |-> x] /\ p = [ok |-> TRUE, s |-> y]
      BY <1>4, <1>5, <1>6, <1>7
    <2> HIDE DEF x, y
    <2> QED BY <2>2, <2>3 DEF Twins, o, p
  <1>8. CASE ~(Affordable(u, tx) /\ Allowed(u, tx, time))
    <2>1. o = [ok |-> FALSE, s |-> u] /\ p = [ok |-> FALSE, s |-> w]
      BY <1>4, <1>5, <1>6, <1>8
    <2> QED BY <1>1, <1>2, <2>1 DEF Twins, o, p
  <1> QED BY <1>7, <1>8

-----------------------------------------------------------------------------
(* The transactions of a block, and those of it that were kept. *)

(* No transaction. *)
LEMMA ApplyNone ==
    ASSUME NEW c, NEW d, NEW b
    PROVE  Applying!Fold(c, d, b, <<>>) = b
  <1>1. DOMAIN <<>> = 1..0 /\ 0 \in Nat
    OBVIOUS
  <1>2. Applying!Traced(c, d, b, 0, <<>>)
    BY <1>1, Applying!FoldTrace
  <1> QED BY <1>2 DEF Applying!Traced

(* One transaction more. *)
LEMMA ApplyMore ==
    ASSUME NEW c, NEW d, NEW b, NEW R, NEW seq \in Seq(R), NEW x \in R
    PROVE  Applying!Fold(c, d, b, Append(seq, x))
               = ApplyOne(c, d, Applying!Fold(c, d, b, seq), x)
  <1> DEFINE n == Len(seq)
             longer == Append(seq, x)
  <1>1. /\ n \in Nat /\ DOMAIN seq = 1..n /\ DOMAIN longer = 1..(n + 1)
        /\ (\A k \in 1..n : longer[k] = seq[k]) /\ longer[n + 1] = x
    OBVIOUS
  <1> HIDE DEF n, longer
  <1>2. PICK f : /\ f[0] = b
                 /\ \A k \in 1..n : f[k] = ApplyOne(c, d, f[k - 1], seq[k])
                 /\ f[n] = Applying!Fold(c, d, b, seq)
    <2>1. Applying!Traced(c, d, b, n, seq)
      BY <1>1, Applying!FoldTrace
    <2> QED BY <2>1 DEF Applying!Traced
  <1>3. PICK g : /\ g[0] = b
                 /\ \A k \in 1..(n + 1) : g[k] = ApplyOne(c, d, g[k - 1], longer[k])
                 /\ g[n + 1] = Applying!Fold(c, d, b, longer)
    <2>1. n + 1 \in Nat
      BY <1>1
    <2>2. Applying!Traced(c, d, b, n + 1, longer)
      BY <1>1, <2>1, Applying!FoldTrace
    <2> QED BY <2>2 DEF Applying!Traced
  <1> DEFINE T == {k \in Nat : f[k] = g[k]}
  <1>4. 0 \in T
    BY <1>2, <1>3
  <1>5. ASSUME NEW k \in 1..n, k - 1 \in T PROVE k \in T
    <2>1. k \in 1..(n + 1) /\ k \in Nat /\ longer[k] = seq[k]
      BY <1>1
    <2>2. f[k - 1] = g[k - 1]
      BY <1>5
    <2>3. f[k] = ApplyOne(c, d, f[k - 1], seq[k]) /\ g[k] = ApplyOne(c, d, g[k - 1], longer[k])
      BY <1>2, <1>3, <2>1
    <2> QED BY <2>1, <2>2, <2>3
  <1> HIDE DEF T
  <1>6. \A k \in 0..n : k \in T
    BY <1>1, <1>4, <1>5, Positions
  <1>7. f[n] = g[n]
    BY <1>1, <1>6 DEF T
  <1>8. g[n + 1] = ApplyOne(c, d, g[n], x)
    <2>1. n + 1 \in 1..(n + 1) /\ (n + 1) - 1 = n
      BY <1>1
    <2> QED BY <1>1, <1>3, <2>1
  <1> QED BY <1>2, <1>3, <1>7, <1>8 DEF longer

(* From r, what the proposer kept, to q, what a follower found. *)
Retold(r, q) ==
    /\ DOMAIN r = {"s", "ok", "applied"} /\ DOMAIN q = {"s", "ok", "applied"}
    /\ Alike(r.s, q.s) /\ q.ok = TRUE /\ q.applied = r.applied

(* What the proposer kept of what it was sent, a follower accepts. *)
LEMMA AlikeApplyTxs ==
    ASSUME NEW s, Shape(s), IdsUsed(s), NEW t, Alike(s, t),
           NEW txs, NEW n \in Nat, DOMAIN txs = 1..n,
           \A i \in 1..n : Decoded(txs[i]) /\ ValidateBasic(txs[i]),
           NEW time \in Nat, NEW proposer, Params.MinValidatorStake > 0
    PROVE  LET r == ApplyTxs(s, txs, proposer, time)
               q == ApplyTxs(t, r.applied, proposer, time)
           IN  Retold(r, q)
  <1> DEFINE r == ApplyTxs(s, txs, proposer, time)
             b == [s |-> s, ok |-> TRUE, applied |-> <<>>]
             c == [s |-> t, ok |-> TRUE, applied |-> <<>>]
             R == Range(txs)
             G(seq) == Applying!Fold(proposer, time, c, seq)
             K == {"s", "ok", "applied"}
  <1>1. r = Applying!Fold(proposer, time, b, txs)
    BY DEF ApplyTxs, Applying!Fold, FoldLeft, Applying!FoldLeft, MapThenFoldSet,
           Applying!MapThenFoldSet, Max, Applying!Max, ApplyOne
  <1>2. ASSUME NEW seq PROVE ApplyTxs(t, seq, proposer, time) = G(seq)
    BY DEF ApplyTxs, Applying!Fold, FoldLeft, Applying!FoldLeft, MapThenFoldSet,
           Applying!MapThenFoldSet, Max, Applying!Max, ApplyOne
  <1>3. /\ DOMAIN b = K /\ b.applied = <<>> /\ b.s = s /\ b.applied \in Seq(R)
        /\ DOMAIN c = K /\ c.applied = <<>> /\ c.s = t /\ c.ok = TRUE
    OBVIOUS
  <1>4. \A i \in 1..n : txs[i] \in R
    BY DEF Range
  <1> HIDE DEF r, b, c, R
  <1>5. PICK f : /\ f[0] = b
                 /\ \A k \in 1..n : f[k] = ApplyOne(proposer, time, f[k - 1], txs[k])
                 /\ f[n] = Applying!Fold(proposer, time, b, txs)
    <2>1. Applying!Traced(proposer, time, b, n, txs)
      BY Applying!FoldTrace
    <2> QED BY <2>1 DEF Applying!Traced
  <1> DEFINE Follows(o) == /\ DOMAIN o = K /\ o.applied \in Seq(R) /\ Carries(s, o.s, time)
                           /\ DOMAIN G(o.applied) = K /\ Alike(o.s, G(o.applied).s)
                           /\ G(o.applied).ok = TRUE /\ G(o.applied).applied = o.applied
             T == {k \in Nat : Follows(f[k])}
  <1>6. Follows(b)
    <2>1. G(<<>>) = c
      BY ApplyNone
    <2>2. Carries(s, b.s, time)
      BY <1>3, CarriesItself
    <2> HIDE DEF G
    <2> QED BY <1>3, <2>1, <2>2
  <1>7. ASSUME NEW q, Follows(q), NEW k \in 1..n
        PROVE  Follows(ApplyOne(proposer, time, q, txs[k]))
    <2> DEFINE tx == txs[k]
               g == G(q.applied)
               o == ApplyTx(q.s, tx, proposer, time)
               p == ApplyTx(g.s, tx, proposer, time)
               e == ApplyOne(proposer, time, q, tx)
               h == ApplyOne(proposer, time, g, tx)
    <2>1. /\ DOMAIN q = K /\ q.applied \in Seq(R) /\ Carries(s, q.s, time)
          /\ DOMAIN g = K /\ Alike(q.s, g.s) /\ g.ok = TRUE /\ g.applied = q.applied
      BY <1>7
    <2>2. Decoded(tx) /\ ValidateBasic(tx) /\ tx \in R
      BY <1>4
    <2>3. G(Append(q.applied, tx)) = h
      <3> HIDE DEF tx
      <3> QED BY <2>1, <2>2, ApplyMore
    <2>4. e = [s |-> o.s, ok |-> q.ok /\ o.ok,
               applied |-> IF o.ok THEN Append(q.applied, tx) ELSE q.applied]
      BY DEF ApplyOne
    <2>5. h = [s |-> p.s, ok |-> g.ok /\ p.ok,
               applied |-> IF p.ok THEN Append(g.applied, tx) ELSE g.applied]
      BY DEF ApplyOne
    <2> HIDE DEF tx, g, e, h
    <2>6. Shape(q.s) /\ IdsUsed(q.s)
      BY <2>1 DEF Carries
    <2>7. /\ o.ok \in BOOLEAN /\ o.ok = p.ok /\ Alike(o.s, p.s)
          /\ ~o.ok => Alike(o.s, g.s)
      BY <2>1, <2>2, <2>6, AlikeApply
    <2>8. Carries(s, o.s, time)
      <3>1. Carries(q.s, o.s, time)
        BY <2>2, <2>6, ApplyTxStep
      <3> HIDE DEF o
      <3> QED BY <2>1, <2>6, <3>1, CarriesOn
    <2> HIDE DEF o, p
    <2>9. DOMAIN e = K /\ e.s = o.s
      BY <2>4
    <2>10. CASE o.ok
      <3>1. e.applied = Append(q.applied, tx)
        BY <2>4, <2>10
      <3>2. DOMAIN h = K /\ h.s = p.s /\ h.ok = TRUE /\ h.applied = Append(q.applied, tx)
        BY ZenonT(40), <2>1, <2>5, <2>7, <2>10
      <3>3. G(e.applied) = h
        BY <2>3, <3>1
      <3>4. e.applied \in Seq(R)
        BY <2>1, <2>2, <3>1
      <3> HIDE DEF G
      <3>5. Follows(e)
        BY <2>7, <2>8, <2>9, <3>1, <3>2, <3>3, <3>4
      <3> QED BY <3>5 DEF e, tx
    <2>11. CASE ~o.ok
      <3>1. e.applied = q.applied
        BY <2>4, <2>11
      <3>2. G(e.applied) = g
        BY <3>1 DEF g
      <3> HIDE DEF G
      <3>3. Follows(e)
        BY <2>1, <2>7, <2>8, <2>9, <2>11, <3>1, <3>2
      <3> QED BY <3>3 DEF e, tx
    <2> QED BY ZenonT(40), <2>10, <2>11
  <1> HIDE DEF Follows
  <1>8. 0 \in T
    BY <1>5, <1>6
  <1>9. ASSUME NEW k \in 1..n, k - 1 \in T PROVE k \in T
    <2>1. Follows(f[k - 1]) /\ k \in Nat /\ f[k] = ApplyOne(proposer, time, f[k - 1], txs[k])
      BY <1>5, <1>9
    <2>2. Follows(f[k])
      BY <1>7, <2>1
    <2> QED BY <2>1, <2>2
  <1> HIDE DEF T
  <1>10. \A k \in 0..n : k \in T
    BY <1>8, <1>9, Positions
  <1>11. Follows(r)
    <2>1. n \in T
      BY <1>10
    <2> QED BY <1>1, <1>5, <2>1 DEF T
  <1> DEFINE q == ApplyTxs(t, r.applied, proposer, time)
  <1>12. q = G(r.applied)
    BY <1>2
  <1> HIDE DEF q, G
  <1>13. /\ DOMAIN r = K /\ DOMAIN q = K /\ Alike(r.s, q.s) /\ q.ok = TRUE
         /\ q.applied = r.applied
    BY <1>11, <1>12 DEF Follows
  <1> QED BY <1>13 DEF r, q, Retold

-----------------------------------------------------------------------------
(* The reward, and the whole block. *)

(* New money is counted alike. *)
LEMMA AlikeMinted ==
    ASSUME NEW s, NEW t, Alike(s, t), NEW x
    PROVE  Alike(MintSupply(s, x), MintSupply(t, x))
  <1> DEFINE o == MintSupply(s, x)
             p == MintSupply(t, x)
             r == [s.supply EXCEPT !.total = Plus(@, x), !.minted = Plus(@, x)]
  <1>1. DOMAIN s = Fields /\ DOMAIN t = Fields /\ SameRest(s, t)
    BY DEF Alike
  <1>2. o = [s EXCEPT !.supply = r] /\ p = [t EXCEPT !.supply = r]
    BY ZenonT(40), <1>1 DEF MintSupply, Fields, SameRest
  <1> HIDE DEF r, o, p
  <1>3. /\ DOMAIN o = Fields /\ DOMAIN p = Fields /\ SameRest(o, p)
        /\ o.acc = s.acc /\ p.acc = t.acc /\ o.unb = s.unb /\ p.unb = t.unb
    BY <1>1, <1>2 DEF Fields, SameRest
  <1>4. Alike(o, p)
    BY <1>3 DEF Alike, At
  <1> QED BY <1>4 DEF o, p

(* The delegators of both get their shares. *)
LEMMA AlikeShares ==
    ASSUME NEW s, NEW t, Alike(s, t), NEW S \in SUBSET Addr, NEW shares
    PROVE  Alike(Rewarding!Fold(0, shares, s, InOrder(S)),
                 Rewarding!Fold(0, shares, t, InOrder(S)))
  <1> DEFINE n == Cardinality(S)
             list == InOrder(S)
  <1>1. n \in Nat /\ DOMAIN list = 1..n
    BY OrderedDomain
  <1> HIDE DEF n, list
  <1>2. PICK f : /\ f[0] = s
                 /\ \A k \in 1..n : f[k] = RewardEntry(0, shares, f[k - 1], list[k])
                 /\ f[n] = Rewarding!Fold(0, shares, s, list)
    <2>1. Rewarding!Traced(0, shares, s, n, list)
      BY <1>1, Rewarding!FoldTrace
    <2> QED BY <2>1 DEF Rewarding!Traced
  <1>3. PICK g : /\ g[0] = t
                 /\ \A k \in 1..n : g[k] = RewardEntry(0, shares, g[k - 1], list[k])
                 /\ g[n] = Rewarding!Fold(0, shares, t, list)
    <2>1. Rewarding!Traced(0, shares, t, n, list)
      BY <1>1, Rewarding!FoldTrace
    <2> QED BY <2>1 DEF Rewarding!Traced
  <1> DEFINE T == {k \in Nat : Alike(f[k], g[k])}
  <1>4. 0 \in T
    BY <1>2, <1>3
  <1>5. ASSUME NEW k \in 1..n, k - 1 \in T PROVE k \in T
    <2> DEFINE u == f[k - 1]
               w == g[k - 1]
               a == list[k]
    <2>1. Alike(u, w) /\ k \in Nat
      BY <1>5
    <2>2. f[k] = Credit(u, a, Native, shares[a]) /\ g[k] = Credit(w, a, Native, shares[a])
      BY <1>2, <1>3 DEF RewardEntry
    <2> HIDE DEF u, w, a
    <2>3. Alike(f[k], g[k])
      BY <2>1, <2>2, AlikeCredit
    <2> QED BY <2>1, <2>3
  <1> HIDE DEF T
  <1>6. \A k \in 0..n : k \in T
    BY <1>1, <1>4, <1>5, Positions
  <1>7. Alike(f[n], g[n])
    BY <1>1, <1>6 DEF T
  <1> QED BY <1>2, <1>3, <1>7 DEF list

(* distributeReward, written as its payments and one count. *)
LEMMA RewardPays ==
    ASSUME NEW s, NEW a, NEW reward
    PROVE  LET w      == s.val[a]
               share  == MulDiv(reward, w.delegated, Weight(w))
               cut    == Bps(share, Params.DelegationCommissionBps)
               shares == [x \in DOMAIN w.delegators |->
                             MulDiv(share - cut, w.delegators[x], w.delegated)]
               paid   == Rewarding!Fold(0, shares, s, InOrder(DOMAIN shares))
           IN  DistributeReward(s, a, reward)
                 = IF reward = 0 THEN s
                   ELSE IF a \notin DOMAIN s.val \/ s.val[a].delegated = 0
                   THEN Mint(s, a, reward)
                   ELSE MintSupply(Credit(paid, a, Native, reward - SumFunction(shares)), reward)
  BY DEF DistributeReward, Rewarding!Fold, FoldLeft, Rewarding!FoldLeft,
         MapThenFoldSet, Rewarding!MapThenFoldSet, Max, Rewarding!Max, RewardEntry

(* distributeReward *)
LEMMA AlikeReward ==
    ASSUME NEW s, NEW t, Alike(s, t), Shape(s), NEW a, NEW reward
    PROVE  Alike(DistributeReward(s, a, reward), DistributeReward(t, a, reward))
  <1> DEFINE w == s.val[a]
             share == MulDiv(reward, w.delegated, Weight(w))
             cut == Bps(share, Params.DelegationCommissionBps)
             shares == [x \in DOMAIN w.delegators |->
                           MulDiv(share - cut, w.delegators[x], w.delegated)]
             own == reward - SumFunction(shares)
             u == Rewarding!Fold(0, shares, s, InOrder(DOMAIN shares))
             v == Rewarding!Fold(0, shares, t, InOrder(DOMAIN shares))
             o == DistributeReward(s, a, reward)
             p == DistributeReward(t, a, reward)
  <1>1. s.val = t.val
    BY DEF Alike, SameRest
  <1>2. o = IF reward = 0 THEN s
            ELSE IF a \notin DOMAIN s.val \/ s.val[a].delegated = 0 THEN Mint(s, a, reward)
            ELSE MintSupply(Credit(u, a, Native, own), reward)
    BY RewardPays
  <1>3. p = IF reward = 0 THEN t
            ELSE IF a \notin DOMAIN s.val \/ s.val[a].delegated = 0 THEN Mint(t, a, reward)
            ELSE MintSupply(Credit(v, a, Native, own), reward)
    BY <1>1, RewardPays
  <1>4. DOMAIN shares = DOMAIN w.delegators
    OBVIOUS
  <1> HIDE DEF o, p, own, shares
  <1>5. CASE reward = 0
    BY <1>2, <1>3, <1>5 DEF o, p
  <1>6. CASE reward # 0 /\ (a \notin DOMAIN s.val \/ s.val[a].delegated = 0)
    <2>1. Alike(Mint(s, a, reward), Mint(t, a, reward))
      BY AlikeCredit, AlikeMinted DEF Mint
    <2> QED BY <1>2, <1>3, <1>6, <2>1 DEF o, p
  <1>7. CASE reward # 0 /\ a \in DOMAIN s.val /\ s.val[a].delegated # 0
    <2>1. DOMAIN shares \in SUBSET Addr
      BY <1>4, <1>7 DEF Shape, ValOK, ValidatorOK
    <2>2. Alike(u, v)
      BY <2>1, AlikeShares
    <2> HIDE DEF u, v
    <2>3. Alike(MintSupply(Credit(u, a, Native, own), reward),
                MintSupply(Credit(v, a, Native, own), reward))
      BY <2>2, AlikeCredit, AlikeMinted
    <2> QED BY <1>2, <1>3, <1>7, <2>3 DEF o, p
  <1> QED BY <1>5, <1>6, <1>7

(* What Execute does once the transactions have been applied. *)
Closing(r, a) ==
    LET rewarded == IF a = NoAddr THEN r.s
                    ELSE DistributeReward(r.s, a, RewardPerBlock(TotalStaked(r.s)))
    IN  [r EXCEPT !.s = [rewarded EXCEPT !.fee = NextBaseFee(@, Len(r.applied))]]

(* It keeps them alike. *)
LEMMA AlikeClosing ==
    ASSUME NEW r, NEW q, DOMAIN r = {"s", "ok", "applied"}, DOMAIN q = {"s", "ok", "applied"},
           Alike(r.s, q.s), q.ok = TRUE, q.applied = r.applied, Shape(r.s), NEW a
    PROVE  Closing(q, a).ok = TRUE /\ Alike(Closing(r, a).s, Closing(q, a).s)
  <1> DEFINE u == IF a = NoAddr THEN r.s
                  ELSE DistributeReward(r.s, a, RewardPerBlock(TotalStaked(r.s)))
             w == IF a = NoAddr THEN q.s
                  ELSE DistributeReward(q.s, a, RewardPerBlock(TotalStaked(q.s)))
             x == NextBaseFee(u.fee, Len(r.applied))
             o == [u EXCEPT !.fee = x]
             p == [w EXCEPT !.fee = x]
  <1>1. TotalStaked(r.s) = TotalStaked(q.s)
    BY DEF Alike, SameRest, TotalStaked
  <1>2. Alike(u, w)
    <2> DEFINE reward == RewardPerBlock(TotalStaked(r.s))
    <2>1. Alike(DistributeReward(r.s, a, reward), DistributeReward(q.s, a, reward))
      <3> HIDE DEF reward
      <3> QED BY AlikeReward
    <2> QED BY <1>1, <2>1
  <1>3. /\ Closing(r, a) = [r EXCEPT !.s = [u EXCEPT !.fee = NextBaseFee(@, Len(r.applied))]]
        /\ Closing(q, a) = [q EXCEPT !.s = [w EXCEPT !.fee = NextBaseFee(@, Len(q.applied))]]
    BY DEF Closing
  <1> HIDE DEF u, w
  <1>4. DOMAIN u = Fields /\ DOMAIN w = Fields /\ u.fee = w.fee /\ SameRest(u, w)
    BY <1>2 DEF Alike, SameRest
  <1>5. Closing(r, a) = [r EXCEPT !.s = o] /\ Closing(q, a) = [q EXCEPT !.s = p]
    BY <1>3, <1>4
  <1> HIDE DEF x
  <1>6. /\ DOMAIN o = Fields /\ DOMAIN p = Fields /\ SameRest(o, p)
        /\ o.acc = u.acc /\ p.acc = w.acc /\ o.unb = u.unb /\ p.unb = w.unb
    BY <1>4 DEF Fields, SameRest
  <1> HIDE DEF o, p
  <1>7. Alike(o, p)
    BY <1>2, <1>6 DEF Alike, At
  <1>8. Closing(q, a).ok = TRUE /\ Closing(r, a).s = o /\ Closing(q, a).s = p
    BY <1>5
  <1> QED BY <1>7, <1>8

(* Execute: a follower that runs what was kept, with an order of its own,  *)
(* accepts it and ends alike.                                              *)
LEMMA AlikeExecute ==
    ASSUME NEW s, Shape(s), IdsUsed(s), NEW b, BlockOK(b), NEW order, OrderOK(order),
           NEW other, OrderOK(other), Params.MinValidatorStake > 0,
           NEW c, c.time = b.time, c.evidence = b.evidence, c.absent = b.absent,
           c.proposer = b.proposer, c.txs = Execute(s, b, order).applied
    PROVE  /\ Execute(s, c, other).ok = TRUE
           /\ Alike(Execute(s, b, order).s, Execute(s, c, other).s)
  <1> DEFINE a == b.proposer
             t == b.time
             released == ReleaseUnbonded(s, t)
             slashed(f) == SlashAll(released, b.evidence, f, t)
             counted(f) == IF a = NoAddr THEN slashed(f) ELSE ApplyDowntime(slashed(f), a, b.absent, t)
             r == ApplyTxs(counted(order), b.txs, a, t)
             e == Execute(s, b, order)
             h == Execute(s, c, other)
             K == {"s", "ok", "applied"}
  <1>1. /\ t \in Nat /\ b.evidence \in Seq([voter : Nat, height : Nat])
        /\ b.absent \in Seq(Nat)
    BY DEF BlockOK
  <1>2. e = Closing(r, a)
    BY DEF Execute, Closing
  <1>3. h = Closing(ApplyTxs(counted(other), e.applied, a, t), a)
    <2> HIDE DEF e
    <2>1. c.time = t /\ c.evidence = b.evidence /\ c.absent = b.absent /\ c.proposer = a
          /\ c.txs = e.applied
      BY DEF e
    <2> HIDE DEF t, a
    <2> QED BY SMTT(40), <2>1 DEF Execute, Closing
  <1>4. Carries(s, released, t)
    BY ReleaseSettles, SettlesCarries
  <1> HIDE DEF released, e, h
  <1>5. Shape(released) /\ IdsUsed(released)
    BY <1>4 DEF Carries
  <1>6. Requeued(slashed(order), slashed(other)) /\ Shape(slashed(order))
    <2>1. Requeued(released, released)
      BY <1>5, AlikeItself DEF Shape
    <2> QED BY <1>1, <1>5, <2>1, RequeuedSlashAll
  <1>7. Alike(counted(order), counted(other)) /\ Shape(counted(order)) /\ IdsUsed(counted(order))
    <2>1. IdsUsed(slashed(order))
      <3>1. Settles(released, slashed(order))
        BY <1>1, <1>5, SlashAllStep
      <3> HIDE DEF slashed
      <3>2. Carries(released, slashed(order), t)
        BY <1>5, <3>1, SettlesCarries
      <3> QED BY <3>2 DEF Carries
    <2> HIDE DEF slashed
    <2>2. CASE a = NoAddr
      BY <1>6, <2>1, <2>2 DEF Requeued
    <2>3. CASE a # NoAddr
      <3> DEFINE u == ApplyDowntime(slashed(order), a, b.absent, t)
                 w == ApplyDowntime(slashed(other), a, b.absent, t)
      <3>1. Requeued(u, w)
        BY <1>1, <1>6, RequeuedDowntime
      <3>2. Settles(slashed(order), u)
        BY <1>1, <1>6, ApplyDowntimeStep
      <3> HIDE DEF u, w
      <3>3. Carries(slashed(order), u, t)
        BY <1>6, <2>1, <3>2, SettlesCarries
      <3>4. Alike(u, w) /\ Shape(u) /\ IdsUsed(u)
        BY <3>1, <3>3 DEF Requeued, Carries
      <3>5. counted(order) = u /\ counted(other) = w
        BY <2>3 DEF u, w
      <3> HIDE DEF counted
      <3> QED BY <3>4, <3>5
    <2> QED BY <2>2, <2>3
  <1> DEFINE x == counted(order)
             y == counted(other)
  <1>8. Alike(x, y) /\ Shape(x) /\ IdsUsed(x)
    BY <1>7
  <1> HIDE DEF counted, x, y
  <1> DEFINE q == ApplyTxs(y, r.applied, a, t)
  <1>9. r = ApplyTxs(x, b.txs, a, t)
    BY DEF x
  <1>10. /\ DOMAIN r = K /\ DOMAIN q = K /\ Alike(r.s, q.s) /\ q.ok = TRUE
         /\ q.applied = r.applied /\ Carries(x, r.s, t)
    <2>1. PICK n \in Nat : /\ DOMAIN b.txs = 1..n
                           /\ \A i \in 1..n : Decoded(b.txs[i]) /\ ValidateBasic(b.txs[i])
      BY DEF BlockOK
    <2> DEFINE txs == b.txs
    <2>2. DOMAIN txs = 1..n /\ \A i \in 1..n : Decoded(txs[i]) /\ ValidateBasic(txs[i])
      BY <2>1
    <2>3. r = ApplyTxs(x, txs, a, t) /\ q = ApplyTxs(y, r.applied, a, t)
      BY <1>9
    <2> HIDE DEF txs, t, a, r, q
    <2>4. Retold(ApplyTxs(x, txs, a, t), ApplyTxs(y, ApplyTxs(x, txs, a, t).applied, a, t))
      BY SMTT(40), <1>1, <1>8, <2>2, AlikeApplyTxs
    <2>5. Carries(x, ApplyTxs(x, txs, a, t).s, t)
      BY <1>1, <1>8, <2>2, ApplyTxsStep
    <2> QED BY <2>3, <2>4, <2>5 DEF Retold
  <1> HIDE DEF r
  <1>11. h = Closing(ApplyTxs(y, e.applied, a, t), a)
    BY <1>3 DEF y
  <1>12. e.applied = r.applied
    BY <1>2, <1>10 DEF Closing
  <1>13. h = Closing(q, a)
    BY <1>11, <1>12
  <1> HIDE DEF q
  <1>14. Shape(r.s)
    BY <1>10 DEF Carries
  <1>15. Closing(q, a).ok = TRUE /\ Alike(Closing(r, a).s, Closing(q, a).s)
    BY <1>10, <1>14, AlikeClosing
  <1> QED BY <1>2, <1>13, <1>15 DEF e, h

-----------------------------------------------------------------------------
(* What is alike is the same to everything that reads it. *)

(* Lists that hold the same, as often, are the same as bags. *)
LEMMA ShuffledMultiset ==
    ASSUME NEW p, NEW q, Shuffled(p, q)
    PROVE  Multiset(p) = Multiset(q)
  <1>1. PICK E : p \in Seq(E) /\ q \in Seq(E)
    BY DEF Shuffled
  <1>2. ASSUME NEW u \in Seq(E), NEW x
        PROVE  x \in Range(u) <=> Times(u, x) # 0
    <2> DEFINE P == {i \in DOMAIN u : u[i] = x}
    <2>1. P \subseteq 1..Len(u) /\ Len(u) \in Nat
      OBVIOUS
    <2>2. x \in Range(u) <=> P # {}
      BY DEF Range
    <2> HIDE DEF P
    <2>3. IsFiniteSet(P)
      <3>1. 0 \in Int /\ 1 \in Int /\ Len(u) \in Int
        BY <2>1
      <3>2. IsFiniteSet(1..Len(u))
        BY <3>1, FS_Interval
      <3> QED BY <2>1, <3>2, FS_Subset
    <2>4. Cardinality(P) = 0 <=> P = {}
      BY <2>3, FS_EmptySet
    <2> QED BY <2>2, <2>4 DEF P, Times
  <1>3. Range(p) = Range(q)
    <2>1. \A x : x \in Range(p) <=> x \in Range(q)
      BY <1>1, <1>2 DEF Shuffled
    <2> QED BY <2>1
  <1>4. \A x : Times(p, x) = Times(q, x)
    BY DEF Shuffled
  <1>5. /\ Multiset(p) = [x \in Range(p) |-> Times(p, x)]
        /\ Multiset(q) = [x \in Range(q) |-> Times(q, x)]
    BY DEF Multiset, Times
  <1> QED BY <1>3, <1>4, <1>5

(* Accounts that were merely looked up are not used. *)
LEMMA AlikeUsed ==
    ASSUME NEW s, NEW t, Alike(s, t)
    PROVE  Used(s) = Used(t)
  <1> DEFINE S == {x \in DOMAIN s.acc : s.acc[x] # NewAccount}
             T == {x \in DOMAIN t.acc : t.acc[x] # NewAccount}
  <1>1. \A x : At(s, x) = At(t, x)
    BY DEF Alike
  <1>2. \A x : x \in S <=> At(s, x) # NewAccount
    BY DEF At
  <1>3. \A x : x \in T <=> At(t, x) # NewAccount
    BY DEF At
  <1>4. S = T
    <2>1. \A x : x \in S <=> x \in T
      BY <1>1, <1>2, <1>3
    <2> HIDE DEF S, T
    <2> QED BY <2>1
  <1>5. \A x \in S : s.acc[x] = t.acc[x]
    BY <1>1, <1>4 DEF At
  <1>6. Used(s) = [a \in S |-> s.acc[a]] /\ Used(t) = [a \in T |-> t.acc[a]]
    BY DEF Used
  <1> HIDE DEF S, T
  <1> QED BY <1>4, <1>5, <1>6

(* All in all. *)
LEMMA AlikeSame ==
    ASSUME NEW s, NEW t, Alike(s, t)
    PROVE  SameLedger(s, t)
  <1>1. Used(s) = Used(t)
    BY AlikeUsed
  <1>2. Multiset(s.unb) = Multiset(t.unb)
    BY ShuffledMultiset DEF Alike
  <1>3. [s EXCEPT !.acc = <<>>, !.unb = <<>>] = [t EXCEPT !.acc = <<>>, !.unb = <<>>]
    <2> DEFINE o == [s EXCEPT !.acc = <<>>, !.unb = <<>>]
               p == [t EXCEPT !.acc = <<>>, !.unb = <<>>]
    <2>1. DOMAIN s = Fields /\ DOMAIN t = Fields /\ SameRest(s, t)
      BY DEF Alike
    <2>2. /\ o = [f \in Fields |-> IF f \in {"acc", "unb"} THEN <<>> ELSE s[f]]
          /\ p = [f \in Fields |-> IF f \in {"acc", "unb"} THEN <<>> ELSE t[f]]
      BY <2>1 DEF Fields
    <2> HIDE DEF o, p
    <2>3. \A f \in Fields \ {"acc", "unb"} : s[f] = t[f]
      BY <2>1 DEF SameRest, Fields
    <2>4. o = p
      BY <2>2, <2>3
    <2> QED BY <2>4 DEF o, p
  <1> QED BY <1>1, <1>2, <1>3 DEF SameLedger

(* Commit *)
LEMMA AlikeCommit ==
    ASSUME NEW s, NEW t, Alike(s, t)
    PROVE  Alike(Commit(s), Commit(t))
  <1> DEFINE o == Commit(s)
             p == Commit(t)
  <1>1. DOMAIN s = Fields /\ DOMAIN t = Fields /\ SameRest(s, t)
    BY DEF Alike
  <1>2. /\ DOMAIN o = Fields /\ DOMAIN p = Fields /\ SameRest(o, p)
        /\ o.acc = s.acc /\ p.acc = t.acc /\ o.unb = s.unb /\ p.unb = t.unb
    BY <1>1 DEF Commit, Fields, SameRest
  <1> HIDE DEF o, p
  <1>3. Alike(o, p)
    BY <1>2 DEF Alike, At
  <1> QED BY <1>3 DEF o, p

(* Every block, replayed in the state before it. *)
LEMMA ReplayStep ==
    ASSUME Inv, Next, NEW other
    PROVE  LET r == Replay(ledger, block', other)
           IN  r.ok = TRUE /\ SameLedger(Commit(r.s), ledger')
  <1>0. PICK d \in Advances(scene), c \in Conduct(scene), body \in Bodies :
             \E proposer, dir : Produce(proposer, Clock(d), c, body, dir)
    BY DEF Next
  <1>1. PICK proposer, dir : Produce(proposer, Clock(d), c, body, dir)
    BY <1>0
  <1> DEFINE time == Clock(d)
             b == [txs |-> body, evidence |-> c.evidence, absent |-> c.absent,
                   proposer |-> proposer, time |-> time]
             e == Execute(ledger, b, Order(dir))
             r == Replay(ledger, block', other)
  <1>2. Shape(ledger) /\ IdsUsed(ledger) /\ scene \in Scenes /\ block.time \in Nat
    BY DEF Inv
  <1>3. time \in Nat
    <2>1. d \in Int
      BY <1>2, BlocksTyped
    <2> QED BY <1>2, <2>1 DEF Clock
  <1>4. ledger' = Commit(e.s) /\ block' = [b EXCEPT !.txs = e.applied]
    BY <1>1 DEF Produce
  <1>5. BlockOK(b)
    <2>1. PICK n \in Nat : /\ DOMAIN body = 1..n
                           /\ \A i \in 1..n : Decoded(body[i]) /\ ValidateBasic(body[i])
      BY BodiesOK
    <2>2. c.evidence \in Seq([voter : Nat, height : Nat]) /\ c.absent \in Seq(Nat)
      BY <1>2, BlocksTyped
    <2>3. /\ b.txs = body /\ b.time = time
          /\ b.evidence = c.evidence /\ b.absent = c.absent
      OBVIOUS
    <2> HIDE DEF b, time
    <2> QED BY ZenonT(40), <1>3, <2>1, <2>2, <2>3 DEF BlockOK
  <1>6. Params.MinValidatorStake > 0
    BY <1>2, DocumentsValid DEF ValidGenesis
  <1>7. /\ block'.time = b.time /\ block'.evidence = b.evidence /\ block'.absent = b.absent
        /\ block'.proposer = b.proposer /\ block'.txs = e.applied
    <2> HIDE DEF e, time
    <2> QED BY <1>4
  <1>8. OrderOK(Order(dir)) /\ OrderOK(Order(other))
    BY OrdersOK
  <1>9. r = Execute(ledger, block', Order(other))
    BY DEF Replay
  <1>10. r.ok = TRUE /\ Alike(e.s, r.s)
    <2> DEFINE x == block'
    <2>1. /\ x.time = b.time /\ x.evidence = b.evidence /\ x.absent = b.absent
          /\ x.proposer = b.proposer /\ x.txs = Execute(ledger, b, Order(dir)).applied
      BY <1>7
    <2>2. r = Execute(ledger, x, Order(other))
      BY <1>9
    <2> HIDE DEF x, b, r
    <2> QED BY <1>2, <1>5, <1>6, <1>8, <2>1, <2>2, AlikeExecute
  <1> HIDE DEF e, r
  <1>11. SameLedger(Commit(r.s), Commit(e.s))
    BY <1>10, AlikeBack, AlikeCommit, AlikeSame
  <1> QED BY <1>4, <1>10, <1>11 DEF r

(* What a proposer kept, a strict replay accepts, and it leads to the same *)
(* ledger, whatever the order of the follower's maps: on every chain.      *)
THEOREM ReplaysAgree == Spec => ReplayAgrees
  <1> DEFINE Agrees == \A dir \in {"up", "down"} :
                          LET r == Replay(ledger, block', dir)
                          IN  r.ok /\ SameLedger(Commit(r.s), ledger')
  <1>1. Inv /\ [Next]_vars => [Agrees]_vars
    BY ReplayStep
  <1> QED BY <1>1, ChainInvariant, PTL DEF Spec, ReplayAgrees
=============================================================================
