------------------------------- MODULE Mempool --------------------------------
(***************************************************************************)
(* The queue of pending transactions (internal/mempool/mempool.go).  A     *)
(* transaction is a record with from, nonce, tip and good: whether the     *)
(* ledger lets it through when its turn comes.  A pool is the set of them. *)
(***************************************************************************)
EXTENDS Integers, Sequences, FiniteSets, SequencesExt

CONSTANTS PoolMax,      \* MempoolMax
          BlockMax      \* params.MaxBlockTxs

(* First a form with the comparison of the code (>=) off by one. *)
FullLate(pool) == Cardinality(pool) > PoolMax

Full(pool) == Cardinality(pool) >= PoolMax

(* Add: known transactions and a full pool change nothing. *)
Add(pool, tx) == IF tx \in pool \/ Full(pool) THEN pool ELSE pool \cup {tx}


IsNew(pool, tx) == tx \notin pool /\ ~Full(pool)

Senders(pool) == {tx.from : tx \in pool}

Nonces(pool, a) == {tx.nonce : tx \in {t \in pool : t.from = a}}

(* How many transactions of an account follow its nonce without a hole. *)
RunLength(pool, a, base) ==
    CHOOSE k \in 0..Cardinality(pool) :
        /\ \A i \in 0..(k-1) : base + i \in Nonces(pool, a)
        /\ base + k \notin Nonces(pool, a)

(* The chains of an account: of two transactions with one nonce the sort   *)
(* puts either first.                                                      *)
Chains(pool, a, base) ==
    {c \in [1..RunLength(pool, a, base) -> {t \in pool : t.from = a}] :
        \A i \in DOMAIN c : c[i].nonce = base + i - 1}

(* Accounts are served by the tip of their first transaction, best first.  *)
Serves(c, d) == \/ c[1].tip > d[1].tip
                \/ c[1].tip = d[1].tip /\ c[1].from < d[1].from

(* The chain that each account with one may have ... *)
Picks(pool, base) ==
    LET ready == {a \in Senders(pool) : RunLength(pool, a, base[a]) > 0}
    IN  {p \in [ready -> UNION {Chains(pool, a, base[a]) : a \in ready}] :
            \A a \in ready : p[a] \in Chains(pool, a, base[a])}

(* ... and the order in which they are served. *)
Served(p) ==
    {o \in SetToSeqs(DOMAIN p) : \A i, j \in DOMAIN o : i < j => Serves(p[o[i]], p[o[j]])}

Queue(p, o) == FlattenSeq([i \in DOMAIN o |-> p[o[i]]])

Cut(q, max) == SubSeq(q, 1, IF Len(q) > max THEN max ELSE Len(q))

(* Take: what it may return, at most BlockMax of them. *)
TakeUpTo(pool, base, max) ==
    UNION {{Cut(Queue(p, o), max) : o \in Served(p)} : p \in Picks(pool, base)}

Take(pool, base) == TakeUpTo(pool, base, BlockMax)
=============================================================================
