---------------------------- MODULE ShieldedPool ----------------------------
(***************************************************************************)
(* The shielded pool of the ledger (internal/state/state.go).  A note is a *)
(* record [id, value]; its commitment hides it and is modelled by the note *)
(* itself, its nullifier by its id, and the Merkle root of the pool by the *)
(* list of commitments.  The proof system is modelled by what an accepted  *)
(* proof asserts (TrueStatement).  Nothing ties a deposit to the value its *)
(* commitment hides.                                                       *)
(***************************************************************************)
EXTENDS LedgerState

CONSTANTS PrivacyEnabled,   \* params.PrivacyEnabled
          Capacity,         \* 2^stark.SpendDepth(): the leaves of the tree
          FieldOrder        \* of the field the circuit computes in

NoteIds(notes) == [i \in 1..Len(notes) |-> notes[i].id]

Values(notes) == SumFunction([i \in DOMAIN notes |-> notes[i].value])

(* What VerifySpendN accepts: every input is in the tree of that root, and *)
(* inputs and outputs balance up to the public amount, in the field.  It   *)
(* does not say that the inputs differ, or that the sums do not wrap.      *)
TrueStatement(tx) ==
    /\ Range(tx.spend.ins) \subseteq Range(tx.spend.root)
    /\ (Values(tx.spend.outs) + tx.spend.fee - Values(tx.spend.ins)) % FieldOrder = 0

Nullifiers(tx) == NoteIds(tx.spend.ins)

Fits(s, notes) == Len(s.pool.cms) + Len(notes) <= Capacity

(* verifySpendLocked without the check that the nullifiers differ, and     *)
(* with it.                                                                *)
SpendAcceptedTwice(s, tx) ==
    /\ s.pool.open /\ s.pool.cms # <<>>
    /\ TrueStatement(tx)
    /\ tx.spend.root = s.pool.cms
    /\ Range(Nullifiers(tx)) \cap s.pool.nfs = {}

SpendAccepted(s, tx) ==
    /\ s.pool.open /\ s.pool.cms # <<>>
    /\ TrueStatement(tx)
    /\ tx.spend.root = s.pool.cms
    /\ Range(Nullifiers(tx)) \cap s.pool.nfs = {}
    /\ IsInjective(Nullifiers(tx))

ShieldedAllowed(s, tx) ==
    /\ PrivacyEnabled
    /\ IF tx.type = "shield" THEN Fits(s, <<tx.note>>)
       ELSE /\ SpendAccepted(s, tx)
            /\ s.pool.bal >= tx.spend.fee
            /\ Fits(s, tx.spend.outs)

(* A deposit into a pool that nobody opened. *)
ShieldUnopened(s, tx) ==
    [Debit(s, tx.from, Native, tx.amount) EXCEPT
        !.pool.bal  = Plus(@, tx.amount),
        !.pool.cms  = Append(@, tx.note)]

(* The pool opens with its first note. *)
Shield(s, tx) ==
    [Debit(s, tx.from, Native, tx.amount) EXCEPT
        !.pool.open = TRUE,
        !.pool.bal  = Plus(@, tx.amount),
        !.pool.cms  = Append(@, tx.note)]

(* Both spends insert their outputs and retire their inputs; the public    *)
(* amount leaves the pool, to the fire or to an account.                   *)
Spend(s, tx) ==
    [s EXCEPT !.pool.nfs = @ \cup Range(Nullifiers(tx)),
              !.pool.cms = @ \o tx.spend.outs,
              !.pool.bal = Minus(@, tx.spend.fee)]

ShieldedTransfer(s, tx) == BurnSupply(Spend(s, tx), tx.spend.fee)

Unshield(s, tx) == Credit(Spend(s, tx), tx.to, Native, tx.spend.fee)

ShieldedEffect(s, tx) ==
    CASE tx.type = "shield"            -> Shield(s, tx)
      [] tx.type = "shielded_transfer" -> ShieldedTransfer(s, tx)
      [] tx.type = "unshield"          -> Unshield(s, tx)

(* The notes that can still be spent. *)
Unspent(s) == {n \in Range(s.pool.cms) : n.id \notin s.pool.nfs}
=============================================================================
