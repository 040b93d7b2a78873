------------------------------ MODULE Contracts ------------------------------
(***************************************************************************)
(* The four contract templates: vesting, escrow, multisig vault and DAO    *)
(* treasury (internal/state/state.go, applyTx).  A contract holds the      *)
(* money it was created with and pays it out by its rules.                 *)
(***************************************************************************)
EXTENDS LedgerState

Proposal(to, x, proposer) ==
    [to |-> to, amount |-> x, for |-> {proposer}, against |-> {},
     executed |-> FALSE, rejected |-> FALSE]

(* What a contract still holds: nothing once it is settled. *)
Held(c) == IF c.status = "active" THEN c.amount - c.released ELSE 0

(* contract_create: the money leaves the creator and is locked. *)
CreateAllowed(s, tx) ==
    tx.contract.token # Native =>
        /\ tx.contract.token \in DOMAIN s.tok
        /\ BalanceOf(s, tx.from, tx.contract.token) >= tx.contract.amount

Create(s, tx) ==
    LET c == tx.contract
    IN  [Debit(s, tx.from, c.token, c.amount) EXCEPT
            !.ctr = Put(@, <<tx.from, tx.nonce>>,
                        [x \in DOMAIN c \cup {"creator", "released", "proposals", "status"} |->
                            CASE x = "creator"   -> tx.from
                              [] x = "released"  -> 0
                              [] x = "proposals" -> <<>>
                              [] x = "status"    -> "active"
                              [] OTHER           -> c[x]])]

Pay(s, id, to, x) == Credit(s, to, s.ctr[id].token, x)

(***************************************************************************)
(* Vesting: linear between start and end, on the clock of the blocks.      *)
(***************************************************************************)
Vested(c, time) ==
    IF time <= c.start THEN 0
    ELSE IF time >= c.end THEN c.amount
    ELSE MulDiv(c.amount, time - c.start, c.end - c.start)

Claimable(c, time) == Minus(Vested(c, time), c.released)

(* Whatever pays out part of a contract completes it with the last unit. *)
Release(s, id, to, x) ==
    LET paid == Pay(s, id, to, x)
        sum  == Plus(s.ctr[id].released, x)
    IN  [paid EXCEPT !.ctr[id].released = sum,
                     !.ctr[id].status = IF sum = s.ctr[id].amount
                                        THEN "completed" ELSE @]

Claim(s, tx, time) ==
    LET c == s.ctr[tx.id]
    IN  Release(s, tx.id, c.beneficiary, Claimable(c, time))

(***************************************************************************)
(* Escrow: one payment, to the seller or back to the creator.  A refund    *)
(* leaves the amount released as it was.                                   *)
(***************************************************************************)
ReleaseEscrow(s, tx) ==
    LET c == s.ctr[tx.id]
    IN  [Pay(s, tx.id, c.seller, c.amount) EXCEPT
            !.ctr[tx.id].released = c.amount, !.ctr[tx.id].status = "completed"]

(* A refund that leaves the contract open. *)
RefundStillActive(s, tx) == Pay(s, tx.id, s.ctr[tx.id].creator, s.ctr[tx.id].amount)

Refund(s, tx) ==
    LET c == s.ctr[tx.id]
    IN  [Pay(s, tx.id, c.creator, c.amount) EXCEPT !.ctr[tx.id].status = "refunded"]

(***************************************************************************)
(* Multisig and DAO: proposals, and what the votes on one of them decide.  *)
(***************************************************************************)
IsSigner(c, a) == a \in Range(c.signers)

Voted(p, a) == a \in p.for \cup p.against

(* maybeExecuteMultisig and the first half of maybeResolveDAO. *)
QuorumReached(c, p) == Cardinality(p.for) >= c.threshold

(* A proposal paid without looking at what is left. *)
CoveredAlways(c, p) == TRUE

Covered(c, p) == Minus(c.amount, c.released) >= p.amount

ExecuteProposal(s, id, i) ==
    LET p == s.ctr[id].proposals[i]
    IN  [Release(s, id, p.to, p.amount) EXCEPT !.ctr[id].proposals[i].executed = TRUE]

(* The quorum is out of reach: too many members voted against. *)
QuorumLost(c, p) == Minus(Len(c.signers), Cardinality(p.against)) < c.threshold

Settle(s, id, i) ==
    LET c == s.ctr[id]
        p == c.proposals[i]
    IN  IF QuorumReached(c, p)
        THEN IF Covered(c, p) THEN ExecuteProposal(s, id, i) ELSE s
        ELSE IF c.template = "dao" /\ QuorumLost(c, p)
        THEN [s EXCEPT !.ctr[id].proposals[i].rejected = TRUE]
        ELSE s

Propose(s, tx) ==
    LET filed == [s EXCEPT !.ctr[tx.id].proposals =
                      Append(@, Proposal(tx.to, tx.amount, tx.from))]
    IN  Settle(filed, tx.id, Len(filed.ctr[tx.id].proposals))

Vote(s, tx) ==
    LET side  == IF tx.action = "approve" THEN "for" ELSE "against"
        voted == [s EXCEPT !.ctr[tx.id].proposals[tx.proposal][side] = @ \cup {tx.from}]
    IN  Settle(voted, tx.id, tx.proposal)

(* What a contract_exec needs: the template has the action, and the sender *)
(* the role.                                                               *)
ExecAllowed(s, tx, time) ==
    /\ tx.id \in DOMAIN s.ctr
    /\ LET c == s.ctr[tx.id]
       IN  /\ c.status = "active"
           /\ \/ /\ c.template = "vesting" /\ tx.action = "claim"
                 /\ tx.from = c.beneficiary
                 /\ Claimable(c, time) # 0
              \/ /\ c.template = "escrow" /\ tx.action = "release"
                 /\ tx.from \in {c.creator, c.arbiter}
              \/ /\ c.template = "escrow" /\ tx.action = "refund"
                 /\ tx.from \in {c.seller, c.arbiter}
              \/ /\ c.template \in {"multisig", "dao"} /\ tx.action = "propose"
                 /\ IsSigner(c, tx.from)
                 /\ Minus(c.amount, c.released) >= tx.amount
              \/ /\ \/ c.template = "multisig" /\ tx.action = "approve"
                    \/ c.template = "dao" /\ tx.action \in {"approve", "reject"}
                 /\ IsSigner(c, tx.from)
                 /\ tx.proposal \in 1..Len(c.proposals)
                 /\ LET p == c.proposals[tx.proposal]
                    IN  ~p.executed /\ ~p.rejected /\ ~Voted(p, tx.from)

Exec(s, tx, time) ==
    CASE tx.action = "claim"   -> Claim(s, tx, time)
      [] tx.action = "release" -> ReleaseEscrow(s, tx)
      [] tx.action = "refund"  -> Refund(s, tx)
      [] tx.action = "propose" -> Propose(s, tx)
      [] tx.action \in {"approve", "reject"} -> Vote(s, tx)
=============================================================================
