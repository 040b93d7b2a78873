------------------------------- MODULE Staking -------------------------------
(***************************************************************************)
(* Stakes, delegations, the unbonding queue, slashing, jail and the reward *)
(* of a block (internal/state/state.go).                                   *)
(***************************************************************************)
EXTENDS LedgerState

(* The order in which Go walks a map is any order; the two named here are  *)
(* enough to tell a list that depends on it from one that does not.        *)
MapOrders(S) == {InOrder(S), Reverse(InOrder(S))}

(***************************************************************************)
(* releaseUnbondedLocked: what has matured at the time of the block.       *)
(***************************************************************************)
ReleaseUnbonded(s, time) ==
    FoldLeft(LAMBDA t, u : IF u.at <= time THEN Credit(t, u.addr, Native, u.amt)
                           ELSE [t EXCEPT !.unb = Append(@, u)],
             [s EXCEPT !.unb = <<>>], s.unb)

Unbond(s, a, x, time) ==
    [s EXCEPT !.unb = Append(@, Entry(a, x, time + Params.UnbondingMs))]

(* A validator that leaves: its delegations start to unbond, in order. *)
Leave(s, v, order, time) ==
    LET out == FoldLeft(LAMBDA t, a : Unbond(t, a, s.val[v].delegators[a], time),
                        s, order)
    IN  [out EXCEPT !.val = Without(@, v)]

(***************************************************************************)
(* slashWeightLocked: the same share of the stake and of every delegation  *)
(* is burned, each rounded down on its own.  First a form that rounds the  *)
(* total of the delegations down as well.                                  *)
(***************************************************************************)
SlashWeightOfTotal(s, v, bps) ==
    LET w    == s.val[v]
        cut  == Bps(w.stake, bps)
        dcut == Bps(w.delegated, bps)
    IN  [BurnSupply(s, cut + dcut) EXCEPT
            !.acc = Put(@, v, [@[v] EXCEPT !.staked = @ - cut]),
            !.val[v].stake = Minus(@, cut),
            !.val[v].delegated = Minus(@, dcut),
            !.val[v].delegators = [a \in DOMAIN @ |-> Minus(@[a], Bps(@[a], bps))]]

SlashWeight(s, v, bps) ==
    LET w    == s.val[v]
        cut  == Bps(w.stake, bps)
        dcut == [a \in DOMAIN w.delegators |-> Bps(w.delegators[a], bps)]
        left == IF s.acc[v].staked >= cut THEN s.acc[v].staked - cut ELSE 0
        acc  == IF v \in DOMAIN s.acc THEN [s.acc EXCEPT ![v].staked = left] ELSE s.acc
    IN  [BurnSupply(s, cut + SumFunction(dcut)) EXCEPT
            !.acc = acc,
            !.val[v].stake = Minus(@, cut),
            !.val[v].delegated = Minus(@, SumFunction(dcut)),
            !.val[v].delegators = [a \in DOMAIN @ |-> Minus(@[a], dcut[a])]]

(* slashLocked: once per fault; a validator left without a stake is out,   *)
(* its delegations unbonding in the order of a map.                        *)
Slash(s, fault, order, time) ==
    LET v      == fault.voter
        marked == [s EXCEPT !.slashed = @ \cup {fault}]
        cut    == SlashWeight(marked, v, Params.SlashDoubleSignBps)
    IN  IF fault \in s.slashed THEN s
        ELSE IF v \notin DOMAIN s.val THEN marked
        ELSE IF cut.val[v].stake = 0 THEN Leave(cut, v, order, time) ELSE cut

(* applyDowntimeLocked, for one skipped proposer. *)
Miss(s, v, time) ==
    LET missed == s.val[v].missed + 1
        cut    == SlashWeight(s, v, Params.SlashDowntimeBps)
    IN  IF v \notin DOMAIN s.val \/ s.val[v].jailed THEN s
        ELSE IF missed < Params.DowntimeJailThreshold
        THEN [s EXCEPT !.val[v].missed = missed]
        ELSE [cut EXCEPT !.val[v].jailed = TRUE,
                         !.val[v].until  = time + Params.JailMs,
                         !.val[v].missed = 0]

ApplyDowntime(s, proposer, absent, time) ==
    LET produced == IF proposer \in DOMAIN s.val
                    THEN [s EXCEPT !.val[proposer].missed = 0] ELSE s
    IN  FoldLeft(LAMBDA t, v : Miss(t, v, time), produced, absent)

(***************************************************************************)
(* distributeRewardLocked: the delegators' part goes out in proportion,    *)
(* less the commission; the proposer keeps the rest, dust included.        *)
(***************************************************************************)
DistributeReward(s, proposer, reward) ==
    LET w          == s.val[proposer]
        delegShare == MulDiv(reward, w.delegated, Weight(w))
        commission == Bps(delegShare, Params.DelegationCommissionBps)
        shares     == [a \in DOMAIN w.delegators |->
                          MulDiv(delegShare - commission, w.delegators[a], w.delegated)]
        own        == reward - SumFunction(shares)
        paid       == FoldLeft(LAMBDA t, a : Credit(t, a, Native, shares[a]), s,
                               InOrder(DOMAIN shares))
    IN  IF reward = 0 THEN s
        ELSE IF proposer \notin DOMAIN s.val \/ s.val[proposer].delegated = 0
        THEN Mint(s, proposer, reward)
        ELSE MintSupply(Credit(paid, proposer, Native, own), reward)

(***************************************************************************)
(* The transactions of validators and delegators: what applyTx demands of  *)
(* each beyond its fees, and what it does.                                 *)
(***************************************************************************)
StakeOf(s, a) == IF a \in DOMAIN s.val THEN s.val[a].stake ELSE 0

Delegation(s, v, a) ==
    IF a \in DOMAIN s.val[v].delegators THEN s.val[v].delegators[a] ELSE 0

(* What is left must be nothing or enough. *)
KeepsMinimum(left, least) == left = 0 \/ left >= least

StakingAllowed(s, tx, time) ==
    CASE tx.type = "stake" ->
            Plus(StakeOf(s, tx.from), tx.amount) >= Params.MinValidatorStake
      [] tx.type = "unstake" ->
            /\ tx.from \in DOMAIN s.val
            /\ s.acc[tx.from].staked >= tx.amount
            /\ KeepsMinimum(Minus(s.val[tx.from].stake, tx.amount),
                            Params.MinValidatorStake)
      [] tx.type = "unjail" ->
            /\ tx.from \in DOMAIN s.val
            /\ s.val[tx.from].jailed
            /\ time >= s.val[tx.from].until
      [] tx.type = "delegate" ->
            /\ tx.to \in DOMAIN s.val
            /\ Plus(Delegation(s, tx.to, tx.from), tx.amount) >= Params.MinDelegation
      [] tx.type = "undelegate" ->
            /\ tx.to \in DOMAIN s.val
            /\ Delegation(s, tx.to, tx.from) >= tx.amount
            /\ KeepsMinimum(Delegation(s, tx.to, tx.from) - tx.amount,
                            Params.MinDelegation)
      [] tx.type = "validator_profile" -> tx.from \in DOMAIN s.val

Stake(s, tx) ==
    LET v == IF tx.from \in DOMAIN s.val THEN s.val[tx.from] ELSE NewValidator
    IN  [Debit(s, tx.from, Native, tx.amount) EXCEPT
            !.acc[tx.from].staked = Plus(@, tx.amount),
            !.val = Put(@, tx.from, [v EXCEPT !.stake = Plus(@, tx.amount)])]

Unstake(s, tx, time) ==
    LET left == Minus(s.val[tx.from].stake, tx.amount)
        out  == [Unbond(s, tx.from, tx.amount, time) EXCEPT
                    !.acc[tx.from].staked = Minus(@, tx.amount),
                    !.val[tx.from].stake = left]
    IN  IF left # 0 THEN out
        ELSE Leave(out, tx.from, InOrder(DOMAIN s.val[tx.from].delegators), time)

Unjail(s, tx) ==
    [s EXCEPT !.val[tx.from].jailed = FALSE, !.val[tx.from].missed = 0]

Delegate(s, tx) ==
    [Debit(s, tx.from, Native, tx.amount) EXCEPT
        !.val[tx.to].delegators =
            Put(@, tx.from, Plus(Delegation(s, tx.to, tx.from), tx.amount)),
        !.val[tx.to].delegated = Plus(@, tx.amount)]

Undelegate(s, tx, time) ==
    LET left == Delegation(s, tx.to, tx.from) - tx.amount
    IN  [Unbond(s, tx.from, tx.amount, time) EXCEPT
            !.val[tx.to].delegated = Minus(@, tx.amount),
            !.val[tx.to].delegators = IF left = 0 THEN Without(@, tx.from)
                                      ELSE [@ EXCEPT ![tx.from] = left]]

(* A profile is a text the explorer shows: its content is left out. *)
StakingEffect(s, tx, time) ==
    CASE tx.type = "stake"      -> Stake(s, tx)
      [] tx.type = "unstake"    -> Unstake(s, tx, time)
      [] tx.type = "unjail"     -> Unjail(s, tx)
      [] tx.type = "delegate"   -> Delegate(s, tx)
      [] tx.type = "undelegate" -> Undelegate(s, tx, time)
      [] tx.type = "validator_profile" -> s
=============================================================================
