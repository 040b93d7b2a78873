---------------------------- MODULE ValidatorSet ----------------------------
(***************************************************************************)
(* The part of the ledger the consensus engine depends on                  *)
(* (internal/state/state.go): the voting powers, the proposer they elect,  *)
(* and what executing a block does to them.  A validator is its weight     *)
(* (own stake and delegations together), its missed proposer slots and     *)
(* whether it is jailed.                                                   *)
(***************************************************************************)
EXTENDS Naturals, Sequences, FiniteSets, FiniteSetsExt, Functions

CONSTANTS
    Validators,             \* every address that may ever be a validator
    Order,                  \* the same addresses, sorted
    Draw(_,_),              \* first bytes of the hash of (parent, height, round)
    NoProposer,             \* the empty address
    SlashDoubleSignBps,     \* basis points burnt by a double signature
    SlashDowntimeBps,       \* basis points burnt when jailed
    DowntimeJailThreshold   \* missed slots before the jail

ValidatorStates == [weight : Nat, missed : Nat, jailed : BOOLEAN]
Ledgers == [Validators -> ValidatorStates]

(* activeWeight *)
ActiveWeight(vals, v) == IF vals[v].jailed THEN 0 ELSE vals[v].weight

(* SnapshotActiveSet: an immutable copy of the active powers. *)
SnapshotActiveSet(vals) == [v \in Validators |-> ActiveWeight(vals, v)]

Power(set, voters) == SumFunctionOnSet(set, voters)

(* hasQuorum: strictly more than two thirds of a non-zero total. *)
HasQuorum(set, voters) ==
    /\ Power(set, Validators) > 0
    /\ Power(set, voters) * 3 > Power(set, Validators) * 2

(* SelectProposer: the owner of the drawn unit of power, the units being   *)
(* laid out in address order.                                              *)
SelectProposer(vals, chain, r) ==
    LET set   == SnapshotActiveSet(vals)
        total == Power(set, Validators)
        UpTo(i) == Power(set, {Order[j] : j \in 1 .. i})
    IN  IF total = 0 THEN NoProposer
        ELSE Order[CHOOSE i \in 1 .. Len(Order) :
                      /\ Draw(chain, r) % total < UpTo(i)
                      /\ Draw(chain, r) % total >= UpTo(i - 1)]

(* absentProposers: who was elected in the rounds skipped before round r. *)
AbsentProposers(vals, chain, r, proposer) ==
    {SelectProposer(vals, chain, k) : k \in 0 .. (r - 1)} \ {NoProposer, proposer}

(* Mutant: the penalty is an absolute amount. *)
CutAbsolute(weight, bps) == weight - bps

Cut(weight, bps) == weight - (weight * bps) \div 10000

(* slashLocked, for a fault that no earlier block punished. *)
Slash(fault, vals) ==
    [vals EXCEPT ![fault.voter].weight = Cut(@, SlashDoubleSignBps)]

(* applyDowntimeLocked: the proposer starts counting again, an absent one  *)
(* misses a slot and is jailed and slashed at the threshold.               *)
ApplyDowntime(vals, proposer, absent) ==
    [v \in Validators |->
        IF v = proposer THEN [vals[v] EXCEPT !.missed = 0]
        ELSE IF v \notin absent \/ vals[v].jailed THEN vals[v]
        ELSE IF vals[v].missed + 1 < DowntimeJailThreshold
             THEN [vals[v] EXCEPT !.missed = @ + 1]
             ELSE [weight |-> Cut(vals[v].weight, SlashDowntimeBps),
                   missed |-> 0, jailed |-> TRUE]]

(* Execute: the new faults are punished first, then absences are counted.  *)
(* The faults commute, so a fold over their set stands for the loop.       *)
Execute(vals, newFaults, proposer, absent) ==
    ApplyDowntime(FoldSet(Slash, vals, newFaults), proposer, absent)
=============================================================================
