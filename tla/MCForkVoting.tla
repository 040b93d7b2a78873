---------------------------- MODULE MCForkVoting ----------------------------
(* Seven voters of equal power, two of them Byzantine: any five of them    *)
(* are more than two thirds.                                               *)
EXTENDS ForkVoting, Naturals, FiniteSets, TLC

CONSTANTS n1, n2, n3, n4, n5, b1, b2, x, y

MCQuorums == {Q \in SUBSET Voters : Cardinality(Q) >= 5}
MCSymmetry == Permutations({n1, n2, n3, n4, n5}) \cup Permutations({x, y})
=============================================================================
