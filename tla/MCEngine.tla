------------------------------ MODULE MCEngine ------------------------------
(* One engine n1 against one environment validator v1 that holds more than *)
(* two thirds of the power: every polka and every commit is possible.      *)
EXTENDS Consensus, TLC

CONSTANTS n1, v1, MaxEnvVotes, MaxForks, MaxFailures

MCOrder == <<n1, v1>>
MCGenesis == [v \in Validators |-> [weight |-> IF v = n1 THEN 1 ELSE 3,
                                    missed |-> 0, jailed |-> FALSE]]
(* n1 proposes in round 0 and v1 in round 1, at height 3 v1 in both; or v1 *)
(* everywhere.                                                             *)
MCDraw(c, r) == IF Len(c) = 2 THEN 1 ELSE r
MCEnvDraw(c, r) == 1
MCRoundsAt(h) == CASE h = 1 -> {0} [] h \in 2 .. MaxHeight -> Rounds [] OTHER -> {}
MCCommits == {{}, {v1}}
(* An engine that fails has seen no empty commit of v1 and one fork at     *)
(* most; so it stays afterwards, with prevotes of v1 only.                 *)
Committed(x) == Header(x).proposer = v1 => Header(x).commit # {}
CommittedSeen(e) ==
    /\ \A x \in e.saved \cup e.forks : Committed(x)
    /\ \A w \in e.pool.seen : Committed(w.block)
MCFails(e, k) == k < MaxFailures /\ CommittedSeen(e) /\ Cardinality(e.forks) <= 1
(* At most MaxEnvVotes votes of v1 and MaxForks concurrent blocks reach n1: *)
(* those of a round above 0, the only ones it may turn to.                 *)
MCVoteReaches(e, v, k) ==
    /\ v.voter = v1 =>
          /\ Cardinality({w \in e.pool.seen : w.voter = v1}) < MaxEnvVotes
          /\ k > 0 => v.kind = "prevote"
    /\ k > 0 => CommittedSeen(e) /\ Committed(v.block)
MCBlockReaches(e, x, k) ==
    /\ k > 0 => CommittedSeen(e) /\ Committed(x)
    /\ Len(x) <= Len(e.st.chain) =>
          /\ Round(x) > 0
          /\ Cardinality(e.forks) < (IF k > 0 THEN 1 ELSE MaxForks)
=============================================================================
