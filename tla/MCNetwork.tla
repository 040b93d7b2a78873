----------------------------- MODULE MCNetwork -----------------------------
(* Three engines and one Byzantine validator byz, of equal power: a quorum *)
(* is any three of them.  The fork is at height 2, above one first block.  *)
EXTENDS ConsensusRefinement, TLC

CONSTANTS n1, n2, n3, byz

MCOrder == <<n1, byz, n2, n3>>
MCGenesis == [v \in Validators |-> [weight |-> 1, missed |-> 0, jailed |-> FALSE]]
(* n1 proposes in round 0, byz in round 1, n2 and n3 never, so that they   *)
(* are interchangeable.                                                    *)
MCDraw(c, r) == r
MCSymmetry == Permutations({n2, n3})
MCRoundsAt(h) == CASE h = 1 -> {0} [] h = 2 -> Rounds [] OTHER -> {}
MCCommits == {{}}
(* Evidence against byz makes the two blocks byz proposes in round 1       *)
(* differ.                                                                 *)
MCEvidence == {{}, {[voter |-> byz, height |-> 2]}}
(* Only the votes and blocks that can move a node reach it: prevotes above *)
(* round 0, new blocks of byz in its own round, and concurrent blocks of a *)
(* round higher than the node's.  Each node hears byz once, and byz may    *)
(* tell every node something else.                                         *)
MCVoteReaches(e, v, k) ==
    /\ v.kind = "prevote" /\ v.round > 0
    /\ e.st.chain # <<>> /\ Parent(v.block) = ForkPoint
    /\ v.voter = byz => \A w \in e.pool.seen : w.voter # byz
MCBlockReaches(e, x, k) ==
    IF Len(x) > Len(e.st.chain) THEN Header(x).proposer = byz => Round(x) = 1
    ELSE Len(x) = 2 /\ Round(x) > Round(e.st.chain)
MCFails(e, k) == FALSE
(* The children of the fork point that the constants above allow. *)
MCSiblingHeaders ==
    [round : Rounds, proposer : Validators, commit : MCCommits,
     evidence : MCEvidence, payload : Payloads, content : {TRUE}]
(* Half of a weight of 1 is nothing, rounded down: a slash changes no power. *)
MCPowerSets == {SnapshotActiveSet(MCGenesis)}
MCForkPoint ==
    <<[round |-> 0, proposer |-> n1, commit |-> {}, evidence |-> {},
       payload |-> 0, content |-> TRUE]>>
=============================================================================
