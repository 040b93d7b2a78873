------------------------ MODULE ConsensusRefinement ------------------------
(***************************************************************************)
(* The engines of module Consensus implement ForkVoting around every fork. *)
(* ForkPoint is any block; its children are the siblings.  The history     *)
(* variables are those of ForkVoting: which child each voter followed,     *)
(* that is, committed to its state, and which it voted for.  The engine    *)
(* itself forgets both when it prunes or restarts.                         *)
(***************************************************************************)
EXTENDS Consensus

CONSTANTS
    ForkPoint,      \* the block that forks
    SiblingHeaders, \* headers of its children
    PowerSets,      \* the validator sets in force on the explored chains
    NoChild         \* "none of its children"

Siblings == {Append(ForkPoint, hd) : hd \in SiblingHeaders}

ASSUME ForkAssumption ==
    /\ ForkPoint \in Chains
    /\ SiblingHeaders \subseteq Headers
    /\ PowerSets \subseteq [Validators -> Nat]
    /\ NoChild \notin Chains

VARIABLES first, switched, prevotes, precommits

history == <<first, switched, prevotes, precommits>>

(* The child of ForkPoint through which chain c goes. *)
ChildOn(c) ==
    IF Len(c) > Len(ForkPoint) /\ OnBranch(ForkPoint, c)
    THEN SubSeq(c, 1, Len(ForkPoint) + 1) ELSE NoChild

HInit ==
    /\ Init
    /\ first = [n \in Keyed |-> NoChild]
    /\ switched = [n \in Keyed |-> {}]
    /\ prevotes = [n \in Keyed |-> {}]
    /\ precommits = [n \in Keyed |-> {}]

(* What a voter follows after the step and did not follow before it. *)
RecordFollowed ==
    /\ first' = [n \in Keyed |->
          IF first[n] = NoChild THEN ChildOn(eng'[n].st.chain) ELSE first[n]]
    /\ switched' = [n \in Keyed |->
          IF first[n] = NoChild THEN {}
          ELSE switched[n] \cup
               ({ChildOn(eng'[n].st.chain)} \ {NoChild, ChildOn(eng[n].st.chain)})]

(* Prevotes count for the sibling itself, precommits for its branch. *)
RecordVotes ==
    LET new(n, kind) == {v \in sent' \ sent : v.voter = n /\ v.kind = kind}
    IN  /\ prevotes' = [n \in Keyed |-> prevotes[n] \cup
              {v.block : v \in {w \in new(n, "prevote") : ChildOn(w.block) = w.block}}]
        /\ precommits' = [n \in Keyed |-> precommits[n] \cup
              ({ChildOn(v.block) : v \in new(n, "precommit")} \ {NoChild})]

HNext == Next /\ RecordFollowed /\ RecordVotes

HSpec == HInit /\ [][HNext]_<<vars, history>>

-----------------------------------------------------------------------------
(* What is a quorum by any of those sets: a node may judge the votes of a  *)
(* height by a set it froze on another branch (frozen_set).                *)
Quorums == {Q \in SUBSET Validators : \E set \in PowerSets : HasQuorum(set, Q)}

Fork == INSTANCE ForkVoting WITH
    Voters <- Validators, Byzantine <- Validators \ Keyed, None <- NoChild

(* Every step of the network is a step of the voting around the fork, or   *)
(* none: nodes leave the child they followed only for one with a polka.    *)
ImplementsForkVoting == Fork!Spec
=============================================================================
