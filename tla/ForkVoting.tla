----------------------------- MODULE ForkVoting -----------------------------
(***************************************************************************)
(* What the votes around one fork promise, abstractly.                     *)
(*                                                                         *)
(* Siblings are the valid children of one block.  Whoever is not Byzantine *)
(* follows one of them, prevotes and precommits only blocks of the branch  *)
(* it has followed, and leaves its first choice for another sibling only   *)
(* once that sibling has a polka: prevotes by a quorum.  This is the rule  *)
(* that castVoteKind (lock) and tryReorgLocked (fork choice) of            *)
(* internal/consensus/engine.go implement; rounds, heights, pools and      *)
(* pruning are gone.  Module ConsensusRefinement shows that the engines of *)
(* module Consensus follow it.                                             *)
(***************************************************************************)
CONSTANTS Voters, Byzantine, Quorums, Siblings, None

(* More than two thirds of the power twice, less than one third Byzantine: *)
(* two quorums share a voter that follows the rule.                        *)
ASSUME QuorumAssumption ==
    /\ Byzantine \subseteq Voters
    /\ Quorums \subseteq SUBSET Voters
    /\ \A P, Q \in Quorums : \E n \in P \cap Q : n \notin Byzantine
    /\ None \notin Siblings

Honest == Voters \ Byzantine

VARIABLES
    first,      \* the sibling each honest voter followed first
    switched,   \* the siblings it followed afterwards
    prevotes,   \* the siblings it prevoted
    precommits  \* the siblings it precommitted, itself or by a descendant

vars == <<first, switched, prevotes, precommits>>

TypeOK ==
    /\ first \in [Honest -> Siblings \cup {None}]
    /\ switched \in [Honest -> SUBSET Siblings]
    /\ prevotes \in [Honest -> SUBSET Siblings]
    /\ precommits \in [Honest -> SUBSET Siblings]

Init ==
    /\ first = [n \in Honest |-> None]
    /\ switched = [n \in Honest |-> {}]
    /\ prevotes = [n \in Honest |-> {}]
    /\ precommits = [n \in Honest |-> {}]

Followed(n) == ({first[n]} \cup switched[n]) \ {None}

(* A Byzantine voter votes for everything, so it belongs to every quorum. *)
Backed(votes, k) == \E Q \in Quorums : \A n \in Q \ Byzantine : k \in votes[n]

Polka(k) == Backed(prevotes, k)

(* The tip the voter extends is the parent: its first child is free. *)
Adopt(n, k) ==
    /\ first[n] = None
    /\ first' = [first EXCEPT ![n] = k]
    /\ UNCHANGED switched

(* Mutant: any sibling that one honest voter prevoted is enough. *)
SwitchOnPrevote(n, k) ==
    /\ first[n] # None
    /\ \E m \in Honest : k \in prevotes[m]
    /\ switched' = [switched EXCEPT ![n] = @ \cup {k}]
    /\ UNCHANGED first

(* The voter already followed a sibling: only a polka moves it. *)
Switch(n, k) ==
    /\ first[n] # None
    /\ Polka(k)
    /\ switched' = [switched EXCEPT ![n] = @ \cup {k}]
    /\ UNCHANGED first

Stay == UNCHANGED <<first, switched>>

(* With or after that move it votes for what it has followed; votes are    *)
(* never taken back.                                                       *)
CastVotes(n) ==
    LET more(votes) ==
            {[votes EXCEPT ![n] = @ \cup K] : K \in SUBSET (Followed(n)')}
    IN  prevotes' \in more(prevotes) /\ precommits' \in more(precommits)

Next ==
    \E n \in Honest :
        /\ \/ Stay
           \/ \E k \in Siblings : Adopt(n, k)
           \/ \E k \in Siblings : Switch(n, k)
        /\ CastVotes(n)

Spec == Init /\ [][Next]_vars

-----------------------------------------------------------------------------
(* At most one sibling of a fork ever gets a polka, so that two nodes that *)
(* reorganise never cross each other.                                      *)
UniquePolka == \A j, k \in Siblings : Polka(j) /\ Polka(k) => j = k

(* No two branches of a fork are both finalized: at most one sibling is    *)
(* precommitted, by itself or by a descendant, by a quorum.                *)
Agreement ==
    \A j, k \in Siblings : Backed(precommits, j) /\ Backed(precommits, k) => j = k

(* Why: a switch to k happens only after a quorum followed k at first      *)
(* sight, because the first polka of k cannot contain a voter that needed  *)
(* one; and nobody votes outside what it followed.                         *)
FollowedFirst(k) == \E Q \in Quorums : \A n \in Q \ Byzantine : first[n] = k

SwitchesFollowMajority ==
    \A n \in Honest : \A k \in switched[n] : FollowedFirst(k)

VotesAreFollowed ==
    \A n \in Honest : prevotes[n] \cup precommits[n] \subseteq Followed(n)

FirstBeforeSwitch == \A n \in Honest : first[n] = None => switched[n] = {}

IInv ==
    /\ TypeOK
    /\ SwitchesFollowMajority
    /\ VotesAreFollowed
    /\ FirstBeforeSwitch
=============================================================================
