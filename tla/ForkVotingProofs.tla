-------------------------- MODULE ForkVotingProofs --------------------------
(***************************************************************************)
(* Proofs about ForkVoting, for any set of voters, quorums and siblings.   *)
(* They rest on QuorumAssumption only.                                     *)
(***************************************************************************)
EXTENDS ForkVoting, TLAPS

(* A polka for k means that a quorum followed k at first sight: either no  *)
(* voter of the polka had to switch to k, or a switch came earlier.        *)
LEMMA PolkaFollowed ==
    ASSUME IInv, NEW k \in Siblings, Polka(k)
    PROVE  FollowedFirst(k)
  <1>1. PICK Q \in Quorums : \A n \in Q \ Byzantine : k \in prevotes[n]
    BY DEF Polka, Backed
  <1>2. \A n \in Q \ Byzantine : n \in Honest /\ k \in Followed(n)
    BY <1>1, QuorumAssumption DEF IInv, VotesAreFollowed, Honest
  <1>3. CASE \E n \in Q \ Byzantine : k \in switched[n]
    BY <1>2, <1>3 DEF IInv, SwitchesFollowMajority
  <1>4. CASE \A n \in Q \ Byzantine : k \notin switched[n]
    <2>1. \A n \in Q \ Byzantine : first[n] = k
      BY <1>2, <1>4 DEF Followed
    <2> QED  BY <2>1 DEF FollowedFirst
  <1> QED  BY <1>3, <1>4

(* Two siblings are not both followed first by a quorum: the quorums share *)
(* an honest voter, and it has one first choice.                           *)
LEMMA FollowedFirstUnique ==
    ASSUME NEW j \in Siblings, NEW k \in Siblings, FollowedFirst(j), FollowedFirst(k)
    PROVE  j = k
  <1>1. PICK P \in Quorums : \A n \in P \ Byzantine : first[n] = j
    BY DEF FollowedFirst
  <1>2. PICK Q \in Quorums : \A n \in Q \ Byzantine : first[n] = k
    BY DEF FollowedFirst
  <1>3. PICK n \in P \cap Q : n \notin Byzantine
    BY QuorumAssumption
  <1> QED  BY <1>1, <1>2, <1>3

(* The inductive invariant holds before anybody followed a sibling. *)
LEMMA InitInv == Init => IInv
  BY DEF Init, IInv, TypeOK, SwitchesFollowMajority, VotesAreFollowed,
         FirstBeforeSwitch, Followed

(* What a step of voter n keeps of the others, and of its own choices. *)
LEMMA MovesKeepFirst ==
    ASSUME IInv, NEW n \in Honest,
           \/ \E k \in Siblings : Adopt(n, k)
           \/ \E k \in Siblings : Switch(n, k)
           \/ Stay
    PROVE  /\ first' \in [Honest -> Siblings \cup {None}]
           /\ switched' \in [Honest -> SUBSET Siblings]
           /\ \A m \in Honest : first[m] # None => first'[m] = first[m]
           /\ \A m \in Honest : Followed(m) \subseteq Followed(m)'
           /\ \A m \in Honest : \A k \in switched'[m] : FollowedFirst(k)
           /\ \A m \in Honest : first'[m] = None => switched'[m] = {}
  <1> USE DEF IInv, TypeOK
  <1>1. CASE \E k \in Siblings : Adopt(n, k)
    <2>1. PICK k \in Siblings : Adopt(n, k)
      BY <1>1
    <2> QED  BY <2>1, QuorumAssumption
             DEF Adopt, Followed, SwitchesFollowMajority, FirstBeforeSwitch
  <1>2. CASE \E k \in Siblings : Switch(n, k)
    <2>1. PICK k \in Siblings : Switch(n, k)
      BY <1>2
    <2>2. FollowedFirst(k)
      BY <2>1, PolkaFollowed DEF Switch
    <2> QED  BY <2>1, <2>2
             DEF Switch, Followed, SwitchesFollowMajority, FirstBeforeSwitch
  <1>3. CASE Stay
    BY <1>3 DEF Stay, Followed, SwitchesFollowMajority, FirstBeforeSwitch
  <1> QED  BY <1>1, <1>2, <1>3

(* A first choice is never revised, so a majority that followed k first    *)
(* stays one.                                                              *)
LEMMA FollowedFirstStable ==
    ASSUME NEW k \in Siblings, FollowedFirst(k), None \notin Siblings,
           \A m \in Honest : first[m] # None => first'[m] = first[m]
    PROVE  FollowedFirst(k)'
  <1>1. PICK Q \in Quorums : \A n \in Q \ Byzantine : first[n] = k
    BY DEF FollowedFirst
  <1>2. \A n \in Q \ Byzantine : n \in Honest
    BY QuorumAssumption DEF Honest
  <1> QED  BY <1>1, <1>2 DEF FollowedFirst

(* Every move of a voter, and its votes, keep the inductive invariant. *)
LEMMA NextInv == IInv /\ [Next]_vars => IInv'
  <1> SUFFICES ASSUME IInv, [Next]_vars PROVE IInv'
    OBVIOUS
  <1>1. CASE UNCHANGED vars
    BY <1>1 DEF IInv, TypeOK, vars, SwitchesFollowMajority, VotesAreFollowed,
                FirstBeforeSwitch, Followed, FollowedFirst
  <1>2. CASE Next
    <2>1. PICK n \in Honest :
             /\ \/ Stay
                \/ \E k \in Siblings : Adopt(n, k)
                \/ \E k \in Siblings : Switch(n, k)
             /\ CastVotes(n)
      BY <1>2 DEF Next
    <2>2. /\ first' \in [Honest -> Siblings \cup {None}]
          /\ switched' \in [Honest -> SUBSET Siblings]
          /\ \A m \in Honest : first[m] # None => first'[m] = first[m]
          /\ \A m \in Honest : Followed(m) \subseteq Followed(m)'
          /\ \A m \in Honest : \A k \in switched'[m] : FollowedFirst(k)
          /\ \A m \in Honest : first'[m] = None => switched'[m] = {}
      BY <2>1, MovesKeepFirst
    <2>3. PICK P \in SUBSET (Followed(n)'), C \in SUBSET (Followed(n)') :
             /\ prevotes' = [prevotes EXCEPT ![n] = @ \cup P]
             /\ precommits' = [precommits EXCEPT ![n] = @ \cup C]
      BY <2>1 DEF CastVotes
    <2>4. Followed(n)' \subseteq Siblings
      BY <2>2 DEF Followed
    <2>5. TypeOK'
      BY <2>2, <2>3, <2>4 DEF IInv, TypeOK
    <2>6. VotesAreFollowed'
      BY <2>2, <2>3 DEF IInv, TypeOK, VotesAreFollowed
    <2>7. SwitchesFollowMajority'
      <3> SUFFICES ASSUME NEW m \in Honest, NEW k \in switched'[m]
                   PROVE  FollowedFirst(k)'
        BY DEF SwitchesFollowMajority
      <3>1. k \in Siblings /\ FollowedFirst(k)
        BY <2>2
      <3> QED  BY <3>1, <2>2, FollowedFirstStable, QuorumAssumption
    <2>8. FirstBeforeSwitch'
      BY <2>2 DEF FirstBeforeSwitch
    <2> QED  BY <2>5, <2>6, <2>7, <2>8 DEF IInv
  <1> QED  BY <1>1, <1>2 DEF Next

(* The inductive invariant holds in every reachable state. *)
THEOREM Invariance == Spec => []IInv
  <1> QED  BY InitInv, NextInv, PTL DEF Spec

(* castVoteKind and tryReorgLocked leave each fork at most one polka. *)
THEOREM PolkaIsUnique == Spec => []UniquePolka
  <1>1. IInv => UniquePolka
    BY PolkaFollowed, FollowedFirstUnique DEF UniquePolka
  <1> QED  BY <1>1, Invariance, PTL

(* Two precommit quorums share an honest voter that followed both          *)
(* siblings, hence switched to one of them: that one was followed first by *)
(* a quorum, and so is the other, by the same argument.                    *)
LEMMA CommitFollowed ==
    ASSUME IInv, NEW j \in Siblings, NEW k \in Siblings, j # k,
           FollowedFirst(j), Backed(precommits, k)
    PROVE  FollowedFirst(k)
  <1>1. PICK P \in Quorums : \A n \in P \ Byzantine : first[n] = j
    BY DEF FollowedFirst
  <1>2. PICK Q \in Quorums : \A n \in Q \ Byzantine : k \in precommits[n]
    BY DEF Backed
  <1>3. PICK n \in P \cap Q : n \notin Byzantine
    BY QuorumAssumption
  <1>4. n \in Honest /\ first[n] = j /\ k \in Followed(n)
    BY <1>1, <1>2, <1>3, QuorumAssumption DEF IInv, VotesAreFollowed, Honest
  <1> QED  BY <1>4 DEF Followed, IInv, SwitchesFollowMajority

(* No two branches of a fork are both finalized. *)
THEOREM AgreementHolds == Spec => []Agreement
  <1>1. ASSUME IInv PROVE Agreement
    <2> SUFFICES ASSUME NEW j \in Siblings, NEW k \in Siblings, j # k,
                        Backed(precommits, j), Backed(precommits, k)
                 PROVE  FALSE
      BY DEF Agreement
    <2>1. PICK P \in Quorums : \A n \in P \ Byzantine : j \in precommits[n]
      BY DEF Backed
    <2>2. PICK Q \in Quorums : \A n \in Q \ Byzantine : k \in precommits[n]
      BY DEF Backed
    <2>3. PICK n \in P \cap Q : n \notin Byzantine
      BY QuorumAssumption
    <2>4. n \in Honest /\ j \in Followed(n) /\ k \in Followed(n)
      BY <1>1, <2>1, <2>2, <2>3, QuorumAssumption DEF IInv, VotesAreFollowed, Honest
    <2>5. FollowedFirst(j) \/ FollowedFirst(k)
      BY <1>1, <2>4 DEF Followed, IInv, SwitchesFollowMajority
    <2>6. FollowedFirst(j) /\ FollowedFirst(k)
      BY <1>1, <2>5, CommitFollowed
    <2> QED  BY <2>6, FollowedFirstUnique
  <1> QED  BY <1>1, Invariance, PTL
=============================================================================
