------------------------------ MODULE VotePool ------------------------------
(***************************************************************************)
(* The vote pool of one node (internal/consensus/finality.go).             *)
(*                                                                         *)
(* A block is identified with the chain that ends in it (a collision-free  *)
(* hash commits to every ancestor), so the height a vote speaks about is   *)
(* the length of its block.  The three Go maps become three sets:          *)
(*   votes[h][kind][hash][voter] : the latest vote of a voter for a block, *)
(*   first[h][kind@round][voter] : the first vote of a voter in a slot,    *)
(*   seen[hash]                  : every vote ever accepted.               *)
(***************************************************************************)
EXTENDS Naturals, Sequences, FiniteSets

Kinds == {"prevote", "precommit"}

Height(v) == Len(v.block)

EmptyPool == [votes |-> {}, first |-> {}, seen |-> {}]

(* rkKey: the slot in which a voter may sign one hash only. *)
SameSlot(v, w) ==
    /\ v.voter = w.voter
    /\ v.kind = w.kind
    /\ v.round = w.round
    /\ Height(v) = Height(w)

(* The earlier vote that v equivocates with, if the pool keeps one. *)
Conflicting(pool, v) == {w \in pool.first : SameSlot(v, w) /\ w.block # v.block}

(* add: a duplicate changes nothing; otherwise the vote is indexed, and it *)
(* replaces the voter's previous vote for the same block and kind even     *)
(* when that one was cast in another round.                                *)
Add(pool, v) ==
    IF v \in pool.seen THEN pool
    ELSE [votes |-> {w \in pool.votes : ~(/\ w.voter = v.voter
                                          /\ w.kind = v.kind
                                          /\ w.block = v.block)} \cup {v},
          first |-> IF \E w \in pool.first : SameSlot(v, w)
                    THEN pool.first ELSE pool.first \cup {v},
          seen  |-> pool.seen \cup {v}]

(* prevoters: who prevoted for block b in round r. *)
Prevoters(pool, r, b) ==
    {v.voter : v \in {w \in pool.votes :
                         w.kind = "prevote" /\ w.round = r /\ w.block = b}}

(* commitVotes: who precommitted block b, in whatever round. *)
Precommitters(pool, b) ==
    {v.voter : v \in {w \in pool.votes : w.kind = "precommit" /\ w.block = b}}

(* prune: heights up to upTo are forgotten, except by seen. *)
Prune(pool, upTo) ==
    [pool EXCEPT !.votes = {v \in @ : Height(v) > upTo},
                 !.first = {v \in @ : Height(v) > upTo}]
=============================================================================
