------------------------------- MODULE Engine -------------------------------
(***************************************************************************)
(* The consensus engine of one node (internal/consensus/engine.go): every  *)
(* method that changes the engine is an operator from the engine before    *)
(* the call to the engine after it.  All of them run under Engine.mu, so   *)
(* one call is one step; module Consensus turns them into actions.         *)
(*                                                                         *)
(* Abstractions.  A block is the sequence of the headers that lead to it,  *)
(* genesis excluded, which stands for its collision-free hash.  A header   *)
(* keeps what the engine tells apart: the round, the proposer, the voters  *)
(* of LastCommit, the faults its evidence punishes, a payload that         *)
(* distinguishes otherwise equal proposals, and one bit for the checks on  *)
(* the block's own content (hash, signature, roots, transactions, replay). *)
(* Of the ledger the engine sees the chain, FinalizedHeight and the        *)
(* validators.                                                             *)
(***************************************************************************)
EXTENDS ValidatorSet, VotePool

CONSTANTS
    Nodes,      \* the validators and full nodes that run this engine
    Keyed,      \* those that hold a validator key
    Payloads,   \* contents that make two proposals differ
    MaxHeight,  \* bound: longest chain explored
    MaxRound,   \* bound: rounds are below it (MaxRounds in the code)
    GenesisSet, \* the validators bootstrapped by the genesis document
    NotFrozen   \* "no set frozen for this height"

ASSUME EngineAssumption ==
    /\ Keyed \subseteq Nodes
    /\ Nodes \subseteq Validators
    /\ MaxHeight \in Nat
    /\ MaxRound \in Nat \ {0}
    /\ GenesisSet \in Ledgers

Rounds  == 0 .. (MaxRound - 1)
Heights == 0 .. (MaxHeight + 1)
Faults  == [voter : Validators, height : Nat]
Headers == [round : Rounds, proposer : Validators, commit : SUBSET Validators,
            evidence : SUBSET Faults, payload : Payloads, content : BOOLEAN]
Chains  == Seq(Headers)
Votes   == [voter : Validators, kind : Kinds, round : Rounds, block : Chains]
States  == [chain : Chains, fin : Nat, vals : Ledgers]

Header(b) == b[Len(b)]
Parent(b) == SubSeq(b, 1, Len(b) - 1)
Round(b)  == Header(b).round

(* p is an ancestor of c, or c itself. *)
OnBranch(p, c) == Len(p) <= Len(c) /\ \A i \in 1 .. Len(p) : p[i] = c[i]

(* A node as New leaves it, on the state and the blocks it has on disk. *)
Started(st, saved) ==
    [st        |-> st,
     saved     |-> saved,
     pool      |-> EmptyPool,
     voted     |-> {},
     locked    |-> {},
     frozen    |-> [h \in Heights |-> NotFrozen],
     snapshots |-> {},
     forks     |-> {},
     evidence  |-> {}]

Genesis == [chain |-> <<>>, fin |-> 0, vals |-> GenesisSet]

(* The faults punished so far: the Slashed markers of the state. *)
Slashed(st) == UNION {st.chain[i].evidence : i \in 1 .. Len(st.chain)}

(* Execute then State.Commit: the state after b, a child of its tip. *)
AfterBlock(st, b) ==
    LET hd == Header(b)
    IN  [st EXCEPT
            !.chain = b,
            !.vals  = Execute(@, hd.evidence \ Slashed(st), hd.proposer,
                              AbsentProposers(@, st.chain, hd.round, hd.proposer))]

(***************************************************************************)
(* The frozen validator sets.                                              *)
(***************************************************************************)
(* freezeSetLocked *)
Freeze(e, h) ==
    IF e.frozen[h] = NotFrozen
    THEN [e EXCEPT !.frozen[h] = SnapshotActiveSet(e.st.vals)] ELSE e

(* setForHeight: falls back on the live state when nothing is frozen. *)
SetForHeight(e, h) ==
    IF e.frozen[h] = NotFrozen THEN SnapshotActiveSet(e.st.vals) ELSE e.frozen[h]

(* hasPolka for the round written in b. *)
HasPolka(e, b) ==
    HasQuorum(SetForHeight(e, Len(b)), Prevoters(e.pool, Round(b), b))

(* verifyCommit and the quorum test: one voter without power spoils it. *)
CommitAccepted(e, h, voters) ==
    /\ \A v \in voters : SetForHeight(e, h)[v] > 0
    /\ HasQuorum(SetForHeight(e, h), voters)

(* buildLastCommit for the tip; {} is the nil commit. *)
BuildLastCommit(e) ==
    LET voters == Precommitters(e.pool, e.st.chain)
    IN  IF e.st.chain # <<>> /\ CommitAccepted(e, Len(e.st.chain), voters)
        THEN voters ELSE {}

(***************************************************************************)
(* Casting votes.                                                          *)
(***************************************************************************)
VoteFor(n, kind, b) == [voter |-> n, kind |-> kind, round |-> Round(b), block |-> b]

(* The lock on another block of that height forbids voting b, unless a     *)
(* polka of a strictly higher round justifies the change.                  *)
LockForbids(e, b) ==
    \E l \in e.locked : /\ Len(l) = Len(b)
                        /\ l # b
                        /\ ~(Round(b) > Round(l) /\ HasPolka(e, b))

(* castVoteKind.  locked[h] keeps the block: its round is the header's. *)
CastVoteKind(e, n, kind, b) ==
    LET v == VoteFor(n, kind, b)
    IN  IF \/ n \notin Keyed
           \/ \E w \in e.voted : SameSlot(v, w)
           \/ LockForbids(e, b)
        THEN e
        ELSE [e EXCEPT !.voted  = @ \cup {v},
                       !.pool   = Add(@, v),
                       !.locked = IF kind = "precommit"
                                  THEN {l \in @ : Len(l) # Len(b)} \cup {b} ELSE @]

CastVote(e, n, b) == CastVoteKind(CastVoteKind(e, n, "prevote", b), n, "precommit", b)

(***************************************************************************)
(* Committing a block: State.Commit, the snapshot, then SetFinalized and   *)
(* the prunes when the block carries a commit of its parent, then persist. *)
(***************************************************************************)
(* Mutant: the restoration points below the finalized height stay. *)
FinalizeKeepingSnapshots(e, k) ==
    [e EXCEPT !.st.fin = IF k > @ THEN k ELSE @,
              !.pool   = Prune(@, k),
              !.voted  = {v \in @ : Height(v) > k},
              !.locked = {l \in @ : Len(l) > k},
              !.frozen = [h \in Heights |-> IF h <= k THEN NotFrozen ELSE @[h]],
              !.forks  = {b \in @ : Len(b) >= k}]

Finalize(e, k) ==
    [e EXCEPT !.st.fin    = IF k > @ THEN k ELSE @,
              !.pool      = Prune(@, k),
              !.voted     = {v \in @ : Height(v) > k},
              !.locked    = {l \in @ : Len(l) > k},
              !.frozen    = [h \in Heights |-> IF h <= k THEN NotFrozen ELSE @[h]],
              !.snapshots = {s \in @ : Len(s.chain) >= k},
              !.forks     = {b \in @ : Len(b) >= k}]

(* The snapshot is taken before SetFinalized. *)
Snapshot(e) ==
    [e EXCEPT !.snapshots =
        {s \in @ : Len(s.chain) # Len(e.st.chain)} \cup {e.st}]

CommitBlock(e, b) ==
    LET committed == Snapshot([e EXCEPT !.st = AfterBlock(@, b), !.saved = @ \cup {b}])
    IN  IF Header(b).commit = {} THEN committed
        ELSE Finalize(committed, Len(b) - 1)

(* validateBlockLocked, once the parent is known to match and the set of   *)
(* the height is frozen.                                                   *)
Valid(e, b) ==
    /\ Header(b).content
    /\ SelectProposer(e.st.vals, Parent(b), Round(b)) = Header(b).proposer
    /\ Header(b).commit # {} => CommitAccepted(e, Len(b) - 1, Header(b).commit)

(***************************************************************************)
(* Extending the tip (ApplyExternalBlock for height tip+1, up to the vote) *)
(***************************************************************************)
Accepted(e, b) ==
    LET committed == CommitBlock(Freeze(e, Len(b)), b)
    IN  [committed EXCEPT !.evidence = @ \ Header(b).evidence]

Extend(e, n, b) ==
    IF Parent(b) # e.st.chain THEN e
    ELSE IF ~Valid(Freeze(e, Len(b)), b) THEN Freeze(e, Len(b))
    ELSE CastVote(Accepted(e, b), n, b)

(***************************************************************************)
(* Fork choice.                                                            *)
(***************************************************************************)
(* The state kept for height h, if there is one. *)
SnapshotAt(e, h) == {s \in e.snapshots : Len(s.chain) = h}

(* Mutant: only the metadata of height h goes, not that of buried heights. *)
AbandonTip(e, h, oldTip) ==
    [e EXCEPT !.voted     = {v \in @ : Height(v) # h},
              !.locked    = {l \in @ : Len(l) # h},
              !.snapshots = {s \in @ : Len(s.chain) # h}]

(* Votes, locks and snapshots of the abandoned heights h .. oldTip go. *)
Abandon(e, h, oldTip) ==
    [e EXCEPT !.voted     = {v \in @ : Height(v) \notin h .. oldTip},
              !.locked    = {l \in @ : Len(l) \notin h .. oldTip},
              !.snapshots = {s \in @ : Len(s.chain) \notin h .. oldTip}]

(* reorgToLocked on the restored engine r, up to the vote. *)
Switched(r, b, oldTip) ==
    LET done == CommitBlock(Abandon(r, Len(b), oldTip), b)
    IN  [done EXCEPT !.voted  = {v \in @ : Height(v) # Len(b)},
                     !.locked = {l \in @ : Len(l) # Len(b)}]

(* The engine rewound to snapshot s, with the set of height h frozen. *)
Rewound(e, s, h) == Freeze([e EXCEPT !.st = s], h)

(* reorgToLocked: a failed validation restores the state, nothing else.    *)
ReorgTo(e, n, b) ==
    IF Len(b) - 1 < e.st.fin \/ SnapshotAt(e, Len(b) - 1) = {} THEN e
    ELSE LET s == CHOOSE x \in SnapshotAt(e, Len(b) - 1) : TRUE
             r == Rewound(e, s, Len(b))
         IN  IF Parent(b) # s.chain THEN e
             ELSE IF ~Valid(r, b) THEN [r EXCEPT !.st = e.st]
             ELSE CastVote(Switched(r, b, Len(e.st.chain)), n, b)

(* The round of our block at height h; 0 when no lock is held there. *)
OurRound(e, h) ==
    IF \E l \in e.locked : Len(l) = h
    THEN Round(CHOOSE l \in e.locked : Len(l) = h) ELSE 0

(* Mutants: an equal round is enough; no polka is needed. *)
CandidatesOfAnyRound(e, h) ==
    {b \in e.forks : /\ Len(b) = h
                     /\ b # e.st.chain
                     /\ Round(b) >= OurRound(e, h)
                     /\ HasPolka(e, b)}

CandidatesWithoutPolka(e, h) ==
    {b \in e.forks : /\ Len(b) = h
                     /\ b # e.st.chain
                     /\ Round(b) > OurRound(e, h)}

(* tryReorgLocked: the buffered blocks of height h that justify a switch. *)
Candidates(e, h) ==
    {b \in e.forks : /\ Len(b) = h
                     /\ b # e.st.chain
                     /\ Round(b) > OurRound(e, h)
                     /\ HasPolka(e, b)}

(* The engines tryReorgLocked may return.  The code takes the candidate    *)
(* buffered first; arrival order is free, so any candidate may be it.      *)
TryReorg(e, n, h) ==
    IF h > Len(e.st.chain) \/ h <= e.st.fin \/ Candidates(e, h) = {} THEN {e}
    ELSE {ReorgTo(e, n, b) : b \in Candidates(e, h)}

(* considerFork, for a block at or below the tip. *)
ConsiderFork(e, n, b) ==
    IF Len(b) <= e.st.fin \/ b = e.st.chain THEN {e}
    ELSE TryReorg([e EXCEPT !.forks = @ \cup {b}], n, Len(b))

(* ApplyExternalBlock *)
ApplyExternalBlock(e, n, b) ==
    IF Len(b) <= Len(e.st.chain) THEN ConsiderFork(e, n, b)
    ELSE IF Len(b) > Len(e.st.chain) + 1 THEN {e}
    ELSE {Extend(e, n, b)}

(***************************************************************************)
(* Votes from peers.                                                       *)
(***************************************************************************)
FaultOf(v) == [voter |-> v.voter, height |-> Height(v)]

(* recordEquivocation, when v conflicts with an earlier vote of the pool. *)
RecordEquivocation(e, v) ==
    IF Conflicting(e.pool, v) = {} \/ FaultOf(v) \in Slashed(e.st) THEN e
    ELSE [e EXCEPT !.evidence = @ \cup {FaultOf(v)}]

(* AddVote *)
AddVote(e, n, v) ==
    IF \/ Height(v) <= e.st.fin
       \/ SetForHeight(e, Height(v))[v.voter] = 0
       \/ v \in e.pool.seen
    THEN {e}
    ELSE LET pooled == [RecordEquivocation(e, v) EXCEPT !.pool = Add(@, v)]
         IN  IF v.kind = "prevote" THEN TryReorg(pooled, n, Height(v)) ELSE {pooled}

(***************************************************************************)
(* Producing a block.                                                      *)
(***************************************************************************)
(* drainEvidenceLocked keeps what is not punished yet. *)
Drained(e) == {f \in e.evidence : f \notin Slashed(e.st)}

(* ProduceOnce, n being elected in round r with payload p. *)
Elected(e, n, r) == SelectProposer(e.st.vals, e.st.chain, r) = n

Proposal(e, n, r, p) ==
    Append(e.st.chain, [round |-> r, proposer |-> n, commit |-> BuildLastCommit(e),
                        evidence |-> Drained(e), payload |-> p, content |-> TRUE])

Produced(e, b) == CommitBlock([Freeze(e, Len(b)) EXCEPT !.evidence = {}], b)

(* ProduceOnce, not elected, or elected with nothing to put in a block. *)
Idle(e, elected) ==
    [Freeze(e, Len(e.st.chain) + 1) EXCEPT !.evidence = IF elected THEN {} ELSE @]
=============================================================================
