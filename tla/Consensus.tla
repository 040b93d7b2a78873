----------------------------- MODULE Consensus -----------------------------
(***************************************************************************)
(* A network of consensus engines (internal/consensus driven by            *)
(* internal/node and cmd/chaingo).  Nodes run the engine; every other      *)
(* validator is the environment and may sign anything at any time.  Blocks *)
(* and votes are gossiped: whatever was broadcast once can be delivered to *)
(* anybody, late, in any order, any number of times, or never.  A node may *)
(* crash anywhere and restart from the state and the blocks on its disk.   *)
(***************************************************************************)
EXTENDS Engine

CONSTANTS
    CommitChoices,   \* commits the environment puts in its blocks
    EvidenceChoices, \* evidence the environment puts in its blocks
    ContentChoices,  \* whether the content of its blocks is correct
    RoundsAt(_),     \* bound: rounds explored at a height
    VoteReaches(_,_,_),  \* bound: which votes reach an engine in which state,
    BlockReaches(_,_,_), \* bound: and which blocks, after how many failures
    Fails(_,_)       \* bound: which engines fail, after how many failures

ASSUME ConsensusAssumption ==
    /\ CommitChoices \subseteq SUBSET Validators
    /\ EvidenceChoices \subseteq SUBSET Faults
    /\ \A F \in EvidenceChoices : IsFiniteSet(F)
    /\ ContentChoices \subseteq BOOLEAN

VARIABLES
    eng,    \* the engine of each node, with its disk (st and saved)
    sent,   \* every vote the nodes broadcast
    blocks, \* every block the nodes broadcast
    failures \* crashes and restarts so far

vars == <<eng, sent, blocks, failures>>

Environment == Validators \ Nodes

Init ==
    /\ eng = [n \in Nodes |-> Started(Genesis, {})]
    /\ sent = {}
    /\ blocks = {}
    /\ failures = 0

(* The engine of n becomes e; its OnVote hook broadcast what it just cast. *)
Becomes(n, e) ==
    /\ eng' = [eng EXCEPT ![n] = e]
    /\ sent' = sent \cup e.voted

-----------------------------------------------------------------------------
(* What can be delivered.  Signatures cannot be forged: a commit naming a  *)
(* node needs its precommit, evidence against a node needs two of its      *)
(* votes in one slot, and a block by a node is one it produced.            *)
Equivocated(n, h) ==
    \E v, w \in sent : v.voter = n /\ Height(v) = h /\ SameSlot(v, w) /\ v # w

Genuine(parent, header) ==
    /\ \A n \in header.commit \cap Nodes :
          \E v \in sent : v.voter = n /\ v.kind = "precommit" /\ v.block = parent
    /\ \A f \in header.evidence : f.voter \in Nodes => Equivocated(f.voter, f.height)

EnvHeaders == [round : Rounds, proposer : Environment, commit : CommitChoices,
               evidence : EvidenceChoices, payload : Payloads, content : ContentChoices]

(* Bound: the environment builds on a block some node has seen. *)
KnownBlocks == {<<>>} \cup UNION {eng[n].saved \cup eng[n].forks : n \in Nodes}

EnvBlocks ==
    UNION {{Append(c, hd) : hd \in {x \in EnvHeaders : x.round \in RoundsAt(Len(c) + 1)}} :
              c \in {d \in KnownBlocks : Len(d) < MaxHeight}}

Deliverable(b) == b \in blocks \/ Genuine(Parent(b), Header(b))

(* Bound: the environment votes on blocks that extend a known one, in the  *)
(* round of the block, the only one in which a prevote counts for a polka. *)
EnvVotes ==
    {VoteFor(v, kind, b) : v \in Environment, kind \in Kinds, b \in blocks \cup EnvBlocks}

-----------------------------------------------------------------------------
(* ProduceOnce by the elected node: the block is broadcast, then voted. *)
Produce(n, r, p) ==
    LET e == eng[n]
        b == Proposal(e, n, r, p)
    IN  /\ n \in Keyed
        /\ Len(e.st.chain) < MaxHeight
        /\ r \in RoundsAt(Len(b))
        /\ Elected(e, n, r)
        /\ blocks' = blocks \cup {b}
        /\ Becomes(n, CastVote(Produced(e, b), n, b))

(* ProduceOnce that returns without a block: another proposer is elected,  *)
(* or there is neither transaction nor evidence and no heartbeat is due.   *)
ProduceNothing(n, r) ==
    LET e == eng[n]
        elected == Elected(e, n, r)
    IN  /\ n \in Keyed
        /\ r \in RoundsAt(Len(e.st.chain) + 1)
        /\ elected => Drained(e) = {}
        /\ Becomes(n, Idle(e, elected))
        /\ UNCHANGED blocks

ReceiveBlock(n, b) ==
    /\ Deliverable(b)
    /\ BlockReaches(eng[n], b, failures)
    /\ \E e \in ApplyExternalBlock(eng[n], n, b) : Becomes(n, e)
    /\ UNCHANGED blocks

ReceiveVote(n, v) ==
    /\ VoteReaches(eng[n], v, failures)
    /\ \E e \in AddVote(eng[n], n, v) : Becomes(n, e)
    /\ UNCHANGED blocks

(* The process stops between two calls and starts again from its disk. *)
Restart(n) ==
    /\ eng' = [eng EXCEPT ![n] = Started(@.st, @.saved)]
    /\ UNCHANGED <<sent, blocks>>

(* Mutant: the votes go out before the state is saved. *)
VoteBeforeSave(n, b, done) ==
    LET voting == CastVoteKind(done, n, "prevote", b)
    IN  /\ eng' = [eng EXCEPT ![n] = Started(@.st, @.saved \cup {b})]
        /\ sent' \in {sent, sent \cup voting.voted}

(* The process dies inside a call that commits b, done being the engine    *)
(* before it votes: after SaveBlock, after SaveState, or after the prevote *)
(* was broadcast.                                                          *)
DieWhileCommitting(n, b, done) ==
    LET voting == CastVoteKind(done, n, "prevote", b)
    IN  \/ /\ eng' = [eng EXCEPT ![n] = Started(@.st, @.saved \cup {b})]
           /\ UNCHANGED sent
        \/ /\ eng' = [eng EXCEPT ![n] = Started(done.st, done.saved)]
           /\ sent' \in {sent, sent \cup voting.voted}

CrashAppending(n, b) ==
    LET e == eng[n]
    IN  /\ Deliverable(b)
        /\ b # <<>> /\ Parent(b) = e.st.chain
        /\ Valid(Freeze(e, Len(b)), b)
        /\ DieWhileCommitting(n, b, Accepted(e, b))
        /\ UNCHANGED blocks

CrashProducing(n, r, p) ==
    LET e == eng[n]
        b == Proposal(e, n, r, p)
    IN  /\ n \in Keyed
        /\ Len(e.st.chain) < MaxHeight
        /\ r \in RoundsAt(Len(b))
        /\ Elected(e, n, r)
        /\ DieWhileCommitting(n, b, Produced(e, b))
        /\ blocks' = blocks \cup {b}  \* at least served from its block store

CrashSwitching(n, b) ==
    LET e == eng[n]
    IN  /\ b \in Candidates(e, Len(b))
        /\ Len(b) > e.st.fin /\ Len(b) <= Len(e.st.chain)
        /\ \E s \in SnapshotAt(e, Len(b) - 1) :
              LET r == Rewound(e, s, Len(b))
              IN  /\ Parent(b) = s.chain
                  /\ Valid(r, b)
                  /\ DieWhileCommitting(n, b, Switched(r, b, Len(e.st.chain)))
        /\ UNCHANGED blocks

NodeStep(n) ==
    \/ \E r \in Rounds, p \in Payloads : Produce(n, r, p)
    \/ \E r \in Rounds : ProduceNothing(n, r)
    \/ \E b \in blocks \cup EnvBlocks : ReceiveBlock(n, b)
    \/ \E v \in sent \cup EnvVotes : ReceiveVote(n, v)

NodeFailure(n) ==
    \/ Restart(n)
    \/ \E b \in blocks \cup EnvBlocks : CrashAppending(n, b)
    \/ \E r \in Rounds, p \in Payloads : CrashProducing(n, r, p)
    \/ \E b \in eng[n].forks : CrashSwitching(n, b)

Next ==
    \E n \in Nodes :
        \/ NodeStep(n) /\ UNCHANGED failures
        \/ NodeFailure(n) /\ Fails(eng[n], failures) /\ failures' = failures + 1

Spec == Init /\ [][Next]_vars

-----------------------------------------------------------------------------
(* Every field of every engine has its type. *)
EngineType ==
    [st : States, saved : SUBSET Chains,
     pool : [votes : SUBSET Votes, first : SUBSET Votes, seen : SUBSET Votes],
     voted : SUBSET Votes, locked : SUBSET Chains,
     frozen : [Heights -> [Validators -> Nat] \cup {NotFrozen}],
     snapshots : SUBSET States, forks : SUBSET Chains, evidence : SUBSET Faults]

TypeOK ==
    /\ eng \in [Nodes -> EngineType]
    /\ sent \subseteq Votes
    /\ blocks \subseteq Chains

(* Finality is irrevocable: once a node has committed a block that carries *)
(* a commit of its parent, that parent stays on the node's chain, whatever *)
(* reorg, crash or restart follows.                                        *)
FinalizedNeverReverted ==
    \A n \in Nodes : \A b \in eng[n].saved :
        Header(b).commit # {} => OnBranch(Parent(b), eng[n].st.chain)

(* Every restoration point lies on the node's own branch. *)
SnapshotsOnBranch ==
    \A n \in Nodes : \A s \in eng[n].snapshots : OnBranch(s.chain, eng[n].st.chain)

(* While a node can still rewind below one of its blocks, it holds the     *)
(* lock on that block: the round tryReorgLocked compares with is its own.  *)
LockCoversBranch ==
    \A n \in Keyed : \A h \in 1 .. Len(eng[n].st.chain) :
        SnapshotAt(eng[n], h - 1) # {} =>
            \E l \in eng[n].locked : Len(l) = h /\ OnBranch(l, eng[n].st.chain)

(* Among the children of one block a node never signs two votes of one     *)
(* kind in one round, even across reorgs, crashes and restarts.            *)
NoSiblingEquivocation ==
    \A v, w \in sent : SameSlot(v, w) /\ Parent(v.block) = Parent(w.block) => v = w

(* The same among all blocks of a height: what castVoteKind's comment calls *)
(* the BFT safety invariant (engine.go:370-373).                           *)
NoSelfEquivocation ==
    \A v, w \in sent : SameSlot(v, w) => v = w

(* A set frozen for the next height is the one the node's own chain gives  *)
(* that height, as setByHeight is documented (engine.go:61-64).            *)
FrozenSetMatchesChain ==
    \A n \in Nodes :
        LET set == eng[n].frozen[Len(eng[n].st.chain) + 1]
        IN  set # NotFrozen => set = SnapshotActiveSet(eng[n].st.vals)

(* FinalizedHeight never decreases (state.go:436). *)
FinalizedMonotone ==
    [][\A n \in Nodes : eng'[n].st.fin >= eng[n].st.fin]_vars

(* A node with a key leaves a block only for one of the same height and of *)
(* a strictly higher round, also when it abandons a whole branch.          *)
SwitchRaisesRound ==
    [][\A n \in Keyed :
        LET old == eng[n].st.chain
            new == eng'[n].st.chain
        IN  ~OnBranch(old, new) => new[Len(new)].round > old[Len(new)].round]_vars

(* A fork choice never just drops blocks: the fork it turns to differs     *)
(* from the node's own block at that height (engine.go:711-713).           *)
NeverTruncated ==
    [][\A n \in Nodes :
        OnBranch(eng'[n].st.chain, eng[n].st.chain) =>
            eng'[n].st.chain = eng[n].st.chain]_vars
=============================================================================
