--------------------------- MODULE ConsensusProofs ---------------------------
(***************************************************************************)
(* Finality is irrevocable, and restoration points stay on the node's own  *)
(* branch; a node with a key only ever climbs in rounds, holds the locks   *)
(* it compares with, and never signs two children of one block in one      *)
(* round; the engines implement ForkVoting around every block that forks,  *)
(* and never finalize two of its branches; every engine keeps its types:   *)
(* for every set of nodes, powers, proposer draw and bound.                *)
(***************************************************************************)
EXTENDS ConsensusRefinement, SequenceTheorems, FiniteSetTheorems, TLAPS

Blocks == Chains \ {<<>>}

(* The part of EngineType the argument needs: everything but the weights. *)
StateShape(s) ==
    /\ DOMAIN s = {"chain", "fin", "vals"}
    /\ s.chain \in Chains
    /\ s.fin \in Nat

PoolType == [votes : SUBSET Votes, first : SUBSET Votes, seen : SUBSET Votes]

Shape(e) ==
    /\ DOMAIN e = {"st", "saved", "pool", "voted", "locked", "frozen",
                   "snapshots", "forks", "evidence"}
    /\ StateShape(e.st)
    /\ e.saved \subseteq Blocks
    /\ e.pool \in PoolType
    /\ e.voted \subseteq Votes
    /\ \A s \in e.snapshots : StateShape(s)
    /\ e.forks \subseteq Blocks
    /\ e.evidence \subseteq Faults

(* Restoration points lie on the branch of the node, and none is below a   *)
(* block that one of its blocks has finalized, which is on that branch.    *)
Anchored(e) == \A s \in e.snapshots : OnBranch(s.chain, e.st.chain)

Guarded(e) ==
    \A b \in e.saved : Header(b).commit # {} =>
        /\ OnBranch(Parent(b), e.st.chain)
        /\ \A s \in e.snapshots : Len(s.chain) >= Len(Parent(b))

Sound(e) == Shape(e) /\ Anchored(e) /\ Guarded(e)

FinalityInv ==
    /\ DOMAIN eng = Nodes
    /\ \A n \in Nodes : Sound(eng[n])
    /\ sent \subseteq Votes
    /\ blocks \subseteq Blocks

-----------------------------------------------------------------------------
(* A prefix of a chain is a chain. *)
LEMMA Prefix ==
    ASSUME NEW c \in Chains, NEW k \in Nat, k <= Len(c)
    PROVE  /\ SubSeq(c, 1, k) \in Chains
           /\ Len(SubSeq(c, 1, k)) = k
           /\ \A i \in 1 .. k : SubSeq(c, 1, k)[i] = c[i]
  BY SubSeqProperties DEF Chains

(* A block is its parent and its header. *)
LEMMA BlockParts ==
    ASSUME NEW b \in Blocks
    PROVE  /\ Len(b) \in Nat \ {0}
           /\ Parent(b) \in Chains
           /\ Len(Parent(b)) = Len(b) - 1
           /\ \A i \in 1 .. (Len(b) - 1) : Parent(b)[i] = b[i]
           /\ Header(b) \in Headers
  <1>1. b \in Seq(Headers) /\ b # <<>>
    BY DEF Blocks, Chains
  <1>2. Len(b) \in Nat \ {0}
    BY <1>1
  <1>3. Header(b) \in Headers
    BY <1>1, <1>2 DEF Header
  <1> DEFINE k == Len(b) - 1
  <1>4. b \in Chains /\ k \in Nat /\ k <= Len(b)
    BY <1>1, <1>2 DEF Chains
  <1>5. /\ SubSeq(b, 1, k) \in Chains
        /\ Len(SubSeq(b, 1, k)) = k
        /\ \A i \in 1 .. k : SubSeq(b, 1, k)[i] = b[i]
    <2> HIDE DEF k
    <2> QED  BY <1>4, Prefix
  <1>6. SubSeq(b, 1, k) = Parent(b)
    BY DEF Parent
  <1> QED  BY <1>2, <1>3, <1>5, <1>6

(* A header on top of a chain makes a block whose parent is that chain. *)
LEMMA AppendParts ==
    ASSUME NEW c \in Chains, NEW hd \in Headers
    PROVE  /\ Append(c, hd) \in Blocks
           /\ Parent(Append(c, hd)) = c
           /\ Header(Append(c, hd)) = hd
  BY DEF Blocks, Chains, Parent, Header

(* A block's parent is an ancestor of it. *)
LEMMA ParentOnBranch ==
    ASSUME NEW b \in Blocks
    PROVE  OnBranch(Parent(b), b)
  BY BlockParts DEF OnBranch, Blocks, Chains

(* Ancestry is a partial order, total below any one chain. *)
LEMMA BranchOrder ==
    ASSUME NEW p \in Chains, NEW q \in Chains, NEW c \in Chains
    PROVE  /\ OnBranch(c, c)
           /\ OnBranch(p, q) /\ OnBranch(q, c) => OnBranch(p, c)
           /\ OnBranch(p, c) /\ OnBranch(q, c) /\ Len(p) <= Len(q) => OnBranch(p, q)
  BY DEF OnBranch, Chains

-----------------------------------------------------------------------------
(* Calls that leave the chain, the disk and the restoration points alone. *)
SameCore(d, e) == d.st = e.st /\ d.saved = e.saved /\ d.snapshots = e.snapshots

(* What leaves chain, blocks and restoration points alone is sound. *)
LEMMA CoreSound ==
    ASSUME NEW d, NEW e, Sound(e), Shape(d), SameCore(d, e)
    PROVE  Sound(d)
  BY DEF Sound, SameCore, Anchored, Guarded

(* freezeSetLocked changes nothing but the frozen sets. *)
LEMMA FreezeShape ==
    ASSUME NEW e, Shape(e), NEW h
    PROVE  /\ Shape(Freeze(e, h))
           /\ SameCore(Freeze(e, h), e)
           /\ Freeze(e, h).pool = e.pool
           /\ Freeze(e, h).evidence = e.evidence
  BY DEF Freeze, Shape, SameCore

(* add and prune keep the vote pool typed. *)
LEMMA PoolTyped ==
    ASSUME NEW pool \in PoolType
    PROVE  /\ \A v \in Votes : Add(pool, v) \in PoolType
           /\ \A k : Prune(pool, k) \in PoolType
  BY DEF PoolType, Add, Prune

(* What a node signs on a block is a vote. *)
LEMMA VoteTyped ==
    ASSUME NEW n \in Validators, NEW kind \in Kinds, NEW b \in Blocks
    PROVE  VoteFor(n, kind, b) \in Votes
  BY BlockParts DEF VoteFor, Votes, Headers, Round, Blocks

(* castVoteKind moves neither the chain nor the restoration points. *)
LEMMA CastKindShape ==
    ASSUME NEW e, Shape(e), NEW n \in Validators, NEW kind \in Kinds, NEW b \in Blocks
    PROVE  Shape(CastVoteKind(e, n, kind, b)) /\ SameCore(CastVoteKind(e, n, kind, b), e)
  <1> DEFINE v == VoteFor(n, kind, b)
  <1>1. v \in Votes
    BY VoteTyped
  <1>2. Add(e.pool, v) \in PoolType
    BY <1>1, PoolTyped DEF Shape
  <1> HIDE DEF v
  <1>3. ASSUME NEW L
        PROVE  LET d == [e EXCEPT !.voted = @ \cup {v}, !.pool = Add(@, v), !.locked = L]
               IN  Shape(d) /\ SameCore(d, e)
    BY <1>1, <1>2 DEF Shape, SameCore
  <1>4. Shape(e) /\ SameCore(e, e)
    BY DEF SameCore
  <1> QED  BY <1>3, <1>4 DEF CastVoteKind, v

(* Nor do a prevote and the precommit after it. *)
LEMMA CastShape ==
    ASSUME NEW e, Shape(e), NEW n \in Validators, NEW b \in Blocks
    PROVE  Shape(CastVote(e, n, b)) /\ SameCore(CastVote(e, n, b), e)
  <1> DEFINE d == CastVoteKind(e, n, "prevote", b)
  <1>1. Shape(d) /\ SameCore(d, e)
    BY CastKindShape DEF Kinds
  <1> HIDE DEF d
  <1>2. Shape(CastVoteKind(d, n, "precommit", b)) /\ SameCore(CastVoteKind(d, n, "precommit", b), d)
    BY <1>1, CastKindShape DEF Kinds
  <1> QED  BY <1>1, <1>2 DEF CastVote, SameCore, d

-----------------------------------------------------------------------------
(* Committing a block on the tip: the new restoration point is the new     *)
(* tip, and a commit prunes the points below the parent it finalizes.      *)
LEMMA CommitSound ==
    ASSUME NEW e, Sound(e), NEW b \in Blocks, Parent(b) = e.st.chain
    PROVE  Sound(CommitBlock(e, b))
  <1> DEFINE st == AfterBlock(e.st, b)
             d  == Snapshot([e EXCEPT !.st = AfterBlock(@, b), !.saved = @ \cup {b}])
  <1>1. /\ b \in Chains /\ e.st.chain \in Chains
        /\ Len(e.st.chain) = Len(b) - 1 /\ Len(b) \in Nat \ {0}
        /\ OnBranch(e.st.chain, b)
    BY BlockParts, ParentOnBranch DEF Sound, Shape, StateShape, Blocks
  <1>2. StateShape(st) /\ st.chain = b
    BY <1>1 DEF AfterBlock, Sound, Shape, StateShape
  <1> HIDE DEF st
  <1>3. d = [e EXCEPT !.st = st, !.saved = @ \cup {b},
                      !.snapshots = {s \in @ : Len(s.chain) # Len(st.chain)} \cup {st}]
    BY DEF Snapshot, Sound, Shape, st
  <1> HIDE DEF d
  <1>4. Shape(d)
    BY <1>2, <1>3 DEF Sound, Shape
  <1>5. /\ d.st = st /\ d.saved = e.saved \cup {b}
        /\ \A s \in d.snapshots : s = st \/ s \in e.snapshots
    BY <1>3 DEF Sound, Shape
  <1>6. Anchored(d)
    BY <1>1, <1>2, <1>5, BranchOrder DEF Sound, Anchored, Shape, StateShape
  <1>7. ASSUME NEW c \in e.saved, Header(c).commit # {}
        PROVE  /\ OnBranch(Parent(c), b)
               /\ \A s \in d.snapshots : Len(s.chain) >= Len(Parent(c))
    <2>1. OnBranch(Parent(c), e.st.chain) /\ Parent(c) \in Chains
      BY <1>7, BlockParts DEF Sound, Guarded, Shape
    <2>2. OnBranch(Parent(c), b)
      BY <1>1, <2>1, BranchOrder
    <2>3. Len(b) >= Len(Parent(c))
      BY <1>1, <2>1, <2>2 DEF OnBranch, Chains
    <2> QED  BY <1>2, <1>5, <1>7, <2>2, <2>3 DEF Sound, Guarded
  <1>8. CASE Header(b).commit = {}
    <2>1. Guarded(d)
      BY <1>2, <1>5, <1>7, <1>8 DEF Guarded
    <2> QED  BY <1>4, <1>6, <1>8, <2>1 DEF CommitBlock, Sound, d
  <1>9. CASE Header(b).commit # {}
    <2> DEFINE f == Finalize(d, Len(b) - 1)
    <2>1. Shape(f)
      BY <1>1, <1>4, PoolTyped DEF Finalize, Shape, StateShape
    <2>2. /\ f.st.chain = b /\ f.saved = e.saved \cup {b}
          /\ \A s \in f.snapshots : s \in d.snapshots /\ Len(s.chain) >= Len(b) - 1
      BY <1>2, <1>4, <1>5 DEF Finalize, Shape, StateShape
    <2>3. CommitBlock(e, b) = f
      BY <1>9 DEF CommitBlock, d
    <2> HIDE DEF f
    <2>4. Anchored(f)
      BY <1>2, <1>5, <1>6, <2>2 DEF Anchored
    <2>5. Guarded(f)
      BY <1>1, <1>7, <2>2 DEF Guarded
    <2> QED  BY <2>1, <2>3, <2>4, <2>5 DEF Sound
  <1> QED  BY <1>8, <1>9

(* Forgetting evidence changes nothing else. *)
LEMMA EvidenceSound ==
    ASSUME NEW e, Sound(e), NEW S, S \subseteq Faults
    PROVE  /\ Sound([e EXCEPT !.evidence = S])
           /\ SameCore([e EXCEPT !.evidence = S], e)
  <1> DEFINE d == [e EXCEPT !.evidence = S]
  <1>1. Shape(d) /\ SameCore(d, e)
    BY DEF Sound, Shape, SameCore
  <1> QED  BY <1>1, CoreSound

(* freezeSetLocked keeps the invariant. *)
LEMMA FreezeSound ==
    ASSUME NEW e, Sound(e), NEW h
    PROVE  Sound(Freeze(e, h)) /\ SameCore(Freeze(e, h), e)
  BY FreezeShape, CoreSound DEF Sound

(* Casting both votes on a block keeps the invariant. *)
LEMMA CastSound ==
    ASSUME NEW e, Sound(e), NEW n \in Validators, NEW b \in Blocks
    PROVE  Sound(CastVote(e, n, b))
  BY CastShape, CoreSound DEF Sound

(* Committing a block received for the next height keeps the invariant. *)
LEMMA AcceptedSound ==
    ASSUME NEW e, Sound(e), NEW b \in Blocks, Parent(b) = e.st.chain
    PROVE  Sound(Accepted(e, b))
  <1> DEFINE d == Freeze(e, Len(b))
             c == CommitBlock(d, b)
             S == c.evidence \ Header(b).evidence
  <1>1. Sound(d) /\ Parent(b) = d.st.chain
    BY FreezeSound DEF SameCore
  <1>2. Sound(c)
    <2> HIDE DEF d
    <2> QED  BY <1>1, CommitSound
  <1>3. Accepted(e, b) = [c EXCEPT !.evidence = S]
    BY <1>2 DEF Accepted, Sound, Shape
  <1>4. S \subseteq Faults
    BY <1>2 DEF Sound, Shape
  <1> HIDE DEF c, S
  <1> QED  BY <1>2, <1>3, <1>4, EvidenceSound

(* Committing the block ProduceOnce builds keeps the invariant. *)
LEMMA ProducedSound ==
    ASSUME NEW e, Sound(e), NEW b \in Blocks, Parent(b) = e.st.chain
    PROVE  Sound(Produced(e, b))
  <1> DEFINE d == Freeze(e, Len(b))
             c == [d EXCEPT !.evidence = {}]
  <1>1. Sound(d) /\ Parent(b) = d.st.chain
    BY FreezeSound DEF SameCore
  <1>2. Sound(c) /\ Parent(b) = c.st.chain
    <2> HIDE DEF d
    <2> QED  BY <1>1, EvidenceSound DEF SameCore
  <1> HIDE DEF c
  <1>3. Sound(CommitBlock(c, b))
    BY <1>2, CommitSound
  <1> QED  BY <1>3 DEF Produced, c

(* ProduceOnce without a block keeps the invariant. *)
LEMMA IdleSound ==
    ASSUME NEW e, Sound(e), NEW elected
    PROVE  Sound(Idle(e, elected))
  <1> DEFINE d == Freeze(e, Len(e.st.chain) + 1)
             S == IF elected THEN {} ELSE d.evidence
  <1>1. Sound(d)
    BY FreezeSound
  <1>2. Idle(e, elected) = [d EXCEPT !.evidence = S] /\ S \subseteq Faults
    BY <1>1 DEF Idle, Sound, Shape
  <1> HIDE DEF d, S
  <1> QED  BY <1>1, <1>2, EvidenceSound

(* ApplyExternalBlock for the next height keeps the invariant. *)
LEMMA ExtendSound ==
    ASSUME NEW e, Sound(e), NEW n \in Validators, NEW b \in Blocks
    PROVE  Sound(Extend(e, n, b))
  <1>1. CASE Parent(b) # e.st.chain
    BY <1>1 DEF Extend
  <1>2. CASE Parent(b) = e.st.chain /\ ~Valid(Freeze(e, Len(b)), b)
    BY <1>2, FreezeSound DEF Extend
  <1>3. CASE Parent(b) = e.st.chain /\ Valid(Freeze(e, Len(b)), b)
    <2>1. Sound(Accepted(e, b))
      BY <1>3, AcceptedSound
    <2>2. Sound(CastVote(Accepted(e, b), n, b))
      BY <2>1, CastSound
    <2> QED  BY <1>3, <2>2 DEF Extend
  <1> QED  BY <1>1, <1>2, <1>3

-----------------------------------------------------------------------------
(* Fork choice.  The heart of the argument: the rewound engine, with the   *)
(* restoration points of the abandoned heights gone, is sound again.  The  *)
(* points that stay are not above the one restored, and what is finalized  *)
(* is not above it either, so both lie on the branch that is kept.         *)
LEMMA AbandonSound ==
    ASSUME NEW e, Sound(e), NEW s \in e.snapshots, NEW h \in Nat, h = Len(s.chain) + 1
    PROVE  LET a == Abandon(Rewound(e, s, h), h, Len(e.st.chain))
           IN  Sound(a) /\ a.st = s
  <1> DEFINE r == Rewound(e, s, h)
             top == Len(e.st.chain)
             a == Abandon(r, h, top)
  <1>1. /\ Shape(e) /\ StateShape(s)
        /\ s.chain \in Chains /\ e.st.chain \in Chains /\ top \in Nat
        /\ \A p \in e.snapshots : StateShape(p) /\ p.chain \in Chains /\ Len(p.chain) \in Nat
    BY DEF Sound, Shape, StateShape, Chains
  <1>2. /\ Shape(r) /\ r.st = s /\ r.saved = e.saved /\ r.snapshots = e.snapshots
    <2>1. Shape([e EXCEPT !.st = s])
      BY <1>1 DEF Shape
    <2>2. /\ [e EXCEPT !.st = s].st = s /\ [e EXCEPT !.st = s].saved = e.saved
          /\ [e EXCEPT !.st = s].snapshots = e.snapshots
      BY <1>1 DEF Shape
    <2> DEFINE d == [e EXCEPT !.st = s]
    <2>3. r = Freeze(d, h)
      BY DEF Rewound
    <2> HIDE DEF d, r
    <2> QED  BY ZenonT(40), <2>1, <2>2, <2>3, FreezeShape DEF SameCore, d
  <1> HIDE DEF r
  <1>3. Shape(a) /\ a.st = s /\ a.saved = e.saved
    BY <1>2 DEF Abandon, Shape
  <1>4. a.snapshots = {p \in e.snapshots : Len(p.chain) \notin h .. top}
    BY <1>2 DEF Abandon, Shape
  <1> HIDE DEF a
  <1>5. Anchored(a)
    <2>1. SUFFICES ASSUME NEW p \in a.snapshots PROVE OnBranch(p.chain, s.chain)
      BY <1>3 DEF Anchored
    <2>2. OnBranch(p.chain, e.st.chain) /\ OnBranch(s.chain, e.st.chain)
      BY <1>4 DEF Sound, Anchored
    <2>3. Len(p.chain) <= top
      BY <2>2 DEF OnBranch
    <2>4. Len(p.chain) < h
      BY <1>1, <1>4, <2>3
    <2>5. Len(p.chain) <= Len(s.chain)
      BY <1>1, <1>4, <2>4
    <2> QED  BY <1>1, <1>4, <2>2, <2>5, BranchOrder
  <1>6. Guarded(a)
    <2>1. SUFFICES ASSUME NEW b \in e.saved, Header(b).commit # {}
                   PROVE  /\ OnBranch(Parent(b), s.chain)
                          /\ \A p \in a.snapshots : Len(p.chain) >= Len(Parent(b))
      BY <1>3 DEF Guarded
    <2>2. OnBranch(Parent(b), e.st.chain) /\ Len(s.chain) >= Len(Parent(b))
      BY <2>1 DEF Sound, Guarded
    <2>3. OnBranch(s.chain, e.st.chain) /\ Parent(b) \in Chains
      BY <1>1, BlockParts DEF Sound, Anchored, Shape
    <2>4. OnBranch(Parent(b), s.chain)
      BY <1>1, <2>2, <2>3, BranchOrder DEF Chains
    <2> QED  BY <1>4, <2>1, <2>4 DEF Sound, Guarded
  <1>7. Sound(a) /\ a.st = s
    BY <1>3, <1>5, <1>6 DEF Sound
  <1> QED  BY <1>7 DEF a, r

(* reorgToLocked that succeeds keeps the invariant. *)
LEMMA SwitchedSound ==
    ASSUME NEW e, Sound(e), NEW s \in e.snapshots, NEW b \in Blocks, Parent(b) = s.chain
    PROVE  Sound(Switched(Rewound(e, s, Len(b)), b, Len(e.st.chain)))
  <1> DEFINE a == Abandon(Rewound(e, s, Len(b)), Len(b), Len(e.st.chain))
             c == CommitBlock(a, b)
             d == [c EXCEPT !.voted  = {v \in @ : Height(v) # Len(b)},
                            !.locked = {l \in @ : Len(l) # Len(b)}]
  <1>1. Len(b) \in Nat /\ Len(b) = Len(s.chain) + 1
    BY BlockParts
  <1>2. Sound(a) /\ a.st = s
    BY <1>1, AbandonSound
  <1> HIDE DEF a
  <1>3. Sound(c)
    BY <1>2, CommitSound
  <1> HIDE DEF c
  <1>4. Shape(d) /\ SameCore(d, c)
    BY <1>3 DEF Sound, Shape, SameCore
  <1>5. Sound(d)
    BY <1>3, <1>4, CoreSound
  <1>6. Switched(Rewound(e, s, Len(b)), b, Len(e.st.chain)) = d
    BY DEF Switched, c, a
  <1> QED  BY <1>5, <1>6

(* reorgToLocked keeps the invariant, whether it succeeds or gives up. *)
LEMMA ReorgSound ==
    ASSUME NEW e, Sound(e), NEW n \in Validators, NEW b \in Blocks
    PROVE  Sound(ReorgTo(e, n, b))
  <1>1. CASE Len(b) - 1 < e.st.fin \/ SnapshotAt(e, Len(b) - 1) = {}
    BY <1>1 DEF ReorgTo
  <1>2. CASE ~(Len(b) - 1 < e.st.fin) /\ SnapshotAt(e, Len(b) - 1) # {}
    <2> DEFINE s == CHOOSE x \in SnapshotAt(e, Len(b) - 1) : TRUE
               r == Rewound(e, s, Len(b))
               w == Switched(r, b, Len(e.st.chain))
    <2>1. s \in e.snapshots
      BY <1>2 DEF SnapshotAt
    <2>2. ReorgTo(e, n, b) =
            IF Parent(b) # s.chain THEN e
            ELSE IF ~Valid(r, b) THEN [r EXCEPT !.st = e.st]
            ELSE CastVote(w, n, b)
      BY <1>2 DEF ReorgTo
    <2> HIDE DEF s
    <2>3. Sound([r EXCEPT !.st = e.st])
      <3> DEFINE p == [e EXCEPT !.st = s]
      <3>1. Shape(p) /\ p.saved = e.saved /\ p.snapshots = e.snapshots
        BY <2>1 DEF Sound, Shape
      <3>2. r = Freeze(p, Len(b))
        BY DEF Rewound
      <3> HIDE DEF p, r
      <3>3. Shape(r) /\ r.saved = e.saved /\ r.snapshots = e.snapshots
        BY <3>1, <3>2, FreezeShape DEF SameCore
      <3>4. Shape([r EXCEPT !.st = e.st]) /\ SameCore([r EXCEPT !.st = e.st], e)
        BY <3>3 DEF Shape, SameCore, Sound
      <3> QED  BY <3>4, CoreSound
    <2>4. Parent(b) = s.chain => Sound(CastVote(w, n, b))
      <3>1. SUFFICES ASSUME Parent(b) = s.chain PROVE Sound(CastVote(w, n, b))
        OBVIOUS
      <3>2. Sound(w)
        BY <2>1, <3>1, SwitchedSound
      <3> HIDE DEF w
      <3> QED  BY <3>2, CastSound
    <2> HIDE DEF r, w
    <2> QED  BY <2>2, <2>3, <2>4
  <1> QED  BY <1>1, <1>2

(* tryReorgLocked keeps the invariant, whichever candidate it takes. *)
LEMMA TryReorgSound ==
    ASSUME NEW e, Sound(e), NEW n \in Validators, NEW h, NEW d \in TryReorg(e, n, h)
    PROVE  Sound(d)
  <1>1. Candidates(e, h) \subseteq Blocks
    BY DEF Candidates, Sound, Shape
  <1> QED  BY <1>1, ReorgSound DEF TryReorg

(* considerFork keeps the invariant. *)
LEMMA ConsiderForkSound ==
    ASSUME NEW e, Sound(e), NEW n \in Validators, NEW b \in Blocks,
           NEW d \in ConsiderFork(e, n, b)
    PROVE  Sound(d)
  <1> DEFINE f == [e EXCEPT !.forks = @ \cup {b}]
  <1>1. Shape(f) /\ SameCore(f, e)
    BY DEF Sound, Shape, SameCore
  <1>2. Sound(f)
    BY <1>1, CoreSound
  <1>3. d = e \/ d \in TryReorg(f, n, Len(b))
    BY DEF ConsiderFork
  <1> HIDE DEF f
  <1> QED  BY <1>2, <1>3, TryReorgSound

(* ApplyExternalBlock keeps the invariant. *)
LEMMA ApplySound ==
    ASSUME NEW e, Sound(e), NEW n \in Validators, NEW b \in Blocks,
           NEW d \in ApplyExternalBlock(e, n, b)
    PROVE  Sound(d)
  BY ConsiderForkSound, ExtendSound DEF ApplyExternalBlock

(* AddVote keeps the invariant, also when the vote completes a polka. *)
LEMMA AddVoteSound ==
    ASSUME NEW e, Sound(e), NEW n \in Validators, NEW v \in Votes, NEW d \in AddVote(e, n, v)
    PROVE  Sound(d)
  <1> DEFINE q == RecordEquivocation(e, v)
             p == [q EXCEPT !.pool = Add(@, v)]
  <1>1. FaultOf(v) \in Faults
    BY DEF FaultOf, Faults, Votes, Chains, Height
  <1>2. Shape(q) /\ SameCore(q, e)
    BY <1>1 DEF RecordEquivocation, Sound, Shape, SameCore
  <1> HIDE DEF q
  <1>3. Add(q.pool, v) \in PoolType
    BY <1>2, PoolTyped DEF Shape
  <1>4. Shape(p) /\ SameCore(p, e)
    BY <1>2, <1>3 DEF Shape, SameCore
  <1>5. Sound(p)
    BY <1>4, CoreSound
  <1>6. d = e \/ d = p \/ d \in TryReorg(p, n, Height(v))
    BY DEF AddVote, q
  <1> HIDE DEF p
  <1> QED  BY <1>5, <1>6, TryReorgSound

-----------------------------------------------------------------------------
(* What is produced and what is delivered. *)
LEMMA ProposalTyped ==
    ASSUME NEW e, Sound(e), NEW n \in Validators, NEW r \in Rounds, NEW p \in Payloads
    PROVE  Proposal(e, n, r, p) \in Blocks /\ Parent(Proposal(e, n, r, p)) = e.st.chain
  <1>1. BuildLastCommit(e) \subseteq Validators
    BY DEF BuildLastCommit, Precommitters, Sound, Shape, PoolType, Votes
  <1>2. Drained(e) \subseteq Faults
    BY DEF Drained, Sound, Shape
  <1> DEFINE hd == [round |-> r, proposer |-> n, commit |-> BuildLastCommit(e),
                    evidence |-> Drained(e), payload |-> p, content |-> TRUE]
  <1>3. hd \in Headers
    BY <1>1, <1>2 DEF Headers
  <1>4. e.st.chain \in Chains
    BY DEF Sound, Shape, StateShape
  <1>5. Proposal(e, n, r, p) = Append(e.st.chain, hd)
    BY DEF Proposal
  <1> HIDE DEF hd
  <1> QED  BY <1>3, <1>4, <1>5, AppendParts

(* What the environment sends are blocks and votes. *)
LEMMA EnvironmentTyped ==
    ASSUME FinalityInv
    PROVE  EnvBlocks \subseteq Blocks /\ EnvVotes \subseteq Votes
  <1>1. KnownBlocks \subseteq Chains
    <2>1. <<>> \in Chains
      BY DEF Chains
    <2>2. \A n \in Nodes : eng[n].saved \subseteq Chains /\ eng[n].forks \subseteq Chains
      BY DEF FinalityInv, Sound, Shape, Blocks
    <2> QED  BY <2>1, <2>2 DEF KnownBlocks
  <1>2. EnvHeaders \subseteq Headers
    BY ConsensusAssumption DEF EnvHeaders, Headers, Environment
  <1>3. EnvBlocks \subseteq Blocks
    <2>1. SUFFICES ASSUME NEW b \in EnvBlocks PROVE b \in Blocks
      OBVIOUS
    <2>2. PICK c \in KnownBlocks, hd \in EnvHeaders : b = Append(c, hd)
      BY DEF EnvBlocks
    <2> QED  BY <1>1, <1>2, <2>2, AppendParts
  <1>4. EnvVotes \subseteq Votes
    BY <1>3, VoteTyped DEF EnvVotes, FinalityInv, Environment
  <1> QED  BY <1>3, <1>4

-----------------------------------------------------------------------------
(* Restarts.  A node that starts from its disk has no restoration point,   *)
(* so all that matters is that what its blocks finalize is on its chain.   *)
LEMMA StartedSound ==
    ASSUME NEW st, StateShape(st), NEW saved, saved \subseteq Blocks,
           \A b \in saved : Header(b).commit # {} => OnBranch(Parent(b), st.chain)
    PROVE  Sound(Started(st, saved))
  <1> DEFINE e == Started(st, saved)
  <1>1. e.st = st /\ e.saved = saved /\ e.snapshots = {}
    BY DEF Started
  <1>2. Shape(e)
    BY DEF Started, Shape, EmptyPool, PoolType
  <1> HIDE DEF e
  <1>3. Sound(e)
    BY <1>1, <1>2 DEF Sound, Anchored, Guarded
  <1> QED  BY <1>3 DEF e

(* A restart between two calls keeps the invariant. *)
LEMMA RestartSound ==
    ASSUME NEW e, Sound(e)
    PROVE  Sound(Started(e.st, e.saved))
  BY StartedSound DEF Sound, Shape, Guarded

(* The block is on the disk, the state that results from it is not. *)
LEMMA SavedSound ==
    ASSUME NEW e, Sound(e), NEW b \in Blocks, OnBranch(Parent(b), e.st.chain)
    PROVE  Sound(Started(e.st, e.saved \cup {b}))
  BY StartedSound DEF Sound, Shape, Guarded

-----------------------------------------------------------------------------
(* One engine changes, to a sound one; what it broadcasts has its type. *)
LEMMA BecomesInv ==
    ASSUME FinalityInv, NEW n \in Nodes, NEW e, Sound(e), Becomes(n, e), blocks' \subseteq Blocks
    PROVE  FinalityInv'
  <1>1. e.voted \subseteq Votes
    BY DEF Sound, Shape
  <1>2. eng' = [eng EXCEPT ![n] = e] /\ sent' = sent \cup e.voted
    BY DEF Becomes
  <1>3. DOMAIN eng' = Nodes /\ \A m \in Nodes : Sound(eng'[m])
    BY <1>2 DEF FinalityInv
  <1> QED  BY <1>1, <1>2, <1>3 DEF FinalityInv

(* A crash inside a call that commits a block keeps the invariant. *)
LEMMA DieInv ==
    ASSUME FinalityInv, NEW n \in Nodes, NEW b \in Blocks, NEW done, Sound(done),
           OnBranch(Parent(b), eng[n].st.chain),
           DieWhileCommitting(n, b, done), blocks' \subseteq Blocks
    PROVE  FinalityInv'
  <1> DEFINE cast == CastVoteKind(done, n, "prevote", b)
  <1>1. Sound(eng[n]) /\ n \in Validators
    BY EngineAssumption DEF FinalityInv
  <1>2. cast.voted \subseteq Votes
    BY <1>1, CastKindShape DEF Sound, Shape, Kinds
  <1>3. \/ eng' = [eng EXCEPT ![n] = Started(eng[n].st, eng[n].saved \cup {b})]
        \/ eng' = [eng EXCEPT ![n] = Started(done.st, done.saved)]
    BY DEF DieWhileCommitting
  <1>4. sent' \in {sent, sent \cup cast.voted}
    BY DEF DieWhileCommitting
  <1> HIDE DEF cast
  <1>5. Sound(Started(eng[n].st, eng[n].saved \cup {b})) /\ Sound(Started(done.st, done.saved))
    BY <1>1, SavedSound, RestartSound
  <1>6. DOMAIN eng' = Nodes /\ \A m \in Nodes : Sound(eng'[m])
    BY <1>3, <1>5 DEF FinalityInv
  <1> QED  BY <1>2, <1>4, <1>6 DEF FinalityInv

(* The invariant holds of nodes that start at the genesis. *)
LEMMA InitInv == Init => FinalityInv
  <1>1. StateShape(Genesis)
    BY DEF StateShape, Genesis, Chains
  <1>2. Sound(Started(Genesis, {}))
    BY <1>1, StartedSound
  <1> QED  BY <1>2 DEF Init, FinalityInv

(* Every call a node handles keeps the invariant. *)
LEMMA StepInv ==
    ASSUME FinalityInv, NEW n \in Nodes, NodeStep(n)
    PROVE  FinalityInv'
  <1>1. Sound(eng[n]) /\ n \in Validators /\ blocks \subseteq Blocks /\ sent \subseteq Votes
    BY EngineAssumption DEF FinalityInv
  <1>2. ASSUME NEW r \in Rounds, NEW p \in Payloads, Produce(n, r, p)
        PROVE  FinalityInv'
    <2> DEFINE b == Proposal(eng[n], n, r, p)
               e == CastVote(Produced(eng[n], b), n, b)
    <2>1. b \in Blocks /\ Parent(b) = eng[n].st.chain
      BY <1>1, ProposalTyped
    <2>2. blocks' = blocks \cup {b} /\ Becomes(n, e)
      BY <1>2 DEF Produce
    <2> HIDE DEF b
    <2>3. Sound(e)
      BY <1>1, <2>1, ProducedSound, CastSound
    <2> HIDE DEF e
    <2> QED  BY <1>1, <2>1, <2>2, <2>3, BecomesInv
  <1>3. ASSUME NEW r \in Rounds, ProduceNothing(n, r)
        PROVE  FinalityInv'
    <2>1. /\ Becomes(n, Idle(eng[n], Elected(eng[n], n, r)))
          /\ blocks' = blocks
      BY <1>3 DEF ProduceNothing
    <2>2. Sound(Idle(eng[n], Elected(eng[n], n, r)))
      BY <1>1, IdleSound
    <2> QED  BY <1>1, <2>1, <2>2, BecomesInv
  <1>4. ASSUME NEW b \in blocks \cup EnvBlocks, ReceiveBlock(n, b)
        PROVE  FinalityInv'
    <2>1. PICK e \in ApplyExternalBlock(eng[n], n, b) : Becomes(n, e)
      BY <1>4 DEF ReceiveBlock
    <2>2. Sound(e)
      BY <1>1, EnvironmentTyped, ApplySound
    <2>3. blocks' = blocks
      BY <1>4 DEF ReceiveBlock
    <2> QED  BY <1>1, <2>1, <2>2, <2>3, BecomesInv
  <1>5. ASSUME NEW v \in sent \cup EnvVotes, ReceiveVote(n, v)
        PROVE  FinalityInv'
    <2>1. PICK e \in AddVote(eng[n], n, v) : Becomes(n, e)
      BY <1>5 DEF ReceiveVote
    <2>2. Sound(e)
      BY <1>1, EnvironmentTyped, AddVoteSound
    <2>3. blocks' = blocks
      BY <1>5 DEF ReceiveVote
    <2> QED  BY <1>1, <2>1, <2>2, <2>3, BecomesInv
  <1> QED  BY <1>2, <1>3, <1>4, <1>5 DEF NodeStep

(* So does every crash and restart. *)
LEMMA FailureInv ==
    ASSUME FinalityInv, NEW n \in Nodes, NodeFailure(n)
    PROVE  FinalityInv'
  <1>1. Sound(eng[n]) /\ n \in Validators /\ blocks \subseteq Blocks /\ sent \subseteq Votes
    BY EngineAssumption DEF FinalityInv
  <1>2. ASSUME Restart(n)
        PROVE  FinalityInv'
    <2>1. eng' = [eng EXCEPT ![n] = Started(eng[n].st, eng[n].saved)]
      BY <1>2 DEF Restart
    <2>2. Sound(Started(eng[n].st, eng[n].saved))
      BY <1>1, RestartSound
    <2>3. DOMAIN eng' = Nodes /\ \A m \in Nodes : Sound(eng'[m])
      BY <2>1, <2>2 DEF FinalityInv
    <2> QED  BY <1>2, <2>3 DEF Restart, FinalityInv
  <1>3. ASSUME NEW b \in blocks \cup EnvBlocks, CrashAppending(n, b)
        PROVE  FinalityInv'
    <2>1. /\ b \in Blocks /\ Parent(b) = eng[n].st.chain
          /\ DieWhileCommitting(n, b, Accepted(eng[n], b)) /\ blocks' = blocks
      BY <1>1, <1>3, EnvironmentTyped DEF CrashAppending
    <2>2. Sound(Accepted(eng[n], b))
      BY <1>1, <2>1, AcceptedSound
    <2>3. OnBranch(Parent(b), eng[n].st.chain)
      BY <1>1, <2>1, BranchOrder DEF Sound, Shape, StateShape
    <2> QED  BY <1>1, <2>1, <2>2, <2>3, DieInv
  <1>4. ASSUME NEW r \in Rounds, NEW p \in Payloads, CrashProducing(n, r, p)
        PROVE  FinalityInv'
    <2> DEFINE b == Proposal(eng[n], n, r, p)
    <2>1. b \in Blocks /\ Parent(b) = eng[n].st.chain
      BY <1>1, ProposalTyped
    <2>2. DieWhileCommitting(n, b, Produced(eng[n], b)) /\ blocks' = blocks \cup {b}
      BY <1>4 DEF CrashProducing
    <2> HIDE DEF b
    <2>3. Sound(Produced(eng[n], b))
      BY <1>1, <2>1, ProducedSound
    <2>4. OnBranch(Parent(b), eng[n].st.chain)
      BY <1>1, <2>1, BranchOrder DEF Sound, Shape, StateShape
    <2> QED  BY <1>1, <2>1, <2>2, <2>3, <2>4, DieInv
  <1>5. ASSUME NEW b \in eng[n].forks, CrashSwitching(n, b)
        PROVE  FinalityInv'
    <2>1. b \in Blocks
      BY <1>1 DEF Sound, Shape
    <2>2. PICK s \in SnapshotAt(eng[n], Len(b) - 1) :
            /\ Parent(b) = s.chain
            /\ DieWhileCommitting(n, b,
                 Switched(Rewound(eng[n], s, Len(b)), b, Len(eng[n].st.chain)))
      BY <1>5 DEF CrashSwitching
    <2>3. s \in eng[n].snapshots /\ blocks' = blocks
      BY <1>5, <2>2 DEF SnapshotAt, CrashSwitching
    <2>4. Sound(Switched(Rewound(eng[n], s, Len(b)), b, Len(eng[n].st.chain)))
      BY <1>1, <2>1, <2>2, <2>3, SwitchedSound
    <2>5. OnBranch(Parent(b), eng[n].st.chain)
      BY <1>1, <2>2, <2>3 DEF Sound, Anchored
    <2> QED  BY <1>1, <2>1, <2>2, <2>3, <2>4, <2>5, DieInv
  <1> QED  BY <1>2, <1>3, <1>4, <1>5 DEF NodeFailure

(* The invariant is inductive. *)
LEMMA NextInv == FinalityInv /\ [Next]_vars => FinalityInv'
  <1>1. CASE Next
    BY <1>1, StepInv, FailureInv DEF Next
  <1>2. CASE UNCHANGED vars
    BY <1>2 DEF vars, FinalityInv
  <1> QED  BY <1>1, <1>2

-----------------------------------------------------------------------------
(* The inductive invariant of this module holds in every reachable state.  *)
THEOREM Inductive == Spec => []FinalityInv
  BY InitInv, NextInv, PTL DEF Spec

(* Finality is irrevocable: no fork choice, crash or restart takes a node  *)
(* off a block that one of its own blocks carries the commit of.           *)
THEOREM Finality == Spec => []FinalizedNeverReverted
  <1>1. FinalityInv => FinalizedNeverReverted
    BY DEF FinalityInv, FinalizedNeverReverted, Sound, Guarded
  <1> QED  BY <1>1, Inductive, PTL

(* Every restoration point a node keeps is one of its own chain's.         *)
THEOREM RestorationPoints == Spec => []SnapshotsOnBranch
  <1>1. FinalityInv => SnapshotsOnBranch
    BY DEF FinalityInv, SnapshotsOnBranch, Sound, Anchored
  <1> QED  BY <1>1, Inductive, PTL

-----------------------------------------------------------------------------
(* Votes and locks: a node with a key only ever climbs in rounds, and      *)
(* holds the locks it compares with.                                       *)

(* Up to height top, votes and locks belong to the branch of the node, and *)
(* each height it can rewind below is locked.                              *)
Covered(e, top) ==
    /\ \A v \in e.voted : Height(v) <= top
    /\ e.locked \subseteq Blocks
    /\ \A l \in e.locked : Len(l) <= top /\ OnBranch(l, e.st.chain)
    /\ \A s \in e.snapshots :
          Len(s.chain) + 1 <= top => \E l \in e.locked : Len(l) = Len(s.chain) + 1

Locked(e) == Covered(e, Len(e.st.chain))

(* A chain is followed by its extensions, and by a block that replaces one *)
(* of its blocks with a sibling of a higher round.                         *)
Follows(old, new) ==
    \/ OnBranch(old, new)
    \/ /\ new \in Blocks
       /\ Len(new) <= Len(old)
       /\ OnBranch(Parent(new), old)
       /\ new[Len(new)].round > old[Len(new)].round

(* What n may sign once its tip is c. *)
OwnVotes(n, c) ==
    {v \in Votes : /\ n \in Keyed /\ c \in Blocks
                   /\ v.voter = n /\ v.block = c /\ v.round = Round(c)}

(* The call that turns e into d, as far as votes and locks are concerned. *)
Careful(e, d, n) ==
    /\ n \in Keyed /\ Locked(e) => Locked(d) /\ Follows(e.st.chain, d.st.chain)
    /\ d.voted \subseteq e.voted \cup OwnVotes(n, d.st.chain)

(* d has committed b, and is about to vote for it. *)
Committed(e, d, b) ==
    /\ d.st.chain = b
    /\ d.voted \subseteq e.voted
    /\ Locked(e) => Covered(d, Len(b) - 1)

(* c extends b, or has a higher round where it leaves b. *)
Over(b, c) ==
    \/ OnBranch(b, c)
    \/ \E i \in 1 .. Len(b) :
          /\ i <= Len(c)
          /\ \A j \in 1 .. (i - 1) : b[j] = c[j]
          /\ c[i].round > b[i].round

VotingInv ==
    /\ \A n \in Keyed : Locked(eng[n])
    /\ \A n \in Nodes : eng[n].voted \subseteq sent
    /\ \A v \in sent :
          /\ v.voter \in Keyed
          /\ v.block \in Blocks
          /\ v.round = Round(v.block)
          /\ Over(v.block, eng[v.voter].st.chain)
    /\ NoSiblingEquivocation

-----------------------------------------------------------------------------
(* Rounds along a chain are numbers. *)
LEMMA RoundTyped ==
    ASSUME NEW c \in Chains, NEW i \in 1 .. Len(c)
    PROVE  c[i].round \in Nat
  <1>1. c[i] \in Headers
    BY DEF Chains
  <1> QED  BY <1>1, EngineAssumption DEF Headers, Rounds

(* Whatever is over a block stays over it when the chain moves on. *)
LEMMA FollowsOver ==
    ASSUME NEW b \in Blocks, NEW old \in Chains, NEW new \in Chains,
           Over(b, old), Follows(old, new)
    PROVE  Over(b, new)
  <1>1. Len(b) \in Nat /\ Len(old) \in Nat /\ Len(new) \in Nat /\ b \in Chains
    BY DEF Blocks, Chains
  <1>2. CASE OnBranch(old, new)
    <2>1. CASE OnBranch(b, old)
      BY <1>1, <1>2, <2>1, BranchOrder DEF Over
    <2>2. CASE ~OnBranch(b, old)
      <3>1. PICK i \in 1 .. Len(b) : /\ i <= Len(old)
                                     /\ \A j \in 1 .. (i - 1) : b[j] = old[j]
                                     /\ old[i].round > b[i].round
        BY <2>2 DEF Over
      <3>2. i <= Len(new) /\ \A j \in 1 .. i : old[j] = new[j]
        BY <1>1, <1>2, <3>1 DEF OnBranch
      <3> QED  BY <3>1, <3>2 DEF Over
    <2> QED  BY <2>1, <2>2
  <1>3. CASE ~OnBranch(old, new)
    <2> DEFINE h == Len(new)
    <2>1. /\ new \in Blocks /\ h <= Len(old) /\ new[h].round > old[h].round
          /\ OnBranch(Parent(new), old)
      BY <1>3 DEF Follows
    <2>2. h \in Nat \ {0} /\ \A j \in 1 .. (h - 1) : new[j] = old[j]
      BY <2>1, BlockParts DEF OnBranch
    <2>3. CASE OnBranch(b, old) /\ Len(b) < h
      <3>1. \A j \in 1 .. Len(b) : b[j] = new[j]
        BY <1>1, <2>2, <2>3 DEF OnBranch
      <3> QED  BY <2>3, <3>1, <1>1 DEF Over, OnBranch
    <2>4. CASE OnBranch(b, old) /\ Len(b) >= h
      <3>1. \A j \in 1 .. h : b[j] = old[j]
        BY <1>1, <2>2, <2>4 DEF OnBranch
      <3>2. h \in 1 .. Len(b) /\ new[h].round > b[h].round
        BY <1>1, <2>1, <2>2, <2>4, <3>1
      <3> QED  BY SMTT(40), <2>2, <3>1, <3>2 DEF Over
    <2>5. CASE ~OnBranch(b, old)
      <3>1. PICK i \in 1 .. Len(b) : /\ i <= Len(old)
                                     /\ \A j \in 1 .. (i - 1) : b[j] = old[j]
                                     /\ old[i].round > b[i].round
        BY <2>5 DEF Over
      <3>2. CASE i < h
        <4>1. i \in 1 .. (h - 1) /\ i <= h
          BY <2>2, <3>2
        <4>2. new[i] = old[i] /\ \A j \in 1 .. (i - 1) : new[j] = old[j]
          BY <2>2, <4>1
        <4> QED  BY <3>1, <4>1, <4>2 DEF Over
      <3>3. CASE i = h
        <4>1. b[h].round \in Nat /\ old[h].round \in Nat /\ new[h].round \in Nat
          BY <1>1, <2>1, <2>2, <3>1, <3>3, RoundTyped DEF Blocks
        <4>2. new[i].round > b[i].round
          BY <2>1, <3>1, <3>3, <4>1
        <4> QED  BY <2>2, <3>1, <3>3, <4>2 DEF Over
      <3>4. CASE i > h
        <4>1. h \in 1 .. Len(b) /\ \A j \in 1 .. h : b[j] = old[j]
          BY <1>1, <2>2, <3>1, <3>4
        <4>2. new[h].round > b[h].round
          BY <2>1, <2>2, <4>1
        <4> QED  BY <2>2, <4>1, <4>2 DEF Over
      <3> QED  BY <2>2, <3>2, <3>3, <3>4
    <2> QED  BY <1>1, <2>2, <2>3, <2>4, <2>5
  <1> QED  BY <1>2, <1>3

(* Of two siblings of one round, neither is over the other. *)
LEMMA OverSibling ==
    ASSUME NEW b \in Blocks, NEW c \in Blocks, Len(b) = Len(c), Parent(b) = Parent(c),
           Round(b) = Round(c), Over(b, c)
    PROVE  b = c
  <1> DEFINE k == Len(b)
  <1>1. /\ k \in Nat \ {0} /\ b \in Seq(Headers) /\ c \in Seq(Headers)
        /\ \A i \in 1 .. (k - 1) : b[i] = c[i]
    BY BlockParts DEF Blocks, Chains
  <1>2. b[k].round = c[k].round /\ b[k].round \in Nat
    BY <1>1, RoundTyped DEF Round, Header, Blocks
  <1>3. CASE OnBranch(b, c)
    <2>1. \A i \in 1 .. Len(b) : b[i] = c[i]
      BY <1>3 DEF OnBranch
    <2> QED  BY <1>1, <2>1, SeqEqual
  <1>4. CASE ~OnBranch(b, c)
    <2>1. PICK i \in 1 .. k : c[i].round > b[i].round
      BY <1>4 DEF Over
    <2>2. b[i].round = c[i].round /\ b[i].round \in Nat
      BY <1>1, <1>2, <2>1, RoundTyped DEF Blocks
    <2> QED  BY <2>1, <2>2
  <1> QED  BY <1>3, <1>4

-----------------------------------------------------------------------------
(* Calls that touch neither votes, locks, chain nor restoration points. *)
SameVotes(d, e) == SameCore(d, e) /\ d.voted = e.voted /\ d.locked = e.locked

(* freezeSetLocked is one of them. *)
LEMMA FreezeVotes ==
    ASSUME NEW e, Shape(e), NEW h
    PROVE  SameVotes(Freeze(e, h), e)
  BY DEF Freeze, Shape, SameCore, SameVotes

(* They leave the locks where they are. *)
LEMMA SameCovered ==
    ASSUME NEW d, NEW e, SameVotes(d, e), NEW top, Covered(e, top)
    PROVE  Covered(d, top)
  BY DEF SameVotes, SameCore, Covered

(* And they are careful, before or after a careful call. *)
LEMMA SameCareful ==
    ASSUME NEW e, NEW d, NEW n, SameVotes(d, e), e.st.chain \in Chains
    PROVE  /\ Careful(e, d, n)
           /\ \A f : Careful(d, f, n) => Careful(e, f, n)
  <1>1. d.st = e.st /\ d.voted = e.voted /\ (Locked(e) => Locked(d))
    BY SameCovered DEF SameVotes, SameCore, Locked
  <1>2. OnBranch(e.st.chain, e.st.chain)
    BY BranchOrder
  <1> QED  BY <1>1, <1>2 DEF Careful, Follows

(* Committing a block on the tip: heights below the new block stay covered *)
(* since a commit prunes restoration points and locks alike.               *)
LEMMA CommitVotes ==
    ASSUME NEW e, Sound(e), NEW b \in Blocks, Parent(b) = e.st.chain
    PROVE  Committed(e, CommitBlock(e, b), b)
  <1> DEFINE st == AfterBlock(e.st, b)
             d  == Snapshot([e EXCEPT !.st = AfterBlock(@, b), !.saved = @ \cup {b}])
             f  == Finalize(d, Len(b) - 1)
  <1>1. /\ b \in Chains /\ e.st.chain \in Chains
        /\ Len(e.st.chain) = Len(b) - 1 /\ Len(b) \in Nat \ {0}
        /\ OnBranch(e.st.chain, b)
    BY BlockParts, ParentOnBranch DEF Sound, Shape, StateShape, Blocks
  <1>2. st.chain = b /\ DOMAIN st = {"chain", "fin", "vals"}
    BY <1>1 DEF AfterBlock, Sound, Shape, StateShape
  <1> HIDE DEF st
  <1>3. d = [e EXCEPT !.st = st, !.saved = @ \cup {b},
                      !.snapshots = {s \in @ : Len(s.chain) # Len(st.chain)} \cup {st}]
    BY DEF Snapshot, Sound, Shape, st
  <1> HIDE DEF d
  <1>4. /\ d.st.chain = b /\ d.voted = e.voted /\ d.locked = e.locked
        /\ \A s \in d.snapshots : s \in e.snapshots \/ Len(s.chain) = Len(b)
        /\ DOMAIN d = DOMAIN e /\ d.st = st
    BY <1>2, <1>3 DEF Sound, Shape
  <1>5. ASSUME Locked(e)
        PROVE  Covered(d, Len(b) - 1)
    <2>1. \A l \in e.locked : OnBranch(l, b)
      <3> SUFFICES ASSUME NEW l \in e.locked PROVE OnBranch(l, b)
        OBVIOUS
      <3>1. l \in Chains /\ OnBranch(l, e.st.chain)
        BY <1>5 DEF Locked, Covered, Blocks
      <3> QED  BY <1>1, <3>1, BranchOrder
    <2>2. \A s \in d.snapshots : Len(s.chain) + 1 <= Len(b) - 1 => s \in e.snapshots
      BY <1>1, <1>4
    <2> QED  BY <1>1, <1>4, <1>5, <2>1, <2>2 DEF Locked, Covered
  <1>6. CASE Header(b).commit = {}
    BY <1>4, <1>5, <1>6 DEF CommitBlock, Committed, d
  <1>7. CASE Header(b).commit # {}
    <2>1. CommitBlock(e, b) = f
      BY <1>7 DEF CommitBlock, d
    <2>2. /\ f.st.chain = b
          /\ f.voted = {v \in d.voted : Height(v) > Len(b) - 1}
          /\ f.locked = {l \in d.locked : Len(l) > Len(b) - 1}
          /\ f.snapshots = {s \in d.snapshots : Len(s.chain) >= Len(b) - 1}
      BY <1>2, <1>4 DEF Finalize, Sound, Shape
    <2> HIDE DEF f
    <2>3. \A s \in f.snapshots : Len(s.chain) \in Nat
      <3>1. \A s \in e.snapshots : Len(s.chain) \in Nat
        BY DEF Sound, Shape, StateShape, Chains
      <3> QED  BY <1>1, <1>4, <2>2, <3>1
    <2>4. Locked(e) => Covered(f, Len(b) - 1)
      BY <1>1, <1>4, <1>5, <2>2, <2>3 DEF Covered
    <2> QED  BY <1>4, <2>1, <2>2, <2>4 DEF Committed
  <1> QED  BY <1>6, <1>7

(* What castVoteKind may sign, and that it signs on a free height. *)
LEMMA CastKindVotes ==
    ASSUME NEW e, Shape(e), NEW n \in Validators, NEW kind \in Kinds, NEW b \in Blocks
    PROVE  LET d == CastVoteKind(e, n, kind, b)
           IN  /\ d.voted \subseteq e.voted \cup (OwnVotes(n, b) \cap {VoteFor(n, kind, b)})
               /\ kind = "prevote" => d.locked = e.locked
               /\ n \notin Keyed => d.voted = e.voted
               /\ /\ n \in Keyed /\ kind = "precommit"
                  /\ \A l \in e.locked : Len(l) # Len(b)
                  /\ \A v \in e.voted : Height(v) = Len(b) => v.kind # "precommit"
                  => d.locked = e.locked \cup {b}
  <1> DEFINE v == VoteFor(n, kind, b)
             L == IF kind = "precommit" THEN {l \in e.locked : Len(l) # Len(b)} \cup {b}
                  ELSE e.locked
             c == [e EXCEPT !.voted = @ \cup {v}, !.pool = Add(@, v), !.locked = L]
             skip == \/ n \notin Keyed
                     \/ \E w \in e.voted : SameSlot(v, w)
                     \/ LockForbids(e, b)
  <1>1. v \in Votes
    BY VoteTyped
  <1>2. v.voter = n /\ v.kind = kind /\ v.block = b /\ v.round = Round(b)
    BY DEF VoteFor
  <1>3. CastVoteKind(e, n, kind, b) = IF skip THEN e ELSE c
    BY DEF CastVoteKind, Shape
  <1>4. c.voted = e.voted \cup {v} /\ c.locked = L
    BY DEF Shape
  <1>5. n \in Keyed => v \in OwnVotes(n, b)
    BY <1>1, <1>2 DEF OwnVotes
  <1>6. ASSUME n \in Keyed, kind = "precommit",
               \A l \in e.locked : Len(l) # Len(b),
               \A w \in e.voted : Height(w) = Len(b) => w.kind # "precommit"
        PROVE  ~skip /\ L = e.locked \cup {b}
    <2>1. ~LockForbids(e, b)
      BY <1>6 DEF LockForbids
    <2>2. \A w \in e.voted : ~SameSlot(v, w)
      BY <1>2, <1>6 DEF SameSlot, Height
    <2> QED  BY <1>6, <2>1, <2>2
  <1> HIDE DEF c, L
  <1>7. kind = "prevote" => L = e.locked
    BY DEF L
  <1> QED  BY <1>3, <1>4, <1>5, <1>6, <1>7 DEF v

(* Casting both votes on a block just committed locks it. *)
LEMMA CastCareful ==
    ASSUME NEW e, NEW d, Shape(d), NEW n \in Validators, NEW b \in Blocks,
           Committed(e, d, b), n \in Keyed /\ Locked(e) => Follows(e.st.chain, b)
    PROVE  Careful(e, CastVote(d, n, b), n)
  <1> DEFINE p == CastVoteKind(d, n, "prevote", b)
             q == CastVoteKind(p, n, "precommit", b)
  <1>1. Shape(p) /\ SameCore(p, d)
    BY CastKindShape DEF Kinds
  <1>2. /\ p.voted \subseteq d.voted \cup (OwnVotes(n, b) \cap {VoteFor(n, "prevote", b)})
        /\ p.locked = d.locked
    BY CastKindVotes DEF Kinds
  <1> HIDE DEF p
  <1>3. Shape(q) /\ SameCore(q, p)
    BY <1>1, CastKindShape DEF Kinds
  <1>4. /\ q.voted \subseteq p.voted \cup OwnVotes(n, b)
        /\ /\ n \in Keyed
           /\ \A l \in p.locked : Len(l) # Len(b)
           /\ \A v \in p.voted : Height(v) = Len(b) => v.kind # "precommit"
           => q.locked = p.locked \cup {b}
    BY <1>1, CastKindVotes DEF Kinds
  <1> HIDE DEF q
  <1>5. /\ q.st.chain = b /\ q.snapshots = d.snapshots /\ d.st.chain = b
        /\ q.voted \subseteq e.voted \cup OwnVotes(n, b)
        /\ q.voted \subseteq d.voted \cup OwnVotes(n, b)
    BY <1>1, <1>2, <1>3, <1>4 DEF SameCore, Committed
  <1>6. ASSUME n \in Keyed, Covered(d, Len(b) - 1)
        PROVE  Covered(q, Len(b))
    <2>1. b \in Chains /\ Len(b) \in Nat \ {0}
      BY BlockParts DEF Blocks
    <2>2. \A l \in p.locked : Len(l) # Len(b)
      BY <1>2, <1>6, <2>1 DEF Covered
    <2>3. \A v \in p.voted : Height(v) = Len(b) => v.kind # "precommit"
      <3>1. \A v \in d.voted : Height(v) # Len(b)
        BY <1>6, <2>1 DEF Covered
      <3>2. VoteFor(n, "prevote", b).kind # "precommit"
        BY DEF VoteFor
      <3> QED  BY <1>2, <3>1, <3>2
    <2>4. q.locked = d.locked \cup {b}
      BY <1>2, <1>4, <1>6, <2>2, <2>3
    <2>5. \A v \in q.voted : Height(v) <= Len(b)
      <3>1. \A v \in d.voted : Height(v) \in Nat
        BY DEF Shape, Votes, Chains, Height
      <3>2. \A v \in d.voted : Height(v) <= Len(b)
        BY <1>6, <2>1, <3>1 DEF Covered
      <3>3. \A v \in OwnVotes(n, b) : Height(v) = Len(b)
        BY DEF OwnVotes, Height
      <3> QED  BY <1>5, <2>1, <3>2, <3>3
    <2>6. \A l \in q.locked : Len(l) <= Len(b) /\ OnBranch(l, q.st.chain)
      <3>1. \A l \in d.locked : Len(l) \in Nat
        BY <1>6 DEF Covered, Blocks, Chains
      <3> QED  BY <1>5, <1>6, <2>1, <2>4, <3>1, BranchOrder DEF Covered
    <2>7. ASSUME NEW s \in q.snapshots, Len(s.chain) + 1 <= Len(b)
          PROVE  \E l \in q.locked : Len(l) = Len(s.chain) + 1
      <3>1. Len(s.chain) \in Nat
        BY <1>3, <2>7 DEF Shape, StateShape, Chains
      <3>2. CASE Len(s.chain) + 1 = Len(b)
        BY <2>4, <3>2
      <3>3. CASE Len(s.chain) + 1 <= Len(b) - 1
        BY <1>5, <1>6, <2>4, <2>7, <3>3 DEF Covered
      <3> QED  BY <2>1, <2>7, <3>1, <3>2, <3>3
    <2> QED  BY <1>6, <2>4, <2>5, <2>6, <2>7 DEF Covered
  <1>7. CastVote(d, n, b) = q
    BY DEF CastVote, p, q
  <1> QED  BY <1>5, <1>6, <1>7 DEF Careful, Locked, Committed

(* A block received for the next height is committed before it is voted. *)
LEMMA AcceptedVotes ==
    ASSUME NEW e, Sound(e), NEW b \in Blocks, Parent(b) = e.st.chain
    PROVE  Committed(e, Accepted(e, b), b)
  <1> DEFINE d == Freeze(e, Len(b))
             c == CommitBlock(d, b)
  <1>1. Sound(d) /\ SameVotes(d, e) /\ Parent(b) = d.st.chain
    BY FreezeSound, FreezeVotes DEF Sound, SameCore
  <1>2. Locked(e) => Locked(d)
    BY <1>1, SameCovered DEF Locked, SameVotes, SameCore
  <1>3. Sound(c) /\ Committed(d, c, b)
    <2> HIDE DEF d
    <2> QED  BY <1>1, CommitSound, CommitVotes
  <1>4. SameVotes(Accepted(e, b), c)
    BY <1>3 DEF Accepted, Sound, Shape, SameVotes, SameCore
  <1> HIDE DEF c, d
  <1> QED  BY <1>1, <1>2, <1>3, <1>4, SameCovered DEF Committed, SameVotes, SameCore

(* So is the block ProduceOnce builds. *)
LEMMA ProducedVotes ==
    ASSUME NEW e, Sound(e), NEW b \in Blocks, Parent(b) = e.st.chain
    PROVE  Committed(e, Produced(e, b), b)
  <1> DEFINE d == Freeze(e, Len(b))
             c == [d EXCEPT !.evidence = {}]
  <1>1. Sound(d) /\ SameVotes(d, e)
    BY FreezeSound, FreezeVotes DEF Sound
  <1>2. Sound(c) /\ SameVotes(c, d)
    <2> HIDE DEF d
    <2> QED  BY <1>1, EvidenceSound DEF SameVotes, Sound, Shape
  <1> HIDE DEF c, d
  <1>3. SameVotes(c, e) /\ Parent(b) = c.st.chain
    BY <1>1, <1>2 DEF SameVotes, SameCore
  <1>4. Locked(e) => Locked(c)
    BY <1>3, SameCovered DEF Locked, SameVotes, SameCore
  <1>5. Committed(c, CommitBlock(c, b), b)
    BY <1>2, <1>3, CommitVotes
  <1>6. Produced(e, b) = CommitBlock(c, b)
    BY DEF Produced, c, d
  <1> QED  BY <1>3, <1>4, <1>5, <1>6 DEF Committed, SameVotes

(* The tip is followed by its children. *)
LEMMA ChildFollows ==
    ASSUME NEW b \in Blocks
    PROVE  Follows(Parent(b), b)
  BY ParentOnBranch DEF Follows

(* ApplyExternalBlock for the next height. *)
LEMMA ExtendCareful ==
    ASSUME NEW e, Sound(e), NEW n \in Validators, NEW b \in Blocks
    PROVE  Careful(e, Extend(e, n, b), n)
  <1>1. e.st.chain \in Chains /\ SameVotes(e, e) /\ SameVotes(Freeze(e, Len(b)), e)
    BY FreezeVotes DEF Sound, Shape, StateShape, SameVotes, SameCore
  <1>2. CASE Parent(b) # e.st.chain
    BY <1>1, <1>2, SameCareful DEF Extend
  <1>3. CASE Parent(b) = e.st.chain /\ ~Valid(Freeze(e, Len(b)), b)
    BY <1>1, <1>3, SameCareful DEF Extend
  <1>4. CASE Parent(b) = e.st.chain /\ Valid(Freeze(e, Len(b)), b)
    <2>1. Shape(Accepted(e, b)) /\ Committed(e, Accepted(e, b), b)
      BY <1>4, AcceptedSound, AcceptedVotes DEF Sound
    <2>2. Follows(e.st.chain, b)
      BY <1>4, ChildFollows
    <2>3. Careful(e, CastVote(Accepted(e, b), n, b), n)
      BY <2>1, <2>2, CastCareful
    <2> QED  BY <1>4, <2>3 DEF Extend
  <1> QED  BY <1>2, <1>3, <1>4

(* ProduceOnce without a block. *)
LEMMA IdleCareful ==
    ASSUME NEW e, Sound(e), NEW n, NEW elected
    PROVE  Careful(e, Idle(e, elected), n)
  <1> DEFINE d == Freeze(e, Len(e.st.chain) + 1)
  <1>1. Shape(d) /\ SameVotes(d, e)
    BY FreezeShape, FreezeVotes DEF Sound
  <1>2. SameVotes(Idle(e, elected), e)
    BY <1>1 DEF Idle, Shape, SameVotes, SameCore
  <1>3. e.st.chain \in Chains
    BY DEF Sound, Shape, StateShape
  <1> QED  BY <1>2, <1>3, SameCareful

-----------------------------------------------------------------------------
(* Fork choice. *)

(* The votes and the locks of the abandoned heights are gone, and those    *)
(* that stay lie below the block the engine turns to.                      *)
LEMMA SwitchedVotes ==
    ASSUME NEW e, Sound(e), NEW s \in e.snapshots, NEW b \in Blocks, Parent(b) = s.chain
    PROVE  Committed(e, Switched(Rewound(e, s, Len(b)), b, Len(e.st.chain)), b)
  <1> DEFINE h   == Len(b)
             top == Len(e.st.chain)
             p   == [e EXCEPT !.st = s]
             r   == Rewound(e, s, h)
             a   == Abandon(r, h, top)
             c   == CommitBlock(a, b)
             d   == [c EXCEPT !.voted  = {v \in @ : Height(v) # h},
                              !.locked = {l \in @ : Len(l) # h}]
  <1>1. /\ h \in Nat \ {0} /\ h = Len(s.chain) + 1 /\ top \in Nat
        /\ s.chain \in Chains /\ e.st.chain \in Chains
        /\ OnBranch(s.chain, e.st.chain)
    BY BlockParts DEF Sound, Anchored, Shape, StateShape, Chains
  <1>2. Sound(a) /\ a.st = s
    BY <1>1, AbandonSound
  <1>3. /\ a.voted = {v \in e.voted : Height(v) \notin h .. top}
        /\ a.locked = {l \in e.locked : Len(l) \notin h .. top}
        /\ a.snapshots = {q \in e.snapshots : Len(q.chain) \notin h .. top}
    <2>1. /\ Shape(p) /\ p.voted = e.voted /\ p.locked = e.locked
          /\ p.snapshots = e.snapshots
      BY DEF Sound, Shape
    <2>2. r = Freeze(p, h)
      BY DEF Rewound
    <2> HIDE DEF p, r, h, top
    <2>3. Shape(r) /\ SameVotes(r, p)
      BY <2>1, <2>2, FreezeShape, FreezeVotes
    <2> QED  BY <2>1, <2>3 DEF Abandon, SameVotes, SameCore, Shape
  <1> HIDE DEF a
  <1>4. ASSUME Locked(e)
        PROVE  Locked(a)
    <2>1. \A v \in a.voted : Height(v) <= Len(s.chain)
      <3>1. \A v \in e.voted : Height(v) \in Nat /\ Height(v) <= top
        BY <1>4 DEF Locked, Covered, Sound, Shape, Votes, Chains, Height
      <3> QED  BY <1>1, <1>3, <3>1
    <2>2. a.locked \subseteq Blocks
      BY <1>3, <1>4 DEF Locked, Covered
    <2>3. \A l \in a.locked : Len(l) <= Len(s.chain) /\ OnBranch(l, s.chain)
      <3> SUFFICES ASSUME NEW l \in a.locked
                   PROVE  Len(l) <= Len(s.chain) /\ OnBranch(l, s.chain)
        OBVIOUS
      <3>1. l \in Chains /\ Len(l) \in Nat /\ Len(l) <= top /\ OnBranch(l, e.st.chain)
        BY <1>3, <1>4 DEF Locked, Covered, Blocks, Chains
      <3>2. Len(l) <= Len(s.chain)
        BY <1>1, <1>3, <3>1
      <3> QED  BY <1>1, <3>1, <3>2, BranchOrder
    <2>4. ASSUME NEW q \in a.snapshots, Len(q.chain) + 1 <= Len(s.chain)
          PROVE  \E l \in a.locked : Len(l) = Len(q.chain) + 1
      <3>1. Len(q.chain) \in Nat /\ Len(s.chain) <= top /\ q \in e.snapshots
        BY <1>1, <1>3, <2>4 DEF Sound, Shape, StateShape, Chains, OnBranch
      <3>2. PICK l \in e.locked : Len(l) = Len(q.chain) + 1
        BY <1>1, <1>4, <2>4, <3>1 DEF Locked, Covered
      <3>3. l \in a.locked
        BY <1>1, <1>3, <2>4, <3>1, <3>2
      <3> QED  BY <3>2, <3>3
    <2> QED  BY <1>2, <2>1, <2>2, <2>3, <2>4 DEF Locked, Covered
  <1>5. Sound(c) /\ Committed(a, c, b)
    BY <1>2, CommitSound, CommitVotes
  <1> HIDE DEF c
  <1>6. /\ d.st = c.st /\ d.snapshots = c.snapshots
        /\ d.voted = {v \in c.voted : Height(v) # h}
        /\ d.locked = {l \in c.locked : Len(l) # h}
    BY <1>5 DEF Sound, Shape
  <1>7. d.voted \subseteq e.voted
    BY <1>3, <1>5, <1>6 DEF Committed
  <1>8. ASSUME Covered(c, h - 1)
        PROVE  Covered(d, h - 1)
    <2>1. \A q \in c.snapshots : Len(q.chain) \in Nat
      BY <1>5 DEF Sound, Shape, StateShape, Chains
    <2> QED  BY <1>1, <1>6, <1>8, <2>1 DEF Covered
  <1>9. Switched(r, b, top) = d
    BY DEF Switched, c, a
  <1> QED  BY <1>4, <1>5, <1>6, <1>7, <1>8, <1>9 DEF Committed

(* The lock of the height is on the node's own block there, so a candidate *)
(* of tryReorgLocked has a higher round than that block.                   *)
LEMMA CandidateFollows ==
    ASSUME NEW e, Sound(e), Locked(e), NEW b, b \in Candidates(e, Len(b)),
           Len(b) <= Len(e.st.chain), NEW s \in e.snapshots, Parent(b) = s.chain
    PROVE  Follows(e.st.chain, b)
  <1>1. b \in Blocks /\ Round(b) > OurRound(e, Len(b))
    BY DEF Candidates, Sound, Shape
  <1>2. Len(b) = Len(s.chain) + 1 /\ OnBranch(Parent(b), e.st.chain)
    BY <1>1, BlockParts DEF Sound, Anchored
  <1>3. \E l \in e.locked : Len(l) = Len(b)
    BY <1>2 DEF Locked, Covered
  <1> DEFINE l == CHOOSE l \in e.locked : Len(l) = Len(b)
  <1>4. l \in e.locked /\ Len(l) = Len(b)
    BY <1>3
  <1>5. OurRound(e, Len(b)) = Round(l)
    BY <1>3 DEF OurRound
  <1> HIDE DEF l
  <1>6. l[Len(l)] = e.st.chain[Len(l)]
    <2>1. l \in Blocks /\ OnBranch(l, e.st.chain)
      BY <1>4 DEF Locked, Covered
    <2>2. Len(l) \in 1 .. Len(l)
      BY <2>1, BlockParts
    <2> QED  BY <2>1, <2>2 DEF OnBranch
  <1>7. b[Len(b)].round > e.st.chain[Len(b)].round
    BY <1>1, <1>4, <1>5, <1>6 DEF Round, Header
  <1> QED  BY <1>1, <1>2, <1>7 DEF Follows

(* reorgToLocked for a candidate of tryReorgLocked. *)
LEMMA ReorgCareful ==
    ASSUME NEW e, Sound(e), NEW n \in Validators, NEW b, b \in Candidates(e, Len(b)),
           Len(b) <= Len(e.st.chain)
    PROVE  Careful(e, ReorgTo(e, n, b), n)
  <1>1. /\ b \in Blocks /\ e.st.chain \in Chains /\ SameVotes(e, e)
        /\ Careful(e, e, n)
    BY SameCareful DEF Candidates, Sound, Shape, StateShape, SameVotes, SameCore
  <1>2. CASE Len(b) - 1 < e.st.fin \/ SnapshotAt(e, Len(b) - 1) = {}
    BY <1>1, <1>2 DEF ReorgTo
  <1>3. CASE ~(Len(b) - 1 < e.st.fin) /\ SnapshotAt(e, Len(b) - 1) # {}
    <2> DEFINE s == CHOOSE x \in SnapshotAt(e, Len(b) - 1) : TRUE
               r == Rewound(e, s, Len(b))
               w == Switched(r, b, Len(e.st.chain))
    <2>1. s \in e.snapshots
      BY <1>3 DEF SnapshotAt
    <2>2. ReorgTo(e, n, b) =
            IF Parent(b) # s.chain THEN e
            ELSE IF ~Valid(r, b) THEN [r EXCEPT !.st = e.st]
            ELSE CastVote(w, n, b)
      BY <1>3 DEF ReorgTo
    <2> HIDE DEF s
    <2>3. Careful(e, [r EXCEPT !.st = e.st], n)
      <3> DEFINE p == [e EXCEPT !.st = s]
      <3>1. /\ Shape(p) /\ p.saved = e.saved /\ p.snapshots = e.snapshots
            /\ p.voted = e.voted /\ p.locked = e.locked
        BY <2>1 DEF Sound, Shape
      <3>2. r = Freeze(p, Len(b))
        BY DEF Rewound
      <3> HIDE DEF p, r
      <3>3. Shape(r) /\ SameVotes(r, p)
        BY <3>1, <3>2, FreezeShape, FreezeVotes
      <3>4. SameVotes([r EXCEPT !.st = e.st], e)
        BY <3>1, <3>3 DEF Shape, SameVotes, SameCore
      <3> QED  BY <1>1, <3>4, SameCareful
    <2>4. Parent(b) = s.chain => Careful(e, CastVote(w, n, b), n)
      <3>1. SUFFICES ASSUME Parent(b) = s.chain PROVE Careful(e, CastVote(w, n, b), n)
        OBVIOUS
      <3>2. Shape(w) /\ Committed(e, w, b)
        BY <1>1, <2>1, <3>1, SwitchedSound, SwitchedVotes DEF Sound
      <3>3. Locked(e) => Follows(e.st.chain, b)
        BY <2>1, <3>1, CandidateFollows
      <3> HIDE DEF w
      <3> QED  BY <1>1, <3>2, <3>3, CastCareful
    <2> HIDE DEF r, w
    <2> QED  BY <1>1, <2>2, <2>3, <2>4
  <1> QED  BY <1>2, <1>3

(* tryReorgLocked. *)
LEMMA TryReorgCareful ==
    ASSUME NEW e, Sound(e), NEW n \in Validators, NEW h, NEW d \in TryReorg(e, n, h)
    PROVE  Careful(e, d, n)
  <1>1. Careful(e, e, n) /\ Len(e.st.chain) \in Nat
    BY SameCareful DEF Sound, Shape, StateShape, SameVotes, SameCore, Chains
  <1>2. ASSUME ~(h > Len(e.st.chain)), NEW b \in Candidates(e, h)
        PROVE  Careful(e, ReorgTo(e, n, b), n)
    <2>1. b \in Blocks /\ Len(b) = h
      BY DEF Candidates, Sound, Shape
    <2>2. Len(b) <= Len(e.st.chain)
      BY <1>1, <1>2, <2>1, BlockParts
    <2> QED  BY <2>1, <2>2, ReorgCareful
  <1> QED  BY <1>1, <1>2 DEF TryReorg

(* ApplyExternalBlock, considerFork included. *)
LEMMA ApplyCareful ==
    ASSUME NEW e, Sound(e), NEW n \in Validators, NEW b \in Blocks,
           NEW d \in ApplyExternalBlock(e, n, b)
    PROVE  Careful(e, d, n)
  <1> DEFINE f == [e EXCEPT !.forks = @ \cup {b}]
  <1>1. Shape(f) /\ SameVotes(f, e)
    BY DEF Sound, Shape, SameVotes, SameCore
  <1>2. Sound(f) /\ e.st.chain \in Chains
    BY <1>1, CoreSound DEF SameVotes, Sound, Shape, StateShape
  <1>3. Careful(e, e, n)
    BY <1>2, SameCareful DEF SameVotes, SameCore
  <1>4. d = e \/ d = Extend(e, n, b) \/ d \in TryReorg(f, n, Len(b))
    BY DEF ApplyExternalBlock, ConsiderFork
  <1> HIDE DEF f
  <1> QED  BY <1>1, <1>2, <1>3, <1>4, ExtendCareful, TryReorgCareful, SameCareful

(* AddVote, also when the vote completes a polka. *)
LEMMA AddVoteCareful ==
    ASSUME NEW e, Sound(e), NEW n \in Validators, NEW v \in Votes, NEW d \in AddVote(e, n, v)
    PROVE  Careful(e, d, n)
  <1> DEFINE q == RecordEquivocation(e, v)
             p == [q EXCEPT !.pool = Add(@, v)]
  <1>1. FaultOf(v) \in Faults
    BY DEF FaultOf, Faults, Votes, Chains, Height
  <1>2. Shape(q) /\ SameVotes(q, e)
    BY <1>1 DEF RecordEquivocation, Sound, Shape, SameVotes, SameCore
  <1> HIDE DEF q
  <1>3. Add(q.pool, v) \in PoolType
    BY <1>2, PoolTyped DEF Shape
  <1>4. Shape(p) /\ SameVotes(p, e)
    BY <1>2, <1>3 DEF Shape, SameVotes, SameCore
  <1>5. Sound(p) /\ e.st.chain \in Chains
    BY <1>4, CoreSound DEF SameVotes, Sound, Shape, StateShape
  <1>6. d = e \/ d = p \/ d \in TryReorg(p, n, Height(v))
    BY DEF AddVote, q
  <1>7. Careful(e, e, n) /\ Careful(e, p, n)
    BY <1>4, <1>5, SameCareful DEF SameVotes, SameCore
  <1> HIDE DEF p
  <1> QED  BY <1>4, <1>5, <1>6, <1>7, TryReorgCareful, SameCareful

(* ProduceOnce of the elected node. *)
LEMMA ProduceCareful ==
    ASSUME NEW e, Sound(e), NEW n \in Validators, NEW b \in Blocks, Parent(b) = e.st.chain
    PROVE  Careful(e, CastVote(Produced(e, b), n, b), n)
  <1>1. Shape(Produced(e, b)) /\ Committed(e, Produced(e, b), b) /\ Follows(e.st.chain, b)
    BY ProducedSound, ProducedVotes, ChildFollows DEF Sound
  <1> QED  BY <1>1, CastCareful

-----------------------------------------------------------------------------
(* Votes of siblings. *)

(* Two votes of one slot on one tip are one vote. *)
LEMMA OneVote ==
    ASSUME NEW v \in Votes, NEW w \in Votes, v.block = w.block, SameSlot(v, w)
    PROVE  v = w
  BY DEF Votes, SameSlot

(* A step of n: it votes for its new tip, and every node with a key moves  *)
(* up in the order of the rounds.                                          *)
Moved(n) ==
    /\ \A m \in Nodes \ {n} : eng'[m] = eng[m]
    /\ sent \subseteq sent' /\ sent' \subseteq sent \cup OwnVotes(n, eng'[n].st.chain)
    /\ \A m \in Keyed : Follows(eng[m].st.chain, eng'[m].st.chain)

(* A step of n that is careful, that broadcasts votes on its new tip only, *)
(* and that leaves every other engine alone, keeps the invariant.          *)
LEMMA CarefulStep ==
    ASSUME FinalityInv, FinalityInv', VotingInv, NEW n \in Nodes, NEW d,
           eng' = [eng EXCEPT ![n] = d], Careful(eng[n], d, n),
           sent \subseteq sent', d.voted \subseteq sent',
           sent' \subseteq sent \cup OwnVotes(n, d.st.chain)
    PROVE  VotingInv' /\ Moved(n)
  <1> DEFINE new == OwnVotes(n, d.st.chain)
  <1>1. /\ n \in Validators /\ Keyed \subseteq Nodes
        /\ eng'[n] = d /\ \A m \in Nodes \ {n} : eng'[m] = eng[m]
        /\ \A m \in Nodes : eng[m].st.chain \in Chains /\ eng'[m].st.chain \in Chains
    BY EngineAssumption DEF FinalityInv, Sound, Shape, StateShape
  <1>2. /\ \A m \in Keyed : Locked(eng'[m])
        /\ \A m \in Keyed : Follows(eng[m].st.chain, eng'[m].st.chain)
    <2>1. \A m \in Keyed : Follows(eng[m].st.chain, eng[m].st.chain)
      BY <1>1, BranchOrder DEF Follows
    <2> QED  BY <1>1, <2>1 DEF VotingInv, Careful
  <1>3. \A m \in Nodes : eng'[m].voted \subseteq sent'
    BY <1>1 DEF VotingInv
  <1>4. ASSUME NEW v \in new, v \in sent'
        PROVE  /\ v.voter = n /\ n \in Keyed /\ v.block = d.st.chain /\ v.block \in Blocks
               /\ v.round = Round(v.block) /\ v \in Votes
               /\ Over(v.block, d.st.chain)
    BY <1>1, <1>4, BranchOrder DEF OwnVotes, Over
  <1>5. ASSUME NEW v \in sent
        PROVE  /\ v.voter \in Keyed /\ v.block \in Blocks /\ v.round = Round(v.block)
               /\ Over(v.block, eng'[v.voter].st.chain)
    <2>1. /\ v.voter \in Keyed /\ v.block \in Blocks /\ v.round = Round(v.block)
          /\ Over(v.block, eng[v.voter].st.chain)
      BY DEF VotingInv
    <2> QED  BY <1>1, <1>2, <2>1, FollowsOver
  <1>6. /\ sent' \subseteq Votes /\ sent \subseteq Votes
        /\ \A v \in sent' : v \in sent \/ v \in new
    BY DEF FinalityInv
  <1>7. \A v \in sent' : /\ v.voter \in Keyed /\ v.block \in Blocks
                         /\ v.round = Round(v.block)
                         /\ Over(v.block, eng'[v.voter].st.chain)
    BY <1>1, <1>4, <1>5, <1>6
  <1>8. ASSUME NEW v \in sent', NEW w \in sent', SameSlot(v, w),
               Parent(v.block) = Parent(w.block), w \in new
        PROVE  v = w
    <2>1. CASE v \in new
      BY <1>4, <1>6, <1>8, <2>1, OneVote
    <2>2. CASE v \in sent
      <3>1. Over(v.block, w.block) /\ v.block \in Blocks /\ w.block \in Blocks
        BY <1>1, <1>4, <1>5, <1>8, <2>2 DEF SameSlot
      <3>2. Len(v.block) = Len(w.block) /\ Round(v.block) = Round(w.block)
        BY <1>7, <1>8 DEF SameSlot, Height
      <3>3. v.block = w.block
        BY <1>8, <3>1, <3>2, OverSibling
      <3> QED  BY <1>6, <1>8, <3>3, OneVote
    <2> QED  BY <1>6, <2>1, <2>2
  <1>9. NoSiblingEquivocation'
    <2> SUFFICES ASSUME NEW v \in sent', NEW w \in sent', SameSlot(v, w),
                        Parent(v.block) = Parent(w.block)
                 PROVE  v = w
      BY DEF NoSiblingEquivocation, SameSlot, Parent, Height
    <2>1. SameSlot(w, v)
      BY DEF SameSlot
    <2>2. CASE v \in sent /\ w \in sent
      BY <2>2 DEF VotingInv, NoSiblingEquivocation
    <2>3. CASE w \in new
      BY <1>8, <2>3
    <2>4. CASE v \in new
      BY <1>8, <2>1, <2>4
    <2> QED  BY <1>6, <2>2, <2>3, <2>4
  <1> QED  BY <1>1, <1>2, <1>3, <1>7, <1>9 DEF VotingInv, Moved

(* A call, which broadcasts all the votes that are cast. *)
LEMMA BecomesVoting ==
    ASSUME FinalityInv, FinalityInv', VotingInv, NEW n \in Nodes, NEW d,
           Careful(eng[n], d, n), Becomes(n, d)
    PROVE  VotingInv' /\ Moved(n)
  <1>1. eng' = [eng EXCEPT ![n] = d] /\ sent' = sent \cup d.voted
    BY DEF Becomes
  <1>2. d.voted \subseteq sent \cup OwnVotes(n, d.st.chain)
    BY DEF Careful, VotingInv
  <1> QED  BY <1>1, <1>2, CarefulStep

(* A node that starts has neither votes, nor locks, nor restoration points. *)
LEMMA StartedCareful ==
    ASSUME NEW e, NEW st, NEW saved, NEW n,
           n \in Keyed /\ Locked(e) => Follows(e.st.chain, st.chain)
    PROVE  Careful(e, Started(st, saved), n)
  BY DEF Careful, Started, Locked, Covered

(* A crash inside a call that commits b. *)
LEMMA DieVoting ==
    ASSUME FinalityInv, FinalityInv', VotingInv, NEW n \in Nodes, NEW b \in Blocks,
           NEW done, Shape(done), Committed(eng[n], done, b),
           n \in Keyed /\ Locked(eng[n]) => Follows(eng[n].st.chain, b),
           DieWhileCommitting(n, b, done)
    PROVE  VotingInv' /\ Moved(n)
  <1> DEFINE cast == CastVoteKind(done, n, "prevote", b)
             same == Started(eng[n].st, eng[n].saved \cup {b})
             next == Started(done.st, done.saved)
  <1>1. n \in Validators /\ eng[n].st.chain \in Chains
    BY EngineAssumption DEF FinalityInv, Sound, Shape, StateShape
  <1>2. cast.voted \subseteq sent \cup OwnVotes(n, b)
    BY <1>1, CastKindVotes DEF Kinds, Committed, VotingInv
  <1> HIDE DEF cast
  <1>3. \/ eng' = [eng EXCEPT ![n] = same] /\ sent' = sent
        \/ eng' = [eng EXCEPT ![n] = next] /\ sent' \in {sent, sent \cup cast.voted}
    BY DEF DieWhileCommitting, cast
  <1>4. Follows(eng[n].st.chain, eng[n].st.chain) /\ done.st.chain = b
    BY <1>1, BranchOrder DEF Follows, Committed
  <1>5. Careful(eng[n], same, n) /\ Careful(eng[n], next, n)
    BY <1>4, StartedCareful
  <1>6. same.voted = {} /\ next.voted = {} /\ next.st.chain = b
    BY <1>4 DEF Started
  <1> HIDE DEF same, next
  <1>7. CASE eng' = [eng EXCEPT ![n] = same] /\ sent' = sent
    BY <1>5, <1>6, <1>7, CarefulStep
  <1>8. CASE eng' = [eng EXCEPT ![n] = next] /\ sent' \in {sent, sent \cup cast.voted}
    BY <1>2, <1>5, <1>6, <1>8, CarefulStep
  <1> QED  BY <1>3, <1>7, <1>8

-----------------------------------------------------------------------------
(* Nodes that start at the genesis have cast no vote. *)
LEMMA InitVoting == Init => VotingInv
  BY EngineAssumption
  DEF Init, VotingInv, NoSiblingEquivocation, Started, Genesis, Locked, Covered

(* Every call a node handles is careful. *)
LEMMA StepVoting ==
    ASSUME FinalityInv, FinalityInv', VotingInv, NEW n \in Nodes, NodeStep(n)
    PROVE  VotingInv' /\ Moved(n)
  <1>1. Sound(eng[n]) /\ n \in Validators /\ blocks \subseteq Blocks /\ sent \subseteq Votes
    BY EngineAssumption DEF FinalityInv
  <1>2. SUFFICES \E d : Careful(eng[n], d, n) /\ Becomes(n, d)
    BY BecomesVoting
  <1>3. ASSUME NEW r \in Rounds, NEW p \in Payloads, Produce(n, r, p)
        PROVE  \E d : Careful(eng[n], d, n) /\ Becomes(n, d)
    <2> DEFINE b == Proposal(eng[n], n, r, p)
    <2>1. b \in Blocks /\ Parent(b) = eng[n].st.chain
      BY <1>1, ProposalTyped
    <2>2. Becomes(n, CastVote(Produced(eng[n], b), n, b))
      BY <1>3 DEF Produce
    <2> HIDE DEF b
    <2> QED  BY <1>1, <2>1, <2>2, ProduceCareful
  <1>4. ASSUME NEW r \in Rounds, ProduceNothing(n, r)
        PROVE  \E d : Careful(eng[n], d, n) /\ Becomes(n, d)
    BY <1>1, <1>4, IdleCareful DEF ProduceNothing
  <1>5. ASSUME NEW b \in blocks \cup EnvBlocks, ReceiveBlock(n, b)
        PROVE  \E d : Careful(eng[n], d, n) /\ Becomes(n, d)
    BY <1>1, <1>5, EnvironmentTyped, ApplyCareful DEF ReceiveBlock
  <1>6. ASSUME NEW v \in sent \cup EnvVotes, ReceiveVote(n, v)
        PROVE  \E d : Careful(eng[n], d, n) /\ Becomes(n, d)
    BY <1>1, <1>6, EnvironmentTyped, AddVoteCareful DEF ReceiveVote
  <1> QED  BY <1>3, <1>4, <1>5, <1>6 DEF NodeStep

(* So is every crash: what reached the disk never lags behind a vote. *)
LEMMA FailureVoting ==
    ASSUME FinalityInv, FinalityInv', VotingInv, NEW n \in Nodes, NodeFailure(n)
    PROVE  VotingInv' /\ Moved(n)
  <1> DEFINE Goal == VotingInv' /\ Moved(n)
  <1>1. Sound(eng[n]) /\ n \in Validators /\ blocks \subseteq Blocks /\ sent \subseteq Votes
    BY EngineAssumption DEF FinalityInv
  <1>2. ASSUME Restart(n)
        PROVE  Goal
    <2> DEFINE d == Started(eng[n].st, eng[n].saved)
    <2>1. eng' = [eng EXCEPT ![n] = d] /\ sent' = sent
      BY <1>2 DEF Restart
    <2>2. Follows(eng[n].st.chain, eng[n].st.chain)
      BY <1>1, BranchOrder DEF Follows, Sound, Shape, StateShape
    <2>3. Careful(eng[n], d, n) /\ d.voted = {}
      BY <2>2, StartedCareful DEF Started
    <2> HIDE DEF d
    <2> QED  BY <2>1, <2>3, CarefulStep
  <1>3. ASSUME NEW b \in blocks \cup EnvBlocks, CrashAppending(n, b)
        PROVE  Goal
    <2>1. /\ b \in Blocks /\ Parent(b) = eng[n].st.chain
          /\ DieWhileCommitting(n, b, Accepted(eng[n], b))
      BY <1>1, <1>3, EnvironmentTyped DEF CrashAppending
    <2>2. Shape(Accepted(eng[n], b)) /\ Committed(eng[n], Accepted(eng[n], b), b)
      BY <1>1, <2>1, AcceptedSound, AcceptedVotes DEF Sound
    <2>3. Follows(eng[n].st.chain, b)
      BY <2>1, ChildFollows
    <2> QED  BY <2>1, <2>2, <2>3, DieVoting
  <1>4. ASSUME NEW r \in Rounds, NEW p \in Payloads, CrashProducing(n, r, p)
        PROVE  Goal
    <2> DEFINE b == Proposal(eng[n], n, r, p)
    <2>1. b \in Blocks /\ Parent(b) = eng[n].st.chain
      BY <1>1, ProposalTyped
    <2>2. DieWhileCommitting(n, b, Produced(eng[n], b))
      BY <1>4 DEF CrashProducing
    <2> HIDE DEF b
    <2>3. Shape(Produced(eng[n], b)) /\ Committed(eng[n], Produced(eng[n], b), b)
      BY <1>1, <2>1, ProducedSound, ProducedVotes DEF Sound
    <2>4. Follows(eng[n].st.chain, b)
      BY <2>1, ChildFollows
    <2> QED  BY <2>1, <2>2, <2>3, <2>4, DieVoting
  <1>5. ASSUME NEW b \in eng[n].forks, CrashSwitching(n, b)
        PROVE  Goal
    <2>1. /\ b \in Blocks /\ b \in Candidates(eng[n], Len(b))
          /\ Len(b) <= Len(eng[n].st.chain)
      BY <1>1, <1>5 DEF CrashSwitching, Sound, Shape
    <2>2. PICK s \in SnapshotAt(eng[n], Len(b) - 1) :
            /\ Parent(b) = s.chain
            /\ DieWhileCommitting(n, b,
                 Switched(Rewound(eng[n], s, Len(b)), b, Len(eng[n].st.chain)))
      BY <1>5 DEF CrashSwitching
    <2> DEFINE w == Switched(Rewound(eng[n], s, Len(b)), b, Len(eng[n].st.chain))
    <2>3. s \in eng[n].snapshots
      BY <2>2 DEF SnapshotAt
    <2>4. Shape(w) /\ Committed(eng[n], w, b)
      BY <1>1, <2>1, <2>2, <2>3, SwitchedSound, SwitchedVotes DEF Sound
    <2>5. Locked(eng[n]) => Follows(eng[n].st.chain, b)
      BY <1>1, <2>1, <2>2, <2>3, CandidateFollows
    <2>6. DieWhileCommitting(n, b, w)
      BY <2>2
    <2> HIDE DEF w
    <2> QED  BY <2>1, <2>4, <2>5, <2>6, DieVoting
  <1> QED  BY <1>2, <1>3, <1>4, <1>5 DEF NodeFailure

(* The two invariants together are inductive, and no step leaves a block   *)
(* for one of the same or a lower round.                                   *)
LEMMA NextVoting ==
    ASSUME FinalityInv, VotingInv, [Next]_vars
    PROVE  /\ VotingInv'
           /\ \A m \in Keyed : Follows(eng[m].st.chain, eng'[m].st.chain)
  <1>1. FinalityInv'
    BY NextInv
  <1>2. CASE Next
    BY <1>1, <1>2, StepVoting, FailureVoting DEF Next, Moved
  <1>3. CASE UNCHANGED vars
    <2>1. \A m \in Keyed : eng[m].st.chain \in Chains
      BY EngineAssumption DEF FinalityInv, Sound, Shape, StateShape
    <2>2. \A m \in Keyed : Follows(eng[m].st.chain, eng[m].st.chain)
      BY <2>1, BranchOrder DEF Follows
    <2> QED  BY <1>3, <2>2 DEF vars, VotingInv, NoSiblingEquivocation
  <1> QED  BY <1>2, <1>3

-----------------------------------------------------------------------------
(* The strengthened invariant holds in every reachable state. *)
THEOREM VotingInductive == Spec => []VotingInv
  <1>1. FinalityInv /\ VotingInv /\ [Next]_vars => VotingInv'
    BY NextVoting
  <1> QED  BY <1>1, InitVoting, Inductive, PTL DEF Spec

(* A node never signs two votes of one kind in one round for two children  *)
(* of one block, even across reorgs, crashes and restarts: its chain grows *)
(* in the lexicographic order of the rounds, and every vote it ever cast   *)
(* is below its chain in that order.                                       *)
THEOREM NoSiblingVotes == Spec => []NoSiblingEquivocation
  <1>1. VotingInv => NoSiblingEquivocation
    BY DEF VotingInv
  <1> QED  BY <1>1, VotingInductive, PTL

(* Where a node can still rewind below a block of its chain it holds the   *)
(* lock on that very block, so tryReorgLocked compares with its own round. *)
THEOREM LocksCoverBranch == Spec => []LockCoversBranch
  <1>1. ASSUME FinalityInv, VotingInv
        PROVE  LockCoversBranch
    <2> SUFFICES ASSUME NEW n \in Keyed, NEW h \in 1 .. Len(eng[n].st.chain),
                        SnapshotAt(eng[n], h - 1) # {}
                 PROVE  \E l \in eng[n].locked :
                           Len(l) = h /\ OnBranch(l, eng[n].st.chain)
      BY DEF LockCoversBranch
    <2>1. PICK s \in eng[n].snapshots : Len(s.chain) = h - 1
      BY DEF SnapshotAt
    <2>2. Locked(eng[n])
      BY <1>1 DEF VotingInv
    <2>3. Len(s.chain) + 1 = h /\ Len(s.chain) + 1 <= Len(eng[n].st.chain)
      BY <2>1
    <2> QED  BY <2>2, <2>3 DEF Locked, Covered
  <1> QED  BY <1>1, Inductive, VotingInductive, PTL

(* A node with a key leaves a block only for one of the same height and of *)
(* a strictly higher round.                                                *)
THEOREM SwitchesRaiseRound == Spec => SwitchRaisesRound
  <1>1. FinalityInv /\ VotingInv /\ [Next]_vars =>
          [\A n \in Keyed :
              LET old == eng[n].st.chain
                  new == eng'[n].st.chain
              IN  ~OnBranch(old, new) => new[Len(new)].round > old[Len(new)].round]_vars
    BY NextVoting DEF Follows
  <1> QED  BY <1>1, Inductive, VotingInductive, PTL DEF Spec, SwitchRaisesRound

-----------------------------------------------------------------------------
(* The engines implement ForkVoting.  What a fork choice rests on: the     *)
(* powers a node judges by, the votes in its pool, and the commits of the  *)
(* blocks it has on disk or in its buffer.                                 *)

(* No block of the explored chains leads to other powers than PowerSets.   *)
PowersKnown ==
    \A n \in Nodes : SnapshotActiveSet(eng[n].st.vals) \in PowerSets

(* Those it froze and those of its restoration points are among them too. *)
Known(e) ==
    /\ e.frozen \in [Heights -> PowerSets \cup {NotFrozen}]
    /\ \A s \in e.snapshots \cup {e.st} : SnapshotActiveSet(s.vals) \in PowerSets

(* The commit in b, if any, was one of a quorum. *)
Final(b) == Header(b).commit # {} => Header(b).commit \in Quorums

(* Who has a key and is named in the commit of b has precommitted its parent. *)
Witnessed(b) ==
    \A w \in Header(b).commit \cap Keyed :
        \E v \in sent : v.voter = w /\ v.kind = "precommit" /\ v.block = Parent(b)

EvidenceInv ==
    /\ \A n \in Nodes :
          /\ Known(eng[n])
          /\ \A v \in eng[n].pool.votes : v.voter \in Keyed => v \in sent
          /\ Len(eng[n].st.chain) <= MaxHeight
          /\ \A b \in eng[n].saved \cup eng[n].forks : Len(b) <= MaxHeight /\ Witnessed(b)
          /\ \A b \in eng[n].saved : Final(b)
    /\ \A b \in blocks : Len(b) <= MaxHeight /\ Witnessed(b)

(* Votes of a quorum for b, among S and what nodes without a key may sign. *)
Polka(b, S) ==
    \E Q \in Quorums : \A w \in Q \cap Keyed : VoteFor(w, "prevote", b) \in S

(* The call that turns e into d, offered the blocks B and the votes V.     *)
(* Whatever it commits is Final, and the tip moves to a child or for votes. *)
Reasoned(e, d, B, V) ==
    /\ d.pool.votes \subseteq e.pool.votes \cup V \cup d.voted
    /\ d.forks \subseteq e.forks \cup B
    /\ d.st.chain \in {e.st.chain} \cup B \cup e.forks
    /\ \A b \in d.saved \ e.saved : b \in B \cup e.forks /\ Final(b)
    /\ SnapshotActiveSet(d.st.vals) \in PowerSets => Known(d)
    /\ \/ d.st.chain = e.st.chain
       \/ Parent(d.st.chain) = e.st.chain
       \/ Polka(d.st.chain, e.pool.votes \cup V)

(* d has committed b, and is about to vote for it. *)
Stored(e, d, b) ==
    /\ d.st.chain = b
    /\ d.pool.votes \subseteq e.pool.votes
    /\ d.forks \subseteq e.forks
    /\ d.saved = e.saved \cup {b}
    /\ SnapshotActiveSet(d.st.vals) \in PowerSets => Known(d)

-----------------------------------------------------------------------------
(* The set a height is judged by is a known one. *)
LEMMA SetKnown ==
    ASSUME NEW e, Known(e), NEW h \in Heights
    PROVE  SetForHeight(e, h) \in PowerSets
  BY DEF SetForHeight, Known

(* A quorum by such a set is one of Quorums. *)
LEMMA QuorumKnown ==
    ASSUME NEW e, Known(e), NEW h \in Heights, NEW Q, Q \subseteq Validators,
           HasQuorum(SetForHeight(e, h), Q)
    PROVE  Q \in Quorums
  BY SetKnown DEF Quorums

(* validateBlockLocked lets no other commit through. *)
LEMMA ValidFinal ==
    ASSUME NEW e, Known(e), NEW b \in Blocks, Len(b) <= MaxHeight, Valid(e, b)
    PROVE  Final(b)
  <1>1. Header(b).commit \subseteq Validators
    BY BlockParts DEF Headers
  <1>2. Len(b) - 1 \in Heights
    BY BlockParts, EngineAssumption DEF Heights
  <1>3. Header(b).commit # {} => HasQuorum(SetForHeight(e, Len(b) - 1), Header(b).commit)
    BY DEF Valid, CommitAccepted
  <1> QED  BY <1>1, <1>2, <1>3, QuorumKnown DEF Final

(* freezeSetLocked takes the powers of the live state. *)
LEMMA FreezeKnown ==
    ASSUME NEW e, Shape(e), Known(e), NEW h
    PROVE  /\ Known(Freeze(e, h))
           /\ SameVotes(Freeze(e, h), e)
           /\ Freeze(e, h).pool = e.pool
           /\ Freeze(e, h).forks = e.forks
  BY FreezeVotes DEF Freeze, Shape, Known, SameVotes, SameCore

(* Casting a vote adds it to the pool, and leaves the rest as it was. *)
LEMMA CastKindReasoned ==
    ASSUME NEW e, Shape(e), NEW n, NEW kind, NEW b
    PROVE  LET d == CastVoteKind(e, n, kind, b)
           IN  /\ d.st = e.st /\ d.saved = e.saved /\ d.snapshots = e.snapshots
               /\ d.frozen = e.frozen /\ d.forks = e.forks
               /\ e.voted \subseteq d.voted
               /\ d.pool.votes \subseteq e.pool.votes \cup d.voted
  <1> DEFINE v == VoteFor(n, kind, b)
             L == IF kind = "precommit" THEN {l \in e.locked : Len(l) # Len(b)} \cup {b}
                  ELSE e.locked
             d == [e EXCEPT !.voted = @ \cup {v}, !.pool = Add(@, v), !.locked = L]
  <1>1. Add(e.pool, v).votes \subseteq e.pool.votes \cup {v}
    BY DEF Add
  <1>2. CastVoteKind(e, n, kind, b) \in {e, d}
    BY DEF CastVoteKind, Shape
  <1> HIDE DEF v, L
  <1>3. /\ d.st = e.st /\ d.saved = e.saved /\ d.snapshots = e.snapshots
        /\ d.frozen = e.frozen /\ d.forks = e.forks
        /\ d.voted = e.voted \cup {v} /\ d.pool = Add(e.pool, v)
    BY DEF Shape
  <1> QED  BY <1>1, <1>2, <1>3

(* The same of both votes on a block just committed. *)
LEMMA CastReasoned ==
    ASSUME NEW e, NEW d, Shape(d), NEW n \in Validators, NEW b \in Blocks, NEW B, NEW V,
           Stored(e, d, b), Final(b), b \in B \cup e.forks,
           Parent(b) = e.st.chain \/ Polka(b, e.pool.votes \cup V)
    PROVE  Reasoned(e, CastVote(d, n, b), B, V)
  <1> DEFINE p == CastVoteKind(d, n, "prevote", b)
             q == CastVoteKind(p, n, "precommit", b)
  <1>1. Shape(p)
    BY CastKindShape DEF Kinds
  <1>2. /\ p.st = d.st /\ p.saved = d.saved /\ p.snapshots = d.snapshots
        /\ p.frozen = d.frozen /\ p.forks = d.forks
        /\ p.pool.votes \subseteq d.pool.votes \cup p.voted
    BY CastKindReasoned
  <1> HIDE DEF p
  <1>3. /\ q.st = p.st /\ q.saved = p.saved /\ q.snapshots = p.snapshots
        /\ q.frozen = p.frozen /\ q.forks = p.forks
        /\ p.voted \subseteq q.voted
        /\ q.pool.votes \subseteq p.pool.votes \cup q.voted
    BY <1>1, CastKindReasoned
  <1> HIDE DEF q
  <1>4. SnapshotActiveSet(q.st.vals) \in PowerSets => Known(q)
    BY <1>2, <1>3 DEF Stored, Known
  <1>5. Reasoned(e, q, B, V)
    BY <1>2, <1>3, <1>4 DEF Stored, Reasoned
  <1> QED  BY <1>5 DEF CastVote, p, q

-----------------------------------------------------------------------------
(* Committing a block on the tip. *)
LEMMA CommitStored ==
    ASSUME NEW e, Sound(e), Known(e), NEW b \in Blocks, Parent(b) = e.st.chain
    PROVE  Stored(e, CommitBlock(e, b), b)
  <1> DEFINE st == AfterBlock(e.st, b)
             d  == Snapshot([e EXCEPT !.st = AfterBlock(@, b), !.saved = @ \cup {b}])
             f  == Finalize(d, Len(b) - 1)
  <1>1. st.chain = b /\ DOMAIN st = {"chain", "fin", "vals"}
    BY DEF AfterBlock, Sound, Shape, StateShape
  <1> HIDE DEF st
  <1>2. d = [e EXCEPT !.st = st, !.saved = @ \cup {b},
                      !.snapshots = {s \in @ : Len(s.chain) # Len(st.chain)} \cup {st}]
    BY DEF Snapshot, Sound, Shape, st
  <1> HIDE DEF d
  <1>3. /\ d.st = st /\ d.saved = e.saved \cup {b} /\ d.pool = e.pool
        /\ d.forks = e.forks /\ d.frozen = e.frozen
        /\ \A s \in d.snapshots : s \in e.snapshots \/ s = st
        /\ DOMAIN d = DOMAIN e
    BY <1>2 DEF Sound, Shape
  <1>4. SnapshotActiveSet(st.vals) \in PowerSets => Known(d)
    BY <1>3 DEF Known
  <1>5. CASE Header(b).commit = {}
    BY <1>1, <1>3, <1>4, <1>5 DEF CommitBlock, Stored, d
  <1>6. CASE Header(b).commit # {}
    <2>1. CommitBlock(e, b) = f
      BY <1>6 DEF CommitBlock, d
    <2>2. /\ f.st.chain = b /\ f.st.vals = st.vals /\ f.saved = d.saved
          /\ f.pool = Prune(d.pool, Len(b) - 1)
          /\ f.forks \subseteq d.forks
          /\ f.snapshots \subseteq d.snapshots
          /\ f.frozen = [h \in Heights |-> IF h <= Len(b) - 1 THEN NotFrozen ELSE d.frozen[h]]
      BY <1>1, <1>3 DEF Finalize, Sound, Shape
    <2> HIDE DEF f
    <2>3. f.pool.votes \subseteq e.pool.votes
      BY <1>3, <2>2 DEF Prune, Sound, Shape, PoolType
    <2>4. ASSUME SnapshotActiveSet(st.vals) \in PowerSets
          PROVE  Known(f)
      <3>1. f.frozen \in [Heights -> PowerSets \cup {NotFrozen}]
        BY <1>4, <2>2, <2>4 DEF Known
      <3>2. \A s \in f.snapshots \cup {f.st} : SnapshotActiveSet(s.vals) \in PowerSets
        BY <1>4, <2>2, <2>4 DEF Known
      <3> QED  BY <3>1, <3>2 DEF Known
    <2> QED  BY <1>3, <2>1, <2>2, <2>3, <2>4 DEF Stored
  <1> QED  BY <1>5, <1>6

(* What comes between two calls that store nothing does not matter. *)
LEMMA StoredBetween ==
    ASSUME NEW e, NEW c, NEW d, NEW f, NEW b, Stored(c, d, b),
           c.saved = e.saved, c.pool = e.pool, c.forks = e.forks,
           f.st = d.st, f.saved = d.saved, f.pool = d.pool, f.forks = d.forks,
           f.frozen = d.frozen, f.snapshots = d.snapshots
    PROVE  Stored(e, f, b)
  BY DEF Stored, Known

(* A block received for the next height. *)
LEMMA AcceptedStored ==
    ASSUME NEW e, Sound(e), Known(e), NEW b \in Blocks, Parent(b) = e.st.chain
    PROVE  Stored(e, Accepted(e, b), b)
  <1> DEFINE d == Freeze(e, Len(b))
             c == CommitBlock(d, b)
  <1>1. /\ Sound(d) /\ Known(d) /\ SameVotes(d, e)
        /\ d.pool = e.pool /\ d.forks = e.forks
    BY FreezeSound, FreezeKnown DEF Sound
  <1>2. Parent(b) = d.st.chain /\ d.saved = e.saved
    BY <1>1 DEF SameVotes, SameCore
  <1> HIDE DEF d
  <1>3. Stored(d, c, b) /\ Shape(c)
    BY <1>1, <1>2, CommitStored, CommitSound DEF Sound
  <1>4. Accepted(e, b) = [c EXCEPT !.evidence = @ \ Header(b).evidence]
    BY DEF Accepted, c, d
  <1> HIDE DEF c
  <1>5. /\ Accepted(e, b).st = c.st /\ Accepted(e, b).saved = c.saved
        /\ Accepted(e, b).pool = c.pool /\ Accepted(e, b).forks = c.forks
        /\ Accepted(e, b).frozen = c.frozen /\ Accepted(e, b).snapshots = c.snapshots
    BY <1>3, <1>4 DEF Shape
  <1> QED  BY <1>1, <1>2, <1>3, <1>5, StoredBetween

(* The block ProduceOnce builds. *)
LEMMA ProducedStored ==
    ASSUME NEW e, Sound(e), Known(e), NEW b \in Blocks, Parent(b) = e.st.chain
    PROVE  Stored(e, Produced(e, b), b)
  <1> DEFINE d == Freeze(e, Len(b))
             c == [d EXCEPT !.evidence = {}]
  <1>1. /\ Sound(d) /\ Known(d) /\ SameVotes(d, e)
        /\ d.pool = e.pool /\ d.forks = e.forks
    BY FreezeSound, FreezeKnown DEF Sound
  <1> HIDE DEF d
  <1>2. /\ c.st = d.st /\ c.saved = d.saved /\ c.pool = d.pool /\ c.forks = d.forks
        /\ c.frozen = d.frozen /\ c.snapshots = d.snapshots
    BY <1>1 DEF Sound, Shape
  <1>3. Sound(c) /\ Known(c)
    BY <1>1, <1>2, EvidenceSound DEF Known
  <1> HIDE DEF c
  <1>4. Parent(b) = c.st.chain /\ c.saved = e.saved /\ c.pool = e.pool /\ c.forks = e.forks
    BY <1>1, <1>2 DEF SameVotes, SameCore
  <1>5. Stored(c, CommitBlock(c, b), b)
    BY <1>3, <1>4, CommitStored
  <1>6. Produced(e, b) = CommitBlock(c, b)
    BY DEF Produced, c, d
  <1> QED  BY <1>4, <1>5, <1>6, StoredBetween

(* The engine rewound to a restoration point. *)
LEMMA RewoundKnown ==
    ASSUME NEW e, Sound(e), Known(e), NEW s \in e.snapshots, NEW h
    PROVE  LET r == Rewound(e, s, h)
           IN  /\ Shape(r) /\ Known(r) /\ r.st = s /\ r.saved = e.saved
               /\ r.snapshots = e.snapshots /\ r.pool = e.pool /\ r.forks = e.forks
  <1> DEFINE p == [e EXCEPT !.st = s]
  <1>1. /\ Shape(p) /\ p.st = s /\ p.saved = e.saved /\ p.snapshots = e.snapshots
        /\ p.pool = e.pool /\ p.forks = e.forks /\ p.frozen = e.frozen
    BY DEF Sound, Shape
  <1>2. Known(p)
    BY <1>1 DEF Known
  <1>3. Rewound(e, s, h) = Freeze(p, h)
    BY DEF Rewound
  <1> HIDE DEF p
  <1>4. /\ Shape(Freeze(p, h)) /\ Known(Freeze(p, h)) /\ SameVotes(Freeze(p, h), p)
        /\ Freeze(p, h).pool = p.pool /\ Freeze(p, h).forks = p.forks
    BY <1>1, <1>2, FreezeKnown, FreezeShape
  <1> QED  BY <1>1, <1>3, <1>4 DEF SameVotes, SameCore

(* The block a fork choice turns to. *)
LEMMA SwitchedStored ==
    ASSUME NEW e, Sound(e), Known(e), NEW s \in e.snapshots, NEW b \in Blocks,
           Parent(b) = s.chain
    PROVE  Stored(e, Switched(Rewound(e, s, Len(b)), b, Len(e.st.chain)), b)
  <1> DEFINE h   == Len(b)
             top == Len(e.st.chain)
             r   == Rewound(e, s, h)
             a   == Abandon(r, h, top)
             c   == CommitBlock(a, b)
             d   == [c EXCEPT !.voted  = {v \in @ : Height(v) # h},
                              !.locked = {l \in @ : Len(l) # h}]
  <1>1. h \in Nat /\ h = Len(s.chain) + 1
    BY BlockParts
  <1>2. Sound(a) /\ a.st = s
    BY <1>1, AbandonSound
  <1>3. /\ Shape(r) /\ Known(r) /\ r.st = s /\ r.saved = e.saved
        /\ r.pool = e.pool /\ r.forks = e.forks
    BY RewoundKnown
  <1> HIDE DEF r
  <1>4. /\ a.st = r.st /\ a.saved = r.saved /\ a.pool = r.pool /\ a.forks = r.forks
        /\ a.frozen = r.frozen /\ a.snapshots \subseteq r.snapshots
    BY <1>3 DEF Abandon, Shape
  <1>5. Known(a)
    BY <1>3, <1>4 DEF Known
  <1> HIDE DEF a
  <1>6. Stored(a, c, b) /\ Shape(c)
    BY <1>2, <1>5, CommitStored, CommitSound DEF Sound
  <1> HIDE DEF c
  <1>7. /\ d.st = c.st /\ d.saved = c.saved /\ d.pool = c.pool /\ d.forks = c.forks
        /\ d.frozen = c.frozen /\ d.snapshots = c.snapshots
    BY <1>6 DEF Shape
  <1>8. Switched(r, b, top) = d
    BY DEF Switched, c, a
  <1> HIDE DEF d
  <1>9. Stored(e, d, b)
    BY <1>3, <1>4, <1>6, <1>7, StoredBetween
  <1> QED  BY <1>8, <1>9 DEF r

-----------------------------------------------------------------------------
(* Calls that leave the chain and the disk as they are. *)
LEMMA Unmoved ==
    ASSUME NEW e, NEW d, NEW B, NEW V, Known(e), SameCore(d, e),
           d.frozen \in [Heights -> PowerSets \cup {NotFrozen}],
           d.pool.votes \subseteq e.pool.votes \cup V, d.forks \subseteq e.forks \cup B
    PROVE  Reasoned(e, d, B, V)
  BY DEF SameCore, Known, Reasoned

(* A call after one of them. *)
LEMMA ReasonedAfter ==
    ASSUME NEW e, NEW p, NEW d, NEW B, NEW V, SameCore(p, e),
           p.pool.votes \subseteq e.pool.votes \cup V, p.forks \subseteq e.forks \cup B,
           Reasoned(p, d, B, V)
    PROVE  Reasoned(e, d, B, V)
  <1>1. Polka(d.st.chain, p.pool.votes \cup V) => Polka(d.st.chain, e.pool.votes \cup V)
    BY DEF Polka
  <1> QED  BY <1>1 DEF SameCore, Reasoned

(* ApplyExternalBlock for the next height. *)
LEMMA ExtendReasoned ==
    ASSUME NEW e, Sound(e), Known(e), NEW n \in Validators, NEW b \in Blocks,
           Len(b) <= MaxHeight, NEW V
    PROVE  Reasoned(e, Extend(e, n, b), {b}, V)
  <1> DEFINE f == Freeze(e, Len(b))
  <1>1. /\ Known(f) /\ SameVotes(f, e) /\ f.pool = e.pool /\ f.forks = e.forks
    BY FreezeKnown DEF Sound
  <1> HIDE DEF f
  <1>2. CASE Parent(b) # e.st.chain
    <2>1. Reasoned(e, e, {b}, V)
      BY Unmoved DEF SameCore, Known
    <2> QED  BY <1>2, <2>1 DEF Extend
  <1>3. CASE Parent(b) = e.st.chain /\ ~Valid(f, b)
    <2>1. Reasoned(e, f, {b}, V)
      BY <1>1, Unmoved DEF SameVotes, Known
    <2> QED  BY <1>3, <2>1 DEF Extend, f
  <1>4. CASE Parent(b) = e.st.chain /\ Valid(f, b)
    <2>1. Final(b)
      BY <1>1, <1>4, ValidFinal
    <2>2. Stored(e, Accepted(e, b), b) /\ Shape(Accepted(e, b))
      BY <1>4, AcceptedStored, AcceptedSound DEF Sound
    <2>3. Reasoned(e, CastVote(Accepted(e, b), n, b), {b}, V)
      BY <1>4, <2>1, <2>2, CastReasoned
    <2> QED  BY <1>4, <2>3 DEF Extend, f
  <1> QED  BY <1>2, <1>3, <1>4

(* ProduceOnce without a block. *)
LEMMA IdleReasoned ==
    ASSUME NEW e, Sound(e), Known(e), NEW elected
    PROVE  Reasoned(e, Idle(e, elected), {}, {})
  <1> DEFINE f == Freeze(e, Len(e.st.chain) + 1)
  <1>1. /\ Shape(f) /\ Known(f) /\ SameVotes(f, e) /\ f.pool = e.pool /\ f.forks = e.forks
    BY FreezeKnown, FreezeShape DEF Sound
  <1> HIDE DEF f
  <1>2. Idle(e, elected) = [f EXCEPT !.evidence = IF elected THEN {} ELSE @]
    BY DEF Idle, f
  <1>3. /\ SameCore(Idle(e, elected), e) /\ Idle(e, elected).frozen = f.frozen
        /\ Idle(e, elected).pool = e.pool /\ Idle(e, elected).forks = e.forks
    BY <1>1, <1>2 DEF Shape, SameVotes, SameCore
  <1> QED  BY <1>1, <1>3, Unmoved DEF Known

(* ProduceOnce: the commit it puts in its block is one of a quorum. *)
LEMMA ProduceReasoned ==
    ASSUME NEW e, Sound(e), Known(e), NEW n \in Validators, NEW r \in Rounds,
           NEW p \in Payloads, Len(e.st.chain) < MaxHeight
    PROVE  LET b == Proposal(e, n, r, p)
           IN  /\ Len(b) <= MaxHeight
               /\ Final(b)
               /\ Header(b).commit \subseteq Precommitters(e.pool, Parent(b))
               /\ Reasoned(e, CastVote(Produced(e, b), n, b), {b}, {})
  <1> DEFINE b == Proposal(e, n, r, p)
  <1>1. b \in Blocks /\ Parent(b) = e.st.chain
    BY ProposalTyped
  <1>2. Len(b) = Len(e.st.chain) + 1 /\ Len(e.st.chain) \in Heights
    BY <1>1, BlockParts, EngineAssumption DEF Heights
  <1>3. Header(b).commit = BuildLastCommit(e)
    BY <1>2 DEF Header, Proposal, Sound, Shape, StateShape, Chains
  <1> HIDE DEF b
  <1>4. BuildLastCommit(e) \subseteq Precommitters(e.pool, e.st.chain)
    BY DEF BuildLastCommit
  <1>5. Final(b)
    <2>1. Precommitters(e.pool, e.st.chain) \subseteq Validators
      BY DEF Precommitters, Sound, Shape, PoolType, Votes
    <2>2. BuildLastCommit(e) # {} =>
            HasQuorum(SetForHeight(e, Len(e.st.chain)), BuildLastCommit(e))
      BY DEF BuildLastCommit, CommitAccepted
    <2> QED  BY <1>2, <1>3, <1>4, <2>1, <2>2, QuorumKnown DEF Final
  <1>6. Stored(e, Produced(e, b), b) /\ Shape(Produced(e, b))
    BY <1>1, ProducedStored, ProducedSound DEF Sound
  <1>7. Reasoned(e, CastVote(Produced(e, b), n, b), {b}, {})
    BY <1>1, <1>5, <1>6, CastReasoned
  <1>8. Len(b) <= MaxHeight
    BY <1>1, <1>2, BlockParts, EngineAssumption DEF Heights, Sound, Shape, StateShape, Chains
  <1> QED  BY <1>1, <1>3, <1>4, <1>5, <1>7, <1>8 DEF b

(* A candidate of tryReorgLocked has the votes of a quorum. *)
LEMMA CandidatePolka ==
    ASSUME NEW e, Sound(e), Known(e), NEW h \in Heights, NEW b \in Candidates(e, h)
    PROVE  Polka(b, e.pool.votes)
  <1> DEFINE Q == Prevoters(e.pool, Round(b), b)
  <1>1. Len(b) = h /\ HasQuorum(SetForHeight(e, Len(b)), Q)
    BY DEF Candidates, HasPolka
  <1>2. e.pool.votes \subseteq Votes
    BY DEF Sound, Shape, PoolType
  <1>3. Q \subseteq Validators
    BY <1>2 DEF Prevoters, Votes
  <1>4. ASSUME NEW w \in Q
        PROVE  VoteFor(w, "prevote", b) \in e.pool.votes
    <2>1. PICK v \in e.pool.votes :
            v.voter = w /\ v.kind = "prevote" /\ v.round = Round(b) /\ v.block = b
      BY DEF Prevoters
    <2>2. v = VoteFor(w, "prevote", b)
      BY <1>2, <2>1 DEF Votes, VoteFor
    <2> QED  BY <2>2
  <1> HIDE DEF Q
  <1>5. Q \in Quorums
    BY <1>1, <1>3, QuorumKnown
  <1> QED  BY <1>4, <1>5 DEF Polka

(* reorgToLocked for a candidate of tryReorgLocked. *)
LEMMA ReorgReasoned ==
    ASSUME NEW e, Sound(e), Known(e), NEW n \in Validators, NEW h \in Heights,
           h <= MaxHeight, NEW b \in Candidates(e, h), NEW B, NEW V
    PROVE  Reasoned(e, ReorgTo(e, n, b), B, V)
  <1>1. b \in Blocks /\ b \in e.forks /\ Len(b) = h
    BY DEF Candidates, Sound, Shape
  <1>2. Reasoned(e, e, B, V)
    BY Unmoved DEF SameCore, Known
  <1>3. CASE Len(b) - 1 < e.st.fin \/ SnapshotAt(e, Len(b) - 1) = {}
    BY <1>2, <1>3 DEF ReorgTo
  <1>4. CASE ~(Len(b) - 1 < e.st.fin) /\ SnapshotAt(e, Len(b) - 1) # {}
    <2> DEFINE s == CHOOSE x \in SnapshotAt(e, Len(b) - 1) : TRUE
               r == Rewound(e, s, Len(b))
               w == Switched(r, b, Len(e.st.chain))
    <2>1. s \in e.snapshots
      BY <1>4 DEF SnapshotAt
    <2>2. ReorgTo(e, n, b) =
            IF Parent(b) # s.chain THEN e
            ELSE IF ~Valid(r, b) THEN [r EXCEPT !.st = e.st]
            ELSE CastVote(w, n, b)
      BY <1>4 DEF ReorgTo
    <2> HIDE DEF s
    <2>3. /\ Shape(r) /\ Known(r) /\ r.saved = e.saved /\ r.snapshots = e.snapshots
          /\ r.pool = e.pool /\ r.forks = e.forks
      BY <2>1, RewoundKnown
    <2>4. Reasoned(e, [r EXCEPT !.st = e.st], B, V)
      <3> HIDE DEF r
      <3> DEFINE d == [r EXCEPT !.st = e.st]
      <3>1. SameCore(d, e) /\ d.frozen = r.frozen /\ d.pool = e.pool /\ d.forks = e.forks
        BY <2>3 DEF Shape, SameCore
      <3> HIDE DEF d
      <3>2. Reasoned(e, d, B, V)
        BY <2>3, <3>1, Unmoved DEF Known
      <3> QED  BY <3>2 DEF d
    <2>5. ASSUME Parent(b) = s.chain, Valid(r, b)
          PROVE  Reasoned(e, CastVote(w, n, b), B, V)
      <3>1. Final(b)
        <4> HIDE DEF r
        <4> QED  BY <1>1, <2>3, <2>5, ValidFinal
      <3>2. Stored(e, w, b) /\ Shape(w)
        BY <1>1, <2>1, <2>5, SwitchedStored, SwitchedSound DEF Sound
      <3>3. Polka(b, e.pool.votes \cup V)
        BY CandidatePolka DEF Polka
      <3> HIDE DEF w
      <3> QED  BY <1>1, <3>1, <3>2, <3>3, CastReasoned
    <2> HIDE DEF r, w
    <2> QED  BY <1>2, <2>2, <2>4, <2>5
  <1> QED  BY <1>3, <1>4

(* tryReorgLocked. *)
LEMMA TryReorgReasoned ==
    ASSUME NEW e, Sound(e), Known(e), Len(e.st.chain) <= MaxHeight, NEW n \in Validators,
           NEW h \in Nat, NEW d \in TryReorg(e, n, h), NEW B, NEW V
    PROVE  Reasoned(e, d, B, V)
  <1>1. Reasoned(e, e, B, V)
    BY Unmoved DEF SameCore, Known
  <1>2. ASSUME ~(h > Len(e.st.chain)), NEW b \in Candidates(e, h)
        PROVE  Reasoned(e, ReorgTo(e, n, b), B, V)
    <2>1. Len(e.st.chain) \in Nat
      BY DEF Sound, Shape, StateShape, Chains
    <2>2. h \in Heights /\ h <= MaxHeight
      BY <1>2, <2>1, EngineAssumption DEF Heights
    <2> QED  BY <1>2, <2>2, ReorgReasoned
  <1> QED  BY <1>1, <1>2 DEF TryReorg

(* ApplyExternalBlock, considerFork included. *)
LEMMA ApplyReasoned ==
    ASSUME NEW e, Sound(e), Known(e), Len(e.st.chain) <= MaxHeight, NEW n \in Validators,
           NEW b \in Blocks, Len(b) <= MaxHeight, NEW d \in ApplyExternalBlock(e, n, b)
    PROVE  Reasoned(e, d, {b}, {})
  <1> DEFINE f == [e EXCEPT !.forks = @ \cup {b}]
  <1>1. /\ Shape(f) /\ SameCore(f, e) /\ f.pool = e.pool /\ f.frozen = e.frozen
        /\ f.forks = e.forks \cup {b}
    BY DEF Sound, Shape, SameCore
  <1>2. d = e \/ d = Extend(e, n, b) \/ d \in TryReorg(f, n, Len(b))
    BY DEF ApplyExternalBlock, ConsiderFork
  <1> HIDE DEF f
  <1>3. Sound(f) /\ Known(f) /\ Len(f.st.chain) <= MaxHeight /\ Len(b) \in Nat
    BY <1>1, CoreSound, BlockParts DEF SameCore, Known
  <1>4. Reasoned(e, e, {b}, {}) /\ Reasoned(e, Extend(e, n, b), {b}, {})
    BY Unmoved, ExtendReasoned DEF SameCore, Known
  <1>5. ASSUME d \in TryReorg(f, n, Len(b))
        PROVE  Reasoned(e, d, {b}, {})
    <2>1. Reasoned(f, d, {b}, {})
      BY <1>3, <1>5, TryReorgReasoned
    <2> QED  BY <1>1, <2>1, ReasonedAfter
  <1> QED  BY <1>2, <1>4, <1>5

(* AddVote, also when the vote completes a polka. *)
LEMMA AddVoteReasoned ==
    ASSUME NEW e, Sound(e), Known(e), Len(e.st.chain) <= MaxHeight, NEW n \in Validators,
           NEW v \in Votes, NEW d \in AddVote(e, n, v)
    PROVE  Reasoned(e, d, {}, {v})
  <1> DEFINE q == RecordEquivocation(e, v)
             p == [q EXCEPT !.pool = Add(@, v)]
  <1>1. FaultOf(v) \in Faults
    BY DEF FaultOf, Faults, Votes, Chains, Height
  <1>2. /\ Shape(q) /\ SameCore(q, e) /\ q.pool = e.pool /\ q.forks = e.forks
        /\ q.frozen = e.frozen
    BY <1>1 DEF RecordEquivocation, Sound, Shape, SameCore
  <1> HIDE DEF q
  <1>3. Add(q.pool, v) \in PoolType /\ Add(q.pool, v).votes \subseteq e.pool.votes \cup {v}
    BY <1>2, PoolTyped DEF Shape, Add
  <1>4. /\ Shape(p) /\ SameCore(p, e) /\ p.pool.votes \subseteq e.pool.votes \cup {v}
        /\ p.forks = e.forks /\ p.frozen = e.frozen
    BY <1>2, <1>3 DEF Shape, SameCore
  <1>5. d = e \/ d = p \/ d \in TryReorg(p, n, Height(v))
    BY DEF AddVote, q
  <1> HIDE DEF p
  <1>6. Sound(p) /\ Known(p) /\ Len(p.st.chain) <= MaxHeight /\ Height(v) \in Nat
    BY <1>4, CoreSound DEF SameCore, Known, Votes, Chains, Height
  <1>7. Reasoned(e, e, {}, {v}) /\ Reasoned(e, p, {}, {v})
    BY <1>4, Unmoved DEF SameCore, Known
  <1>8. ASSUME d \in TryReorg(p, n, Height(v))
        PROVE  Reasoned(e, d, {}, {v})
    <2>1. Reasoned(p, d, {}, {v})
      BY <1>6, <1>8, TryReorgReasoned
    <2> QED  BY <1>4, <2>1, ReasonedAfter
  <1> QED  BY <1>5, <1>7, <1>8

(* A node that starts from its disk, which may hold a block more. *)
LEMMA StartedReasoned ==
    ASSUME NEW e, NEW st, NEW saved, NEW b, NEW V, Final(b), saved \subseteq e.saved \cup {b},
           \/ st.chain = e.st.chain
           \/ st.chain = b /\ (Parent(b) = e.st.chain \/ Polka(b, e.pool.votes \cup V))
    PROVE  Reasoned(e, Started(st, saved), {b}, V)
  <1> DEFINE d == Started(st, saved)
  <1>1. /\ d.st = st /\ d.saved = saved /\ d.snapshots = {} /\ d.forks = {}
        /\ d.pool.votes = {} /\ d.frozen = [h \in Heights |-> NotFrozen]
    BY DEF Started, EmptyPool
  <1> HIDE DEF d
  <1>2. SnapshotActiveSet(st.vals) \in PowerSets => Known(d)
    BY <1>1 DEF Known
  <1>3. Reasoned(e, d, {b}, V)
    BY <1>1, <1>2 DEF Reasoned
  <1> QED  BY <1>3 DEF d

-----------------------------------------------------------------------------
(* A reasoned step of n, with votes and blocks that may be delivered. *)
LEMMA ReasonedStep ==
    ASSUME FinalityInv, EvidenceInv, PowersKnown', NEW n \in Nodes, NEW d, NEW B, NEW V,
           eng' = [eng EXCEPT ![n] = d], sent \subseteq sent', d.voted \subseteq sent',
           Reasoned(eng[n], d, B, V),
           \A b \in B \cup blocks' : Len(b) <= MaxHeight /\ Witnessed(b)',
           \A v \in V : v.voter \in Keyed => v \in sent
    PROVE  /\ EvidenceInv'
           /\ \/ eng'[n].st.chain = eng[n].st.chain
              \/ Parent(eng'[n].st.chain) = eng[n].st.chain
              \/ Polka(eng'[n].st.chain, sent)
  <1> DEFINE e == eng[n]
  <1>1. eng'[n] = d /\ \A m \in Nodes \ {n} : eng'[m] = eng[m]
    BY DEF FinalityInv
  <1>2. ASSUME NEW b, Witnessed(b)
        PROVE  Witnessed(b)'
    BY <1>2 DEF Witnessed
  <1>3. Known(d)
    BY <1>1 DEF PowersKnown, Reasoned
  <1>4. \A v \in d.pool.votes : v.voter \in Keyed => v \in sent'
    BY DEF Reasoned, EvidenceInv
  <1>5. \A b \in B \cup e.forks : Len(b) <= MaxHeight /\ Witnessed(b)'
    BY <1>2 DEF EvidenceInv
  <1>6. \A b \in d.saved \cup d.forks : Len(b) <= MaxHeight /\ Witnessed(b)'
    BY <1>2, <1>5 DEF Reasoned, EvidenceInv
  <1>7. \A b \in d.saved : Final(b)
    BY DEF Reasoned, EvidenceInv
  <1>8. Len(d.st.chain) <= MaxHeight
    BY <1>5 DEF Reasoned, EvidenceInv
  <1>9. ASSUME NEW m \in Nodes \ {n}
        PROVE  /\ Known(eng'[m])
               /\ \A v \in eng'[m].pool.votes : v.voter \in Keyed => v \in sent'
               /\ Len(eng'[m].st.chain) <= MaxHeight
               /\ \A b \in eng'[m].saved \cup eng'[m].forks :
                     Len(b) <= MaxHeight /\ Witnessed(b)'
               /\ \A b \in eng'[m].saved : Final(b)
    BY <1>1, <1>2 DEF EvidenceInv
  <1>10. EvidenceInv'
    <2>1. \A m \in Nodes : Known(eng'[m])
      BY <1>1, <1>3, <1>9
    <2>2. \A m \in Nodes : \A v \in eng'[m].pool.votes : v.voter \in Keyed => v \in sent'
      BY <1>1, <1>4, <1>9
    <2>3. \A m \in Nodes : Len(eng'[m].st.chain) <= MaxHeight
      BY <1>1, <1>8, <1>9
    <2>4. \A m \in Nodes : \A b \in eng'[m].saved \cup eng'[m].forks :
              Len(b) <= MaxHeight /\ Witnessed(b)'
      BY <1>1, <1>6, <1>9
    <2>5. \A m \in Nodes : \A b \in eng'[m].saved : Final(b)
      BY <1>1, <1>7, <1>9
    <2> QED  BY <2>1, <2>2, <2>3, <2>4, <2>5 DEF EvidenceInv, Known, Final
  <1>11. \/ d.st.chain = e.st.chain
         \/ Parent(d.st.chain) = e.st.chain
         \/ Polka(d.st.chain, sent)
    <2>1. ASSUME Polka(d.st.chain, e.pool.votes \cup V)
          PROVE  Polka(d.st.chain, sent)
      <3>1. \A v \in e.pool.votes \cup V : v.voter \in Keyed => v \in sent
        BY DEF EvidenceInv
      <3>2. \A w : VoteFor(w, "prevote", d.st.chain).voter = w
        BY DEF VoteFor
      <3> QED  BY <2>1, <3>1, <3>2 DEF Polka
    <2> QED  BY <2>1 DEF Reasoned
  <1> QED  BY <1>1, <1>10, <1>11

(* The tip of n stays, grows, or turns to what a quorum prevoted. *)
Turned(n) ==
    \/ eng'[n].st.chain = eng[n].st.chain
    \/ Parent(eng'[n].st.chain) = eng[n].st.chain
    \/ Polka(eng'[n].st.chain, sent)

(* What may be delivered is short, and whoever its commit names signed it. *)
LEMMA DeliverableWitnessed ==
    ASSUME EvidenceInv, NEW b \in blocks \cup EnvBlocks, Deliverable(b)
    PROVE  Witnessed(b)
  BY EngineAssumption DEF Deliverable, Genuine, Witnessed, EvidenceInv

(* The environment's blocks are short too. *)
LEMMA EnvironmentShort ==
    ASSUME FinalityInv, EvidenceInv, NEW b \in EnvBlocks
    PROVE  Len(b) <= MaxHeight
  <1>1. PICK c \in KnownBlocks, hd \in EnvHeaders : Len(c) < MaxHeight /\ b = Append(c, hd)
    BY DEF EnvBlocks
  <1>2. c \in Chains
    <2>1. <<>> \in Chains
      BY DEF Chains
    <2>2. \A n \in Nodes : eng[n].saved \subseteq Chains /\ eng[n].forks \subseteq Chains
      BY DEF FinalityInv, Sound, Shape, Blocks
    <2> QED  BY <2>1, <2>2 DEF KnownBlocks
  <1>3. Len(c) \in Nat /\ Len(b) = Len(c) + 1
    BY <1>1, <1>2 DEF Chains
  <1> QED  BY <1>1, <1>3, EngineAssumption

(* Its votes are not those of a node with a key. *)
LEMMA EnvironmentKeyless ==
    ASSUME NEW v \in EnvVotes
    PROVE  v.voter \notin Keyed
  BY EngineAssumption DEF EnvVotes, VoteFor, Environment

(* Every call a node handles is reasoned. *)
LEMMA StepReasoned ==
    ASSUME FinalityInv, EvidenceInv, PowersKnown', NEW n \in Nodes, NodeStep(n)
    PROVE  EvidenceInv' /\ Turned(n)
  <1> DEFINE e == eng[n]
  <1>1. /\ Sound(e) /\ n \in Validators /\ blocks \subseteq Blocks /\ sent \subseteq Votes
        /\ Known(e) /\ Len(e.st.chain) <= MaxHeight
    BY EngineAssumption DEF FinalityInv, EvidenceInv
  <1>2. ASSUME NEW d, NEW B, NEW V, Becomes(n, d), Reasoned(e, d, B, V),
               \A b \in B \cup blocks' : Len(b) <= MaxHeight /\ Witnessed(b),
               \A v \in V : v.voter \in Keyed => v \in sent
        PROVE  EvidenceInv' /\ Turned(n)
    <2>1. eng' = [eng EXCEPT ![n] = d] /\ sent \subseteq sent' /\ d.voted \subseteq sent'
      BY <1>2 DEF Becomes
    <2>2. \A b \in B \cup blocks' : Len(b) <= MaxHeight /\ Witnessed(b)'
      BY <1>2, <2>1 DEF Witnessed
    <2> QED  BY <1>2, <2>1, <2>2, ReasonedStep DEF Turned
  <1>3. \A b \in blocks : Len(b) <= MaxHeight /\ Witnessed(b)
    BY DEF EvidenceInv
  <1>4. ASSUME NEW r \in Rounds, NEW p \in Payloads, Produce(n, r, p)
        PROVE  EvidenceInv' /\ Turned(n)
    <2> DEFINE b == Proposal(e, n, r, p)
               d == CastVote(Produced(e, b), n, b)
    <2>1. Len(e.st.chain) < MaxHeight /\ blocks' = blocks \cup {b} /\ Becomes(n, d)
      BY <1>4 DEF Produce
    <2>2. /\ Len(b) <= MaxHeight
          /\ Header(b).commit \subseteq Precommitters(e.pool, Parent(b))
          /\ Reasoned(e, d, {b}, {})
      BY <1>1, <2>1, ProduceReasoned
    <2> HIDE DEF b
    <2>3. Witnessed(b)
      BY <2>2 DEF Precommitters, Witnessed, EvidenceInv
    <2> HIDE DEF d
    <2> QED  BY <1>2, <1>3, <2>1, <2>2, <2>3
  <1>5. ASSUME NEW r \in Rounds, ProduceNothing(n, r)
        PROVE  EvidenceInv' /\ Turned(n)
    <2>1. Becomes(n, Idle(e, Elected(e, n, r))) /\ blocks' = blocks
      BY <1>5 DEF ProduceNothing
    <2>2. Reasoned(e, Idle(e, Elected(e, n, r)), {}, {})
      BY <1>1, IdleReasoned
    <2> QED  BY <1>2, <1>3, <2>1, <2>2
  <1>6. ASSUME NEW b \in blocks \cup EnvBlocks, ReceiveBlock(n, b)
        PROVE  EvidenceInv' /\ Turned(n)
    <2>1. PICK d \in ApplyExternalBlock(e, n, b) : Becomes(n, d)
      BY <1>6 DEF ReceiveBlock
    <2>2. b \in Blocks /\ Len(b) <= MaxHeight /\ Witnessed(b) /\ blocks' = blocks
      BY <1>1, <1>3, <1>6, EnvironmentTyped, EnvironmentShort, DeliverableWitnessed
      DEF ReceiveBlock
    <2>3. Reasoned(e, d, {b}, {})
      BY <1>1, <2>2, ApplyReasoned
    <2> QED  BY <1>2, <1>3, <2>1, <2>2, <2>3
  <1>7. ASSUME NEW v \in sent \cup EnvVotes, ReceiveVote(n, v)
        PROVE  EvidenceInv' /\ Turned(n)
    <2>1. PICK d \in AddVote(e, n, v) : Becomes(n, d)
      BY <1>7 DEF ReceiveVote
    <2>2. v \in Votes /\ (v.voter \in Keyed => v \in sent) /\ blocks' = blocks
      BY <1>1, <1>7, EnvironmentTyped, EnvironmentKeyless DEF ReceiveVote
    <2>3. Reasoned(e, d, {}, {v})
      BY <1>1, <2>2, AddVoteReasoned
    <2> QED  BY <1>2, <1>3, <2>1, <2>2, <2>3
  <1> QED  BY <1>4, <1>5, <1>6, <1>7 DEF NodeStep

(* So is a crash inside a call that commits b. *)
LEMMA DieReasoned ==
    ASSUME FinalityInv, EvidenceInv, PowersKnown', NEW n \in Nodes, NEW b, NEW done,
           Len(b) <= MaxHeight, Witnessed(b), Final(b), Stored(eng[n], done, b),
           Parent(b) = eng[n].st.chain \/ Polka(b, eng[n].pool.votes),
           DieWhileCommitting(n, b, done),
           blocks' \subseteq blocks \cup {b}
    PROVE  EvidenceInv' /\ Turned(n)
  <1> DEFINE e == eng[n]
             same == Started(e.st, e.saved \cup {b})
             next == Started(done.st, done.saved)
  <1>1. Polka(b, e.pool.votes) => Polka(b, e.pool.votes \cup {})
    BY DEF Polka
  <1>2. Reasoned(e, same, {b}, {}) /\ Reasoned(e, next, {b}, {})
    BY <1>1, StartedReasoned DEF Stored
  <1>3. same.voted = {} /\ next.voted = {}
    BY DEF Started
  <1>4. \/ eng' = [eng EXCEPT ![n] = same]
        \/ eng' = [eng EXCEPT ![n] = next]
    BY DEF DieWhileCommitting
  <1>5. sent \subseteq sent'
    BY DEF DieWhileCommitting
  <1> HIDE DEF same, next
  <1>6. \A c \in {b} \cup blocks' : Len(c) <= MaxHeight /\ Witnessed(c)'
    <2>1. \A c \in {b} \cup blocks' : Len(c) <= MaxHeight /\ Witnessed(c)
      BY DEF EvidenceInv
    <2> QED  BY <1>5, <2>1 DEF Witnessed
  <1>7. ASSUME NEW d, eng' = [eng EXCEPT ![n] = d], d.voted = {}, Reasoned(e, d, {b}, {})
        PROVE  EvidenceInv' /\ Turned(n)
    <2>1. d.voted \subseteq sent' /\ \A v \in {} : v.voter \in Keyed => v \in sent
      BY <1>7
    <2> QED  BY <1>5, <1>6, <1>7, <2>1, ReasonedStep DEF Turned
  <1> QED  BY <1>2, <1>3, <1>4, <1>7

(* So is every crash and restart. *)
LEMMA FailureReasoned ==
    ASSUME FinalityInv, EvidenceInv, PowersKnown', NEW n \in Nodes, NodeFailure(n)
    PROVE  EvidenceInv' /\ Turned(n)
  <1> DEFINE e == eng[n]
  <1>1. /\ Sound(e) /\ n \in Validators /\ blocks \subseteq Blocks
        /\ Known(e) /\ Len(e.st.chain) <= MaxHeight
    BY EngineAssumption DEF FinalityInv, EvidenceInv
  <1>2. ASSUME Restart(n)
        PROVE  EvidenceInv' /\ Turned(n)
    <2> DEFINE d == Started(e.st, e.saved)
    <2>1. eng' = [eng EXCEPT ![n] = d] /\ sent' = sent /\ blocks' = blocks
      BY <1>2 DEF Restart
    <2>2. /\ d.st = e.st /\ d.saved = e.saved /\ d.snapshots = {} /\ d.forks = {}
          /\ d.pool.votes = {} /\ d.frozen = [h \in Heights |-> NotFrozen] /\ d.voted = {}
      BY DEF Started, EmptyPool
    <2> HIDE DEF d
    <2>3. Reasoned(e, d, {}, {})
      BY <2>2 DEF Reasoned, Known
    <2>4. \A b \in {} \cup blocks' : Len(b) <= MaxHeight /\ Witnessed(b)'
      BY <2>1 DEF EvidenceInv, Witnessed
    <2> QED  BY ZenonT(40), <2>1, <2>2, <2>3, <2>4, ReasonedStep DEF Turned
  <1>3. ASSUME NEW b \in blocks \cup EnvBlocks, CrashAppending(n, b)
        PROVE  EvidenceInv' /\ Turned(n)
    <2>1. /\ Deliverable(b) /\ Parent(b) = e.st.chain /\ Valid(Freeze(e, Len(b)), b)
          /\ DieWhileCommitting(n, b, Accepted(e, b)) /\ blocks' = blocks
      BY <1>3 DEF CrashAppending
    <2>2. b \in Blocks /\ Len(b) <= MaxHeight /\ Witnessed(b)
      BY <1>1, <2>1, EnvironmentTyped, EnvironmentShort, DeliverableWitnessed DEF EvidenceInv
    <2>3. Final(b)
      BY <1>1, <2>1, <2>2, FreezeKnown, ValidFinal DEF Sound
    <2>4. Stored(e, Accepted(e, b), b)
      BY <1>1, <2>1, <2>2, AcceptedStored
    <2> QED  BY <2>1, <2>2, <2>3, <2>4, DieReasoned
  <1>4. ASSUME NEW r \in Rounds, NEW p \in Payloads, CrashProducing(n, r, p)
        PROVE  EvidenceInv' /\ Turned(n)
    <2> DEFINE b == Proposal(e, n, r, p)
    <2>1. /\ Len(e.st.chain) < MaxHeight
          /\ DieWhileCommitting(n, b, Produced(e, b)) /\ blocks' = blocks \cup {b}
      BY <1>4 DEF CrashProducing
    <2>2. /\ Len(b) <= MaxHeight /\ Final(b)
          /\ Header(b).commit \subseteq Precommitters(e.pool, Parent(b))
      BY <1>1, <2>1, ProduceReasoned
    <2>3. b \in Blocks /\ Parent(b) = e.st.chain
      BY <1>1, ProposalTyped
    <2> HIDE DEF b
    <2>4. Witnessed(b)
      BY <2>2 DEF Precommitters, Witnessed, EvidenceInv
    <2>5. Stored(e, Produced(e, b), b)
      BY <1>1, <2>3, ProducedStored
    <2> QED  BY <2>1, <2>2, <2>3, <2>4, <2>5, DieReasoned
  <1>5. ASSUME NEW b \in eng[n].forks, CrashSwitching(n, b)
        PROVE  EvidenceInv' /\ Turned(n)
    <2>1. /\ b \in Blocks /\ b \in Candidates(e, Len(b)) /\ Len(b) <= Len(e.st.chain)
          /\ Len(b) <= MaxHeight /\ Witnessed(b) /\ blocks' = blocks
      BY <1>1, <1>5 DEF CrashSwitching, Sound, Shape, EvidenceInv
    <2>2. PICK s \in SnapshotAt(e, Len(b) - 1) :
            LET r == Rewound(e, s, Len(b))
            IN  /\ Parent(b) = s.chain
                /\ Valid(r, b)
                /\ DieWhileCommitting(n, b, Switched(r, b, Len(e.st.chain)))
      BY <1>5 DEF CrashSwitching
    <2>3. s \in e.snapshots /\ Len(b) \in Heights
      BY <2>1, <2>2, BlockParts, EngineAssumption DEF SnapshotAt, Heights
    <2>4. Known(Rewound(e, s, Len(b)))
      BY <1>1, <2>3, RewoundKnown
    <2>5. Final(b)
      BY <2>1, <2>2, <2>4, ValidFinal
    <2>6. Stored(e, Switched(Rewound(e, s, Len(b)), b, Len(e.st.chain)), b)
      BY <1>1, <2>1, <2>2, <2>3, SwitchedStored
    <2>7. Polka(b, e.pool.votes)
      BY <1>1, <2>1, <2>3, CandidatePolka
    <2> QED  BY <2>1, <2>2, <2>5, <2>6, <2>7, DieReasoned
  <1> QED  BY <1>2, <1>3, <1>4, <1>5 DEF NodeFailure

-----------------------------------------------------------------------------
(* The children of the fork point. *)

(* Every header may be that of a child, whatever commit and evidence nodes *)
(* collect: what a run bounds and the theorems do not.                     *)
AllSiblings == SiblingHeaders = Headers

(* What ChildOn finds is a child of the fork point on the chain. *)
LEMMA ChildParts ==
    ASSUME AllSiblings, NEW c \in Chains, ChildOn(c) # NoChild
    PROVE  /\ ChildOn(c) \in Siblings
           /\ OnBranch(ChildOn(c), c)
  <1> DEFINE h == Len(ForkPoint) + 1
             k == SubSeq(c, 1, h)
  <1>1. ForkPoint \in Chains /\ Len(ForkPoint) \in Nat /\ Len(c) \in Nat
    BY ForkAssumption DEF Chains
  <1>2. Len(c) > Len(ForkPoint) /\ OnBranch(ForkPoint, c) /\ ChildOn(c) = k
    BY DEF ChildOn
  <1>3. h \in 1 .. Len(c)
    BY <1>1, <1>2
  <1> HIDE DEF h
  <1>4. k \in Chains /\ Len(k) = h /\ \A i \in 1 .. h : k[i] = c[i]
    BY <1>3, Prefix
  <1> HIDE DEF k
  <1>5. OnBranch(k, c)
    BY <1>3, <1>4 DEF OnBranch
  <1>6. c[h] \in Headers
    BY <1>3 DEF Chains
  <1>7. k = Append(ForkPoint, c[h])
    <2> DEFINE a == Append(ForkPoint, c[h])
    <2>1. a \in Seq(Headers) /\ Len(a) = h
      BY <1>1, <1>6 DEF Chains, h
    <2>2. \A i \in 1 .. h : a[i] = c[i]
      BY <1>1, <1>2, <1>6 DEF Chains, h, OnBranch
    <2> HIDE DEF a
    <2>3. k = a
      BY <1>4, <2>1, <2>2, SeqEqual DEF Chains
    <2> QED  BY <2>3 DEF a
  <1> QED  BY <1>2, <1>5, <1>6, <1>7 DEF AllSiblings, Siblings

(* A sibling is a block on top of the fork point. *)
LEMMA SiblingParts ==
    ASSUME NEW k \in Siblings
    PROVE  /\ k \in Blocks /\ k \in Chains /\ k # NoChild
           /\ Parent(k) = ForkPoint
           /\ Len(k) = Len(ForkPoint) + 1 /\ Len(ForkPoint) \in Nat
           /\ OnBranch(ForkPoint, k)
  <1>1. PICK hd \in SiblingHeaders : k = Append(ForkPoint, hd)
    BY DEF Siblings
  <1>2. ForkPoint \in Chains /\ hd \in Headers /\ Len(ForkPoint) \in Nat
    BY ForkAssumption DEF Chains
  <1>3. k \in Blocks /\ Parent(k) = ForkPoint
    BY <1>1, <1>2, AppendParts
  <1>4. OnBranch(ForkPoint, k) /\ Len(k) = Len(ForkPoint) + 1
    BY <1>1, <1>2, <1>3, ParentOnBranch, BlockParts
  <1> QED  BY <1>2, <1>3, <1>4, ForkAssumption DEF Blocks

(* The child a chain goes through is the one that lies on it. *)
LEMMA ChildOnBranch ==
    ASSUME NEW c \in Chains, NEW k \in Siblings, OnBranch(k, c)
    PROVE  ChildOn(c) = k
  <1> DEFINE h == Len(ForkPoint) + 1
             s == SubSeq(c, 1, h)
  <1>1. /\ k \in Chains /\ ForkPoint \in Chains /\ Len(k) = h /\ h \in Nat
        /\ OnBranch(ForkPoint, k) /\ Len(c) \in Nat /\ Len(ForkPoint) \in Nat
    BY SiblingParts, ForkAssumption DEF Chains
  <1>2. OnBranch(ForkPoint, c)
    BY <1>1, BranchOrder
  <1>3. h <= Len(c) /\ \A i \in 1 .. h : k[i] = c[i]
    BY <1>1 DEF OnBranch
  <1>4. ChildOn(c) = s
    BY <1>1, <1>2, <1>3 DEF ChildOn
  <1> HIDE DEF h
  <1>5. s \in Chains /\ Len(s) = h /\ \A i \in 1 .. h : s[i] = c[i]
    BY <1>1, <1>3, Prefix
  <1> HIDE DEF s
  <1>6. s = k
    BY <1>1, <1>3, <1>5, SeqEqual DEF Chains
  <1> QED  BY <1>4, <1>6

(* Equal blocks have equal lengths and contents, and conversely. *)
LEMMA SameLength ==
    ASSUME NEW b \in Chains, NEW c \in Chains, OnBranch(b, c), Len(b) = Len(c)
    PROVE  b = c
  BY SeqEqual DEF OnBranch, Chains

(* A chain that is over a sibling is none that leads to the fork point: it *)
(* left the fork for a higher round, and never comes back from below.      *)
LEMMA OverNotBelow ==
    ASSUME NEW f \in Siblings, NEW c \in Chains, Over(f, c)
    PROVE  ~OnBranch(c, ForkPoint)
  <1> SUFFICES ASSUME OnBranch(c, ForkPoint) PROVE FALSE
    OBVIOUS
  <1>1. /\ f \in Chains /\ ForkPoint \in Chains /\ OnBranch(ForkPoint, f)
        /\ Len(f) = Len(ForkPoint) + 1 /\ Len(ForkPoint) \in Nat
        /\ Len(c) \in Nat /\ Len(c) <= Len(ForkPoint)
    BY SiblingParts, ForkAssumption DEF Chains, OnBranch
  <1>2. OnBranch(c, f)
    BY <1>1, BranchOrder
  <1>3. ~OnBranch(f, c)
    BY <1>1 DEF OnBranch
  <1>4. PICK i \in 1 .. Len(f) : i <= Len(c) /\ c[i].round > f[i].round
    BY <1>3 DEF Over
  <1>5. c[i] = f[i] /\ c[i].round \in Nat
    BY <1>1, <1>2, <1>4, RoundTyped DEF OnBranch
  <1> QED  BY <1>4, <1>5

(* Who followed a child of the fork point comes to another one only by     *)
(* turning to that very block.                                             *)
LEMMA ForkMove ==
    ASSUME NEW old \in Chains, NEW new \in Chains, Follows(old, new),
           NEW f \in Siblings, Over(f, old),
           NEW k \in Siblings, OnBranch(k, new), ChildOn(old) # k
    PROVE  new = k /\ ~OnBranch(old, new)
  <1>1. /\ k \in Chains /\ ForkPoint \in Chains /\ OnBranch(ForkPoint, k)
        /\ Len(k) = Len(ForkPoint) + 1 /\ Len(ForkPoint) \in Nat
        /\ Len(old) \in Nat /\ Len(new) \in Nat
    BY SiblingParts, ForkAssumption DEF Chains
  <1>2. ~OnBranch(k, old)
    BY ChildOnBranch
  <1>3. ASSUME OnBranch(old, new)
        PROVE  FALSE
    <2>1. Len(old) < Len(k)
      BY <1>1, <1>2, <1>3, BranchOrder
    <2>2. OnBranch(old, k)
      BY <1>1, <1>3, <2>1, BranchOrder
    <2>3. OnBranch(old, ForkPoint)
      BY <1>1, <2>1, <2>2, BranchOrder
    <2> QED  BY <2>3, OverNotBelow
  <1>4. new \in Blocks /\ OnBranch(Parent(new), old)
    BY <1>3 DEF Follows
  <1>5. /\ Parent(new) \in Chains /\ OnBranch(Parent(new), new)
        /\ Len(Parent(new)) = Len(new) - 1
    BY <1>4, BlockParts, ParentOnBranch
  <1>6. ~OnBranch(k, Parent(new))
    BY <1>1, <1>2, <1>4, <1>5, BranchOrder
  <1>7. ~(Len(k) <= Len(new) - 1)
    BY <1>1, <1>5, <1>6, BranchOrder
  <1>8. Len(k) = Len(new)
    BY <1>1, <1>7 DEF OnBranch
  <1> QED  BY <1>1, <1>3, <1>8, SameLength

-----------------------------------------------------------------------------
(* The history variables record what the engines do. *)
ForkInv ==
    /\ first \in [Keyed -> Siblings \cup {NoChild}]
    /\ switched \in [Keyed -> SUBSET Siblings]
    /\ prevotes \in [Keyed -> SUBSET Siblings]
    /\ precommits \in [Keyed -> SUBSET Siblings]
    /\ \A n \in Keyed :
          LET child == ChildOn(eng[n].st.chain)
          IN  /\ first[n] = NoChild => child = NoChild /\ switched[n] = {}
              /\ first[n] # NoChild => Over(first[n], eng[n].st.chain)
              /\ child \in {NoChild, first[n]} \cup switched[n]
    /\ \A v \in sent :
          LET child == ChildOn(v.block)
          IN  child # NoChild =>
                /\ v.kind = "prevote" /\ child = v.block => child \in prevotes[v.voter]
                /\ v.kind = "precommit" => child \in precommits[v.voter]

(* The votes for siblings a voter casts in a step, as RecordVotes has them. *)
NewPrevotes(m) ==
    {v.block : v \in {w \in {u \in sent' \ sent : u.voter = m /\ u.kind = "prevote"} :
                         ChildOn(w.block) = w.block}}
NewPrecommits(m) ==
    {ChildOn(v.block) : v \in {u \in sent' \ sent : u.voter = m /\ u.kind = "precommit"}}
        \ {NoChild}

(* A step of n records votes of n only, for the child it now follows. *)
LEMMA VotesRecorded ==
    ASSUME AllSiblings, FinalityInv', NEW n \in Nodes, Moved(n), NEW m \in Keyed
    PROVE  /\ NewPrevotes(m) \subseteq {ChildOn(eng'[m].st.chain)} \ {NoChild}
           /\ NewPrecommits(m) \subseteq {ChildOn(eng'[m].st.chain)} \ {NoChild}
           /\ m # n => NewPrevotes(m) = {} /\ NewPrecommits(m) = {}
  <1> DEFINE c == eng'[n].st.chain
  <1>1. ASSUME NEW v \in sent' \ sent
        PROVE  v.voter = n /\ v.block = c /\ c \in Blocks
    BY <1>1 DEF Moved, OwnVotes
  <1>2. c \in Blocks => c # NoChild
    BY ForkAssumption DEF Blocks
  <1> HIDE DEF c
  <1>3. ASSUME m # n
        PROVE  NewPrevotes(m) = {} /\ NewPrecommits(m) = {}
    BY <1>1, <1>3 DEF NewPrevotes, NewPrecommits
  <1>4. ASSUME m = n
        PROVE  /\ NewPrevotes(m) \subseteq {ChildOn(c)} \ {NoChild}
               /\ NewPrecommits(m) \subseteq {ChildOn(c)} \ {NoChild}
    BY <1>1, <1>2, <1>4 DEF NewPrevotes, NewPrecommits
  <1> QED  BY <1>3, <1>4 DEF c

(* What a voter of the step turns to, if anything, has a polka. *)
LEMMA TurnBacked ==
    ASSUME AllSiblings, FinalityInv, FinalityInv', VotingInv, ForkInv,
           NEW n \in Keyed, Moved(n), Turned(n), first[n] # NoChild,
           NEW k, k = ChildOn(eng'[n].st.chain),
           k # NoChild, k # ChildOn(eng[n].st.chain)
    PROVE  k \in Siblings /\ Fork!Polka(k)
  <1> DEFINE old == eng[n].st.chain
             new == eng'[n].st.chain
  <1>1. n \in Nodes /\ Keyed \subseteq Nodes /\ Nodes \subseteq Validators
    BY EngineAssumption
  <1>2. old \in Chains /\ new \in Chains /\ Follows(old, new)
    BY <1>1 DEF FinalityInv, Sound, Shape, StateShape, Moved
  <1>3. first[n] \in Siblings /\ Over(first[n], old)
    BY DEF ForkInv
  <1>4. k \in Siblings /\ OnBranch(k, new)
    BY <1>2, ChildParts
  <1>5. new = k /\ ~OnBranch(old, new)
    BY <1>2, <1>3, <1>4, ForkMove
  <1>6. Polka(k, sent)
    <2>1. new # old
      BY <1>5
    <2>2. Parent(new) # old
      BY <1>4, <1>5, SiblingParts, ParentOnBranch
    <2> QED  BY <1>5, <2>1, <2>2 DEF Turned
  <1>7. PICK Q \in Quorums : \A w \in Q \cap Keyed : VoteFor(w, "prevote", k) \in sent
    BY <1>6 DEF Polka
  <1>8. ASSUME NEW w \in Q \ (Validators \ Keyed)
        PROVE  k \in prevotes[w]
    <2>1. w \in Keyed
      BY DEF Quorums
    <2> DEFINE v == VoteFor(w, "prevote", k)
    <2>2. v \in sent /\ v.voter = w /\ v.kind = "prevote" /\ v.block = k
      BY <1>7, <2>1 DEF VoteFor
    <2>3. ChildOn(k) = k /\ k # NoChild
      BY <1>4, SiblingParts, BranchOrder, ChildOnBranch
    <2> HIDE DEF v
    <2> QED  BY <2>2, <2>3 DEF ForkInv
  <1> QED  BY <1>4, <1>7, <1>8 DEF Fork!Polka, Fork!Backed

(* A step keeps the record. *)
LEMMA RecordKept ==
    ASSUME AllSiblings, FinalityInv, FinalityInv', VotingInv', ForkInv,
           NEW n \in Nodes, Moved(n), RecordFollowed, RecordVotes
    PROVE  ForkInv'
  <1>1. /\ Keyed \subseteq Nodes
        /\ \A m \in Nodes : eng[m].st.chain \in Chains /\ eng'[m].st.chain \in Chains
    BY EngineAssumption DEF FinalityInv, Sound, Shape, StateShape
  <1>2. \A m \in Keyed : ChildOn(eng'[m].st.chain) \in Siblings \cup {NoChild}
    BY <1>1, ChildParts
  <1>3. /\ first' = [m \in Keyed |->
                IF first[m] = NoChild THEN ChildOn(eng'[m].st.chain) ELSE first[m]]
        /\ switched' = [m \in Keyed |->
                IF first[m] = NoChild THEN {}
                ELSE switched[m] \cup
                     ({ChildOn(eng'[m].st.chain)} \ {NoChild, ChildOn(eng[m].st.chain)})]
    BY DEF RecordFollowed
  <1>4. /\ prevotes' = [m \in Keyed |-> prevotes[m] \cup NewPrevotes(m)]
        /\ precommits' = [m \in Keyed |-> precommits[m] \cup NewPrecommits(m)]
    BY DEF RecordVotes, NewPrevotes, NewPrecommits
  <1>5. first' \in [Keyed -> Siblings \cup {NoChild}] /\ switched' \in [Keyed -> SUBSET Siblings]
    BY <1>2, <1>3 DEF ForkInv
  <1>6. \A m \in Keyed : NewPrevotes(m) \subseteq Siblings /\ NewPrecommits(m) \subseteq Siblings
    BY <1>2, VotesRecorded
  <1>7. prevotes' \in [Keyed -> SUBSET Siblings] /\ precommits' \in [Keyed -> SUBSET Siblings]
    BY <1>4, <1>6 DEF ForkInv
  <1>8. ASSUME NEW m \in Keyed
        PROVE  LET child == ChildOn(eng'[m].st.chain)
               IN  /\ first'[m] = NoChild => child = NoChild /\ switched'[m] = {}
                   /\ first'[m] # NoChild => Over(first'[m], eng'[m].st.chain)
                   /\ child \in {NoChild, first'[m]} \cup switched'[m]
    <2> DEFINE old == eng[m].st.chain
               new == eng'[m].st.chain
    <2>1. old \in Chains /\ new \in Chains /\ Follows(old, new)
      BY <1>1 DEF Moved
    <2>2. CASE first[m] = NoChild
      <3>1. first'[m] = ChildOn(new) /\ switched'[m] = {}
        BY <1>3, <2>2
      <3>2. ChildOn(new) # NoChild => Over(ChildOn(new), new)
        BY <2>1, ChildParts DEF Over
      <3> QED  BY <3>1, <3>2
    <2>3. CASE first[m] # NoChild
      <3>1. /\ first'[m] = first[m]
            /\ switched'[m] = switched[m] \cup ({ChildOn(new)} \ {NoChild, ChildOn(old)})
        BY <1>3, <2>3
      <3>2. first[m] \in Blocks /\ Over(first[m], old)
        BY <2>3, SiblingParts DEF ForkInv
      <3>3. Over(first[m], new)
        BY <2>1, <3>2, FollowsOver
      <3>4. ChildOn(old) \in {NoChild, first[m]} \cup switched[m]
        BY DEF ForkInv
      <3> QED  BY <2>3, <3>1, <3>3, <3>4
    <2> QED  BY <2>2, <2>3
  <1>9. ASSUME NEW v \in sent', ChildOn(v.block) # NoChild
        PROVE  /\ v.kind = "prevote" /\ ChildOn(v.block) = v.block
                     => ChildOn(v.block) \in prevotes'[v.voter]
               /\ v.kind = "precommit" => ChildOn(v.block) \in precommits'[v.voter]
    <2>1. v.voter \in Keyed
      BY DEF VotingInv
    <2>2. CASE v \in sent
      BY <1>4, <1>9, <2>1, <2>2 DEF ForkInv
    <2>3. CASE v \notin sent
      BY <1>4, <1>9, <2>1, <2>3 DEF NewPrevotes, NewPrecommits
    <2> QED  BY <2>2, <2>3
  <1>10. \A v \in sent' :
            LET child == ChildOn(v.block)
            IN  child # NoChild =>
                  /\ v.kind = "prevote" /\ child = v.block => child \in prevotes'[v.voter]
                  /\ v.kind = "precommit" => child \in precommits'[v.voter]
    BY <1>9
  <1> QED  BY <1>5, <1>7, <1>8, <1>10 DEF ForkInv, ChildOn, OnBranch, Over

(* Every step is one of ForkVoting, or none. *)
LEMMA StepRefines ==
    ASSUME AllSiblings, FinalityInv, FinalityInv', VotingInv, VotingInv', ForkInv,
           NEW n \in Nodes, Moved(n), Turned(n), RecordFollowed, RecordVotes
    PROVE  [Fork!Next]_(Fork!vars)
  <1>1. /\ Keyed \subseteq Nodes /\ Fork!Honest = Keyed
        /\ \A m \in Keyed : eng[m].st.chain \in Chains /\ eng'[m].st.chain \in Chains
    BY EngineAssumption DEF FinalityInv, Sound, Shape, StateShape, Fork!Honest
  <1>2. /\ first' = [m \in Keyed |->
                IF first[m] = NoChild THEN ChildOn(eng'[m].st.chain) ELSE first[m]]
        /\ switched' = [m \in Keyed |->
                IF first[m] = NoChild THEN {}
                ELSE switched[m] \cup
                     ({ChildOn(eng'[m].st.chain)} \ {NoChild, ChildOn(eng[m].st.chain)})]
    BY DEF RecordFollowed
  <1>3. /\ prevotes' = [m \in Keyed |-> prevotes[m] \cup NewPrevotes(m)]
        /\ precommits' = [m \in Keyed |-> precommits[m] \cup NewPrecommits(m)]
    BY DEF RecordVotes, NewPrevotes, NewPrecommits
  <1>4. \A m \in Keyed \ {n} : eng'[m] = eng[m]
    BY <1>1 DEF Moved
  <1>5. \A m \in Keyed \ {n} : NewPrevotes(m) = {} /\ NewPrecommits(m) = {}
    BY VotesRecorded
  <1>6. /\ first \in [Keyed -> Siblings \cup {NoChild}]
        /\ switched \in [Keyed -> SUBSET Siblings]
        /\ prevotes \in [Keyed -> SUBSET Siblings]
        /\ precommits \in [Keyed -> SUBSET Siblings]
        /\ \A m \in Keyed : first[m] = NoChild =>
              ChildOn(eng[m].st.chain) = NoChild /\ switched[m] = {}
    BY DEF ForkInv
  <1>7. \A m \in Keyed \ {n} : /\ first'[m] = first[m] /\ switched'[m] = switched[m]
                               /\ prevotes'[m] = prevotes[m]
                               /\ precommits'[m] = precommits[m]
    BY <1>2, <1>3, <1>4, <1>5, <1>6
  <1>8. CASE n \notin Keyed
    <2>1. first' = first /\ switched' = switched
      BY <1>2, <1>6, <1>7, <1>8
    <2>2. prevotes' = prevotes /\ precommits' = precommits
      BY <1>3, <1>6, <1>7, <1>8
    <2> QED  BY <2>1, <2>2 DEF Fork!vars
  <1>9. CASE n \in Keyed
    <2> DEFINE old == eng[n].st.chain
               new == eng'[n].st.chain
               k   == ChildOn(new)
    <2>1. \/ UNCHANGED <<first, switched>>
          \/ \E j \in Siblings : Fork!Adopt(n, j)
          \/ \E j \in Siblings : Fork!Switch(n, j)
      <3>1. CASE first[n] = NoChild /\ k = NoChild
        <4>1. first' = first
          BY <1>2, <1>6, <1>7, <3>1
        <4>2. switched' = switched
          BY <1>2, <1>6, <1>7, <3>1
        <4> QED  BY <4>1, <4>2
      <3>2. CASE first[n] = NoChild /\ k # NoChild
        <4>1. k \in Siblings
          BY <1>1, <1>9, <3>2, ChildParts
        <4>2. first' = [first EXCEPT ![n] = k]
          BY <1>2, <1>6, <1>7, <3>2
        <4>3. switched' = switched
          BY <1>2, <1>6, <1>7, <3>2
        <4> QED  BY <3>2, <4>1, <4>2, <4>3 DEF Fork!Adopt
      <3>3. CASE first[n] # NoChild /\ k \in {NoChild, ChildOn(old)}
        <4>1. first' = first
          BY <1>2, <1>6, <1>7, <3>3
        <4>2. switched' = switched
          BY <1>2, <1>6, <1>7, <3>3
        <4> QED  BY <4>1, <4>2
      <3>4. CASE first[n] # NoChild /\ k \notin {NoChild, ChildOn(old)}
        <4>1. k \in Siblings /\ Fork!Polka(k)
          BY <1>9, <3>4, TurnBacked
        <4>2. first' = first
          BY <1>2, <1>6, <1>7, <3>4
        <4>3. switched' = [switched EXCEPT ![n] = @ \cup {k}]
          BY <1>2, <1>6, <1>7, <1>9, <3>4
        <4> QED  BY <3>4, <4>1, <4>2, <4>3 DEF Fork!Switch
      <3> QED  BY <3>1, <3>2, <3>3, <3>4
    <2>2. ForkInv'
      BY RecordKept
    <2>3. {k} \ {NoChild} \subseteq Fork!Followed(n)'
      <3>1. k \in {NoChild, first'[n]} \cup switched'[n]
        BY <1>9, <2>2 DEF ForkInv
      <3> HIDE DEF k
      <3> QED  BY <3>1 DEF Fork!Followed
    <2>4. NewPrevotes(n) \subseteq {k} \ {NoChild} /\ NewPrecommits(n) \subseteq {k} \ {NoChild}
      BY <1>9, VotesRecorded
    <2>5. /\ prevotes' = [prevotes EXCEPT ![n] = @ \cup NewPrevotes(n)]
          /\ precommits' = [precommits EXCEPT ![n] = @ \cup NewPrecommits(n)]
      BY <1>3, <1>6, <1>7, <1>9
    <2>6. NewPrevotes(n) \in SUBSET (Fork!Followed(n)') /\ NewPrecommits(n) \in SUBSET (Fork!Followed(n)')
      BY <2>3, <2>4
    <2>7. Fork!CastVotes(n)
      BY <2>5, <2>6 DEF Fork!CastVotes
    <2> QED  BY <1>1, <1>9, <2>1, <2>7 DEF Fork!Next, Fork!Stay
  <1> QED  BY <1>8, <1>9

-----------------------------------------------------------------------------
(* The record begins empty, at the genesis. *)
LEMMA InitFork ==
    ASSUME HInit, PowersKnown
    PROVE  EvidenceInv /\ ForkInv /\ Fork!Init
  <1>1. /\ sent = {} /\ blocks = {}
        /\ \A n \in Nodes : /\ eng[n].st.chain = <<>> /\ eng[n].saved = {}
                            /\ eng[n].snapshots = {} /\ eng[n].forks = {}
                            /\ eng[n].pool.votes = {}
                            /\ eng[n].frozen = [h \in Heights |-> NotFrozen]
    BY DEF HInit, Init, Started, Genesis, EmptyPool
  <1>2. \A n \in Nodes : Known(eng[n])
    BY <1>1 DEF Known, PowersKnown
  <1>3. EvidenceInv
    BY <1>1, <1>2, EngineAssumption DEF EvidenceInv
  <1>4. ChildOn(<<>>) = NoChild
    BY ForkAssumption DEF ChildOn, Chains
  <1>5. ForkInv
    BY <1>1, <1>4, EngineAssumption DEF ForkInv, HInit
  <1>6. Fork!Honest = Keyed
    BY EngineAssumption DEF Fork!Honest
  <1> QED  BY <1>3, <1>5, <1>6 DEF HInit, Fork!Init

(* What stays the same keeps the evidence and the record. *)
LEMMA SameFork ==
    ASSUME UNCHANGED <<vars, history>>
    PROVE  /\ EvidenceInv => EvidenceInv'
           /\ ForkInv => ForkInv'
           /\ UNCHANGED (Fork!vars)
  <1>1. /\ eng' = eng /\ sent' = sent /\ blocks' = blocks
        /\ first' = first /\ switched' = switched
        /\ prevotes' = prevotes /\ precommits' = precommits
    BY DEF vars, history
  <1> QED  BY <1>1 DEF EvidenceInv, Witnessed, ForkInv, Fork!vars

(* Every step keeps the evidence and the record, and is a step of the      *)
(* voting around the fork.                                                 *)
LEMMA NextFork ==
    ASSUME AllSiblings, FinalityInv, VotingInv, EvidenceInv, ForkInv, PowersKnown',
           [HNext]_<<vars, history>>
    PROVE  EvidenceInv' /\ ForkInv' /\ [Fork!Next]_(Fork!vars)
  <1>1. CASE UNCHANGED <<vars, history>>
    BY <1>1, SameFork
  <1>2. CASE HNext
    <2>1. PICK n \in Nodes : NodeStep(n) \/ NodeFailure(n)
      BY <1>2 DEF HNext, Next
    <2>2. FinalityInv'
      BY <1>2, NextInv DEF HNext
    <2>3. VotingInv' /\ Moved(n)
      BY <2>1, <2>2, StepVoting, FailureVoting
    <2>4. EvidenceInv' /\ Turned(n)
      BY <2>1, StepReasoned, FailureReasoned
    <2>5. RecordFollowed /\ RecordVotes
      BY <1>2 DEF HNext
    <2>6. ForkInv'
      BY <2>2, <2>3, <2>5, RecordKept
    <2> QED  BY <2>2, <2>3, <2>4, <2>5, <2>6, StepRefines
  <1> QED  BY <1>1, <1>2

(* The record is the engines' own, as long as the powers are known. *)
LEMMA ForkInductive ==
    ASSUME AllSiblings
    PROVE  HSpec /\ []PowersKnown => [](FinalityInv /\ VotingInv /\ EvidenceInv /\ ForkInv)
  <1>1. HInit => Init
    BY DEF HInit
  <1>2. [HNext]_<<vars, history>> => [Next]_vars
    BY DEF HNext
  <1>3. HSpec => Spec
    BY <1>1, <1>2, PTL DEF HSpec, Spec
  <1>4. HInit /\ PowersKnown => EvidenceInv /\ ForkInv
    BY InitFork
  <1>5. FinalityInv /\ VotingInv /\ EvidenceInv /\ ForkInv /\ PowersKnown'
          /\ [HNext]_<<vars, history>> => EvidenceInv' /\ ForkInv'
    BY NextFork
  <1> QED  BY <1>3, <1>4, <1>5, Inductive, VotingInductive, PTL DEF HSpec

(* The engines implement ForkVoting around every block that may fork: they *)
(* vote for what they follow, and leave the child they followed first only *)
(* for one that a quorum prevoted (lock of castVoteKind, tryReorgLocked).  *)
THEOREM EnginesImplementForkVoting ==
    ASSUME AllSiblings
    PROVE  HSpec /\ []PowersKnown => ImplementsForkVoting
  <1>1. HInit /\ PowersKnown => Fork!Init
    BY InitFork
  <1>2. FinalityInv /\ VotingInv /\ EvidenceInv /\ ForkInv /\ PowersKnown'
          /\ [HNext]_<<vars, history>> => [Fork!Next]_(Fork!vars)
    BY NextFork
  <1> QED  BY <1>1, <1>2, ForkInductive, PTL DEF HSpec, ImplementsForkVoting, Fork!Spec

-----------------------------------------------------------------------------
(* What the refinement gives the chain: ForkVoting's agreement, proved for *)
(* it in ForkVotingProofs, holds of the blocks on the nodes' disks.        *)
Proved == INSTANCE ForkVotingProofs WITH
    Voters <- Validators, Byzantine <- Validators \ Keyed, None <- NoChild

(* Any two quorums share a node that runs this code. *)
QuorumsOverlap == \A P, Q \in Quorums : \E n \in P \cap Q : n \in Keyed

(* A block that carries a commit finalizes its parent.  Whatever two nodes *)
(* finalize past the fork point, they finalize on the same branch.         *)
FinalizedOnOneBranch ==
    \A n, m \in Nodes : \A b \in eng[n].saved, c \in eng[m].saved :
        /\ Header(b).commit # {} /\ ChildOn(Parent(b)) # NoChild
        /\ Header(c).commit # {} /\ ChildOn(Parent(c)) # NoChild
        => ChildOn(Parent(b)) = ChildOn(Parent(c))

(* The signers of a commit on disk are recorded as having precommitted the *)
(* child of the fork point below the block it finalizes.                   *)
LEMMA CommitBacked ==
    ASSUME AllSiblings, FinalityInv, EvidenceInv, ForkInv, NEW n \in Nodes,
           NEW b \in eng[n].saved, Header(b).commit # {}, ChildOn(Parent(b)) # NoChild
    PROVE  ChildOn(Parent(b)) \in Siblings /\ Fork!Backed(precommits, ChildOn(Parent(b)))
  <1> DEFINE k == ChildOn(Parent(b))
             Q == Header(b).commit
  <1>1. b \in Blocks
    BY DEF FinalityInv, Sound, Shape
  <1>2. k \in Siblings
    BY <1>1, BlockParts, ChildParts
  <1>3. Q \in Quorums /\ Witnessed(b)
    BY DEF EvidenceInv, Final
  <1>4. ASSUME NEW w \in Q \ (Validators \ Keyed)
        PROVE  k \in precommits[w]
    <2>1. w \in Q \cap Keyed
      BY <1>3 DEF Quorums
    <2>2. PICK v \in sent : v.voter = w /\ v.kind = "precommit" /\ v.block = Parent(b)
      BY <1>3, <2>1 DEF Witnessed
    <2> QED  BY <2>2 DEF ForkInv
  <1> QED  BY <1>2, <1>3, <1>4 DEF Fork!Backed

(* Agreement of the network: two nodes never finalize two children of one  *)
(* block, nor descendants of two, whatever crashes, restarts and fork      *)
(* choices happen (castVoteKind, tryReorgLocked, validateBlockLocked).     *)
THEOREM NetworkAgreement ==
    ASSUME AllSiblings, QuorumsOverlap
    PROVE  HSpec /\ []PowersKnown => []FinalizedOnOneBranch
  <1>1. Proved!QuorumAssumption
    <2>1. Quorums \subseteq SUBSET Validators
      BY DEF Quorums
    <2>2. NoChild \notin Siblings
      BY SiblingParts
    <2> QED  BY <2>1, <2>2 DEF QuorumsOverlap, Proved!QuorumAssumption
  <1>2. Proved!Spec => []Proved!Agreement
    BY <1>1, Proved!AgreementHolds
  <1>3. Fork!Spec <=> Proved!Spec
    <2>1. Fork!Init <=> Proved!Init
      BY DEF Fork!Init, Proved!Init, Fork!Honest, Proved!Honest
    <2>2. Fork!Next <=> Proved!Next
      BY DEF Fork!Next, Proved!Next, Fork!Honest, Proved!Honest, Fork!Stay, Proved!Stay,
             Fork!Adopt, Proved!Adopt, Fork!Switch, Proved!Switch, Fork!Polka, Proved!Polka,
             Fork!Backed, Proved!Backed, Fork!CastVotes, Proved!CastVotes,
             Fork!Followed, Proved!Followed
    <2>3. [Fork!Next]_(Fork!vars) <=> [Proved!Next]_(Proved!vars)
      BY <2>2 DEF Fork!vars, Proved!vars
    <2> QED  BY <2>1, <2>3, PTL DEF Fork!Spec, Proved!Spec
  <1>4. Proved!Agreement <=> Fork!Agreement
    BY DEF Proved!Agreement, Proved!Backed, Fork!Agreement, Fork!Backed
  <1>5. FinalityInv /\ EvidenceInv /\ ForkInv /\ Fork!Agreement => FinalizedOnOneBranch
    BY CommitBacked DEF FinalizedOnOneBranch, Fork!Agreement
  <1> QED  BY <1>2, <1>3, <1>4, <1>5, ForkInductive, EnginesImplementForkVoting, PTL
           DEF ImplementsForkVoting

-----------------------------------------------------------------------------
(* The weights.  No penalty takes more than there is, whatever the faults  *)
(* and the absences, so a power never leaves the natural numbers, and      *)
(* every field of every engine keeps its type.                             *)
BasisPoints == 0 .. 10000

SlashRates == SlashDoubleSignBps \in BasisPoints /\ SlashDowntimeBps \in BasisPoints

SlashFault(c, d, vals, fault) == Slash(fault, vals)

Slashing == INSTANCE Folding WITH Step <- SlashFault

FiniteFaults(b) == IsFiniteSet(Header(b).evidence)

Typed(e) ==
    /\ e \in EngineType
    /\ IsFiniteSet(e.evidence)
    /\ \A b \in e.forks : FiniteFaults(b)

(* What is punished on a chain is a finite set, so its fold is defined. *)
TypesInv ==
    /\ eng \in [Nodes -> EngineType]
    /\ \A n \in Nodes : Typed(eng[n])
    /\ \A b \in blocks : FiniteFaults(b)

(* A penalty of at most everything leaves a natural number. *)
LEMMA CutTyped ==
    ASSUME NEW w \in Nat, NEW bps \in BasisPoints
    PROVE  Cut(w, bps) \in Nat
  <1> DEFINE p == w * bps
             q == p \div 10000
  <1>1. p \in Nat /\ p <= w * 10000
    BY SMT DEF BasisPoints
  <1> HIDE DEF p
  <1>2. q \in Nat /\ q <= w
    BY <1>1, SMT
  <1> HIDE DEF q
  <1>3. w - q \in Nat
    BY <1>2
  <1> QED  BY <1>3 DEF Cut, q, p

(* slashLocked keeps the validators typed. *)
LEMMA SlashTyped ==
    ASSUME SlashRates, NEW vals \in Ledgers, NEW fault \in Faults
    PROVE  Slash(fault, vals) \in Ledgers
  <1> DEFINE v == fault.voter
             w == Cut(vals[v].weight, SlashDoubleSignBps)
  <1>1. v \in Validators /\ vals[v] \in ValidatorStates
    BY DEF Faults, Ledgers
  <1>2. w \in Nat
    <2>1. vals[v].weight \in Nat
      BY <1>1 DEF ValidatorStates
    <2>2. SlashDoubleSignBps \in BasisPoints
      BY DEF SlashRates
    <2> DEFINE x == vals[v].weight
    <2>3. x \in Nat
      BY <2>1
    <2> HIDE DEF x
    <2>4. Cut(x, SlashDoubleSignBps) \in Nat
      BY <2>2, <2>3, CutTyped
    <2> QED  BY <2>4 DEF x
  <1> HIDE DEF w
  <1>3. [vals[v] EXCEPT !.weight = w] \in ValidatorStates
    BY <1>1, <1>2 DEF ValidatorStates
  <1>4. Slash(fault, vals) = [vals EXCEPT ![v] = [vals[v] EXCEPT !.weight = w]]
    BY <1>1 DEF Slash, w, Ledgers
  <1> QED  BY <1>3, <1>4 DEF Ledgers

(* applyDowntimeLocked does too. *)
LEMMA DowntimeTyped ==
    ASSUME SlashRates, NEW vals \in Ledgers, NEW proposer, NEW absent
    PROVE  ApplyDowntime(vals, proposer, absent) \in Ledgers
  <1>1. ASSUME NEW v \in Validators
        PROVE  ApplyDowntime(vals, proposer, absent)[v] \in ValidatorStates
    <2> DEFINE w == Cut(vals[v].weight, SlashDowntimeBps)
    <2>1. vals[v] \in ValidatorStates
      BY DEF Ledgers
    <2>2. w \in Nat
      <3>1. vals[v].weight \in Nat
        BY <2>1 DEF ValidatorStates
      <3>2. SlashDowntimeBps \in BasisPoints
        BY DEF SlashRates
      <3> DEFINE x == vals[v].weight
      <3>3. x \in Nat
        BY <3>1
      <3> HIDE DEF x
      <3>4. Cut(x, SlashDowntimeBps) \in Nat
        BY <3>2, <3>3, CutTyped
      <3> QED  BY <3>4 DEF x
    <2> HIDE DEF w
    <2>3. /\ [vals[v] EXCEPT !.missed = 0] \in ValidatorStates
          /\ [vals[v] EXCEPT !.missed = @ + 1] \in ValidatorStates
          /\ [weight |-> w, missed |-> 0, jailed |-> TRUE] \in ValidatorStates
      BY <2>1, <2>2 DEF ValidatorStates
    <2> QED  BY <2>1, <2>3 DEF ApplyDowntime, w
  <1>2. ApplyDowntime(vals, proposer, absent)
          = [v \in Validators |-> ApplyDowntime(vals, proposer, absent)[v]]
    BY DEF ApplyDowntime
  <1> QED  BY <1>1, <1>2 DEF Ledgers

(* So does the execution of a block, whatever faults it punishes. *)
LEMMA ExecuteTyped ==
    ASSUME SlashRates, NEW vals \in Ledgers, NEW F \in SUBSET Faults, IsFiniteSet(F),
           NEW proposer, NEW absent
    PROVE  Execute(vals, F, proposer, absent) \in Ledgers
  <1>1. \A s \in Ledgers : \A f \in F : SlashFault(0, 0, s, f) \in Ledgers
    BY SlashTyped DEF SlashFault
  <1>2. Slashing!FoldOver(0, 0, vals, F) \in Ledgers
    <2>1. Slashing!IsFiniteSet(F)
      BY DEF IsFiniteSet, Slashing!IsFiniteSet
    <2> QED  BY <1>1, <2>1, Slashing!FoldKeeps
  <1>3. FoldSet(Slash, vals, F) = Slashing!FoldOver(0, 0, vals, F)
    BY DEF Slashing!FoldOver, SlashFault, FoldSet, MapThenFoldSet,
           Slashing!FoldSet, Slashing!MapThenFoldSet
  <1> QED  BY <1>2, <1>3, DowntimeTyped DEF Execute

(* The state after a block is a state. *)
LEMMA AfterTyped ==
    ASSUME SlashRates, NEW st \in States, NEW b \in Blocks, FiniteFaults(b)
    PROVE  AfterBlock(st, b) \in States
  <1> DEFINE F == Header(b).evidence \ Slashed(st)
             vals == Execute(st.vals, F, Header(b).proposer,
                        AbsentProposers(st.vals, st.chain, Header(b).round, Header(b).proposer))
  <1>1. Header(b).evidence \in SUBSET Faults
    BY BlockParts DEF Headers
  <1>2. F \in SUBSET Faults /\ IsFiniteSet(F)
    BY <1>1, FS_Difference DEF FiniteFaults
  <1> HIDE DEF F
  <1>3. vals \in Ledgers
    BY <1>2, ExecuteTyped DEF States
  <1>4. AfterBlock(st, b) = [st EXCEPT !.chain = b, !.vals = vals]
    BY DEF AfterBlock, F, States
  <1> HIDE DEF vals
  <1> QED  BY <1>3, <1>4 DEF States, Blocks

(* Active powers are natural numbers. *)
LEMMA PowersTyped ==
    ASSUME NEW vals \in Ledgers
    PROVE  SnapshotActiveSet(vals) \in [Validators -> Nat]
  <1>1. \A v \in Validators : ActiveWeight(vals, v) \in Nat
    BY DEF ActiveWeight, Ledgers, ValidatorStates
  <1> QED  BY <1>1 DEF SnapshotActiveSet

-----------------------------------------------------------------------------
(* The handlers. *)

(* freezeSetLocked keeps an engine typed. *)
LEMMA FreezeTyped ==
    ASSUME NEW e, Typed(e), NEW h
    PROVE  Typed(Freeze(e, h))
  <1> DEFINE w == SnapshotActiveSet(e.st.vals)
  <1>1. w \in [Validators -> Nat]
    BY PowersTyped DEF Typed, EngineType, States
  <1> HIDE DEF w
  <1>2. Typed([e EXCEPT !.frozen[h] = w])
    BY <1>1 DEF Typed, EngineType
  <1> QED  BY <1>2 DEF Freeze, w

(* castVoteKind. *)
LEMMA CastKindTyped ==
    ASSUME NEW e, Typed(e), NEW n \in Validators, NEW kind \in Kinds, NEW b \in Blocks
    PROVE  Typed(CastVoteKind(e, n, kind, b))
  <1> DEFINE v == VoteFor(n, kind, b)
             pool == Add(e.pool, v)
             L == IF kind = "precommit" THEN {l \in e.locked : Len(l) # Len(b)} \cup {b}
                  ELSE e.locked
  <1>1. v \in Votes
    BY VoteTyped
  <1>2. pool \in PoolType
    BY <1>1, PoolTyped DEF Typed, EngineType, PoolType
  <1>3. L \in SUBSET Chains
    BY DEF Typed, EngineType, Blocks
  <1>4. \/ CastVoteKind(e, n, kind, b) = e
        \/ CastVoteKind(e, n, kind, b)
             = [e EXCEPT !.voted = @ \cup {v}, !.pool = pool, !.locked = L]
    BY DEF CastVoteKind, Typed, EngineType
  <1> HIDE DEF v, pool, L
  <1>5. Typed([e EXCEPT !.voted = @ \cup {v}, !.pool = pool, !.locked = L])
    BY <1>1, <1>2, <1>3 DEF Typed, EngineType, PoolType
  <1> QED  BY <1>4, <1>5

(* castVote. *)
LEMMA CastTyped ==
    ASSUME NEW e, Typed(e), NEW n \in Validators, NEW b \in Blocks
    PROVE  Typed(CastVote(e, n, b))
  BY CastKindTyped DEF CastVote, Kinds

(* SetFinalized and the prunes. *)
LEMMA FinalizeTyped ==
    ASSUME NEW e, Typed(e), NEW k \in Nat
    PROVE  Typed(Finalize(e, k))
  <1> DEFINE st == [e.st EXCEPT !.fin = IF k > @ THEN k ELSE @]
             pool == Prune(e.pool, k)
             frozen == [h \in Heights |-> IF h <= k THEN NotFrozen ELSE e.frozen[h]]
  <1>1. st \in States
    BY DEF Typed, EngineType, States
  <1>2. pool \in PoolType
    BY PoolTyped DEF Typed, EngineType, PoolType
  <1>3. frozen \in [Heights -> [Validators -> Nat] \cup {NotFrozen}]
    BY DEF Typed, EngineType
  <1>4. Finalize(e, k)
          = [e EXCEPT !.st = st, !.pool = pool, !.frozen = frozen,
                      !.voted     = {v \in @ : Height(v) > k},
                      !.locked    = {l \in @ : Len(l) > k},
                      !.snapshots = {s \in @ : Len(s.chain) >= k},
                      !.forks     = {b \in @ : Len(b) >= k}]
    BY ZenonT(40) DEF Finalize, Typed, EngineType
  <1> HIDE DEF st, pool, frozen
  <1> DEFINE d == [e EXCEPT !.st = st, !.pool = pool, !.frozen = frozen]
             f == [d EXCEPT !.voted     = {v \in @ : Height(v) > k},
                            !.locked    = {l \in @ : Len(l) > k},
                            !.snapshots = {s \in @ : Len(s.chain) >= k},
                            !.forks     = {b \in @ : Len(b) >= k}]
  <1>5. Typed(d)
    BY <1>1, <1>2, <1>3 DEF Typed, EngineType, PoolType
  <1>6. Finalize(e, k) = f
    BY <1>4 DEF Typed, EngineType
  <1> HIDE DEF d
  <1>7. Typed(f)
    BY ZenonT(40), <1>5 DEF Typed, EngineType
  <1> QED  BY <1>6, <1>7

(* State.Commit, the snapshot, the finalization and persist. *)
LEMMA CommitTyped ==
    ASSUME SlashRates, NEW e, Typed(e), NEW b \in Blocks, FiniteFaults(b)
    PROVE  Typed(CommitBlock(e, b))
  <1> DEFINE st == AfterBlock(e.st, b)
             S == {s \in e.snapshots : Len(s.chain) # Len(st.chain)} \cup {st}
             d == [e EXCEPT !.st = st, !.saved = @ \cup {b}, !.snapshots = S]
  <1>1. st \in States
    BY AfterTyped DEF Typed, EngineType
  <1>2. S \in SUBSET States
    <2> HIDE DEF st
    <2> QED  BY <1>1 DEF Typed, EngineType
  <1>3. Snapshot([e EXCEPT !.st = AfterBlock(@, b), !.saved = @ \cup {b}]) = d
    BY DEF Snapshot, Typed, EngineType
  <1> HIDE DEF st, S
  <1>4. Typed(d)
    BY <1>1, <1>2 DEF Typed, EngineType, Blocks
  <1> HIDE DEF d
  <1>5. Len(b) - 1 \in Nat
    BY BlockParts
  <1> QED  BY <1>3, <1>4, <1>5, FinalizeTyped DEF CommitBlock

(* Evidence is replaced by a part of it. *)
LEMMA EvidenceTyped ==
    ASSUME NEW e, Typed(e), NEW S \in SUBSET e.evidence
    PROVE  Typed([e EXCEPT !.evidence = S])
  <1>1. IsFiniteSet(S)
    BY FS_Subset DEF Typed
  <1> QED  BY <1>1 DEF Typed, EngineType

(* A block received for the next height. *)
LEMMA AcceptedTyped ==
    ASSUME SlashRates, NEW e, Typed(e), NEW b \in Blocks, FiniteFaults(b)
    PROVE  Typed(Accepted(e, b))
  <1> DEFINE c == CommitBlock(Freeze(e, Len(b)), b)
             S == c.evidence \ Header(b).evidence
  <1>1. Typed(c)
    BY FreezeTyped, CommitTyped
  <1>2. Accepted(e, b) = [c EXCEPT !.evidence = S]
    BY <1>1 DEF Accepted, Typed, EngineType
  <1>3. S \in SUBSET c.evidence
    OBVIOUS
  <1> HIDE DEF c, S
  <1> QED  BY <1>1, <1>2, <1>3, EvidenceTyped

(* The block ProduceOnce builds. *)
LEMMA ProducedTyped ==
    ASSUME SlashRates, NEW e, Typed(e), NEW b \in Blocks, FiniteFaults(b)
    PROVE  Typed(Produced(e, b))
  <1> DEFINE d == Freeze(e, Len(b))
             c == [d EXCEPT !.evidence = {}]
  <1>1. Typed(d)
    BY FreezeTyped
  <1> HIDE DEF d
  <1>2. Typed(c)
    BY <1>1, EvidenceTyped
  <1> HIDE DEF c
  <1>3. Typed(CommitBlock(c, b))
    BY <1>2, CommitTyped
  <1> QED  BY <1>3 DEF Produced, c, d

(* ProduceOnce without a block. *)
LEMMA IdleTyped ==
    ASSUME NEW e, Typed(e), NEW elected
    PROVE  Typed(Idle(e, elected))
  <1> DEFINE d == Freeze(e, Len(e.st.chain) + 1)
             S == IF elected THEN {} ELSE d.evidence
  <1>1. Typed(d)
    BY FreezeTyped
  <1>2. Idle(e, elected) = [d EXCEPT !.evidence = S]
    BY <1>1 DEF Idle, Typed, EngineType
  <1>3. S \in SUBSET d.evidence
    OBVIOUS
  <1> HIDE DEF d, S
  <1> QED  BY <1>1, <1>2, <1>3, EvidenceTyped

(* ApplyExternalBlock for the next height. *)
LEMMA ExtendTyped ==
    ASSUME SlashRates, NEW e, Typed(e), NEW n \in Validators, NEW b \in Blocks, FiniteFaults(b)
    PROVE  Typed(Extend(e, n, b))
  <1>1. Typed(Freeze(e, Len(b)))
    BY FreezeTyped
  <1>2. Typed(CastVote(Accepted(e, b), n, b))
    BY AcceptedTyped, CastTyped
  <1> QED  BY <1>1, <1>2 DEF Extend

(* reorgToLocked that succeeds, on an engine that was rewound. *)
LEMMA SwitchedTyped ==
    ASSUME SlashRates, NEW r, Typed(r), NEW b \in Blocks, FiniteFaults(b), NEW top
    PROVE  Typed(Switched(r, b, top))
  <1> DEFINE a == Abandon(r, Len(b), top)
             c == CommitBlock(a, b)
  <1>1. Typed(a)
    BY ZenonT(40) DEF Abandon, Typed, EngineType
  <1> HIDE DEF a
  <1>2. Typed(c)
    BY <1>1, CommitTyped
  <1> HIDE DEF c
  <1>3. Typed([c EXCEPT !.voted  = {v \in @ : Height(v) # Len(b)},
                        !.locked = {l \in @ : Len(l) # Len(b)}])
    BY ZenonT(40), <1>2 DEF Typed, EngineType
  <1> QED  BY <1>3 DEF Switched, a, c

(* The rewound engine. *)
LEMMA RewoundTyped ==
    ASSUME NEW e, Typed(e), NEW s \in e.snapshots, NEW h
    PROVE  Typed(Rewound(e, s, h))
  <1>1. Typed([e EXCEPT !.st = s])
    BY DEF Typed, EngineType
  <1> QED  BY <1>1, FreezeTyped DEF Rewound

(* reorgToLocked, whether it succeeds or gives up. *)
LEMMA ReorgTyped ==
    ASSUME SlashRates, NEW e, Typed(e), NEW n \in Validators, NEW b \in Blocks, FiniteFaults(b)
    PROVE  Typed(ReorgTo(e, n, b))
  <1>1. CASE Len(b) - 1 < e.st.fin \/ SnapshotAt(e, Len(b) - 1) = {}
    BY <1>1 DEF ReorgTo
  <1>2. CASE ~(Len(b) - 1 < e.st.fin) /\ SnapshotAt(e, Len(b) - 1) # {}
    <2> DEFINE s == CHOOSE x \in SnapshotAt(e, Len(b) - 1) : TRUE
               r == Rewound(e, s, Len(b))
    <2>1. s \in e.snapshots
      BY <1>2 DEF SnapshotAt
    <2>2. \/ ReorgTo(e, n, b) = e
          \/ ReorgTo(e, n, b) = [r EXCEPT !.st = e.st]
          \/ ReorgTo(e, n, b) = CastVote(Switched(r, b, Len(e.st.chain)), n, b)
      BY <1>2 DEF ReorgTo
    <2>3. Typed(r)
      BY <2>1, RewoundTyped
    <2> HIDE DEF s, r
    <2>4. Typed([r EXCEPT !.st = e.st])
      BY <2>3 DEF Typed, EngineType
    <2>5. Typed(CastVote(Switched(r, b, Len(e.st.chain)), n, b))
      BY <2>3, SwitchedTyped, CastTyped
    <2> QED  BY <2>2, <2>4, <2>5
  <1> QED  BY <1>1, <1>2

(* tryReorgLocked, whichever candidate it takes. *)
LEMMA TryReorgTyped ==
    ASSUME SlashRates, NEW e, Typed(e), e.forks \subseteq Blocks, NEW n \in Validators,
           NEW h, NEW d \in TryReorg(e, n, h)
    PROVE  Typed(d)
  <1>1. \A b \in Candidates(e, h) : b \in Blocks /\ FiniteFaults(b)
    BY DEF Candidates, Typed
  <1> QED  BY <1>1, ReorgTyped DEF TryReorg

(* ApplyExternalBlock. *)
LEMMA ApplyTyped ==
    ASSUME SlashRates, NEW e, Typed(e), e.forks \subseteq Blocks, NEW n \in Validators,
           NEW b \in Blocks, FiniteFaults(b), NEW d \in ApplyExternalBlock(e, n, b)
    PROVE  Typed(d)
  <1> DEFINE f == [e EXCEPT !.forks = @ \cup {b}]
  <1>1. Typed(f) /\ f.forks \subseteq Blocks
    BY DEF Typed, EngineType, Blocks
  <1>2. d = e \/ d \in TryReorg(f, n, Len(b)) \/ d = Extend(e, n, b)
    BY DEF ApplyExternalBlock, ConsiderFork
  <1> HIDE DEF f
  <1> QED  BY <1>1, <1>2, TryReorgTyped, ExtendTyped

(* AddVote. *)
LEMMA AddVoteTyped ==
    ASSUME SlashRates, NEW e, Typed(e), e.forks \subseteq Blocks, NEW n \in Validators,
           NEW v \in Votes, NEW d \in AddVote(e, n, v)
    PROVE  Typed(d)
  <1> DEFINE q == RecordEquivocation(e, v)
             pool == Add(q.pool, v)
             p == [q EXCEPT !.pool = pool]
  <1>1. FaultOf(v) \in Faults
    BY DEF FaultOf, Faults, Votes, Chains, Height
  <1>2. Typed(q) /\ q.forks = e.forks
    <2>1. IsFiniteSet(e.evidence \cup {FaultOf(v)})
      BY FS_AddElement DEF Typed
    <2>2. Typed([e EXCEPT !.evidence = @ \cup {FaultOf(v)}])
      BY <1>1, <2>1 DEF Typed, EngineType
    <2> QED  BY <2>2 DEF RecordEquivocation, Typed, EngineType
  <1> HIDE DEF q
  <1>3. pool \in PoolType
    BY <1>2, PoolTyped DEF Typed, EngineType, PoolType
  <1>4. d = e \/ d \in TryReorg(p, n, Height(v)) \/ d = p
    BY <1>2 DEF AddVote, q, Typed, EngineType
  <1> HIDE DEF pool
  <1>5. Typed(p) /\ p.forks \subseteq Blocks
    BY <1>2, <1>3 DEF Typed, EngineType, PoolType
  <1> HIDE DEF p
  <1> QED  BY <1>4, <1>5, TryReorgTyped

(* A start from the disk. *)
LEMMA StartedTyped ==
    ASSUME NEW st \in States, NEW saved \in SUBSET Chains
    PROVE  Typed(Started(st, saved))
  BY FS_EmptySet DEF Started, Typed, EngineType, EmptyPool

-----------------------------------------------------------------------------
(* The network. *)

(* The blocks of the environment punish finitely many faults, as lists do. *)
LEMMA EnvironmentFinite ==
    ASSUME FinalityInv, NEW b \in EnvBlocks
    PROVE  FiniteFaults(b)
  <1>1. KnownBlocks \subseteq Chains
    <2>1. <<>> \in Chains
      BY DEF Chains
    <2>2. \A n \in Nodes : eng[n].saved \subseteq Chains /\ eng[n].forks \subseteq Chains
      BY DEF FinalityInv, Sound, Shape, Blocks
    <2> QED  BY <2>1, <2>2 DEF KnownBlocks
  <1>2. EnvHeaders \subseteq Headers
    BY ConsensusAssumption DEF EnvHeaders, Headers, Environment
  <1>3. PICK c \in KnownBlocks, hd \in EnvHeaders : b = Append(c, hd)
    BY DEF EnvBlocks
  <1>4. IsFiniteSet(hd.evidence)
    BY ConsensusAssumption DEF EnvHeaders
  <1> QED  BY <1>1, <1>2, <1>3, <1>4, AppendParts DEF FiniteFaults

(* So does what a node proposes. *)
LEMMA ProposalFinite ==
    ASSUME NEW e, Sound(e), Typed(e), NEW n \in Validators, NEW r \in Rounds, NEW p \in Payloads
    PROVE  FiniteFaults(Proposal(e, n, r, p))
  <1>1. IsFiniteSet(Drained(e))
    BY FS_Subset DEF Drained, Typed
  <1>2. Header(Proposal(e, n, r, p)).evidence = Drained(e)
    BY DEF Header, Proposal, Sound, Shape, StateShape, Chains
  <1> QED  BY <1>1, <1>2 DEF FiniteFaults

(* One engine changes, to a typed one. *)
LEMMA BecomesTypes ==
    ASSUME TypesInv, NEW n \in Nodes, NEW e, Typed(e), eng' = [eng EXCEPT ![n] = e],
           \A b \in blocks' : FiniteFaults(b)
    PROVE  TypesInv'
  <1>1. e \in EngineType
    BY DEF Typed
  <1>2. eng' \in [Nodes -> EngineType]
    BY <1>1 DEF TypesInv
  <1>3. \A m \in Nodes : Typed(eng'[m])
    BY DEF TypesInv
  <1> QED  BY <1>2, <1>3 DEF TypesInv

(* A crash inside a call that commits a block. *)
LEMMA DieTypes ==
    ASSUME FinalityInv, TypesInv, NEW n \in Nodes, NEW b \in Blocks, NEW done, Typed(done),
           DieWhileCommitting(n, b, done), \A c \in blocks' : FiniteFaults(c)
    PROVE  TypesInv'
  <1>1. \/ eng' = [eng EXCEPT ![n] = Started(eng[n].st, eng[n].saved \cup {b})]
        \/ eng' = [eng EXCEPT ![n] = Started(done.st, done.saved)]
    BY DEF DieWhileCommitting
  <1>2. eng[n].st \in States /\ eng[n].saved \cup {b} \in SUBSET Chains
    BY DEF TypesInv, EngineType, Blocks
  <1>3. done.st \in States /\ done.saved \in SUBSET Chains
    BY DEF Typed, EngineType
  <1>4. Typed(Started(eng[n].st, eng[n].saved \cup {b})) /\ Typed(Started(done.st, done.saved))
    BY <1>2, <1>3, StartedTyped
  <1> QED  BY <1>1, <1>4, BecomesTypes

(* Nodes start typed. *)
LEMMA InitTypes == Init => TypesInv
  <1> SUFFICES ASSUME Init PROVE TypesInv
    OBVIOUS
  <1>1. Genesis \in States
    BY EngineAssumption DEF Genesis, States, Chains
  <1>2. Typed(Started(Genesis, {}))
    BY <1>1, StartedTyped
  <1>3. eng \in [Nodes -> EngineType]
    BY <1>2 DEF Init, Typed
  <1> QED  BY <1>2, <1>3 DEF Init, TypesInv

(* Every call a node handles keeps the types. *)
LEMMA StepTypes ==
    ASSUME SlashRates, FinalityInv, TypesInv, NEW n \in Nodes, NodeStep(n)
    PROVE  TypesInv'
  <1>1. /\ Sound(eng[n]) /\ Typed(eng[n]) /\ n \in Validators
        /\ eng[n].forks \subseteq Blocks
        /\ blocks \subseteq Blocks /\ sent \subseteq Votes
        /\ \A b \in blocks : FiniteFaults(b)
    BY EngineAssumption DEF FinalityInv, TypesInv, Sound, Shape
  <1>2. ASSUME NEW r \in Rounds, NEW p \in Payloads, Produce(n, r, p)
        PROVE  TypesInv'
    <2> DEFINE b == Proposal(eng[n], n, r, p)
               e == CastVote(Produced(eng[n], b), n, b)
    <2>1. b \in Blocks /\ FiniteFaults(b)
      BY <1>1, ProposalTyped, ProposalFinite
    <2>2. blocks' = blocks \cup {b} /\ eng' = [eng EXCEPT ![n] = e]
      BY <1>2 DEF Produce, Becomes
    <2> HIDE DEF b
    <2>3. Typed(e)
      BY <1>1, <2>1, ProducedTyped, CastTyped
    <2> HIDE DEF e
    <2> QED  BY <1>1, <2>1, <2>2, <2>3, BecomesTypes
  <1>3. ASSUME NEW r \in Rounds, ProduceNothing(n, r)
        PROVE  TypesInv'
    <2>1. /\ eng' = [eng EXCEPT ![n] = Idle(eng[n], Elected(eng[n], n, r))]
          /\ blocks' = blocks
      BY <1>3 DEF ProduceNothing, Becomes
    <2>2. Typed(Idle(eng[n], Elected(eng[n], n, r)))
      BY <1>1, IdleTyped
    <2> QED  BY <1>1, <2>1, <2>2, BecomesTypes
  <1>4. ASSUME NEW b \in blocks \cup EnvBlocks, ReceiveBlock(n, b)
        PROVE  TypesInv'
    <2>1. b \in Blocks /\ FiniteFaults(b)
      BY <1>1, EnvironmentTyped, EnvironmentFinite
    <2>2. PICK e \in ApplyExternalBlock(eng[n], n, b) : eng' = [eng EXCEPT ![n] = e]
      BY <1>4 DEF ReceiveBlock, Becomes
    <2>3. Typed(e) /\ blocks' = blocks
      BY <1>1, <1>4, <2>1, ApplyTyped DEF ReceiveBlock
    <2> QED  BY <1>1, <2>2, <2>3, BecomesTypes
  <1>5. ASSUME NEW v \in sent \cup EnvVotes, ReceiveVote(n, v)
        PROVE  TypesInv'
    <2>1. v \in Votes
      BY <1>1, EnvironmentTyped
    <2>2. PICK e \in AddVote(eng[n], n, v) : eng' = [eng EXCEPT ![n] = e]
      BY <1>5 DEF ReceiveVote, Becomes
    <2>3. Typed(e) /\ blocks' = blocks
      BY <1>1, <1>5, <2>1, AddVoteTyped DEF ReceiveVote
    <2> QED  BY <1>1, <2>2, <2>3, BecomesTypes
  <1> QED  BY <1>2, <1>3, <1>4, <1>5 DEF NodeStep

(* So does every crash and restart. *)
LEMMA FailureTypes ==
    ASSUME SlashRates, FinalityInv, TypesInv, NEW n \in Nodes, NodeFailure(n)
    PROVE  TypesInv'
  <1>1. /\ Sound(eng[n]) /\ Typed(eng[n]) /\ n \in Validators
        /\ eng[n].forks \subseteq Blocks
        /\ blocks \subseteq Blocks
        /\ \A b \in blocks : FiniteFaults(b)
    BY EngineAssumption DEF FinalityInv, TypesInv, Sound, Shape
  <1>2. ASSUME Restart(n)
        PROVE  TypesInv'
    <2>1. eng' = [eng EXCEPT ![n] = Started(eng[n].st, eng[n].saved)] /\ blocks' = blocks
      BY <1>2 DEF Restart
    <2>2. Typed(Started(eng[n].st, eng[n].saved))
      BY <1>1, StartedTyped DEF Typed, EngineType
    <2> QED  BY <1>1, <2>1, <2>2, BecomesTypes
  <1>3. ASSUME NEW b \in blocks \cup EnvBlocks, CrashAppending(n, b)
        PROVE  TypesInv'
    <2>1. b \in Blocks /\ FiniteFaults(b)
      BY <1>1, EnvironmentTyped, EnvironmentFinite
    <2>2. DieWhileCommitting(n, b, Accepted(eng[n], b)) /\ blocks' = blocks
      BY <1>3 DEF CrashAppending
    <2>3. Typed(Accepted(eng[n], b))
      BY <1>1, <2>1, AcceptedTyped
    <2> QED  BY <1>1, <2>1, <2>2, <2>3, DieTypes
  <1>4. ASSUME NEW r \in Rounds, NEW p \in Payloads, CrashProducing(n, r, p)
        PROVE  TypesInv'
    <2> DEFINE b == Proposal(eng[n], n, r, p)
    <2>1. b \in Blocks /\ FiniteFaults(b)
      BY <1>1, ProposalTyped, ProposalFinite
    <2>2. DieWhileCommitting(n, b, Produced(eng[n], b)) /\ blocks' = blocks \cup {b}
      BY <1>4 DEF CrashProducing
    <2> HIDE DEF b
    <2>3. Typed(Produced(eng[n], b))
      BY <1>1, <2>1, ProducedTyped
    <2> QED  BY <1>1, <2>1, <2>2, <2>3, DieTypes
  <1>5. ASSUME NEW b \in eng[n].forks, CrashSwitching(n, b)
        PROVE  TypesInv'
    <2>1. b \in Blocks /\ FiniteFaults(b)
      BY <1>1 DEF Typed
    <2>2. PICK s \in SnapshotAt(eng[n], Len(b) - 1) :
            DieWhileCommitting(n, b,
              Switched(Rewound(eng[n], s, Len(b)), b, Len(eng[n].st.chain)))
      BY <1>5 DEF CrashSwitching
    <2>3. s \in eng[n].snapshots /\ blocks' = blocks
      BY <1>5, <2>2 DEF SnapshotAt, CrashSwitching
    <2>4. Typed(Switched(Rewound(eng[n], s, Len(b)), b, Len(eng[n].st.chain)))
      BY <1>1, <2>1, <2>3, RewoundTyped, SwitchedTyped
    <2> QED  BY <1>1, <2>1, <2>2, <2>3, <2>4, DieTypes
  <1> QED  BY <1>2, <1>3, <1>4, <1>5 DEF NodeFailure

(* The types are inductive, given what is known of chains and blocks. *)
LEMMA NextTypes ==
    ASSUME SlashRates
    PROVE  FinalityInv /\ TypesInv /\ [Next]_vars => TypesInv'
  <1>1. ASSUME FinalityInv, TypesInv, Next PROVE TypesInv'
    BY <1>1, StepTypes, FailureTypes DEF Next
  <1>2. ASSUME TypesInv, UNCHANGED vars PROVE TypesInv'
    BY <1>2 DEF vars, TypesInv
  <1> QED  BY <1>1, <1>2

(* With penalties of at most everything no weight leaves the natural       *)
(* numbers, and every field of every engine keeps its type.                *)
THEOREM EnginesTyped ==
    ASSUME SlashRates
    PROVE  Spec => []TypeOK
  <1>1. FinalityInv /\ TypesInv => TypeOK
    BY DEF FinalityInv, TypesInv, TypeOK, Blocks
  <1>2. FinalityInv /\ TypesInv /\ [Next]_vars => TypesInv'
    BY NextTypes
  <1> QED  BY <1>1, <1>2, InitTypes, Inductive, PTL DEF Spec
=============================================================================
