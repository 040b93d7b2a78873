------------------------------ MODULE SparseTree ------------------------------
(***************************************************************************)
(* The sparse Merkle tree (internal/smt/smt.go) that the root of the state *)
(* is computed with (state.go, sparseRootLocked).  The path of a key is    *)
(* the hash of the key, of TreeDepth bits here and 256 in the code; a hash is  *)
(* the term that was hashed: a leaf is <<value>>, an empty leaf <<>> and a *)
(* node <<left, right>>.                                                   *)
(***************************************************************************)
EXTENDS Integers, Sequences, FiniteSets, SequencesExt

CONSTANTS
    TreeDepth,
    Path,           \* Path[k]: the bits of a key, different for different keys
    LeafValues         \* the values of an entry of the state: numbers from 1 on

VARIABLES
    entries,    \* the state: its entries, in the accounts, the tokens, ...
    nodes,      \* the tree: hashes that are not of empty trees, by prefix
    kept       \* a proof somebody keeps

vars == <<entries, nodes, kept>>

Keys == DOMAIN Path

Absent == 0     \* the value of an entry that is not there: an empty value

EmptyLeaf == <<>>

Hash(left, right) == <<left, right>>

LeafOf(v) == IF v = Absent THEN EmptyLeaf ELSE <<v>>

(* defaultHashes *)
defaultHashes ==
    LET dh[d \in 0..TreeDepth] == IF d = TreeDepth THEN EmptyLeaf ELSE Hash(dh[d + 1], dh[d + 1])
    IN  dh

New == <<>>

nodeHash(t, prefix) ==
    IF prefix \in DOMAIN t THEN t[prefix] ELSE defaultHashes[Len(prefix)]

Store(t, prefix, h) ==
    IF h = defaultHashes[Len(prefix)]
    THEN [p \in DOMAIN t \ {prefix} |-> t[p]]
    ELSE [p \in DOMAIN t \cup {prefix} |-> IF p = prefix THEN h ELSE t[p]]

Ancestor(t, prefix) ==
    Store(t, prefix, Hash(nodeHash(t, Append(prefix, 0)), nodeHash(t, Append(prefix, 1))))

(* setLeaf: the leaf, then its ancestors from the bottom to the root.      *)
(* First a form that goes from the root to the bottom.                     *)
SetLeafFromRoot(t, path, leaf) ==
    LET up[d \in 0..TreeDepth] ==
            IF d = TreeDepth THEN Store(t, path, leaf)
            ELSE Ancestor(up[d + 1], SubSeq(path, 1, TreeDepth - 1 - d))
    IN  up[0]

setLeaf(t, path, leaf) ==
    LET up[d \in 0..TreeDepth] ==
            IF d = TreeDepth THEN Store(t, path, leaf)
            ELSE Ancestor(up[d + 1], SubSeq(path, 1, d))
    IN  up[0]

TreeUpdate(t, k, v) == setLeaf(t, Path[k], LeafOf(v))

TreeDelete(t, k) == setLeaf(t, Path[k], EmptyLeaf)

Root(t) == nodeHash(t, <<>>)

Leaves(t) == Cardinality({p \in DOMAIN t : Len(p) = TreeDepth})

(* Prove: the siblings from the leaf upwards. *)
Flip(path, d) == Append(SubSeq(path, 1, d - 1), 1 - path[d])

ProofOf(t, k) ==
    [key      |-> k,
     leaf     |-> nodeHash(t, Path[k]),
     siblings |-> [i \in 1..TreeDepth |-> nodeHash(t, Flip(Path[k], TreeDepth + 1 - i))]]

(* Verify.  First a form that does not look at the path. *)
VerifyAnyPath(p, root) ==
    LET up[i \in 0..TreeDepth] ==
            IF i = 0 THEN p.leaf ELSE Hash(up[i - 1], p.siblings[i])
    IN  up[TreeDepth] = root

Verify(p, root) ==
    LET up[i \in 0..TreeDepth] ==
            IF i = 0 THEN p.leaf
            ELSE IF Path[p.key][TreeDepth + 1 - i] = 0
                 THEN Hash(up[i - 1], p.siblings[i])
                 ELSE Hash(p.siblings[i], up[i - 1])
    IN  up[TreeDepth] = root

-----------------------------------------------------------------------------
Init ==
    /\ entries = [k \in Keys |-> Absent]
    /\ nodes = New
    /\ kept = ProofOf(New, CHOOSE k \in Keys : TRUE)

(* The state changes, and the tree with it. *)
Update(k, v) ==
    /\ entries' = [entries EXCEPT ![k] = v]
    /\ nodes' = TreeUpdate(nodes, k, v)
    /\ UNCHANGED kept

Delete(k) ==
    /\ entries' = [entries EXCEPT ![k] = Absent]
    /\ nodes' = TreeDelete(nodes, k)
    /\ UNCHANGED kept

(* sparseRootLocked: a new tree of all entries, which come out of the maps *)
(* of the state in any order.                                              *)
Present == {k \in Keys : entries[k] # Absent}

SparseRoot ==
    /\ \E order \in SetToSeqs(Present) :
          nodes' = FoldLeft(LAMBDA t, k : TreeUpdate(t, k, entries[k]), New, order)
    /\ UNCHANGED <<entries, kept>>

Prove(k) ==
    /\ kept' = ProofOf(nodes, k)
    /\ UNCHANGED <<entries, nodes>>

Next ==
    \/ \E k \in Keys, v \in LeafValues : Update(k, v)
    \/ \E k \in Keys : Delete(k) \/ Prove(k)
    \/ SparseRoot

Spec == Init /\ [][Next]_vars

-----------------------------------------------------------------------------
(* The hash of all leaves below a prefix: the reference. *)
Below(prefix) ==
    LET at(path) == {k \in Keys : Path[k] = path}
        level[n \in 0..TreeDepth] ==
            [p \in [1..(TreeDepth - n) -> {0, 1}] |->
                IF n = 0
                THEN IF at(p) = {} THEN EmptyLeaf ELSE LeafOf(entries[CHOOSE k \in at(p) : TRUE])
                ELSE Hash(level[n - 1][Append(p, 0)], level[n - 1][Append(p, 1)])]
    IN  level[TreeDepth - Len(prefix)][prefix]

(* Whatever the order of the changes, the tree is a function of the        *)
(* entries: every hash it keeps is that of the entries below it, and it    *)
(* keeps no hash of an empty tree.                                         *)
TreeIsItsEntries ==
    /\ \A p \in DOMAIN nodes : nodes[p] = Below(p)
    /\ \A k \in Present, d \in 0..TreeDepth : SubSeq(Path[k], 1, d) \in DOMAIN nodes
    /\ Root(nodes) = Below(<<>>)
    /\ Leaves(nodes) = Cardinality(Present)

(* A proof holds against the root as long as the tree has not changed, and *)
(* what an older one can be made to say, about any key and any value, is   *)
(* accepted only while it is true.                                         *)
ProofsDoNotLie ==
    /\ \A k \in Keys : Verify(ProofOf(nodes, k), Root(nodes))
    /\ \A k \in Keys, v \in LeafValues \cup {Absent} :
          Verify([kept EXCEPT !.key = k, !.leaf = LeafOf(v)], Root(nodes)) => entries[k] = v
=============================================================================
