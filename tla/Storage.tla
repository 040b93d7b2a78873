------------------------------- MODULE Storage --------------------------------
(***************************************************************************)
(* The database of a node (internal/store/store.go), how the node fills it *)
(* (node.go initChain, engine.go persist and reorgToLocked) and what an    *)
(* explorer reads from it (node.go).  Every Save is one transaction of the *)
(* database; a commit takes two of them, a first start three, and a crash  *)
(* may come between any two.  A block is its own hash; the chain stands    *)
(* for the state it leads to.                                              *)
(***************************************************************************)
EXTENDS Integers, Sequences, FiniteSets, SequencesExt

CONSTANTS
    Docs,           \* genesis documents, numbers from 1 on: every first start may bring another
    Txs,            \* transactions, as numbers: the order of their hashes
    TxAddrs,        \* TxAddrs[t]: the addresses a transaction is indexed under
    MaxHeight, MaxBlocks, MaxCrashes    \* bounds

ASSUME TransactionsOrdered == Txs \subseteq Nat

VARIABLES
    disk,       \* the buckets of the database
    node,       \* what runs, its chain, and how many blocks and crashes there were
    todo,       \* the writes of the call under way
    trouble     \* a write failed, or a crash came in the middle of a reorg

vars == <<disk, node, todo, trouble>>

Addrs == UNION {TxAddrs[t] : t \in Txs}

NoDoc == 0

NoHeight == -1

NewBlock(h, origin, ts) == [height |-> h, origin |-> origin, txs |-> ts]

GenesisBlock(doc) == NewBlock(0, <<"genesis", doc>>, {})

NoBlock == NewBlock(NoHeight, <<"none">>, {})

(* A bucket with an entry put in, over what was there. *)
Put(f, k, v) == [x \in DOMAIN f \cup {k} |-> IF x = k THEN v ELSE f[x]]

(* Open creates the buckets. *)
EmptyDisk ==
    [blocks |-> <<>>, byHash |-> <<>>, txIndex |-> <<>>, addrTxs |-> {},
     top |-> NoHeight, state |-> <<>>, genesis |-> NoDoc]

(* What an older version left: blocks in JSON, which begin with a brace. *)
LegacyDisk(doc) ==
    [EmptyDisk EXCEPT !.blocks = Put(@, 0, [tag |-> "{", block |-> GenesisBlock(doc)]),
                      !.byHash = Put(@, GenesisBlock(doc), 0), !.top = 0,
                      !.state = <<GenesisBlock(doc)>>, !.genesis = doc]

Down == [run |-> "down", chain |-> <<>>, made |-> 0, crashes |-> 0]

Init ==
    /\ disk \in {EmptyDisk} \cup {LegacyDisk(d) : d \in Docs}
    /\ node = Down
    /\ todo = <<>>
    /\ trouble = FALSE

-----------------------------------------------------------------------------
(***************************************************************************)
(* Writing.  SaveBlock puts a block under its height, in the binary        *)
(* format, and its entries in the indexes, over what was there: first two  *)
(* forms that keep one entry of an address for a block, and a first entry  *)
(* of the transaction index.                                               *)
(***************************************************************************)
EntryPerBlock(b) ==
    {<<a, b.height, CHOOSE t \in b.txs : a \in TxAddrs[t]>> :
        a \in UNION {TxAddrs[t] : t \in b.txs}}

Entries(b) == UNION {{<<a, b.height, t>> : a \in TxAddrs[t]} : t \in b.txs}

IndexedOnce(index, b) ==
    [t \in DOMAIN index \cup b.txs |-> IF t \in DOMAIN index THEN index[t] ELSE b.height]

Indexed(index, b) ==
    [t \in DOMAIN index \cup b.txs |-> IF t \in b.txs THEN b.height ELSE index[t]]

SaveBlock(d, b) ==
    [d EXCEPT !.blocks  = Put(@, b.height, [tag |-> "1", block |-> b]),
              !.byHash  = Put(@, b, b.height),
              !.txIndex = Indexed(@, b),
              !.addrTxs = @ \cup Entries(b),
              !.top     = b.height]

Write(d, w) ==
    CASE w[1] = "genesis" -> [d EXCEPT !.genesis = w[2]]
      [] w[1] = "block"   -> SaveBlock(d, w[2])
      [] w[1] = "state"   -> [d EXCEPT !.state = w[2]]

(* persist *)
Persist(chain) == <<<<"block", Last(chain)>>, <<"state", chain>>>>

(* initChain without a state on disk: first with the state written first. *)
FirstWritesStateFirst(doc) ==
    <<<<"state", <<GenesisBlock(doc)>>>>, <<"genesis", doc>>, <<"block", GenesisBlock(doc)>>>>

FirstWrites(doc) ==
    <<<<"genesis", doc>>, <<"block", GenesisBlock(doc)>>, <<"state", <<GenesisBlock(doc)>>>>>>

(***************************************************************************)
(* Reading.                                                                *)
(***************************************************************************)
Decodes(data) == data.tag \in {"{", "1"}

GetBlock(d, h) ==
    IF h \in DOMAIN d.blocks /\ Decodes(d.blocks[h]) THEN d.blocks[h].block ELSE NoBlock

BlockByHash(d, b) == IF b \in DOMAIN d.byHash THEN GetBlock(d, d.byHash[b]) ELSE NoBlock

(* GetTx: the height of a transaction, if the block there has it. *)
Holds(d, h, t) == t \in GetBlock(d, h).txs

GetTx(d, t) ==
    IF t \in DOMAIN d.txIndex /\ Holds(d, d.txIndex[t], t) THEN d.txIndex[t] ELSE NoHeight

(* AddressTxs: a page of an address's history below a height (0: all of    *)
(* it), the latest first; what its block no longer has is left out after   *)
(* the page is cut.                                                        *)
Later(r, s) == r[2] > s[2] \/ (r[2] = s[2] /\ r[3] > s[3])

AddressTxs(d, a, limit, before) ==
    LET refs == {r \in d.addrTxs : r[1] = a /\ (before = 0 \/ r[2] < before)}
        page == {r \in refs : Cardinality({s \in refs : Later(s, r)}) < limit}
    IN  {r \in page : Holds(d, r[2], r[3])}

(* LatestBlocks, from the height in memory down to the first block that    *)
(* is missing.                                                             *)
LatestBlocks(d, tip) ==
    LET found == {k \in 0..(tip + 1) : \A i \in 0..(k - 1) : GetBlock(d, tip - i) # NoBlock}
        count == CHOOSE k \in found : \A j \in found : j <= k
    IN  [i \in 1..count |-> GetBlock(d, tip + 1 - i)]

-----------------------------------------------------------------------------
(* initChain resumes the chain of the state, or starts one from a document *)
(* (on a development network a new document every time).                   *)
Boot ==
    /\ node.run = "down"
    /\ IF disk.state # <<>>
       THEN /\ node' = [node EXCEPT !.run = "up", !.chain = disk.state]
            /\ UNCHANGED todo
       ELSE \E doc \in Docs :
              /\ node' = [node EXCEPT !.run = "starting", !.chain = <<GenesisBlock(doc)>>]
              /\ todo' = FirstWrites(doc)
    /\ UNCHANGED <<disk, trouble>>

Ready == node.run = "up" /\ todo = <<>> /\ node.made < MaxBlocks

Tip == Len(node.chain) - 1

(* What is not in the chain yet may be in its next block. *)
Fresh(chain) == Txs \ UNION {chain[i].txs : i \in DOMAIN chain}

Adopt(base, ts) ==
    LET chain == Append(base, NewBlock(Len(base), <<"made", node.made + 1>>, ts))
    IN  /\ node' = [node EXCEPT !.chain = chain, !.made = @ + 1]
        /\ todo' = Persist(chain)
        /\ UNCHANGED <<disk, trouble>>

(* ProduceOnce or ApplyExternalBlock: a block above the tip. *)
Commit(ts) ==
    /\ Ready /\ Tip < MaxHeight /\ ts \subseteq Fresh(node.chain)
    /\ Adopt(node.chain, ts)

(* reorgToLocked: back to h - 1, and a new block at h. *)
Reorg(h, ts) ==
    /\ Ready /\ h \in 1..Tip /\ ts \subseteq Fresh(SubSeq(node.chain, 1, h))
    /\ Adopt(SubSeq(node.chain, 1, h), ts)

Save ==
    /\ todo # <<>>
    /\ disk' = Write(disk, Head(todo))
    /\ todo' = Tail(todo)
    /\ node' = IF node.run = "starting" /\ Len(todo) = 1 THEN [node EXCEPT !.run = "up"] ELSE node
    /\ UNCHANGED trouble

(* persist logs a write that fails and goes on. *)
SaveFails ==
    /\ todo # <<>> /\ node.run = "up"
    /\ todo' = Tail(todo)
    /\ trouble' = TRUE
    /\ UNCHANGED <<disk, node>>

(* A reorg replaces a block the state on disk still counts on. *)
Replacing ==
    Len(todo) = 1 /\ node.run = "up" /\ Len(disk.state) >= Len(node.chain)

Crash ==
    /\ node.run # "down" /\ node.crashes < MaxCrashes
    /\ node' = [node EXCEPT !.run = "down", !.chain = <<>>, !.crashes = @ + 1]
    /\ todo' = <<>>
    /\ trouble' = (trouble \/ Replacing)
    /\ UNCHANGED disk

Next ==
    \/ Boot
    \/ \E ts \in SUBSET Txs : Commit(ts)
    \/ \E h \in 1..MaxHeight, ts \in SUBSET Txs : Reorg(h, ts)
    \/ Save \/ SaveFails \/ Crash

Spec == Init /\ [][Next]_vars

-----------------------------------------------------------------------------
(* A node that resumes a chain finds the document it grew from and its     *)
(* first block, though every start without a state brings a new document   *)
(* and may die half way (node.go:222-232).                                 *)
StateHasItsGenesis ==
    disk.state # <<>> =>
        /\ GetBlock(disk, 0) = disk.state[1]
        /\ disk.genesis \in Docs /\ GenesisBlock(disk.genesis) = disk.state[1]

OnDisk(d, b) ==
    /\ GetBlock(d, b.height) = b /\ BlockByHash(d, b) = b
    /\ \A t \in b.txs : GetTx(d, t) = b.height

AtRest == node.run = "up" /\ todo = <<>> /\ ~trouble

(* Between two commits the database knows the chain in memory: its blocks  *)
(* by height and by hash and its transactions by hash, after any reorgs    *)
(* and restarts; what abandoned branches and lost commits left behind      *)
(* hides none of them.  (Failed writes are only logged, and a crash inside *)
(* a reorg leaves a block under the state of another branch.)              *)
ChainOnDisk == AtRest => \A i \in DOMAIN node.chain : OnDisk(disk, node.chain[i])

(* What an explorer lists is the chain too: its latest blocks, and for     *)
(* every address the transactions of the chain that concern it.            *)
ListedOnDisk ==
    AtRest =>
        /\ LatestBlocks(disk, Tip) = Reverse(node.chain)
        /\ LET chain == node.chain
               refs  == [a \in Addrs |-> AddressTxs(disk, a, 500, 0)]
           IN  \A i \in DOMAIN chain : \A t \in chain[i].txs, a \in Addrs :
                 a \in TxAddrs[t] => <<a, chain[i].height, t>> \in refs[a]
=============================================================================
