------------------------------ MODULE PartsProofs ------------------------------
(***************************************************************************)
(* The parts of a node that share no state with the others.                *)
(*                                                                         *)
(* The database: one that has a state has its document and its first       *)
(* block, and what an explorer looks up is the chain in memory: for any    *)
(* documents, transactions, heights and number of crashes.                 *)
(*                                                                         *)
(* The tree: it shows the entries, and no proof shows anything else, for   *)
(* keys and entries of any number and paths of any length.                 *)
(*                                                                         *)
(* The field: the arithmetic in words is that modulo P for every size of   *)
(* words, the 64 bits of the code (HalfWord = 2^32) included.              *)
(***************************************************************************)
EXTENDS Parts, SequenceTheorems, FiniteSetTheorems, TLAPS

Origins == {<<"genesis", doc>> : doc \in Docs} \cup ({"made"} \X Nat)

Blocks == [height : Int, origin : Origins, txs : SUBSET Txs]

IsDisk(d) ==
    DOMAIN d = {"blocks", "byHash", "txIndex", "addrTxs", "top", "state", "genesis"}

IsChain(c) == c \in Seq(Blocks) /\ \A i \in 1..Len(c) : c[i].height = i - 1

(* The first block of a chain on disk is there, and comes from the document. *)
Rooted(d) ==
    d.state # <<>> =>
        /\ GetBlock(d, 0) = d.state[1]
        /\ d.genesis \in Docs
        /\ d.state[1] = GenesisBlock(d.genesis)

(* How far a first start has come. *)
Starting(doc) ==
    /\ node.chain = <<GenesisBlock(doc)>>
    /\ \/ todo = FirstWrites(doc)
       \/ /\ todo = <<<<"block", GenesisBlock(doc)>>, <<"state", <<GenesisBlock(doc)>>>>>>
          /\ disk.genesis = doc
       \/ /\ todo = <<<<"state", <<GenesisBlock(doc)>>>>>>
          /\ disk.genesis = doc /\ GetBlock(disk, 0) = GenesisBlock(doc)

(* A running node writes blocks above the first one, and its chain grows   *)
(* from the first block of the chain on disk.                              *)
Running ==
    /\ disk.state # <<>>
    /\ IsChain(node.chain) /\ node.chain # <<>>
    /\ node.chain[1] = disk.state[1]
    /\ \/ todo = <<>>
       \/ /\ Len(node.chain) > 1
          /\ todo = Persist(node.chain) \/ todo = <<<<"state", node.chain>>>>

RootInv ==
    /\ IsDisk(disk) /\ IsChain(disk.state) /\ Rooted(disk)
    /\ DOMAIN node = {"run", "chain", "made", "crashes"}
    /\ node.made \in Nat
    /\ \/ node.run = "down" /\ todo = <<>>
       \/ node.run = "starting" /\ disk.state = <<>> /\ \E doc \in Docs : Starting(doc)
       \/ node.run = "up" /\ Running

-----------------------------------------------------------------------------
(* A first block is a chain. *)
LEMMA FirstBlock ==
    ASSUME NEW doc \in Docs
    PROVE  /\ GenesisBlock(doc) \in Blocks /\ GenesisBlock(doc).height = 0
           /\ IsChain(<<GenesisBlock(doc)>>)
  <1>1. GenesisBlock(doc) \in Blocks /\ GenesisBlock(doc).height = 0
    BY DEF GenesisBlock, NewBlock, Blocks, Origins
  <1> QED BY <1>1 DEF IsChain

(* What SaveBlock changes: the block of its height, and nothing of others. *)
LEMMA SaveBlockEffect ==
    ASSUME NEW d, IsDisk(d), NEW b \in Blocks
    PROVE  /\ IsDisk(SaveBlock(d, b))
           /\ SaveBlock(d, b).state = d.state
           /\ SaveBlock(d, b).genesis = d.genesis
           /\ SaveBlock(d, b).txIndex = Indexed(d.txIndex, b)
           /\ SaveBlock(d, b).byHash = Put(d.byHash, b, b.height)
           /\ SaveBlock(d, b).addrTxs = d.addrTxs \cup Entries(b)
           /\ GetBlock(SaveBlock(d, b), b.height) = b
           /\ \A h : h # b.height => GetBlock(SaveBlock(d, b), h) = GetBlock(d, h)
  <1> DEFINE e == SaveBlock(d, b)
             new == Put(d.blocks, b.height, [tag |-> "1", block |-> b])
  <1>1. /\ DOMAIN e = DOMAIN d
        /\ e.blocks = new
        /\ e.byHash = Put(d.byHash, b, b.height)
        /\ e.txIndex = Indexed(d.txIndex, b)
        /\ e.addrTxs = d.addrTxs \cup Entries(b)
        /\ e.state = d.state /\ e.genesis = d.genesis
    BY DEF SaveBlock, IsDisk
  <1>2. /\ DOMAIN new = {b.height} \cup DOMAIN d.blocks
        /\ new[b.height] = [tag |-> "1", block |-> b]
        /\ \A h \in DOMAIN d.blocks : h # b.height => new[h] = d.blocks[h]
    BY DEF Put
  <1> HIDE DEF e, new
  <1>3. GetBlock(e, b.height) = b
    BY <1>1, <1>2 DEF GetBlock, Decodes
  <1>4. ASSUME NEW h, h # b.height PROVE GetBlock(e, h) = GetBlock(d, h)
    BY <1>1, <1>2, <1>4 DEF GetBlock, Decodes
  <1> QED BY <1>1, <1>3, <1>4 DEF e, IsDisk

(* A block on top of a chain makes a chain with the same first block. *)
LEMMA ChainGrows ==
    ASSUME NEW base, IsChain(base), base # <<>>, NEW o \in Origins, NEW ts \in SUBSET Txs
    PROVE  LET chain == Append(base, NewBlock(Len(base), o, ts))
           IN  /\ IsChain(chain) /\ Len(chain) = Len(base) + 1 /\ Len(chain) > 1
               /\ chain[1] = base[1]
               /\ Last(chain) = NewBlock(Len(base), o, ts)
               /\ \A i \in 1..Len(base) : chain[i] = base[i]
  <1> DEFINE b == NewBlock(Len(base), o, ts)
  <1>1. base \in Seq(Blocks) /\ Len(base) \in Nat \ {0}
    BY EmptySeq DEF IsChain
  <1>2. b \in Blocks /\ b.height = Len(base)
    BY <1>1 DEF NewBlock, Blocks
  <1> HIDE DEF b
  <1>3. /\ Append(base, b) \in Seq(Blocks) /\ Len(Append(base, b)) = Len(base) + 1
        /\ \A i \in 1..Len(base) : Append(base, b)[i] = base[i]
        /\ Append(base, b)[Len(base) + 1] = b
    BY <1>1, <1>2
  <1>4. IsChain(Append(base, b))
    BY <1>1, <1>2, <1>3 DEF IsChain
  <1> QED BY <1>1, <1>3, <1>4 DEF b, Last

(* So does the part of a chain up to a block. *)
LEMMA ChainCut ==
    ASSUME NEW c, IsChain(c), NEW h \in 1..Len(c)
    PROVE  LET base == SubSeq(c, 1, h)
           IN  /\ IsChain(base) /\ Len(base) = h /\ base # <<>> /\ base[1] = c[1]
               /\ \A i \in 1..h : base[i] = c[i]
  <1>1. c \in Seq(Blocks) /\ Len(c) \in Nat
    BY DEF IsChain
  <1>2. \A i \in 1..h : c[i] \in Blocks
    BY <1>1
  <1>3. /\ SubSeq(c, 1, h) \in Seq(Blocks) /\ Len(SubSeq(c, 1, h)) = h
        /\ \A i \in 1..h : SubSeq(c, 1, h)[i] = c[i]
    BY <1>1, <1>2, SubSeqProperties
  <1> QED BY <1>1, <1>3 DEF IsChain

-----------------------------------------------------------------------------
(* A new database and one of an older version. *)
LEMMA RootInvInit == Init => RootInv
  <1> SUFFICES ASSUME Init PROVE RootInv
    OBVIOUS
  <1>1. /\ DOMAIN node = {"run", "chain", "made", "crashes"} /\ node.made \in Nat
        /\ node.run = "down" /\ todo = <<>>
    BY DEF Init, Down
  <1>2. CASE disk = EmptyDisk
    <2>1. IsDisk(disk) /\ disk.state = <<>>
      BY <1>2 DEF EmptyDisk, IsDisk
    <2> QED BY <1>1, <2>1 DEF RootInv, Rooted, IsChain
  <1>3. ASSUME NEW doc \in Docs, disk = LegacyDisk(doc) PROVE RootInv
    <2> DEFINE data == [tag |-> "{", block |-> GenesisBlock(doc)]
    <2>1. IsDisk(disk) /\ disk.state = <<GenesisBlock(doc)>> /\ disk.genesis = doc
      BY <1>3 DEF LegacyDisk, EmptyDisk, IsDisk
    <2>2. disk.blocks = Put(<<>>, 0, data)
      BY <1>3 DEF LegacyDisk, EmptyDisk
    <2>3. 0 \in DOMAIN disk.blocks /\ disk.blocks[0] = data
      BY <2>2 DEF Put
    <2>4. GetBlock(disk, 0) = GenesisBlock(doc)
      <3>1. data.tag = "{" /\ data.block = GenesisBlock(doc)
        OBVIOUS
      <3> HIDE DEF data
      <3>2. Decodes(disk.blocks[0])
        BY <2>3, <3>1 DEF Decodes
      <3> QED BY <2>3, <3>1, <3>2 DEF GetBlock
    <2>5. disk.state[1] = GenesisBlock(doc)
      BY <2>1
    <2>6. Rooted(disk)
      BY <2>1, <2>4, <2>5 DEF Rooted
    <2> QED BY <1>1, <2>1, <2>6, FirstBlock DEF RootInv
  <1> QED BY <1>2, <1>3 DEF Init

(* A write of a block above the first leaves the root alone. *)
LEMMA SaveKeepsRoot ==
    ASSUME IsDisk(disk), IsChain(disk.state), Rooted(disk), NEW b \in Blocks, b.height # 0
    PROVE  LET d == SaveBlock(disk, b)
           IN  IsDisk(d) /\ d.state = disk.state /\ Rooted(d)
  <1> DEFINE d == SaveBlock(disk, b)
  <1>1. /\ IsDisk(d) /\ d.state = disk.state /\ d.genesis = disk.genesis
        /\ GetBlock(d, 0) = GetBlock(disk, 0)
    BY SaveBlockEffect
  <1> QED BY <1>1 DEF Rooted

(* The writes of a call, one by one. *)
LEMMA Queues ==
    ASSUME NEW x, NEW y, NEW z
    PROVE  /\ Head(<<x>>) = x /\ Tail(<<x>>) = <<>> /\ Len(<<x>>) = 1
           /\ Head(<<x, y>>) = x /\ Tail(<<x, y>>) = <<y>> /\ Len(<<x, y>>) = 2
           /\ Head(<<x, y, z>>) = x /\ Tail(<<x, y, z>>) = <<y, z>> /\ Len(<<x, y, z>>) = 3
  OBVIOUS

(* What each of them does. *)
LEMMA Writes ==
    ASSUME NEW d, NEW v
    PROVE  /\ Write(d, <<"genesis", v>>) = [d EXCEPT !.genesis = v]
           /\ Write(d, <<"block", v>>) = SaveBlock(d, v)
           /\ Write(d, <<"state", v>>) = [d EXCEPT !.state = v]
  BY DEF Write

(* Every step keeps the root. *)
LEMMA RootInvStep == RootInv /\ [Next]_vars => RootInv'
  <1> SUFFICES ASSUME RootInv, [Next]_vars PROVE RootInv'
    OBVIOUS
  <1>0. /\ IsDisk(disk) /\ IsChain(disk.state) /\ Rooted(disk)
        /\ DOMAIN node = {"run", "chain", "made", "crashes"}
        /\ node.made \in Nat
    BY DEF RootInv
  <1>1. CASE Boot
    <2>1. disk' = disk /\ node.run = "down" /\ todo = <<>>
      BY <1>1 DEF Boot, RootInv, Running, Starting
    <2>2. CASE disk.state # <<>>
      <3>1. /\ node' = [node EXCEPT !.run = "up", !.chain = disk.state]
            /\ todo' = <<>>
        BY <1>1, <2>1, <2>2 DEF Boot
      <3>2. /\ DOMAIN node' = DOMAIN node /\ node'.run = "up"
            /\ node'.chain = disk.state /\ node'.made = node.made
        BY <1>0, <3>1
      <3> QED BY <1>0, <2>1, <2>2, <3>1, <3>2 DEF RootInv, Running, Rooted, GetBlock, Decodes
    <2>3. CASE disk.state = <<>>
      <3>1. PICK doc \in Docs :
              /\ node' = [node EXCEPT !.run = "starting", !.chain = <<GenesisBlock(doc)>>]
              /\ todo' = FirstWrites(doc)
        BY <1>1, <2>3 DEF Boot
      <3>2. /\ DOMAIN node' = DOMAIN node /\ node'.run = "starting"
            /\ node'.chain = <<GenesisBlock(doc)>> /\ node'.made = node.made
        BY <1>0, <3>1
      <3>3. Starting(doc)'
        BY <3>1, <3>2 DEF Starting
      <3>4. Rooted(disk)'
        BY <1>0, <2>1 DEF Rooted, GetBlock, Decodes
      <3> QED BY <1>0, <2>1, <2>3, <3>2, <3>3, <3>4 DEF RootInv
    <2> QED BY <2>2, <2>3
  <1>2. ASSUME NEW base, IsChain(base), base # <<>>, base[1] = disk.state[1],
               NEW ts \in SUBSET Txs, Ready, disk.state # <<>>, Adopt(base, ts)
        PROVE  RootInv'
    <2> DEFINE origin == <<"made", node.made + 1>>
               chain  == Append(base, NewBlock(Len(base), origin, ts))
    <2>1. origin \in Origins
      BY <1>0 DEF Origins
    <2> HIDE DEF origin
    <2>2. IsChain(chain) /\ Len(chain) > 1 /\ chain[1] = base[1]
      BY <1>2, <2>1, ChainGrows
    <2>3. chain # <<>>
      BY <2>2
    <2>4. /\ node' = [node EXCEPT !.chain = chain, !.made = @ + 1]
          /\ todo' = Persist(chain) /\ disk' = disk
      BY <1>2 DEF Adopt, origin
    <2> HIDE DEF chain
    <2>5. /\ DOMAIN node' = DOMAIN node /\ node'.run = "up"
          /\ node'.chain = chain /\ node'.made \in Nat
      BY <1>0, <1>2, <2>4 DEF Ready
    <2> QED BY <1>0, <1>2, <2>2, <2>3, <2>4, <2>5 DEF RootInv, Running, Rooted, GetBlock, Decodes
  <1>3. Ready => Running
    BY DEF Ready, RootInv
  <1>4. ASSUME NEW ts \in SUBSET Txs, Commit(ts) PROVE RootInv'
    <2>1. Ready /\ Running /\ Adopt(node.chain, ts)
      BY <1>3, <1>4 DEF Commit
    <2> QED BY <1>2, <2>1 DEF Running
  <1>5. ASSUME NEW h \in 1..MaxHeight, NEW ts \in SUBSET Txs, Reorg(h, ts) PROVE RootInv'
    <2> DEFINE base == SubSeq(node.chain, 1, h)
    <2>1. Ready /\ Running /\ h \in 1..Tip /\ Adopt(base, ts)
      BY <1>3, <1>5 DEF Reorg
    <2>2. IsChain(node.chain) /\ node.chain[1] = disk.state[1] /\ disk.state # <<>>
      BY <2>1 DEF Running
    <2>3. h \in 1..Len(node.chain)
      BY <2>1, <2>2 DEF Tip, IsChain
    <2>4. IsChain(base) /\ base # <<>> /\ base[1] = node.chain[1]
      BY <2>2, <2>3, ChainCut
    <2> HIDE DEF base
    <2> QED BY <1>2, <2>1, <2>2, <2>4
  <1>6. CASE Save
    <2>1. /\ disk' = Write(disk, Head(todo)) /\ todo' = Tail(todo) /\ todo # <<>>
          /\ node' = IF node.run = "starting" /\ Len(todo) = 1
                     THEN [node EXCEPT !.run = "up"] ELSE node
      BY <1>6 DEF Save
    <2>2. ASSUME node.run = "starting" PROVE RootInv'
      <3>1. disk.state = <<>>
        BY <2>2 DEF RootInv
      <3>2. PICK doc \in Docs : Starting(doc)
        BY <2>2 DEF RootInv
      <3> DEFINE g == GenesisBlock(doc)
      <3>3. g \in Blocks /\ g.height = 0 /\ IsChain(<<g>>)
        BY FirstBlock
      <3>4. node.chain = <<g>>
        BY <3>2 DEF Starting
      <3> HIDE DEF g
      <3>5. CASE todo = <<<<"genesis", doc>>, <<"block", g>>, <<"state", <<g>>>>>>
        <4>1. /\ disk' = [disk EXCEPT !.genesis = doc] /\ node' = node
              /\ todo' = <<<<"block", g>>, <<"state", <<g>>>>>>
          <5> DEFINE w1 == <<"genesis", doc>>
                     w2 == <<"block", g>>
                     w3 == <<"state", <<g>>>>
          <5>1. todo = <<w1, w2, w3>> /\ Write(disk, w1) = [disk EXCEPT !.genesis = doc]
            BY <3>5, Writes
          <5>2. disk' = Write(disk, w1) /\ todo' = <<w2, w3>> /\ node' = node
            <6> HIDE DEF w1, w2, w3
            <6> QED BY <2>1, <5>1, Queues
          <5> QED BY <5>1, <5>2
        <4>2. IsDisk(disk') /\ disk'.state = <<>> /\ disk'.genesis = doc
          BY <1>0, <3>1, <4>1 DEF IsDisk
        <4>3. Starting(doc)'
          BY <3>4, <4>1, <4>2 DEF Starting, g
        <4> QED BY <1>0, <2>2, <3>1, <4>1, <4>2, <4>3 DEF RootInv, Rooted
      <3>6. CASE todo = <<<<"block", g>>, <<"state", <<g>>>>>> /\ disk.genesis = doc
        <4>1. /\ disk' = SaveBlock(disk, g) /\ node' = node
              /\ todo' = <<<<"state", <<g>>>>>>
          <5> DEFINE w2 == <<"block", g>>
                     w3 == <<"state", <<g>>>>
          <5>1. todo = <<w2, w3>> /\ Write(disk, w2) = SaveBlock(disk, g)
            BY <3>6, Writes
          <5>2. disk' = Write(disk, w2) /\ todo' = <<w3>> /\ node' = node
            <6> HIDE DEF w2, w3
            <6> QED BY <2>1, <5>1, Queues
          <5> QED BY <5>1, <5>2
        <4>2. /\ IsDisk(disk') /\ disk'.state = <<>> /\ disk'.genesis = doc
              /\ GetBlock(disk', 0) = g
          BY <1>0, <3>1, <3>3, <3>6, <4>1, SaveBlockEffect
        <4>3. Starting(doc)'
          BY <3>4, <4>1, <4>2 DEF Starting, g, GetBlock, Decodes
        <4> QED BY <1>0, <2>2, <3>1, <4>1, <4>2, <4>3 DEF RootInv, Rooted
      <3>7. CASE /\ todo = <<<<"state", <<g>>>>>>
                 /\ disk.genesis = doc /\ GetBlock(disk, 0) = g
        <4>1. /\ disk' = [disk EXCEPT !.state = <<g>>] /\ todo' = <<>>
              /\ node' = [node EXCEPT !.run = "up"]
          <5> DEFINE w3 == <<"state", <<g>>>>
          <5>1. todo = <<w3>> /\ Write(disk, w3) = [disk EXCEPT !.state = <<g>>]
            BY <3>7, Writes
          <5>2. /\ disk' = Write(disk, w3) /\ todo' = <<>>
                /\ node' = [node EXCEPT !.run = "up"]
            <6> HIDE DEF w3
            <6> QED BY <2>1, <2>2, <5>1, Queues
          <5> QED BY <5>1, <5>2
        <4>2. /\ IsDisk(disk') /\ disk'.state = <<g>> /\ disk'.genesis = doc
              /\ disk'.blocks = disk.blocks
          <5> DEFINE c == <<g>>
          <5>1. disk' = [disk EXCEPT !.state = c]
            BY <4>1
          <5> HIDE DEF c
          <5>2. /\ DOMAIN disk' = DOMAIN disk /\ disk'.state = c
                /\ disk'.genesis = disk.genesis /\ disk'.blocks = disk.blocks
            BY <1>0, <5>1 DEF IsDisk
          <5> QED BY <1>0, <3>7, <5>2 DEF IsDisk, c
        <4>3. GetBlock(disk', 0) = g
          BY <3>7, <4>2 DEF GetBlock
        <4>4. Rooted(disk')
          BY <4>2, <4>3 DEF Rooted, g
        <4>5. /\ DOMAIN node' = DOMAIN node /\ node'.run = "up"
              /\ node'.chain = node.chain /\ node'.made = node.made
          BY <1>0, <4>1
        <4>6. Running'
          BY SMTT(40), <3>3, <3>4, <4>1, <4>2, <4>5 DEF Running
        <4>7. IsDisk(disk)' /\ IsChain(disk.state)' /\ Rooted(disk)'
          BY <3>3, <4>2, <4>4 DEF IsDisk, Rooted, GetBlock, Decodes
        <4> QED BY <1>0, <4>5, <4>6, <4>7 DEF RootInv
      <3> QED BY <3>2, <3>5, <3>6, <3>7 DEF Starting, FirstWrites, g
    <2>3. ASSUME node.run = "up" PROVE RootInv'
      <3>1. Running /\ node' = node
        BY <2>1, <2>3 DEF RootInv
      <3>2. IsChain(node.chain) /\ node.chain # <<>> /\ node.chain[1] = disk.state[1]
        BY <3>1 DEF Running
      <3>3. CASE Len(node.chain) > 1 /\ todo = Persist(node.chain)
        <4> DEFINE b == Last(node.chain)
        <4>1. b \in Blocks /\ b.height # 0
          BY <3>2, <3>3 DEF IsChain, Last
        <4> HIDE DEF b
        <4>2. todo = <<<<"block", b>>, <<"state", node.chain>>>>
          BY <3>3 DEF Persist, b
        <4>3. disk' = SaveBlock(disk, b) /\ todo' = <<<<"state", node.chain>>>>
          <5> DEFINE w1 == <<"block", b>>
                     w2 == <<"state", node.chain>>
          <5>1. todo = <<w1, w2>> /\ Write(disk, w1) = SaveBlock(disk, b)
            BY <4>2, Writes
          <5>2. disk' = Write(disk, w1) /\ todo' = <<w2>>
            <6> HIDE DEF w1, w2
            <6> QED BY <2>1, <5>1, Queues
          <5> QED BY <5>1, <5>2
        <4>4. IsDisk(disk') /\ disk'.state = disk.state /\ Rooted(disk')
          BY <1>0, <4>1, <4>3, SaveKeepsRoot
        <4>5. Running'
          BY <3>1, <3>3, <4>3, <4>4 DEF Running
        <4>6. IsDisk(disk)' /\ IsChain(disk.state)' /\ Rooted(disk)'
          BY <1>0, <4>4 DEF IsDisk, Rooted, GetBlock, Decodes
        <4> QED BY <1>0, <2>3, <3>1, <4>5, <4>6 DEF RootInv
      <3>4. CASE Len(node.chain) > 1 /\ todo = <<<<"state", node.chain>>>>
        <4>1. disk' = [disk EXCEPT !.state = node.chain] /\ todo' = <<>>
          <5> DEFINE w2 == <<"state", node.chain>>
          <5>1. todo = <<w2>> /\ Write(disk, w2) = [disk EXCEPT !.state = node.chain]
            BY <3>4, Writes
          <5>2. disk' = Write(disk, w2) /\ todo' = <<>>
            <6> HIDE DEF w2
            <6> QED BY <2>1, <5>1, Queues
          <5> QED BY <5>1, <5>2
        <4>2. /\ IsDisk(disk') /\ disk'.state = node.chain
              /\ disk'.genesis = disk.genesis /\ disk'.blocks = disk.blocks
          BY <1>0, <4>1 DEF IsDisk
        <4>3. /\ GetBlock(disk, 0) = disk.state[1] /\ disk.genesis \in Docs
              /\ disk.state[1] = GenesisBlock(disk.genesis)
          BY <1>0, <3>1 DEF Rooted, Running
        <4>4. GetBlock(disk', 0) = GetBlock(disk, 0)
          BY <4>2 DEF GetBlock
        <4>5. Rooted(disk')
          BY <3>2, <4>2, <4>3, <4>4 DEF Rooted
        <4>6. Running'
          BY <3>1, <3>2, <4>1, <4>2 DEF Running
        <4>7. IsDisk(disk)' /\ IsChain(disk.state)' /\ Rooted(disk)'
          BY <3>2, <4>2, <4>5 DEF IsDisk, Rooted, GetBlock, Decodes
        <4> QED BY <1>0, <2>3, <3>1, <4>6, <4>7 DEF RootInv
      <3> QED BY <2>1, <3>1, <3>3, <3>4 DEF Running
    <2> QED BY <2>1, <2>2, <2>3 DEF RootInv
  <1>7. CASE SaveFails
    <2>1. disk' = disk /\ node' = node /\ todo' = Tail(todo) /\ todo # <<>> /\ node.run = "up"
      BY <1>7 DEF SaveFails
    <2>2. Running
      BY <2>1 DEF RootInv
    <2> DEFINE w1 == <<"block", Last(node.chain)>>
               w2 == <<"state", node.chain>>
    <2>3. Len(node.chain) > 1 /\ (todo = <<w1, w2>> \/ todo = <<w2>>)
      <3>1. todo # <<>>
        BY <2>1
      <3>2. Len(node.chain) > 1 /\ (todo = Persist(node.chain) \/ todo = <<w2>>)
        BY <2>2, <3>1 DEF Running
      <3>3. Persist(node.chain) = <<w1, w2>>
        BY DEF Persist
      <3> HIDE DEF w1, w2
      <3> QED BY <3>2, <3>3
    <2>4. todo' = <<w2>> \/ todo' = <<>>
      <3> HIDE DEF w1, w2
      <3>1. CASE todo = <<w1, w2>>
        BY <2>1, <3>1, Queues
      <3>2. CASE todo = <<w2>>
        BY <2>1, <3>2, Queues
      <3> QED BY <2>3, <3>1, <3>2
    <2> QED BY <1>0, <2>1, <2>2, <2>3, <2>4 DEF RootInv, Running, Rooted, GetBlock, Decodes
  <1>8. CASE Crash
    <2>1. disk' = disk /\ todo' = <<>> /\ DOMAIN node' = DOMAIN node
          /\ node'.run = "down" /\ node'.made = node.made
      BY <1>0, <1>8 DEF Crash
    <2> QED BY <1>0, <2>1 DEF RootInv, Rooted, GetBlock, Decodes
  <1>9. CASE UNCHANGED vars
    BY <1>0, <1>9 DEF vars, RootInv, Rooted, GetBlock, Decodes, Running, Starting
  <1> QED BY <1>1, <1>4, <1>5, <1>6, <1>7, <1>8, <1>9 DEF Next

(* A node that resumes a chain finds the document it grew from and its     *)
(* first block, whatever starts, failed writes and crashes came before     *)
(* (node.go:222-232).                                                      *)
THEOREM ResumedChainHasItsGenesis == Spec => []StateHasItsGenesis
  <1>1. RootInv => StateHasItsGenesis
    BY DEF RootInv, Rooted, StateHasItsGenesis
  <1> QED BY <1>1, RootInvInit, RootInvStep, PTL DEF Spec

-----------------------------------------------------------------------------
(***************************************************************************)
(* The lookups.  What a chain needs of the database to be found there does *)
(* not disturb what its other blocks need, because a block is of another   *)
(* height than those below it and has none of their transactions.          *)
(***************************************************************************)
Stored(d, b) ==
    /\ GetBlock(d, b.height) = b /\ b \in DOMAIN d.byHash
    /\ \A t \in b.txs : t \in DOMAIN d.txIndex /\ d.txIndex[t] = b.height
    /\ Entries(b) \subseteq d.addrTxs

Kept(d, c) == \A i \in 1..Len(c) : Stored(d, c[i])

HashInv(d) == \A b \in DOMAIN d.byHash : d.byHash[b] = b.height

(* The chain is a chain on disk, cut and continued with one new block.     *)
Follows(chain, saved) ==
    \A i \in 1..(Len(chain) - 1) :
        /\ i <= Len(saved) /\ saved[i] = chain[i]
        /\ chain[i].txs \cap Last(chain).txs = {}

LookupInv ==
    /\ HashInv(disk)
    /\ ~trouble =>
        /\ Len(todo) # 1 \/ Len(disk.state) < Len(node.chain) => Kept(disk, disk.state)
        /\ Len(todo) = 1 => Kept(disk, node.chain)
        /\ node.run = "up" /\ Len(todo) = 0 => disk.state = node.chain
        /\ node.run = "up" /\ Len(todo) = 2 => Follows(node.chain, disk.state)

(* A block saved is found. *)
LEMMA SaveStores ==
    ASSUME NEW d, IsDisk(d), HashInv(d), NEW b \in Blocks
    PROVE  Stored(SaveBlock(d, b), b) /\ HashInv(SaveBlock(d, b))
  <1> DEFINE e == SaveBlock(d, b)
  <1>1. /\ e.txIndex = Indexed(d.txIndex, b) /\ e.byHash = Put(d.byHash, b, b.height)
        /\ GetBlock(e, b.height) = b /\ e.addrTxs = d.addrTxs \cup Entries(b)
    BY SaveBlockEffect
  <1> HIDE DEF e
  <1>2. HashInv(e) /\ b \in DOMAIN e.byHash
    BY <1>1 DEF HashInv, Put
  <1>3. \A t \in b.txs : t \in DOMAIN e.txIndex /\ e.txIndex[t] = b.height
    BY <1>1 DEF Indexed
  <1>4. Entries(b) \subseteq e.addrTxs
    BY <1>1
  <1> QED BY <1>1, <1>2, <1>3, <1>4 DEF Stored, e

(* A block saved hides no block of another height and other transactions. *)
LEMMA SaveHidesNone ==
    ASSUME NEW d, IsDisk(d), NEW b \in Blocks, NEW c \in Blocks, Stored(d, c),
           c.height # b.height, c.txs \cap b.txs = {}
    PROVE  Stored(SaveBlock(d, b), c)
  <1> DEFINE e == SaveBlock(d, b)
  <1>1. /\ e.txIndex = Indexed(d.txIndex, b) /\ e.byHash = Put(d.byHash, b, b.height)
        /\ GetBlock(e, c.height) = GetBlock(d, c.height)
        /\ e.addrTxs = d.addrTxs \cup Entries(b)
    BY SaveBlockEffect
  <1> HIDE DEF e
  <1>2. GetBlock(e, c.height) = c /\ c \in DOMAIN e.byHash
    BY <1>1 DEF Stored, Put
  <1>3. \A t \in c.txs : t \in DOMAIN e.txIndex /\ e.txIndex[t] = c.height
    BY <1>1 DEF Stored, Indexed
  <1>4. Entries(c) \subseteq e.addrTxs
    BY <1>1 DEF Stored
  <1> QED BY <1>2, <1>3, <1>4 DEF Stored, e

(* Writes of other buckets change nothing of it. *)
LEMMA OtherBuckets ==
    ASSUME NEW d, NEW e, e.blocks = d.blocks, e.byHash = d.byHash, e.txIndex = d.txIndex,
           e.addrTxs = d.addrTxs
    PROVE  /\ \A c : Kept(d, c) => Kept(e, c)
           /\ HashInv(d) => HashInv(e)
  BY ZenonT(40) DEF Kept, Stored, HashInv, GetBlock, Decodes

(* The five writes of a node that starts or runs. *)
LEMMA SaveStep ==
    ASSUME RootInv, Save
    PROVE  /\ node'.chain = node.chain
           /\ \/ /\ node.run = "starting" /\ node'.run = "starting"
                 /\ Len(todo) = 3 /\ Len(todo') = 2
                 /\ \E doc \in Docs : disk' = [disk EXCEPT !.genesis = doc]
              \/ /\ node.run = "starting" /\ node'.run = "starting"
                 /\ Len(todo) = 2 /\ Len(todo') = 1
                 /\ Len(node.chain) = 1 /\ node.chain[1] \in Blocks
                 /\ disk' = SaveBlock(disk, node.chain[1])
              \/ /\ node'.run = "up" /\ Len(todo) = 1 /\ Len(todo') = 0
                 /\ disk' = [disk EXCEPT !.state = node.chain]
              \/ /\ node.run = "up" /\ node'.run = "up"
                 /\ Len(todo) = 2 /\ Len(todo') = 1 /\ Len(node.chain) > 1
                 /\ disk' = SaveBlock(disk, Last(node.chain))
  <1>1. /\ disk' = Write(disk, Head(todo)) /\ todo' = Tail(todo) /\ todo # <<>>
        /\ node' = IF node.run = "starting" /\ Len(todo) = 1
                   THEN [node EXCEPT !.run = "up"] ELSE node
    BY DEF Save
  <1>2. DOMAIN node = {"run", "chain", "made", "crashes"}
    BY DEF RootInv
  <1>3. node'.chain = node.chain
    BY <1>1, <1>2
  <1>4. CASE node.run = "starting"
    <2>1. PICK doc \in Docs : Starting(doc)
      BY <1>4 DEF RootInv
    <2> DEFINE g  == GenesisBlock(doc)
               w1 == <<"genesis", doc>>
               w2 == <<"block", g>>
               w3 == <<"state", <<g>>>>
    <2>2. todo = <<w1, w2, w3>> \/ todo = <<w2, w3>> \/ todo = <<w3>>
      BY <2>1 DEF Starting, FirstWrites
    <2>3. node.chain = <<g>>
      BY <2>1 DEF Starting
    <2>4. /\ Write(disk, w1) = [disk EXCEPT !.genesis = doc]
          /\ Write(disk, w2) = SaveBlock(disk, g)
          /\ Write(disk, w3) = [disk EXCEPT !.state = node.chain]
      BY ZenonT(40), <2>3, Writes
    <2>5. g \in Blocks
      BY FirstBlock
    <2>6. Len(node.chain) = 1 /\ node.chain[1] = g
      <3> HIDE DEF g
      <3> QED BY <2>3
    <2> HIDE DEF g, w1, w2, w3
    <2>7. CASE todo = <<w1, w2, w3>>
      <3>1. Len(todo) = 3 /\ disk' = Write(disk, w1) /\ todo' = <<w2, w3>> /\ node' = node
        BY <1>1, <2>7, Queues
      <3> QED BY <1>3, <1>4, <2>4, <3>1, Queues
    <2>8. CASE todo = <<w2, w3>>
      <3>1. Len(todo) = 2 /\ disk' = Write(disk, w2) /\ todo' = <<w3>> /\ node' = node
        BY <1>1, <2>8, Queues
      <3> QED BY <1>3, <1>4, <2>4, <2>5, <2>6, <3>1, Queues
    <2>9. CASE todo = <<w3>>
      <3>1. /\ Len(todo) = 1 /\ disk' = Write(disk, w3) /\ todo' = <<>>
            /\ node' = [node EXCEPT !.run = "up"]
        BY <1>1, <1>4, <2>9, Queues
      <3>2. node'.run = "up"
        BY <1>2, <3>1
      <3> QED BY <1>3, <2>4, <3>1, <3>2
    <2> QED BY <2>2, <2>7, <2>8, <2>9
  <1>5. CASE node.run = "up"
    <2>1. Running /\ node' = node
      BY <1>1, <1>5 DEF RootInv
    <2> DEFINE w1 == <<"block", Last(node.chain)>>
               w2 == <<"state", node.chain>>
    <2>2. Len(node.chain) > 1 /\ (todo = <<w1, w2>> \/ todo = <<w2>>)
      <3>1. Len(node.chain) > 1 /\ (todo = Persist(node.chain) \/ todo = <<w2>>)
        BY <1>1, <2>1 DEF Running
      <3>2. Persist(node.chain) = <<w1, w2>>
        BY DEF Persist
      <3> HIDE DEF w1, w2
      <3> QED BY <3>1, <3>2
    <2>3. /\ Write(disk, w1) = SaveBlock(disk, Last(node.chain))
          /\ Write(disk, w2) = [disk EXCEPT !.state = node.chain]
      BY Writes
    <2> HIDE DEF w1, w2
    <2>4. CASE todo = <<w1, w2>>
      <3>1. Len(todo) = 2 /\ disk' = Write(disk, w1) /\ todo' = <<w2>>
        BY <1>1, <2>4, Queues
      <3> QED BY <1>5, <2>1, <2>2, <2>3, <3>1, Queues
    <2>5. CASE todo = <<w2>>
      <3>1. Len(todo) = 1 /\ disk' = Write(disk, w2) /\ todo' = <<>>
        BY <1>1, <2>5, Queues
      <3> QED BY <1>5, <2>1, <2>3, <3>1
    <2> QED BY <2>2, <2>4, <2>5
  <1> QED BY <1>1, <1>4, <1>5 DEF RootInv

(* A database of an older version is found as well. *)
LEMMA LookupInvInit == Init => LookupInv
  <1> SUFFICES ASSUME Init PROVE LookupInv
    OBVIOUS
  <1>1. node.run = "down" /\ Len(todo) = 0
    BY DEF Init, Down
  <1>2. CASE disk = EmptyDisk
    <2>1. disk.state = <<>> /\ DOMAIN disk.byHash = {}
      BY <1>2 DEF EmptyDisk
    <2> QED BY <1>1, <2>1 DEF LookupInv, HashInv, Kept
  <1>3. ASSUME NEW doc \in Docs, disk = LegacyDisk(doc) PROVE LookupInv
    <2> DEFINE g    == GenesisBlock(doc)
               data == [tag |-> "{", block |-> g]
    <2>1. /\ disk.state = <<g>>
          /\ disk.blocks = Put(<<>>, 0, data) /\ disk.byHash = Put(<<>>, g, 0)
      BY <1>3 DEF LegacyDisk, EmptyDisk
    <2>2. g.height = 0 /\ g.txs = {}
      BY DEF GenesisBlock, NewBlock
    <2>3. data.tag = "{" /\ data.block = g
      OBVIOUS
    <2> HIDE DEF g, data
    <2>4. 0 \in DOMAIN disk.blocks /\ disk.blocks[0] = data
      BY <2>1 DEF Put
    <2>5. GetBlock(disk, 0) = g
      <3>1. Decodes(disk.blocks[0])
        BY <2>3, <2>4 DEF Decodes
      <3> QED BY <2>3, <2>4, <3>1 DEF GetBlock
    <2>6. DOMAIN disk.byHash = {g} /\ disk.byHash[g] = 0
      BY <2>1 DEF Put
    <2>7. Stored(disk, g) /\ HashInv(disk)
      <3>1. Entries(g) = {}
        BY <2>2 DEF Entries
      <3> QED BY <2>2, <2>5, <2>6, <3>1 DEF Stored, HashInv
    <2>8. Kept(disk, disk.state)
      BY <2>1, <2>7 DEF Kept
    <2> QED BY <1>1, <2>7, <2>8 DEF LookupInv
  <1> QED BY <1>2, <1>3 DEF Init

(* The block of a call under way follows the chain on disk. *)
LEMMA AdoptFollows ==
    ASSUME NEW base, IsChain(base), base # <<>>, NEW ts \in SUBSET Txs, ts \subseteq Fresh(base),
           NEW saved, Len(base) <= Len(saved), Len(saved) \in Nat,
           \A i \in 1..Len(base) : base[i] = saved[i],
           NEW o \in Origins
    PROVE  Follows(Append(base, NewBlock(Len(base), o, ts)), saved)
  <1> DEFINE b     == NewBlock(Len(base), o, ts)
             chain == Append(base, b)
  <1>1. /\ IsChain(chain) /\ Len(chain) = Len(base) + 1 /\ Last(chain) = b
        /\ \A i \in 1..Len(base) : chain[i] = base[i]
    BY ChainGrows
  <1>2. b.txs = ts
    BY DEF NewBlock
  <1>3. Len(base) \in Nat /\ DOMAIN base = 1..Len(base)
    BY DEF IsChain
  <1> HIDE DEF b, chain
  <1>4. \A i \in 1..Len(base) : base[i].txs \cap ts = {}
    BY <1>3 DEF Fresh
  <1>5. Follows(chain, saved)
    BY <1>1, <1>2, <1>3, <1>4 DEF Follows
  <1> QED BY <1>5 DEF chain, b

(* Every step keeps what is looked up. *)
LEMMA LookupInvStep == RootInv /\ LookupInv /\ [Next]_vars => LookupInv'
  <1> SUFFICES ASSUME RootInv, LookupInv, [Next]_vars PROVE LookupInv'
    OBVIOUS
  <1>0. /\ IsDisk(disk) /\ IsChain(disk.state) /\ HashInv(disk)
        /\ DOMAIN node = {"run", "chain", "made", "crashes"}
        /\ node.made \in Nat
    BY DEF RootInv, LookupInv
  <1>a. ASSUME disk' = disk
        PROVE  HashInv(disk)' /\ \A c : Kept(disk, c) => Kept(disk', c)
    BY <1>0, <1>a
  <1>1. CASE Boot
    <2>1. disk' = disk /\ trouble' = trouble /\ node.run = "down" /\ Len(todo) = 0
      BY <1>1 DEF Boot, RootInv, Running, Starting
    <2>2. CASE disk.state # <<>>
      <3>1. todo' = todo /\ node'.run = "up" /\ node'.chain = disk.state
        BY <1>0, <1>1, <2>2 DEF Boot
      <3> QED BY <1>0, <2>1, <3>1 DEF LookupInv
    <2>3. CASE disk.state = <<>>
      <3>1. PICK doc \in Docs : todo' = FirstWrites(doc) /\ node'.run = "starting"
        BY <1>0, <1>1, <2>3 DEF Boot
      <3>2. Len(FirstWrites(doc)) = 3
        BY Queues DEF FirstWrites
      <3>3. Kept(disk, <<>>)
        BY DEF Kept
      <3> QED BY <1>0, <2>1, <2>3, <3>1, <3>2, <3>3 DEF LookupInv
    <2> QED BY <2>2, <2>3
  <1>2. ASSUME NEW base, IsChain(base), base # <<>>, NEW ts \in SUBSET Txs, ts \subseteq Fresh(base),
               Len(base) <= Len(node.chain), Len(node.chain) \in Nat,
               \A i \in 1..Len(base) : base[i] = node.chain[i],
               Ready, Adopt(base, ts)
        PROVE  LookupInv'
    <2> DEFINE origin == <<"made", node.made + 1>>
               chain  == Append(base, NewBlock(Len(base), origin, ts))
    <2>1. /\ node' = [node EXCEPT !.chain = chain, !.made = @ + 1]
          /\ todo' = Persist(chain) /\ disk' = disk /\ trouble' = trouble
      BY <1>2 DEF Adopt
    <2>2. origin \in Origins
      BY <1>0 DEF Origins
    <2> HIDE DEF origin
    <2>3. ~trouble => Follows(chain, disk.state) /\ Kept(disk, disk.state)
      <3>1. node.run = "up" /\ Len(todo) = 0
        BY <1>2 DEF Ready
      <3>2. Follows(chain, node.chain)
        BY <1>2, <2>2, AdoptFollows
      <3> HIDE DEF chain
      <3> QED BY <3>1, <3>2 DEF LookupInv
    <2> HIDE DEF chain
    <2>4. node'.chain = chain
      BY <1>0, <2>1
    <2>5. Len(todo') = 2
      BY <2>1, Queues DEF Persist
    <2> QED BY <1>0, <2>1, <2>3, <2>4, <2>5 DEF LookupInv
  <1>3. Ready => IsChain(node.chain) /\ node.chain # <<>>
    BY DEF Ready, RootInv, Running
  <1>4. ASSUME NEW ts \in SUBSET Txs, Commit(ts) PROVE LookupInv'
    <2>1. Ready /\ ts \subseteq Fresh(node.chain) /\ Adopt(node.chain, ts)
      BY <1>4 DEF Commit
    <2>2. Len(node.chain) \in Nat
      BY <1>3, <2>1 DEF IsChain
    <2> QED BY <1>2, <1>3, <2>1, <2>2
  <1>5. ASSUME NEW h \in 1..MaxHeight, NEW ts \in SUBSET Txs, Reorg(h, ts) PROVE LookupInv'
    <2> DEFINE base == SubSeq(node.chain, 1, h)
    <2>1. Ready /\ h \in 1..Tip /\ ts \subseteq Fresh(base) /\ Adopt(base, ts)
      BY <1>5 DEF Reorg
    <2>2. IsChain(node.chain) /\ Len(node.chain) \in Nat /\ h \in 1..Len(node.chain)
      BY <1>3, <2>1 DEF Tip, IsChain
    <2>3. /\ IsChain(base) /\ base # <<>> /\ Len(base) = h
          /\ \A i \in 1..h : base[i] = node.chain[i]
      BY <2>2, ChainCut
    <2> HIDE DEF base
    <2> QED BY <1>2, <2>1, <2>2, <2>3
  <1>6. CASE Save
    <2>1. trouble' = trouble /\ node'.chain = node.chain
      BY <1>6, SaveStep DEF Save
    <2>2. ASSUME node.run = "starting", node'.run = "starting", Len(todo') = 2,
                 NEW doc \in Docs, disk' = [disk EXCEPT !.genesis = doc]
          PROVE  LookupInv'
      <3>1. /\ disk'.state = disk.state /\ disk'.blocks = disk.blocks
            /\ disk'.byHash = disk.byHash /\ disk'.txIndex = disk.txIndex
            /\ disk'.addrTxs = disk.addrTxs
        BY <1>0, <2>2 DEF IsDisk
      <3>2. disk.state = <<>> /\ Kept(disk', <<>>)
        BY <2>2 DEF RootInv, Kept
      <3>3. HashInv(disk')
        BY <1>0, <3>1, OtherBuckets
      <3> QED BY <2>1, <2>2, <3>1, <3>2, <3>3 DEF LookupInv
    <2>3. ASSUME node.run = "starting", node'.run = "starting", Len(todo') = 1,
                 Len(node.chain) = 1, node.chain[1] \in Blocks,
                 disk' = SaveBlock(disk, node.chain[1])
          PROVE  LookupInv'
      <3>1. disk'.state = disk.state /\ Stored(disk', node.chain[1]) /\ HashInv(disk')
        BY <1>0, <2>3, SaveBlockEffect, SaveStores
      <3>2. disk.state = <<>> /\ Kept(disk', <<>>)
        BY <2>3 DEF RootInv, Kept
      <3>3. Kept(disk', node.chain)
        BY <2>3, <3>1 DEF Kept
      <3> QED BY <2>1, <2>3, <3>1, <3>2, <3>3 DEF LookupInv
    <2>4. ASSUME node'.run = "up", Len(todo) = 1, Len(todo') = 0,
                 disk' = [disk EXCEPT !.state = node.chain]
          PROVE  LookupInv'
      <3> DEFINE c == node.chain
      <3>1. disk' = [disk EXCEPT !.state = c]
        BY <2>4
      <3> HIDE DEF c
      <3>2. /\ disk'.state = c /\ disk'.blocks = disk.blocks
            /\ disk'.byHash = disk.byHash /\ disk'.txIndex = disk.txIndex
            /\ disk'.addrTxs = disk.addrTxs
        BY <1>0, <3>1 DEF IsDisk
      <3>3. HashInv(disk') /\ (Kept(disk, c) => Kept(disk', c))
        BY <1>0, <3>2, OtherBuckets
      <3>4. ~trouble => Kept(disk, c)
        BY <2>4 DEF LookupInv, c
      <3> QED BY <2>1, <2>4, <3>2, <3>3, <3>4 DEF LookupInv, c
    <2>5. ASSUME node.run = "up", node'.run = "up", Len(todo) = 2, Len(todo') = 1,
                 Len(node.chain) > 1, disk' = SaveBlock(disk, Last(node.chain))
          PROVE  LookupInv'
      <3> DEFINE c == node.chain
                 b == Last(c)
                 n == Len(c)
      <3>1. IsChain(c)
        BY <2>5 DEF RootInv, Running
      <3>2. /\ n \in Nat /\ n > 1 /\ b = c[n]
            /\ \A i \in 1..n : c[i] \in Blocks /\ c[i].height = i - 1
        BY <2>5, <3>1 DEF IsChain, Last
      <3>3. disk'.state = disk.state /\ Stored(disk', b) /\ HashInv(disk')
        BY <1>0, <2>5, <3>2, SaveBlockEffect, SaveStores
      <3>4. ASSUME ~trouble PROVE Kept(disk', c) /\ (Len(disk.state) < n => Kept(disk', disk.state))
        <4>1. Kept(disk, disk.state) /\ Follows(c, disk.state)
          BY <2>5, <3>4 DEF LookupInv
        <4> HIDE DEF b, c
        <4>2. /\ Len(disk.state) \in Nat
              /\ \A i \in 1..(n - 1) : i <= Len(disk.state) /\ disk.state[i] = c[i]
          BY <1>0, <4>1 DEF IsChain, Follows
        <4>3. ASSUME NEW i \in 1..(n - 1) PROVE Stored(disk', c[i])
          <5>1. c[i] \in Blocks /\ c[i].height # b.height
            BY <3>2
          <5>2. c[i].txs \cap b.txs = {} /\ Stored(disk, c[i])
            BY <4>1, <4>2 DEF Follows, Kept, b
          <5>3. disk' = SaveBlock(disk, b) /\ b \in Blocks
            BY <2>5, <3>2 DEF b, c
          <5> QED BY <1>0, <5>1, <5>2, <5>3, SaveHidesNone
        <4>4. Kept(disk', c)
          BY <3>2, <3>3, <4>3 DEF Kept
        <4>5. Len(disk.state) < n => Kept(disk', disk.state)
          BY <3>2, <4>2, <4>3 DEF Kept
        <4> QED BY <4>4, <4>5
      <3> QED BY <2>1, <2>5, <3>3, <3>4 DEF LookupInv
    <2> QED BY <1>6, <2>2, <2>3, <2>4, <2>5, SaveStep
  <1>7. CASE SaveFails
    BY <1>0, <1>7 DEF SaveFails, LookupInv
  <1>8. CASE Crash
    <2>1. /\ disk' = disk /\ todo' = <<>> /\ node'.run = "down"
          /\ trouble' = (trouble \/ Replacing)
      BY <1>0, <1>8 DEF Crash
    <2>2. ASSUME ~trouble' PROVE Kept(disk, disk.state)
      <3>1. ~trouble /\ ~Replacing
        BY <2>1, <2>2
      <3>2. CASE node.run = "up"
        <4>1. Len(disk.state) \in Nat /\ Len(node.chain) \in Nat
          BY <1>0, <3>2 DEF RootInv, Running, IsChain
        <4> QED BY <3>1, <3>2, <4>1 DEF Replacing, LookupInv
      <3>3. CASE node.run = "starting"
        BY <3>3 DEF RootInv, Kept
      <3> QED BY <1>8, <3>2, <3>3 DEF Crash, RootInv
    <2>3. Len(todo') = 0
      BY <2>1
    <2> QED BY <1>0, <2>1, <2>2, <2>3 DEF LookupInv
  <1>9. CASE UNCHANGED vars
    BY <1>0, <1>9 DEF vars, LookupInv
  <1> QED BY <1>1, <1>4, <1>5, <1>6, <1>7, <1>8, <1>9 DEF Next

(* Between two commits the database knows the chain in memory, whatever    *)
(* reorgs and restarts left of other branches (SaveBlock, store.go).       *)
THEOREM LookupsFindTheChain == Spec => []ChainOnDisk
  <1>1. RootInv /\ LookupInv => ChainOnDisk
    <2> SUFFICES ASSUME RootInv, LookupInv, AtRest, NEW i \in DOMAIN node.chain
                 PROVE  OnDisk(disk, node.chain[i])
      BY DEF ChainOnDisk
    <2> DEFINE b == node.chain[i]
    <2>1. IsChain(node.chain) /\ disk.state = node.chain /\ Kept(disk, disk.state)
      BY DEF RootInv, Running, LookupInv, AtRest
    <2>2. Stored(disk, b) /\ HashInv(disk)
      BY <2>1 DEF Kept, IsChain, LookupInv
    <2> HIDE DEF b
    <2>3. BlockByHash(disk, b) = b
      BY <2>2 DEF Stored, HashInv, BlockByHash
    <2>4. \A t \in b.txs : GetTx(disk, t) = b.height
      BY <2>2 DEF Stored, GetTx, Holds
    <2> QED BY <2>2, <2>3, <2>4 DEF OnDisk, Stored, b
  <1> QED BY <1>1, RootInvInit, RootInvStep, LookupInvInit, LookupInvStep, PTL DEF Spec

-----------------------------------------------------------------------------
(* What an explorer lists. *)

(* The latest blocks, from the tip down, are the chain. *)
LEMMA LatestAreTheChain ==
    ASSUME NEW d, NEW c, IsChain(c), c # <<>>,
           \A i \in 1..Len(c) : GetBlock(d, c[i].height) = c[i]
    PROVE  LatestBlocks(d, Len(c) - 1) = Reverse(c)
  <1> DEFINE n     == Len(c)
             tip   == n - 1
             found == {k \in 0..(tip + 1) : \A i \in 0..(k - 1) : GetBlock(d, tip - i) # NoBlock}
             count == CHOOSE k \in found : \A j \in found : j <= k
  <1>1. n \in Nat /\ \A i \in 1..n : c[i].height = i - 1
    BY DEF IsChain
  <1>2. NoBlock.height = -1
    BY DEF NoBlock, NewBlock, NoHeight
  <1>3. \A i \in 1..n : GetBlock(d, i - 1) = c[i]
    BY <1>1
  <1>4. \A i \in 1..n : GetBlock(d, i - 1) # NoBlock
    <2>1. \A i \in 1..n : c[i].height # NoBlock.height
      BY <1>1, <1>2
    <2> QED BY <1>3, <2>1
  <1> HIDE DEF n
  <1>5. n \in found /\ \A j \in found : j <= n
    <2>1. ASSUME NEW i \in 0..(n - 1) PROVE GetBlock(d, tip - i) # NoBlock
      <3>1. n - i \in 1..n /\ (n - i) - 1 = tip - i
        BY <1>1
      <3> QED BY <1>4, <3>1
    <2>2. n \in 0..(tip + 1) /\ \A j \in 0..(tip + 1) : j <= n
      BY <1>1
    <2> HIDE DEF tip
    <2> QED BY <2>1, <2>2
  <1>6. \A k \in found : (\A j \in found : j <= k) => k = n
    BY <1>1, <1>5
  <1>7. count = n
    <2> HIDE DEF found
    <2> QED BY <1>5, <1>6
  <1>8. LatestBlocks(d, tip) = [i \in 1..n |-> GetBlock(d, tip + 1 - i)]
    BY <1>7 DEF LatestBlocks
  <1>9. \A i \in 1..n : GetBlock(d, tip + 1 - i) = c[n - i + 1]
    <2> SUFFICES ASSUME NEW i \in 1..n PROVE GetBlock(d, tip + 1 - i) = c[n - i + 1]
      OBVIOUS
    <2>1. n - i + 1 \in 1..n /\ (n - i + 1) - 1 = tip + 1 - i
      BY <1>1
    <2> QED BY <1>3, <2>1
  <1> QED BY <1>8, <1>9 DEF Reverse, n

(* A page with room for all the entries of an address cuts none off. *)
OnePage(a) ==
    LET refs == {r \in disk.addrTxs : r[1] = a}
    IN  IsFiniteSet(refs) /\ Cardinality(refs) <= 500

(* It has what the block of an entry still holds. *)
LEMMA PageHolds ==
    ASSUME NEW a, OnePage(a), NEW h \in Int, NEW t \in Txs, <<a, h, t>> \in disk.addrTxs,
           Holds(disk, h, t)
    PROVE  <<a, h, t>> \in AddressTxs(disk, a, 500, 0)
  <1> DEFINE r     == <<a, h, t>>
             refs  == {x \in disk.addrTxs : x[1] = a}
             above == {x \in refs : Later(x, r)}
  <1>1. ~Later(r, r)
    BY TransactionsOrdered DEF Later
  <1>2. r \in refs
    OBVIOUS
  <1>3. IsFiniteSet(refs) /\ Cardinality(refs) \in Nat /\ Cardinality(refs) <= 500
    BY FS_CardinalityType DEF OnePage
  <1> HIDE DEF r
  <1>4. above \subseteq refs /\ above # refs
    BY <1>1, <1>2
  <1>5. Cardinality(above) \in Nat /\ Cardinality(above) < Cardinality(refs)
    <2> HIDE DEF above, refs
    <2> QED BY <1>3, <1>4, FS_Subset, FS_CardinalityType
  <1>6. Cardinality(above) < 500
    BY <1>3, <1>5
  <1>7. {x \in disk.addrTxs : x[1] = a /\ (0 = 0 \/ x[2] < 0)} = refs
    OBVIOUS
  <1>8. Holds(disk, r[2], r[3])
    BY DEF r
  <1>9. r \in {x \in {y \in refs : Cardinality({s \in refs : Later(s, y)}) < 500} :
                  Holds(disk, x[2], x[3])}
    BY <1>2, <1>6, <1>8
  <1>10. r \in AddressTxs(disk, a, 500, 0)
    BY <1>7, <1>9 DEF AddressTxs
  <1> QED BY <1>10 DEF r

(* As long as no history fills a page, an explorer lists the whole chain,  *)
(* and of every address all that concerns it (AddressTxs, store.go).       *)
THEOREM ListingsAreTheChain ==
    Spec => []((\A a \in Addrs : OnePage(a)) => ListedOnDisk)
  <1>1. RootInv /\ LookupInv => ((\A a \in Addrs : OnePage(a)) => ListedOnDisk)
    <2> SUFFICES ASSUME RootInv, LookupInv, \A a \in Addrs : OnePage(a), AtRest
                 PROVE  ListedOnDisk
      BY DEF ListedOnDisk
    <2> DEFINE c == node.chain
    <2>1. IsChain(c) /\ c # <<>> /\ disk.state = c /\ Kept(disk, disk.state)
      BY DEF RootInv, Running, LookupInv, AtRest
    <2>2. /\ Len(c) \in Nat /\ DOMAIN c = 1..Len(c)
          /\ \A i \in 1..Len(c) : c[i] \in Blocks /\ Stored(disk, c[i])
      BY <2>1 DEF Kept, IsChain
    <2>3. \A i \in 1..Len(c) : GetBlock(disk, c[i].height) = c[i]
      BY <2>2 DEF Stored
    <2>4. LatestBlocks(disk, Tip) = Reverse(c)
      <3> HIDE DEF c
      <3>1. LatestBlocks(disk, Len(c) - 1) = Reverse(c)
        BY <2>1, <2>3, LatestAreTheChain
      <3> QED BY <3>1 DEF Tip, c
    <2>5. ASSUME NEW i \in 1..Len(c), NEW t \in c[i].txs, NEW a \in Addrs, a \in TxAddrs[t]
          PROVE  <<a, c[i].height, t>> \in AddressTxs(disk, a, 500, 0)
      <3> DEFINE b == c[i]
      <3>1. b \in Blocks /\ Stored(disk, b) /\ t \in b.txs
        BY <2>2, <2>5
      <3> HIDE DEF b, c
      <3>2. b.height \in Int /\ t \in Txs
        BY <3>1 DEF Blocks
      <3>3. <<a, b.height, t>> \in disk.addrTxs
        BY <2>5, <3>1 DEF Stored, Entries
      <3>4. Holds(disk, b.height, t)
        BY <3>1 DEF Holds, Stored
      <3>5. <<a, b.height, t>> \in AddressTxs(disk, a, 500, 0)
        BY <3>2, <3>3, <3>4, PageHolds
      <3> QED BY <3>5 DEF b
    <2> HIDE DEF c
    <2>6. \A i \in DOMAIN c : \A t \in c[i].txs, a \in Addrs :
              a \in TxAddrs[t] => <<a, c[i].height, t>> \in AddressTxs(disk, a, 500, 0)
      BY <2>2, <2>5
    <2>7. \A i \in DOMAIN c : \A t \in c[i].txs, a \in Addrs :
              a \in TxAddrs[t] => <<a, c[i].height, t>>
                                     \in [x \in Addrs |-> AddressTxs(disk, x, 500, 0)][a]
      BY <2>6
    <2> QED BY <2>4, <2>7 DEF ListedOnDisk, c
  <1> QED BY <1>1, RootInvInit, RootInvStep, LookupInvInit, LookupInvStep, PTL DEF Spec

-----------------------------------------------------------------------------
(***************************************************************************)
(* The tree.                                                               *)
(***************************************************************************)
Bits == {0, 1}

Values == LeafValues \cup {Tr!Absent}

Paths(n) == [1..n -> Bits]

TreePaths == UNION {Paths(n) : n \in 0..TreeDepth}

Beginning(p, n) == SubSeq(p, 1, n)

(* The beginning of a path. *)
LEMMA Beginnings ==
    ASSUME NEW n \in Nat, NEW p \in Paths(n), NEW m \in 0..n
    PROVE  /\ Len(p) = n
           /\ Beginning(p, m) \in Paths(m) /\ Len(Beginning(p, m)) = m
           /\ \A i \in 1..m : Beginning(p, m)[i] = p[i]
           /\ m = n => Beginning(p, m) = p
           /\ m = 0 => Beginning(p, m) = <<>>
  <1>1. p \in Seq(Bits) /\ Len(p) = n
    <2>1. p \in Seq(Bits) /\ DOMAIN p = 1..n
      BY DEF Paths
    <2> QED BY <2>1, LenProperties
  <1> DEFINE q == SubSeq(p, 1, m)
  <1>2. q \in Seq(Bits) /\ Len(q) = m /\ \A i \in 1..m : q[i] = p[i]
    BY <1>1, SubSeqProperties
  <1> HIDE DEF q
  <1>3. q \in Paths(m)
    BY <1>2, LenProperties DEF Paths
  <1>4. m = n => q = p
    BY <1>2, <1>1, <1>3 DEF Paths
  <1>5. m = 0 => q = <<>>
    BY <1>2, EmptySeq
  <1> QED BY <1>1, <1>2, <1>3, <1>4, <1>5 DEF q, Beginning

(* A path with one more bit. *)
LEMMA OneMore ==
    ASSUME NEW n \in Nat, NEW p \in Paths(n), NEW b \in Bits
    PROVE  /\ Append(p, b) \in Paths(n + 1) /\ Len(Append(p, b)) = n + 1
           /\ Append(p, b)[n + 1] = b /\ \A i \in 1..n : Append(p, b)[i] = p[i]
  <1>1. p \in Seq(Bits) /\ Len(p) = n
    <2>1. p \in Seq(Bits) /\ DOMAIN p = 1..n
      BY DEF Paths
    <2> QED BY <2>1, LenProperties
  <1> DEFINE q == Append(p, b)
  <1>2. q \in Seq(Bits) /\ Len(q) = n + 1 /\ q[n + 1] = b /\ \A i \in 1..n : q[i] = p[i]
    BY <1>1, AppendProperties
  <1> HIDE DEF q
  <1>3. q \in Paths(n + 1)
    BY <1>2, LenProperties DEF Paths
  <1> QED BY <1>2, <1>3 DEF q

(* A beginning is the one before it and a bit more, and no other. *)
LEMMA Extends ==
    ASSUME NEW n \in Nat, NEW p \in Paths(n), NEW m \in 0..(n - 1)
    PROVE  /\ Beginning(p, m + 1) = Append(Beginning(p, m), p[m + 1])
           /\ p[m + 1] \in Bits
           /\ \A q \in Paths(m), b \in Bits :
                 Append(q, b) = Beginning(p, m + 1) => q = Beginning(p, m) /\ b = p[m + 1]
  <1>1. m \in Nat /\ m \in 0..n /\ m + 1 \in 0..n /\ m + 1 \in Nat /\ m + 1 \in 1..n
    OBVIOUS
  <1>2. p[m + 1] \in Bits
    BY <1>1 DEF Paths
  <1> DEFINE x == Beginning(p, m)
             y == Beginning(p, m + 1)
  <1>3. x \in Paths(m) /\ \A i \in 1..m : x[i] = p[i]
    BY <1>1, Beginnings
  <1>4. y \in Paths(m + 1) /\ \A i \in 1..(m + 1) : y[i] = p[i]
    BY <1>1, Beginnings
  <1> HIDE DEF x, y
  <1> DEFINE z == Append(x, p[m + 1])
  <1>5. z \in Paths(m + 1) /\ z[m + 1] = p[m + 1] /\ \A i \in 1..m : z[i] = x[i]
    BY <1>1, <1>2, <1>3, OneMore
  <1> HIDE DEF z
  <1>6. y = z
    <2>1. \A i \in 1..(m + 1) : y[i] = z[i]
      BY <1>1, <1>3, <1>4, <1>5
    <2> QED BY <2>1, <1>4, <1>5 DEF Paths
  <1>7. ASSUME NEW q \in Paths(m), NEW b \in Bits, Append(q, b) = y
        PROVE  q = x /\ b = p[m + 1]
    <2> DEFINE a == Append(q, b)
    <2>1. a[m + 1] = b /\ \A i \in 1..m : a[i] = q[i]
      BY <1>1, OneMore
    <2>2. a = y
      BY <1>7
    <2> HIDE DEF a
    <2>3. b = p[m + 1]
      BY <2>1, <2>2, <1>1, <1>4
    <2>4. \A i \in 1..m : q[i] = x[i]
      BY <2>1, <2>2, <1>1, <1>3, <1>4
    <2>5. q = x
      BY <2>4, <1>3 DEF Paths
    <2> QED BY <2>3, <2>5
  <1> QED BY <1>2, <1>6, <1>7 DEF x, y, z

(* What is assumed of the paths of keys. *)
LEMMA KeyPaths ==
    /\ TreeDepth \in Nat
    /\ \A k \in DOMAIN Path : Path[k] \in Paths(TreeDepth)
    /\ \A k, l \in DOMAIN Path : Path[k] = Path[l] => k = l
  <1>1. ASSUME NEW k \in DOMAIN Path PROVE Path[k] \in Paths(TreeDepth)
    <2>1. Path[k] \in Seq(Bits) /\ Len(Path[k]) = TreeDepth
      BY PathsTyped DEF Bits
    <2> QED BY <2>1, LenProperties DEF Paths
  <1> QED BY <1>1, PathsTyped

(* Hashes are the terms they are made of. *)
LEMMA Terms ==
    /\ \A a, b, c, d : Tr!Hash(a, b) = Tr!Hash(c, d) => a = c /\ b = d
    /\ \A v : Tr!LeafOf(v) = Tr!EmptyLeaf <=> v = Tr!Absent
    /\ \A v, w : Tr!LeafOf(v) = Tr!LeafOf(w) => v = w
  <1>1. \A a, b, c, d : Tr!Hash(a, b) = Tr!Hash(c, d) => a = c /\ b = d
    BY DEF Tr!Hash
  <1>2. \A v, w : <<v>> = <<w>> => v = w
    OBVIOUS
  <1>3. \A v : <<v>> # <<>>
    <2>1. \A v : Len(<<v>>) = 1 /\ Len(<<>>) = 0
      OBVIOUS
    <2> QED BY <2>1
  <1>4. \A v : Tr!LeafOf(v) = Tr!EmptyLeaf <=> v = Tr!Absent
    BY <1>3 DEF Tr!LeafOf, Tr!EmptyLeaf
  <1>5. \A v, w : Tr!LeafOf(v) = Tr!LeafOf(w) => v = w
    BY <1>2, <1>3 DEF Tr!LeafOf, Tr!EmptyLeaf
  <1> QED BY <1>1, <1>4, <1>5

-----------------------------------------------------------------------------
(* The recursive functions of the tree. *)
Defaults == INSTANCE Folding WITH Step <- LAMBDA c, d, s, x : Tr!Hash(s, s)

Leveling == INSTANCE Folding WITH
    Step <- LAMBDA c, d, s, x :
        [p \in [1..(TreeDepth - x) -> {0, 1}] |-> Tr!Hash(s[Append(p, 0)], s[Append(p, 1)])]

Climbing == INSTANCE Folding WITH
    Step <- LAMBDA c, d, s, x : Tr!Ancestor(s, SubSeq(c, 1, x))

Checking == INSTANCE Folding WITH
    Step <- LAMBDA c, d, s, x :
        IF Path[c.key][TreeDepth + 1 - x] = 0
        THEN Tr!Hash(s, c.siblings[x]) ELSE Tr!Hash(c.siblings[x], s)

Inserting == INSTANCE Folding WITH
    Step <- LAMBDA c, d, s, x : Tr!TreeUpdate(s, x, c[x])

(* The hashes of empty trees. *)
LEMMA DefaultHashes ==
    LET dh == Tr!defaultHashes
    IN  /\ dh[TreeDepth] = Tr!EmptyLeaf
        /\ \A n \in 0..(TreeDepth - 1) : dh[n] = Tr!Hash(dh[n + 1], dh[n + 1])
  <1> DEFINE dh == CHOOSE g : g = [n \in 0..TreeDepth |-> IF n = TreeDepth THEN Tr!EmptyLeaf
                                                          ELSE Tr!Hash(g[n + 1], g[n + 1])]
  <1>1. Tr!defaultHashes = dh
    BY DEF Tr!defaultHashes
  <1>2. PICK g : Defaults!Falls(g, 0, 0, Tr!EmptyLeaf, TreeDepth)
    <2>1. TreeDepth \in Nat
      BY KeyPaths
    <2> QED BY <2>1, Defaults!Falling
  <1>3. g = [n \in 0..TreeDepth |-> IF n = TreeDepth THEN Tr!EmptyLeaf
                                    ELSE Tr!Hash(g[n + 1], g[n + 1])]
    BY <1>2 DEF Defaults!Falls
  <1>4. dh = [n \in 0..TreeDepth |-> IF n = TreeDepth THEN Tr!EmptyLeaf
                                     ELSE Tr!Hash(dh[n + 1], dh[n + 1])]
    BY <1>3
  <1> HIDE DEF dh
  <1>5. \A n \in 0..(TreeDepth - 1) : n \in 0..TreeDepth /\ n # TreeDepth
    BY KeyPaths
  <1> QED BY <1>1, <1>4, <1>5, KeyPaths

-----------------------------------------------------------------------------
(* The hash of all leaves below a prefix, when the entries are e. *)
LeafAt(e, p) ==
    IF {k \in DOMAIN Path : Path[k] = p} = {} THEN Tr!EmptyLeaf
    ELSE Tr!LeafOf(e[CHOOSE k \in {l \in DOMAIN Path : Path[l] = p} : TRUE])

Level(e, g, n) ==
    [p \in [1..(TreeDepth - n) -> {0, 1}] |->
        IF n = 0 THEN LeafAt(e, p)
        ELSE Tr!Hash(g[n - 1][Append(p, 0)], g[n - 1][Append(p, 1)])]

Levels(e) == CHOOSE g : g = [n \in 0..TreeDepth |-> Level(e, g, n)]

Under(e, p) == Levels(e)[TreeDepth - Len(p)][p]

(* The reference is that for the entries there are. *)
LEMMA BelowIsUnder == \A p : Tr!Below(p) = Under(entries, p)
  BY DEF Tr!Below, Under, Levels, Level, LeafAt, Tr!Keys

(* An entry is the only one at its path. *)
LEMMA LeavesAt ==
    ASSUME NEW e
    PROVE  /\ \A k \in DOMAIN Path : LeafAt(e, Path[k]) = Tr!LeafOf(e[k])
           /\ \A p : (\A k \in DOMAIN Path : Path[k] # p) => LeafAt(e, p) = Tr!EmptyLeaf
  <1>1. ASSUME NEW k \in DOMAIN Path PROVE LeafAt(e, Path[k]) = Tr!LeafOf(e[k])
    <2> DEFINE S == {l \in DOMAIN Path : Path[l] = Path[k]}
    <2>1. S = {k}
      BY KeyPaths
    <2>2. (CHOOSE l \in S : TRUE) = k
      BY <2>1
    <2> QED BY <2>1, <2>2 DEF LeafAt
  <1>2. ASSUME NEW p, \A k \in DOMAIN Path : Path[k] # p PROVE LeafAt(e, p) = Tr!EmptyLeaf
    BY <1>2 DEF LeafAt
  <1> QED BY <1>1, <1>2

(* A node is the hash of its two children. *)
LEMMA Children ==
    ASSUME NEW e
    PROVE  /\ \A p \in Paths(TreeDepth) : Under(e, p) = LeafAt(e, p)
           /\ \A n \in 0..(TreeDepth - 1) : \A p \in Paths(n) :
                 Under(e, p) = Tr!Hash(Under(e, Append(p, 0)), Under(e, Append(p, 1)))
  <1> DEFINE base == [p \in [1..TreeDepth -> {0, 1}] |-> LeafAt(e, p)]
             lv == Levels(e)
  <1>0. TreeDepth \in Nat /\ TreeDepth - 0 = TreeDepth
    BY KeyPaths
  <1>1. PICK g : Leveling!Rises(g, 0, 0, base, TreeDepth)
    BY <1>0, Leveling!Rising
  <1>2. g = [n \in 0..TreeDepth |-> IF n = 0 THEN base ELSE
               [p \in [1..(TreeDepth - n) -> {0, 1}] |->
                   Tr!Hash(g[n - 1][Append(p, 0)], g[n - 1][Append(p, 1)])]]
    BY <1>1 DEF Leveling!Rises
  <1>3. ASSUME NEW n \in 0..TreeDepth PROVE g[n] = Level(e, g, n)
    <2>1. CASE n = 0
      BY <1>0, <1>2, <2>1 DEF Level
    <2>2. CASE n # 0
      BY ZenonT(40), <1>2, <2>2 DEF Level
    <2> QED BY <2>1, <2>2
  <1>4. g = [n \in 0..TreeDepth |-> Level(e, g, n)]
    <2>1. DOMAIN g = 0..TreeDepth /\ g = [n \in DOMAIN g |-> g[n]]
      BY <1>2
    <2> QED BY <1>3, <2>1
  <1>5. lv = [n \in 0..TreeDepth |-> Level(e, lv, n)]
    BY <1>4 DEF Levels
  <1> HIDE DEF lv
  <1>6. ASSUME NEW n \in 0..TreeDepth, NEW p \in Paths(n)
        PROVE  /\ Under(e, p) = lv[TreeDepth - n][p]
               /\ lv[TreeDepth - n][p] =
                    IF TreeDepth - n = 0 THEN LeafAt(e, p)
                    ELSE Tr!Hash(lv[TreeDepth - n - 1][Append(p, 0)], lv[TreeDepth - n - 1][Append(p, 1)])
    <2>1. Len(p) = n
      <3>1. n \in Nat /\ 0 \in 0..n
        BY <1>0
      <3> QED BY <3>1, Beginnings
    <2> DEFINE m == TreeDepth - n
    <2>2. m \in 0..TreeDepth /\ TreeDepth - m = n
      BY <1>0
    <2>3. Under(e, p) = lv[m][p]
      BY <2>1 DEF Under, lv
    <2> HIDE DEF m
    <2>4. lv[m] = Level(e, lv, m)
      BY <1>5, <2>2
    <2>5. p \in [1..(TreeDepth - m) -> {0, 1}]
      BY <2>2 DEF Paths, Bits
    <2>6. lv[m][p] = IF m = 0 THEN LeafAt(e, p)
                     ELSE Tr!Hash(lv[m - 1][Append(p, 0)], lv[m - 1][Append(p, 1)])
      BY <2>4, <2>5 DEF Level
    <2> QED BY <2>3, <2>6 DEF m
  <1>7. ASSUME NEW p \in Paths(TreeDepth) PROVE Under(e, p) = LeafAt(e, p)
    <2>1. TreeDepth \in 0..TreeDepth /\ TreeDepth - TreeDepth = 0
      BY <1>0
    <2> QED BY <1>6, <2>1
  <1>8. ASSUME NEW n \in 0..(TreeDepth - 1), NEW p \in Paths(n)
        PROVE  Under(e, p) = Tr!Hash(Under(e, Append(p, 0)), Under(e, Append(p, 1)))
    <2>1. n \in Nat /\ n \in 0..TreeDepth /\ n + 1 \in 0..TreeDepth /\ TreeDepth - n # 0
      BY <1>0
    <2>2. TreeDepth - (n + 1) = TreeDepth - n - 1
      BY <1>0
    <2>3. Append(p, 0) \in Paths(n + 1) /\ Append(p, 1) \in Paths(n + 1)
      BY <2>1, OneMore DEF Bits
    <2> DEFINE x == Append(p, 0)
               y == Append(p, 1)
               m == n + 1
    <2>4. Under(e, x) = lv[TreeDepth - m][x] /\ Under(e, y) = lv[TreeDepth - m][y]
      <3> x \in Paths(m) /\ y \in Paths(m) /\ m \in 0..TreeDepth
        BY <2>1, <2>3
      <3> HIDE DEF x, y, m
      <3> QED BY <1>6
    <2>5. Under(e, p) = Tr!Hash(lv[TreeDepth - n - 1][x], lv[TreeDepth - n - 1][y])
      BY <1>6, <2>1
    <2>6. TreeDepth - m = TreeDepth - n - 1
      BY <2>2
    <2> HIDE DEF x, y, m
    <2>7. Under(e, p) = Tr!Hash(Under(e, x), Under(e, y))
      BY <2>4, <2>5, <2>6
    <2> QED BY <2>7 DEF x, y
  <1> QED BY <1>7, <1>8

(* A tree hashes to that of an empty one exactly if it is empty. *)
LEMMA Emptiness ==
    ASSUME NEW e, NEW n \in 0..TreeDepth, NEW p \in Paths(n)
    PROVE  Under(e, p) = Tr!defaultHashes[n] <=>
             \A k \in DOMAIN Path : Beginning(Path[k], n) = p => e[k] = Tr!Absent
  <1> DEFINE dh == Tr!defaultHashes
             Empty(q, m) == \A k \in DOMAIN Path : Beginning(Path[k], m) = q => e[k] = Tr!Absent
             T == {j \in Nat : \A m \in 0..TreeDepth : m = TreeDepth - j =>
                      \A q \in Paths(m) : Under(e, q) = dh[m] <=> Empty(q, m)}
  <1>0. TreeDepth \in Nat /\ TreeDepth \in 0..TreeDepth
    BY KeyPaths
  <1>1. ASSUME NEW q \in Paths(TreeDepth)
        PROVE  Under(e, q) = dh[TreeDepth] <=> Empty(q, TreeDepth)
    <2>1. \A k \in DOMAIN Path : Beginning(Path[k], TreeDepth) = Path[k]
      BY <1>0, KeyPaths, Beginnings
    <2>2. Under(e, q) = LeafAt(e, q) /\ dh[TreeDepth] = Tr!EmptyLeaf
      BY Children, DefaultHashes
    <2>3. CASE \E k \in DOMAIN Path : Path[k] = q
      <3>1. PICK k \in DOMAIN Path : Path[k] = q
        BY <2>3
      <3>2. LeafAt(e, q) = Tr!LeafOf(e[k])
        BY <3>1, LeavesAt
      <3>3. Empty(q, TreeDepth) <=> e[k] = Tr!Absent
        BY <2>1, <3>1, KeyPaths
      <3>4. Tr!LeafOf(e[k]) = Tr!EmptyLeaf <=> e[k] = Tr!Absent
        BY Terms
      <3> HIDE DEF Empty, dh
      <3> QED BY <2>2, <3>2, <3>3, <3>4
    <2>4. CASE \A k \in DOMAIN Path : Path[k] # q
      <3>1. LeafAt(e, q) = Tr!EmptyLeaf
        BY <2>4, LeavesAt
      <3> QED BY <2>1, <2>2, <2>4, <3>1
    <2> QED BY <2>3, <2>4
  <1>2. 0 \in T
    <2>1. \A m \in 0..TreeDepth : m = TreeDepth - 0 => m = TreeDepth
      BY <1>0
    <2> HIDE DEF Empty, dh
    <2> QED BY <1>1, <2>1
  <1>3. ASSUME NEW j \in T PROVE j + 1 \in T
    <2>1. ASSUME NEW m \in 0..TreeDepth, m = TreeDepth - (j + 1), NEW q \in Paths(m)
          PROVE  Under(e, q) = dh[m] <=> Empty(q, m)
      <3>1. m + 1 \in 0..TreeDepth /\ m + 1 = TreeDepth - j /\ m \in 0..(TreeDepth - 1) /\ m \in Nat
        BY <2>1, <1>0
      <3>2. Append(q, 0) \in Paths(m + 1) /\ Append(q, 1) \in Paths(m + 1)
        BY <3>1, OneMore DEF Bits
      <3>3. \A r \in Paths(m + 1) : Under(e, r) = dh[m + 1] <=> Empty(r, m + 1)
        <4> HIDE DEF dh, Empty
        <4> QED BY <3>1
      <3>4. /\ Under(e, Append(q, 0)) = dh[m + 1] <=> Empty(Append(q, 0), m + 1)
            /\ Under(e, Append(q, 1)) = dh[m + 1] <=> Empty(Append(q, 1), m + 1)
        <4> HIDE DEF dh, Empty
        <4> QED BY <3>2, <3>3
      <3>5. Under(e, q) = Tr!Hash(Under(e, Append(q, 0)), Under(e, Append(q, 1)))
        BY <3>1, Children
      <3>6. dh[m] = Tr!Hash(dh[m + 1], dh[m + 1])
        BY <3>1, DefaultHashes
      <3>7. Under(e, q) = dh[m] <=> /\ Under(e, Append(q, 0)) = dh[m + 1]
                                    /\ Under(e, Append(q, 1)) = dh[m + 1]
        <4> HIDE DEF dh
        <4> QED BY <3>5, <3>6, Terms
      <3>8. Empty(q, m) <=> Empty(Append(q, 0), m + 1) /\ Empty(Append(q, 1), m + 1)
        <4>1. ASSUME NEW k \in DOMAIN Path
              PROVE  Beginning(Path[k], m) = q <=> \/ Beginning(Path[k], m + 1) = Append(q, 0)
                                                  \/ Beginning(Path[k], m + 1) = Append(q, 1)
          <5>1. /\ Beginning(Path[k], m + 1) = Append(Beginning(Path[k], m), Path[k][m + 1])
                /\ Path[k][m + 1] \in Bits
                /\ \A r \in Paths(m), b \in Bits :
                      Append(r, b) = Beginning(Path[k], m + 1) => r = Beginning(Path[k], m)
            BY <1>0, <3>1, KeyPaths, Extends
          <5> QED BY <5>1 DEF Bits
        <4> QED BY <4>1
      <3> HIDE DEF dh, Empty
      <3> QED BY <3>4, <3>7, <3>8
    <2>2. j + 1 \in Nat
      OBVIOUS
    <2> HIDE DEF dh, Empty
    <2> QED BY <2>1, <2>2
  <1>4. T = Nat
    <2>1. T \subseteq Nat
      OBVIOUS
    <2> HIDE DEF T
    <2> QED BY <1>2, <1>3, <2>1, Defaults!NaturalSet
  <1>5. PICK j \in Nat : n = TreeDepth - j
    <2>1. TreeDepth - n \in Nat /\ n = TreeDepth - (TreeDepth - n)
      BY <1>0
    <2> QED BY <2>1
  <1>6. j \in T
    BY <1>4
  <1>7. Under(e, p) = dh[n] <=> Empty(p, n)
    <2> HIDE DEF dh, Empty
    <2> QED BY <1>5, <1>6
  <1> QED BY <1>7

(* An entry counts for what it is below only. *)
LEMMA Elsewhere ==
    ASSUME NEW e, NEW f, NEW k \in DOMAIN Path, \A l \in DOMAIN Path : l # k => e[l] = f[l],
           NEW n \in 0..TreeDepth, NEW p \in Paths(n), p # Beginning(Path[k], n)
    PROVE  Under(e, p) = Under(f, p)
  <1> DEFINE T == {j \in Nat : \A m \in 0..TreeDepth : m = TreeDepth - j =>
                      \A q \in Paths(m) : q # Beginning(Path[k], m) => Under(e, q) = Under(f, q)}
  <1>0. TreeDepth \in Nat /\ TreeDepth \in 0..TreeDepth
    BY KeyPaths
  <1>1. ASSUME NEW q \in Paths(TreeDepth), q # Beginning(Path[k], TreeDepth)
        PROVE  Under(e, q) = Under(f, q)
    <2>1. q # Path[k]
      BY <1>0, <1>1, KeyPaths, Beginnings
    <2>2. LeafAt(e, q) = LeafAt(f, q)
      <3>1. CASE \E l \in DOMAIN Path : Path[l] = q
        <4>1. PICK l \in DOMAIN Path : Path[l] = q
          BY <3>1
        <4>2. LeafAt(e, q) = Tr!LeafOf(e[l]) /\ LeafAt(f, q) = Tr!LeafOf(f[l])
          BY <4>1, LeavesAt
        <4> QED BY <2>1, <4>1, <4>2
      <3>2. CASE \A l \in DOMAIN Path : Path[l] # q
        BY <3>2, LeavesAt
      <3> QED BY <3>1, <3>2
    <2> QED BY <2>2, Children
  <1>2. 0 \in T
    <2>1. \A m \in 0..TreeDepth : m = TreeDepth - 0 => m = TreeDepth
      BY <1>0
    <2> QED BY <1>1, <2>1
  <1>3. ASSUME NEW j \in T PROVE j + 1 \in T
    <2>1. ASSUME NEW m \in 0..TreeDepth, m = TreeDepth - (j + 1), NEW q \in Paths(m),
                 q # Beginning(Path[k], m)
          PROVE  Under(e, q) = Under(f, q)
      <3>1. m + 1 \in 0..TreeDepth /\ m + 1 = TreeDepth - j /\ m \in 0..(TreeDepth - 1) /\ m \in Nat
        BY <2>1, <1>0
      <3>2. Append(q, 0) \in Paths(m + 1) /\ Append(q, 1) \in Paths(m + 1)
        BY <3>1, OneMore DEF Bits
      <3>3. \A r \in Paths(m + 1) : r # Beginning(Path[k], m + 1) => Under(e, r) = Under(f, r)
        BY <3>1
      <3>4. Append(q, 0) # Beginning(Path[k], m + 1) /\ Append(q, 1) # Beginning(Path[k], m + 1)
        <4>1. \A r \in Paths(m), b \in Bits :
                 Append(r, b) = Beginning(Path[k], m + 1) => r = Beginning(Path[k], m)
          BY <1>0, <3>1, KeyPaths, Extends
        <4> QED BY <4>1, <2>1 DEF Bits
      <3>5. Under(e, Append(q, 0)) = Under(f, Append(q, 0)) /\ Under(e, Append(q, 1)) = Under(f, Append(q, 1))
        BY <3>2, <3>3, <3>4
      <3>6. /\ Under(e, q) = Tr!Hash(Under(e, Append(q, 0)), Under(e, Append(q, 1)))
            /\ Under(f, q) = Tr!Hash(Under(f, Append(q, 0)), Under(f, Append(q, 1)))
        BY <3>1, Children
      <3> QED BY <3>5, <3>6
    <2>2. j + 1 \in Nat
      OBVIOUS
    <2> QED BY <2>1, <2>2
  <1>4. T = Nat
    <2>1. T \subseteq Nat
      OBVIOUS
    <2> HIDE DEF T
    <2> QED BY <1>2, <1>3, <2>1, Defaults!NaturalSet
  <1>5. PICK j \in Nat : n = TreeDepth - j
    <2>1. TreeDepth - n \in Nat /\ n = TreeDepth - (TreeDepth - n)
      BY <1>0
    <2> QED BY <2>1
  <1>6. j \in T
    BY <1>4
  <1> QED BY <1>5, <1>6

-----------------------------------------------------------------------------
(* A tree keeps no hash of an empty one. *)
Sparse(t) ==
    DOMAIN t \subseteq TreePaths /\ \A p \in DOMAIN t : t[p] # Tr!defaultHashes[Len(p)]

(* A tree that shows the entries e. *)
Shows(t, e) ==
    Sparse(t) /\ \A n \in 0..TreeDepth : \A p \in Paths(n) : Tr!nodeHash(t, p) = Under(e, p)

(* Half way up from a new leaf: above it the hashes are the old ones still. *)
Climbed(t, path, m, e, f) ==
    /\ Sparse(t)
    /\ \A n \in 0..TreeDepth : \A p \in Paths(n) :
          /\ n < m /\ p = Beginning(path, n) => Tr!nodeHash(t, p) = Under(e, p)
          /\ ~(n < m /\ p = Beginning(path, n)) => Tr!nodeHash(t, p) = Under(f, p)

(* A path of the tree has its length. *)
LEMMA TreePathsLen ==
    ASSUME NEW n \in 0..TreeDepth, NEW p \in Paths(n)
    PROVE  p \in TreePaths /\ Len(p) = n
  <1>1. n \in Nat /\ 0 \in 0..n
    BY KeyPaths
  <1>2. Len(p) = n
    BY <1>1, Beginnings
  <1> QED BY <1>2 DEF TreePaths

(* One hash is stored, and no other changes. *)
LEMMA OneStored ==
    ASSUME NEW t, Sparse(t), NEW n \in 0..TreeDepth, NEW p \in Paths(n), NEW h
    PROVE  /\ Sparse(Tr!Store(t, p, h))
           /\ Tr!nodeHash(Tr!Store(t, p, h), p) = h
           /\ \A q : q # p => Tr!nodeHash(Tr!Store(t, p, h), q) = Tr!nodeHash(t, q)
  <1>1. p \in TreePaths
    BY TreePathsLen
  <1>2. CASE h = Tr!defaultHashes[Len(p)]
    <2>1. Tr!Store(t, p, h) = [q \in DOMAIN t \ {p} |-> t[q]]
      BY <1>2 DEF Tr!Store
    <2> QED BY <1>1, <1>2, <2>1 DEF Sparse, Tr!nodeHash
  <1>3. CASE h # Tr!defaultHashes[Len(p)]
    <2>1. Tr!Store(t, p, h) = [q \in DOMAIN t \cup {p} |-> IF q = p THEN h ELSE t[q]]
      BY <1>3 DEF Tr!Store
    <2> QED BY <1>1, <1>3, <2>1 DEF Sparse, Tr!nodeHash
  <1> QED BY <1>2, <1>3

(* One step up. *)
LEMMA ClimbOne ==
    ASSUME NEW k \in DOMAIN Path, NEW e, NEW f,
           \A l \in DOMAIN Path : l # k => e[l] = f[l],
           NEW m \in 0..(TreeDepth - 1), NEW t, Climbed(t, Path[k], m + 1, e, f)
    PROVE  Climbed(Tr!Ancestor(t, Beginning(Path[k], m)), Path[k], m, e, f)
  <1> DEFINE p == Beginning(Path[k], m)
             h == Tr!Hash(Tr!nodeHash(t, Append(p, 0)), Tr!nodeHash(t, Append(p, 1)))
             u == Tr!Store(t, p, h)
  <1>0. m \in Nat /\ m \in 0..TreeDepth /\ m + 1 \in 0..TreeDepth /\ TreeDepth \in Nat
    BY KeyPaths
  <1>1. p \in Paths(m)
    BY <1>0, KeyPaths, Beginnings
  <1>2. Append(p, 0) \in Paths(m + 1) /\ Append(p, 1) \in Paths(m + 1)
    BY <1>0, <1>1, OneMore DEF Bits
  <1>3. \A q \in Paths(m + 1) : Tr!nodeHash(t, q) = Under(f, q)
    <2>1. ~(m + 1 < m + 1)
      BY <1>0
    <2> QED BY <2>1, <1>0 DEF Climbed
  <1>4. h = Under(f, p)
    <2>1. /\ Tr!nodeHash(t, Append(p, 0)) = Under(f, Append(p, 0))
          /\ Tr!nodeHash(t, Append(p, 1)) = Under(f, Append(p, 1))
      <3> HIDE DEF p
      <3> QED BY <1>2, <1>3
    <2>2. Under(f, p) = Tr!Hash(Under(f, Append(p, 0)), Under(f, Append(p, 1)))
      <3> HIDE DEF p
      <3> QED BY <1>1, Children
    <2> QED BY <2>1, <2>2
  <1>5. Tr!Ancestor(t, p) = u
    BY DEF Tr!Ancestor
  <1> HIDE DEF p, h
  <1>6. /\ Sparse(u) /\ Tr!nodeHash(u, p) = h
        /\ \A q : q # p => Tr!nodeHash(u, q) = Tr!nodeHash(t, q)
    BY <1>0, <1>1, OneStored DEF Climbed
  <1> HIDE DEF u
  <1>7. ASSUME NEW n \in 0..TreeDepth, NEW q \in Paths(n)
        PROVE  /\ n < m /\ q = Beginning(Path[k], n) => Tr!nodeHash(u, q) = Under(e, q)
               /\ ~(n < m /\ q = Beginning(Path[k], n)) => Tr!nodeHash(u, q) = Under(f, q)
    <2>1. CASE q = p
      <3>1. n = m
        BY <2>1, <1>0, <1>1, TreePathsLen
      <3>2. ~(n < m)
        BY <1>0, <3>1
      <3> QED BY <2>1, <3>2, <1>4, <1>6
    <2>2. CASE q # p
      <3>1. Tr!nodeHash(u, q) = Tr!nodeHash(t, q)
        BY <1>6, <2>2
      <3>2. /\ n < m + 1 /\ q = Beginning(Path[k], n) => Tr!nodeHash(t, q) = Under(e, q)
            /\ ~(n < m + 1 /\ q = Beginning(Path[k], n)) => Tr!nodeHash(t, q) = Under(f, q)
        BY DEF Climbed
      <3>3. n < m + 1 /\ q = Beginning(Path[k], n) <=> n < m /\ q = Beginning(Path[k], n)
        <4>1. n = m => q # Beginning(Path[k], n)
          BY <2>2 DEF p
        <4>2. n < m + 1 <=> n < m \/ n = m
          BY <1>0
        <4> QED BY <4>1, <4>2
      <3> QED BY <3>1, <3>2, <3>3
    <2> QED BY <2>1, <2>2
  <1>8. Climbed(u, Path[k], m, e, f)
    BY <1>6, <1>7 DEF Climbed
  <1> QED BY <1>5, <1>8 DEF p

(* All the way up. *)
LEMMA LeafSet ==
    ASSUME NEW k \in DOMAIN Path, NEW e, NEW f,
           \A l \in DOMAIN Path : l # k => e[l] = f[l],
           NEW t, Shows(t, e)
    PROVE  Shows(Tr!setLeaf(t, Path[k], Tr!LeafOf(f[k])), f)
  <1> DEFINE path == Path[k]
             base == Tr!Store(t, path, Tr!LeafOf(f[k]))
             up == CHOOSE g : g = [m \in 0..TreeDepth |-> IF m = TreeDepth THEN base
                                      ELSE Tr!Ancestor(g[m + 1], SubSeq(path, 1, m))]
             T == {j \in Nat : \A m \in 0..TreeDepth : m = TreeDepth - j => Climbed(up[m], path, m, e, f)}
  <1>0. TreeDepth \in Nat /\ TreeDepth \in 0..TreeDepth /\ 0 \in 0..TreeDepth /\ path \in Paths(TreeDepth)
    BY KeyPaths
  <1>1. Tr!setLeaf(t, Path[k], Tr!LeafOf(f[k])) = up[0]
    BY DEF Tr!setLeaf
  <1>2. PICK g : Climbing!Falls(g, path, 0, base, TreeDepth)
    BY <1>0, Climbing!Falling
  <1>3. g = [m \in 0..TreeDepth |-> IF m = TreeDepth THEN base
                ELSE Tr!Ancestor(g[m + 1], SubSeq(path, 1, m))]
    BY <1>2 DEF Climbing!Falls
  <1>4. up = [m \in 0..TreeDepth |-> IF m = TreeDepth THEN base
                 ELSE Tr!Ancestor(up[m + 1], SubSeq(path, 1, m))]
    <2> HIDE DEF base
    <2> QED BY <1>3
  <1> HIDE DEF up, base
  <1>5. Climbed(base, path, TreeDepth, e, f)
    <2>1. /\ Sparse(base) /\ Tr!nodeHash(base, path) = Tr!LeafOf(f[k])
          /\ \A q : q # path => Tr!nodeHash(base, q) = Tr!nodeHash(t, q)
      BY <1>0, OneStored DEF Shows, base
    <2>2. ASSUME NEW n \in 0..TreeDepth, NEW q \in Paths(n)
          PROVE  /\ n < TreeDepth /\ q = Beginning(path, n) => Tr!nodeHash(base, q) = Under(e, q)
                 /\ ~(n < TreeDepth /\ q = Beginning(path, n)) => Tr!nodeHash(base, q) = Under(f, q)
      <3>1. CASE q = path
        <4>1. n = TreeDepth
          BY <1>0, <3>1, TreePathsLen
        <4>2. Under(f, path) = Tr!LeafOf(f[k])
          BY <1>0, Children, LeavesAt
        <4> QED BY <2>1, <3>1, <4>1, <4>2, <1>0
      <3>2. CASE q # path
        <4>1. Tr!nodeHash(base, q) = Under(e, q)
          BY <2>1, <3>2 DEF Shows
        <4>2. q # Beginning(path, n) => Under(e, q) = Under(f, q)
          BY Elsewhere DEF path
        <4>3. n = TreeDepth => q # Beginning(path, n)
          BY <1>0, <3>2, Beginnings
        <4> QED BY <4>1, <4>2, <4>3, <1>0
      <3> QED BY <3>1, <3>2
    <2> QED BY <2>1, <2>2 DEF Climbed
  <1>6. 0 \in T
    <2>1. \A m \in 0..TreeDepth : m = TreeDepth - 0 => m = TreeDepth
      BY <1>0
    <2>2. up[TreeDepth] = base
      BY <1>0, <1>4
    <2> QED BY <1>5, <2>1, <2>2
  <1>7. ASSUME NEW j \in T PROVE j + 1 \in T
    <2>1. ASSUME NEW m \in 0..TreeDepth, m = TreeDepth - (j + 1) PROVE Climbed(up[m], path, m, e, f)
      <3>1. m + 1 \in 0..TreeDepth /\ m + 1 = TreeDepth - j /\ m \in 0..(TreeDepth - 1) /\ m # TreeDepth
        BY <2>1, <1>0
      <3>2. Climbed(up[m + 1], path, m + 1, e, f)
        BY <3>1
      <3>3. up[m] = Tr!Ancestor(up[m + 1], Beginning(path, m))
        BY <1>4, <3>1 DEF Beginning
      <3>4. Climbed(Tr!Ancestor(up[m + 1], Beginning(path, m)), path, m, e, f)
        BY <3>1, <3>2, ClimbOne DEF path
      <3> QED BY <3>3, <3>4
    <2>2. j + 1 \in Nat
      OBVIOUS
    <2> HIDE DEF path
    <2> QED BY <2>1, <2>2
  <1>8. T = Nat
    <2>1. T \subseteq Nat
      OBVIOUS
    <2> HIDE DEF T
    <2> QED BY <1>6, <1>7, <2>1, Defaults!NaturalSet
  <1>9. Climbed(up[0], path, 0, e, f)
    <2>1. TreeDepth \in T /\ 0 = TreeDepth - TreeDepth
      BY <1>8, <1>0
    <2> HIDE DEF path
    <2> QED BY <2>1, <1>0
  <1>10. Shows(up[0], f)
    <2>1. \A n \in 0..TreeDepth : ~(n < 0)
      BY <1>0
    <2> QED BY <1>9, <2>1 DEF Shows, Climbed
  <1> QED BY <1>1, <1>10

-----------------------------------------------------------------------------
(* The tree's operators on finite sets are the library's. *)
LEMMA SameOperators ==
    \A S : Tr!Cardinality(S) = Cardinality(S) /\ Tr!SetToSeqs(S) = SetToSeqs(S)
  <1>1. \A S : Tr!Cardinality(S) = Cardinality(S)
    BY DEF Tr!Cardinality, Cardinality
  <1>2. \A S : Tr!SetToSeqs(S) = SetToSeqs(S)
    BY <1>1 DEF Tr!SetToSeqs, SetToSeqs
  <1> QED BY <1>1, <1>2

(* A new tree shows that there is nothing. *)
LEMMA NewShows ==
    ASSUME NEW e, \A k \in DOMAIN Path : e[k] = Tr!Absent
    PROVE  Shows(Tr!New, e)
  <1>1. DOMAIN Tr!New = {}
    BY DEF Tr!New
  <1>2. ASSUME NEW n \in 0..TreeDepth, NEW p \in Paths(n)
        PROVE  Tr!nodeHash(Tr!New, p) = Under(e, p)
    <2>1. Tr!nodeHash(Tr!New, p) = Tr!defaultHashes[n]
      BY <1>1, TreePathsLen DEF Tr!nodeHash
    <2>2. Under(e, p) = Tr!defaultHashes[n]
      BY Emptiness
    <2> QED BY <2>1, <2>2
  <1> QED BY <1>1, <1>2 DEF Shows, Sparse

(* A tree built anew of all entries, in any order, shows them. *)
LEMMA Rebuilt ==
    ASSUME NEW e \in [DOMAIN Path -> Values], NEW there,
           there = {k \in DOMAIN Path : e[k] # Tr!Absent},
           NEW order \in SetToSeqs(there)
    PROVE  Shows(Inserting!Fold(e, 0, Tr!New, order), e)
  <1> DEFINE n == Cardinality(there)
             upto(i) == [k \in DOMAIN Path |-> IF \E j \in 1..i : order[j] = k THEN e[k] ELSE Tr!Absent]
  <1>1. IsFiniteSet(there) /\ n \in Nat
    <2>1. IsFiniteSet(DOMAIN Path)
      BY PathsTyped
    <2>2. IsFiniteSet(there)
      BY <2>1, FS_Subset
    <2> QED BY <2>2, FS_CardinalityType
  <1>2. /\ order \in [1..n -> there]
        /\ \A i, j \in 1..n : i # j => order[i] # order[j]
    BY DEF SetToSeqs
  <1>3. \A k \in there : \E i \in 1..n : order[i] = k
    <2>1. order \in Injection(1..n, there)
      BY <1>2 DEF Injection, IsInjective
    <2>2. IsFiniteSet(1..n) /\ Cardinality(1..n) = n
      BY <1>1, FS_Interval
    <2>3. order \in Surjection(1..n, there)
      BY <1>1, <2>1, <2>2, FS_Injection
    <2> QED BY <2>3 DEF Surjection
  <1> HIDE DEF n
  <1>4. PICK f : /\ f[0] = Tr!New
                 /\ \A i \in 1..n : f[i] = Tr!TreeUpdate(f[i - 1], order[i], e[order[i]])
                 /\ f[n] = Inserting!Fold(e, 0, Tr!New, order)
    <2>1. DOMAIN order = 1..n
      BY <1>2
    <2>2. Inserting!Traced(e, 0, Tr!New, n, order)
      BY <1>1, <2>1, Inserting!FoldTrace
    <2> QED BY <2>2 DEF Inserting!Traced
  <1> DEFINE T == {i \in Nat : i <= n => Shows(f[i], upto(i))}
  <1>5. 0 \in T
    <2>1. \A k \in DOMAIN Path : upto(0)[k] = Tr!Absent
      OBVIOUS
    <2> HIDE DEF upto
    <2>2. Shows(Tr!New, upto(0))
      BY <2>1, NewShows
    <2> QED BY <2>2, <1>4
  <1>6. ASSUME NEW i \in T PROVE i + 1 \in T
    <2>1. SUFFICES ASSUME i + 1 <= n PROVE Shows(f[i + 1], upto(i + 1))
      OBVIOUS
    <2> DEFINE m == i + 1
               k == order[m]
    <2>2. i \in Nat /\ m \in 1..n /\ m - 1 = i /\ Shows(f[i], upto(i))
      BY <2>1, <1>1
    <2>3. k \in DOMAIN Path
      BY <2>2, <1>2
    <2>4. f[m] = Tr!setLeaf(f[i], Path[k], Tr!LeafOf(e[k]))
      <3> HIDE DEF m, upto
      <3> QED BY <2>2, <1>4 DEF Tr!TreeUpdate
    <2>5. upto(m)[k] = e[k]
      <3> HIDE DEF m
      <3>1. \E j \in 1..m : order[j] = k
        BY <2>2
      <3> HIDE DEF k
      <3> QED BY <2>3, <3>1
    <2>6. \A l \in DOMAIN Path : l # k => upto(i)[l] = upto(m)[l]
      <3>1. \A l : l # k => ((\E j \in 1..i : order[j] = l) <=> (\E j \in 1..m : order[j] = l))
        <4>1. \A j \in 1..m : j = m \/ j \in 1..i
          BY <2>2
        <4>2. \A j \in 1..i : j \in 1..m
          BY <2>2
        <4> HIDE DEF m
        <4> QED BY <4>1, <4>2
      <3> HIDE DEF k, m
      <3> QED BY <3>1
    <2> HIDE DEF upto, k
    <2>7. Shows(Tr!setLeaf(f[i], Path[k], Tr!LeafOf(upto(m)[k])), upto(m))
      <3> HIDE DEF m
      <3> QED BY <2>2, <2>3, <2>6, LeafSet
    <2>8. Shows(f[m], upto(m))
      BY <2>4, <2>5, <2>7
    <2> QED BY <2>8
  <1>7. T = Nat
    <2>1. T \subseteq Nat
      OBVIOUS
    <2> HIDE DEF T
    <2> QED BY <1>5, <1>6, <2>1, Defaults!NaturalSet
  <1>8. Shows(f[n], upto(n))
    <2>1. n \in T /\ n <= n
      BY <1>7, <1>1
    <2> HIDE DEF upto
    <2> QED BY <2>1
  <1>9. upto(n) = e
    <2>1. \A k \in DOMAIN Path : upto(n)[k] = e[k]
      BY <1>3
    <2> QED BY <2>1
  <1> HIDE DEF upto
  <1> QED BY <1>4, <1>8, <1>9

-----------------------------------------------------------------------------
(* What the tree's theorems need. *)
TreeInv ==
    /\ entries \in [DOMAIN Path -> Values]
    /\ Shows(nodes, entries)
    /\ kept = [key |-> kept.key, leaf |-> kept.leaf, siblings |-> kept.siblings]

(* It holds at the start ... *)
LEMMA TreeInvInit == Tr!Init => TreeInv
  <1> SUFFICES ASSUME Tr!Init PROVE TreeInv
    OBVIOUS
  <1>1. entries = [k \in DOMAIN Path |-> Tr!Absent] /\ nodes = Tr!New
    BY DEF Tr!Init, Tr!Keys
  <1>2. Shows(nodes, entries)
    BY <1>1, NewShows
  <1>3. kept = [key |-> kept.key, leaf |-> kept.leaf, siblings |-> kept.siblings]
    BY DEF Tr!Init, Tr!ProofOf
  <1> QED BY <1>1, <1>2, <1>3 DEF TreeInv, Values

(* A change of one entry. *)
LEMMA Changed ==
    ASSUME TreeInv, NEW k \in DOMAIN Path, NEW v \in Values,
           entries' = [entries EXCEPT ![k] = v],
           nodes' = Tr!setLeaf(nodes, Path[k], Tr!LeafOf(v)), kept' = kept
    PROVE  TreeInv'
  <1> DEFINE f == [entries EXCEPT ![k] = v]
  <1>1. f \in [DOMAIN Path -> Values] /\ f[k] = v /\ \A l \in DOMAIN Path : l # k => entries[l] = f[l]
    BY DEF TreeInv
  <1> HIDE DEF f
  <1>2. Shows(Tr!setLeaf(nodes, Path[k], Tr!LeafOf(f[k])), f)
    BY <1>1, LeafSet DEF TreeInv
  <1>3. Shows(nodes', entries')
    BY <1>1, <1>2 DEF f
  <1> QED BY <1>1, <1>3 DEF TreeInv, f

(* ... and every step keeps it. *)
LEMMA TreeInvStep == TreeInv /\ [Tr!Next]_treeVars => TreeInv'
  <1> SUFFICES ASSUME TreeInv, [Tr!Next]_treeVars PROVE TreeInv'
    OBVIOUS
  <1>1. ASSUME NEW k \in Tr!Keys, NEW v \in LeafValues, Tr!Update(k, v) PROVE TreeInv'
    BY <1>1, Changed DEF Tr!Update, Tr!TreeUpdate, Tr!Keys, Values
  <1>2. ASSUME NEW k \in Tr!Keys, Tr!Delete(k) PROVE TreeInv'
    <2>1. Tr!EmptyLeaf = Tr!LeafOf(Tr!Absent)
      BY DEF Tr!LeafOf
    <2> QED BY <1>2, <2>1, Changed DEF Tr!Delete, Tr!TreeDelete, Tr!Keys, Values
  <1>3. ASSUME NEW k \in Tr!Keys, Tr!Prove(k) PROVE TreeInv'
    <2>1. kept' = [key |-> kept'.key, leaf |-> kept'.leaf, siblings |-> kept'.siblings]
      BY <1>3 DEF Tr!Prove, Tr!ProofOf
    <2> QED BY <1>3, <2>1 DEF Tr!Prove, TreeInv
  <1>4. CASE Tr!SparseRoot
    <2>1. PICK order \in Tr!SetToSeqs(Tr!Present) :
             nodes' = Tr!FoldLeft(LAMBDA t, k : Tr!TreeUpdate(t, k, entries[k]), Tr!New, order)
      BY <1>4 DEF Tr!SparseRoot
    <2>2. Tr!FoldLeft(LAMBDA t, k : Tr!TreeUpdate(t, k, entries[k]), Tr!New, order)
            = Inserting!Fold(entries, 0, Tr!New, order)
      BY DEF Inserting!Fold, Inserting!FoldLeft, Tr!FoldLeft, Inserting!MapThenFoldSet,
             Tr!MapThenFoldSet, Inserting!Max, Tr!Max
    <2>3. Tr!Present = {k \in DOMAIN Path : entries[k] # Tr!Absent} /\ order \in SetToSeqs(Tr!Present)
      BY <2>1, SameOperators DEF Tr!Present, Tr!Keys
    <2>4. Shows(Inserting!Fold(entries, 0, Tr!New, order), entries)
      BY <2>3, Rebuilt DEF TreeInv
    <2> QED BY <1>4, <2>1, <2>2, <2>4 DEF TreeInv, Tr!SparseRoot
  <1>5. CASE UNCHANGED treeVars
    BY <1>5 DEF treeVars, TreeInv
  <1> QED BY <1>1, <1>2, <1>3, <1>4, <1>5 DEF Tr!Next

(* The invariant gives the first property ... *)
LEMMA TreeInvShows == TreeInv => Tr!TreeIsItsEntries
  <1> SUFFICES ASSUME TreeInv PROVE Tr!TreeIsItsEntries
    OBVIOUS
  <1>0. TreeDepth \in Nat /\ TreeDepth \in 0..TreeDepth /\ 0 \in 0..TreeDepth
    BY KeyPaths
  <1>1. ASSUME NEW p \in DOMAIN nodes PROVE nodes[p] = Tr!Below(p)
    <2>1. PICK n \in 0..TreeDepth : p \in Paths(n)
      BY DEF TreeInv, Shows, Sparse, TreePaths
    <2>2. Tr!nodeHash(nodes, p) = Under(entries, p)
      BY <2>1 DEF TreeInv, Shows
    <2> QED BY <2>2, BelowIsUnder DEF Tr!nodeHash
  <1>2. ASSUME NEW n \in 0..TreeDepth, NEW p \in Paths(n), NEW k \in DOMAIN Path,
               Beginning(Path[k], n) = p, entries[k] # Tr!Absent
        PROVE  p \in DOMAIN nodes
    <2>1. Under(entries, p) # Tr!defaultHashes[n]
      BY <1>2, Emptiness
    <2>2. Tr!nodeHash(nodes, p) = Under(entries, p)
      BY DEF TreeInv, Shows
    <2> QED BY <2>1, <2>2, TreePathsLen DEF Tr!nodeHash
  <1>3. ASSUME NEW k \in Tr!Present, NEW d \in 0..TreeDepth
        PROVE  SubSeq(Path[k], 1, d) \in DOMAIN nodes
    <2>1. k \in DOMAIN Path /\ entries[k] # Tr!Absent
      BY DEF Tr!Present, Tr!Keys
    <2>2. Beginning(Path[k], d) \in Paths(d)
      BY <1>0, <2>1, KeyPaths, Beginnings
    <2> QED BY <1>2, <2>1, <2>2 DEF Beginning
  <1>4. Tr!Root(nodes) = Tr!Below(<<>>)
    <2>1. <<>> \in Paths(0)
      BY DEF Paths
    <2> QED BY <1>0, <2>1, BelowIsUnder DEF TreeInv, Shows, Tr!Root
  <1>5. Tr!Leaves(nodes) = Tr!Cardinality(Tr!Present)
    <2> DEFINE F == [k \in Tr!Present |-> Path[k]]
               L == {p \in DOMAIN nodes : Len(p) = TreeDepth}
    <2>1. ASSUME NEW k \in Tr!Present PROVE Path[k] \in L
      <3>1. k \in DOMAIN Path
        BY DEF Tr!Present, Tr!Keys
      <3>2. SubSeq(Path[k], 1, TreeDepth) = Path[k] /\ Len(Path[k]) = TreeDepth
        BY <3>1, <1>0, KeyPaths, Beginnings DEF Beginning
      <3> QED BY <3>2, <1>0, <1>3
    <2>2. ASSUME NEW p \in L PROVE \E k \in Tr!Present : Path[k] = p
      <3>1. PICK n \in 0..TreeDepth : p \in Paths(n)
        BY DEF TreeInv, Shows, Sparse, TreePaths
      <3>2. n = TreeDepth
        BY <3>1, TreePathsLen
      <3>3. Under(entries, p) # Tr!defaultHashes[TreeDepth]
        <4>1. nodes[p] # Tr!defaultHashes[Len(p)] /\ Tr!nodeHash(nodes, p) = Under(entries, p)
          BY <3>1 DEF TreeInv, Shows, Sparse
        <4> QED BY <4>1 DEF Tr!nodeHash
      <3>4. PICK k \in DOMAIN Path : Beginning(Path[k], TreeDepth) = p /\ entries[k] # Tr!Absent
        BY <1>0, <3>1, <3>2, <3>3, Emptiness
      <3>5. Path[k] = p
        BY <1>0, <3>4, KeyPaths, Beginnings
      <3> QED BY <3>4, <3>5 DEF Tr!Present, Tr!Keys
    <2>3. IsFiniteSet(Tr!Present)
      <3>1. Tr!Present \subseteq DOMAIN Path /\ IsFiniteSet(DOMAIN Path)
        BY PathsTyped DEF Tr!Present, Tr!Keys
      <3> QED BY <3>1, FS_Subset
    <2>4. F \in Bijection(Tr!Present, L)
      <3>1. F \in [Tr!Present -> L]
        <4> HIDE DEF L
        <4> QED BY <2>1
      <3>2. \A k, l \in Tr!Present : F[k] = F[l] => k = l
        BY KeyPaths DEF Tr!Present, Tr!Keys
      <3>3. \A p \in L : \E k \in Tr!Present : F[k] = p
        <4> HIDE DEF L
        <4> QED BY <2>2
      <3> HIDE DEF F, L
      <3> QED BY <3>1, <3>2, <3>3 DEF Bijection, Injection, Surjection, IsInjective
    <2>5. Cardinality(L) = Cardinality(Tr!Present)
      <3> HIDE DEF F, L
      <3>1. ExistsBijection(Tr!Present, L)
        BY <2>4 DEF ExistsBijection
      <3> QED BY <2>3, <3>1, FS_Bijection
    <2> QED BY <2>5, SameOperators DEF Tr!Leaves
  <1> QED BY <1>1, <1>3, <1>4, <1>5 DEF Tr!TreeIsItsEntries

-----------------------------------------------------------------------------
(* What Verify computes from the leaf upwards, for any proof. *)
Climb(p, up) ==
    /\ up[0] = p.leaf
    /\ \A i \in 1..TreeDepth :
          up[i] = IF Path[p.key][TreeDepth + 1 - i] = 0
                  THEN Tr!Hash(up[i - 1], p.siblings[i]) ELSE Tr!Hash(p.siblings[i], up[i - 1])

(* It computes it, and compares the last one with the root. *)
LEMMA Verifying ==
    ASSUME NEW p, NEW root
    PROVE  \E up : Climb(p, up) /\ (Tr!Verify(p, root) <=> up[TreeDepth] = root)
  <1> DEFINE up == CHOOSE g : g = [i \in 0..TreeDepth |->
                      IF i = 0 THEN p.leaf
                      ELSE IF Path[p.key][TreeDepth + 1 - i] = 0
                           THEN Tr!Hash(g[i - 1], p.siblings[i])
                           ELSE Tr!Hash(p.siblings[i], g[i - 1])]
  <1>0. TreeDepth \in Nat
    BY KeyPaths
  <1>1. Tr!Verify(p, root) <=> up[TreeDepth] = root
    BY DEF Tr!Verify
  <1>2. PICK g : Checking!Rises(g, p, 0, p.leaf, TreeDepth)
    BY <1>0, Checking!Rising
  <1>3. g = [i \in 0..TreeDepth |->
                IF i = 0 THEN p.leaf
                ELSE IF Path[p.key][TreeDepth + 1 - i] = 0
                     THEN Tr!Hash(g[i - 1], p.siblings[i])
                     ELSE Tr!Hash(p.siblings[i], g[i - 1])]
    BY <1>2 DEF Checking!Rises
  <1>4. up = [i \in 0..TreeDepth |->
                IF i = 0 THEN p.leaf
                ELSE IF Path[p.key][TreeDepth + 1 - i] = 0
                     THEN Tr!Hash(up[i - 1], p.siblings[i])
                     ELSE Tr!Hash(p.siblings[i], up[i - 1])]
    BY ZenonT(40), <1>3
  <1> HIDE DEF up
  <1>5. Climb(p, up)
    <2>1. \A i \in 1..TreeDepth : i \in 0..TreeDepth /\ i # 0
      BY <1>0
    <2> QED BY <1>0, <1>4, <2>1 DEF Climb
  <1> QED BY <1>1, <1>5

(* A node on the way of a key, and the sibling below it. *)
LEMMA OnTheWay ==
    ASSUME NEW e, NEW k \in DOMAIN Path, NEW i \in 1..TreeDepth
    PROVE  LET here  == Under(e, Beginning(Path[k], TreeDepth - i))
               below == Under(e, Beginning(Path[k], TreeDepth - (i - 1)))
               other == Under(e, Tr!Flip(Path[k], TreeDepth + 1 - i))
           IN  here = IF Path[k][TreeDepth + 1 - i] = 0 THEN Tr!Hash(below, other)
                      ELSE Tr!Hash(other, below)
  <1> DEFINE m == TreeDepth - i
             p == Beginning(Path[k], m)
             b == Path[k][m + 1]
  <1>1. /\ TreeDepth \in Nat /\ m \in 0..(TreeDepth - 1) /\ m \in 0..TreeDepth
        /\ TreeDepth + 1 - i = m + 1 /\ TreeDepth - (i - 1) = m + 1 /\ (m + 1) - 1 = m
    BY KeyPaths
  <1>2. Tr!Flip(Path[k], TreeDepth + 1 - i) = Append(p, 1 - b)
    BY <1>1 DEF Tr!Flip, Beginning
  <1> HIDE DEF m
  <1>3. /\ Beginning(Path[k], m + 1) = Append(p, b) /\ b \in Bits /\ p \in Paths(m)
    <2>1. Path[k] \in Paths(TreeDepth)
      BY KeyPaths
    <2>2. p \in Paths(m)
      BY <1>1, <2>1, Beginnings
    <2> QED BY <1>1, <2>1, <2>2, Extends
  <1> HIDE DEF p, b
  <1>4. Under(e, p) = Tr!Hash(Under(e, Append(p, 0)), Under(e, Append(p, 1)))
    BY <1>1, <1>3, Children
  <1>5. CASE b = 0
    <2>1. 1 - b = 1
      BY <1>5
    <2>2. Under(e, p) = Tr!Hash(Under(e, Append(p, b)), Under(e, Append(p, 1 - b)))
      BY <1>4, <1>5, <2>1
    <2> QED BY <1>1, <1>2, <1>3, <1>5, <2>2 DEF m, p, b
  <1>6. CASE b = 1
    <2>1. 1 - b = 0
      BY <1>6
    <2>2. Under(e, p) = Tr!Hash(Under(e, Append(p, 1 - b)), Under(e, Append(p, b)))
      BY <1>4, <1>6, <2>1
    <2>3. b # 0
      BY <1>6
    <2> QED BY <1>1, <1>2, <1>3, <2>3, <2>2 DEF m, p, b
  <1>7. b = 0 \/ b = 1
    BY <1>3 DEF Bits
  <1> QED BY <1>5, <1>6, <1>7

(* ... and the second. *)
LEMMA TreeInvProofs == TreeInv => Tr!ProofsDoNotLie
  <1> SUFFICES ASSUME TreeInv PROVE Tr!ProofsDoNotLie
    OBVIOUS
  <1> DEFINE at(k, i) == Under(entries, Beginning(Path[k], TreeDepth - i))
             other(k, i) == Under(entries, Tr!Flip(Path[k], TreeDepth + 1 - i))
             bit(k, i) == Path[k][TreeDepth + 1 - i]
  <1>0. TreeDepth \in Nat /\ TreeDepth \in 0..TreeDepth /\ 0 \in 0..TreeDepth
    BY KeyPaths
  <1>1. ASSUME NEW k \in DOMAIN Path
        PROVE  /\ at(k, 0) = Tr!LeafOf(entries[k]) /\ at(k, 0) = Tr!nodeHash(nodes, Path[k])
               /\ at(k, TreeDepth) = Tr!Root(nodes)
    <2>1. TreeDepth - 0 = TreeDepth /\ TreeDepth - TreeDepth = 0
      BY <1>0
    <2>2. Beginning(Path[k], TreeDepth) = Path[k] /\ Beginning(Path[k], 0) = <<>>
          /\ Path[k] \in Paths(TreeDepth) /\ Beginning(Path[k], 0) \in Paths(0)
      BY <1>0, KeyPaths, Beginnings
    <2>3. Under(entries, Path[k]) = Tr!LeafOf(entries[k])
      BY <2>2, Children, LeavesAt
    <2>4. Tr!nodeHash(nodes, Path[k]) = Under(entries, Path[k])
      BY <1>0, <2>2 DEF TreeInv, Shows
    <2>5. Tr!Root(nodes) = Under(entries, <<>>)
      BY <1>0, <2>2 DEF TreeInv, Shows, Tr!Root
    <2> QED BY <2>1, <2>2, <2>3, <2>4, <2>5
  <1>2. ASSUME NEW k \in DOMAIN Path, NEW i \in 1..TreeDepth
        PROVE  /\ bit(k, i) = 0 => at(k, i) = Tr!Hash(at(k, i - 1), other(k, i))
               /\ bit(k, i) # 0 => at(k, i) = Tr!Hash(other(k, i), at(k, i - 1))
               /\ other(k, i) = Tr!nodeHash(nodes, Tr!Flip(Path[k], TreeDepth + 1 - i))
    <2>1. at(k, i) = IF bit(k, i) = 0 THEN Tr!Hash(at(k, i - 1), other(k, i))
                     ELSE Tr!Hash(other(k, i), at(k, i - 1))
      BY OnTheWay
    <2> DEFINE m == TreeDepth - i
    <2>2. m \in 0..(TreeDepth - 1) /\ m \in 0..TreeDepth /\ m \in Nat /\ m + 1 \in 0..TreeDepth
          /\ TreeDepth + 1 - i = m + 1 /\ (m + 1) - 1 = m
      BY <1>0
    <2> HIDE DEF m
    <2>3. Beginning(Path[k], m) \in Paths(m) /\ 1 - Path[k][m + 1] \in Bits
      <3>1. Path[k][m + 1] \in Bits
        BY <1>0, <2>2, KeyPaths, Extends
      <3>2. 1 - Path[k][m + 1] \in Bits
        BY <3>1 DEF Bits
      <3>3. Path[k] \in Paths(TreeDepth)
        BY KeyPaths
      <3> QED BY <1>0, <2>2, <3>2, <3>3, Beginnings
    <2>4. Tr!Flip(Path[k], m + 1) \in Paths(m + 1)
      <3>1. Tr!Flip(Path[k], m + 1) = Append(Beginning(Path[k], m), 1 - Path[k][m + 1])
        BY <2>2 DEF Tr!Flip, Beginning
      <3> DEFINE q == Beginning(Path[k], m)
                 b == 1 - Path[k][m + 1]
      <3>2. q \in Paths(m) /\ b \in Bits /\ m \in Nat
        BY <2>2, <2>3
      <3> HIDE DEF q, b
      <3>3. Append(q, b) \in Paths(m + 1)
        BY <3>2, OneMore
      <3> QED BY <3>1, <3>3 DEF q, b
    <2>5. Tr!nodeHash(nodes, Tr!Flip(Path[k], m + 1)) = Under(entries, Tr!Flip(Path[k], m + 1))
      BY <2>2, <2>4 DEF TreeInv, Shows
    <2> QED BY <2>1, <2>2, <2>5
  <1> HIDE DEF at, other, bit
  <1>3. ASSUME NEW k \in DOMAIN Path PROVE Tr!Verify(Tr!ProofOf(nodes, k), Tr!Root(nodes))
    <2> DEFINE p == Tr!ProofOf(nodes, k)
    <2>1. PICK up : Climb(p, up) /\ (Tr!Verify(p, Tr!Root(nodes)) <=> up[TreeDepth] = Tr!Root(nodes))
      BY Verifying
    <2>2. /\ p.key = k /\ p.leaf = at(k, 0)
          /\ \A i \in 1..TreeDepth : p.siblings[i] = other(k, i)
      BY <1>1, <1>2 DEF Tr!ProofOf
    <2> HIDE DEF p
    <2> DEFINE T == {i \in Nat : i <= TreeDepth => up[i] = at(k, i)}
    <2>3. 0 \in T
      BY <2>1, <2>2 DEF Climb
    <2>4. ASSUME NEW i \in T PROVE i + 1 \in T
      <3>1. SUFFICES ASSUME i + 1 <= TreeDepth PROVE up[i + 1] = at(k, i + 1)
        OBVIOUS
      <3> DEFINE j == i + 1
      <3>2. j \in 1..TreeDepth /\ j - 1 = i /\ up[i] = at(k, i)
        BY <3>1, <1>0
      <3> HIDE DEF j
      <3>3. up[j] = IF bit(k, j) = 0 THEN Tr!Hash(up[i], other(k, j)) ELSE Tr!Hash(other(k, j), up[i])
        BY <2>1, <2>2, <3>2 DEF Climb, bit
      <3>4. /\ bit(k, j) = 0 => at(k, j) = Tr!Hash(at(k, i), other(k, j))
            /\ bit(k, j) # 0 => at(k, j) = Tr!Hash(other(k, j), at(k, i))
        BY <1>2, <3>2
      <3> QED BY <3>2, <3>3, <3>4 DEF j
    <2>5. T = Nat
      <3>1. T \subseteq Nat
        OBVIOUS
      <3> HIDE DEF T
      <3> QED BY <2>3, <2>4, <3>1, Defaults!NaturalSet
    <2>6. up[TreeDepth] = at(k, TreeDepth)
      BY <1>0, <2>5
    <2> QED BY <1>1, <2>1, <2>6 DEF p
  <1>4. ASSUME NEW k \in DOMAIN Path, NEW v,
               Tr!Verify([kept EXCEPT !.key = k, !.leaf = Tr!LeafOf(v)], Tr!Root(nodes))
        PROVE  entries[k] = v
    <2> DEFINE p == [kept EXCEPT !.key = k, !.leaf = Tr!LeafOf(v)]
    <2>1. p.key = k /\ p.leaf = Tr!LeafOf(v)
      <3>1. kept = [key |-> kept.key, leaf |-> kept.leaf, siblings |-> kept.siblings]
        BY DEF TreeInv
      <3> QED BY <3>1
    <2>2. Tr!Verify(p, Tr!Root(nodes))
      BY <1>4
    <2> HIDE DEF p
    <2>3. PICK up : Climb(p, up) /\ (Tr!Verify(p, Tr!Root(nodes)) <=> up[TreeDepth] = Tr!Root(nodes))
      BY Verifying
    <2> DEFINE T == {j \in Nat : \A i \in 0..TreeDepth : i = TreeDepth - j => up[i] = at(k, i)}
    <2>4. 0 \in T
      <3>1. \A i \in 0..TreeDepth : i = TreeDepth - 0 => i = TreeDepth
        BY <1>0
      <3> QED BY <1>1, <2>2, <2>3, <3>1
    <2>5. ASSUME NEW j \in T PROVE j + 1 \in T
      <3>1. ASSUME NEW i \in 0..TreeDepth, i = TreeDepth - (j + 1) PROVE up[i] = at(k, i)
        <4> DEFINE n == i + 1
        <4>1. n \in 1..TreeDepth /\ n \in 0..TreeDepth /\ n - 1 = i /\ n = TreeDepth - j
          BY <3>1, <1>0
        <4> HIDE DEF n
        <4>2. up[n] = at(k, n)
          BY <4>1
        <4>3. up[n] = IF bit(k, n) = 0 THEN Tr!Hash(up[i], p.siblings[n]) ELSE Tr!Hash(p.siblings[n], up[i])
          BY <2>1, <2>3, <4>1 DEF Climb, bit
        <4>4. /\ bit(k, n) = 0 => at(k, n) = Tr!Hash(at(k, i), other(k, n))
              /\ bit(k, n) # 0 => at(k, n) = Tr!Hash(other(k, n), at(k, i))
          BY <1>2, <4>1
        <4> QED BY <4>2, <4>3, <4>4, Terms
      <3>2. j + 1 \in Nat
        OBVIOUS
      <3> QED BY <3>1, <3>2
    <2>6. T = Nat
      <3>1. T \subseteq Nat
        OBVIOUS
      <3> HIDE DEF T
      <3> QED BY <2>4, <2>5, <3>1, Defaults!NaturalSet
    <2>7. up[0] = at(k, 0)
      <3>1. PICK j \in Nat : 0 = TreeDepth - j
        BY <1>0
      <3>2. j \in T
        BY <2>6
      <3> QED BY <3>1, <3>2, <1>0
    <2>8. Tr!LeafOf(v) = Tr!LeafOf(entries[k])
      BY <1>1, <2>1, <2>3, <2>7 DEF Climb
    <2> QED BY <2>8, Terms
  <1> QED BY <1>3, <1>4 DEF Tr!ProofsDoNotLie, Tr!Keys

-----------------------------------------------------------------------------
(* While the tree runs. *)
LEMMA TreeRuns == PartsSpec => [](part = "tree" => TreeInv)
  <1>1. PartsInit => (part = "tree" => TreeInv)
    BY TreeInvInit DEF PartsInit
  <1>2. (part = "tree" => TreeInv) /\ [PartsNext]_partsVars => (part = "tree" => TreeInv)'
    <2> SUFFICES ASSUME part = "tree" => TreeInv, [PartsNext]_partsVars, part' = "tree"
                 PROVE  TreeInv'
      OBVIOUS
    <2>1. CASE part = "tree" /\ Tr!Next
      BY <2>1, TreeInvStep
    <2>2. CASE UNCHANGED partsVars
      BY <2>2, TreeInvStep DEF partsVars, treeVars
    <2> QED BY <2>1, <2>2 DEF PartsNext
  <1> QED BY <1>1, <1>2, PTL DEF PartsSpec

(* Every hash the tree keeps is that of the entries below it, whatever the *)
(* order of the changes and of the entries of a new tree (setLeaf, smt.go; *)
(* sparseRootLocked, state.go).                                            *)
THEOREM TreeShowsTheEntries == PartsSpec => []TreeIsItsEntries
  <1>1. (part = "tree" => TreeInv) => TreeIsItsEntries
    BY TreeInvShows DEF TreeIsItsEntries
  <1> QED BY <1>1, TreeRuns, PTL

(* Every key has a proof that holds, and no proof of any kind, made for    *)
(* any tree and any key, shows a value that the entry does not have        *)
(* (Prove and Verify, smt.go).                                             *)
THEOREM ProofsShowTheEntries == PartsSpec => []ProofsDoNotLie
  <1>1. (part = "tree" => TreeInv) => ProofsDoNotLie
    BY TreeInvProofs DEF ProofsDoNotLie
  <1> QED BY <1>1, TreeRuns, PTL

-----------------------------------------------------------------------------
(***************************************************************************)
(* The field: TLC checks all pairs of elements of the one with 241.        *)
(***************************************************************************)
(* The remainder is the one number below the modulus that differs by a     *)
(* multiple of it.                                                         *)
LEMMA ModUnique ==
    ASSUME NEW m \in Nat, m > 0, NEW x \in Int, NEW k \in Int, NEW r \in Int,
           0 <= r, r < m, x = r + k * m
    PROVE  x % m = r
  BY SMT

(* Division with a remainder. *)
LEMMA DivMod ==
    ASSUME NEW m \in Nat, m > 0, NEW x \in Int
    PROVE  /\ x \div m \in Int /\ x % m \in Int
           /\ x = m * (x \div m) + (x % m)
           /\ 0 <= x % m /\ x % m < m
  BY SMT

(* What the code's constants have to do with each other. *)
LEMMA WordFacts ==
    ASSUME Fr!HalfWord \in Nat, Fr!HalfWord > 1
    PROVE  /\ Fr!P \in Nat /\ Fr!P > 1
           /\ Fr!epsilon \in Nat /\ Fr!epsilon > 0 /\ Fr!epsilon < Fr!P
           /\ Fr!Word \in Nat /\ Fr!Word = Fr!P + Fr!epsilon
  BY SMT DEF Fr!P, Fr!epsilon, Fr!Word

(* A word reduced is the element it stands for (FromUint64, field.go). *)
LEMMA Reduced ==
    ASSUME Fr!HalfWord \in Nat, Fr!HalfWord > 1, NEW x \in 0..(Fr!Word - 1)
    PROVE  Fr!FromUint64(x) \in Fr!Felts /\ Fr!FromUint64(x) = x % Fr!P
  <1>1. /\ Fr!P \in Nat /\ Fr!P > 1 /\ Fr!epsilon \in Nat /\ Fr!epsilon < Fr!P /\ Fr!Word = Fr!P + Fr!epsilon
    BY WordFacts
  <1>2. CASE x >= Fr!P
    <2>1. Fr!FromUint64(x) = x - Fr!P
      BY <1>1, <1>2 DEF Fr!FromUint64
    <2>2. x % Fr!P = x - Fr!P
      BY <1>1, <1>2, ModUnique, x = (x - Fr!P) + 1 * Fr!P
    <2> QED BY <1>1, <1>2, <2>1, <2>2 DEF Fr!Felts
  <1>3. CASE x < Fr!P
    <2>1. x % Fr!P = x
      BY <1>1, <1>3, ModUnique, x = x + 0 * Fr!P
    <2> QED BY <1>1, <1>3, <2>1 DEF Fr!FromUint64, Fr!Felts
  <1> QED BY <1>1, <1>2, <1>3

(* Addition: the carry out of the word comes back as epsilon, once (Add,   *)
(* field.go).                                                              *)
THEOREM AdditionIsModular ==
    ASSUME Fr!HalfWord \in Nat, Fr!HalfWord > 1, NEW a \in Fr!Felts, NEW b \in Fr!Felts
    PROVE  Fr!Add(a, b) \in Fr!Felts /\ Fr!Add(a, b) = (a + b) % Fr!P
  <1>1. /\ Fr!P \in Nat /\ Fr!P > 1 /\ Fr!epsilon \in Nat /\ Fr!epsilon < Fr!P /\ Fr!epsilon > 0
        /\ Fr!Word \in Nat /\ Fr!Word = Fr!P + Fr!epsilon
    BY WordFacts
  <1>2. a \in 0..(Fr!P - 1) /\ b \in 0..(Fr!P - 1)
    BY <1>1 DEF Fr!Felts
  <1>3. CASE a + b >= Fr!Word
    <2>1. (a + b) % Fr!Word = a + b - Fr!Word
      BY <1>1, <1>2, <1>3, ModUnique, a + b = (a + b - Fr!Word) + 1 * Fr!Word
    <2>2. Fr!Add(a, b) = Fr!FromUint64(a + b - Fr!P)
      BY <1>1, <1>2, <1>3, <2>1 DEF Fr!Add
    <2>3. a + b - Fr!P \in 0..(Fr!P - 1)
      BY <1>1, <1>2, <1>3
    <2>4. (a + b) % Fr!P = a + b - Fr!P
      BY <1>1, <1>2, <2>3, ModUnique, a + b = (a + b - Fr!P) + 1 * Fr!P
    <2> QED BY <1>1, <2>2, <2>3, <2>4 DEF Fr!FromUint64, Fr!Felts
  <1>4. CASE a + b < Fr!Word
    <2>1. (a + b) % Fr!Word = a + b
      BY <1>1, <1>2, <1>4, ModUnique, a + b = (a + b) + 0 * Fr!Word
    <2>2. Fr!Add(a, b) = Fr!FromUint64(a + b)
      BY <1>1, <1>2, <1>4, <2>1 DEF Fr!Add
    <2> QED BY <1>1, <1>2, <1>4, <2>2, Reduced
  <1> QED BY <1>1, <1>2, <1>3, <1>4

(* Subtraction: a borrow is worth epsilon (Sub, field.go). *)
THEOREM SubtractionIsModular ==
    ASSUME Fr!HalfWord \in Nat, Fr!HalfWord > 1, NEW a \in Fr!Felts, NEW b \in Fr!Felts
    PROVE  /\ Fr!Sub(a, b) \in Fr!Felts /\ Fr!Sub(a, b) = (a - b) % Fr!P
           /\ Fr!Sub(0, a) = Fr!Neg(a)
  <1>1. /\ Fr!P \in Nat /\ Fr!P > 1 /\ Fr!epsilon \in Nat /\ Fr!epsilon < Fr!P /\ Fr!epsilon > 0
        /\ Fr!Word \in Nat /\ Fr!Word = Fr!P + Fr!epsilon
    BY WordFacts
  <1>2. ASSUME NEW x \in 0..(Fr!P - 1), NEW y \in 0..(Fr!P - 1)
        PROVE  Fr!Sub(x, y) = (IF x < y THEN x - y + Fr!P ELSE x - y)
    <2>1. CASE x < y
      <3>1. (x - y - Fr!epsilon) % Fr!Word = x - y + Fr!P
        BY <1>1, <1>2, <2>1, ModUnique, x - y - Fr!epsilon = (x - y + Fr!P) + (-1) * Fr!Word
      <3> QED BY <1>1, <2>1, <3>1 DEF Fr!Sub
    <2>2. CASE x >= y
      <3>1. (x - y) % Fr!Word = x - y
        BY <1>1, <1>2, <2>2, ModUnique, x - y = (x - y) + 0 * Fr!Word
      <3> QED BY <1>1, <2>2, <3>1 DEF Fr!Sub
    <2> QED BY <1>1, <2>1, <2>2
  <1>3. a \in 0..(Fr!P - 1) /\ b \in 0..(Fr!P - 1) /\ 0 \in 0..(Fr!P - 1)
    BY <1>1 DEF Fr!Felts
  <1>4. CASE a < b
    <2>1. (a - b) % Fr!P = a - b + Fr!P
      BY <1>1, <1>3, <1>4, ModUnique, a - b = (a - b + Fr!P) + (-1) * Fr!P
    <2> QED BY <1>1, <1>2, <1>3, <1>4, <2>1 DEF Fr!Felts, Fr!Neg
  <1>5. CASE a >= b
    <2>1. (a - b) % Fr!P = a - b
      BY <1>1, <1>3, <1>5, ModUnique, a - b = (a - b) + 0 * Fr!P
    <2> QED BY <1>1, <1>2, <1>3, <1>5, <2>1 DEF Fr!Felts, Fr!Neg
  <1> QED BY <1>1, <1>3, <1>4, <1>5

(* Multiples of the modulus do not change the remainder. *)
LEMMA ModShift ==
    ASSUME NEW m \in Nat, m > 0, NEW x \in Int, NEW k \in Int
    PROVE  (x + k * m) % m = x % m
  <1> DEFINE q == x \div m
             r == x % m
  <1>1. q \in Int /\ r \in Int /\ x = m * q + r /\ 0 <= r /\ r < m
    BY DivMod
  <1> HIDE DEF q, r
  <1>2. x + k * m = r + (q + k) * m
    BY <1>1, SMT
  <1>3. (x + k * m) % m = r
    BY <1>1, <1>2, ModUnique
  <1> QED BY <1>3 DEF r

(* The two halves of a word. *)
LEMMA Halves ==
    ASSUME Fr!HalfWord \in Nat, Fr!HalfWord > 1, NEW hi \in 0..(Fr!Word - 1)
    PROVE  /\ hi \div Fr!HalfWord \in 0..(Fr!HalfWord - 1) /\ hi % Fr!HalfWord \in 0..(Fr!HalfWord - 1)
           /\ hi = Fr!HalfWord * (hi \div Fr!HalfWord) + (hi % Fr!HalfWord)
  <1> DEFINE q == hi \div Fr!HalfWord
             r == hi % Fr!HalfWord
  <1>1. Fr!Word \in Nat /\ Fr!Word = Fr!HalfWord * Fr!HalfWord
    BY WordFacts DEF Fr!Word
  <1>2. q \in Int /\ r \in Int /\ hi = Fr!HalfWord * q + r /\ 0 <= r /\ r < Fr!HalfWord
    BY DivMod, <1>1
  <1> HIDE DEF q, r
  <1>3. q < Fr!HalfWord
    <2>1. SUFFICES ASSUME q >= Fr!HalfWord PROVE FALSE
      BY <1>2
    <2>2. Fr!HalfWord * q >= Fr!HalfWord * Fr!HalfWord
      BY <1>2, <2>1, SMT
    <2> QED BY <1>1, <1>2, <2>2
  <1>4. q >= 0
    <2>1. SUFFICES ASSUME q <= -1 PROVE FALSE
      BY <1>2
    <2>2. Fr!HalfWord * q <= Fr!HalfWord * (-1)
      BY <1>2, <2>1, SMT
    <2> QED BY <1>1, <1>2, <2>2
  <1> QED BY <1>2, <1>3, <1>4 DEF q, r

(* A high word is worth its low half times epsilon less its high half.     *)
LEMMA HighWord ==
    ASSUME Fr!HalfWord \in Nat, Fr!HalfWord > 1, NEW q \in Int, NEW r \in Int
    PROVE  (Fr!HalfWord * q + r) * Fr!Word = (r * Fr!epsilon - q) + (q * (Fr!HalfWord + 1) + r) * Fr!P
  <1>1. /\ Fr!P \in Nat /\ Fr!epsilon \in Nat /\ Fr!Word \in Nat /\ Fr!Word = Fr!P + Fr!epsilon
    BY WordFacts
  <1>2. Fr!HalfWord * Fr!Word = (Fr!HalfWord + 1) * Fr!P - 1
    BY SMT DEF Fr!Word, Fr!P
  <1>3. q * (Fr!HalfWord * Fr!Word) = q * ((Fr!HalfWord + 1) * Fr!P) - q
    BY <1>1, <1>2, SMT
  <1>4. r * Fr!Word = r * Fr!P + r * Fr!epsilon
    BY <1>1, SMT
  <1>5. (Fr!HalfWord * q + r) * Fr!Word = q * (Fr!HalfWord * Fr!Word) + r * Fr!Word
    BY <1>1, SMT
  <1>6. (q * (Fr!HalfWord + 1) + r) * Fr!P = q * ((Fr!HalfWord + 1) * Fr!P) + r * Fr!P
    BY <1>1, SMT
  <1> QED BY <1>1, <1>3, <1>4, <1>5, <1>6, SMT

(* A number of two words reduced (reduce128, field.go): one borrow and one *)
(* carry are enough.                                                       *)
LEMMA ReductionIsModular ==
    ASSUME Fr!HalfWord \in Nat, Fr!HalfWord > 1, NEW lo \in 0..(Fr!Word - 1), NEW hi \in 0..(Fr!Word - 1)
    PROVE  Fr!Reduce(lo, hi) \in Fr!Felts /\ Fr!Reduce(lo, hi) = (lo + hi * Fr!Word) % Fr!P
  <1> DEFINE q  == hi \div Fr!HalfWord
             r  == hi % Fr!HalfWord
             t0 == Fr!Sub(lo, q)
             t1 == r * Fr!epsilon
             carry == IF t0 + t1 >= Fr!Word THEN Fr!epsilon ELSE 0
  <1>1. /\ Fr!P \in Nat /\ Fr!P > 1 /\ Fr!epsilon \in Nat /\ Fr!epsilon < Fr!P /\ Fr!epsilon > 0
        /\ Fr!Word \in Nat /\ Fr!Word = Fr!P + Fr!epsilon /\ Fr!epsilon = Fr!HalfWord - 1
    BY WordFacts DEF Fr!epsilon
  <1>2. /\ q \in 0..(Fr!HalfWord - 1) /\ r \in 0..(Fr!HalfWord - 1)
        /\ hi = Fr!HalfWord * q + r
    BY Halves
  <1>3. Fr!Reduce(lo, hi) = Fr!FromUint64((t0 + t1 + carry) % Fr!Word)
    BY DEF Fr!Reduce
  <1> HIDE DEF q, r
  <1>4. Fr!P > 2 * Fr!epsilon - Fr!HalfWord /\ Fr!P >= Fr!HalfWord
    BY SMT DEF Fr!P, Fr!epsilon, Fr!Word
  <1>5. t1 \in Nat /\ t1 <= Fr!P - Fr!HalfWord
    <2>1. r * Fr!epsilon <= Fr!epsilon * Fr!epsilon /\ r * Fr!epsilon >= 0
      BY <1>1, <1>2, SMT
    <2>2. Fr!epsilon * Fr!epsilon = Fr!P - Fr!HalfWord
      BY SMT DEF Fr!P, Fr!epsilon, Fr!Word
    <2> QED BY <1>1, <1>2, <2>1, <2>2, SMT
  <1>6. PICK b \in {0, 1} : t0 = lo - q + b * Fr!P /\ t0 \in 0..(Fr!Word - 1)
    <2>1. CASE lo < q
      <3>1. (lo - q - Fr!epsilon) % Fr!Word = lo - q + Fr!P
        BY <1>1, <1>2, <1>4, <2>1, ModUnique, lo - q - Fr!epsilon = (lo - q + Fr!P) + (-1) * Fr!Word
      <3> QED BY <1>1, <1>2, <1>4, <2>1, <3>1 DEF Fr!Sub
    <2>2. CASE lo >= q
      <3>1. (lo - q) % Fr!Word = lo - q
        BY <1>1, <1>2, <2>2, ModUnique, lo - q = (lo - q) + 0 * Fr!Word
      <3> QED BY <1>1, <1>2, <2>2, <3>1 DEF Fr!Sub
    <2> QED BY <1>1, <1>2, <2>1, <2>2
  <1> HIDE DEF t0, t1
  <1> DEFINE sum == t0 + t1
             k   == q * (Fr!HalfWord + 1) + r - b
  <1>7. sum \in Nat /\ sum <= Fr!Word - 1 + Fr!P - Fr!HalfWord /\ k \in Int
    BY <1>1, <1>2, <1>5, <1>6
  <1>8. lo + hi * Fr!Word = sum + k * Fr!P
    <2>1. hi * Fr!Word = (t1 - q) + (q * (Fr!HalfWord + 1) + r) * Fr!P
      BY <1>2, HighWord DEF t1
    <2>2. (q * (Fr!HalfWord + 1) + r - b) * Fr!P = (q * (Fr!HalfWord + 1) + r) * Fr!P - b * Fr!P
      BY <1>1, <1>2, <1>6, SMT
    <2> QED BY <1>1, <1>2, <1>5, <1>6, <2>1, <2>2, SMT
  <1>9. Fr!Reduce(lo, hi) = Fr!FromUint64((sum + (IF sum >= Fr!Word THEN Fr!epsilon ELSE 0)) % Fr!Word)
    BY <1>3
  <1> HIDE DEF sum, k
  <1>10. Fr!Reduce(lo, hi) \in Fr!Felts /\ Fr!Reduce(lo, hi) = sum % Fr!P
    <2>1. CASE sum >= Fr!Word
      <3>1. (sum + Fr!epsilon) % Fr!Word = sum - Fr!P
        BY <1>1, <1>2, <1>7, <2>1, ModUnique, sum + Fr!epsilon = (sum - Fr!P) + 1 * Fr!Word
      <3>2. sum - Fr!P \in 0..(Fr!P - 1)
        BY <1>1, <1>2, <1>7, <2>1
      <3>3. sum % Fr!P = sum - Fr!P
        BY <1>1, <1>7, <3>2, ModUnique, sum = (sum - Fr!P) + 1 * Fr!P
      <3> QED BY <1>1, <1>9, <2>1, <3>1, <3>2, <3>3 DEF Fr!FromUint64, Fr!Felts
    <2>2. CASE sum < Fr!Word
      <3>1. sum % Fr!Word = sum
        BY <1>1, <1>7, <2>2, ModUnique, sum = sum + 0 * Fr!Word
      <3>2. Fr!Reduce(lo, hi) = Fr!FromUint64(sum)
        BY <1>1, <1>7, <1>9, <2>2, <3>1
      <3> QED BY <1>1, <1>7, <2>2, <3>2, Reduced
    <2> QED BY <1>1, <1>7, <2>1, <2>2
  <1>11. (sum + k * Fr!P) % Fr!P = sum % Fr!P
    BY <1>1, <1>7, ModShift
  <1> QED BY <1>8, <1>10, <1>11

(* Multiplication: the product in two words, reduced (Mul, field.go). *)
THEOREM MultiplicationIsModular ==
    ASSUME Fr!HalfWord \in Nat, Fr!HalfWord > 1, NEW a \in Fr!Felts, NEW b \in Fr!Felts
    PROVE  Fr!Mul(a, b) \in Fr!Felts /\ Fr!Mul(a, b) = (a * b) % Fr!P
  <1> DEFINE ab == a * b
             lo == ab % Fr!Word
             hi == ab \div Fr!Word
  <1>1. /\ Fr!P \in Nat /\ Fr!P > 1 /\ Fr!epsilon \in Nat /\ Fr!Word \in Nat /\ Fr!Word = Fr!P + Fr!epsilon
    BY WordFacts
  <1>2. a \in 0..(Fr!P - 1) /\ b \in 0..(Fr!P - 1)
    BY <1>1 DEF Fr!Felts
  <1>3. ab \in Nat /\ ab < Fr!Word * Fr!Word
    <2>1. a * b <= (Fr!P - 1) * b /\ (Fr!P - 1) * b <= (Fr!P - 1) * (Fr!P - 1) /\ a * b >= 0
      BY <1>1, <1>2, SMT
    <2>2. (Fr!P - 1) * (Fr!P - 1) < Fr!P * Fr!P
      BY <1>1, SMT
    <2>3. Fr!P * Fr!P <= Fr!Word * Fr!Word
      BY <1>1, SMT
    <2> QED BY <1>1, <1>2, <2>1, <2>2, <2>3, SMT
  <1>4. Fr!Mul(a, b) = Fr!Reduce(lo, hi)
    BY DEF Fr!Mul
  <1> HIDE DEF ab
  <1>5. lo \in Int /\ hi \in Int /\ ab = Fr!Word * hi + lo /\ 0 <= lo /\ lo < Fr!Word
    <2>1. ab \in Int /\ Fr!Word > 0
      BY <1>1, <1>3
    <2> QED BY <1>1, <2>1, DivMod
  <1> HIDE DEF lo, hi
  <1>6. hi >= 0
    <2>1. SUFFICES ASSUME hi <= -1 PROVE FALSE
      BY <1>5
    <2>2. Fr!Word * hi <= Fr!Word * (-1)
      BY <1>1, <1>5, <2>1, SMT
    <2> QED BY <1>1, <1>3, <1>5, <2>2, SMT
  <1>7. hi < Fr!Word
    <2>1. SUFFICES ASSUME hi >= Fr!Word PROVE FALSE
      BY <1>1, <1>5
    <2>2. Fr!Word * hi >= Fr!Word * Fr!Word
      BY <1>1, <1>5, <2>1, SMT
    <2> QED BY <1>1, <1>3, <1>5, <2>2, SMT
  <1>8. Fr!Reduce(lo, hi) \in Fr!Felts /\ Fr!Reduce(lo, hi) = (lo + hi * Fr!Word) % Fr!P
    BY <1>1, <1>5, <1>6, <1>7, ReductionIsModular
  <1>9. lo + hi * Fr!Word = ab
    BY <1>1, <1>2, <1>5, SMT
  <1> QED BY <1>4, <1>8, <1>9 DEF ab

(* The word arithmetic with its carries, in every state of a proof, is     *)
(* that of the integers modulo P (field.go).                               *)
THEOREM WordArithmeticIsModular ==
    ASSUME Fr!HalfWord \in Nat, Fr!HalfWord > 1
    PROVE  PartsSpec => []FieldIsModular
  <1>1. 0 \in Fr!Felts
    BY WordFacts DEF Fr!Felts
  <1>2. FieldIsModular
    BY <1>1, AdditionIsModular, SubtractionIsModular, MultiplicationIsModular
       DEF FieldIsModular, Fr!FieldIsModular
  <1> QED BY <1>2, PTL
================================================================================
