-------------------------------- MODULE Gossip --------------------------------
(***************************************************************************)
(* How transactions and blocks travel (internal/p2p/p2p.go), what a node   *)
(* does with them (internal/node/node.go) and how a node that was away     *)
(* catches up.  One validator produces, so there is one chain and a node   *)
(* holds a prefix of it; forks are the subject of Consensus.  A connection *)
(* is a pair of FIFO links; it ends with a crash of either side.           *)
(***************************************************************************)
EXTENDS Mempool

CONSTANTS
    Nodes,
    Producer,       \* the node with the key; it also runs the faucet
    Dials,          \* Dials[n]: the peers in the configuration of n
    Speaks,         \* Speaks[n]: chain id and protocol version in the hello of n
    MinProtocol,    \* MinPeerProtocol
    SyncBatch,      \* syncBatch
    UserTxs,        \* transactions of users
    Entries,        \* the nodes whose API they use
    Accounts,
    Faucet,         \* the account of the faucet
    Plans           \* bounds, one of them per run of the network: its nodes, those
                    \* up from the start, the transactions users send, how many
                    \* calls of the faucet, heartbeats (empty blocks) and crashes

ASSUME Configured ==
    /\ Producer \in Nodes
    /\ \A n \in Nodes : Dials[n] \subseteq Nodes \ {n}
    /\ Entries \subseteq Nodes
    /\ SyncBatch \in Nat /\ PoolMax \in Nat /\ BlockMax \in Nat

(* A transaction names an account and its own nonce; only the node of the  *)
(* faucet signs for the faucet (FaucetSend).                               *)
ASSUME TxsTyped ==
    /\ Faucet \in Accounts
    /\ UserTxs \subseteq
          [from : Accounts \ {Faucet}, nonce : Nat, tip : Nat, good : BOOLEAN, id : Nat]

ASSUME PlansBound ==
    /\ IsFiniteSet(Plans)
    /\ \A p \in Plans : p.nodes \subseteq Nodes /\ p.up \subseteq p.nodes /\ p.calls \in Nat

VARIABLES
    plan,
    up,         \* nodes that run
    conn,       \* the directed links of the open connections
    chan,       \* chan[l]: the messages on their way on link l
    chain,      \* the blocks, each a sequence of transactions
    have,       \* have[n]: how many of them n has
    pool,
    checked,    \* API requests between the checks of acceptTx and Add
    taken,      \* links whose handler is there with the first message
    sent,       \* user transactions that were submitted
    faucet,     \* the call of FaucetSend under way: the nonce read, or none
    calls, beats, crashes, refused

vars == <<plan, up, conn, chan, chain, have, pool, checked, taken, sent, faucet,
          calls, beats, crashes, refused>>

Links == {l \in Nodes \X Nodes : l[2] \in Dials[l[1]] \/ l[1] \in Dials[l[2]]}

NoCall == -1

Hello(h) == [type |-> "hello", height |-> h]
TxMsg(tx) == [type |-> "tx", tx |-> tx]
Block(h) == [type |-> "block", height |-> h]
GetBlocks(from) == [type |-> "get", height |-> from]

(* NonceOf at a node: what its part of the chain says. *)
OnChain(n) == UNION {Range(chain[h]) : h \in 1..have[n]}
NonceOf(n, a) == Cardinality({tx \in OnChain(n) : tx.from = a})
NoncesAt(n) == [a \in Accounts |-> NonceOf(n, a)]

Init ==
    /\ plan \in Plans
    /\ up = plan.up
    /\ conn = {l \in Links : {l[1], l[2]} \subseteq up}
    /\ chan = [l \in Links |-> IF l \in conn THEN <<Hello(0)>> ELSE <<>>]
    /\ chain = <<>>
    /\ have = [n \in Nodes |-> 0]
    /\ pool = [n \in Nodes |-> {}]
    /\ checked = {} /\ taken = {} /\ sent = {}
    /\ faucet = NoCall
    /\ calls = 0 /\ beats = 0 /\ crashes = 0 /\ refused = FALSE

(* broadcastBin: every peer but the one it came from. *)
Peers(n) == {p \in Nodes : <<n, p>> \in conn}

(* First a form that sends it back as well.                                *)
TargetsAll(n, except) == Peers(n)

Targets(n, except) == Peers(n) \ {except}

Broadcast(c, n, m, except) ==
    [l \in Links |-> IF l[1] = n /\ l[2] \in Targets(n, except) THEN Append(c[l], m) ELSE c[l]]

Reply(c, n, p, ms) == [c EXCEPT ![<<n, p>>] = @ \o ms]

(* The effect of Add on a node, and what goes out if the transaction is new. *)
Enqueue(c, n, tx, except) ==
    /\ pool' = [pool EXCEPT ![n] = Add(@, tx)]
    /\ chan' = IF IsNew(pool[n], tx) THEN Broadcast(c, n, TxMsg(tx), except) ELSE c
    /\ refused' = (refused \/ (Full(pool[n]) /\ tx \notin pool[n]))

-----------------------------------------------------------------------------
(* SubmitTx, first half: acceptTx finds that the nonce is not past. *)
Submit(n, tx) ==
    /\ n \in up /\ tx \in plan.txs \ sent
    /\ tx.nonce >= NonceOf(n, tx.from)
    /\ sent' = sent \cup {tx}
    /\ checked' = checked \cup {<<n, tx>>}
    /\ UNCHANGED <<plan, up, conn, chan, chain, have, pool, taken, faucet, calls, beats, crashes, refused>>

(* Second half: the pool, and the gossip.  Blocks may have come in between. *)
AddChecked(n, tx) ==
    /\ <<n, tx>> \in checked
    /\ checked' = checked \ {<<n, tx>>}
    /\ Enqueue(chan, n, tx, n)
    /\ UNCHANGED <<plan, up, conn, chain, have, taken, sent, faucet, calls, beats, crashes>>

(* FaucetSend, under faucetMu: pendingNonce reads the nonce ... *)
FaucetRead ==
    /\ Producer \in up /\ faucet = NoCall /\ calls < plan.calls
    /\ faucet' = NonceOf(Producer, Faucet)
    /\ calls' = calls + 1
    /\ UNCHANGED <<plan, up, conn, chan, chain, have, pool, checked, taken, sent, beats, crashes, refused>>

(* ... and adds what Take finds pending; a nonce that is past by now is    *)
(* refused by acceptTx.                                                    *)
PendingOf(a) ==
    {Cardinality({i \in DOMAIN q : q[i].from = a}) :
        q \in TakeUpTo(pool[Producer], NoncesAt(Producer), PoolMax)}

(* First a form that numbers the calls instead.                            *)
PendingNonceCalls(base, a) == {calls - 1}

PendingNonce(base, a) == {base + k : k \in PendingOf(a)}

FaucetSend ==
    /\ faucet # NoCall
    /\ faucet' = NoCall
    /\ \E nonce \in PendingNonce(faucet, Faucet) :
          IF nonce < NonceOf(Producer, Faucet)
          THEN UNCHANGED <<pool, chan, refused>>
          ELSE Enqueue(chan, Producer,
                       [from |-> Faucet, nonce |-> nonce, tip |-> 4, good |-> TRUE, id |-> calls],
                       Producer)
    /\ UNCHANGED <<plan, up, conn, chain, have, checked, taken, sent, calls, beats, crashes>>

(* ProduceOnce: what Take returns is executed; what fails is dropped from  *)
(* this pool, what applies too, and it makes the block.  A transaction     *)
(* that follows a failed one of the same account fails on its nonce: first *)
(* a form that forgets this.                                               *)
AppliesAlone(q, i) == q[i].good

Applies(q, i) == \A j \in 1..i : q[j].from = q[i].from => q[j].good

Keep(q, block, i) == IF Applies(q, i) THEN Append(block, q[i]) ELSE block

Executed(q) == FoldLeft(LAMBDA block, i : Keep(q, block, i), <<>>, [i \in DOMAIN q |-> i])

Produce(q) ==
    /\ Producer \in up
    /\ q = <<>> => beats < plan.beats
    /\ beats' = IF q = <<>> THEN beats + 1 ELSE beats
    /\ pool' = [pool EXCEPT ![Producer] = @ \ Range(q)]
    /\ chain' = Append(chain, Executed(q))
    /\ have' = [have EXCEPT ![Producer] = @ + 1]
    /\ chan' = Broadcast(chan, Producer, Block(Len(chain) + 1), Producer)
    /\ UNCHANGED <<plan, up, conn, checked, taken, sent, faucet, calls, crashes, refused>>

-----------------------------------------------------------------------------
(* The handler of the connection to p takes the next message. *)
Next1(p, n) ==
    /\ chan[<<p, n>>] # <<>>
    /\ n \in up

Rest(p, n) == [chan EXCEPT ![<<p, n>>] = Tail(@)]

Compatible(n, p) == Speaks[p].chain = Speaks[n].chain /\ Speaks[p].version >= MinProtocol

RequestFrom(n) == have[n] + 1

(* A peer of another chain or of an old version is dropped; a higher one   *)
(* is asked for its blocks.                                                *)
OnHello(p, n) ==
    LET m == Head(chan[<<p, n>>])
    IN  /\ Next1(p, n) /\ m.type = "hello"
        /\ IF Compatible(n, p)
           THEN /\ chan' = IF m.height > have[n]
                           THEN Reply(Rest(p, n), n, p, <<GetBlocks(RequestFrom(n))>>)
                           ELSE Rest(p, n)
                /\ UNCHANGED <<conn, taken>>
           ELSE /\ conn' = conn \ {<<p, n>>, <<n, p>>}
                /\ chan' = [chan EXCEPT ![<<p, n>>] = <<>>, ![<<n, p>>] = <<>>]
                /\ taken' = taken \ {<<p, n>>, <<n, p>>}
        /\ UNCHANGED <<plan, up, chain, have, pool, checked, sent, faucet, calls, beats, crashes, refused>>

(* A gossiped transaction: the checks of acceptTx, which drop one whose    *)
(* nonce is past ...                                                       *)
CheckTx(p, n) ==
    LET m == Head(chan[<<p, n>>])
    IN  /\ Next1(p, n) /\ m.type = "tx" /\ <<p, n>> \notin taken
        /\ IF m.tx.nonce < NonceOf(n, m.tx.from)
           THEN chan' = Rest(p, n) /\ UNCHANGED taken
           ELSE taken' = taken \cup {<<p, n>>} /\ UNCHANGED chan
        /\ UNCHANGED <<plan, up, conn, chain, have, pool, checked, sent, faucet, calls, beats, crashes, refused>>

(* ... and Add, with whatever came in between; a new one goes on.          *)
AddTx(p, n) ==
    LET m == Head(chan[<<p, n>>])
    IN  /\ Next1(p, n) /\ m.type = "tx" /\ <<p, n>> \in taken
        /\ taken' = taken \ {<<p, n>>}
        /\ Enqueue(Rest(p, n), n, m.tx, p)
        /\ UNCHANGED <<plan, up, conn, chain, have, checked, sent, faucet, calls, beats, crashes>>

OnTx(p, n) == CheckTx(p, n) \/ AddTx(p, n)

(* The next block is applied and its transactions leave the pool; a known  *)
(* one changes nothing; both go on.  A gap starts a synchronisation.       *)
OnBlock(p, n) ==
    LET m == Head(chan[<<p, n>>])
    IN  /\ Next1(p, n) /\ m.type = "block"
        /\ IF m.height > have[n] + 1
           THEN /\ chan' = Reply(Rest(p, n), n, p, <<GetBlocks(RequestFrom(n))>>)
                /\ UNCHANGED <<have, pool>>
           ELSE /\ chan' = Broadcast(Rest(p, n), n, m, p)
                /\ IF m.height <= have[n] THEN UNCHANGED <<have, pool>>
                   ELSE /\ have' = [have EXCEPT ![n] = @ + 1]
                        /\ pool' = [pool EXCEPT ![n] = @ \ Range(chain[m.height])]
        /\ UNCHANGED <<plan, up, conn, chain, checked, taken, sent, faucet, calls, beats, crashes, refused>>

(* A batch, from the height asked for: first a form that sends only full   *)
(* ones.                                                                   *)
BatchFull(n, from) ==
    [i \in {j \in 1..SyncBatch : from + SyncBatch - 1 <= have[n]} |-> Block(from + i - 1)]

Batch(n, from) ==
    [i \in 1..Cardinality({h \in 1..have[n] : h >= from /\ h < from + SyncBatch}) |->
        Block(from + i - 1)]

OnGetBlocks(p, n) ==
    LET m == Head(chan[<<p, n>>])
    IN  /\ Next1(p, n) /\ m.type = "get"
        /\ chan' = Reply(Rest(p, n), n, p, Batch(n, m.height))
        /\ UNCHANGED <<plan, up, conn, chain, have, pool, checked, taken, sent, faucet, calls, beats, crashes, refused>>

-----------------------------------------------------------------------------
(* A crash ends the connections, with the messages on their way or taken,  *)
(* and loses the pool; blocks are on disk.                                 *)
Crash(n) ==
    /\ n \in up /\ crashes < plan.crashes
    /\ up' = up \ {n}
    /\ conn' = {l \in conn : n \notin {l[1], l[2]}}
    /\ chan' = [l \in Links |-> IF n \in {l[1], l[2]} THEN <<>> ELSE chan[l]]
    /\ pool' = [pool EXCEPT ![n] = {}]
    /\ checked' = {c \in checked : c[1] # n}
    /\ taken' = {l \in taken : n \notin {l[1], l[2]}}
    /\ faucet' = IF n = Producer THEN NoCall ELSE faucet
    /\ crashes' = crashes + 1
    /\ UNCHANGED <<plan, chain, have, sent, calls, beats, refused>>

(* Start: a node dials its peers once, and both sides say hello.  Nobody   *)
(* dials a node that comes back.                                           *)
Start(n) ==
    LET new == {<<n, p>> : p \in Dials[n] \cap up} \cup {<<p, n>> : p \in Dials[n] \cap up}
    IN  /\ n \in plan.nodes \ up
        /\ up' = up \cup {n}
        /\ conn' = conn \cup new
        /\ chan' = [l \in Links |-> IF l \in new THEN <<Hello(have[l[1]])>> ELSE chan[l]]
        /\ UNCHANGED <<plan, chain, have, pool, checked, taken, sent, faucet, calls, beats, crashes, refused>>

Receive(l) ==
    \/ OnHello(l[1], l[2]) \/ OnTx(l[1], l[2])
    \/ OnBlock(l[1], l[2]) \/ OnGetBlocks(l[1], l[2])

Work == \E q \in Take(pool[Producer], NoncesAt(Producer)) : Produce(q)

Include == \E q \in Take(pool[Producer], NoncesAt(Producer)) : q # <<>> /\ Produce(q)

Next ==
    \/ \E n \in Entries, tx \in UserTxs : Submit(n, tx) \/ AddChecked(n, tx)
    \/ FaucetRead \/ FaucetSend
    \/ Work
    \/ \E l \in Links : Receive(l)
    \/ \E n \in Nodes : Crash(n) \/ Start(n)

(* Every connection has its goroutine, the ticker comes round while there  *)
(* is something to include, and a request that has begun ends.             *)
Fairness ==
    /\ \A l \in Links : WF_vars(Receive(l))
    /\ WF_vars(Include)
    /\ WF_vars(FaucetSend)
    /\ \A n \in Entries, tx \in UserTxs : WF_vars(AddChecked(n, tx))

Spec == Init /\ [][Next]_vars /\ Fairness

-----------------------------------------------------------------------------
MaxOf(budget) == LET P == CHOOSE p \in Plans : \A q \in Plans : q[budget] <= p[budget]
                 IN  P[budget]

FaucetTxs ==
    [from : {Faucet}, nonce : Nat, tip : {4}, good : {TRUE}, id : 1..MaxOf("calls")]

(* Nodes hold prefixes of the chain and pools within their limit, and      *)
(* messages travel on open connections only.                               *)
TypeOK ==
    /\ up \subseteq Nodes /\ checked \subseteq Entries \X UserTxs /\ taken \subseteq conn
    /\ \A n \in Nodes : /\ have[n] \in 0..Len(chain)
                        /\ pool[n] \subseteq UserTxs \cup FaucetTxs
                        /\ Cardinality(pool[n]) <= PoolMax
    /\ \A l \in Links : chan[l] # <<>> => l \in conn /\ {l[1], l[2]} \subseteq up
    /\ faucet # NoCall => Producer \in up

(* Whatever came in between, the chain takes the transactions of an        *)
(* account in the order of their nonces, each nonce once, and never one    *)
(* that fails: what Take returns can be executed in that order.            *)
History == FlattenSeq(chain)

NoncesInOrder ==
    \A i \in DOMAIN History :
        /\ History[i].good
        /\ History[i].nonce = Cardinality({j \in 1..(i-1) : History[j].from = History[i].from})

(* A transfer of the faucet never waits behind a nonce that nobody holds,  *)
(* however blocks and calls interleave (node.go:502), as long as what its  *)
(* node signed and lost in a crash does not come back: there is no cycle   *)
(* of connections.                                                         *)
FaucetNotStuck ==
    \A tx \in {t \in pool[Producer] : t.from = Faucet} :
        \A k \in NonceOf(Producer, Faucet)..(tx.nonce - 1) :
            k \in Nonces(pool[Producer], Faucet)

(* What a node accepted is included in the end, from any pool, as long as  *)
(* nothing was lost: no crash, no pool that was full, no hole below it.    *)
Included(tx) == tx \in Range(History) \/ NonceOf(Producer, tx.from) > tx.nonce

Hole(tx) ==
    \E k \in NonceOf(Producer, tx.from)..(tx.nonce - 1) :
        \A t \in sent : ~(t.good /\ t.from = tx.from /\ t.nonce = k)


(* A node that hears of a height it does not have, in a block or the hello *)
(* of a peer that will not drop it, gets ahead once the crashes are over:  *)
(* after a restart as well (p2p.go:369).                                   *)
Heard(n, k) ==
    \E p \in Peers(n) : \E i \in DOMAIN chan[<<p, n>>] :
        LET m == chan[<<p, n>>][i]
        IN  m.type \in {"block", "hello"} /\ m.height > k
            /\ Compatible(n, p) /\ Compatible(p, n)

CatchesUp ==
    \A n \in {m \in Nodes : Compatible(Producer, m)} \ {Producer},
       k \in 0..(MaxOf("beats") - 1) :
        (have[n] = k /\ crashes = plan.crashes /\ n \in up /\ Heard(n, k)) ~> (have[n] > k)

(* Without a cycle of connections gossip dies out.                         *)
GossipDiesOut == <>[](\A l \in Links : chan[l] = <<>>)
=============================================================================
