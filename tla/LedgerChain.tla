------------------------------ MODULE LedgerChain ------------------------------
(***************************************************************************)
(* A chain of blocks executed by their proposers, and what every follower  *)
(* gets when it replays them.  A scene names a genesis document and what   *)
(* the users of that network send.                                         *)
(***************************************************************************)
EXTENDS Ledger

CONSTANTS
    Scenes,
    Document(_),        \* the genesis document of a scene
    Submitted(_, _),    \* transactions sent in a scene and state, nonces left open
    Conduct(_),         \* what else a block may bring: evidence and absent proposers
    Proposers(_),
    Advances(_),        \* by how much the clock of a proposer may differ from the last
    MaxBlocks(_),
    MaxTxs(_)           \* MaxBlockTxs

ASSUME DocumentsValid == \A sc \in Scenes : ValidGenesis(Document(sc))

ASSUME BlocksTyped ==
    \A sc \in Scenes :
        /\ Advances(sc) \subseteq Int
        /\ \A c \in Conduct(sc) :
              /\ c.evidence \in Seq([voter : Nat, height : Nat])
              /\ c.absent \in Seq(Nat)

VARIABLES
    scene,
    ledger,     \* the state after the last block, at its proposer
    block,      \* the last block, as it is sent out
    steady      \* block times have never gone back

vars == <<scene, ledger, block, steady>>

Order(dir) ==
    [S \in SUBSET Addr |-> IF dir = "up" THEN InOrder(S) ELSE Reverse(InOrder(S))]

NoBlock == [txs |-> <<>>, evidence |-> <<>>, absent |-> <<>>, proposer |-> NoAddr, time |-> 0]

Init ==
    /\ scene \in Scenes
    /\ ledger = Apply(Document(scene))
    /\ block = NoBlock
    /\ steady = TRUE

(* Each sender numbers its transactions one after the other; skip leaves a *)
(* gap.                                                                    *)
Numbered(txs) ==
    [i \in DOMAIN txs |->
        Put(txs[i], "nonce",
            NonceOf(ledger, txs[i].from) + txs[i].skip
                + Cardinality({j \in 1..(i-1) : txs[j].from = txs[i].from}))]

Sent == UNION {[1..n -> Submitted(scene, ledger)] : n \in 0..MaxTxs(scene)}

Bodies ==
    {body \in {Numbered(txs) : txs \in Sent} :
        (\A i \in DOMAIN body : Decoded(body[i])) /\ VerifyAll(body)}

Clock(d) == IF block.time + d < 0 THEN 0 ELSE block.time + d

(* One block, executed leniently by its proposer; it carries what applied. *)
Produce(proposer, time, c, body, dir) ==
    /\ ledger.height < MaxBlocks(scene)
    /\ LET b == [txs |-> body, evidence |-> c.evidence, absent |-> c.absent,
                 proposer |-> proposer, time |-> time]
           r == Execute(ledger, b, Order(dir))
       IN  /\ ledger' = Commit(r.s)
           /\ block' = [b EXCEPT !.txs = r.applied]
           /\ steady' = (steady /\ time >= block.time)
    /\ UNCHANGED scene

Next ==
    \E proposer \in Proposers(scene), d \in Advances(scene),
       c \in Conduct(scene), body \in Bodies :
        \E dir \in IF c.evidence = <<>> THEN {"up"} ELSE {"up", "down"} :
            Produce(proposer, Clock(d), c, body, dir)

Spec == Init /\ [][Next]_vars

-----------------------------------------------------------------------------
(* The ledger keeps the shape the code relies on: no pool with notes that  *)
(* was never opened, validators and delegations only under addresses,      *)
(* amounts in a word.  A name that is no address may get an account, by a  *)
(* mint or from a program (tx.go:237, host.go:140); it never sends.        *)
TypeOK ==
    /\ \A a \in DOMAIN ledger.acc :
          /\ ledger.acc[a].bal \in [Currencies -> Amounts]
          /\ ledger.acc[a].staked \in Amounts
          /\ a \notin Addr => ledger.acc[a].nonce = 0 /\ ledger.acc[a].staked = 0
    /\ ~ledger.pool.open => ledger.pool = EmptyLedger.pool
    /\ DOMAIN ledger.val \subseteq Addr
    /\ \A v \in DOMAIN ledger.val : DOMAIN ledger.val[v].delegators \subseteq Addr

Sum(f) == SumFunction(f)

InAccounts(s, t) == Sum([a \in DOMAIN s.acc |-> s.acc[a].bal[t]])

InContracts(s, t) ==
    Sum([i \in DOMAIN s.ctr |-> IF s.ctr[i].token = t THEN Held(s.ctr[i]) ELSE 0])

(* What is locked up for good or for a time, in native coins. *)
Locked(s) ==
    s.pool.bal
        + Sum([v \in DOMAIN s.val |-> Weight(s.val[v])])
        + Sum([i \in DOMAIN s.unb |-> s.unb[i].amt])
        + Sum([w \in DOMAIN s.wasm |-> s.wasm[w].bal])

(* Every native coin there is. *)
Coins(s) == InAccounts(s, Native) + InContracts(s, Native) + Locked(s)

(* No block makes or loses a coin: what accounts, stakes, delegations,     *)
(* contracts, the pool and the unbonding queue hold is the supply, minted  *)
(* less burned.  In words it always adds up; as numbers, as long as block  *)
(* times do not go back (vested - Released, state.go:940).                 *)
SupplyConserved ==
    /\ ledger.supply.total = Minus(ledger.supply.minted, ledger.supply.burned)
    /\ Coins(ledger) % Word = ledger.supply.total
    /\ steady => Coins(ledger) = ledger.supply.total

(* The two records of a stake agree, and what a validator is said to have  *)
(* been delegated is the sum of its delegations, also after slashes that   *)
(* round each of them down.                                                *)
StakesAddUp ==
    /\ \A a \in DOMAIN ledger.acc : ledger.acc[a].staked = StakeOf(ledger, a)
    /\ \A v \in DOMAIN ledger.val :
          /\ v \in DOMAIN ledger.acc
          /\ ledger.val[v].delegated = Sum(ledger.val[v].delegators)
          /\ ledger.val[v].stake > 0

PaidBy(c) == {i \in DOMAIN c.proposals : c.proposals[i].executed}

(* A contract never pays more than it was created with, is closed when and *)
(* only when it has paid all, and a vault or a treasury has paid exactly   *)
(* the proposals a quorum of its members voted for, none of them twice.    *)
ContractsSolvent ==
    steady => \A i \in DOMAIN ledger.ctr :
        LET c == ledger.ctr[i]
        IN  /\ c.released <= c.amount
            /\ c.status = "completed" <=> c.released = c.amount
            /\ c.template \in {"multisig", "dao"} =>
                /\ Sum([p \in PaidBy(c) |-> c.proposals[p].amount]) = c.released
                /\ \A p \in DOMAIN c.proposals :
                      /\ c.proposals[p].executed =>
                            /\ Cardinality(c.proposals[p].for) >= c.threshold
                            /\ ~c.proposals[p].rejected
                      /\ c.proposals[p].for \cap c.proposals[p].against = {}

(* What unspent notes say they are worth, and how much of it the pool      *)
(* could not pay out.                                                      *)
Worth(notes) == Sum([n \in notes |-> n.value])

Debt(s) == Worth(Unspent(s)) - s.pool.bal

(* What a transaction pays into the pool, and by how much its notes claim  *)
(* more than was given for them: a deposit hides what it likes             *)
(* (state.go:1034), and a proof balances up to a multiple of FieldOrder.   *)
Deposit(tx) == IF tx.type = "shield" THEN tx.amount ELSE 0

Unpaid(tx) ==
    CASE tx.type = "shield" -> tx.note.value - tx.amount
      [] tx.type \in {"shielded_transfer", "unshield"} ->
            Values(tx.spend.outs) + tx.spend.fee - Values(tx.spend.ins)
      [] OTHER -> 0

Deposits(txs) == Sum([i \in DOMAIN txs |-> Deposit(txs[i])])

Claims(txs) == Sum([i \in DOMAIN txs |-> Unpaid(txs[i])])

(* The pool owes more than it has only by what the deposits and the proofs *)
(* of its blocks claim on their own: spends that share a note, that name   *)
(* it twice or that come again never take what other notes are worth.      *)
(* (The balance of the pool is a word; no deposit is above the supply.)    *)
PoolDebtExplained ==
    [][ledger.pool.bal + Deposits(block'.txs) < Word =>
          Debt(ledger') <= Debt(ledger) + Claims(block'.txs)]_vars

(* No token has units its creator did not issue, wherever they went        *)
(* afterwards (the total of a token is a word).                            *)
TokensAddUp ==
    \A t \in DOMAIN ledger.tok :
        (InAccounts(ledger, t) + InContracts(ledger, t)) % Word = ledger.tok[t].supply

-----------------------------------------------------------------------------
(* The replay of a block by a follower in the state before it. *)
Replay(s, b, dir) == Execute(s, b, Order(dir))

Used(s) == [a \in {x \in DOMAIN s.acc : s.acc[x] # NewAccount} |-> s.acc[a]]

Multiset(seq) ==
    [x \in Range(seq) |-> Cardinality({i \in DOMAIN seq : seq[i] = x})]

SameLedger(s, t) ==
    /\ Used(s) = Used(t)
    /\ Multiset(s.unb) = Multiset(t.unb)
    /\ [s EXCEPT !.acc = <<>>, !.unb = <<>>] = [t EXCEPT !.acc = <<>>, !.unb = <<>>]

(* What the proposer kept, a strict replay accepts, and it leads to the    *)
(* same money, validators and contracts, whatever the order of the         *)
(* follower's maps: dropping a transaction that fails leaves no trace but  *)
(* an empty account, and never one another transaction depends on.         *)
ReplayAgrees ==
    [][\A dir \in {"up", "down"} :
          LET r == Replay(ledger, block', dir)
          IN  r.ok /\ SameLedger(Commit(r.s), ledger')]_vars

(* Every follower finds the state root of the header (engine.go:326).      *)
FollowersAccept ==
    [][\A dir \in {"up", "down"} :
          LET r == Replay(ledger, block', dir)
          IN  r.ok /\ Commit(r.s) = ledger']_vars
=============================================================================
