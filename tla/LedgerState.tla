---------------------------- MODULE LedgerState -----------------------------
(***************************************************************************)
(* What the state machine of a node remembers (internal/state/state.go)    *)
(* and how the genesis document fills it (internal/genesis/genesis.go).    *)
(*                                                                         *)
(* A ledger is a record.  A Go map is a function on the keys that exist:   *)
(* an account that was merely looked up exists, and the state root shows   *)
(* it.  Addresses are numbers, so that "in sorted order" has a meaning.    *)
(* A contract is named by the sender and the nonce of the transaction that *)
(* created it: its hash covers both, and a pair is used once.              *)
(***************************************************************************)
EXTENDS Economics, Sequences, FiniteSets, SequencesExt

CONSTANTS
    Addr,       \* well-formed addresses, as numbers
    Symbols,    \* symbols of user tokens
    Native,     \* types.NativeToken
    NoAddr      \* the empty string where an address is optional

ASSUME NamesDiffer ==
    /\ Addr \subseteq Nat /\ IsFiniteSet(Addr)
    /\ NoAddr \in Nat \ Addr
    /\ Native \notin Symbols

Currencies == Symbols \cup {Native}

NewAccount == [bal |-> [t \in Currencies |-> 0], nonce |-> 0, staked |-> 0]

NewValidator ==
    [stake |-> 0, delegated |-> 0, delegators |-> <<>>,
     missed |-> 0, jailed |-> FALSE, until |-> 0]

(* Map assignment and delete: one key set, one key gone. *)
Put(f, k, e) == [x \in DOMAIN f \cup {k} |-> IF x = k THEN e ELSE f[x]]

Without(f, k) == [x \in DOMAIN f \ {k} |-> f[x]]

(* A set listed in a strict order: at i, the member that i - 1 come before. *)
Ranked(S, Before(_, _)) ==
    [i \in 1..Cardinality(S) |->
        CHOOSE a \in S : Cardinality({b \in S : Before(b, a)}) = i - 1]

InOrder(S) == Ranked(S, <)

EmptyLedger ==
    [acc |-> <<>>, tok |-> <<>>, val |-> <<>>, ctr |-> <<>>, wasm |-> <<>>,
     pool |-> [open |-> FALSE, cms |-> <<>>, nfs |-> {}, bal |-> 0],
     slashed |-> {}, unb |-> <<>>,
     supply |-> [total |-> 0, minted |-> 0, burned |-> 0],
     fee |-> Params.MinBaseFee, height |-> 0]

(* acct: looking an account up creates it. *)
Acct(s, a) ==
    IF a \in DOMAIN s.acc THEN s ELSE [s EXCEPT !.acc = Put(@, a, NewAccount)]

Credit(s, a, t, x) == [Acct(s, a) EXCEPT !.acc[a].bal[t] = Plus(@, x)]

Debit(s, a, t, x) == [s EXCEPT !.acc[a].bal[t] = Minus(@, x)]

BurnSupply(s, x) ==
    [s EXCEPT !.supply.total = Minus(@, x), !.supply.burned = Plus(@, x)]

MintSupply(s, x) ==
    [s EXCEPT !.supply.total = Plus(@, x), !.supply.minted = Plus(@, x)]

(* Mint and mintLocked: new money on an account. *)
Mint(s, a, x) == MintSupply(Credit(s, a, Native, x), x)

BalanceOf(s, a, t) == IF a \in DOMAIN s.acc THEN s.acc[a].bal[t] ELSE 0

NonceOf(s, a) == IF a \in DOMAIN s.acc THEN s.acc[a].nonce ELSE 0

Weight(v) == v.stake + v.delegated

ActiveWeight(v) == IF v.jailed THEN 0 ELSE Weight(v)

(* totalStakedLocked *)
TotalStaked(s) == SumFunction([a \in DOMAIN s.val |-> ActiveWeight(s.val[a])])

Entry(a, x, at) == [addr |-> a, amt |-> x, at |-> at]

(* A vesting contract as it is created. *)
Vesting(beneficiary, x, start, end, creator, token) ==
    [template |-> "vesting", creator |-> creator, token |-> token,
     amount |-> x, released |-> 0, beneficiary |-> beneficiary,
     start |-> start, end |-> end, status |-> "active"]

BootstrapStake(s, a, x) ==
    LET v == IF a \in DOMAIN s.val THEN s.val[a] ELSE NewValidator
        o == MintSupply(Acct(s, a), x)
    IN  [o EXCEPT !.acc[a].staked = Plus(@, x),
                  !.val = Put(@, a, [v EXCEPT !.stake = Plus(@, x)])]

BootstrapVesting(s, i, g) ==
    [MintSupply(s, g.amount) EXCEPT
        !.ctr = Put(@, <<NoAddr, i>>,
                    Vesting(g.beneficiary, g.amount, g.start, g.end, NoAddr, Native))]

(* Apply: the allocations, then the stakes, then the grants in the order of *)
(* their beneficiaries and amounts; the sort leaves ties open, and the      *)
(* dates settle them here.                                                  *)
GrantBefore(g, h) ==
    \/ g.beneficiary < h.beneficiary
    \/ /\ g.beneficiary = h.beneficiary
       /\ g.amount < h.amount
    \/ /\ g.beneficiary = h.beneficiary /\ g.amount = h.amount
       /\ \/ g.start < h.start
          \/ g.start = h.start /\ g.end < h.end

Sorted(grants) == Ranked(grants, GrantBefore)

Apply(doc) ==
    LET minted == FoldLeft(LAMBDA s, a : Mint(s, a, doc.alloc[a]),
                           EmptyLedger, InOrder(DOMAIN doc.alloc))
        staked == FoldLeft(LAMBDA s, a : BootstrapStake(s, a, doc.stakes[a]),
                           minted, InOrder(DOMAIN doc.stakes))
        grants == Sorted(doc.vesting)
    IN  FoldLeft(LAMBDA s, i : BootstrapVesting(s, i, grants[i]), staked,
                 [i \in 1..Len(grants) |-> i])

(* Validate: the documents an operator may start a network from. *)
ValidGenesis(doc) ==
    /\ Params.BlockIntervalMs > 0 /\ Params.MinValidatorStake > 0
    /\ DOMAIN doc.alloc \subseteq Addr
    /\ \A a \in DOMAIN doc.alloc : doc.alloc[a] \in Amounts \ {0}
    /\ DOMAIN doc.stakes \subseteq Addr
    /\ DOMAIN doc.stakes # {}
    /\ \A a \in DOMAIN doc.stakes :
          doc.stakes[a] \in Amounts /\ doc.stakes[a] >= Params.MinValidatorStake
    /\ IsFiniteSet(doc.vesting)
    /\ \A g \in doc.vesting :
          /\ g \in [beneficiary : Addr, amount : Amounts, start : Nat, end : Nat]
          /\ g.amount > 0
          /\ 0 < g.start /\ g.start < g.end
=============================================================================
