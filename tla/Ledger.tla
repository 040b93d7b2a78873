-------------------------------- MODULE Ledger --------------------------------
(***************************************************************************)
(* The state machine of a node: one block's worth of work                  *)
(* (internal/state/state.go, Execute and applyTx).  The proposer executes  *)
(* leniently, dropping what fails, and its block carries what it applied   *)
(* and its state root; every follower replays the block strictly and must  *)
(* find that root.                                                         *)
(***************************************************************************)
EXTENDS Staking, Contracts, ShieldedPool, WasmContracts, Transactions

(***************************************************************************)
(* Fees.  The base fee and the surcharges are burned, the tip goes to the  *)
(* proposer.                                                               *)
(***************************************************************************)
Surcharge(tx) ==
    CASE tx.type = "create_token"    -> Params.TokenCreateFee
      [] tx.type = "contract_create" -> Params.ContractCreateFee
      [] tx.type = "wasm_deploy"     -> Params.WasmDeployFee
      [] tx.type = "wasm_call"       -> Params.WasmCallFee
      [] tx.type \in ShieldedTypes   -> Params.ShieldFee
      [] OTHER -> 0

Burned(s, tx) ==
    Plus(s.fee + (IF tx.private THEN s.fee * Params.PrivacyFeeMult ELSE 0), Surcharge(tx))

Fee(s, tx) == Plus(Burned(s, tx), tx.tip)

(* The native coins a transaction takes besides its fees. *)
Spent(tx) ==
    CASE tx.type = "transfer" -> IF tx.token = Native THEN tx.amount ELSE 0
      [] tx.type \in {"stake", "delegate", "wasm_call", "shield"} -> tx.amount
      [] tx.type = "contract_create" ->
            IF tx.contract.token = Native THEN tx.contract.amount ELSE 0
      [] OTHER -> 0

(* The fees leave the sender, the tip arrives at the proposer, if any. *)
ChargeFee(s, tx, proposer) ==
    LET paid == BurnSupply(Debit(s, tx.from, Native, Fee(s, tx)), Burned(s, tx))
        tipped == IF proposer # NoAddr THEN Credit(paid, proposer, Native, tx.tip)
                  ELSE BurnSupply(paid, tx.tip)
    IN  [tipped EXCEPT !.acc[tx.from].nonce = @ + 1]

(***************************************************************************)
(* Tokens.                                                                 *)
(***************************************************************************)
TokenAllowed(s, tx) ==
    CASE tx.type = "transfer" ->
            tx.token # Native => /\ tx.token \in DOMAIN s.tok
                                 /\ BalanceOf(s, tx.from, tx.token) >= tx.amount
      [] tx.type = "create_token" -> tx.token.symbol \notin DOMAIN s.tok
      [] tx.type = "mint" -> /\ tx.token \in DOMAIN s.tok
                             /\ s.tok[tx.token].creator = tx.from
                             /\ s.tok[tx.token].mintable

CreateToken(s, tx) ==
    [Credit(s, tx.from, tx.token.symbol, tx.token.supply) EXCEPT
        !.tok = Put(@, tx.token.symbol,
                    [creator |-> tx.from, supply |-> tx.token.supply,
                     mintable |-> tx.token.mintable])]

(* A mint that does not count what it issues. *)
MintTokenUncounted(s, tx) ==
    Credit(s, IF tx.to # NoAddr THEN tx.to ELSE tx.from, tx.token, tx.amount)

MintToken(s, tx) ==
    [Credit(s, IF tx.to # NoAddr THEN tx.to ELSE tx.from, tx.token, tx.amount) EXCEPT
        !.tok[tx.token].supply = Plus(@, tx.amount)]

TokenEffect(s, tx) ==
    CASE tx.type = "transfer" ->
            Credit(Debit(s, tx.from, tx.token, tx.amount), tx.to, tx.token, tx.amount)
      [] tx.type = "create_token" -> CreateToken(s, tx)
      [] tx.type = "mint"         -> MintToken(s, tx)

(***************************************************************************)
(* applyTx: every check comes before the first change, but the sender's    *)
(* account exists from the first line on.                                  *)
(***************************************************************************)
Affordable(s, tx) ==
    /\ tx.nonce = s.acc[tx.from].nonce
    /\ tx.max >= s.fee
    /\ s.acc[tx.from].bal[Native] >= Plus(Fee(s, tx), Spent(tx))

Allowed(s, tx, time) ==
    CASE tx.type \in TokenTypes    -> TokenAllowed(s, tx)
      [] tx.type \in StakingTypes  -> StakingAllowed(s, tx, time)
      [] tx.type = "contract_create" -> CreateAllowed(s, tx)
      [] tx.type = "contract_exec"   -> ExecAllowed(s, tx, time)
      [] tx.type \in ShieldedTypes -> ShieldedAllowed(s, tx)
      [] tx.type \in WasmTypes     -> WasmAllowed(s, tx)

Effect(s, tx, time) ==
    CASE tx.type \in TokenTypes    -> TokenEffect(s, tx)
      [] tx.type \in StakingTypes  -> StakingEffect(s, tx, time)
      [] tx.type = "contract_create" -> Create(s, tx)
      [] tx.type = "contract_exec"   -> Exec(s, tx, time)
      [] tx.type \in ShieldedTypes -> ShieldedEffect(s, tx)
      [] tx.type \in WasmTypes     -> WasmEffect(s, tx)

(* A failing transaction that all the same uses up its nonce. *)
ApplyTxCounted(s, tx, proposer, time) ==
    LET seen == Acct(s, tx.from)
    IN  IF Affordable(seen, tx) /\ Allowed(seen, tx, time)
        THEN [ok |-> TRUE, s |-> ChargeFee(Effect(seen, tx, time), tx, proposer)]
        ELSE [ok |-> FALSE, s |-> [seen EXCEPT !.acc[tx.from].nonce = @ + 1]]

ApplyTx(s, tx, proposer, time) ==
    LET seen == Acct(s, tx.from)
    IN  IF Affordable(seen, tx) /\ Allowed(seen, tx, time)
        THEN [ok |-> TRUE, s |-> ChargeFee(Effect(seen, tx, time), tx, proposer)]
        ELSE [ok |-> FALSE, s |-> seen]

(***************************************************************************)
(* Execute.  order is the map order in which a slashed validator's         *)
(* delegations are released.                                               *)
(***************************************************************************)
(* ApplyTxs: what was applied, whether all of it was, and the state. *)
ApplyTxs(s, txs, proposer, time) ==
    FoldLeft(LAMBDA r, tx :
                LET o == ApplyTx(r.s, tx, proposer, time)
                IN  [s |-> o.s, ok |-> r.ok /\ o.ok,
                     applied |-> IF o.ok THEN Append(r.applied, tx) ELSE r.applied],
             [s |-> s, ok |-> TRUE, applied |-> <<>>], txs)

SlashAll(s, evidence, order, time) ==
    FoldLeft(LAMBDA t, f :
                Slash(t, f, IF f.voter \in DOMAIN t.val
                            THEN order[DOMAIN t.val[f.voter].delegators] ELSE <<>>, time),
             s, evidence)

Execute(s, b, order) ==
    LET released == ReleaseUnbonded(s, b.time)
        slashed  == SlashAll(released, b.evidence, order, b.time)
        counted  == IF b.proposer = NoAddr THEN slashed
                    ELSE ApplyDowntime(slashed, b.proposer, b.absent, b.time)
        r        == ApplyTxs(counted, b.txs, b.proposer, b.time)
        rewarded == IF b.proposer = NoAddr THEN r.s
                    ELSE DistributeReward(r.s, b.proposer, RewardPerBlock(TotalStaked(r.s)))
    IN  [r EXCEPT !.s = [rewarded EXCEPT !.fee = NextBaseFee(@, Len(r.applied))]]

(* Commit *)
Commit(s) == [s EXCEPT !.height = @ + 1]
=============================================================================
