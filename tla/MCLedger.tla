------------------------------- MODULE MCLedger -------------------------------
(* Five small networks, one per family of transactions: 2 is a validator   *)
(* in each, 1 has money, 3 begins with little or nothing.                  *)
EXTENDS LedgerChain

MCParams ==
    [BlockIntervalMs |-> 1, InflationRateBps |-> 1000, MinBaseFee |-> 2,
     TargetBlockTxs |-> 1, BaseFeeChangeDenom |-> 2, PrivacyFeeMult |-> 3,
     TokenCreateFee |-> 2, MinValidatorStake |-> 10, UnbondingMs |-> 3,
     MinDelegation |-> 2, DelegationCommissionBps |-> 1000, ContractCreateFee |-> 1,
     SlashDoubleSignBps |-> 10000, DowntimeJailThreshold |-> 2, SlashDowntimeBps |-> 3300,
     JailMs |-> 3, WasmDeployFee |-> 1, WasmCallFee |-> 1, WasmGasLimit |-> 4, ShieldFee |-> 1]

MCPrograms ==
    [bank |-> [valid |-> TRUE,
               fns |-> [open  |-> <<<<"write", "open", 1>>>>,
                        draw  |-> <<<<"expect", "open", 1>>, <<"transfer", 3, 2>>,
                                    <<"transfer", 3, 2>>, <<"write", "open", 0>>>>,
                        fail  |-> <<<<"transfer", 3, 1>>, <<"write", "open", 0>>, <<"trap">>>>,
                        loop  |-> <<<<"transfer", 9, 1>>, <<"charge">>, <<"charge">>>>]],
     bad |-> [valid |-> FALSE, fns |-> <<>>]]

Tx(type, from) ==
    [type |-> type, from |-> from, amount |-> 0, tip |-> 0, max |-> 9,
     private |-> FALSE, signed |-> TRUE, skip |-> 0]

Amount(x) == [amount |-> x]

MCDocument(sc) ==
    [alloc |-> CASE sc = "tokens" -> (1 :> 25)
                 [] sc = "staking" -> (1 :> 30 @@ 2 :> 5 @@ 3 :> 30)
                 [] OTHER -> (1 :> 40 @@ 2 :> 20 @@ 3 :> 20),
     stakes |-> IF sc = "staking" THEN (1 :> 11 @@ 2 :> 40) ELSE (2 :> 40),
     vesting |-> IF sc = "contracts"
                 THEN {[beneficiary |-> 3, amount |-> 7, start |-> 1, end |-> 6]} ELSE {}]

Stakings ==
    {Amount(4) @@ [to |-> 1] @@ Tx("delegate", 3),
     Amount(2) @@ [to |-> 1] @@ Tx("undelegate", 3),
     Amount(11) @@ Tx("unstake", 1),
     Amount(10) @@ Tx("stake", 1),
     Amount(3) @@ [to |-> 1] @@ Tx("delegate", 2),
     Tx("unjail", 1)}

Tokens ==
    {Amount(5) @@ [to |-> 3, token |-> Native, tip |-> 1] @@ Tx("transfer", 1),
     Amount(1) @@ [to |-> 1, token |-> Native] @@ Tx("transfer", 3),
     Amount(1) @@ [to |-> 1, token |-> Native, private |-> TRUE, skip |-> 1] @@ Tx("transfer", 1),
     Amount(1) @@ [to |-> 2, token |-> Native, private |-> TRUE, max |-> 2] @@ Tx("transfer", 1),
     [token |-> [symbol |-> "TOK", supply |-> 4, mintable |-> TRUE]] @@ Tx("create_token", 1),
     Amount(3) @@ [to |-> 3, token |-> "TOK"] @@ Tx("transfer", 1),
     Amount(1) @@ [to |-> NoAddr, token |-> "TOK"] @@ Tx("mint", 3),
     Amount(2) @@ [to |-> 9, token |-> "TOK"] @@ Tx("mint", 1)}

Contract(template, x) == [template |-> template, token |-> Native, amount |-> x]

Creations ==
    {[contract |-> [beneficiary |-> 3, start |-> 2, end |-> 5] @@ Contract("vesting", 10)]
        @@ Tx("contract_create", 1),
     [contract |-> [seller |-> 3, arbiter |-> 2] @@ Contract("escrow", 8)]
        @@ Tx("contract_create", 1),
     [contract |-> [signers |-> <<1, 3>>, threshold |-> 2] @@ Contract("multisig", 6)]
        @@ Tx("contract_create", 1),
     [contract |-> [signers |-> <<1, 2, 3>>, threshold |-> 2] @@ Contract("dao", 6)]
        @@ Tx("contract_create", 1)}

Exec1(id, action, from) ==
    [id |-> id, action |-> action, to |-> 2, proposal |-> 1] @@ Tx("contract_exec", from)

Executions(s, id) ==
    LET t == s.ctr[id].template
    IN  CASE t = "vesting" -> {Exec1(id, "claim", 3), Exec1(id, "release", 1)}
          [] t = "escrow" -> {Exec1(id, "release", 1), Exec1(id, "refund", 3),
                              Exec1(id, "refund", 2)}
          [] OTHER -> {Amount(4) @@ Exec1(id, "propose", 1),
                       Amount(4) @@ Exec1(id, "propose", 3)}
                      \cup {[proposal |-> p] @@ Exec1(id, a, f) :
                                p \in 1..Len(s.ctr[id].proposals),
                                a \in {"approve", "reject"}, f \in {2, 3}}

Note(id, value) == [id |-> id, value |-> value]

(* A commitment may hide what is paid for it, more or less. *)
Shields == {Amount(x) @@ [note |-> n] @@ Tx("shield", 1) :
               n \in {Note(1, 5), Note(2, 3)}, x \in {2, 3, 5}}

(* The outputs of the last kind add up to 1 in the field. *)
Spends(s) ==
    LET cms  == Range(s.pool.cms)
        ins  == {<<n>> : n \in cms} \cup {<<n, m>> : n \in cms, m \in cms}
        outs == {<<>>, <<Note(3, 1)>>, <<Note(3, 1), Note(4, 2)>>,
                 <<Note(5, FieldOrder - 1), Note(4, 2)>>}
        root == {s.pool.cms, SubSeq(s.pool.cms, 1, Len(s.pool.cms) - 1)}
    IN  {[type |-> t, to |-> 3,
          spend |-> [root |-> r, ins |-> i, outs |-> o,
                     fee |-> (Values(i) - Values(o)) % FieldOrder]]
            @@ Tx("unshield", 1) :
            t \in {"shielded_transfer", "unshield"}, r \in root,
            i \in {x \in ins : Values(x) >= 3}, o \in outs}

Wasm(s) ==
    {[code |-> c] @@ Tx("wasm_deploy", 1) : c \in {"bank", "bad"}}
    \cup {Amount(x) @@ [id |-> i, action |-> f, gas |-> g] @@ Tx("wasm_call", 1) :
            i \in DOMAIN s.wasm, x \in {0, 3}, f \in {"open", "draw", "fail", "loop", "none"},
            g \in {0, 2}}

MCSubmitted(sc, s) ==
    CASE sc = "staking"   -> Stakings
      [] sc = "tokens"    -> Tokens
      [] sc = "contracts" ->
            (IF Cardinality(DOMAIN s.ctr) < 2 THEN Creations ELSE {})
                \cup UNION {Executions(s, i) : i \in DOMAIN s.ctr}
      [] sc = "shielded"  -> Shields \cup Spends(s)
      [] sc = "wasm"      -> Wasm(s)

Quiet == [evidence |-> <<>>, absent |-> <<>>]
MCConduct(sc) ==
    IF sc = "staking"
    THEN {Quiet, [Quiet EXCEPT !.evidence = <<[voter |-> 1, height |-> 1]>>],
          [Quiet EXCEPT !.absent = <<1>>]}
    ELSE {Quiet}

MCProposers(sc) == IF sc = "tokens" THEN {2, NoAddr} ELSE {2}
MCValidatorOnly(sc) == {2}
MCAdvances(sc) == IF sc = "contracts" THEN {2, -1} ELSE {2}
MCMaxBlocks(sc) == CASE sc = "tokens" -> 3 [] sc \in {"contracts", "staking"} -> 5 [] OTHER -> 4
MCMaxTxs(sc) == IF sc = "tokens" THEN 2 ELSE 1
=============================================================================
