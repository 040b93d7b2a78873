----------------------------- MODULE Transactions -----------------------------
(***************************************************************************)
(* What a transaction must look like before anybody looks at the ledger    *)
(* (internal/types/tx.go).  A transaction is a record with type, from,     *)
(* nonce, amount, tip, max, private, signed, and the fields of its type.   *)
(* signed stands for the key, the address and the signature agreeing.      *)
(***************************************************************************)
EXTENDS WasmContracts

StakingTypes  == {"stake", "unstake", "unjail", "delegate", "undelegate", "validator_profile"}
TokenTypes    == {"transfer", "create_token", "mint"}
ContractTypes == {"contract_create", "contract_exec"}
ShieldedTypes == {"shield", "shielded_transfer", "unshield"}
WasmTypes     == {"wasm_deploy", "wasm_call"}

(***************************************************************************)
(* What the decoder lets through: every field that is read is there and    *)
(* has its type.  Any name may stand where an address is expected.         *)
(***************************************************************************)
Notes == [id : Nat, value : Amounts]

ContractParams ==
    [template : {"vesting"}, token : Currencies, amount : Amounts,
     beneficiary : Nat, start : Int, end : Int]
    \cup [template : {"escrow"}, token : Currencies, amount : Amounts,
          seller : Nat, arbiter : Nat]
    \cup [template : {"multisig", "dao"}, token : Currencies, amount : Amounts,
          signers : Seq(Nat), threshold : Amounts]

Decoded(tx) ==
    /\ tx.type \in StakingTypes \cup TokenTypes \cup ContractTypes
                      \cup ShieldedTypes \cup WasmTypes
    /\ {tx.amount, tx.tip, tx.max} \subseteq Amounts
    /\ tx.nonce \in Nat
    /\ CASE tx.type \in {"transfer", "mint"} -> tx.token \in Currencies
         [] tx.type = "create_token"    -> tx.token.supply \in Amounts
         [] tx.type = "contract_create" -> tx.contract \in ContractParams
         [] tx.type = "contract_exec"   -> tx.proposal \in Int
         [] tx.type = "shield"          -> tx.note \in Notes
         [] tx.type \in {"shielded_transfer", "unshield"} ->
                tx.spend \in [root : Seq(Notes), ins : Seq(Notes), outs : Seq(Notes),
                              fee : Amounts]
         [] tx.type = "wasm_deploy" -> tx.code \in DOMAIN Programs
         [] OTHER -> TRUE

(* The parties of a vault or a treasury: all different, a quorum of them. *)
ValidMembers(c) ==
    /\ c.signers # <<>>
    /\ Range(c.signers) \subseteq Addr
    /\ IsInjective(c.signers)
    /\ c.threshold \in 1..Len(c.signers)

ValidContract(tx) ==
    LET c == tx.contract
    IN  /\ c.amount > 0
        /\ CASE c.template = "vesting" ->
                    c.beneficiary \in Addr /\ 0 < c.start /\ c.start < c.end
             [] c.template = "escrow" ->
                    /\ c.seller \in Addr \ {tx.from}
                    /\ c.arbiter \in Addr \cup {NoAddr}
             [] c.template \in {"multisig", "dao"} -> ValidMembers(c)

ValidAction(tx) ==
    /\ tx.action \in {"claim", "release", "refund", "propose", "approve", "reject"}
    /\ tx.action = "propose" => tx.to \in Addr /\ tx.amount > 0

(* ValidateBasic *)
ValidateBasic(tx) ==
    /\ tx.signed /\ tx.from \in Addr
    /\ tx.max # 0
    /\ CASE tx.type = "transfer" ->
                tx.to \in Addr /\ tx.amount > 0
         [] tx.type = "create_token" ->
                tx.token.symbol \in Symbols /\ tx.token.supply > 0
         [] tx.type = "mint" -> tx.token # Native /\ tx.amount > 0
         [] tx.type \in {"stake", "unstake"} -> tx.amount > 0
         [] tx.type \in {"delegate", "undelegate"} ->
                tx.to \in Addr \ {tx.from} /\ tx.amount > 0
         [] tx.type = "contract_create" -> ValidContract(tx)
         [] tx.type = "contract_exec"   -> ValidAction(tx)
         [] tx.type = "shield"          -> tx.amount > 0
         [] tx.type = "unshield"        -> tx.to \in Addr
         [] OTHER -> TRUE

(***************************************************************************)
(* VerifyAll: workers take the transactions of a batch one at a time, in   *)
(* any order; the batch fails if one of them does.                         *)
(***************************************************************************)
VerifyAll(txs) == \A i \in DOMAIN txs : ValidateBasic(txs[i])
=============================================================================
