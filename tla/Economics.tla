------------------------------ MODULE Economics ------------------------------
(***************************************************************************)
(* The rules of a chain and the arithmetic of its money                    *)
(* (internal/types/params.go).  Params is the record of the genesis        *)
(* document.  Amounts are unsigned machine integers: sums and differences  *)
(* wrap modulo Word, the products of MulDiv do not (big.Int).              *)
(***************************************************************************)
EXTENDS Integers

CONSTANTS
    Params,     \* the rules of the chain, one field per field of types.Params
    MsPerYear,  \* msPerYear, scaled down with the block interval
    Word        \* 2^64, scaled down: the first amount a machine word cannot hold

ParamNames ==
    {"BlockIntervalMs", "InflationRateBps", "MinBaseFee", "TargetBlockTxs",
     "BaseFeeChangeDenom", "PrivacyFeeMult", "TokenCreateFee",
     "MinValidatorStake", "UnbondingMs", "MinDelegation",
     "DelegationCommissionBps", "ContractCreateFee", "SlashDoubleSignBps",
     "DowntimeJailThreshold", "SlashDowntimeBps", "JailMs", "WasmDeployFee",
     "WasmCallFee", "WasmGasLimit", "ShieldFee"}

ASSUME ParamsAreNatural ==
    /\ Params \in [ParamNames -> Nat]
    /\ Params.BaseFeeChangeDenom # 0

ASSUME WordHoldsParams ==
    /\ Word \in Nat
    /\ \A p \in ParamNames : Params[p] < Word
    /\ MsPerYear \in Nat \ {0}

(* What an unsigned word holds. *)
Amounts == 0..(Word - 1)

Plus(a, b) == (a + b) % Word

Minus(a, b) == (a - b) % Word

(* MulDiv: the share a * b / c, rounded down; nothing when c is zero. *)
MulDiv(a, b, c) == IF c = 0 THEN 0 ELSE ((a * b) \div c) % Word

Bps(a, rate) == MulDiv(a, rate, 10000)

(* RewardPerBlock: the yearly inflation on the active weight, per block. *)
RewardPerBlock(staked) ==
    ((staked * Params.InflationRateBps * Params.BlockIntervalMs) \div 10000)
        \div MsPerYear

(* NextBaseFee: up when a block exceeds the target, down when it falls     *)
(* short, each division rounding down, never below the floor.              *)
NextBaseFee(current, txs) ==
    LET delta == ((current * (txs - Params.TargetBlockTxs))
                     \div Params.TargetBlockTxs) \div Params.BaseFeeChangeDenom
        next  == current + delta
    IN  IF Params.TargetBlockTxs = 0 THEN current
        ELSE IF next < Params.MinBaseFee THEN Params.MinBaseFee ELSE next
=============================================================================
