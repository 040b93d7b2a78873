----------------------------- MODULE LedgerProofs -----------------------------
(***************************************************************************)
(* The proofs about whole blocks and the genesis, and the theorems about a *)
(* chain of blocks.  The last part shows where the debts of the shielded   *)
(* pool come from.                                                         *)
(***************************************************************************)
EXTENDS LedgerInvariants

-----------------------------------------------------------------------------
(* Transactions. *)

(* What the effect of a transaction may change; only the contract or the   *)
(* program of this name may be new.                                        *)
Acts(s, o, id, time) ==
    /\ Neutral(s, o)
    /\ SlashRates /\ StakesExact(s) => StakesExact(o)
    /\ DOMAIN o.ctr \cup DOMAIN o.wasm \subseteq DOMAIN s.ctr \cup DOMAIN s.wasm \cup {id}
    /\ AllSolvent(s, time) => AllSolvent(o, time)

(* Every transaction, by the family of its type. *)
LEMMA EffectStep ==
    ASSUME NEW s, Shape(s), NEW tx, Decoded(tx), ValidateBasic(tx), tx.from \in DOMAIN s.acc,
           NEW time \in Nat, Allowed(s, tx, time), Params.MinValidatorStake > 0,
           <<tx.from, tx.nonce>> \notin DOMAIN s.ctr \cup DOMAIN s.wasm
    PROVE  Acts(s, Effect(s, tx, time), <<tx.from, tx.nonce>>, time)
  <1> DEFINE o == Effect(s, tx, time)
             id == <<tx.from, tx.nonce>>
  <1>1. tx.type \in StakingTypes \cup TokenTypes \cup ContractTypes
                       \cup ShieldedTypes \cup WasmTypes
    BY DEF Decoded
  <1>2. CASE tx.type \in TokenTypes
    <2>1. o = TokenEffect(s, tx) /\ TokenAllowed(s, tx)
      BY <1>2 DEF Effect, Allowed, TokenTypes, StakingTypes, ShieldedTypes, WasmTypes
    <2> HIDE DEF o, id
    <2>2. Neutral(s, o) /\ SameStakes(s, o) /\ SameContracts(s, o)
      BY <1>2, <2>1, TokenStep
    <2>3. Settles(s, o)
      BY <2>2, SameSettles
    <2> QED BY <2>3 DEF Settles, Acts, SameContracts, AllSolvent, o, id
  <1>3. CASE tx.type \in StakingTypes
    <2>1. o = StakingEffect(s, tx, time) /\ StakingAllowed(s, tx, time)
      BY <1>3 DEF Effect, Allowed, TokenTypes, StakingTypes, ShieldedTypes, WasmTypes
    <2> HIDE DEF o, id
    <2>2. Settles(s, o)
      BY <1>3, <2>1, StakingStep
    <2> QED BY <2>2 DEF Settles, Acts, SameContracts, AllSolvent, o, id
  <1>4. CASE tx.type = "contract_create"
    <2>1. o = Create(s, tx)
      BY <1>4 DEF Effect, TokenTypes, StakingTypes, ShieldedTypes, WasmTypes
    <2>2. id \notin DOMAIN s.ctr
      OBVIOUS
    <2>3. /\ Neutral(s, Create(s, tx)) /\ SameStakes(s, Create(s, tx))
          /\ Becomes(s, Create(s, tx), id, Create(s, tx).ctr[id])
          /\ Solvent(Create(s, tx).ctr[id], time)
      BY <1>4, <2>2, CreateStep
    <2> HIDE DEF o, id
    <2>4. Settles(s, s) /\ (StakesExact(s) => StakesExact(o))
      BY <2>1, <2>3, SettlesItself, ExactSame DEF Neutral
    <2>5. /\ DOMAIN o.ctr = DOMAIN s.ctr \cup {id} /\ DOMAIN o.wasm = DOMAIN s.wasm
          /\ \A i \in DOMAIN s.ctr \ {id} : o.ctr[i] = s.ctr[i]
      BY <2>1, <2>3 DEF Becomes, Put
    <2>6. Neutral(s, o) /\ Solvent(o.ctr[id], time)
      BY <2>1, <2>3
    <2> QED BY <2>4, <2>5, <2>6 DEF Acts, AllSolvent, o, id
  <1>5. CASE tx.type = "contract_exec"
    <2>1. o = Exec(s, tx, time) /\ ExecAllowed(s, tx, time)
      BY <1>5 DEF Effect, Allowed, TokenTypes, StakingTypes, ShieldedTypes, WasmTypes
    <2> HIDE DEF o, id
    <2>2. Serves(s, o, tx.id, time) /\ tx.id \in DOMAIN s.ctr
      BY <1>5, <2>1, ExecStep
    <2>3. StakesExact(s) => StakesExact(o)
      BY <2>2, ExactSame DEF Serves, Neutral
    <2> QED BY <2>2, <2>3 DEF Serves, Acts, AllSolvent, o, id
  <1>6. CASE tx.type \in ShieldedTypes
    <2>1. o = ShieldedEffect(s, tx) /\ ShieldedAllowed(s, tx)
      BY <1>6 DEF Effect, Allowed, TokenTypes, StakingTypes, ShieldedTypes, WasmTypes
    <2> HIDE DEF o, id
    <2>2. Neutral(s, o) /\ SameStakes(s, o) /\ SameContracts(s, o)
      BY <1>6, <2>1, ShieldedStep
    <2>3. Settles(s, o)
      BY <2>2, SameSettles
    <2> QED BY <2>3 DEF Settles, Acts, SameContracts, AllSolvent, o, id
  <1>7. CASE tx.type = "wasm_deploy"
    <2>1. o = Deploy(s, tx)
      BY <1>7 DEF Effect, WasmEffect, TokenTypes, StakingTypes, ShieldedTypes, WasmTypes
    <2>2. id \notin DOMAIN s.wasm
      OBVIOUS
    <2>3. /\ Neutral(s, Deploy(s, tx)) /\ SameStakes(s, Deploy(s, tx))
          /\ Loads(s, Deploy(s, tx), id)
      BY <1>7, <2>2, DeployStep
    <2> HIDE DEF o, id
    <2>4. StakesExact(s) => StakesExact(o)
      BY <2>1, <2>3, ExactSame DEF Neutral
    <2> QED BY <2>1, <2>3, <2>4 DEF Loads, Acts, AllSolvent, o, id
  <1>8. CASE tx.type = "wasm_call"
    <2>1. o = Call(s, tx) /\ tx.id \in DOMAIN s.wasm
      BY <1>8 DEF Effect, WasmEffect, Allowed, WasmAllowed, TokenTypes, StakingTypes,
                  ShieldedTypes, WasmTypes
    <2>2. /\ Neutral(s, Call(s, tx)) /\ SameStakes(s, Call(s, tx))
          /\ Loads(s, Call(s, tx), tx.id)
      BY <2>1, CallStep
    <2> HIDE DEF o, id
    <2>3. StakesExact(s) => StakesExact(o)
      BY <2>1, <2>2, ExactSame DEF Neutral
    <2> QED BY <2>1, <2>2, <2>3 DEF Loads, Acts, AllSolvent, o, id
  <1> QED BY SMTT(40), <1>1, <1>2, <1>3, <1>4, <1>5, <1>6, <1>7, <1>8 DEF ContractTypes, WasmTypes

-----------------------------------------------------------------------------
(* What every part of a block's work keeps, at the time of the block. *)
Carries(s, o, time) ==
    /\ Shape(o) /\ IdsUsed(o)
    /\ Moves(s, o, Native, 0)
    /\ SlashRates /\ StakesExact(s) => StakesExact(o)
    /\ AllSolvent(s, time) => AllSolvent(o, time)

(* One step of a block after another. *)
LEMMA CarriesOn ==
    ASSUME NEW s, Shape(s), NEW o, NEW p, NEW time, Carries(s, o, time), Carries(o, p, time)
    PROVE  Carries(s, p, time)
  <1>1. Moves(s, p, Native, 0)
    BY NativeCurrency, MovesBack DEF Carries
  <1> QED BY <1>1 DEF Carries

(* Doing nothing carries. *)
LEMMA CarriesItself ==
    ASSUME NEW s, Shape(s), IdsUsed(s), NEW time
    PROVE  Carries(s, s, time)
  BY NoMove DEF Carries

(* What settles carries. *)
LEMMA SettlesCarries ==
    ASSUME NEW s, Shape(s), IdsUsed(s), NEW o, Settles(s, o), NEW time
    PROVE  Carries(s, o, time)
  BY DEF Carries, Settles, Neutral, Present, SameContracts, IdsUsed, AllSolvent

(* A transaction that fails leaves an account, at most. *)
LEMMA LookupStep ==
    ASSUME NEW s, Shape(s), IdsUsed(s), NEW a, NEW time
    PROVE  /\ Carries(s, Acct(s, a), time) /\ a \in DOMAIN Acct(s, a).acc
  <1> DEFINE o == Acct(s, a)
  <1>1. /\ Shape(o) /\ Pays(s, o) /\ Moves(s, o, Native, 0)
        /\ DOMAIN o.acc = DOMAIN s.acc \cup {a}
    BY AcctStep
  <1> HIDE DEF o
  <1>2. Present(s, o) /\ SameStakes(s, o) /\ SameContracts(s, o)
    BY <1>1, PaysPresent DEF SameContracts
  <1>3. Settles(s, o)
    BY <1>1, <1>2, SameSettles DEF Neutral
  <1> QED BY <1>1, <1>3, SettlesCarries DEF o

(* A transaction that is accepted uses up the nonce it names. *)
LEMMA AcceptedStep ==
    ASSUME NEW s, Shape(s), IdsUsed(s), NEW tx, Decoded(tx), ValidateBasic(tx),
           tx.from \in DOMAIN s.acc, NEW time \in Nat, NEW proposer,
           Affordable(s, tx), Allowed(s, tx, time), Params.MinValidatorStake > 0
    PROVE  Carries(s, ChargeFee(Effect(s, tx, time), tx, proposer), time)
  <1> DEFINE a == tx.from
             id == <<tx.from, tx.nonce>>
             e == Effect(s, tx, time)
             o == ChargeFee(e, tx, proposer)
  <1>1. a \in Addr /\ tx.nonce \in Nat /\ tx.nonce = NonceOf(s, a)
    BY DEF Decoded, ValidateBasic, Affordable, NonceOf
  <1>2. id \notin DOMAIN s.ctr \cup DOMAIN s.wasm
    <2>1. SUFFICES ASSUME id \in DOMAIN s.ctr \cup DOMAIN s.wasm PROVE FALSE
      OBVIOUS
    <2>2. tx.nonce < NonceOf(s, a)
      BY <1>1, <2>1 DEF IdsUsed
    <2> QED BY <1>1, <2>2
  <1>3. Acts(s, e, id, time)
    BY <1>2, EffectStep
  <1> HIDE DEF e, o
  <1>4. Shape(e) /\ Moves(s, e, Native, 0) /\ Present(s, e)
    BY <1>3 DEF Acts, Neutral
  <1>5. a \in DOMAIN e.acc
    BY <1>4 DEF Present
  <1>6. /\ Shape(o) /\ Moves(e, o, Native, 0) /\ SameStakes(e, o) /\ SameContracts(e, o)
        /\ DOMAIN e.acc \subseteq DOMAIN o.acc
        /\ NonceOf(o, a) = NonceOf(e, a) + 1
        /\ \A b \in Addr \ {a} : NonceOf(o, b) = NonceOf(e, b)
    BY <1>1, <1>4, <1>5, ChargeFeeStep DEF o
  <1>7. Moves(s, o, Native, 0)
    BY <1>4, <1>6, NativeCurrency, MovesBack
  <1>8. IdsUsed(o)
    <2> SUFFICES ASSUME NEW b \in Addr, NEW n \in Nat,
                        <<b, n>> \in DOMAIN o.ctr \cup DOMAIN o.wasm
                 PROVE  n < NonceOf(o, b)
      BY DEF IdsUsed
    <2>1. <<b, n>> \in DOMAIN s.ctr \cup DOMAIN s.wasm \cup {id}
      BY <1>3, <1>6 DEF Acts, SameContracts
    <2>2. NonceOf(e, b) = NonceOf(s, b) /\ NonceOf(e, a) = NonceOf(s, a)
      BY <1>1, <1>4 DEF Present
    <2>3. NonceOf(s, b) \in Nat
      BY DEF Shape, AccOK, Account, NonceOf
    <2>4. n <= NonceOf(s, b) /\ (b # a => n < NonceOf(s, b))
      <3>1. CASE <<b, n>> \in DOMAIN s.ctr \cup DOMAIN s.wasm
        <4>1. n < NonceOf(s, b)
          BY <3>1 DEF IdsUsed
        <4> QED BY <2>3, <4>1
      <3>2. CASE <<b, n>> = id
        <4>1. b = a /\ n = tx.nonce
          BY <3>2
        <4> QED BY <1>1, <4>1
      <3> QED BY <2>1, <3>1, <3>2
    <2> QED BY <1>6, <2>2, <2>3, <2>4
  <1>9. SlashRates /\ StakesExact(s) => StakesExact(o)
    <2>1. SlashRates /\ StakesExact(s) => StakesExact(e)
      BY <1>3 DEF Acts
    <2>2. StakesExact(e) => StakesExact(o)
      <3>1. SUFFICES ASSUME StakesExact(e) PROVE StakesExact(o)
        OBVIOUS
      <3> QED BY <1>6, <3>1 DEF StakesExact, StakeOf, SameStakes
    <2> QED BY <2>1, <2>2
  <1>10. AllSolvent(s, time) => AllSolvent(o, time)
    BY <1>3, <1>6 DEF Acts, AllSolvent, SameContracts
  <1> QED BY <1>6, <1>7, <1>8, <1>9, <1>10 DEF Carries, e, o

(* applyTx *)
LEMMA ApplyTxStep ==
    ASSUME NEW s, Shape(s), IdsUsed(s), NEW tx, Decoded(tx), ValidateBasic(tx),
           NEW time \in Nat, NEW proposer, Params.MinValidatorStake > 0
    PROVE  Carries(s, ApplyTx(s, tx, proposer, time).s, time)
  <1> DEFINE seen == Acct(s, tx.from)
             o == ApplyTx(s, tx, proposer, time).s
             p == ChargeFee(Effect(seen, tx, time), tx, proposer)
  <1>1. Carries(s, seen, time) /\ tx.from \in DOMAIN seen.acc
    BY LookupStep
  <1>2. o = IF Affordable(seen, tx) /\ Allowed(seen, tx, time) THEN p ELSE seen
    BY DEF ApplyTx
  <1> HIDE DEF seen, o
  <1>3. Shape(seen) /\ IdsUsed(seen)
    BY <1>1 DEF Carries
  <1>4. CASE Affordable(seen, tx) /\ Allowed(seen, tx, time)
    <2>1. Carries(seen, p, time)
      BY <1>1, <1>3, <1>4, AcceptedStep
    <2> HIDE DEF p
    <2>2. Carries(s, p, time)
      BY <1>1, <2>1, CarriesOn
    <2> QED BY <1>2, <1>4, <2>2 DEF o
  <1>5. CASE ~(Affordable(seen, tx) /\ Allowed(seen, tx, time))
    BY <1>1, <1>2, <1>5 DEF o
  <1> QED BY <1>4, <1>5

(* One transaction of a block. *)
ApplyOne(proposer, time, r, tx) ==
    LET o == ApplyTx(r.s, tx, proposer, time)
    IN  [s |-> o.s, ok |-> r.ok /\ o.ok,
         applied |-> IF o.ok THEN Append(r.applied, tx) ELSE r.applied]

Applying == INSTANCE Folding WITH Step <- ApplyOne

(* The transactions of a block. *)
LEMMA ApplyTxsStep ==
    ASSUME NEW s, Shape(s), IdsUsed(s), NEW txs, NEW n \in Nat, DOMAIN txs = 1..n,
           \A i \in 1..n : Decoded(txs[i]) /\ ValidateBasic(txs[i]),
           NEW time \in Nat, NEW proposer, Params.MinValidatorStake > 0
    PROVE  LET r == ApplyTxs(s, txs, proposer, time)
           IN  /\ "s" \in DOMAIN r /\ Len(r.applied) \in Nat
               /\ Carries(s, r.s, time)
  <1> DEFINE r == ApplyTxs(s, txs, proposer, time)
             b == [s |-> s, ok |-> TRUE, applied |-> <<>>]
             R == Range(txs)
  <1>1. r = Applying!Fold(proposer, time, b, txs)
    BY DEF ApplyTxs, Applying!Fold, FoldLeft, Applying!FoldLeft, MapThenFoldSet,
           Applying!MapThenFoldSet, Max, Applying!Max, ApplyOne
  <1>2. "s" \in DOMAIN b /\ b.applied \in Seq(R) /\ b.s = s
    OBVIOUS
  <1>3. \A i \in 1..n : txs[i] \in R
    BY DEF Range
  <1> HIDE DEF r, b, R
  <1>4. PICK f : /\ f[0] = b
                 /\ \A k \in 1..n : f[k] = ApplyOne(proposer, time, f[k - 1], txs[k])
                 /\ f[n] = Applying!Fold(proposer, time, b, txs)
    <2>1. Applying!Traced(proposer, time, b, n, txs)
      BY Applying!FoldTrace
    <2> QED BY <2>1 DEF Applying!Traced
  <1> DEFINE T == {k \in Nat : /\ "s" \in DOMAIN f[k] /\ f[k].applied \in Seq(R)
                               /\ Carries(s, f[k].s, time)}
  <1>5. 0 \in T
    BY <1>2, <1>4, CarriesItself
  <1>6. ASSUME NEW k \in 1..n, k - 1 \in T PROVE k \in T
    <2> DEFINE q == f[k - 1]
               tx == txs[k]
               o == ApplyTx(q.s, tx, proposer, time)
    <2>1. Carries(s, q.s, time) /\ q.applied \in Seq(R) /\ k \in Nat
      BY <1>6
    <2>2. Decoded(tx) /\ ValidateBasic(tx) /\ tx \in R
      BY <1>3
    <2>3. /\ "s" \in DOMAIN f[k] /\ f[k].s = o.s
          /\ f[k].applied = IF o.ok THEN Append(q.applied, tx) ELSE q.applied
      <3>1. f[k] = ApplyOne(proposer, time, q, tx)
        BY <1>4
      <3> HIDE DEF q, tx
      <3>2. f[k] = [s |-> o.s, ok |-> q.ok /\ o.ok,
                    applied |-> IF o.ok THEN Append(q.applied, tx) ELSE q.applied]
        BY <3>1 DEF ApplyOne
      <3> HIDE DEF o
      <3> QED BY <3>2
    <2> HIDE DEF q, tx
    <2>4. Shape(q.s) /\ IdsUsed(q.s)
      BY <2>1 DEF Carries
    <2>5. Carries(q.s, o.s, time)
      BY <2>2, <2>4, ApplyTxStep
    <2> HIDE DEF o
    <2>6. Carries(s, f[k].s, time)
      BY <2>1, <2>3, <2>5, CarriesOn
    <2>7. f[k].applied \in Seq(R)
      BY <2>1, <2>2, <2>3
    <2> QED BY <2>1, <2>3, <2>6, <2>7
  <1> HIDE DEF T
  <1>7. \A k \in 0..n : k \in T
    BY <1>5, <1>6, Positions
  <1>8. n \in T
    BY <1>7
  <1>9. "s" \in DOMAIN r /\ r.applied \in Seq(R) /\ Carries(s, r.s, time)
    BY <1>1, <1>4, <1>8 DEF T
  <1> QED BY <1>9 DEF r

-----------------------------------------------------------------------------
(* A block. *)

(* The base fee after it, and the height, are all a block adds by itself. *)
LEMMA BareStep ==
    ASSUME NEW s, Shape(s), NEW o, DOMAIN o = Fields, o.fee \in Nat, o.height \in Nat,
           SameBut(s, o, {"fee", "height"})
    PROVE  Settles(s, o)
  <1>1. /\ o.acc = s.acc /\ o.tok = s.tok /\ o.val = s.val /\ o.ctr = s.ctr
        /\ o.wasm = s.wasm /\ o.pool = s.pool /\ o.slashed = s.slashed /\ o.unb = s.unb
        /\ o.supply = s.supply
    BY DEF SameBut, Fields
  <1>2. Shape(o)
    BY <1>1 DEF Shape
  <1>3. Moves(s, o, Native, 0)
    BY <1>1, StillMoves
  <1>4. Present(s, o) /\ SameStakes(s, o) /\ SameContracts(s, o)
    BY <1>1 DEF Present, SameStakes, SameContracts, NonceOf, StakedOf
  <1> QED BY <1>2, <1>3, <1>4, SameSettles DEF Neutral

(* Commit: the height grows. *)
LEMMA CommitStep ==
    ASSUME NEW s, Shape(s)
    PROVE  Settles(s, Commit(s))
  <1> DEFINE h == s.height + 1
             o == Commit(s)
  <1>1. DOMAIN s = Fields /\ s.fee \in Nat /\ h \in Nat
    BY DEF Shape
  <1>2. o = [s EXCEPT !.height = h]
    BY DEF Commit
  <1> HIDE DEF h, o
  <1>3. DOMAIN o = Fields /\ o.height = h /\ \A g \in Fields \ {"height"} : o[g] = s[g]
    BY <1>1, <1>2 DEF Fields
  <1>4. SameBut(s, o, {"fee", "height"}) /\ o.fee = s.fee
    BY <1>3 DEF SameBut, Fields
  <1> QED BY <1>1, <1>3, <1>4, BareStep DEF o

(* The base fee is a natural number. *)
LEMMA NextBaseFeeType ==
    ASSUME NEW fee \in Nat, NEW n \in Nat
    PROVE  NextBaseFee(fee, n) \in Nat
  <1> DEFINE t == Params.TargetBlockTxs
             d == Params.BaseFeeChangeDenom
             m == Params.MinBaseFee
             p == fee * (n - t)
             q == p \div t
             delta == q \div d
             next == fee + delta
  <1>1. t \in Nat /\ d \in Nat /\ d # 0 /\ m \in Nat
    BY ParamsAreNatural DEF ParamNames
  <1>2. NextBaseFee(fee, n) =
            IF t = 0 THEN fee ELSE IF next < m THEN m ELSE next
    BY DEF NextBaseFee
  <1> HIDE DEF t, d, m
  <1>3. n - t \in Int
    BY <1>1
  <1>4. p \in Int
    BY <1>3
  <1> HIDE DEF p
  <1>5. CASE t = 0
    BY <1>2, <1>5
  <1>6. CASE t # 0
    <2>1. q \in Int
      BY <1>1, <1>4, <1>6, Remainder
    <2> HIDE DEF q
    <2>2. delta \in Int
      BY <1>1, <2>1, Remainder
    <2> HIDE DEF delta
    <2>3. next \in Int
      BY <2>2
    <2> HIDE DEF next
    <2>4. CASE next < m
      BY <1>1, <1>2, <1>6, <2>4
    <2>5. CASE ~(next < m)
      <3>1. next \in Nat
        BY <1>1, <2>3, <2>5
      <3> QED BY <1>2, <1>6, <2>5, <3>1
    <2> QED BY <2>4, <2>5
  <1> QED BY <1>5, <1>6

(* The reward of a block is a number. *)
LEMMA RewardType ==
    ASSUME NEW s, Shape(s)
    PROVE  RewardPerBlock(TotalStaked(s)) \in Int
  <1> DEFINE w == TotalStaked(s)
             r == Params.InflationRateBps
             b == Params.BlockIntervalMs
             p == w * r
             q == p * b
             y == q \div 10000
  <1>1. w \in Int
    <2> DEFINE f == [a \in DOMAIN s.val |-> ActiveWeight(s.val[a])]
    <2>1. IsFiniteSet(DOMAIN f)
      <3>1. DOMAIN s.val \subseteq Addr
        BY DEF Shape, ValOK
      <3> QED BY <3>1, NamesDiffer, FS_Subset
    <2>2. \A a \in DOMAIN f : f[a] \in Int
      <3>1. ASSUME NEW e, ValidatorOK(e) PROVE ActiveWeight(e) \in Int
        <4>1. e.stake \in Int /\ e.delegated \in Int
          BY <3>1, WordType DEF ValidatorOK
        <4> QED BY <4>1 DEF ActiveWeight, Weight
      <3>2. \A v \in DOMAIN s.val : ValidatorOK(s.val[v])
        BY DEF Shape, ValOK
      <3> QED BY <3>1, <3>2
    <2>3. w = SumFunction(f)
      BY DEF TotalStaked
    <2> HIDE DEF f
    <2> QED BY <2>1, <2>2, <2>3, SumType
  <1>2. r \in Nat /\ b \in Nat /\ MsPerYear \in Nat /\ MsPerYear > 0
    BY ParamsAreNatural, WordHoldsParams DEF ParamNames
  <1>3. RewardPerBlock(w) = y \div MsPerYear
    BY DEF RewardPerBlock
  <1> HIDE DEF w, r, b
  <1>4. p \in Int
    BY <1>1, <1>2
  <1> HIDE DEF p
  <1>5. q \in Int
    BY <1>2, <1>4
  <1> HIDE DEF q
  <1>6. y \in Int
    BY <1>5, Remainder
  <1> HIDE DEF y
  <1>7. y \div MsPerYear \in Int
    BY <1>2, <1>6, Remainder
  <1> QED BY <1>3, <1>7 DEF w

(* The order in which a map may be walked. *)
LEMMA OrdersOK ==
    ASSUME NEW dir
    PROVE  OrderOK(Order(dir))
  <1> SUFFICES ASSUME NEW S \in SUBSET Addr PROVE Lists(Order(dir)[S], S)
    BY DEF OrderOK
  <1>1. IsFiniteSet(S) /\ S \subseteq Nat
    BY NamesDiffer, FS_Subset
  <1>2. Lists(InOrder(S), S)
    BY <1>1, InOrderLists
  <1>3. Lists(Reverse(InOrder(S)), S)
    BY <1>1, <1>2, ReverseLists
  <1> QED BY <1>2, <1>3 DEF Order

(* A block as a proposer may make it. *)
BlockOK(b) ==
    /\ b.time \in Nat
    /\ b.evidence \in Seq([voter : Nat, height : Nat])
    /\ b.absent \in Seq(Nat)
    /\ \E n \in Nat : /\ DOMAIN b.txs = 1..n
                      /\ \A i \in 1..n : Decoded(b.txs[i]) /\ ValidateBasic(b.txs[i])

(* Execute *)
LEMMA ExecuteBlockStep ==
    ASSUME NEW s, Shape(s), IdsUsed(s), NEW b, BlockOK(b), NEW order, OrderOK(order),
           Params.MinValidatorStake > 0
    PROVE  Carries(s, Execute(s, b, order).s, b.time)
  <1> DEFINE p == b.proposer
             t == b.time
             released == ReleaseUnbonded(s, t)
             slashed == SlashAll(released, b.evidence, order, t)
             counted == IF p = NoAddr THEN slashed ELSE ApplyDowntime(slashed, p, b.absent, t)
             r == ApplyTxs(counted, b.txs, p, t)
             rewarded == IF p = NoAddr THEN r.s
                         ELSE DistributeReward(r.s, p, RewardPerBlock(TotalStaked(r.s)))
             x == NextBaseFee(rewarded.fee, Len(r.applied))
             o == [rewarded EXCEPT !.fee = x]
  <1>1. /\ t \in Nat /\ b.evidence \in Seq([voter : Nat, height : Nat])
        /\ b.absent \in Seq(Nat)
    BY DEF BlockOK
  <1>2. Execute(s, b, order) = [r EXCEPT !.s = [rewarded EXCEPT !.fee = NextBaseFee(@, Len(r.applied))]]
    BY DEF Execute
  <1>3. [rewarded EXCEPT !.fee = NextBaseFee(@, Len(r.applied))] = o
    <2> HIDE DEF rewarded, r
    <2> QED OBVIOUS
  <1>4. Carries(s, released, t)
    BY ReleaseSettles, SettlesCarries
  <1> HIDE DEF released
  <1>5. Carries(s, slashed, t)
    <2>1. Shape(released) /\ IdsUsed(released)
      BY <1>4 DEF Carries
    <2>2. Settles(released, slashed)
      BY <1>1, <2>1, SlashAllStep
    <2> HIDE DEF slashed
    <2>3. Carries(released, slashed, t)
      BY <2>1, <2>2, SettlesCarries
    <2> QED BY <1>4, <2>3, CarriesOn
  <1> HIDE DEF slashed
  <1>6. Carries(s, counted, t)
    <2>1. Shape(slashed) /\ IdsUsed(slashed)
      BY <1>5 DEF Carries
    <2>2. Settles(slashed, counted)
      BY <1>1, <2>1, ApplyDowntimeStep, SettlesItself
    <2> HIDE DEF counted
    <2>3. Carries(slashed, counted, t)
      BY <2>1, <2>2, SettlesCarries
    <2> QED BY <1>5, <2>3, CarriesOn
  <1> HIDE DEF counted
  <1>7. "s" \in DOMAIN r /\ Len(r.applied) \in Nat /\ Carries(s, r.s, t)
    <2>1. Shape(counted) /\ IdsUsed(counted)
      BY <1>6 DEF Carries
    <2>2. PICK n \in Nat : /\ DOMAIN b.txs = 1..n
                           /\ \A i \in 1..n : Decoded(b.txs[i]) /\ ValidateBasic(b.txs[i])
      BY DEF BlockOK
    <2> DEFINE txs == b.txs
    <2>3. DOMAIN txs = 1..n /\ \A i \in 1..n : Decoded(txs[i]) /\ ValidateBasic(txs[i])
      BY <2>2
    <2> HIDE DEF txs, t, p
    <2>4. LET q == ApplyTxs(counted, txs, p, t)
          IN  "s" \in DOMAIN q /\ Len(q.applied) \in Nat /\ Carries(counted, q.s, t)
      BY <1>1, <2>1, <2>3, ApplyTxsStep
    <2>5. "s" \in DOMAIN r /\ Len(r.applied) \in Nat /\ Carries(counted, r.s, t)
      BY <2>4 DEF txs
    <2> HIDE DEF r
    <2> QED BY <1>6, <2>5, CarriesOn
  <1>8. Execute(s, b, order).s = o
    <2> HIDE DEF r, rewarded, o
    <2> QED BY <1>2, <1>3, <1>7
  <1> HIDE DEF r
  <1>9. Carries(s, rewarded, t)
    <2>1. Shape(r.s) /\ IdsUsed(r.s)
      BY <1>7 DEF Carries
    <2>2. Settles(r.s, rewarded)
      <3>1. RewardPerBlock(TotalStaked(r.s)) \in Int
        BY <2>1, RewardType
      <3> QED BY <2>1, <3>1, DistributeRewardStep, SettlesItself
    <2> HIDE DEF rewarded
    <2>3. Carries(r.s, rewarded, t)
      BY <2>1, <2>2, SettlesCarries
    <2> QED BY <1>7, <2>3, CarriesOn
  <1> HIDE DEF rewarded
  <1>10. Shape(rewarded) /\ IdsUsed(rewarded)
    BY <1>9 DEF Carries
  <1>11. x \in Nat
    BY <1>7, <1>10, NextBaseFeeType DEF Shape
  <1> HIDE DEF x
  <1>12. /\ DOMAIN rewarded = Fields /\ DOMAIN o = Fields /\ o.fee = x
         /\ \A g \in Fields \ {"fee"} : o[g] = rewarded[g]
    BY <1>10 DEF Shape, Fields
  <1> HIDE DEF o
  <1>13. /\ DOMAIN o = Fields /\ o.fee \in Nat /\ o.height \in Nat
         /\ SameBut(rewarded, o, {"fee", "height"})
    BY <1>10, <1>11, <1>12 DEF Shape, SameBut, Fields
  <1>14. Settles(rewarded, o)
    BY <1>10, <1>13, BareStep
  <1>15. Carries(rewarded, o, t)
    BY <1>10, <1>14, SettlesCarries
  <1>16. Carries(s, o, t)
    BY <1>9, <1>15, CarriesOn
  <1> QED BY <1>8, <1>16

-----------------------------------------------------------------------------
(* The genesis. *)

(* A ledger as it is being filled: V are the validators so far, n the      *)
(* number of the grants.                                                   *)
Begun(s, V, n) ==
    /\ Shape(s) /\ Balanced(s) /\ StakesExact(s) /\ AllSolvent(s, 0)
    /\ DOMAIN s.val = V
    /\ DOMAIN s.ctr = {<<NoAddr, i>> : i \in 1..n} /\ DOMAIN s.wasm = {}

(* No grant has the name of a contract a user may create. *)
LEMMA BegunIds ==
    ASSUME NEW s, NEW V, NEW n, Begun(s, V, n)
    PROVE  IdsUsed(s)
  BY NamesDiffer DEF Begun, IdsUsed

(* The ledger before its genesis. *)
LEMMA EmptyBegun == Begun(EmptyLedger, {}, 0)
  <1> DEFINE s == EmptyLedger
  <1>1. /\ DOMAIN s = Fields /\ s.acc = <<>> /\ s.tok = <<>> /\ s.val = <<>> /\ s.ctr = <<>>
        /\ s.wasm = <<>> /\ s.pool = [open |-> FALSE, cms |-> <<>>, nfs |-> {}, bal |-> 0]
        /\ s.unb = <<>> /\ s.supply = [total |-> 0, minted |-> 0, burned |-> 0]
        /\ s.fee = Params.MinBaseFee /\ s.height = 0
    BY DEF EmptyLedger, Fields
  <1>2. s.pool = EmptyLedger.pool
    OBVIOUS
  <1> HIDE DEF s
  <1>3. DOMAIN <<>> = {} /\ IsFiniteSet({}) /\ 0 \in Amounts
    BY FS_EmptySet, WordType
  <1>4. Params.MinBaseFee \in Nat
    BY ParamsAreNatural DEF ParamNames
  <1>5. Shape(s)
    <2>1. SupplyOK(s.supply)
      <3>1. Minus(0, 0) = 0
        BY <1>3, MinusExact
      <3> QED BY <1>1, <1>3, <3>1 DEF SupplyOK
    <2>2. PoolOK(s.pool)
      BY <1>1, <1>2, <1>3 DEF PoolOK
    <2>3. AccOK(s.acc) /\ TokOK(s.tok) /\ ValOK(s.val) /\ CtrOK(s.ctr) /\ WasmOK(s.wasm)
      BY <1>1, <1>3 DEF AccOK, TokOK, ValOK, CtrOK, WasmOK
    <2>4. s.unb \in Seq(Entries) /\ s.fee \in Nat /\ s.height \in Nat
      BY <1>1, <1>4
    <2> QED BY <1>1, <2>1, <2>2, <2>3, <2>4 DEF Shape
  <1>6. Balanced(s)
    <2>1. \A f : DOMAIN f = {} => Sum(f) = 0
      BY SumOfNone DEF Sum, SumFunction
    <2>2. SUFFICES ASSUME NEW t \in Currencies PROVE Gap(s, t) = 0
      BY DEF Balanced, Same, Congruent
    <2>3. InAccounts(s, t) = 0
      <3> DEFINE f == [a \in DOMAIN s.acc |-> s.acc[a].bal[t]]
      <3>1. DOMAIN f = {}
        BY <1>1, <1>3
      <3> HIDE DEF f
      <3>2. Sum(f) = 0
        BY <2>1, <3>1
      <3> QED BY <3>2 DEF InAccounts, f
    <2>4. InContracts(s, t) = 0
      <3> DEFINE f == [i \in DOMAIN s.ctr |-> IF s.ctr[i].token = t THEN Held(s.ctr[i]) ELSE 0]
      <3>1. DOMAIN f = {}
        BY <1>1, <1>3
      <3> HIDE DEF f
      <3>2. Sum(f) = 0
        BY <2>1, <3>1
      <3> QED BY <3>2 DEF InContracts, f
    <2>5. Locked(s) = 0
      <3> DEFINE f == [v \in DOMAIN s.val |-> Weight(s.val[v])]
                 g == [i \in DOMAIN s.unb |-> s.unb[i].amt]
                 h == [w \in DOMAIN s.wasm |-> s.wasm[w].bal]
      <3>1. DOMAIN f = {} /\ DOMAIN g = {} /\ DOMAIN h = {}
        BY <1>1, <1>3
      <3>2. Locked(s) = s.pool.bal + Sum(f) + Sum(g) + Sum(h) /\ s.pool.bal = 0
        BY <1>1 DEF Locked
      <3> HIDE DEF f, g, h
      <3>3. Sum(f) = 0 /\ Sum(g) = 0 /\ Sum(h) = 0
        BY <2>1, <3>1
      <3> QED BY <3>2, <3>3
    <2>6. Owed(s, t) = 0
      BY <1>1, <1>3 DEF Owed
    <2> QED BY <2>3, <2>4, <2>5, <2>6 DEF Gap
  <1>7. StakesExact(s) /\ AllSolvent(s, 0)
    BY <1>1, <1>3 DEF StakesExact, StakedOf, StakeOf, AllSolvent
  <1>8. {<<NoAddr, i>> : i \in 1..0} = {}
    OBVIOUS
  <1> QED BY <1>1, <1>3, <1>5, <1>6, <1>7, <1>8 DEF Begun, s

(* An allocation. *)
LEMMA AllocationStep ==
    ASSUME NEW s, Begun(s, {}, 0), NEW a, NEW x \in Int
    PROVE  Begun(Mint(s, a, x), {}, 0)
  <1> DEFINE o == Mint(s, a, x)
  <1>1. Shape(s) /\ Balanced(s) /\ StakesExact(s) /\ AllSolvent(s, 0)
    BY DEF Begun
  <1>2. Settles(s, o) /\ SameStakes(s, o)
    BY <1>1, MintStep
  <1> HIDE DEF o
  <1>3. Neutral(s, o) /\ SameContracts(s, o)
    BY <1>2 DEF Settles
  <1>4. Balanced(o) /\ StakesExact(o)
    BY <1>1, <1>2, <1>3, NeutralBalances, ExactSame DEF Neutral
  <1>5. AllSolvent(o, 0)
    BY <1>1, <1>3 DEF AllSolvent, SameContracts
  <1>6. Begun(o, {}, 0)
    BY <1>2, <1>3, <1>4, <1>5 DEF Begun, SameStakes, SameContracts, Neutral
  <1> QED BY <1>6 DEF o

(* A stake of the genesis document. *)
LEMMA BootstrapStakeStep ==
    ASSUME NEW s, NEW V, Begun(s, V, 0), NEW a \in Addr, a \notin V,
           NEW x \in Amounts, x > 0
    PROVE  Begun(BootstrapStake(s, a, x), V \cup {a}, 0)
  <1> DEFINE v == IF a \in DOMAIN s.val THEN s.val[a] ELSE NewValidator
             r == Acct(s, a)
             d == MintSupply(r, x)
             y == Plus(v.stake, x)
             z == Plus(d.acc[a].staked, x)
             w == [v EXCEPT !.stake = y]
             acc == [d.acc EXCEPT ![a].staked = z]
             o == BootstrapStake(s, a, x)
  <1>1. x \in Int /\ x \in Nat /\ x < Word
    BY WordType
  <1>2. Shape(s) /\ Balanced(s) /\ StakesExact(s) /\ AllSolvent(s, 0) /\ DOMAIN s.val = V
    BY DEF Begun
  <1>3. /\ Shape(r) /\ Pays(s, r) /\ Moves(s, r, Native, 0)
        /\ DOMAIN r.acc = DOMAIN s.acc \cup {a}
    BY <1>2, AcctStep
  <1>4. v = NewValidator
    BY <1>2
  <1>5. o = [d EXCEPT !.acc[a].staked = z, !.val = Put(d.val, a, w)]
    BY DEF BootstrapStake
  <1> HIDE DEF r, o
  <1>6. Shape(d) /\ SameBut(r, d, {"supply"}) /\ Moves(r, d, Native, -x)
    BY <1>1, <1>3, MintSupplyStep
  <1> HIDE DEF d
  <1>7. /\ Present(s, d) /\ SameStakes(s, d) /\ SameContracts(s, d) /\ a \in DOMAIN d.acc
    <2>1. Present(s, r) /\ SameStakes(s, r) /\ r.ctr = s.ctr /\ r.wasm = s.wasm
      BY <1>3, PaysPresent
    <2>2. d.acc = r.acc /\ d.val = r.val /\ d.ctr = r.ctr /\ d.wasm = r.wasm
      BY <1>6 DEF SameBut, Fields
    <2> QED BY <1>3, <2>1, <2>2 DEF Present, SameStakes, SameContracts, NonceOf, StakedOf
  <1>8. ValidatorOK(v) /\ v.stake = 0 /\ Weight(v) = 0
    BY <1>4, NewValidatorOK
  <1>9. y = x /\ y \in Amounts
    <2>1. 0 \in Nat /\ x \in Nat /\ 0 + x < Word
      BY <1>1
    <2>2. Plus(0, x) = 0 + x
      BY <2>1, PlusExact
    <2> QED BY <1>1, <1>8, <2>2
  <1>10. StakedOf(d, a) = 0 /\ z = x
    <2>1. StakedOf(s, a) = 0
      BY <1>2 DEF StakesExact, StakeOf
    <2>2. StakedOf(d, a) = 0 /\ d.acc[a].staked = 0
      BY <1>7, <2>1 DEF SameStakes, StakedOf
    <2> QED BY <1>8, <1>9, <2>2
  <1> HIDE DEF v, y, z
  <1>11. ValidatorOK(w) /\ Same(Weight(w), Weight(v) + x) /\ w.stake = y
    <2>1. Same(y, v.stake + x)
      BY <1>1, <1>8, <1>9 DEF Same, Congruent
    <2> QED BY <1>1, <1>8, <1>9, <2>1, RestakedOK
  <1>12. o = [d EXCEPT !.acc = acc, !.val = Put(d.val, a, w)]
    <2>1. DOMAIN d = Fields
      BY <1>6 DEF Shape
    <2> HIDE DEF w
    <2> QED BY <1>5, <2>1 DEF Fields
  <1> HIDE DEF w
  <1>13. /\ AccOK(acc) /\ DOMAIN acc = DOMAIN d.acc
         /\ \A b \in DOMAIN acc : acc[b].bal = d.acc[b].bal /\ acc[b].nonce = d.acc[b].nonce
         /\ acc[a].staked = z
         /\ \A b \in DOMAIN acc \ {a} : acc[b].staked = d.acc[b].staked
    <2>1. AccOK(d.acc) /\ z \in Amounts
      BY <1>6, <1>9, <1>10 DEF Shape
    <2> QED BY <1>7, <2>1, RestakeOK
  <1> HIDE DEF acc
  <1>14. Same(Weight(w), (IF a \in DOMAIN d.val THEN Weight(d.val[a]) ELSE 0) + x)
    <2>1. a \notin DOMAIN d.val
      BY <1>2, <1>7 DEF SameStakes
    <2> QED BY <1>8, <1>11, <2>1
  <1>15. /\ Shape(o) /\ Moves(d, o, Native, x) /\ Present(d, o) /\ SameContracts(d, o)
         /\ Writes(d, o, acc, Put(d.val, a, w))
    BY <1>1, <1>6, <1>11, <1>12, <1>13, <1>14, ValStep
  <1>16. Neutral(s, o) /\ SameContracts(s, o)
    <2>1. Moves(r, o, Native, 0)
      BY <1>1, <1>3, <1>6, <1>15, NativeCurrency, MovesForth
    <2>2. Moves(s, o, Native, 0)
      BY <1>2, <1>3, <1>15, <2>1, NativeCurrency, MovesBack
    <2>3. Present(s, o) /\ SameContracts(s, o)
      BY <1>7, <1>15 DEF Present, SameContracts
    <2> QED BY <1>15, <2>2, <2>3 DEF Neutral
  <1>17. o.acc = acc /\ o.val = Put(s.val, a, w)
    BY <1>7, <1>15 DEF Writes, SameStakes
  <1>18. StakesExact(o)
    <2>1. StakedOf(o, a) = w.stake /\ w.stake > 0 /\ a \in DOMAIN o.acc
      BY <1>7, <1>9, <1>10, <1>11, <1>13, <1>17 DEF StakedOf
    <2>2. \A b \in Addr \ {a} : StakedOf(o, b) = StakedOf(s, b)
      <3>1. \A b \in Addr \ {a} : StakedOf(o, b) = StakedOf(d, b)
        BY <1>13, <1>17 DEF StakedOf
      <3> QED BY <1>7, <3>1 DEF SameStakes
    <2>3. DOMAIN s.acc \subseteq DOMAIN o.acc
      BY <1>16 DEF Neutral, Present
    <2> QED BY <1>2, <1>17, <2>1, <2>2, <2>3, ExactPut
  <1>19. Balanced(o) /\ AllSolvent(o, 0)
    BY <1>2, <1>16, NeutralBalances DEF AllSolvent, SameContracts
  <1>20. DOMAIN o.val = V \cup {a}
    BY <1>2, <1>17 DEF Put
  <1>21. Begun(o, V \cup {a}, 0)
    BY <1>16, <1>18, <1>19, <1>20 DEF Begun, Neutral, SameContracts
  <1> QED BY <1>21 DEF o

(* A grant of the genesis document: new money, locked in a contract. *)
LEMMA GrantStep ==
    ASSUME NEW s, NEW V, NEW i \in Nat, i > 0, Begun(s, V, i - 1),
           NEW g \in [beneficiary : Addr, amount : Amounts, start : Nat, end : Nat],
           g.amount > 0, g.start < g.end
    PROVE  Begun(BootstrapVesting(s, i, g), V, i)
  <1> DEFINE k == <<NoAddr, i>>
             x == g.amount
             e == Vesting(g.beneficiary, x, g.start, g.end, NoAddr, Native)
             d == MintSupply(s, x)
             o == BootstrapVesting(s, i, g)
             z == -x
  <1>1. /\ x \in Amounts /\ x \in Int /\ x \in Nat /\ z \in Int /\ x > 0
        /\ g.start \in Int /\ g.end \in Int /\ g.start < g.end
    <2>1. x \in Amounts /\ g.start \in Nat /\ g.end \in Nat
      OBVIOUS
    <2>2. x \in Int /\ x \in Nat
      BY <2>1, WordType
    <2> QED BY <2>1, <2>2
  <1>2. /\ Shape(s) /\ Balanced(s) /\ StakesExact(s) /\ AllSolvent(s, 0) /\ DOMAIN s.val = V
        /\ DOMAIN s.ctr = {<<NoAddr, j>> : j \in 1..(i - 1)} /\ DOMAIN s.wasm = {}
    BY DEF Begun
  <1>3. o = [d EXCEPT !.ctr = Put(@, k, e)]
    BY DEF BootstrapVesting
  <1>4. /\ {"token", "amount", "released", "status", "template", "start", "end"} \subseteq DOMAIN e
        /\ e.token = Native /\ e.amount = x /\ e.released = 0 /\ e.status = "active"
        /\ e.template = "vesting" /\ e.start = g.start /\ e.end = g.end
    BY DEF Vesting
  <1>5. /\ DOMAIN s.ctr \cup {k} = {<<NoAddr, j>> : j \in 1..i} /\ k \notin DOMAIN s.ctr
    <2>1. 1..i = 1..(i - 1) \cup {i} /\ i \notin 1..(i - 1)
      OBVIOUS
    <2> HIDE DEF e, d, o, z
    <2> QED BY <1>2, <2>1
  <1> HIDE DEF e, k, o
  <1>6. ContractOK(e)
    <2>1. 0 \in Amounts
      BY WordType
    <2> HIDE DEF x
    <2> QED BY <1>1, <1>4, <2>1, NativeCurrency DEF ContractOK
  <1>7. Solvent(e, 0)
    <2>1. 0 \in Nat
      OBVIOUS
    <2>2. Vested(e, 0) \in Nat
      BY <1>4, <1>6, <2>1, VestedBounds, WordType
    <2> HIDE DEF x
    <2> QED BY <1>1, <1>4, <2>2 DEF Solvent
  <1>8. /\ Shape(d) /\ SameBut(s, d, {"supply"}) /\ Moves(s, d, Native, z)
    BY <1>1, <1>2, MintSupplyStep
  <1> HIDE DEF d, z
  <1>9. /\ d.ctr = s.ctr /\ d.wasm = s.wasm /\ d.acc = s.acc /\ d.val = s.val
    BY <1>8 DEF SameBut, Fields
  <1>10. Present(s, d) /\ SameStakes(s, d) /\ k \notin DOMAIN d.ctr
    BY <1>5, <1>9 DEF Present, SameStakes, NonceOf, StakedOf
  <1>11. Same(Held(e), (IF k \in DOMAIN d.ctr THEN Held(d.ctr[k]) ELSE 0) + x)
    <2> HIDE DEF x
    <2>1. Held(e) = x
      BY <1>1, <1>4 DEF Held
    <2>2. 0 + x = x
      BY <1>1
    <2> QED BY <1>10, <2>1, <2>2 DEF Same, Congruent
  <1>12. o = [d EXCEPT !.ctr = Put(d.ctr, k, e)]
    BY <1>3
  <1> HIDE DEF x
  <1>13. /\ Shape(o) /\ Moves(d, o, e.token, x) /\ Present(d, o) /\ SameStakes(d, o)
         /\ Becomes(d, o, k, e)
    BY <1>1, <1>6, <1>8, <1>10, <1>11, <1>12, CtrStep
  <1>14. Moves(s, o, Native, 0)
    BY <1>1, <1>2, <1>4, <1>8, <1>13, NativeCurrency, MovesForth DEF z
  <1>15. Neutral(s, o) /\ SameStakes(s, o)
    BY <1>10, <1>13, <1>14 DEF Neutral, Present, SameStakes
  <1>16. o.ctr = Put(s.ctr, k, e) /\ o.wasm = s.wasm
    BY <1>9, <1>13 DEF Becomes
  <1>17. Balanced(o) /\ StakesExact(o)
    BY <1>2, <1>15, NeutralBalances, ExactSame DEF Neutral
  <1>18. AllSolvent(o, 0)
    BY <1>2, <1>7, <1>16 DEF AllSolvent, Put
  <1>19. DOMAIN o.ctr = {<<NoAddr, j>> : j \in 1..i}
    BY <1>5, <1>16 DEF Put
  <1>20. Begun(o, V, i)
    BY <1>2, <1>15, <1>16, <1>17, <1>18, <1>19 DEF Begun, Neutral, SameStakes
  <1> QED BY <1>20 DEF o

(* The three folds of Apply. *)
MintOne(alloc, d, s, a) == Mint(s, a, alloc[a])

StakeOne(stakes, d, s, a) == BootstrapStake(s, a, stakes[a])

GrantOne(grants, d, s, i) == BootstrapVesting(s, i, grants[i])

Minting == INSTANCE Folding WITH Step <- MintOne
Bonding == INSTANCE Folding WITH Step <- StakeOne
Granting == INSTANCE Folding WITH Step <- GrantOne

(* The allocations. *)
LEMMA AllocationsStep ==
    ASSUME NEW alloc, NEW n \in Nat, NEW order, DOMAIN order = 1..n,
           \A i \in 1..n : alloc[order[i]] \in Int
    PROVE  Begun(Minting!Fold(alloc, 0, EmptyLedger, order), {}, 0)
  <1> DEFINE b == EmptyLedger
             r == Minting!Fold(alloc, 0, b, order)
  <1>1. Minting!Traced(alloc, 0, b, n, order)
    BY Minting!FoldTrace
  <1>2. PICK f : /\ f[0] = b
                 /\ \A k \in 1..n : f[k] = MintOne(alloc, 0, f[k - 1], order[k])
                 /\ f[n] = r
    BY <1>1 DEF Minting!Traced
  <1>3. Begun(b, {}, 0)
    BY EmptyBegun
  <1> DEFINE T == {k \in Nat : Begun(f[k], {}, 0)}
  <1> HIDE DEF b, r
  <1>4. 0 \in T
    BY <1>2, <1>3
  <1>5. ASSUME NEW k \in 1..n, k - 1 \in T PROVE k \in T
    <2> DEFINE s == f[k - 1]
               a == order[k]
               x == alloc[a]
    <2>1. Begun(s, {}, 0) /\ k \in Nat /\ x \in Int
      BY <1>5
    <2>2. f[k] = Mint(s, a, x)
      BY <1>2 DEF MintOne
    <2> HIDE DEF s, a, x
    <2>3. Begun(Mint(s, a, x), {}, 0)
      BY <2>1, AllocationStep
    <2> QED BY <2>1, <2>2, <2>3
  <1> HIDE DEF T
  <1>6. \A k \in 0..n : k \in T
    BY <1>4, <1>5, Positions
  <1>7. n \in T
    BY <1>6
  <1> QED BY <1>2, <1>7 DEF T, r, b

(* The stakes. *)
LEMMA BondsStep ==
    ASSUME NEW s, Begun(s, {}, 0), NEW stakes, NEW n \in Nat, NEW order, DOMAIN order = 1..n,
           \A i \in 1..n : /\ order[i] \in Addr
                           /\ stakes[order[i]] \in Amounts /\ stakes[order[i]] > 0,
           \A i, j \in 1..n : order[i] = order[j] => i = j
    PROVE  Begun(Bonding!Fold(stakes, 0, s, order), {order[i] : i \in 1..n}, 0)
  <1> DEFINE r == Bonding!Fold(stakes, 0, s, order)
             V(k) == {order[i] : i \in 1..k}
  <1>1. Bonding!Traced(stakes, 0, s, n, order)
    BY Bonding!FoldTrace
  <1>2. PICK f : /\ f[0] = s
                 /\ \A k \in 1..n : f[k] = StakeOne(stakes, 0, f[k - 1], order[k])
                 /\ f[n] = r
    BY <1>1 DEF Bonding!Traced
  <1> DEFINE T == {k \in Nat : Begun(f[k], V(k), 0)}
  <1> HIDE DEF r
  <1>3. V(0) = {}
    OBVIOUS
  <1>4. \A k \in 1..n : V(k) = V(k - 1) \cup {order[k]} /\ order[k] \notin V(k - 1)
    <2>1. SUFFICES ASSUME NEW k \in 1..n
                   PROVE  V(k) = V(k - 1) \cup {order[k]} /\ order[k] \notin V(k - 1)
      OBVIOUS
    <2>2. 1..k = 1..(k - 1) \cup {k}
      OBVIOUS
    <2>3. \A i \in 1..(k - 1) : i \in 1..n /\ i # k
      OBVIOUS
    <2>4. order[k] \notin V(k - 1)
      BY <2>3
    <2>5. V(k) = V(k - 1) \cup {order[k]}
      BY <2>2
    <2> QED BY <2>4, <2>5
  <1> HIDE DEF V
  <1>5. 0 \in T
    BY <1>2, <1>3
  <1>6. ASSUME NEW k \in 1..n, k - 1 \in T PROVE k \in T
    <2> DEFINE t == f[k - 1]
               a == order[k]
               x == stakes[a]
               W == V(k - 1)
    <2>1. Begun(t, W, 0) /\ k \in Nat /\ a \in Addr /\ x \in Amounts /\ x > 0
      BY <1>6
    <2>2. f[k] = BootstrapStake(t, a, x)
      BY <1>2 DEF StakeOne
    <2>3. V(k) = W \cup {a} /\ a \notin W
      BY <1>4
    <2> HIDE DEF t, a, x, W
    <2>4. Begun(BootstrapStake(t, a, x), W \cup {a}, 0)
      BY <2>1, <2>3, BootstrapStakeStep
    <2> QED BY <2>1, <2>2, <2>3, <2>4
  <1> HIDE DEF T
  <1>7. \A k \in 0..n : k \in T
    BY <1>5, <1>6, Positions
  <1>8. n \in T
    BY <1>7
  <1> QED BY <1>2, <1>8 DEF T, r, V

(* The grants. *)
LEMMA GrantsStep ==
    ASSUME NEW s, NEW V, Begun(s, V, 0), NEW n \in Nat, NEW grants, NEW order,
           order = [i \in 1..n |-> i],
           \A i \in 1..n :
              /\ grants[i] \in [beneficiary : Addr, amount : Amounts, start : Nat, end : Nat]
              /\ grants[i].amount > 0 /\ grants[i].start < grants[i].end
    PROVE  Begun(Granting!Fold(grants, 0, s, order), V, n)
  <1> DEFINE r == Granting!Fold(grants, 0, s, order)
  <1>1. DOMAIN order = 1..n /\ \A i \in 1..n : order[i] = i
    OBVIOUS
  <1>2. Granting!Traced(grants, 0, s, n, order)
    BY <1>1, Granting!FoldTrace
  <1>3. PICK f : /\ f[0] = s
                 /\ \A k \in 1..n : f[k] = GrantOne(grants, 0, f[k - 1], order[k])
                 /\ f[n] = r
    BY <1>2 DEF Granting!Traced
  <1> DEFINE T == {k \in Nat : Begun(f[k], V, k)}
  <1> HIDE DEF r
  <1>4. 0 \in T
    BY <1>3
  <1>5. ASSUME NEW k \in 1..n, k - 1 \in T PROVE k \in T
    <2> DEFINE t == f[k - 1]
               g == grants[k]
    <2>1. Begun(t, V, k - 1) /\ k \in Nat /\ k > 0
      BY <1>5
    <2>2. /\ g \in [beneficiary : Addr, amount : Amounts, start : Nat, end : Nat]
          /\ g.amount > 0 /\ g.start < g.end
      OBVIOUS
    <2>3. f[k] = BootstrapVesting(t, k, g)
      BY <1>1, <1>3 DEF GrantOne
    <2> HIDE DEF t, g
    <2>4. Begun(BootstrapVesting(t, k, g), V, k)
      BY <2>1, <2>2, GrantStep
    <2> QED BY <2>1, <2>3, <2>4
  <1> HIDE DEF T
  <1>6. \A k \in 0..n : k \in T
    BY <1>4, <1>5, Positions
  <1>7. n \in T
    BY <1>6
  <1> QED BY <1>3, <1>7 DEF T, r

(* A list of a finite set of addresses. *)
LEMMA OrderedDomain ==
    ASSUME NEW S \in SUBSET Addr
    PROVE  /\ Cardinality(S) \in Nat /\ DOMAIN InOrder(S) = 1..Cardinality(S)
           /\ \A i \in 1..Cardinality(S) : InOrder(S)[i] \in S
           /\ \A i, j \in 1..Cardinality(S) : InOrder(S)[i] = InOrder(S)[j] => i = j
  <1>1. IsFiniteSet(S) /\ S \subseteq Nat
    BY NamesDiffer, FS_Subset
  <1>2. Cardinality(S) \in Nat
    BY <1>1, FS_CardinalityType
  <1>3. Lists(InOrder(S), S)
    BY <1>1, InOrderLists
  <1> QED BY <1>2, <1>3 DEF Lists

(* Apply: a network begins with what its document says, and nothing else. *)
LEMMA GenesisBegun ==
    ASSUME NEW doc, ValidGenesis(doc)
    PROVE  \E V, n : Begun(Apply(doc), V, n)
  <1> DEFINE A == DOMAIN doc.alloc
             S == DOMAIN doc.stakes
             minted == Minting!Fold(doc.alloc, 0, EmptyLedger, InOrder(A))
             staked == Bonding!Fold(doc.stakes, 0, minted, InOrder(S))
             grants == Sorted(doc.vesting)
             m == Len(grants)
             order == [i \in 1..m |-> i]
             V == {InOrder(S)[i] : i \in 1..Cardinality(S)}
  <1>1. Apply(doc) = Granting!Fold(grants, 0, staked, order)
    BY DEF Apply, Granting!Fold, FoldLeft, Granting!FoldLeft, MapThenFoldSet,
           Granting!MapThenFoldSet, Max, Granting!Max, GrantOne,
           Bonding!Fold, Bonding!FoldLeft, Bonding!MapThenFoldSet, Bonding!Max, StakeOne,
           Minting!Fold, Minting!FoldLeft, Minting!MapThenFoldSet, Minting!Max, MintOne
  <1>2. /\ A \subseteq Addr /\ \A a \in A : doc.alloc[a] \in Amounts
        /\ S \subseteq Addr
        /\ \A a \in S : doc.stakes[a] \in Amounts /\ doc.stakes[a] >= Params.MinValidatorStake
        /\ Params.MinValidatorStake > 0
        /\ IsFiniteSet(doc.vesting)
        /\ \A g \in doc.vesting :
              /\ g \in [beneficiary : Addr, amount : Amounts, start : Nat, end : Nat]
              /\ g.amount > 0 /\ g.start < g.end
    BY DEF ValidGenesis
  <1>3. Begun(minted, {}, 0)
    <2> DEFINE q == InOrder(A)
               l == Cardinality(A)
    <2>1. l \in Nat /\ DOMAIN q = 1..l /\ \A i \in 1..l : q[i] \in A
      BY <1>2, OrderedDomain
    <2> HIDE DEF q, l
    <2>2. \A i \in 1..l : doc.alloc[q[i]] \in Int
      BY <1>2, <2>1, WordType
    <2>3. Begun(Minting!Fold(doc.alloc, 0, EmptyLedger, q), {}, 0)
      BY <2>1, <2>2, AllocationsStep
    <2> QED BY <2>3 DEF q
  <1> HIDE DEF minted
  <1>4. Begun(staked, V, 0)
    <2> DEFINE q == InOrder(S)
               l == Cardinality(S)
               c == doc.stakes
    <2>1. /\ l \in Nat /\ DOMAIN q = 1..l /\ \A i \in 1..l : q[i] \in S
          /\ \A i, j \in 1..l : q[i] = q[j] => i = j
      BY <1>2, OrderedDomain
    <2>2. \A a \in S : c[a] \in Amounts /\ c[a] > 0 /\ a \in Addr
      <3>1. \A a \in S : c[a] \in Amounts /\ c[a] \in Int /\ a \in Addr
        BY <1>2, WordType
      <3>2. Params.MinValidatorStake \in Int
        BY ParamsAreNatural DEF ParamNames
      <3> QED BY <1>2, <3>1, <3>2
    <2> HIDE DEF q, l, c, S
    <2>3. \A i \in 1..l : q[i] \in Addr /\ c[q[i]] \in Amounts /\ c[q[i]] > 0
      BY <2>1, <2>2
    <2>4. Begun(Bonding!Fold(c, 0, minted, q), {q[i] : i \in 1..l}, 0)
      BY <1>3, <2>1, <2>3, BondsStep
    <2> QED BY <2>4 DEF q, l, c
  <1> HIDE DEF staked, V
  <1>5. /\ m \in Nat
        /\ \A i \in 1..m : /\ grants[i] \in doc.vesting
    <2> DEFINE l == Cardinality(doc.vesting)
    <2>1. doc.vesting \subseteq [beneficiary : Addr, amount : Amounts, start : Nat, end : Nat]
      BY <1>2
    <2>2. Lists(grants, doc.vesting)
      BY <1>2, <2>1, SortedLists
    <2>3. grants \in [1..l -> doc.vesting] /\ l \in Nat
      BY <1>2, <2>2, FS_CardinalityType DEF Lists
    <2> HIDE DEF l, grants
    <2>4. grants \in Seq(doc.vesting) /\ DOMAIN grants = 1..l
      BY <2>3
    <2>5. m = l
      BY <2>3, <2>4
    <2> QED BY <2>3, <2>5
  <1>6. \A i \in 1..m :
           /\ grants[i] \in [beneficiary : Addr, amount : Amounts, start : Nat, end : Nat]
           /\ grants[i].amount > 0 /\ grants[i].start < grants[i].end
    BY <1>2, <1>5
  <1> HIDE DEF grants, m
  <1>7. Begun(Granting!Fold(grants, 0, staked, order), V, m)
    BY <1>4, <1>5, <1>6, GrantsStep
  <1>8. Begun(Apply(doc), V, m)
    BY <1>1, <1>7
  <1> QED BY <1>8

-----------------------------------------------------------------------------
(* The chain. *)

(* What every block keeps.  The shape makes every step defined; the names  *)
(* used up keep two contracts from having the same one; in every currency  *)
(* the gap is closed; and while time does not go back, no contract has     *)
(* paid what it does not owe yet.                                          *)
Inv ==
    /\ Shape(ledger) /\ IdsUsed(ledger) /\ Balanced(ledger)
    /\ scene \in Scenes /\ block.time \in Nat /\ steady \in BOOLEAN
    /\ steady => AllSolvent(ledger, block.time)
    /\ SlashRates => StakesExact(ledger)

(* The invariant holds at the genesis. *)
LEMMA InitInv ==
    ASSUME Init
    PROVE  Inv
  <1>1. scene \in Scenes /\ ledger = Apply(Document(scene)) /\ block.time = 0 /\ steady = TRUE
    BY DEF Init, NoBlock
  <1>2. ValidGenesis(Document(scene))
    BY <1>1, DocumentsValid
  <1>3. PICK V, n : Begun(ledger, V, n)
    BY <1>1, <1>2, GenesisBegun
  <1>4. IdsUsed(ledger)
    BY <1>3, BegunIds
  <1> QED BY <1>1, <1>3, <1>4 DEF Inv, Begun

(* A proposer packs transactions that passed the checks of the mempool. *)
LEMMA BodiesOK ==
    ASSUME NEW body \in Bodies
    PROVE  \E n \in Nat : /\ DOMAIN body = 1..n
                          /\ \A i \in 1..n : Decoded(body[i]) /\ ValidateBasic(body[i])
  <1>1. PICK txs \in Sent : body = Numbered(txs)
    BY DEF Bodies
  <1>2. \A i \in DOMAIN body : Decoded(body[i]) /\ ValidateBasic(body[i])
    BY DEF Bodies, VerifyAll
  <1>3. PICK n \in 0..MaxTxs(scene) : txs \in [1..n -> Submitted(scene, ledger)]
    BY <1>1 DEF Sent
  <1>4. n \in Nat
    BY <1>3
  <1>5. DOMAIN body = 1..n
    BY <1>1, <1>3 DEF Numbered
  <1> QED BY <1>2, <1>4, <1>5

(* A ledger after another, between two times of the chain. *)
LEMMA BlockStep ==
    ASSUME NEW s, Shape(s), IdsUsed(s), Balanced(s), NEW b, BlockOK(b), NEW dir,
           Params.MinValidatorStake > 0
    PROVE  LET o == Commit(Execute(s, b, Order(dir)).s)
           IN  /\ Shape(o) /\ IdsUsed(o) /\ Balanced(o)
               /\ SlashRates /\ StakesExact(s) => StakesExact(o)
               /\ AllSolvent(s, b.time) => AllSolvent(o, b.time)
  <1> DEFINE e == Execute(s, b, Order(dir)).s
             o == Commit(e)
             time == b.time
  <1>1. OrderOK(Order(dir))
    BY OrdersOK
  <1>2. Carries(s, e, time)
    BY <1>1, ExecuteBlockStep
  <1> HIDE DEF e, time
  <1>3. Shape(e)
    BY <1>2 DEF Carries
  <1>4. Settles(e, o)
    BY <1>3, CommitStep
  <1>5. Carries(e, o, time)
    BY <1>2, <1>3, <1>4, SettlesCarries DEF Carries
  <1> HIDE DEF o
  <1>6. Carries(s, o, time)
    BY <1>2, <1>5, CarriesOn
  <1>7. Balanced(o)
    <2>1. Shape(o) /\ Moves(s, o, Native, 0)
      BY <1>6 DEF Carries
    <2>2. SUFFICES ASSUME NEW t \in Currencies PROVE Same(Gap(o, t), 0)
      BY DEF Balanced
    <2>3. Gap(s, t) \in Int /\ Same(Gap(s, t), 0)
      BY ZenonT(40), GapType DEF Balanced
    <2>4. Same(Gap(o, t), Gap(s, t) + (IF t = Native THEN 0 ELSE 0))
      BY <2>1 DEF Moves
    <2>5. Gap(s, t) + (IF t = Native THEN 0 ELSE 0) = Gap(s, t)
      BY <2>3
    <2> QED BY <2>3, <2>4, <2>5, SameTransitive
  <1> QED BY <1>6, <1>7 DEF Carries, o, e, time

(* And after every block. *)
LEMMA StepInv ==
    ASSUME Inv, Next
    PROVE  Inv'
  <1>0. PICK d \in Advances(scene), c \in Conduct(scene), body \in Bodies :
             \E proposer, dir : Produce(proposer, Clock(d), c, body, dir)
    BY DEF Next
  <1>1. PICK proposer, dir : Produce(proposer, Clock(d), c, body, dir)
    BY <1>0
  <1> DEFINE time == Clock(d)
             b == [txs |-> body, evidence |-> c.evidence, absent |-> c.absent,
                   proposer |-> proposer, time |-> time]
             o == Commit(Execute(ledger, b, Order(dir)).s)
  <1>2. /\ Shape(ledger) /\ IdsUsed(ledger) /\ Balanced(ledger)
        /\ scene \in Scenes /\ block.time \in Nat /\ steady \in BOOLEAN
        /\ steady => AllSolvent(ledger, block.time)
        /\ SlashRates => StakesExact(ledger)
    BY DEF Inv
  <1>3. time \in Nat
    <2>1. d \in Int
      BY <1>2, BlocksTyped
    <2> QED BY <1>2, <2>1 DEF Clock
  <1>4. /\ ledger' = o /\ scene' = scene /\ steady' = (steady /\ time >= block.time)
        /\ block'.time = time
    <2>1. /\ ledger' = o /\ scene' = scene /\ steady' = (steady /\ time >= block.time)
          /\ block' = [b EXCEPT !.txs = Execute(ledger, b, Order(dir)).applied]
      BY <1>1 DEF Produce
    <2> HIDE DEF o, time
    <2>2. block'.time = time
      BY <2>1
    <2> QED BY <2>1, <2>2
  <1>5. BlockOK(b) /\ b.time = time
    <2>1. PICK n \in Nat : /\ DOMAIN body = 1..n
                           /\ \A i \in 1..n : Decoded(body[i]) /\ ValidateBasic(body[i])
      BY BodiesOK
    <2>2. c.evidence \in Seq([voter : Nat, height : Nat]) /\ c.absent \in Seq(Nat)
      BY <1>2, BlocksTyped
    <2>3. /\ b.txs = body /\ b.time = time
          /\ b.evidence = c.evidence /\ b.absent = c.absent
      OBVIOUS
    <2> HIDE DEF b, time
    <2> QED BY <1>3, <2>1, <2>2, <2>3 DEF BlockOK
  <1>6. Params.MinValidatorStake > 0
    BY <1>2, DocumentsValid DEF ValidGenesis
  <1> HIDE DEF b, time
  <1>7. /\ Shape(o) /\ IdsUsed(o) /\ Balanced(o)
        /\ SlashRates /\ StakesExact(ledger) => StakesExact(o)
        /\ AllSolvent(ledger, time) => AllSolvent(o, time)
    BY <1>2, <1>5, <1>6, BlockStep
  <1> HIDE DEF o
  <1>8. steady' => AllSolvent(ledger', block'.time)
    <2>1. SUFFICES ASSUME steady, time >= block.time PROVE AllSolvent(o, time)
      BY <1>2, <1>4
    <2>2. SUFFICES ASSUME NEW i \in DOMAIN ledger.ctr PROVE Solvent(ledger.ctr[i], time)
      BY <1>7 DEF AllSolvent
    <2>3. ContractOK(ledger.ctr[i]) /\ Solvent(ledger.ctr[i], block.time)
      BY <1>2, <2>1 DEF Shape, CtrOK, AllSolvent
    <2>4. block.time <= time
      BY <1>2, <1>3, <2>1
    <2> QED BY <1>2, <1>3, <2>3, <2>4, SolventLater
  <1>9. /\ Shape(ledger') /\ IdsUsed(ledger') /\ Balanced(ledger')
        /\ scene' \in Scenes /\ block'.time \in Nat /\ steady' \in BOOLEAN
        /\ SlashRates => StakesExact(ledger')
    BY <1>2, <1>3, <1>4, <1>7
  <1> QED BY <1>8, <1>9 DEF Inv

(* The invariant of the chain. *)
THEOREM ChainInvariant == Spec => []Inv
  <1>1. Init => Inv
    BY InitInv
  <1>2. Inv /\ [Next]_vars => Inv'
    <2>1. CASE Next
      BY <2>1, StepInv
    <2>2. CASE UNCHANGED vars
      BY <2>2 DEF Inv, vars
    <2> QED BY <2>1, <2>2
  <1> QED BY <1>1, <1>2, PTL DEF Spec

-----------------------------------------------------------------------------
(* What follows from the invariant. *)

(* A number that is a word, and congruent to another, is its remainder. *)
LEMMA WordRemainder ==
    ASSUME NEW a \in Int, NEW b \in Amounts, Same(a, b)
    PROVE  a % Word = b
  <1>1. b \in Int /\ 0 <= b /\ b < Word /\ b = b + 0 * Word
    BY WordType DEF Amounts
  <1>2. b % Word = b
    BY <1>1, WordType, RemainderUnique
  <1> QED BY <1>2 DEF Same, Congruent

(* A gap that is closed. *)
LEMMA GapClosed ==
    ASSUME NEW a \in Int, NEW b \in Int, Same(a - b, 0)
    PROVE  Same(a, b)
  <1>1. Same(b, b) /\ a - b \in Int
    BY DEF Same, Congruent
  <1>2. Same((a - b) + b, 0 + b)
    BY <1>1, SameSum
  <1>3. (a - b) + b = a /\ 0 + b = b
    OBVIOUS
  <1> QED BY <1>2, <1>3

(* The types. *)
LEMMA InvTypes ==
    ASSUME Inv
    PROVE  TypeOK
  <1>1. /\ AccOK(ledger.acc) /\ ValOK(ledger.val) /\ PoolOK(ledger.pool)
    BY DEF Inv, Shape
  <1>2. \A a \in DOMAIN ledger.acc :
           /\ ledger.acc[a].bal \in [Currencies -> Amounts]
           /\ ledger.acc[a].staked \in Amounts
           /\ a \notin Addr => ledger.acc[a].nonce = 0 /\ ledger.acc[a].staked = 0
    BY <1>1 DEF AccOK, Account
  <1>3. ~ledger.pool.open => ledger.pool = EmptyLedger.pool
    BY <1>1 DEF PoolOK
  <1>4. /\ DOMAIN ledger.val \subseteq Addr
        /\ \A v \in DOMAIN ledger.val : DOMAIN ledger.val[v].delegators \subseteq Addr
    BY <1>1 DEF ValOK, ValidatorOK
  <1> QED BY <1>2, <1>3, <1>4 DEF TypeOK

(* The tokens. *)
LEMMA InvTokens ==
    ASSUME Inv
    PROVE  TokensAddUp
  <1>1. Shape(ledger) /\ Balanced(ledger)
    BY DEF Inv
  <1>2. SUFFICES ASSUME NEW t \in DOMAIN ledger.tok
                 PROVE  (InAccounts(ledger, t) + InContracts(ledger, t)) % Word
                            = ledger.tok[t].supply
    BY DEF TokensAddUp
  <1> DEFINE x == InAccounts(ledger, t) + InContracts(ledger, t)
             y == ledger.tok[t].supply
  <1>3. t \in Symbols /\ t # Native /\ t \in Currencies /\ y \in Amounts
    <2>1. t \in Symbols /\ y \in Amounts
      BY <1>1 DEF Shape, TokOK
    <2> QED BY <2>1, NamesDiffer DEF Currencies
  <1>4. x \in Int /\ y \in Int
    <2>1. InAccounts(ledger, t) \in Int /\ InContracts(ledger, t) \in Int
      BY <1>1, <1>3, GapType
    <2> QED BY <1>3, <2>1, WordType
  <1>5. Gap(ledger, t) = x - y
    <2>1. Owed(ledger, t) = y
      BY <1>3 DEF Owed
    <2>2. Gap(ledger, t) = x + 0 - y
      BY <1>3, <2>1 DEF Gap
    <2> HIDE DEF x, y
    <2>3. x + 0 - y = x - y
      BY <1>4
    <2> QED BY <2>2, <2>3
  <1>6. Same(Gap(ledger, t), 0)
    BY <1>1, <1>3 DEF Balanced
  <1> HIDE DEF x, y
  <1>7. Same(x, y)
    BY <1>4, <1>5, <1>6, GapClosed
  <1>8. x % Word = y
    BY <1>3, <1>4, <1>7, WordRemainder
  <1> QED BY <1>8 DEF x, y

(* What contracts hold is no less than nothing while none has overpaid. *)
LEMMA SolventHolds ==
    ASSUME NEW s, Shape(s), NEW time, AllSolvent(s, time), NEW t
    PROVE  InContracts(s, t) \in Nat
  <1> DEFINE f == [i \in DOMAIN s.ctr |-> IF s.ctr[i].token = t THEN Held(s.ctr[i]) ELSE 0]
  <1>1. IsFiniteSet(DOMAIN f)
    BY DEF Shape, CtrOK
  <1>2. ASSUME NEW c, ContractOK(c), Solvent(c, time) PROVE Held(c) \in Nat
    <2>1. c.amount \in Nat /\ c.released \in Nat /\ c.released <= c.amount
      BY <1>2, WordType DEF ContractOK, Solvent
    <2> QED BY <2>1 DEF Held
  <1>3. \A i \in DOMAIN s.ctr : Held(s.ctr[i]) \in Nat
    BY <1>2 DEF Shape, CtrOK, AllSolvent
  <1>4. \A i \in DOMAIN f : f[i] \in Nat
    BY <1>3
  <1>5. InContracts(s, t) = SumFunction(f)
    BY DEF InContracts, Sum
  <1> HIDE DEF f
  <1> QED BY <1>1, <1>4, <1>5, SumType

(* The supply, in words and as a number. *)
LEMMA InvSupply ==
    ASSUME Inv
    PROVE  /\ ledger.supply.total = Minus(ledger.supply.minted, ledger.supply.burned)
           /\ Coins(ledger) % Word = ledger.supply.total
           /\ Coins(ledger) < Word => SupplyConserved
  <1> DEFINE a == InAccounts(ledger, Native)
             c == InContracts(ledger, Native)
             l == Locked(ledger)
             x == Coins(ledger)
             y == ledger.supply.total
  <1>1. /\ Shape(ledger) /\ Balanced(ledger)
        /\ steady => AllSolvent(ledger, block.time)
    BY DEF Inv
  <1>2. y \in Amounts /\ y = Minus(ledger.supply.minted, ledger.supply.burned)
    BY <1>1 DEF Shape, SupplyOK
  <1>3. a \in Nat /\ c \in Int /\ l \in Nat
    BY <1>1, NativeCurrency, SumTypes, GapType
  <1>4. Gap(ledger, Native) = a + c + l - y
    BY DEF Gap, Owed
  <1>5. x = a + c + l
    BY DEF Coins
  <1>6. steady => c \in Nat
    BY <1>1, SolventHolds
  <1>7. Same(Gap(ledger, Native), 0)
    BY <1>1, NativeCurrency DEF Balanced
  <1> HIDE DEF a, c, l, x, y
  <1>8. x \in Int /\ (steady => x \in Nat)
    BY <1>3, <1>5, <1>6
  <1>9. y \in Int
    BY <1>2, WordType
  <1>10. Same(x, y)
    <2>1. a + c + l - y = x - y
      BY <1>3, <1>5, <1>9
    <2>2. Same(x - y, 0)
      BY <1>4, <1>7, <2>1, Zenon
    <2> QED BY <1>8, <1>9, <2>2, GapClosed
  <1>11. x % Word = y
    BY <1>2, <1>8, <1>10, WordRemainder
  <1>12. steady /\ x < Word => x = y
    <2>1. SUFFICES ASSUME steady, x < Word PROVE x = y
      OBVIOUS
    <2>2. x \in Amounts
      BY <1>8, <2>1, WordType DEF Amounts
    <2> QED BY <1>2, <1>10, <2>2, SameAmount
  <1> QED BY <1>2, <1>11, <1>12 DEF SupplyConserved, x, y

(* The contracts. *)
LEMMA InvContracts ==
    ASSUME Inv
    PROVE  ContractsSolvent
  BY DEF Inv, AllSolvent, Solvent, ContractsSolvent

(* The stakes. *)
LEMMA InvStakes ==
    ASSUME Inv, SlashRates,
           \A v \in DOMAIN ledger.val : Sum(ledger.val[v].delegators) < Word
    PROVE  StakesAddUp
  <1>1. Shape(ledger) /\ StakesExact(ledger)
    BY DEF Inv
  <1>2. AccOK(ledger.acc) /\ ValOK(ledger.val)
    BY <1>1 DEF Shape
  <1>3. ASSUME NEW a \in DOMAIN ledger.acc PROVE ledger.acc[a].staked = StakeOf(ledger, a)
    <2>1. CASE a \in Addr
      BY <1>1, <2>1 DEF StakesExact, StakedOf
    <2>2. CASE a \notin Addr
      BY <1>2, <2>2 DEF AccOK, ValOK, StakeOf
    <2> QED BY <2>1, <2>2
  <1>4. ASSUME NEW v \in DOMAIN ledger.val
        PROVE  ledger.val[v].delegated = Sum(ledger.val[v].delegators)
    <2> DEFINE w == ledger.val[v]
               f == w.delegators
               x == Sum(f)
    <2>1. ValidatorOK(w) /\ x < Word
      BY <1>2 DEF ValOK
    <2> HIDE DEF w, x
    <2>2. w.delegated \in Amounts /\ Same(w.delegated, x)
      BY <2>1 DEF ValidatorOK, x
    <2>3. IsFiniteSet(DOMAIN f) /\ \A b \in DOMAIN f : f[b] \in Nat
      <3>1. DOMAIN f \subseteq Addr /\ f \in [DOMAIN f -> Amounts]
        BY <2>1 DEF ValidatorOK
      <3> HIDE DEF f
      <3>2. \A b \in DOMAIN f : f[b] \in Nat
        BY <3>1, WordType
      <3> QED BY <3>1, <3>2, NamesDiffer, FS_Subset
    <2> HIDE DEF f
    <2>4. x \in Nat
      BY <2>3, SumType DEF x, Sum
    <2>5. x \in Amounts
      BY <2>1, <2>4, WordType DEF Amounts
    <2>6. w.delegated = x
      BY <2>2, <2>5, SameAmount
    <2> QED BY <2>6 DEF w, x, f
  <1> QED BY <1>1, <1>3, <1>4 DEF StakesAddUp, StakesExact

-----------------------------------------------------------------------------
(* The theorems. *)

(* The ledger keeps its shape (LedgerChain!TypeOK). *)
THEOREM LedgerTypes == Spec => []TypeOK
  BY ChainInvariant, InvTypes, PTL

(* No token has units its creator did not issue. *)
THEOREM TokensConserved == Spec => []TokensAddUp
  BY ChainInvariant, InvTokens, PTL

(* No block makes or loses a coin: in words always, and as numbers as long *)
(* as the coins fit a machine word.                                        *)
THEOREM CoinsConserved ==
    Spec => [](/\ ledger.supply.total = Minus(ledger.supply.minted, ledger.supply.burned)
               /\ Coins(ledger) % Word = ledger.supply.total
               /\ Coins(ledger) < Word => SupplyConserved)
  BY ChainInvariant, InvSupply, PTL

(* While time does not go back no contract pays what it does not owe, and  *)
(* none of its proposals twice or without a quorum.                        *)
THEOREM ContractsStaySolvent == Spec => []ContractsSolvent
  BY ChainInvariant, InvContracts, PTL

(* With rates that take at most what there is, the records of every stake  *)
(* and of every delegation agree, as long as a word holds their sum.       *)
THEOREM StakesAgree ==
    ASSUME SlashRates
    PROVE  Spec => [](  (\A v \in DOMAIN ledger.val : Sum(ledger.val[v].delegators) < Word)
                         => StakesAddUp)
  <1>1. Inv => ((\A v \in DOMAIN ledger.val : Sum(ledger.val[v].delegators) < Word)
                  => StakesAddUp)
    BY InvStakes
  <1> QED BY <1>1, ChainInvariant, PTL

-----------------------------------------------------------------------------
(* What leaves the shielded pool alone. *)

(* The pool is left as it was. *)
Still(s, o) == DOMAIN o = Fields /\ o.pool = s.pool

(* A run of such steps is one. *)
LEMMA TraceStill ==
    ASSUME NEW n \in Nat, NEW f, DOMAIN f[0] = Fields,
           \A k \in 1..n : DOMAIN f[k - 1] = Fields => Still(f[k - 1], f[k])
    PROVE  Still(f[0], f[n])
  <1> DEFINE T == {k \in Nat : Still(f[0], f[k])}
  <1>1. 0 \in T
    BY DEF Still
  <1>2. ASSUME NEW k \in 1..n, k - 1 \in T PROVE k \in T
    BY <1>2 DEF Still
  <1> HIDE DEF T
  <1>3. \A k \in 0..n : k \in T
    BY <1>1, <1>2, Positions
  <1>4. n \in T
    BY <1>3
  <1> QED BY <1>4 DEF T

(* What is paid between accounts is not in the pool. *)
LEMMA PursesStill ==
    ASSUME NEW s, DOMAIN s = Fields
    PROVE  /\ \A a : Still(s, Acct(s, a))
           /\ \A a, t, x : Still(s, Credit(s, a, t, x)) /\ Still(s, Debit(s, a, t, x))
           /\ \A x : Still(s, BurnSupply(s, x)) /\ Still(s, MintSupply(s, x))
           /\ \A a, x : Still(s, Mint(s, a, x))
           /\ \A a, x, time : Still(s, Unbond(s, a, x, time))
  <1>1. ASSUME NEW t, DOMAIN t = Fields, NEW a PROVE Still(t, Acct(t, a))
    BY <1>1 DEF Acct, Still, Fields
  <1>2. ASSUME NEW u, DOMAIN u = Fields, NEW a, NEW t, NEW x PROVE Still(u, Credit(u, a, t, x))
    <2>1. Still(u, Acct(u, a))
      BY <1>1, <1>2
    <2> QED BY <2>1 DEF Credit, Still, Fields
  <1>3. \A a, t, x : Still(s, Debit(s, a, t, x))
    BY DEF Debit, Still, Fields
  <1>4. ASSUME NEW t, DOMAIN t = Fields, NEW x
        PROVE  Still(t, BurnSupply(t, x)) /\ Still(t, MintSupply(t, x))
    BY <1>4 DEF BurnSupply, MintSupply, Still, Fields
  <1>5. ASSUME NEW a, NEW x PROVE Still(s, Mint(s, a, x))
    <2>1. Still(s, Credit(s, a, Native, x))
      BY <1>2
    <2> QED BY <1>4, <2>1 DEF Mint, Still
  <1>6. \A a, x, time : Still(s, Unbond(s, a, x, time))
    BY DEF Unbond, Still, Fields
  <1> QED BY <1>1, <1>2, <1>3, <1>4, <1>5, <1>6

(* The unbonding queue does not hold coins of the pool. *)
LEMMA ReleaseStill ==
    ASSUME NEW s, Shape(s), NEW time
    PROVE  Still(s, ReleaseUnbonded(s, time))
  <1> DEFINE b == [s EXCEPT !.unb = <<>>]
             n == Len(s.unb)
             q == s.unb
             o == ReleaseUnbonded(s, time)
  <1>1. DOMAIN s = Fields /\ q \in Seq(Entries)
    BY DEF Shape
  <1>2. n \in Nat /\ DOMAIN q = 1..n
    BY <1>1
  <1>3. o = Releasing!Fold(time, 0, b, q)
    BY DEF ReleaseUnbonded, Releasing!Fold, FoldLeft, Releasing!FoldLeft, MapThenFoldSet,
           Releasing!MapThenFoldSet, Max, Releasing!Max, ReleaseStep
  <1>4. Still(s, b)
    BY <1>1 DEF Still, Fields
  <1> HIDE DEF b, n, o, q
  <1>5. PICK f : /\ f[0] = b
                 /\ \A k \in 1..n : f[k] = ReleaseStep(time, 0, f[k - 1], q[k])
                 /\ f[n] = Releasing!Fold(time, 0, b, q)
    <2>1. Releasing!Traced(time, 0, b, n, q)
      BY <1>2, Releasing!FoldTrace
    <2> QED BY <2>1 DEF Releasing!Traced
  <1>6. ASSUME NEW k \in 1..n, DOMAIN f[k - 1] = Fields PROVE Still(f[k - 1], f[k])
    <2> DEFINE t == f[k - 1]
               u == q[k]
    <2>1. f[k] = ReleaseStep(time, 0, t, u) /\ DOMAIN t = Fields
      BY <1>5, <1>6
    <2> HIDE DEF t, u
    <2>2. Still(t, Credit(t, u.addr, Native, u.amt)) /\ Still(t, [t EXCEPT !.unb = Append(@, u)])
      BY <2>1, PursesStill DEF Still, Fields
    <2>3. Still(t, f[k])
      BY <2>1, <2>2 DEF ReleaseStep
    <2> QED BY <2>3 DEF t
  <1>7. Still(f[0], f[n])
    BY <1>2, <1>4, <1>5, <1>6, TraceStill DEF Still
  <1>8. Still(s, o)
    BY <1>3, <1>4, <1>5, <1>7 DEF Still
  <1> QED BY <1>8 DEF o

(* Nor does a validator that leaves. *)
LEMMA LeaveStill ==
    ASSUME NEW s, DOMAIN s = Fields, NEW v, NEW n \in Nat, NEW order, DOMAIN order = 1..n, NEW time
    PROVE  Still(s, Leave(s, v, order, time))
  <1> DEFINE d == s.val[v].delegators
             out == Leaving!Fold(time, d, s, order)
             o == Leave(s, v, order, time)
  <1>1. o = [out EXCEPT !.val = Without(@, v)]
    BY DEF Leave, Leaving!Fold, FoldLeft, Leaving!FoldLeft, MapThenFoldSet,
           Leaving!MapThenFoldSet, Max, Leaving!Max, LeaveEntry
  <1> HIDE DEF d, o, out
  <1>2. PICK f : /\ f[0] = s
                 /\ \A k \in 1..n : f[k] = LeaveEntry(time, d, f[k - 1], order[k])
                 /\ f[n] = out
    <2>1. Leaving!Traced(time, d, s, n, order)
      BY Leaving!FoldTrace
    <2> QED BY <2>1 DEF Leaving!Traced, out
  <1>3. ASSUME NEW k \in 1..n, DOMAIN f[k - 1] = Fields PROVE Still(f[k - 1], f[k])
    <2>1. f[k] = Unbond(f[k - 1], order[k], d[order[k]], time)
      BY <1>2 DEF LeaveEntry
    <2> QED BY <1>3, <2>1, PursesStill
  <1>4. Still(f[0], f[n])
    BY <1>2, <1>3, TraceStill
  <1>5. Still(s, o)
    BY <1>1, <1>2, <1>4 DEF Still, Fields
  <1> QED BY <1>5 DEF o

(* A slash burns stakes and delegations. *)
LEMMA SlashWeightStill ==
    ASSUME NEW s, DOMAIN s = Fields, NEW v, NEW bps
    PROVE  Still(s, SlashWeight(s, v, bps))
  <1> DEFINE w == s.val[v]
             cut == Bps(w.stake, bps)
             dcut == [a \in DOMAIN w.delegators |-> Bps(w.delegators[a], bps)]
             left == IF s.acc[v].staked >= cut THEN s.acc[v].staked - cut ELSE 0
             acc == IF v \in DOMAIN s.acc THEN [s.acc EXCEPT ![v].staked = left] ELSE s.acc
             x == cut + SumFunction(dcut)
             y == SumFunction(dcut)
             b == BurnSupply(s, x)
             val == [b.val EXCEPT ![v].stake = Minus(@, cut), ![v].delegated = Minus(@, y),
                                  ![v].delegators = [a \in DOMAIN @ |-> Minus(@[a], dcut[a])]]
             o == SlashWeight(s, v, bps)
  <1>1. Still(s, b)
    BY PursesStill
  <1>2. o = [b EXCEPT !.acc = acc,
                      !.val[v].stake = Minus(@, cut),
                      !.val[v].delegated = Minus(@, y),
                      !.val[v].delegators = [a \in DOMAIN @ |-> Minus(@[a], dcut[a])]]
    BY DEF SlashWeight
  <1> HIDE DEF b, acc, cut, y, dcut, o
  <1>3. Still(b, o)
    BY <1>1, <1>2 DEF Still, Fields
  <1> QED BY <1>1, <1>3 DEF Still, o

(* Nor does a fault. *)
LEMMA SlashStill ==
    ASSUME NEW s, DOMAIN s = Fields, NEW fault, NEW n \in Nat, NEW order, DOMAIN order = 1..n,
           NEW time
    PROVE  Still(s, Slash(s, fault, order, time))
  <1> DEFINE v == fault.voter
             marked == [s EXCEPT !.slashed = @ \cup {fault}]
             cut == SlashWeight(marked, v, Params.SlashDoubleSignBps)
             gone == Leave(cut, v, order, time)
  <1>1. Still(s, marked)
    BY DEF Still, Fields
  <1> HIDE DEF marked
  <1>2. Still(marked, cut)
    BY <1>1, SlashWeightStill DEF Still
  <1> HIDE DEF cut
  <1>3. Still(cut, gone)
    BY <1>2, LeaveStill DEF Still
  <1> HIDE DEF gone
  <1>4. Slash(s, fault, order, time) \in {s, marked, gone, cut}
    BY DEF Slash, marked, cut, gone
  <1> QED BY <1>1, <1>2, <1>3, <1>4 DEF Still

(* Nor does all the evidence of a block. *)
LEMMA SlashAllStill ==
    ASSUME NEW s, Shape(s), NEW E, NEW evidence \in Seq(E), NEW time \in Nat,
           NEW order, OrderOK(order)
    PROVE  Still(s, SlashAll(s, evidence, order, time))
  <1> DEFINE n == Len(evidence)
             o == SlashAll(s, evidence, order, time)
  <1>1. n \in Nat /\ DOMAIN evidence = 1..n
    OBVIOUS
  <1>2. o = Slashing!Fold(time, order, s, evidence)
    BY DEF SlashAll, Slashing!Fold, FoldLeft, Slashing!FoldLeft, MapThenFoldSet,
           Slashing!MapThenFoldSet, Max, Slashing!Max, SlashOne
  <1> HIDE DEF n, o
  <1>3. PICK f : /\ f[0] = s
                 /\ \A k \in 1..n : f[k] = SlashOne(time, order, f[k - 1], evidence[k])
                 /\ f[n] = Slashing!Fold(time, order, s, evidence)
    <2>1. Slashing!Traced(time, order, s, n, evidence)
      BY <1>1, Slashing!FoldTrace
    <2> QED BY <2>1 DEF Slashing!Traced
  <1>4. ASSUME NEW k \in 1..n, Shape(f[k - 1]) PROVE Shape(f[k]) /\ Still(f[k - 1], f[k])
    <2> DEFINE t == f[k - 1]
               fault == evidence[k]
               v == fault.voter
               list == IF v \in DOMAIN t.val THEN order[DOMAIN t.val[v].delegators] ELSE <<>>
    <2>1. f[k] = Slash(t, fault, list, time)
      BY <1>3 DEF SlashOne
    <2>2. v \in DOMAIN t.val => /\ Lists(list, DOMAIN t.val[v].delegators)
                                /\ DOMAIN t.val[v].delegators \subseteq Addr
      <3>1. \A u \in DOMAIN t.val : DOMAIN t.val[u].delegators \subseteq Addr
        BY SMTT(40), <1>4 DEF Shape, ValOK, ValidatorOK
      <3> QED BY SMTT(40), <3>1 DEF OrderOK
    <2>3. \E m \in Nat : DOMAIN list = 1..m
      <3>1. CASE v \in DOMAIN t.val
        <4> DEFINE S == DOMAIN t.val[v].delegators
        <4>1. Cardinality(S) \in Nat
          BY ZenonT(40), <2>2, <3>1, NamesDiffer, FS_Subset, FS_CardinalityType
        <4>2. DOMAIN list = 1..Cardinality(S)
          <5> HIDE DEF list
          <5> QED BY ZenonT(40), <2>2, <3>1 DEF Lists
        <4> QED BY ZenonT(40), <4>1, <4>2
      <3>2. CASE v \notin DOMAIN t.val
        <4>1. DOMAIN list = 1..0
          BY <3>2
        <4> QED BY ZenonT(40), <4>1
      <3> QED BY SMTT(40), <3>1, <3>2
    <2> HIDE DEF list, t, fault
    <2>4. Shape(t) /\ DOMAIN t = Fields
      BY <1>4 DEF t, Shape
    <2>5. Shape(f[k])
      <3>1. Settles(t, f[k])
        BY <2>1, <2>2, <2>4, SlashStep
      <3> QED BY <3>1 DEF Settles, Neutral
    <2>6. Still(t, f[k])
      BY <2>1, <2>3, <2>4, SlashStill
    <2> QED BY <2>5, <2>6 DEF t
  <1> DEFINE T == {k \in Nat : Shape(f[k]) /\ Still(s, f[k])}
  <1>5. 0 \in T
    BY <1>3 DEF Still, Shape
  <1>6. ASSUME NEW k \in 1..n, k - 1 \in T PROVE k \in T
    BY <1>4, <1>6 DEF Still
  <1> HIDE DEF T
  <1>7. \A k \in 0..n : k \in T
    BY <1>1, <1>5, <1>6, Positions
  <1>8. n \in T
    BY <1>1, <1>7
  <1>9. Still(s, o)
    BY <1>2, <1>3, <1>8 DEF T
  <1> QED BY <1>9 DEF o

(* An absence, and all of them. *)
LEMMA MissStill ==
    ASSUME NEW s, DOMAIN s = Fields, NEW v, NEW time
    PROVE  Still(s, Miss(s, v, time))
  <1> DEFINE cut == SlashWeight(s, v, Params.SlashDowntimeBps)
             missed == s.val[v].missed + 1
             noted == [s EXCEPT !.val[v].missed = missed]
             u == time + Params.JailMs
             jailed == [cut EXCEPT !.val[v].jailed = TRUE, !.val[v].until = u,
                                   !.val[v].missed = 0]
  <1>1. Still(s, cut)
    BY SlashWeightStill
  <1>2. Still(s, s)
    BY DEF Still
  <1>3. Miss(s, v, time) \in {s, noted, jailed}
    BY DEF Miss
  <1> HIDE DEF cut, missed, u
  <1>4. Still(s, noted)
    BY DEF Still, Fields
  <1>5. Still(cut, jailed)
    BY <1>1 DEF Still, Fields
  <1> HIDE DEF noted, jailed
  <1> QED BY <1>1, <1>2, <1>3, <1>4, <1>5 DEF Still

(* Whoever was skipped, one after the other. *)
LEMMA DowntimeStill ==
    ASSUME NEW s, DOMAIN s = Fields, NEW p, NEW N, NEW absent \in Seq(N), NEW time
    PROVE  Still(s, ApplyDowntime(s, p, absent, time))
  <1> DEFINE n == Len(absent)
             b == IF p \in DOMAIN s.val THEN [s EXCEPT !.val[p].missed = 0] ELSE s
             o == ApplyDowntime(s, p, absent, time)
  <1>1. n \in Nat /\ DOMAIN absent = 1..n
    OBVIOUS
  <1>2. o = Missing!Fold(time, 0, b, absent)
    BY DEF ApplyDowntime, Missing!Fold, FoldLeft, Missing!FoldLeft, MapThenFoldSet,
           Missing!MapThenFoldSet, Max, Missing!Max, MissOne
  <1>3. Still(s, b)
    BY DEF Still, Fields
  <1> HIDE DEF n, b, o
  <1>4. PICK f : /\ f[0] = b
                 /\ \A k \in 1..n : f[k] = MissOne(time, 0, f[k - 1], absent[k])
                 /\ f[n] = Missing!Fold(time, 0, b, absent)
    <2>1. Missing!Traced(time, 0, b, n, absent)
      BY <1>1, Missing!FoldTrace
    <2> QED BY <2>1 DEF Missing!Traced
  <1>5. ASSUME NEW k \in 1..n, DOMAIN f[k - 1] = Fields PROVE Still(f[k - 1], f[k])
    <2>1. f[k] = Miss(f[k - 1], absent[k], time)
      BY <1>4 DEF MissOne
    <2> QED BY <1>5, <2>1, MissStill
  <1>6. Still(f[0], f[n])
    BY <1>1, <1>3, <1>4, <1>5, TraceStill DEF Still
  <1>7. Still(s, o)
    BY <1>2, <1>3, <1>4, <1>6 DEF Still
  <1> QED BY <1>7 DEF o

(* The reward of a block is new money. *)
LEMMA RewardStill ==
    ASSUME NEW s, Shape(s), NEW p, NEW reward
    PROVE  Still(s, DistributeReward(s, p, reward))
  <1> DEFINE w == s.val[p]
             delegShare == MulDiv(reward, w.delegated, Weight(w))
             commission == Bps(delegShare, Params.DelegationCommissionBps)
             shares == [a \in DOMAIN w.delegators |->
                           MulDiv(delegShare - commission, w.delegators[a], w.delegated)]
             own == reward - SumFunction(shares)
             paid == Rewarding!Fold(0, shares, s, InOrder(DOMAIN shares))
             new == MintSupply(Credit(paid, p, Native, own), reward)
             minted == Mint(s, p, reward)
             o == DistributeReward(s, p, reward)
  <1>1. o = IF reward = 0 THEN s
            ELSE IF p \notin DOMAIN s.val \/ s.val[p].delegated = 0 THEN minted ELSE new
    BY DEF DistributeReward, Rewarding!Fold, FoldLeft, Rewarding!FoldLeft, MapThenFoldSet,
           Rewarding!MapThenFoldSet, Max, Rewarding!Max, RewardEntry
  <1>2. DOMAIN s = Fields
    BY DEF Shape
  <1>3. Still(s, s) /\ Still(s, minted)
    BY <1>2, PursesStill DEF Still
  <1>4. ASSUME p \in DOMAIN s.val PROVE Still(s, new)
    <2> DEFINE S == DOMAIN shares
               list == InOrder(S)
               n == Cardinality(S)
    <2>1. S \subseteq Addr
      BY <1>4 DEF Shape, ValOK, ValidatorOK
    <2> HIDE DEF shares
    <2>2. n \in Nat /\ DOMAIN list = 1..n
      BY <2>1, OrderedDomain
    <2> HIDE DEF list, n, own
    <2>3. PICK f : /\ f[0] = s
                   /\ \A k \in 1..n : f[k] = RewardEntry(0, shares, f[k - 1], list[k])
                   /\ f[n] = Rewarding!Fold(0, shares, s, list)
      <3>1. Rewarding!Traced(0, shares, s, n, list)
        BY <2>2, Rewarding!FoldTrace
      <3> QED BY <3>1 DEF Rewarding!Traced
    <2>4. ASSUME NEW k \in 1..n, DOMAIN f[k - 1] = Fields PROVE Still(f[k - 1], f[k])
      <3>1. f[k] = Credit(f[k - 1], list[k], Native, shares[list[k]])
        BY <2>3 DEF RewardEntry
      <3> QED BY <2>4, <3>1, PursesStill
    <2>5. Still(f[0], f[n])
      BY <1>2, <2>2, <2>3, <2>4, TraceStill
    <2>6. Still(s, paid)
      BY <2>3, <2>5 DEF list
    <2> HIDE DEF paid
    <2>7. Still(paid, Credit(paid, p, Native, own))
      BY <2>6, PursesStill DEF Still
    <2> DEFINE c == Credit(paid, p, Native, own)
    <2> HIDE DEF c
    <2>8. Still(c, MintSupply(c, reward))
      BY <2>7, PursesStill DEF Still, c
    <2> QED BY <2>6, <2>7, <2>8 DEF Still, c
  <1>5. Still(s, o)
    <2> HIDE DEF minted, new, o
    <2> QED BY <1>1, <1>3, <1>4
  <1> QED BY <1>5 DEF o

(* Stakes and delegations. *)
LEMMA StakingStill ==
    ASSUME NEW s, Shape(s), NEW tx, tx.type \in StakingTypes, NEW time,
           tx.from \in DOMAIN s.acc, StakingAllowed(s, tx, time)
    PROVE  Still(s, StakingEffect(s, tx, time))
  <1> DEFINE o == StakingEffect(s, tx, time)
             d == Debit(s, tx.from, Native, tx.amount)
             u == Unbond(s, tx.from, tx.amount, time)
  <1>1. DOMAIN s = Fields
    BY DEF Shape
  <1>2. Still(s, d) /\ Still(s, u)
    BY <1>1, PursesStill
  <1>3. CASE tx.type = "stake"
    <2>1. o = Stake(s, tx)
      BY <1>3 DEF StakingEffect
    <2> HIDE DEF o
    <2>2. \A e, f : Still(s, [d EXCEPT !.acc = e, !.val = f])
      <3> HIDE DEF d
      <3> QED BY <1>2 DEF Still, Fields
    <2> DEFINE v == IF tx.from \in DOMAIN s.val THEN s.val[tx.from] ELSE NewValidator
               w == [v EXCEPT !.stake = Plus(@, tx.amount)]
    <2>3. o = [d EXCEPT !.acc[tx.from].staked = Plus(@, tx.amount),
                        !.val = Put(@, tx.from, w)]
      BY <2>1 DEF Stake
    <2> HIDE DEF d, w
    <2> QED BY <1>2, <2>3 DEF Still, Fields, o
  <1>4. CASE tx.type = "unstake"
    <2> DEFINE left == Minus(s.val[tx.from].stake, tx.amount)
               out == [u EXCEPT !.acc[tx.from].staked = Minus(@, tx.amount),
                                !.val[tx.from].stake = left]
               S == DOMAIN s.val[tx.from].delegators
               list == InOrder(S)
    <2>1. tx.from \in DOMAIN s.val
      BY <1>4 DEF StakingAllowed
    <2>2. S \subseteq Addr
      BY <2>1 DEF Shape, ValOK, ValidatorOK
    <2>3. Cardinality(S) \in Nat /\ DOMAIN list = 1..Cardinality(S)
      BY <2>2, OrderedDomain
    <2>4. o = IF left # 0 THEN out ELSE Leave(out, tx.from, list, time)
      BY <1>4 DEF StakingEffect, Unstake
    <2> HIDE DEF o, u, S, list, left
    <2>5. Still(s, out)
      BY <1>2 DEF Still, Fields
    <2> HIDE DEF out
    <2>6. Still(out, Leave(out, tx.from, list, time))
      BY <2>3, <2>5, LeaveStill DEF Still
    <2> QED BY <2>4, <2>5, <2>6 DEF Still, o
  <1>5. CASE tx.type = "unjail"
    <2>1. o = [s EXCEPT !.val[tx.from].jailed = FALSE, !.val[tx.from].missed = 0]
      BY <1>5 DEF StakingEffect, Unjail
    <2> HIDE DEF o
    <2> QED BY <1>1, <2>1 DEF Still, Fields, o
  <1>6. CASE tx.type = "delegate"
    <2> DEFINE y == Plus(Delegation(s, tx.to, tx.from), tx.amount)
    <2>1. o = [d EXCEPT !.val[tx.to].delegators = Put(@, tx.from, y),
                        !.val[tx.to].delegated = Plus(@, tx.amount)]
      BY <1>6 DEF StakingEffect, Delegate
    <2> HIDE DEF o, d, y
    <2> QED BY <1>2, <2>1 DEF Still, Fields, o
  <1>7. CASE tx.type = "undelegate"
    <2> DEFINE left == Delegation(s, tx.to, tx.from) - tx.amount
    <2>1. o = [u EXCEPT !.val[tx.to].delegated = Minus(@, tx.amount),
                        !.val[tx.to].delegators = IF left = 0 THEN Without(@, tx.from)
                                                  ELSE [@ EXCEPT ![tx.from] = left]]
      BY <1>7 DEF StakingEffect, Undelegate
    <2> HIDE DEF o, u, left
    <2> QED BY <1>2, <2>1 DEF Still, Fields, o
  <1>8. CASE tx.type = "validator_profile"
    <2>1. o = s
      BY <1>8 DEF StakingEffect
    <2> QED BY <1>1, <2>1 DEF Still
  <1> QED BY <1>3, <1>4, <1>5, <1>6, <1>7, <1>8 DEF StakingTypes

(* Tokens. *)
LEMMA TokenStill ==
    ASSUME NEW s, DOMAIN s = Fields, NEW tx, tx.type \in TokenTypes
    PROVE  Still(s, TokenEffect(s, tx))
  <1> DEFINE o == TokenEffect(s, tx)
  <1>1. CASE tx.type = "transfer"
    <2> DEFINE d == Debit(s, tx.from, tx.token, tx.amount)
    <2>1. Still(s, d)
      BY PursesStill
    <2>2. o = Credit(d, tx.to, tx.token, tx.amount)
      BY <1>1 DEF TokenEffect
    <2> HIDE DEF d, o
    <2>3. Still(d, o)
      BY <2>1, <2>2, PursesStill DEF Still
    <2> QED BY <2>1, <2>3 DEF Still, o
  <1>2. CASE tx.type = "create_token"
    <2> DEFINE c == Credit(s, tx.from, tx.token.symbol, tx.token.supply)
               e == [creator |-> tx.from, supply |-> tx.token.supply,
                     mintable |-> tx.token.mintable]
    <2>1. Still(s, c)
      BY PursesStill
    <2>2. o = [c EXCEPT !.tok = Put(@, tx.token.symbol, e)]
      BY <1>2 DEF TokenEffect, CreateToken
    <2> HIDE DEF c, o, e
    <2> QED BY <2>1, <2>2 DEF Still, Fields, o
  <1>3. CASE tx.type = "mint"
    <2> DEFINE a == IF tx.to # NoAddr THEN tx.to ELSE tx.from
               c == Credit(s, a, tx.token, tx.amount)
    <2>1. Still(s, c)
      BY PursesStill
    <2>2. o = [c EXCEPT !.tok[tx.token].supply = Plus(@, tx.amount)]
      BY <1>3 DEF TokenEffect, MintToken
    <2> HIDE DEF c, o
    <2> QED BY <2>1, <2>2 DEF Still, Fields, o
  <1> QED BY <1>1, <1>2, <1>3 DEF TokenTypes

(* A contract that is created, and one that pays. *)
LEMMA CreateStill ==
    ASSUME NEW s, DOMAIN s = Fields, NEW tx
    PROVE  Still(s, Create(s, tx))
  <1> DEFINE c == tx.contract
             d == Debit(s, tx.from, c.token, c.amount)
             e == [x \in DOMAIN c \cup {"creator", "released", "proposals", "status"} |->
                      CASE x = "creator"   -> tx.from
                        [] x = "released"  -> 0
                        [] x = "proposals" -> <<>>
                        [] x = "status"    -> "active"
                        [] OTHER           -> c[x]]
             o == Create(s, tx)
  <1>1. Still(s, d)
    BY PursesStill
  <1>2. o = [d EXCEPT !.ctr = Put(@, <<tx.from, tx.nonce>>, e)]
    BY DEF Create
  <1> HIDE DEF d, e, o
  <1> QED BY <1>1, <1>2 DEF Still, Fields, o

(* Whatever a contract decides. *)
LEMMA ExecStill ==
    ASSUME NEW s, DOMAIN s = Fields, NEW tx, NEW time,
           tx.action \in {"claim", "release", "refund", "propose", "approve", "reject"}
    PROVE  Still(s, Exec(s, tx, time))
  <1>1. ASSUME NEW t, DOMAIN t = Fields, NEW id, NEW to, NEW x
        PROVE  Still(t, Release(t, id, to, x)) /\ Still(t, Pay(t, id, to, x))
    <2> DEFINE paid == Pay(t, id, to, x)
               sum == Plus(t.ctr[id].released, x)
               o == Release(t, id, to, x)
    <2>1. Still(t, paid)
      BY <1>1, PursesStill DEF Pay
    <2>2. o = [paid EXCEPT !.ctr[id].released = sum,
                           !.ctr[id].status = IF sum = t.ctr[id].amount
                                              THEN "completed" ELSE @]
      BY DEF Release
    <2> HIDE DEF paid, sum, o
    <2> QED BY <2>1, <2>2 DEF Still, Fields, o, paid
  <1>2. ASSUME NEW t, DOMAIN t = Fields, NEW id, NEW i
        PROVE  Still(t, Settle(t, id, i))
    <2> DEFINE p == t.ctr[id].proposals[i]
               r == Release(t, id, p.to, p.amount)
               e == [r EXCEPT !.ctr[id].proposals[i].executed = TRUE]
               n == [t EXCEPT !.ctr[id].proposals[i].rejected = TRUE]
    <2>1. Settle(t, id, i) \in {t, e, n}
      BY ZenonT(40) DEF Settle, ExecuteProposal
    <2>2. Still(t, r)
      BY <1>1, <1>2
    <2> HIDE DEF p, r
    <2>3. Still(t, e)
      BY <2>2 DEF Still, Fields
    <2>4. Still(t, n)
      BY <1>2 DEF Still, Fields
    <2> QED BY <1>2, <2>1, <2>3, <2>4 DEF Still
  <1> DEFINE o == Exec(s, tx, time)
             c == s.ctr[tx.id]
  <1>3. CASE tx.action = "claim"
    <2>1. o = Release(s, tx.id, c.beneficiary, Claimable(c, time))
      BY <1>3 DEF Exec, Claim
    <2> QED BY <1>1, <2>1
  <1>4. CASE tx.action = "release"
    <2> DEFINE p == Pay(s, tx.id, c.seller, c.amount)
               y == c.amount
    <2>1. o = [p EXCEPT !.ctr[tx.id].released = y, !.ctr[tx.id].status = "completed"]
      BY <1>4 DEF Exec, ReleaseEscrow
    <2>2. Still(s, p)
      BY <1>1
    <2> HIDE DEF p, y, o
    <2> QED BY <2>1, <2>2 DEF Still, Fields, o
  <1>5. CASE tx.action = "refund"
    <2> DEFINE p == Pay(s, tx.id, c.creator, c.amount)
    <2>1. o = [p EXCEPT !.ctr[tx.id].status = "refunded"]
      BY <1>5 DEF Exec, Refund
    <2>2. Still(s, p)
      BY <1>1
    <2> HIDE DEF p, o
    <2> QED BY <2>1, <2>2 DEF Still, Fields, o
  <1>6. CASE tx.action = "propose"
    <2> DEFINE filed == [s EXCEPT !.ctr[tx.id].proposals =
                            Append(@, Proposal(tx.to, tx.amount, tx.from))]
               i == Len(filed.ctr[tx.id].proposals)
    <2>1. o = Settle(filed, tx.id, i)
      BY <1>6 DEF Exec, Propose
    <2>2. Still(s, filed)
      BY DEF Still, Fields
    <2> HIDE DEF filed, i, o
    <2>3. Still(filed, o)
      BY <1>2, <2>1, <2>2 DEF Still
    <2> QED BY <2>2, <2>3 DEF Still, o
  <1>7. CASE tx.action \in {"approve", "reject"}
    <2> DEFINE side == IF tx.action = "approve" THEN "for" ELSE "against"
               voted == [s EXCEPT !.ctr[tx.id].proposals[tx.proposal][side] =
                            @ \cup {tx.from}]
    <2>1. o = Settle(voted, tx.id, tx.proposal)
      BY ZenonT(40), <1>7 DEF Exec, Vote
    <2> HIDE DEF side
    <2>2. Still(s, voted)
      BY DEF Still, Fields
    <2> HIDE DEF voted, o
    <2>3. Still(voted, o)
      BY <1>2, <2>1, <2>2 DEF Still
    <2> QED BY <2>2, <2>3 DEF Still, o
  <1> QED BY <1>3, <1>4, <1>5, <1>6, <1>7

(* Programs, and what they pay. *)
LEMMA WasmStill ==
    ASSUME NEW s, Shape(s), NEW tx, Decoded(tx), tx.type \in WasmTypes, WasmAllowed(s, tx)
    PROVE  Still(s, WasmEffect(s, tx))
  <1> DEFINE o == WasmEffect(s, tx)
  <1>1. DOMAIN s = Fields
    BY DEF Shape
  <1>2. CASE tx.type = "wasm_deploy"
    <2> DEFINE e == [code |-> tx.code, store |-> <<>>, bal |-> 0, calls |-> 0,
                     creator |-> tx.from]
    <2>1. o = [s EXCEPT !.wasm = Put(@, <<tx.from, tx.nonce>>, e)]
      BY <1>2 DEF WasmEffect, Deploy
    <2> HIDE DEF o, e
    <2> QED BY <1>1, <2>1 DEF Still, Fields, o
  <1>3. CASE tx.type = "wasm_call"
    <2> DEFINE id == tx.id
               wc == s.wasm[id]
               given == Plus(wc.bal, tx.amount)
               new == NewSandbox(wc, tx.amount, GasLimit(tx))
               box == Run(new, wc.code, tx.action)
               d == Debit(s, tx.from, Native, tx.amount)
               paid == Paying!Fold(0, 0, d, box.out)
               e == [paid EXCEPT !.wasm[id].store = box.store, !.wasm[id].bal = box.bal,
                                 !.wasm[id].calls = @ + 1]
    <2>1. o = IF box.trapped THEN s ELSE e
      BY SMTT(40), <1>3 DEF WasmEffect, Call, Paying!Fold, FoldLeft, Paying!FoldLeft, MapThenFoldSet,
             Paying!MapThenFoldSet, Max, Paying!Max, PayOne
    <2>2. ASSUME ~box.trapped PROVE \E n \in Nat : DOMAIN box.out = 1..n
      <3>1. /\ {"code", "store", "bal", "calls"} \subseteq DOMAIN wc
            /\ wc.bal \in Amounts /\ wc.code \in DOMAIN Programs
        BY <1>3 DEF Shape, WasmOK, WasmAllowed
      <3>2. given \in Amounts
        BY <3>1, WordType, PlusWord DEF Decoded
      <3>3. "trapped" \in DOMAIN new /\ \A names : Keeps(new, names, given)
        <4>1. DOMAIN new = {"bal", "store", "out", "gas", "trapped"} /\ new.bal = given
              /\ new.out = <<>>
          BY DEF NewSandbox
        <4>2. Out(new) = 0
          <5> DEFINE f == [i \in DOMAIN new.out |-> new.out[i][2]]
          <5>1. DOMAIN f = {}
            BY <4>1
          <5> HIDE DEF f
          <5>2. SumFunction(f) = 0
            BY <5>1, SumOfNone DEF SumFunction
          <5> QED BY <5>2 DEF f, Out
        <4>3. given + 0 = given
          BY <3>2, WordType
        <4> HIDE DEF new, given
        <4> QED BY <3>2, <4>1, <4>2, <4>3 DEF Keeps
      <3> HIDE DEF new, given
      <3>4. PICK names : Keeps(box, names, given)
        BY <2>2, <3>1, <3>3, RunStep
      <3>5. box.out \in Seq(names \X Nat)
        BY <3>4 DEF Keeps
      <3> HIDE DEF box
      <3>6. DOMAIN box.out = 1..Len(box.out) /\ Len(box.out) \in Nat
        BY <3>5
      <3> QED BY <3>6
    <2> DEFINE out == box.out
               st == box.store
               bl == box.bal
    <2>3. Still(s, d)
      BY <1>1, PursesStill
    <2> HIDE DEF d
    <2>4. ASSUME ~box.trapped PROVE Still(d, paid)
      <3>1. PICK n \in Nat : DOMAIN out = 1..n
        BY <2>2, <2>4
      <3> HIDE DEF out
      <3>2. PICK f : /\ f[0] = d
                     /\ \A k \in 1..n : f[k] = PayOne(0, 0, f[k - 1], out[k])
                     /\ f[n] = Paying!Fold(0, 0, d, out)
        <4>1. Paying!Traced(0, 0, d, n, out)
          BY <3>1, Paying!FoldTrace
        <4> QED BY <4>1 DEF Paying!Traced
      <3>3. ASSUME NEW k \in 1..n, DOMAIN f[k - 1] = Fields PROVE Still(f[k - 1], f[k])
        <4>1. f[k] \in {f[k - 1], Credit(f[k - 1], out[k][1], Native, out[k][2])}
          BY <3>2 DEF PayOne
        <4>2. Still(f[k - 1], Credit(f[k - 1], out[k][1], Native, out[k][2]))
          BY <3>3, PursesStill
        <4> QED BY <3>3, <4>1, <4>2 DEF Still
      <3>4. Still(f[0], f[n])
        BY <2>3, <3>2, <3>3, TraceStill DEF Still
      <3> QED BY <3>2, <3>4 DEF out
    <2>5. ASSUME ~box.trapped PROVE Still(s, e)
      <3>1. Still(s, paid)
        BY <2>3, <2>4, <2>5 DEF Still
      <3>2. e = [paid EXCEPT !.wasm[id].store = st, !.wasm[id].bal = bl,
                             !.wasm[id].calls = @ + 1]
        OBVIOUS
      <3> HIDE DEF paid, e, st, bl
      <3> QED BY <3>1, <3>2 DEF Still, Fields
    <2> HIDE DEF o, e, box
    <2>6. Still(s, o)
      BY <1>1, <2>1, <2>5 DEF Still
    <2> QED BY <2>6 DEF o
  <1> QED BY <1>2, <1>3 DEF WasmTypes

(* Fees are paid by accounts. *)
LEMMA ChargeFeeStill ==
    ASSUME NEW s, DOMAIN s = Fields, NEW tx, NEW proposer
    PROVE  Still(s, ChargeFee(s, tx, proposer))
  <1> DEFINE d == Debit(s, tx.from, Native, Fee(s, tx))
             p == BurnSupply(d, Burned(s, tx))
             c == Credit(p, proposer, Native, tx.tip)
             b == BurnSupply(p, tx.tip)
             r == IF proposer # NoAddr THEN c ELSE b
             o == ChargeFee(s, tx, proposer)
  <1>1. o = [r EXCEPT !.acc[tx.from].nonce = @ + 1]
    BY DEF ChargeFee
  <1>2. Still(s, d)
    BY PursesStill
  <1> HIDE DEF d
  <1>3. Still(d, p)
    BY <1>2, PursesStill DEF Still
  <1> HIDE DEF p
  <1>4. Still(p, c) /\ Still(p, b)
    BY <1>3, PursesStill DEF Still
  <1> HIDE DEF c, b
  <1>5. Still(s, r)
    BY <1>2, <1>3, <1>4 DEF Still
  <1> HIDE DEF r, o
  <1>6. Still(r, o)
    BY <1>1, <1>5 DEF Still, Fields
  <1> QED BY <1>5, <1>6 DEF Still, o

(* No transaction but those of the pool touches it. *)
LEMMA EffectStill ==
    ASSUME NEW s, Shape(s), NEW tx, Decoded(tx), ValidateBasic(tx), tx.from \in DOMAIN s.acc,
           NEW time, Allowed(s, tx, time), tx.type \notin ShieldedTypes
    PROVE  Still(s, Effect(s, tx, time))
  <1> DEFINE o == Effect(s, tx, time)
  <1>1. tx.type \in StakingTypes \cup TokenTypes \cup ContractTypes \cup WasmTypes
    BY DEF Decoded
  <1>2. DOMAIN s = Fields
    BY DEF Shape
  <1>3. CASE tx.type \in TokenTypes
    <2>1. o = TokenEffect(s, tx)
      BY <1>3 DEF Effect, TokenTypes, StakingTypes, ShieldedTypes, WasmTypes
    <2> QED BY <1>2, <1>3, <2>1, TokenStill
  <1>4. CASE tx.type \in StakingTypes
    <2>1. o = StakingEffect(s, tx, time) /\ StakingAllowed(s, tx, time)
      BY <1>4 DEF Effect, Allowed, TokenTypes, StakingTypes, ShieldedTypes, WasmTypes
    <2> QED BY <1>4, <2>1, StakingStill
  <1>5. CASE tx.type = "contract_create"
    <2>1. o = Create(s, tx)
      BY <1>5 DEF Effect, TokenTypes, StakingTypes, ShieldedTypes, WasmTypes
    <2> QED BY <1>2, <2>1, CreateStill
  <1>6. CASE tx.type = "contract_exec"
    <2>1. o = Exec(s, tx, time)
      BY <1>6 DEF Effect, TokenTypes, StakingTypes, ShieldedTypes, WasmTypes
    <2>2. tx.action \in {"claim", "release", "refund", "propose", "approve", "reject"}
      BY <1>6 DEF ValidateBasic, ValidAction
    <2> QED BY <1>2, <2>1, <2>2, ExecStill
  <1>7. CASE tx.type \in WasmTypes
    <2>1. o = WasmEffect(s, tx) /\ WasmAllowed(s, tx)
      BY <1>7 DEF Effect, Allowed, TokenTypes, StakingTypes, ShieldedTypes, WasmTypes
    <2> QED BY <1>7, <2>1, WasmStill
  <1> QED BY <1>1, <1>3, <1>4, <1>5, <1>6, <1>7 DEF ContractTypes

-----------------------------------------------------------------------------
(* What the notes of the pool are worth. *)

(* A finite set of notes is worth a number. *)
LEMMA WorthType ==
    ASSUME NEW S \in SUBSET Notes, IsFiniteSet(S)
    PROVE  /\ Worth(S) \in Nat
           /\ \A n \in S : n.value \in Nat
  <1> DEFINE f == [n \in S |-> n.value]
  <1>1. \A n \in Notes : n.value \in Nat
    BY WordType DEF Notes
  <1>2. DOMAIN f = S /\ \A n \in DOMAIN f : f[n] \in Nat
    BY <1>1
  <1> HIDE DEF f
  <1>3. SumFunction(f) \in Nat
    BY <1>2, SumType
  <1> QED BY <1>1, <1>3 DEF f, Worth, Sum

(* One note more. *)
LEMMA WorthMore ==
    ASSUME NEW S \in SUBSET Notes, IsFiniteSet(S), NEW m \in Notes
    PROVE  /\ IsFiniteSet(S \cup {m})
           /\ Worth(S \cup {m}) <= Worth(S) + m.value
           /\ Worth(S) <= Worth(S \cup {m})
           /\ m \notin S => Worth(S \cup {m}) = Worth(S) + m.value
  <1> DEFINE f == [n \in S |-> n.value]
             g == [n \in S \cup {m} |-> n.value]
             x == m.value
  <1>1. x \in Nat /\ \A n \in Notes : n.value \in Nat
    BY WordType DEF Notes
  <1>2. Worth(S) \in Nat
    BY WorthType
  <1>3. IsFiniteSet(S \cup {m})
    BY FS_AddElement
  <1>4. CASE m \in S
    <2>1. S \cup {m} = S
      BY <1>4
    <2> QED BY <1>1, <1>2, <1>3, <1>4, <2>1
  <1>5. CASE m \notin S
    <2>1. /\ DOMAIN f = S /\ DOMAIN g = DOMAIN f \cup {m} /\ g[m] = x /\ m \notin DOMAIN f
          /\ \A n \in DOMAIN f : f[n] \in Int
          /\ \A n \in DOMAIN f \ {m} : g[n] = f[n]
      BY <1>1, <1>5
    <2> HIDE DEF f, g, x
    <2>2. SumFunction(f) \in Int /\ SumFunction(g) = SumFunction(f) - 0 + x
      <3>1. IsFiniteSet(DOMAIN f) /\ g[m] \in Int
        BY <1>1, <2>1
      <3>2. SumFunction(g) = SumFunction(f) - (IF m \in DOMAIN f THEN f[m] ELSE 0) + g[m]
        BY <2>1, <3>1, SumPut
      <3>3. \A n \in DOMAIN f : f[n] \in Nat
        BY <1>1, <2>1 DEF f
      <3>4. SumFunction(f) \in Int
        BY <3>1, <3>3, SumType
      <3>5. (IF m \in DOMAIN f THEN f[m] ELSE 0) = 0
        BY <2>1
      <3> QED BY <2>1, <3>2, <3>4, <3>5
    <2>3. SumFunction(g) = SumFunction(f) + x
      BY <1>1, <2>2
    <2>4. Worth(S \cup {m}) = Worth(S) + x
      BY <2>3 DEF f, g, Worth, Sum
    <2> QED BY <1>1, <1>2, <1>3, <2>4 DEF x
  <1> QED BY <1>4, <1>5

(* Fewer notes are not worth more. *)
LEMMA WorthLess ==
    ASSUME NEW S \in SUBSET Notes, IsFiniteSet(S), NEW R \in SUBSET S
    PROVE  Worth(R) <= Worth(S)
  <1> DEFINE T == {U \in SUBSET S : \A V \in SUBSET U : Worth(V) <= Worth(U)}
  <1>0. \A U \in SUBSET S : U \in SUBSET Notes /\ IsFiniteSet(U) /\ Worth(U) \in Nat
    BY FS_Subset, WorthType
  <1>1. ASSUME NEW U \in SUBSET S, \A V \in SUBSET U : V # U => V \in T
        PROVE  U \in T
    <2>1. SUFFICES ASSUME NEW V \in SUBSET U PROVE Worth(V) <= Worth(U)
      OBVIOUS
    <2>2. CASE V = U
      <3>1. Worth(U) \in Nat
        BY <1>0
      <3> QED BY <2>2, <3>1
    <2>3. CASE V # U
      <3>1. PICK m \in U : m \notin V
        BY <2>3
      <3> DEFINE W == U \ {m}
      <3>2. W \in T /\ V \in SUBSET W /\ W \cup {m} = U /\ W \in SUBSET S /\ V \in SUBSET S
        BY <1>1, <3>1
      <3> HIDE DEF W
      <3>3. Worth(V) <= Worth(W)
        BY <3>2
      <3>4. Worth(W) <= Worth(U)
        BY <1>0, <3>1, <3>2, WorthMore
      <3>5. Worth(V) \in Nat /\ Worth(W) \in Nat /\ Worth(U) \in Nat
        BY <1>0, <3>2
      <3> QED BY <3>3, <3>4, <3>5
    <2> QED BY <2>2, <2>3
  <1>2. \A U \in SUBSET S : U \in T
    <2> HIDE DEF T
    <2> QED BY <1>1, FiniteSubsets
  <1> QED BY <1>2

(* The first notes of a list, and what they are worth one by one. *)
Heads(notes, k) == {notes[i] : i \in 1..k}

(* Each position brings one note. *)
LEMMA HeadsGrow ==
    ASSUME NEW notes \in Seq(Notes)
    PROVE  /\ Len(notes) \in Nat /\ DOMAIN notes = 1..Len(notes)
           /\ Heads(notes, 0) = {} /\ Heads(notes, Len(notes)) = Range(notes)
           /\ \A k \in 1..Len(notes) :
                 /\ notes[k] \in Notes /\ k \in Nat
                 /\ Heads(notes, k) = Heads(notes, k - 1) \cup {notes[k]}
                 /\ Heads(notes, k - 1) \in SUBSET Notes
  <1> DEFINE l == Len(notes)
  <1>1. l \in Nat /\ DOMAIN notes = 1..l /\ \A k \in 1..l : notes[k] \in Notes
    OBVIOUS
  <1> HIDE DEF l
  <1>2. Heads(notes, 0) = {} /\ Heads(notes, l) = Range(notes)
    BY <1>1 DEF Heads, Range
  <1>3. ASSUME NEW k \in 1..l
        PROVE  /\ Heads(notes, k) = Heads(notes, k - 1) \cup {notes[k]}
               /\ Heads(notes, k - 1) \in SUBSET Notes
    <2>1. 1..k = 1..(k - 1) \cup {k} /\ 1..(k - 1) \subseteq 1..l
      BY <1>1
    <2>2. Heads(notes, k) = Heads(notes, k - 1) \cup {notes[k]}
      BY <2>1 DEF Heads
    <2>3. Heads(notes, k - 1) \in SUBSET Notes
      BY <1>1, <2>1 DEF Heads
    <2> QED BY <2>2, <2>3
  <1>4. \A k \in 1..l : notes[k] \in Notes /\ k \in Nat
    BY <1>1
  <1> QED BY <1>1, <1>2, <1>3, <1>4 DEF l

(* Part of the values of a list. *)
Part(notes, k) == SumFunctionOnSet([i \in DOMAIN notes |-> notes[i].value], 1..k)

(* And its value. *)
LEMMA PartGrows ==
    ASSUME NEW notes \in Seq(Notes)
    PROVE  /\ Part(notes, 0) = 0 /\ Part(notes, Len(notes)) = Values(notes)
           /\ \A k \in 0..Len(notes) : Part(notes, k) \in Nat
           /\ \A k \in 1..Len(notes) :
                 Part(notes, k) = Part(notes, k - 1) + notes[k].value
  <1> DEFINE l == Len(notes)
             x == [i \in DOMAIN notes |-> notes[i].value]
  <1>1. l \in Nat /\ DOMAIN notes = 1..l /\ \A k \in 1..l : notes[k] \in Notes
    BY HeadsGrow
  <1>2. DOMAIN x = 1..l /\ \A k \in 1..l : x[k] = notes[k].value /\ x[k] \in Nat /\ x[k] \in Int
    BY <1>1, WordType DEF Notes
  <1> HIDE DEF l, x
  <1>3. Part(notes, 0) = 0
    <2>1. 1..0 = {}
      OBVIOUS
    <2> QED BY <2>1, SumOfNone DEF Part
  <1>4. Part(notes, l) = Values(notes)
    BY <1>2 DEF Part, Values, SumFunction, x
  <1>5. ASSUME NEW k \in 0..l PROVE Part(notes, k) \in Nat
    <2>1. IsFiniteSet(1..k) /\ 1..k \subseteq 1..l
      BY <1>1, FS_Interval
    <2>2. \A i \in 1..k : x[i] \in Nat
      BY <1>2, <2>1
    <2>3. SumFunctionOnSet(x, 1..k) \in Nat
      BY <2>1, <2>2, SumNat
    <2> QED BY <2>3 DEF Part, x
  <1>6. ASSUME NEW k \in 1..l PROVE Part(notes, k) = Part(notes, k - 1) + notes[k].value
    <2>1. k \in Nat /\ k > 0 /\ \A i \in 1..k : i \in 1..l
      BY <1>1
    <2>2. \A i \in 1..k : x[i] \in Int
      BY <1>2, <2>1
    <2>3. SumFunctionOnSet(x, 1..k) = SumFunctionOnSet(x, 1..(k - 1)) + x[k]
      BY <2>1, <2>2, SumPrefix
    <2> QED BY <1>2, <2>3 DEF Part, x
  <1> QED BY <1>3, <1>4, <1>5, <1>6 DEF l

(* Every note of a list goes in. *)
LEMMA WorthWith ==
    ASSUME NEW S \in SUBSET Notes, IsFiniteSet(S), NEW notes \in Seq(Notes)
    PROVE  /\ IsFiniteSet(S \cup Range(notes)) /\ Values(notes) \in Nat
           /\ Worth(S \cup Range(notes)) <= Worth(S) + Values(notes)
  <1> DEFINE l == Len(notes)
             A(k) == S \cup Heads(notes, k)
             T == {k \in Nat : /\ IsFiniteSet(A(k)) /\ A(k) \in SUBSET Notes
                               /\ Worth(A(k)) <= Worth(S) + Part(notes, k)}
  <1>1. Worth(S) \in Nat /\ l \in Nat
    BY WorthType, HeadsGrow
  <1>2. 0 \in T
    <2>1. A(0) = S /\ Part(notes, 0) = 0
      BY HeadsGrow, PartGrows
    <2> HIDE DEF A
    <2>2. Worth(A(0)) <= Worth(S) + Part(notes, 0)
      BY <1>1, <2>1
    <2> QED BY <2>1, <2>2
  <1>3. ASSUME NEW k \in 1..l, k - 1 \in T PROVE k \in T
    <2> DEFINE B == A(k - 1)
               m == notes[k]
    <2>1. /\ IsFiniteSet(B) /\ B \in SUBSET Notes /\ Worth(B) <= Worth(S) + Part(notes, k - 1)
      BY <1>3
    <2>2. m \in Notes /\ A(k) = B \cup {m} /\ k \in Nat
      BY HeadsGrow
    <2>3. /\ Part(notes, k) = Part(notes, k - 1) + m.value
          /\ Part(notes, k) \in Nat /\ Part(notes, k - 1) \in Nat
      <3>1. k \in 0..l /\ k - 1 \in 0..l
        BY <1>1
      <3> QED BY <3>1, PartGrows
    <2> HIDE DEF A, B, m
    <2>4. /\ IsFiniteSet(A(k)) /\ Worth(A(k)) <= Worth(B) + m.value
      BY <2>1, <2>2, WorthMore
    <2>5. A(k) \in SUBSET Notes
      BY <2>1, <2>2
    <2>6. m.value \in Nat /\ Worth(B) \in Nat /\ Worth(A(k)) \in Nat
      BY <2>1, <2>2, <2>4, <2>5, WordType, WorthType DEF Notes
    <2>7. Worth(A(k)) <= Worth(S) + Part(notes, k)
      BY <1>1, <2>1, <2>3, <2>4, <2>6
    <2> QED BY <2>2, <2>4, <2>5, <2>7
  <1> HIDE DEF T
  <1>4. \A k \in 0..l : k \in T
    BY <1>1, <1>2, <1>3, Positions
  <1>5. l \in T
    BY <1>1, <1>4
  <1>6. A(l) = S \cup Range(notes) /\ Part(notes, l) = Values(notes) /\ Part(notes, l) \in Nat
    <2>1. l \in 0..l
      BY <1>1
    <2> QED BY <2>1, HeadsGrow, PartGrows
  <1> QED BY <1>5, <1>6 DEF T

(* Every note of a list goes out, and none of them twice. *)
LEMMA WorthWithout ==
    ASSUME NEW S \in SUBSET Notes, IsFiniteSet(S), NEW notes \in Seq(Notes),
           Range(notes) \subseteq S,
           \A i, j \in DOMAIN notes : notes[i] = notes[j] => i = j
    PROVE  Worth(S \ Range(notes)) = Worth(S) - Values(notes)
  <1> DEFINE l == Len(notes)
             A(k) == S \ Heads(notes, k)
             T == {k \in Nat : Worth(A(k)) = Worth(S) - Part(notes, k)}
  <1>1. Worth(S) \in Nat /\ l \in Nat /\ DOMAIN notes = 1..l
    BY WorthType, HeadsGrow
  <1>2. 0 \in T
    <2>1. A(0) = S /\ Part(notes, 0) = 0
      BY HeadsGrow, PartGrows
    <2> HIDE DEF A
    <2>2. Worth(A(0)) = Worth(S) - Part(notes, 0)
      BY <1>1, <2>1
    <2> QED BY <2>2
  <1>3. ASSUME NEW k \in 1..l, k - 1 \in T PROVE k \in T
    <2> DEFINE B == A(k)
               m == notes[k]
    <2>1. Worth(A(k - 1)) = Worth(S) - Part(notes, k - 1)
      BY <1>3
    <2>2. m \in Notes /\ k \in Nat /\ m \in S
      BY <1>1, HeadsGrow DEF Range
    <2>3. /\ Part(notes, k) = Part(notes, k - 1) + m.value
          /\ Part(notes, k) \in Nat /\ Part(notes, k - 1) \in Nat
      <3>1. k \in 0..l /\ k - 1 \in 0..l
        BY <1>1
      <3> QED BY <3>1, PartGrows
    <2>4. m \notin Heads(notes, k - 1)
      <3>1. \A i \in 1..(k - 1) : i \in 1..l /\ i # k
        BY <1>1
      <3> QED BY <1>1, <3>1 DEF Heads
    <2>5. A(k - 1) = B \cup {m} /\ m \notin B
      BY <2>2, <2>4, HeadsGrow
    <2>6. B \in SUBSET Notes /\ IsFiniteSet(B)
      BY FS_Subset
    <2> HIDE DEF A, B, m
    <2>7. Worth(A(k - 1)) = Worth(B) + m.value
      BY <2>2, <2>5, <2>6, WorthMore
    <2>8. m.value \in Nat /\ Worth(B) \in Nat
      BY <2>2, <2>6, WordType, WorthType DEF Notes
    <2>9. Worth(B) = Worth(S) - Part(notes, k)
      BY <1>1, <2>1, <2>3, <2>7, <2>8
    <2> QED BY <2>2, <2>9 DEF B
  <1> HIDE DEF T
  <1>4. \A k \in 0..l : k \in T
    BY <1>1, <1>2, <1>3, Positions
  <1>5. l \in T
    BY <1>1, <1>4
  <1>6. A(l) = S \ Range(notes) /\ Part(notes, l) = Values(notes)
    BY HeadsGrow, PartGrows
  <1> QED BY <1>5, <1>6 DEF T

-----------------------------------------------------------------------------
(* What the shielded pool owes. *)

(* The notes of a list are finitely many. *)
LEMMA RangeFinite ==
    ASSUME NEW notes \in Seq(Notes)
    PROVE  IsFiniteSet(Range(notes)) /\ Range(notes) \in SUBSET Notes
  <1> DEFINE S == {}
  <1>1. S \in SUBSET Notes /\ IsFiniteSet(S)
    BY FS_EmptySet
  <1>2. S \cup Range(notes) = Range(notes)
    OBVIOUS
  <1> HIDE DEF S
  <1>3. IsFiniteSet(S \cup Range(notes))
    BY <1>1, WorthWith
  <1>4. Range(notes) \in SUBSET Notes
    BY HeadsGrow DEF Range
  <1> QED BY <1>2, <1>3, <1>4

(* Two lists one after the other hold the notes of both. *)
LEMMA RangeOfBoth ==
    ASSUME NEW l \in Seq(Notes), NEW m \in Seq(Notes)
    PROVE  /\ Range(l \o m) \subseteq Range(l) \cup Range(m)
           /\ \A n \in Notes : Range(Append(l, n)) \subseteq Range(l) \cup {n}
  <1>1. Range(l \o m) \subseteq Range(l) \cup Range(m)
    <2>1. SUFFICES ASSUME NEW i \in DOMAIN (l \o m)
                   PROVE  (l \o m)[i] \in Range(l) \cup Range(m)
      BY DEF Range
    <2>2. i \in 1..(Len(l) + Len(m)) /\ Len(l) \in Nat /\ Len(m) \in Nat
      OBVIOUS
    <2>3. CASE i <= Len(l)
      BY <2>2, <2>3 DEF Range
    <2>4. CASE i > Len(l)
      BY <2>2, <2>4 DEF Range
    <2> QED BY <2>2, <2>3, <2>4
  <1>2. ASSUME NEW n \in Notes PROVE Range(Append(l, n)) \subseteq Range(l) \cup {n}
    BY DEF Range
  <1> QED BY <1>1, <1>2

(* The pool of a ledger, and its notes. *)
LEMMA UnspentType ==
    ASSUME NEW s, Shape(s)
    PROVE  /\ DOMAIN s = Fields /\ s.pool.cms \in Seq(Notes) /\ s.pool.bal \in Amounts
           /\ s.pool.bal \in Nat /\ s.pool.bal < Word
           /\ DOMAIN s.pool = {"open", "cms", "nfs", "bal"}
           /\ Unspent(s) \in SUBSET Notes /\ IsFiniteSet(Unspent(s))
           /\ Worth(Unspent(s)) \in Nat
  <1>1. /\ DOMAIN s = Fields
        /\ s.pool \in [open : BOOLEAN, cms : Seq(Notes), nfs : SUBSET Nat, bal : Amounts]
    BY DEF Shape, PoolOK
  <1> DEFINE l == s.pool.cms
             R == Range(l)
             U == Unspent(s)
  <1>2. l \in Seq(Notes) /\ s.pool.bal \in Amounts
    BY <1>1
  <1>3. U \subseteq R
    BY DEF Unspent
  <1> HIDE DEF l, R, U
  <1>4. IsFiniteSet(R) /\ R \in SUBSET Notes
    BY <1>2, RangeFinite DEF R
  <1>5. U \in SUBSET Notes /\ IsFiniteSet(U)
    BY <1>3, <1>4, FS_Subset
  <1>6. Worth(U) \in Nat
    BY <1>5, WorthType
  <1>7. DOMAIN s.pool = {"open", "cms", "nfs", "bal"}
    BY <1>1
  <1>8. s.pool.bal \in Nat /\ s.pool.bal < Word
    BY <1>2, WordType
  <1> QED BY <1>1, <1>2, <1>5, <1>6, <1>7, <1>8 DEF U, l

(* A pool that is left as it was owes what it owed. *)
LEMMA StillBooked ==
    ASSUME NEW s, NEW o, Still(s, o)
    PROVE  Debt(o) = Debt(s) /\ o.pool.bal = s.pool.bal
  BY DEF Still, Debt, Unspent

(* What a transaction does to the books of the pool. *)
Booked(s, o, tx) ==
    /\ Debt(o) <= Debt(s) + Unpaid(tx)
    /\ o.pool.bal <= s.pool.bal + Deposit(tx)

(* A deposit brings its coins, and one note. *)
LEMMA ShieldBooked ==
    ASSUME NEW s, Shape(s), NEW tx, Decoded(tx), tx.type = "shield",
           s.pool.bal + tx.amount < Word
    PROVE  Booked(s, Shield(s, tx), tx) /\ DOMAIN Shield(s, tx) = Fields
  <1> DEFINE x == tx.amount
             n == tx.note
             v == n.value
             d == Debit(s, tx.from, Native, x)
             q == d.pool
             p == [q EXCEPT !.open = TRUE, !.bal = Plus(q.bal, x), !.cms = Append(q.cms, n)]
             o == Shield(s, tx)
             U == Unspent(s)
             V == Unspent(o)
             bal == s.pool.bal
             l == s.pool.cms
  <1>1. x \in Nat /\ n \in Notes /\ v \in Nat /\ bal + x < Word
    BY WordType DEF Decoded, Notes
  <1>2. /\ DOMAIN s = Fields /\ l \in Seq(Notes) /\ bal \in Nat
        /\ DOMAIN s.pool = {"open", "cms", "nfs", "bal"}
        /\ U \in SUBSET Notes /\ IsFiniteSet(U) /\ Worth(U) \in Nat
    BY UnspentType
  <1>3. DOMAIN d = Fields /\ q = s.pool
    BY <1>2, PursesStill DEF Still
  <1>4. o = [d EXCEPT !.pool = p]
    BY <1>3 DEF Shield, Fields
  <1> HIDE DEF d, o
  <1>5. DOMAIN o = Fields /\ o.pool = p
    BY <1>3, <1>4 DEF Fields
  <1>6. p.bal = Plus(bal, x) /\ p.cms = Append(l, n) /\ p.nfs = s.pool.nfs
    <2> HIDE DEF q, x, n
    <2> QED BY <1>2, <1>3
  <1>7. Unpaid(tx) = v - x /\ Deposit(tx) = x
    BY DEF Unpaid, Deposit
  <1> HIDE DEF p, q, x, n, v
  <1>8. Plus(bal, x) = bal + x
    BY <1>1, <1>2, PlusExact
  <1>9. V \in SUBSET (U \cup {n})
    <2>1. Range(p.cms) \subseteq Range(l) \cup {n}
      BY <1>1, <1>2, <1>6, RangeOfBoth
    <2> QED BY <1>5, <1>6, <2>1 DEF Unspent
  <1> HIDE DEF U, V, l, bal
  <1>10. /\ IsFiniteSet(U \cup {n}) /\ U \cup {n} \in SUBSET Notes
         /\ Worth(U \cup {n}) <= Worth(U) + v
    BY <1>1, <1>2, WorthMore DEF v
  <1>11. Worth(V) <= Worth(U \cup {n})
    BY <1>9, <1>10, WorthLess
  <1>12. Worth(V) \in Nat /\ Worth(U \cup {n}) \in Nat
    <2>1. V \in SUBSET Notes /\ IsFiniteSet(V)
      BY <1>9, <1>10, FS_Subset
    <2> QED BY <1>10, <2>1, WorthType
  <1>13. o.pool.bal = bal + x
    BY <1>5, <1>6, <1>8
  <1>14. Debt(o) = Worth(V) - (bal + x) /\ Debt(s) = Worth(U) - bal
    BY <1>13 DEF Debt, U, V, bal
  <1> DEFINE y == bal + x
  <1>15. /\ Debt(o) <= Debt(s) + (v - x)
         /\ y <= bal + x
    BY <1>1, <1>2, <1>10, <1>11, <1>12, <1>14
  <1>16. Booked(s, o, tx)
    BY <1>7, <1>13, <1>15 DEF Booked, bal
  <1> QED BY <1>5, <1>16 DEF o

(* A spend takes notes that were there, none of them twice, and what it    *)
(* gives up leaves the pool.                                               *)
LEMMA SpendBooked ==
    ASSUME NEW s, Shape(s), NEW tx, Decoded(tx),
           tx.type \in {"shielded_transfer", "unshield"}, SpendAccepted(s, tx),
           s.pool.bal >= tx.spend.fee
    PROVE  Booked(s, Spend(s, tx), tx) /\ DOMAIN Spend(s, tx) = Fields
  <1> DEFINE x == tx.spend.fee
             ins == tx.spend.ins
             outs == tx.spend.outs
             N == Range(Nullifiers(tx))
             q == s.pool
             b == Minus(q.bal, x)
             p == [q EXCEPT !.nfs = q.nfs \cup N, !.cms = q.cms \o outs, !.bal = b]
             o == Spend(s, tx)
             U == Unspent(s)
             A == U \ Range(ins)
             B == A \cup Range(outs)
             V == Unspent(o)
  <1>1. tx.spend \in [root : Seq(Notes), ins : Seq(Notes), outs : Seq(Notes), fee : Amounts]
    BY DEF Decoded
  <1>2. x \in Nat /\ ins \in Seq(Notes) /\ outs \in Seq(Notes)
    BY <1>1, WordType
  <1>3. /\ DOMAIN s = Fields /\ q.cms \in Seq(Notes) /\ q.bal \in Amounts /\ q.bal \in Nat
        /\ DOMAIN q = {"open", "cms", "nfs", "bal"}
        /\ U \in SUBSET Notes /\ IsFiniteSet(U) /\ Worth(U) \in Nat
    BY UnspentType
  <1>4. /\ Range(ins) \subseteq Range(q.cms)
        /\ N \cap q.nfs = {} /\ IsInjective(Nullifiers(tx)) /\ x <= q.bal
    <2>1. x <= q.bal
      BY <1>2, <1>3
    <2> QED BY <2>1 DEF SpendAccepted, TrueStatement
  <1>5. o = [s EXCEPT !.pool = p]
    BY <1>3 DEF Spend, Fields
  <1>6. b = q.bal - x
    BY <1>2, <1>3, <1>4, MinusExact
  <1>7. /\ Len(ins) \in Nat /\ DOMAIN ins = 1..Len(ins)
        /\ Nullifiers(tx) = [i \in 1..Len(ins) |-> ins[i].id]
    BY <1>2 DEF Nullifiers, NoteIds
  <1> HIDE DEF ins, outs, x, o
  <1>8. N = {ins[i].id : i \in DOMAIN ins}
    BY <1>7 DEF Range
  <1>9. \A i, j \in DOMAIN ins : ins[i] = ins[j] => i = j
    BY <1>4, <1>7 DEF IsInjective
  <1> HIDE DEF N, b
  <1>10. DOMAIN o = Fields /\ o.pool = p
    BY <1>3, <1>5 DEF Fields
  <1>11. p.bal = b /\ p.cms = q.cms \o outs /\ p.nfs = q.nfs \cup N
    <2> HIDE DEF q
    <2> QED BY <1>3
  <1> HIDE DEF p
  <1>12. Range(ins) \subseteq U
    <2>1. SUFFICES ASSUME NEW i \in DOMAIN ins PROVE ins[i] \in U
      BY DEF Range
    <2>2. ins[i] \in Range(q.cms) /\ ins[i].id \in N
      BY <1>4, <1>8 DEF Range
    <2> QED BY <1>4, <2>2 DEF Unspent
  <1>13. V \in SUBSET B
    <2>1. Range(p.cms) \subseteq Range(q.cms) \cup Range(outs)
      BY <1>2, <1>3, <1>11, RangeOfBoth
    <2>2. SUFFICES ASSUME NEW n \in V, n \notin Range(outs) PROVE n \in A
      OBVIOUS
    <2>3. n \in Range(p.cms) /\ n.id \notin p.nfs
      BY <1>10 DEF Unspent
    <2>4. n \in U /\ n.id \notin N
      BY <1>11, <2>1, <2>2, <2>3 DEF Unspent
    <2>5. n \notin Range(ins)
      BY <1>8, <2>4 DEF Range
    <2> QED BY <2>4, <2>5
  <1> HIDE DEF U, V
  <1>14. A \in SUBSET Notes /\ IsFiniteSet(A)
    BY <1>3, FS_Subset
  <1>15. Worth(A) = Worth(U) - Values(ins)
    BY <1>2, <1>3, <1>9, <1>12, WorthWithout
  <1> HIDE DEF A
  <1>16. /\ IsFiniteSet(B) /\ Worth(B) <= Worth(A) + Values(outs)
         /\ Values(outs) \in Nat /\ B \in SUBSET Notes
    BY <1>2, <1>14, RangeFinite, WorthWith
  <1> HIDE DEF B
  <1>17. Worth(V) <= Worth(B)
    BY <1>13, <1>16, WorthLess
  <1>18. Worth(V) \in Nat /\ Worth(A) \in Nat /\ Worth(B) \in Nat
    <2>1. V \in SUBSET Notes /\ IsFiniteSet(V)
      BY <1>13, <1>16, FS_Subset
    <2> QED BY <1>14, <1>16, <2>1, WorthType
  <1>19. /\ Unpaid(tx) = Values(outs) + x - Values(ins) /\ Deposit(tx) = 0
         /\ Values(ins) \in Nat
    <2>1. Values(ins) \in Nat
      BY <1>2, <1>14, WorthWith
    <2> QED BY <2>1 DEF Unpaid, Deposit, x, ins, outs
  <1> DEFINE bal == q.bal
             i == Values(ins)
             j == Values(outs)
  <1>20. Debt(o) = Worth(V) - b /\ Debt(s) = Worth(U) - bal
    BY <1>10, <1>11 DEF Debt, U, V
  <1> HIDE DEF q
  <1>21. bal \in Nat /\ b = bal - x
    BY <1>3, <1>6
  <1> HIDE DEF bal, i, j
  <1>22. i \in Nat /\ j \in Nat /\ Worth(A) = Worth(U) - i /\ Worth(B) <= Worth(A) + j
    BY <1>15, <1>16, <1>19 DEF i, j
  <1>23. Debt(o) <= Debt(s) + (j + x - i)
    BY <1>2, <1>3, <1>17, <1>18, <1>20, <1>21, <1>22
  <1>24. b <= bal + 0
    BY <1>2, <1>21
  <1>25. o.pool.bal = b /\ s.pool.bal = bal
    BY <1>10, <1>11 DEF bal, q
  <1>26. Unpaid(tx) = j + x - i
    BY <1>19 DEF i, j
  <1>27. Booked(s, o, tx)
    BY <1>19, <1>23, <1>24, <1>25, <1>26 DEF Booked
  <1> QED BY <1>10, <1>27 DEF o

(* The handlers of the pool. *)
LEMMA ShieldedBooked ==
    ASSUME NEW s, Shape(s), NEW tx, Decoded(tx), tx.type \in ShieldedTypes,
           ShieldedAllowed(s, tx), s.pool.bal + Deposit(tx) < Word
    PROVE  /\ Booked(s, ShieldedEffect(s, tx), tx)
           /\ DOMAIN ShieldedEffect(s, tx) = Fields
  <1> DEFINE o == ShieldedEffect(s, tx)
  <1>1. CASE tx.type = "shield"
    <2>1. o = Shield(s, tx) /\ Deposit(tx) = tx.amount
      BY <1>1 DEF ShieldedEffect, Deposit
    <2> HIDE DEF o
    <2>2. Booked(s, o, tx) /\ DOMAIN o = Fields
      BY <1>1, <2>1, ShieldBooked
    <2> QED BY <2>2 DEF o
  <1>2. CASE tx.type \in {"shielded_transfer", "unshield"}
    <2> DEFINE p == Spend(s, tx)
    <2>1. SpendAccepted(s, tx) /\ s.pool.bal >= tx.spend.fee
      BY <1>2 DEF ShieldedAllowed
    <2>2. Booked(s, p, tx) /\ DOMAIN p = Fields
      BY <1>2, <2>1, SpendBooked
    <2>3. o = BurnSupply(p, tx.spend.fee) \/ o = Credit(p, tx.to, Native, tx.spend.fee)
      BY <1>2 DEF ShieldedEffect, ShieldedTransfer, Unshield
    <2> HIDE DEF o, p
    <2>4. Still(p, o)
      BY <2>2, <2>3, PursesStill
    <2>5. Debt(o) = Debt(p) /\ o.pool.bal = p.pool.bal
      BY <2>4, StillBooked
    <2>6. Booked(s, o, tx) /\ DOMAIN o = Fields
      BY <2>2, <2>4, <2>5 DEF Booked, Still
    <2> QED BY <2>6 DEF o
  <1> QED BY <1>1, <1>2 DEF ShieldedTypes

(* What a decoded transaction pays and claims are numbers. *)
LEMMA BooksType ==
    ASSUME NEW tx, Decoded(tx)
    PROVE  Deposit(tx) \in Nat /\ Unpaid(tx) \in Int
  <1>1. Deposit(tx) \in Nat
    BY WordType DEF Decoded, Deposit
  <1>2. CASE tx.type = "shield"
    <2>1. tx.amount \in Nat /\ tx.note.value \in Nat
      BY <1>2, WordType DEF Decoded, Notes
    <2>2. Unpaid(tx) = tx.note.value - tx.amount
      BY <1>2 DEF Unpaid
    <2> QED BY <1>1, <2>1, <2>2
  <1>3. CASE tx.type \in {"shielded_transfer", "unshield"}
    <2> DEFINE x == tx.spend.fee
               i == tx.spend.ins
               o == tx.spend.outs
    <2>1. tx.spend \in [root : Seq(Notes), ins : Seq(Notes), outs : Seq(Notes), fee : Amounts]
      BY <1>3 DEF Decoded
    <2>2. x \in Nat /\ i \in Seq(Notes) /\ o \in Seq(Notes)
      BY <2>1, WordType
    <2>3. Unpaid(tx) = Values(o) + x - Values(i)
      BY <1>3 DEF Unpaid
    <2>4. IsFiniteSet({})
      BY FS_EmptySet
    <2> HIDE DEF x, i, o
    <2>5. Values(o) \in Nat /\ Values(i) \in Nat
      BY <2>2, <2>4, WorthWith
    <2> QED BY <1>1, <2>2, <2>3, <2>5
  <1>4. CASE tx.type \notin {"shield", "shielded_transfer", "unshield"}
    <2>1. Unpaid(tx) = 0
      BY <1>4 DEF Unpaid
    <2> QED BY <1>1, <2>1
  <1> QED BY <1>2, <1>3, <1>4

(* A transaction that fails leaves the pool alone; one that is applied     *)
(* changes its books by what it pays and claims.                           *)
LEMMA ApplyTxBooked ==
    ASSUME NEW s, Shape(s), NEW tx, Decoded(tx), ValidateBasic(tx), NEW time, NEW proposer
    PROVE  LET o == ApplyTx(s, tx, proposer, time)
           IN  /\ ~o.ok => Still(s, o.s)
               /\ o.ok /\ s.pool.bal + Deposit(tx) < Word => Booked(s, o.s, tx)
  <1> DEFINE seen == Acct(s, tx.from)
             e == Effect(seen, tx, time)
             p == ChargeFee(e, tx, proposer)
             o == ApplyTx(s, tx, proposer, time)
             ok == Affordable(seen, tx) /\ Allowed(seen, tx, time)
  <1>1. Shape(seen) /\ tx.from \in DOMAIN seen.acc /\ Still(s, seen)
    <2>1. DOMAIN s = Fields
      BY DEF Shape
    <2>2. Shape(seen) /\ DOMAIN seen.acc = DOMAIN s.acc \cup {tx.from}
      BY AcctStep
    <2> QED BY <2>1, <2>2, PursesStill
  <1>2. /\ ok => o = [ok |-> TRUE, s |-> p]
        /\ ~ok => o = [ok |-> FALSE, s |-> seen]
    BY DEF ApplyTx
  <1>3. Allowed(seen, tx, time) /\ tx.type \notin ShieldedTypes => Still(seen, e)
    <2> HIDE DEF seen
    <2> QED BY <1>1, EffectStill
  <1>4. ASSUME Allowed(seen, tx, time), s.pool.bal + Deposit(tx) < Word
        PROVE  Booked(s, p, tx)
    <2>1. Debt(seen) = Debt(s) /\ seen.pool.bal = s.pool.bal
      BY <1>1, StillBooked
    <2>2. DOMAIN seen = Fields /\ s.pool.bal \in Nat /\ Debt(s) \in Int
      <3>1. s.pool.bal \in Nat /\ Worth(Unspent(s)) \in Nat
        BY UnspentType
      <3>2. Debt(s) \in Int
        BY <3>1 DEF Debt
      <3> HIDE DEF seen
      <3> QED BY <1>1, <3>1, <3>2 DEF Still
    <2>3. CASE tx.type \in ShieldedTypes
      <3>1. ShieldedAllowed(seen, tx) /\ e = ShieldedEffect(seen, tx)
        <4>1. /\ tx.type \notin TokenTypes /\ tx.type \notin StakingTypes
              /\ tx.type \notin WasmTypes
              /\ tx.type # "contract_create" /\ tx.type # "contract_exec"
          BY <2>3 DEF ShieldedTypes, TokenTypes, StakingTypes, WasmTypes
        <4> HIDE DEF seen
        <4>2. ShieldedAllowed(seen, tx)
          BY <1>4, <2>3, <4>1 DEF Allowed
        <4>3. e = ShieldedEffect(seen, tx)
          BY <2>3, <4>1 DEF Effect
        <4> QED BY <4>2, <4>3
      <3> HIDE DEF seen, e, p
      <3>2. Booked(seen, e, tx) /\ DOMAIN e = Fields
        BY <1>1, <1>4, <2>1, <2>3, <3>1, ShieldedBooked
      <3>3. Still(e, p)
        BY <3>2, ChargeFeeStill DEF p
      <3>4. Debt(p) = Debt(e) /\ p.pool.bal = e.pool.bal
        BY <3>3, StillBooked
      <3> QED BY <2>1, <3>2, <3>4 DEF Booked
    <2>4. CASE tx.type \notin ShieldedTypes
      <3>1. Still(seen, e)
        BY <1>3, <1>4, <2>4
      <3> HIDE DEF seen, e, p
      <3>2. Still(e, p)
        BY <3>1, ChargeFeeStill DEF p, Still
      <3>3. Debt(p) = Debt(s) /\ p.pool.bal = s.pool.bal
        BY <2>1, <3>1, <3>2, StillBooked
      <3>4. Deposit(tx) = 0 /\ Unpaid(tx) = 0
        BY <2>4 DEF Deposit, Unpaid, ShieldedTypes
      <3> QED BY <2>2, <3>3, <3>4 DEF Booked
    <2> QED BY <2>3, <2>4
  <1> HIDE DEF seen, e, p, o
  <1>5. CASE ok
    <2>1. o.ok = TRUE /\ o.s = p
      BY <1>2, <1>5
    <2> QED BY <1>4, <1>5, <2>1 DEF o
  <1>6. CASE ~ok
    <2>1. o.ok = FALSE /\ o.s = seen
      BY <1>2, <1>6
    <2> QED BY <1>1, <2>1 DEF o
  <1> QED BY <1>5, <1>6

(* A list of numbers, and the same list with one more. *)
LEMMA SumOneMore ==
    ASSUME NEW n \in Nat, NEW f, DOMAIN f = 1..n, NEW g, DOMAIN g = 1..(n + 1),
           \A i \in 1..n : f[i] \in Int /\ g[i] = f[i], g[n + 1] \in Int
    PROVE  /\ Sum(f) \in Int /\ Sum(g) = Sum(f) + g[n + 1]
           /\ (\A i \in 1..n : f[i] \in Nat) => Sum(f) \in Nat
  <1> DEFINE S == 1..n
             k == n + 1
  <1>1. IsFiniteSet(S) /\ k \notin S /\ 1..(n + 1) = S \cup {k}
    <2>1. IsFiniteSet(S)
      BY FS_Interval
    <2>2. k \notin S /\ 1..(n + 1) = S \cup {k}
      OBVIOUS
    <2> QED BY <2>1, <2>2
  <1>2. /\ \A i \in S : f[i] \in Int /\ g[i] = f[i]
        /\ g[k] \in Int /\ DOMAIN f = S /\ DOMAIN g = S \cup {k}
    BY <1>1
  <1>3. g[n + 1] = g[k] /\ ((\A i \in 1..n : f[i] \in Nat) => \A i \in S : f[i] \in Nat)
    OBVIOUS
  <1> HIDE DEF S, k
  <1>4. SumFunctionOnSet(g, S \cup {k}) = SumFunctionOnSet(f, S) + g[k]
    BY <1>1, <1>2, SumAdd
  <1>5. SumFunctionOnSet(f, S) \in Int
    BY <1>1, <1>2, SumRemove
  <1>6. (\A i \in S : f[i] \in Nat) => SumFunctionOnSet(f, S) \in Nat
    BY <1>1, SumNat
  <1>7. Sum(f) = SumFunctionOnSet(f, S) /\ Sum(g) = SumFunctionOnSet(g, S \cup {k})
    BY <1>2 DEF Sum, SumFunction
  <1> QED BY <1>3, <1>4, <1>5, <1>6, <1>7

(* One transaction more. *)
LEMMA BooksAppend ==
    ASSUME NEW R, \A tx \in R : Deposit(tx) \in Nat /\ Unpaid(tx) \in Int,
           NEW txs \in Seq(R), NEW tx \in R
    PROVE  /\ Deposits(txs) \in Nat /\ Deposit(tx) \in Nat
           /\ Deposits(Append(txs, tx)) = Deposits(txs) + Deposit(tx)
           /\ Claims(txs) \in Int /\ Unpaid(tx) \in Int
           /\ Claims(Append(txs, tx)) = Claims(txs) + Unpaid(tx)
  <1> DEFINE n == Len(txs)
             k == n + 1
             all == Append(txs, tx)
             f == [i \in DOMAIN txs |-> Deposit(txs[i])]
             g == [i \in DOMAIN all |-> Deposit(all[i])]
             p == [i \in DOMAIN txs |-> Unpaid(txs[i])]
             q == [i \in DOMAIN all |-> Unpaid(all[i])]
  <1>1. /\ n \in Nat /\ DOMAIN txs = 1..n /\ DOMAIN all = 1..(n + 1)
        /\ n + 1 \in DOMAIN all /\ (\A i \in 1..n : i \in DOMAIN all)
        /\ \A i \in 1..n : txs[i] \in R /\ all[i] = txs[i]
        /\ all[n + 1] = tx
    OBVIOUS
  <1> HIDE DEF n, all
  <1>2. /\ DOMAIN f = 1..n /\ DOMAIN g = 1..(n + 1) /\ g[n + 1] = Deposit(tx)
        /\ \A i \in 1..n : f[i] \in Nat /\ f[i] \in Int /\ g[i] = f[i]
        /\ g[n + 1] \in Int
    BY <1>1
  <1>3. /\ DOMAIN p = 1..n /\ DOMAIN q = 1..(n + 1) /\ q[n + 1] = Unpaid(tx)
        /\ \A i \in 1..n : p[i] \in Int /\ q[i] = p[i]
        /\ q[n + 1] \in Int
    BY <1>1
  <1>4. Deposits(txs) = Sum(f) /\ Deposits(all) = Sum(g)
    BY DEF Deposits
  <1>5. Claims(txs) = Sum(p) /\ Claims(all) = Sum(q)
    BY DEF Claims
  <1> HIDE DEF f, g, p, q
  <1>6. Sum(f) \in Nat /\ Sum(g) = Sum(f) + g[n + 1]
    BY <1>1, <1>2, SumOneMore
  <1>7. Sum(p) \in Int /\ Sum(q) = Sum(p) + q[n + 1]
    BY <1>1, <1>3, SumOneMore
  <1> QED BY <1>2, <1>3, <1>4, <1>5, <1>6, <1>7 DEF all

(* The deposits and the claims of no transaction. *)
LEMMA NoBooks ==
    ASSUME NEW txs, DOMAIN txs = {}
    PROVE  Deposits(txs) = 0 /\ Claims(txs) = 0
  <1> DEFINE f == [i \in DOMAIN txs |-> Deposit(txs[i])]
             g == [i \in DOMAIN txs |-> Unpaid(txs[i])]
  <1>1. DOMAIN f = {} /\ DOMAIN g = {}
    OBVIOUS
  <1> HIDE DEF f, g
  <1>2. Sum(f) = 0 /\ Sum(g) = 0
    BY <1>1, SumOfNone DEF Sum, SumFunction
  <1> QED BY <1>2 DEF Deposits, Claims, f, g

(* The books of the pool move by what the transactions pay and claim that  *)
(* were applied.                                                           *)
LEMMA ApplyTxsBooked ==
    ASSUME NEW s, Shape(s), IdsUsed(s), NEW txs, NEW n \in Nat, DOMAIN txs = 1..n,
           \A i \in 1..n : Decoded(txs[i]) /\ ValidateBasic(txs[i]),
           NEW time \in Nat, NEW proposer, Params.MinValidatorStake > 0
    PROVE  LET r == ApplyTxs(s, txs, proposer, time)
           IN  s.pool.bal + Deposits(r.applied) < Word
                  => Debt(r.s) <= Debt(s) + Claims(r.applied)
  <1> DEFINE r == ApplyTxs(s, txs, proposer, time)
             b == [s |-> s, ok |-> TRUE, applied |-> <<>>]
             R == Range(txs)
             bal == s.pool.bal
             debt == Debt(s)
  <1>1. r = Applying!Fold(proposer, time, b, txs)
    BY DEF ApplyTxs, Applying!Fold, FoldLeft, Applying!FoldLeft, MapThenFoldSet,
           Applying!MapThenFoldSet, Max, Applying!Max, ApplyOne
  <1>2. b.applied = <<>> /\ b.applied \in Seq(R) /\ b.s = s /\ DOMAIN <<>> = {}
    OBVIOUS
  <1>3. /\ \A i \in 1..n : txs[i] \in R
        /\ \A tx \in R : Decoded(tx) /\ ValidateBasic(tx)
    BY DEF Range
  <1>4. \A tx \in R : Deposit(tx) \in Nat /\ Unpaid(tx) \in Int
    BY <1>3, BooksType
  <1>5. bal \in Nat /\ debt \in Int
    <2>1. bal \in Nat /\ Worth(Unspent(s)) \in Nat
      BY UnspentType
    <2> QED BY <2>1 DEF Debt
  <1> HIDE DEF r, b, R, bal, debt
  <1>6. PICK f : /\ f[0] = b
                 /\ \A k \in 1..n : f[k] = ApplyOne(proposer, time, f[k - 1], txs[k])
                 /\ f[n] = Applying!Fold(proposer, time, b, txs)
    <2>1. Applying!Traced(proposer, time, b, n, txs)
      BY Applying!FoldTrace
    <2> QED BY <2>1 DEF Applying!Traced
  <1> DEFINE Good(t, l) == bal + Deposits(l) < Word =>
                  Debt(t) <= debt + Claims(l) /\ t.pool.bal <= bal + Deposits(l)
             T == {k \in Nat : /\ f[k].applied \in Seq(R) /\ Carries(s, f[k].s, time)
                               /\ Good(f[k].s, f[k].applied)}
  <1>7. 0 \in T
    <2>1. Deposits(f[0].applied) = 0 /\ Claims(f[0].applied) = 0
      BY <1>2, <1>6, NoBooks
    <2>2. Good(f[0].s, f[0].applied)
      BY <1>2, <1>5, <1>6, <2>1 DEF bal, debt
    <2> HIDE DEF Good
    <2> QED BY <1>2, <1>6, <2>2, CarriesItself
  <1>8. ASSUME NEW k \in 1..n, k - 1 \in T PROVE k \in T
    <2> DEFINE q == f[k - 1]
               l == q.applied
               t == q.s
               tx == txs[k]
               o == ApplyTx(q.s, tx, proposer, time)
    <2>1. Carries(s, t, time) /\ l \in Seq(R) /\ k \in Nat /\ Good(t, l)
      BY <1>8
    <2>2. Decoded(tx) /\ ValidateBasic(tx) /\ tx \in R
      BY <1>3
    <2>3. /\ f[k].s = o.s
          /\ f[k].applied = IF o.ok THEN Append(l, tx) ELSE l
      <3>1. f[k] = ApplyOne(proposer, time, q, tx)
        BY <1>6
      <3> HIDE DEF q, tx
      <3>2. f[k] = [s |-> o.s, ok |-> q.ok /\ o.ok,
                    applied |-> IF o.ok THEN Append(l, tx) ELSE l]
        BY <3>1 DEF ApplyOne
      <3> HIDE DEF o
      <3> QED BY <3>2
    <2>4. Shape(t) /\ IdsUsed(t)
      BY <2>1 DEF Carries
    <2>5. o = ApplyTx(t, tx, proposer, time)
      OBVIOUS
    <2> HIDE DEF q, tx, t, l, o
    <2>6. Carries(t, o.s, time)
      BY <2>2, <2>4, <2>5, ApplyTxStep
    <2>7. /\ ~o.ok => Still(t, o.s)
          /\ o.ok /\ t.pool.bal + Deposit(tx) < Word => Booked(t, o.s, tx)
      BY <2>2, <2>4, <2>5, ApplyTxBooked
    <2>8. /\ t.pool.bal \in Nat /\ o.s.pool.bal \in Nat
          /\ Debt(t) \in Int /\ Debt(o.s) \in Int
      BY <2>4, <2>6, UnspentType DEF Carries, Debt
    <2>9. Carries(s, f[k].s, time)
      BY <2>1, <2>3, <2>6, CarriesOn
    <2>10. CASE o.ok
      <3> DEFINE m == Append(l, tx)
      <3>1. /\ Deposits(l) \in Nat /\ Deposit(tx) \in Nat
            /\ Deposits(m) = Deposits(l) + Deposit(tx)
            /\ Claims(l) \in Int /\ Unpaid(tx) \in Int
            /\ Claims(m) = Claims(l) + Unpaid(tx)
        BY <1>4, <2>1, <2>2, BooksAppend
      <3>2. m \in Seq(R) /\ f[k].applied = m
        BY <2>1, <2>2, <2>3, <2>10
      <3> HIDE DEF m
      <3>3. ASSUME bal + Deposits(m) < Word
            PROVE  Debt(o.s) <= debt + Claims(m) /\ o.s.pool.bal <= bal + Deposits(m)
        <4>1. bal + Deposits(l) < Word
          BY <1>5, <3>1, <3>3, WordType
        <4>2. Debt(t) <= debt + Claims(l) /\ t.pool.bal <= bal + Deposits(l)
          BY <2>1, <4>1
        <4>3. t.pool.bal + Deposit(tx) < Word
          BY <1>5, <2>8, <3>1, <3>3, <4>2, WordType
        <4>4. /\ Debt(o.s) <= Debt(t) + Unpaid(tx)
              /\ o.s.pool.bal <= t.pool.bal + Deposit(tx)
          BY <2>7, <2>10, <4>3 DEF Booked
        <4>5. Debt(o.s) <= debt + Claims(m)
          BY <1>5, <2>8, <3>1, <4>2, <4>4
        <4>6. o.s.pool.bal <= bal + Deposits(m)
          <5> DEFINE u == Deposits(l)
                     v == Deposit(tx)
                     w == t.pool.bal
                     z == o.s.pool.bal
          <5>1. u \in Nat /\ v \in Nat /\ Deposits(m) = u + v /\ w \in Nat /\ z \in Nat
            BY <2>8, <3>1
          <5>2. w <= bal + u /\ z <= w + v
            BY <4>2, <4>4
          <5> HIDE DEF u, v, w, z
          <5>3. z <= bal + (u + v)
            BY <1>5, <5>1, <5>2
          <5> QED BY <5>1, <5>3 DEF z
        <4> QED BY <4>5, <4>6
      <3>4. Good(f[k].s, f[k].applied)
        BY <2>3, <3>2, <3>3
      <3> HIDE DEF Good
      <3> QED BY <2>1, <2>9, <3>2, <3>4
    <2>11. CASE ~o.ok
      <3>1. f[k].applied = l /\ Still(t, o.s) /\ f[k].s = o.s
        BY <2>3, <2>7, <2>11
      <3>2. Good(f[k].s, f[k].applied)
        BY <2>1, <3>1, StillBooked
      <3> HIDE DEF Good
      <3> QED BY <2>1, <2>9, <3>1, <3>2
    <2> QED BY <2>10, <2>11
  <1> HIDE DEF T
  <1>9. \A k \in 0..n : k \in T
    BY <1>7, <1>8, Positions
  <1>10. n \in T
    BY <1>9
  <1>11. bal + Deposits(r.applied) < Word => Debt(r.s) <= debt + Claims(r.applied)
    BY <1>1, <1>6, <1>10 DEF T
  <1> QED BY <1>11 DEF r, bal, debt

(* Nothing else in a block touches the pool. *)
LEMMA ExecuteBooked ==
    ASSUME NEW s, Shape(s), IdsUsed(s), NEW b, BlockOK(b), NEW order, OrderOK(order),
           Params.MinValidatorStake > 0,
           s.pool.bal + Deposits(Execute(s, b, order).applied) < Word
    PROVE  Debt(Execute(s, b, order).s) <= Debt(s) + Claims(Execute(s, b, order).applied)
  <1> DEFINE p == b.proposer
             t == b.time
             evidence == b.evidence
             absent == b.absent
             txs == b.txs
             released == ReleaseUnbonded(s, t)
             slashed == SlashAll(released, evidence, order, t)
             counted == IF p = NoAddr THEN slashed ELSE ApplyDowntime(slashed, p, absent, t)
             r == ApplyTxs(counted, txs, p, t)
             rewarded == IF p = NoAddr THEN r.s
                         ELSE DistributeReward(r.s, p, RewardPerBlock(TotalStaked(r.s)))
             x == NextBaseFee(rewarded.fee, Len(r.applied))
             o == [rewarded EXCEPT !.fee = x]
  <1>1. /\ t \in Nat /\ evidence \in Seq([voter : Nat, height : Nat])
        /\ absent \in Seq(Nat)
    BY DEF BlockOK
  <1>2. Execute(s, b, order) = [r EXCEPT !.s = [rewarded EXCEPT !.fee = NextBaseFee(@, Len(r.applied))]]
    BY DEF Execute
  <1>3. [rewarded EXCEPT !.fee = NextBaseFee(@, Len(r.applied))] = o
    <2> HIDE DEF rewarded, r
    <2> QED OBVIOUS
  <1>4. PICK n \in Nat : DOMAIN txs = 1..n /\ \A i \in 1..n : Decoded(txs[i]) /\ ValidateBasic(txs[i])
    BY DEF BlockOK
  <1> HIDE DEF txs, t, p, evidence, absent
  <1>5. Shape(released) /\ IdsUsed(released) /\ Still(s, released)
    <2>1. Carries(s, released, t)
      BY ReleaseSettles, SettlesCarries
    <2>2. Still(s, released)
      BY ReleaseStill
    <2> QED BY <2>1, <2>2 DEF Carries
  <1> HIDE DEF released
  <1>6. Shape(slashed) /\ IdsUsed(slashed) /\ Still(released, slashed)
    <2>1. Settles(released, slashed)
      BY <1>1, <1>5, SlashAllStep
    <2>2. Still(released, slashed)
      BY <1>1, <1>5, SlashAllStill
    <2> HIDE DEF slashed
    <2>3. Carries(released, slashed, t)
      BY <1>5, <2>1, SettlesCarries
    <2> QED BY <2>2, <2>3 DEF Carries
  <1> HIDE DEF slashed
  <1>7. Shape(counted) /\ IdsUsed(counted) /\ Still(slashed, counted)
    <2>1. Settles(slashed, counted)
      BY <1>1, <1>6, ApplyDowntimeStep, SettlesItself
    <2>2. Still(slashed, counted)
      <3>1. DOMAIN slashed = Fields
        BY <1>6 DEF Shape
      <3>2. Still(slashed, ApplyDowntime(slashed, p, absent, t))
        BY <1>1, <3>1, DowntimeStill
      <3> QED BY <3>1, <3>2 DEF Still
    <2> HIDE DEF counted
    <2>3. Carries(slashed, counted, t)
      BY <1>6, <2>1, SettlesCarries
    <2> QED BY <2>2, <2>3 DEF Carries
  <1> HIDE DEF counted
  <1>8. Debt(counted) = Debt(s) /\ counted.pool.bal = s.pool.bal
    BY <1>5, <1>6, <1>7, StillBooked
  <1>9. /\ "s" \in DOMAIN r /\ Shape(r.s)
        /\ s.pool.bal + Deposits(r.applied) < Word => Debt(r.s) <= Debt(s) + Claims(r.applied)
    <2>1. LET q == ApplyTxs(counted, txs, p, t)
          IN  "s" \in DOMAIN q /\ Len(q.applied) \in Nat /\ Carries(counted, q.s, t)
      BY <1>1, <1>4, <1>7, ApplyTxsStep
    <2>2. LET q == ApplyTxs(counted, txs, p, t)
          IN  counted.pool.bal + Deposits(q.applied) < Word
                 => Debt(q.s) <= Debt(counted) + Claims(q.applied)
      BY <1>1, <1>4, <1>7, ApplyTxsBooked
    <2> QED BY <1>8, <2>1, <2>2 DEF Carries
  <1>10. Execute(s, b, order).s = o /\ Execute(s, b, order).applied = r.applied
    <2> HIDE DEF r, rewarded, o
    <2> QED BY <1>2, <1>3, <1>9
  <1> HIDE DEF r
  <1>11. Debt(r.s) <= Debt(s) + Claims(r.applied) /\ DOMAIN r.s = Fields
    BY <1>9, <1>10 DEF Shape
  <1>12. Still(r.s, rewarded)
    <2>1. Still(r.s, DistributeReward(r.s, p, RewardPerBlock(TotalStaked(r.s))))
      BY <1>9, RewardStill
    <2> QED BY <1>11, <2>1 DEF Still
  <1> HIDE DEF rewarded, x
  <1>13. Still(rewarded, o)
    BY <1>12 DEF Still, Fields
  <1> HIDE DEF o
  <1>14. Debt(o) = Debt(r.s)
    BY <1>12, <1>13, StillBooked
  <1> QED BY <1>10, <1>11, <1>14

(* A step of the chain. *)
LEMMA StepBooked ==
    ASSUME Inv, Next, ledger.pool.bal + Deposits(block'.txs) < Word
    PROVE  Debt(ledger') <= Debt(ledger) + Claims(block'.txs)
  <1>0. PICK d \in Advances(scene), c \in Conduct(scene), body \in Bodies :
             \E proposer, dir : Produce(proposer, Clock(d), c, body, dir)
    BY DEF Next
  <1>1. PICK proposer, dir : Produce(proposer, Clock(d), c, body, dir)
    BY <1>0
  <1> DEFINE time == Clock(d)
             b == [txs |-> body, evidence |-> c.evidence, absent |-> c.absent,
                   proposer |-> proposer, time |-> time]
             order == Order(dir)
             e == Execute(ledger, b, order)
             o == Commit(e.s)
  <1>2. /\ Shape(ledger) /\ IdsUsed(ledger) /\ scene \in Scenes /\ block.time \in Nat
    BY DEF Inv
  <1>3. time \in Nat
    <2>1. d \in Int
      BY <1>2, BlocksTyped
    <2> QED BY <1>2, <2>1 DEF Clock
  <1>4. ledger' = o /\ block'.txs = e.applied
    <2>1. ledger' = o /\ block' = [b EXCEPT !.txs = e.applied]
      BY <1>1 DEF Produce
    <2> HIDE DEF o, e, time
    <2>2. block'.txs = e.applied
      BY <2>1
    <2> QED BY <2>1, <2>2
  <1>5. BlockOK(b)
    <2>1. PICK n \in Nat : /\ DOMAIN body = 1..n
                           /\ \A i \in 1..n : Decoded(body[i]) /\ ValidateBasic(body[i])
      BY BodiesOK
    <2>2. c.evidence \in Seq([voter : Nat, height : Nat]) /\ c.absent \in Seq(Nat)
      BY <1>2, BlocksTyped
    <2>3. /\ b.txs = body /\ b.time = time
          /\ b.evidence = c.evidence /\ b.absent = c.absent
      OBVIOUS
    <2> HIDE DEF b, time
    <2> QED BY <1>3, <2>1, <2>2, <2>3 DEF BlockOK
  <1>6. Params.MinValidatorStake > 0 /\ OrderOK(order)
    BY <1>2, DocumentsValid, OrdersOK DEF ValidGenesis
  <1> HIDE DEF b, time, order
  <1>7. ledger.pool.bal + Deposits(e.applied) < Word
    <2> HIDE DEF e, o
    <2> QED BY <1>4
  <1>8. Debt(e.s) <= Debt(ledger) + Claims(e.applied) /\ Shape(e.s)
    <2>1. Debt(e.s) <= Debt(ledger) + Claims(e.applied)
      BY <1>2, <1>5, <1>6, <1>7, ExecuteBooked
    <2>2. Carries(ledger, e.s, b.time)
      BY <1>2, <1>5, <1>6, ExecuteBlockStep
    <2> QED BY <2>1, <2>2 DEF Carries
  <1> HIDE DEF e
  <1>9. Still(e.s, o)
    BY <1>8 DEF Commit, Still, Fields, Shape
  <1>10. Debt(o) = Debt(e.s)
    BY <1>9, StillBooked
  <1> HIDE DEF o
  <1> QED BY <1>4, <1>8, <1>10

(* The pool comes to owe more than it has only by what the deposits and    *)
(* the proofs of a block claim on their own, on every chain: a spend that  *)
(* is accepted names only notes that are unspent, and none of them twice,  *)
(* and retires them with what it gives up.                                 *)
THEOREM PoolDebtIsExplained == Spec => PoolDebtExplained
  <1> DEFINE Explained == ledger.pool.bal + Deposits(block'.txs) < Word =>
                             Debt(ledger') <= Debt(ledger) + Claims(block'.txs)
  <1>1. Inv /\ [Next]_vars => [Explained]_vars
    BY StepBooked
  <1> QED BY <1>1, ChainInvariant, PTL DEF Spec, PoolDebtExplained
===============================================================================
