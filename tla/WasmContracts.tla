---------------------------- MODULE WasmContracts ----------------------------
(***************************************************************************)
(* Contracts in WebAssembly: their place in the ledger                     *)
(* (internal/state/state.go) and the sandbox they run in                   *)
(* (internal/wasmvm: vm.go, host.go, consensus.go).  A program is a record *)
(* [valid, fns]: fns gives, for each exported function, the host calls it  *)
(* makes and the gas points it passes, in order.  What a module computes   *)
(* in between is the business of the interpreter and is left out.          *)
(***************************************************************************)
EXTENDS LedgerState

CONSTANTS WasmEnabled,  \* params.WasmEnabled
          Programs      \* the deployed byte codes, by name

(* The host functions: a gas point, a trap, a write or a read of a key, a  *)
(* transfer to any name.                                                   *)
ASSUME ProgramsCallTheHost ==
    \A code \in DOMAIN Programs : \A fn \in DOMAIN Programs[code].fns :
        LET ops == Programs[code].fns[fn]
        IN  /\ ops \in Seq(Range(ops))
            /\ \A i \in DOMAIN ops :
                  \/ ops[i][1] \in {"charge", "trap", "write", "expect"}
                  \/ ops[i][1] = "transfer" /\ ops[i][3] \in Int

(* Validate: the code can be instrumented. *)
Deployable(code) == Programs[code].valid

(* The context of one call: a copy of the storage, the value included in   *)
(* the balance, nothing transferred yet.                                   *)
NewSandbox(wc, value, gas) ==
    [bal |-> Plus(wc.bal, value), store |-> wc.store, out |-> <<>>,
     gas |-> gas, trapped |-> FALSE]

(* The balance of the sandbox is a signed word. *)
Signed(x) == IF 2 * x < Word THEN x ELSE x - Word

(* Sandbox.transfer: refused, without a trap, beyond the balance. *)
Transfer(box, to, x) ==
    IF x < 0 \/ x > Signed(box.bal) THEN box
    ELSE [box EXCEPT !.bal = @ - x, !.out = Append(@, <<to, x>>)]

(* One host call or gas point.  "expect" is a read of the storage that     *)
(* decides whether the function goes on or traps; charge traps below zero. *)
HostCall(box, op) ==
    IF box.trapped THEN box
    ELSE CASE op[1] = "charge"   -> [box EXCEPT !.gas = @ - 1, !.trapped = box.gas < 1]
           [] op[1] = "write"    -> [box EXCEPT !.store = Put(@, op[2], op[3])]
           [] op[1] = "expect"   ->
                [box EXCEPT !.trapped = op[2] \notin DOMAIN box.store \/ box.store[op[2]] # op[3]]
           [] op[1] = "transfer" -> Transfer(box, op[2], op[3])
           [] op[1] = "trap"     -> [box EXCEPT !.trapped = TRUE]

(* RunDeterministic: a function that is not exported fails; every body     *)
(* starts with a charge.                                                   *)
Run(box, code, fn) ==
    IF fn \notin DOMAIN Programs[code].fns THEN [box EXCEPT !.trapped = TRUE]
    ELSE FoldLeft(HostCall, box, <<<<"charge">>>> \o Programs[code].fns[fn])

WasmAllowed(s, tx) ==
    /\ WasmEnabled
    /\ IF tx.type = "wasm_deploy" THEN Deployable(tx.code) ELSE tx.id \in DOMAIN s.wasm

Deploy(s, tx) ==
    [s EXCEPT !.wasm = Put(@, <<tx.from, tx.nonce>>,
        [code |-> tx.code, store |-> <<>>, bal |-> 0, calls |-> 0, creator |-> tx.from])]

GasLimit(tx) ==
    IF tx.gas > 0 /\ tx.gas < Params.WasmGasLimit THEN tx.gas ELSE Params.WasmGasLimit

(* A call that ends well takes effect as a whole; a trap or an empty tank  *)
(* leaves nothing but the fees.                                            *)
Call(s, tx) ==
    LET wc   == s.wasm[tx.id]
        box  == Run(NewSandbox(wc, tx.amount, GasLimit(tx)), wc.code, tx.action)
        paid == FoldLeft(LAMBDA t, p : IF p[2] > 0 THEN Credit(t, p[1], Native, p[2]) ELSE t,
                         Debit(s, tx.from, Native, tx.amount), box.out)
    IN  IF box.trapped THEN s
        ELSE [paid EXCEPT !.wasm[tx.id].store = box.store,
                          !.wasm[tx.id].bal   = box.bal,
                          !.wasm[tx.id].calls = @ + 1]

WasmEffect(s, tx) == IF tx.type = "wasm_deploy" THEN Deploy(s, tx) ELSE Call(s, tx)
=============================================================================
