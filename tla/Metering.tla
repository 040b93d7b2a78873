------------------------------- MODULE Metering -------------------------------
(***************************************************************************)
(* The gas meter of WASM contracts (internal/wasmvm/meter.go): the byte    *)
(* code is rewritten so that every function and every loop begins with a   *)
(* charge, and then run (vm.go).  Byte code is a sequence of numbers below *)
(* 256; the sequence of instructions that makes up a charge is one number, *)
(* Charge, that no opcode uses.  A module is a sequence of sections        *)
(* [id, items].  The values on the stack are left out: conditions of       *)
(* branches are open.                                                      *)
(***************************************************************************)
EXTENDS Integers, Sequences, FiniteSets, SequencesExt

CONSTANTS
    Menu,           \* instructions of the programs, each the bytes of one
    Shapes,         \* what precedes the code: sections and imported globals
    Locals,         \* declarations of local variables at the head of a body
    GasLimit,       \* also the bound on what a program writes to the counter
    MaxDepth,       \* calls the interpreter nests before it traps
    Grows(_)        \* bound: which programs get one more instruction

VARIABLES
    shape, locals,
    prog,       \* the instructions written so far
    code,       \* what runs: the instructions of the rewritten body
    frames,     \* the call stack: the place of the next instruction of each call
    gas, status

vars == <<shape, locals, prog, code, frames, gas, status>>

Charge == 255
Unreachable == 0
Loop == 3
End == 11
Openers == {2, 3, 4}
CallOp == 16
GlobalSet == 36

Malformed == 0  \* no place in a sequence

-----------------------------------------------------------------------------
(* readUvarint, readVarint: the place after a number in LEB128; a tenth    *)
(* byte may be 0 or 1 only.                                                *)
SkipVarint(b, pos) ==
    LET ends == {k \in pos..Len(b) : b[k] < 128 /\ \A j \in pos..(k - 1) : b[j] >= 128}
    IN  IF \E k \in ends : k < pos + 9 \/ (k = pos + 9 /\ b[k] <= 1)
        THEN (CHOOSE k \in ends : TRUE) + 1
        ELSE Malformed

(* The number itself. *)
Uvarint(b, pos) ==
    MapThenSumSet(LAMBDA k : (b[k] % 128) * 128^(k - pos), pos..(SkipVarint(b, pos) - 1))

(* needBytes *)
NeedBytes(b, pos, k) ==
    IF pos = Malformed \/ pos + k > Len(b) + 1 THEN Malformed ELSE pos + k

(* Several numbers in a row. *)
SkipVarints(b, pos, n) ==
    LET at[i \in 0..n] ==
            IF i = 0 THEN pos
            ELSE IF at[i - 1] = Malformed THEN Malformed ELSE SkipVarint(b, at[i - 1])
    IN  at[n]

(* skipImmediate: the place after the immediate of an opcode; what is not  *)
(* in the table is refused.                                                *)
NoImmediate(op) ==
    op \in {0, 1, 5, 11, 15, 26, 27, 209} \cup (69..196)


OneNumber(op) == op \in Openers \cup {12, 13, 16, 65, 66, 210} \cup (32..38)

TwoNumbers(op) == op = 17 \/ op \in 40..62

Prefixed(b, pos) ==
    LET sub  == Uvarint(b, pos)
        next == SkipVarint(b, pos)
    IN  CASE next = Malformed -> Malformed
          [] sub \in 0..7 -> next
          [] sub = 8 -> NeedBytes(b, SkipVarint(b, next), 1)
          [] sub \in {9, 13, 15, 16, 17} -> SkipVarint(b, next)
          [] sub = 10 -> NeedBytes(b, next, 2)
          [] sub = 11 -> NeedBytes(b, next, 1)
          [] sub \in {12, 14} -> SkipVarints(b, next, 2)
          [] OTHER -> Malformed

SkipImmediate(b, pos, op) ==
    CASE NoImmediate(op) -> pos
      [] OneNumber(op)   -> SkipVarint(b, pos)
      [] TwoNumbers(op)  -> SkipVarints(b, pos, 2)
      [] op \in {63, 64, 208} -> NeedBytes(b, pos, 1)
      [] op = 67 -> NeedBytes(b, pos, 4)
      [] op = 68 -> NeedBytes(b, pos, 8)
      [] op = 14  -> SkipVarints(b, SkipVarint(b, pos), Uvarint(b, pos) + 1)
      [] op = 28  -> NeedBytes(b, SkipVarint(b, pos), Uvarint(b, pos))
      [] op = 252 -> Prefixed(b, pos)
      [] OTHER -> Malformed

(***************************************************************************)
(* instrumentBody: a charge after the declarations and one after every     *)
(* loop.  First a form that charges calls only.                            *)
(***************************************************************************)
ChargeAfterNothing(op) == <<>>

ChargeAfter(op) == IF op = Loop THEN <<Charge>> ELSE <<>>

(* The code from a place on, rewritten; -1, which is no byte, marks a      *)
(* refusal.                                                                *)
Rewritten(b) ==
    LET from[pos \in 1..(Len(b) + 1)] ==
            IF pos > Len(b) THEN <<>>
            ELSE LET next == SkipImmediate(b, pos + 1, b[pos])
                 IN  IF next = Malformed THEN <<-1>>
                     ELSE SubSeq(b, pos, next - 1) \o ChargeAfter(b[pos]) \o from[next]
    IN  from[1]

Refused(b) == -1 \in Range(b)

(* The declarations: how many, and for each a number and a type. *)
CodeStart(body) ==
    LET n == Uvarint(body, 1)
        at[i \in 0..n] ==
            IF i = 0 THEN SkipVarint(body, 1) ELSE SkipVarint(body, at[i - 1]) + 1
    IN  at[n]

InstrumentBody(body) ==
    LET start == CodeStart(body)
    IN  SubSeq(body, 1, start - 1) \o <<Charge>> \o Rewritten(SubSeq(body, start, Len(body)))

(***************************************************************************)
(* instrument: the counter is the last global, so that no index changes,   *)
(* and it is exported; sections that were absent are put in their places.  *)
(* First a form that puts a new section last.                              *)
(***************************************************************************)
CustomId == 0
GlobalId == 6
ExportId == 7

HasSection(m, id) == \E i \in DOMAIN m : m[i].id = id

Items(m, id) ==
    IF HasSection(m, id) THEN m[CHOOSE i \in DOMAIN m : m[i].id = id].items ELSE <<>>

(* countGlobals: imported and defined. *)
ImportedGlobals(m) == Cardinality({i \in DOMAIN Items(m, 2) : Items(m, 2)[i] = "global"})

GasGlobal(m) == ImportedGlobals(m) + Len(Items(m, GlobalId))

InsertLast(m, s) == Append(m, s)

Insert(m, s) ==
    LET after == {i \in DOMAIN m : m[i].id > s.id}
        at    == IF after = {} THEN Len(m) + 1 ELSE CHOOSE i \in after : \A j \in after : i <= j
    IN  InsertAt(m, at, s)

(* Append to a section, or insert one. *)
Extended(m, id, item) ==
    IF HasSection(m, id)
    THEN [i \in DOMAIN m |-> IF m[i].id = id THEN [m[i] EXCEPT !.items = Append(@, item)] ELSE m[i]]
    ELSE Insert(m, [id |-> id, items |-> <<item>>])

Instrument(m) ==
    Extended(Extended(m, GlobalId, "gas"), ExportId, <<"gas", GasGlobal(m)>>)

-----------------------------------------------------------------------------
(* Programs are written one instruction after the other, and every block   *)
(* they open is closed.                                                    *)
Opens(p) == Cardinality({i \in DOMAIN p : p[i][1] \in Openers})

Closes(p) == Cardinality({i \in DOMAIN p : p[i][1] = End})

Closed(p) == p \o [i \in 1..(Opens(p) - Closes(p) + 1) |-> <<End>>]

Body(p) == locals \o FlattenSeq(Closed(p))

Init ==
    /\ shape \in Shapes /\ locals \in Locals
    /\ prog = <<>> /\ code = <<>> /\ frames = <<>>
    /\ gas = GasLimit /\ status = "written"

(* The labels of an instruction are those of the blocks around it and of   *)
(* the function.                                                           *)
Labels(i) ==
    CASE i[1] \in {12, 13} -> {i[2]}
      [] i[1] = 14 -> Range(SubSeq(i, 3, Len(i)))
      [] OTHER -> {}

WriteInstr(i) ==
    /\ status = "written" /\ Grows(prog)
    /\ i = <<End>> => Opens(prog) > Closes(prog)
    /\ \A l \in Labels(i) : l <= Opens(prog) - Closes(prog)
    /\ prog' = Append(prog, i)
    /\ UNCHANGED <<shape, locals, code, frames, gas, status>>

(* The instructions in a sequence of bytes, as the virtual machine reads   *)
(* it: nothing where a byte begins none.                                   *)
Vocabulary == Menu \cup {<<Charge>>, <<End>>}

Parsed(b) ==
    LET Fit(pos) == {v \in Vocabulary : pos + Len(v) - 1 <= Len(b) /\ SubSeq(b, pos, pos + Len(v) - 1) = v}
        from[pos \in 1..(Len(b) + 1)] ==
            IF pos > Len(b) THEN <<>>
            ELSE IF Fit(pos) = {} THEN <<<<-1>>>>
            ELSE LET v == CHOOSE x \in Fit(pos) : TRUE IN <<v>> \o from[pos + Len(v)]
    IN  from[1]

(* The counter is a global like any other: only the rewritten module is    *)
(* validated, and there it is one more global a program may write.         *)
Writes(i, k) == i[1] = GlobalSet /\ Uvarint(i, 2) = k

(* Of what makes the virtual machine refuse a rewritten module: imported   *)
(* globals, for the host exports functions only, and globals it lacks.     *)
Instantiates(c) ==
    /\ ImportedGlobals(shape) = 0
    /\ \A i \in Range(c) : i[1] = GlobalSet => Uvarint(i, 2) <= GasGlobal(shape)

(* RunMetered, Sandbox.run: rewrite, instantiate, call. *)
Call ==
    /\ status = "written"
    /\ LET out == InstrumentBody(Body(prog))
           c   == Parsed(SubSeq(out, Len(locals) + 1, Len(out)))
       IN  IF Refused(out) \/ ~Instantiates(c)
           THEN status' = "refused" /\ UNCHANGED <<code, frames>>
           ELSE code' = c /\ frames' = <<1>> /\ status' = "running"
    /\ UNCHANGED <<shape, locals, prog, gas>>

(* The blocks around an instruction, and where a branch out of one leads:  *)
(* behind its opening if it is a loop, behind its end if it is not.        *)
Depth(at) ==
    Cardinality({i \in 1..(at - 1) : code[i][1] \in Openers})
        - Cardinality({i \in 1..(at - 1) : code[i][1] = End})

EndOf(open) ==
    CHOOSE e \in (open + 1)..Len(code) :
        /\ code[e][1] = End /\ Depth(e) = Depth(open) + 1
        /\ \A i \in (open + 1)..(e - 1) : code[i][1] = End => Depth(i) # Depth(open) + 1

Around(pc, label) ==
    CHOOSE o \in 1..(pc - 1) :
        /\ code[o][1] \in Openers /\ Depth(o) = Depth(pc) - label - 1
        /\ \A i \in (o + 1)..(pc - 1) : Depth(i) > Depth(o)

Leaves(pc, label) == label >= Depth(pc)

Goto(pc, label) ==
    LET o == Around(pc, label) IN IF code[o][1] = Loop THEN o + 1 ELSE EndOf(o) + 1

Return == Front(frames)

(* The call stacks one instruction may lead to. *)
Jump(pc, label) ==
    IF Leaves(pc, label) THEN Return ELSE Append(Return, Goto(pc, label))

After(pc) ==
    LET i    == code[pc]
        next == Append(Return, pc + 1)
    IN  CASE i[1] = 12 -> {Jump(pc, i[2])}
          [] i[1] = 13 -> {next, Jump(pc, i[2])}
          [] i[1] = 14 -> {Jump(pc, i[k]) : k \in 3..Len(i)}
          [] i[1] = 4  -> {next, Append(Return, EndOf(pc) + 1)}
          [] i[1] = 15 -> {Return}
          [] i[1] = CallOp -> {Append(next, 1)}
          [] i[1] = End /\ pc = Len(code) -> {Return}
          [] OTHER -> {next}

Traps(i) ==
    \/ i[1] \in {-1, Unreachable}
    \/ i[1] = Charge /\ gas < 1
    \/ i[1] = CallOp /\ Len(frames) = MaxDepth

(* What the counter may hold after an instruction. *)
GasAfter(i) ==
    IF i[1] = Charge THEN {gas - 1}
    ELSE IF Writes(i, GasGlobal(shape)) THEN 0..GasLimit ELSE {gas}

Step ==
    /\ status = "running"
    /\ LET pc == Last(frames)
       IN  IF Traps(code[pc])
           THEN status' = "trapped" /\ UNCHANGED <<frames, gas>>
           ELSE /\ gas' \in GasAfter(code[pc])
                /\ frames' \in After(pc)
                /\ status' = IF frames' = <<>> THEN "done" ELSE "running"
    /\ UNCHANGED <<shape, locals, prog, code>>

Next == (\E i \in Menu : WriteInstr(i)) \/ Call \/ Step

(* The interpreter does not stop between two instructions. *)
Spec == Init /\ [][Next]_vars /\ WF_vars(Step)

-----------------------------------------------------------------------------
(* A program written with charges, by instructions: the reference. *)
WithCharges(p) ==
    FlattenSeq([i \in DOMAIN p |->
        IF p[i][1] = Loop THEN p[i] \o <<Charge>> ELSE p[i]])


(* The canonical order of sections: the count of data segments (12) comes  *)
(* before the code, custom sections come anywhere.                         *)
Rank(id) == IF id = 12 THEN 19 ELSE 2 * id

(* A rewritten module is one the virtual machine can load: its sections in *)
(* order and once each, the globals and exports it had at the indexes they *)
(* had, and the exported counter is the global that the charges name.      *)
ModuleLoads ==
    LET m == shape
        n == Instrument(m)
    IN  /\ \A i, j \in DOMAIN n :
              i < j /\ n[i].id # CustomId /\ n[j].id # CustomId => Rank(n[i].id) < Rank(n[j].id)
        /\ SelectSeq(n, LAMBDA s : s.id \notin {GlobalId, ExportId})
              = SelectSeq(m, LAMBDA s : s.id \notin {GlobalId, ExportId})
        /\ Items(n, GlobalId) = Append(Items(m, GlobalId), "gas")
        /\ Items(n, ExportId) = Append(Items(m, ExportId), <<"gas", ImportedGlobals(n) + Len(Items(n, GlobalId)) - 1>>)

Ended == status \in {"done", "trapped"}

(* The program is about to write its own counter. *)
Refills == status = "running" /\ Writes(code[Last(frames)], GasGlobal(shape))

(* Every call ends, whatever its loops, branches and recursion, with the   *)
(* gas at the latest, unless it keeps writing its own counter.             *)
CallEndsOrRefills == (status = "running") ~> (Ended \/ Refills)

(* Every call ends: what the comments on the meter promise (meter.go:13-15, *)
(* consensus.go:11).                                                       *)
CallEnds == (status = "running") ~> Ended
=============================================================================
