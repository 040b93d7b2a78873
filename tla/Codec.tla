-------------------------------- MODULE Codec ---------------------------------
(***************************************************************************)
(* The binary format of messages and blocks: internal/codec and the        *)
(* MarshalBinary and UnmarshalBinary of internal/types and internal/p2p.   *)
(* A byte carries a digit below Half and a bit that says whether more      *)
(* follow (128 in the code).  What is written and read field by field is   *)
(* here a sequence of kinds; a value is the sequence of its fields.        *)
(***************************************************************************)
EXTENDS Integers, Sequences, FiniteSets, SequencesExt

CONSTANTS
    Half,
    WordSize,           \* one past the largest integer
    ShortWord       \* the same of a round, which is shorter

MaxVarintLen == CHOOSE n \in 1..10 : Half^n >= WordSize /\ Half^(n - 1) < WordSize

-----------------------------------------------------------------------------
(***************************************************************************)
(* The encoder.                                                            *)
(***************************************************************************)
RECURSIVE WriteUvarint(_)
WriteUvarint(v) ==
    IF v < Half THEN <<v>> ELSE <<Half + (v % Half)>> \o WriteUvarint(v \div Half)

WriteVarint(v) == WriteUvarint(IF v >= 0 THEN 2 * v ELSE -2 * v - 1)

WriteBool(v) == IF v THEN <<1>> ELSE <<0>>

WriteBytes(v) == WriteUvarint(Len(v)) \o v

(***************************************************************************)
(* The decoder: what was read and the place behind it, or a refusal.       *)
(***************************************************************************)
Read(v, pos) == [ok |-> TRUE, v |-> v, pos |-> pos]

Refusal == [ok |-> FALSE, v |-> 0, pos |-> 0]

ReadUvarint(b, pos) ==
    LET last(k)  == b[k] < Half /\ \A j \in pos..(k - 1) : b[j] >= Half
        value[j \in pos..Len(b)] ==
            (b[j] % Half) + (IF b[j] < Half THEN 0 ELSE Half * value[j + 1])
        ends     == {k \in pos..Len(b) : k < pos + MaxVarintLen /\ last(k)}
    IN  IF ends # {} /\ value[pos] < WordSize
        THEN Read(value[pos], (CHOOSE k \in ends : TRUE) + 1)
        ELSE Refusal

ReadVarint(b, pos) ==
    LET u == ReadUvarint(b, pos)
    IN  IF ~u.ok THEN Refusal
        ELSE Read(IF u.v % 2 = 0 THEN u.v \div 2 ELSE -((u.v + 1) \div 2), u.pos)

ReadU8(b, pos) == IF pos <= Len(b) THEN Read(b[pos], pos + 1) ELSE Refusal

ReadBool(b, pos) ==
    LET u == ReadU8(b, pos)
    IN  IF u.ok /\ u.v \in {0, 1} THEN Read(u.v = 1, u.pos) ELSE Refusal

(* ReadBytes, ReadString: first a form that takes what is left of a text   *)
(* that was cut off.                                                       *)
ReadBytesLeft(b, pos) ==
    LET n   == ReadUvarint(b, pos)
        end == IF n.pos + n.v - 1 < Len(b) THEN n.pos + n.v - 1 ELSE Len(b)
    IN  IF n.ok THEN Read(SubSeq(b, n.pos, end), end + 1) ELSE Refusal

ReadBytes(b, pos) ==
    LET n == ReadUvarint(b, pos)
    IN  IF ~n.ok \/ n.v > Len(b) - n.pos + 1 THEN Refusal
        ELSE Read(SubSeq(b, n.pos, n.pos + n.v - 1), n.pos + n.v)

(* ReadLen: a number of elements, each of a byte at least. *)
ReadLen(b, pos) ==
    LET n == ReadUvarint(b, pos)
    IN  IF n.ok /\ n.v <= Len(b) - n.pos + 1 THEN n ELSE Refusal

-----------------------------------------------------------------------------
(***************************************************************************)
(* The kinds of fields: Opt(f) has a tag of presence, List(k) a number of  *)
(* elements, Framed(f) the length of the message in it.                    *)
(***************************************************************************)
Num   == <<"num">>
Round == <<"round">>
Int64 == <<"int">>
U8    == <<"byte">>
Bool  == <<"bool">>
Text  == <<"text">>
Opt(fields)    == <<"opt", fields>>
List(kind)     == <<"list", kind>>
Framed(fields) == <<"framed", fields>>

(* At the end of a message may stand what older versions did not write,    *)
(* read only if something is left: Version, a number, in a Hello, and      *)
(* Extensions in a transaction, a pair of groups of fields.                *)
Version    == <<"version">>
Extensions == <<"extensions">>

WasmFields == <<Text, List(Num), Num>>          \* code, args, gas

NoWasm == <<<<>>, <<>>, 0>>

ShieldFields == <<Text, Text, Text, Text>>      \* commitment, note, proof, public

NoShield == <<<<>>, <<>>, <<>>, <<>>>>

(* Whether the first group is written: also if it is empty and the second  *)
(* is not.  First a form that forgets that.                                *)
WritesWasmOnly(ext) == ext[1] # NoWasm

WritesWasm(ext) == ext[1] # NoWasm \/ ext[2] # NoShield

RECURSIVE Write(_, _), WriteFields(_, _)
Write(kind, v) ==
    CASE kind[1] \in {"num", "round", "version"} -> WriteUvarint(v)
      [] kind[1] = "int"    -> WriteVarint(v)
      [] kind[1] = "byte"   -> <<v>>
      [] kind[1] = "bool"   -> WriteBool(v)
      [] kind[1] = "text"   -> WriteBytes(v)
      [] kind[1] = "opt"    -> WriteBool(v # <<>>)
                               \o (IF v = <<>> THEN <<>> ELSE WriteFields(kind[2], v))
      [] kind[1] = "list"   -> WriteUvarint(Len(v))
                               \o FlattenSeq([i \in DOMAIN v |-> Write(kind[2], v[i])])
      [] kind[1] = "framed" -> WriteBytes(WriteFields(kind[2], v))
      [] kind[1] = "extensions" ->
            (IF WritesWasm(v) THEN WriteFields(WasmFields, v[1]) ELSE <<>>)
            \o (IF v[2] # NoShield THEN WriteFields(ShieldFields, v[2]) ELSE <<>>)

WriteFields(fields, v) == FlattenSeq([i \in DOMAIN fields |-> Write(fields[i], v[i])])

RECURSIVE ReadKind(_, _, _), ReadAll(_, _, _, _)
ReadFields(fields, b, pos) == ReadAll(fields, b, pos, <<>>)

Exactly(fields, b) ==
    LET m == ReadFields(fields, b, 1)
    IN  IF m.ok /\ m.pos = Len(b) + 1 THEN m ELSE Refusal

ShortNumber(u) == IF u.ok THEN Read(u.v % ShortWord, u.pos) ELSE Refusal

ReadExtensions(b, pos) ==
    LET wasm == IF pos > Len(b) THEN Read(NoWasm, pos) ELSE ReadFields(WasmFields, b, pos)
        shield == IF wasm.pos > Len(b) THEN Read(NoShield, wasm.pos)
                  ELSE ReadFields(ShieldFields, b, wasm.pos)
    IN  IF wasm.ok /\ shield.ok THEN Read(<<wasm.v, shield.v>>, shield.pos) ELSE Refusal

ReadKind(kind, b, pos) ==
    CASE kind[1] = "num"  -> ReadUvarint(b, pos)
      [] kind[1] = "round" -> ShortNumber(ReadUvarint(b, pos))
      [] kind[1] = "version" ->
            IF pos > Len(b) THEN Read(0, pos) ELSE ShortNumber(ReadUvarint(b, pos))
      [] kind[1] = "extensions" -> ReadExtensions(b, pos)
      [] kind[1] = "int"  -> ReadVarint(b, pos)
      [] kind[1] = "byte" -> ReadU8(b, pos)
      [] kind[1] = "bool" -> ReadBool(b, pos)
      [] kind[1] = "text" -> ReadBytes(b, pos)
      [] kind[1] = "opt"  ->
            LET there == ReadBool(b, pos)
            IN  IF ~there.ok THEN Refusal
                ELSE IF there.v THEN ReadFields(kind[2], b, there.pos) ELSE Read(<<>>, there.pos)
      [] kind[1] = "list" ->
            LET n == ReadLen(b, pos)
            IN  IF n.ok THEN ReadFields([i \in 1..n.v |-> kind[2]], b, n.pos) ELSE Refusal
      [] kind[1] = "framed" ->
            LET raw == ReadBytes(b, pos)
                m   == Exactly(kind[2], raw.v)
            IN  IF raw.ok /\ m.ok THEN Read(m.v, raw.pos) ELSE Refusal

ReadAll(fields, b, pos, done) ==
    IF fields = <<>> THEN Read(done, pos)
    ELSE LET f == ReadKind(Head(fields), b, pos)
         IN  IF f.ok THEN ReadAll(Tail(fields), b, f.pos, Append(done, f.v)) ELSE Refusal

-----------------------------------------------------------------------------
(***************************************************************************)
(* The messages: their fields in the order of the code.                    *)
(***************************************************************************)
(* symbol, name, decimals, supply, mintable *)
TokenFields == <<Text, Text, U8, Num, Bool>>

(* template, token, amount, beneficiary, start, end, seller, arbiter,      *)
(* signers, threshold                                                      *)
ContractFields ==
    <<Text, Text, Num, Text, Int64, Int64, Text, Text, List(Text), Num>>

(* chain, type, from, its key, to, token id, amount, nonce, highest base   *)
(* fee, tip, private, memo, new token, new contract, contract id, action,  *)
(* proposal, time, signature                                               *)
TxFields ==
    <<Text, Text, Text, Text, Text, Text, Num, Num, Num, Num, Bool, Text,
      Opt(TokenFields), Opt(ContractFields), Text, Text, Num, Int64, Text, Extensions>>

(* chain, height, round, kind, block, voter, key, signature *)
VoteFields == <<Text, Num, Round, Text, Text, Text, Text, Text>>

(* height, voter, the two votes *)
EvidenceFields == <<Num, Text, Framed(VoteFields), Framed(VoteFields)>>

(* height, previous, time, proposer, round and the four roots *)
HeaderFields == <<Num, Text, Int64, Text, Round, Text, Text, Text, Text>>

(* header, transactions, evidence, last commit, hash, key, signature *)
BlockFields ==
    HeaderFields \o <<List(Framed(TxFields)), List(Framed(EvidenceFields)),
                      List(Framed(VoteFields)), Text, Text, Text>>

(* chain, height, version *)
HelloFields == <<Text, Num, Version>>

(* from *)
GetBlocksFields == <<Num>>

Fields(type) ==
    CASE type = "hello" -> HelloFields
      [] type = "tx"    -> TxFields
      [] type = "block" -> BlockFields
      [] type = "vote"  -> VoteFields
      [] type = "getBlocks" -> GetBlocksFields

MarshalBinary(m) == WriteFields(Fields(m.type), m.v)

UnmarshalBinary(type, b) == Exactly(Fields(type), b)
=============================================================================
