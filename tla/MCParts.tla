-------------------------------- MODULE MCParts -------------------------------
(* The parts of a node that share no state with the others, and the links  *)
(* between two nodes: each behaviour runs one of them.                     *)
EXTENDS Parts, TLC

CONSTANTS Half, WordSize, ShortWord, Writers, Queues, MaxFrame, NoWriter

VARIABLES queue, payload, lock, stream, open, sent, received

Wi == INSTANCE Wire

wireVars == <<queue, payload, lock, stream, open, sent, received>>

allVars == <<partsVars, wireVars>>

wireOff ==
    queue = 0 /\ payload = 0 /\ lock = 0 /\ stream = 0 /\ open = 0 /\ sent = 0 /\ received = 0

MCInit ==
    \/ PartsInit /\ wireOff
    \/ part = "wire" /\ Wi!Init /\ storageOff /\ meteringOff /\ treeOff /\ friOff

MCNext ==
    \/ PartsNext /\ UNCHANGED wireVars
    \/ part = "wire" /\ Wi!Next /\ UNCHANGED partsVars

CalledStep ==
    /\ part = "meter" /\ Mt!Step
    /\ UNCHANGED <<part, vars, wireVars, treeVars, friVars>>

MCSpec == MCInit /\ [][MCNext]_allVars /\ WF_allVars(CalledStep)

-----------------------------------------------------------------------------
(* Metering: every call ends, or comes to write its own counter (charge,   *)
(* meter.go; RunMetered, vm.go).                                           *)
CallEndsOrRefills ==
    (part = "meter" /\ status = "running") ~> (part = "meter" /\ (Mt!Ended \/ Mt!Refills))

(* Wire: messages arrive in the order they were sent and as they were      *)
(* (writeFrame, readFrame, p2p.go, and the codecs).                        *)
ReceivedInOrder == part = "wire" => Wi!ReceivedInOrder

(* Wire: a message cut off is refused or one of an older version           *)
(* (UnmarshalBinary).                                                      *)
CutIsRefused == part = "wire" => Wi!CutIsRefused

-----------------------------------------------------------------------------
(* Two transactions, one of them indexed under two addresses. *)
MCTxAddrs == <<{"a"}, {"a", "b"}>>

(* Every kind of immediate, with bytes that look like a loop (3) or an end *)
(* (11) in most of them, and numbers in more bytes than they need; writes  *)
(* to the globals 0 and 1, either of which may be the counter.             *)
MCMenu ==
    {<<3, 64>>, <<2, 64>>, <<4, 64>>, <<11>>, <<12, 0>>, <<13, 1>>, <<14, 1, 0, 1>>,
     <<15>>, <<16, 0>>, <<65, 131, 3>>, <<67, 3, 3, 3, 3>>, <<40, 2, 3>>, <<17, 3, 3>>,
     <<28, 129, 0, 3>>, <<252, 138, 0, 3, 3>>, <<252, 8, 131, 3, 11>>, <<252, 12, 3, 3>>, <<0>>,
     <<36, 0>>, <<36, 129, 0>>}

(* Two instructions, and a third where they write a global in a loop. *)
MCGrows(p) == Len(p) < 2 \/ p = <<<<3, 64>>, <<36, 0>>>>

MCLocals == {<<0>>, <<1, 130, 1, 127>>}

(* The sections of a module in their order; two globals are there if       *)
(* imports and globals are.                                                *)
Section(id) ==
    [id |-> id,
     items |-> CASE id = 2 -> <<"func", "global">>
                 [] id = 6 -> <<"own">>
                 [] id = 7 -> <<"main">>
                 [] OTHER -> <<>>]

SectionOrder == <<1, 2, 6, 7, 9, 12, 10>>

MCShapes ==
    {<<Section(0), Section(10), Section(0)>>}
        \cup {SelectSeq([i \in DOMAIN SectionOrder |-> Section(SectionOrder[i])],
                        LAMBDA s : s.id \in there) :
                 there \in {{6, 10}, {2, 12, 10}, {1, 7, 9, 10}, {1, 2, 6, 7, 9, 12, 10}}}

(* One writer has a message of every form, the other two short ones. *)
PlainTx ==
    <<<<1>>, <<2>>, <<3>>, <<>>, <<>>, <<>>, 9, 0, 1, 0, FALSE, <<>>, <<>>, <<>>, <<>>, <<>>,
      0, -5, <<4, 15>>, <<<<<<>>, <<>>, 0>>, <<<<>>, <<>>, <<>>, <<>>>>>>>>

TxForms ==
    {PlainTx,
     [PlainTx EXCEPT ![13] = <<<<1>>, <<>>, 9, 200, TRUE>>],
     [PlainTx EXCEPT ![14] = <<<<1>>, <<>>, 70, <<2>>, 3, -3, <<>>, <<>>, <<<<>>, <<7>>>>, 2>>],
     [PlainTx EXCEPT ![20][1] = <<<<1, 2>>, <<8, 0>>, 3>>],
     [PlainTx EXCEPT ![20][1] = <<<<>>, <<>>, 1>>],
     [PlainTx EXCEPT ![20][2] = <<<<1>>, <<2>>, <<>>, <<>>>>],
     [PlainTx EXCEPT ![20] = <<<<<<1>>, <<>>, 9>>, <<<<>>, <<>>, <<5>>, <<1>>>>>>]}

AVote == <<<<1>>, 9, 2, <<>>, <<5>>, <<6>>, <<>>, <<7, 7>>>>

AnEvidence == <<9, <<6>>, AVote, [AVote EXCEPT ![5] = <<3>>]>>

EmptyBlock ==
    <<8, <<5>>, 64, <<6>>, 1, <<>>, <<>>, <<>>, <<2>>, <<>>, <<>>, <<>>, <<9>>, <<>>, <<3>>>>

WasmTx == [PlainTx EXCEPT ![20][1] = <<<<1>>, <<>>, 9>>]

Forms ==
    {[type |-> "tx", v |-> t] : t \in TxForms}
        \cup {[type |-> "vote", v |-> AVote],
              [type |-> "hello", v |-> <<<<1>>, 9, 2>>],
              [type |-> "block", v |-> EmptyBlock],
              [type |-> "block", v |-> [EmptyBlock EXCEPT ![10] = <<PlainTx, WasmTx>>, ![12] = <<AVote>>]],
              [type |-> "block", v |-> [EmptyBlock EXCEPT ![11] = <<AnEvidence>>, ![12] = <<AVote, AVote>>]],
              [type |-> "block", v |-> [EmptyBlock EXCEPT ![10] = <<PlainTx, PlainTx, PlainTx, PlainTx>>]]}

MCQueues ==
    {[w \in Writers |->
        IF w = "relay" THEN <<m>>
        ELSE <<[type |-> "vote", v |-> AVote], [type |-> "getBlocks", v |-> <<127>>]>>] : m \in Forms}

(* Paths of three bits: two keys that part at the last one, and one that   *)
(* parts from them at the second.                                          *)
MCPath == ("acc/a" :> <<0, 0, 1>>) @@ ("acc/b" :> <<0, 0, 0>>) @@ ("tok/a" :> <<0, 1, 1>>)

(* Degrees below 4, for which a proof on 8 points has to be accepted, and  *)
(* from 4 on, where it depends on the challenges.                          *)
MCPolys ==
    {<<5, 0, 0, 0, 0, 0, 0, 0>>, <<240, 7, 100, 3, 0, 0, 0, 0>>, <<0, 1, 0, 0, 0, 0, 0, 0>>,
     <<1, 2, 3, 4, 5, 0, 0, 0>>, <<9, 0, 0, 1, 3, 240, 0, 2>>, <<0, 0, 0, 0, 1, 240, 0, 0>>}
=============================================================================
