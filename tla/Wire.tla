--------------------------------- MODULE Wire ---------------------------------
(***************************************************************************)
(* A connection (p2p.go): goroutines of one node write frames to the same  *)
(* peer, each in two writes under the lock of the connection; the peer     *)
(* reads whole frames off the stream and decodes what they carry.  The     *)
(* connection may be cut anywhere.                                         *)
(***************************************************************************)
EXTENDS Codec

CONSTANTS
    Writers,        \* goroutines
    Queues,         \* what each has to send: sequences of records [type, v]
    MaxFrame,       \* the longest payload
    NoWriter

VARIABLES
    queue,      \* what each writer has to send
    payload,    \* what a writer has still to write of its frame
    lock,       \* of the connection
    stream,     \* bytes under way
    open,
    sent, received

vars == <<queue, payload, lock, stream, open, sent, received>>

Types == <<"hello", "tx", "block", "vote", "getBlocks">>

TypeByte(type) == CHOOSE i \in DOMAIN Types : Types[i] = type

Init ==
    /\ queue \in Queues
    /\ payload = [w \in Writers |-> <<>>]
    /\ lock = NoWriter
    /\ stream = <<>>
    /\ open = TRUE
    /\ sent = <<>> /\ received = <<>>

(* send and writeFrame: the header, under the lock.  First a form without  *)
(* the lock.                                                               *)
MayWriteAnyTime(w) == TRUE

MayWrite(w) == lock = NoWriter

WriteHeader(w) ==
    /\ open /\ queue[w] # <<>> /\ payload[w] = <<>> /\ MayWrite(w)
    /\ LET m    == Head(queue[w])
           data == MarshalBinary(m)
       IN  /\ Len(data) <= MaxFrame
           /\ stream' = stream \o <<TypeByte(m.type)>> \o WriteUvarint(Len(data))
           /\ payload' = [payload EXCEPT ![w] = data]
           /\ sent' = Append(sent, m)
    /\ lock' = w
    /\ queue' = [queue EXCEPT ![w] = Tail(@)]
    /\ UNCHANGED <<open, received>>

(* A payload that is too long is not sent. *)
TooLarge(w) ==
    /\ open /\ queue[w] # <<>> /\ MayWrite(w)
    /\ Len(MarshalBinary(Head(queue[w]))) > MaxFrame
    /\ queue' = [queue EXCEPT ![w] = Tail(@)]
    /\ UNCHANGED <<payload, lock, stream, open, sent, received>>

WritePayload(w) ==
    /\ open /\ payload[w] # <<>>
    /\ stream' = stream \o payload[w]
    /\ payload' = [payload EXCEPT ![w] = <<>>]
    /\ lock' = NoWriter
    /\ UNCHANGED <<queue, open, sent, received>>

(* The connection breaks: some of what is under way arrives. *)
Cut(k) ==
    /\ open /\ k \in 0..Len(stream)
    /\ open' = FALSE
    /\ stream' = SubSeq(stream, 1, k)
    /\ UNCHANGED <<queue, payload, lock, sent, received>>

(* readFrame: the payload and what follows it, when it is all there. *)
Frame(b) ==
    LET n == ReadUvarint(b, 2)
    IN  IF b # <<>> /\ n.ok /\ n.v <= MaxFrame /\ Len(b) >= n.pos + n.v - 1
        THEN Read([type |-> b[1], data |-> SubSeq(b, n.pos, n.pos + n.v - 1)], n.pos + n.v)
        ELSE Refusal

(* handle: what cannot be decoded is passed over, but a type nobody knows  *)
(* ends the connection.                                                    *)
Receive ==
    LET f == Frame(stream)
    IN  /\ f.ok
        /\ IF f.v.type \in DOMAIN Types
           THEN /\ LET type == Types[f.v.type]
                       m    == UnmarshalBinary(type, f.v.data)
                   IN  received' = IF m.ok THEN Append(received, [type |-> type, v |-> m.v])
                                   ELSE received
                /\ stream' = SubSeq(stream, f.pos, Len(stream))
                /\ UNCHANGED open
           ELSE /\ open' = FALSE /\ stream' = <<>>
                /\ UNCHANGED received
        /\ UNCHANGED <<queue, payload, lock, sent>>

Next ==
    \/ \E w \in Writers : WriteHeader(w) \/ TooLarge(w) \/ WritePayload(w)
    \/ \E k \in 0..(2 * MaxFrame) : Cut(k)
    \/ Receive

Spec == Init /\ [][Next]_vars

-----------------------------------------------------------------------------
(* The peer reads the messages in the order the lock was taken, each as it *)
(* was, whatever goroutines wrote and wherever the connection broke.       *)
ReceivedInOrder == received = SubSeq(sent, 1, Len(received))

(* A text that was cut off is refused, unless the cut leaves a message of  *)
(* an older version: a transaction without its last extensions, a hello    *)
(* without its version.                                                    *)
Older(m) ==
    CASE m.type = "tx"    -> {[m EXCEPT !.v[20] = <<NoWasm, NoShield>>],
                              [m EXCEPT !.v[20][2] = NoShield]}
      [] m.type = "hello" -> {[m EXCEPT !.v[3] = 0]}
      [] OTHER -> {}

CutIsRefused ==
    open /\ sent = <<>> =>
        \A w \in Writers : \A i \in DOMAIN queue[w] :
            LET m == queue[w][i]
                b == MarshalBinary(m)
            IN  \A k \in 0..(Len(b) - 1) :
                    LET cut == UnmarshalBinary(m.type, SubSeq(b, 1, k))
                    IN  cut.ok => [m EXCEPT !.v = cut.v] \in Older(m)
=============================================================================
