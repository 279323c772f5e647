------------------------------- MODULE Packet -------------------------------
(***************************************************************************)
(* controller/packet.c: the wire format and its checksum, and what the     *)
(* radio driver does with a frame between its FIFO and the controllers     *)
(* (cc1200_rate.c:227-254 and the comparison in sender.c and receiver.c).  *)
(* One frame is written, at most one of its bytes is changed or its end is *)
(* cut off on the way, and what arrives is read.                           *)
(*                                                                         *)
(* A byte is a number below BYTE; the widths of the fields are those of    *)
(* the code.                                                               *)
(***************************************************************************)
EXTENDS Integers, Sequences, FiniteSets, SequencesExt, Folds

CONSTANTS
    BYTE,       \* 256 in the code
    Ids,        \* values of id and ack (sample)
    TokenValues,    \* values of the tokens (sample)
    Rates,      \* values of the rate fields (sample)
    MaxPayload  \* bytes of the payload (bound; 10 in sender_interface.c)

\* uint8_t
Octet == 0 .. BYTE - 1

\* What the bytes of a field count, the low one first
Place == << 1, BYTE, BYTE * BYTE, BYTE * BYTE * BYTE >>

\* The values that fit into w bytes
Fits(w) == 0 .. BYTE * Place[w] - 1

ASSUME PacketAssumption ==
    /\ BYTE \in Nat /\ BYTE >= 3
    /\ Ids \subseteq Fits(4)
    /\ TokenValues \subseteq Fits(2)
    /\ Rates \subseteq Fits(1)
    /\ MaxPayload \in Fits(4)

\* The header, field by field, as packet_serialize writes it
Fields == << "id", "token_recv", "token_send", "type", "payload_len", "checksum",
             "ack", "next_symbol_rate", "next_second_best_rate",
             "next_highest_pro_rate", "fallback_rate" >>

FieldNames == {Fields[i] : i \in 1 .. Len(Fields)}

Width(f) == CASE f \in {"id", "payload_len", "ack"} -> 4
              [] f \in {"token_recv", "token_send"} -> 2
              [] OTHER -> 1

\* The sum of a sequence of numbers
Total(s) == FoldLeft(+, 0, s)

\* Bytes before the i-th field
Offset(i) == Total([j \in 1 .. i - 1 |-> Width(Fields[j])])

\* Bytes that are written for the header: 22
HeaderBytes == Offset(Len(Fields) + 1)

\* What the code takes for their number: one more.  A frame is therefore one byte
\* longer than what is written of it, and its last byte comes as malloc left it.
getHeaderSize == 23

Bytes(v, w) == [k \in 1 .. w |-> (v \div Place[k]) % BYTE]
Value(b) == Total([k \in 1 .. Len(b) |-> b[k] * Place[k]])

\* The whole fields are added, all but the checksum itself
FieldSum(h) ==
    Total([i \in 1 .. Len(Fields) |->
              IF Fields[i] = "checksum" THEN 0 ELSE h[Fields[i]]])

\* Mutant: the bytes of the payload are left out
packet_calc_checksum_Header(p) == FieldSum(p.header) % BYTE

\* The fields, then the bytes of the payload; taking each partial sum modulo 256
\* makes no difference, nor does the wrap at 2^32
packet_calc_checksum(p) == (FieldSum(p.header) + Total(p.payload)) % BYTE

packet_set_checksum(p) ==
    [p EXCEPT !.header["checksum"] = packet_calc_checksum(p)]

\* Mutant: the upper half of each field is lost
packet_serialize_Narrow(p) ==
    FlattenSeq([i \in 1 .. Len(Fields) |->
        Bytes(p.header[Fields[i]] % BYTE, Width(Fields[i]))]) \o p.payload

packet_serialize(p) ==
    FlattenSeq([i \in 1 .. Len(Fields) |->
        Bytes(p.header[Fields[i]], Width(Fields[i]))]) \o p.payload

\* The i-th field of the header in buffer b
Field(b, i) == Value(SubSeq(b, Offset(i) + 1, Offset(i) + Width(Fields[i])))

Header(b) ==
    [f \in FieldNames |->
        Field(b, CHOOSE i \in 1 .. Len(Fields) : Fields[i] = f)]

Null == [header |-> <<>>, payload |-> <<>>]

\* Mutant: the length in the header is ignored
packet_deserialize_Unchecked(b, payload_len) ==
    [header |-> Header(b),
     payload |-> SubSeq(b, HeaderBytes + 1, HeaderBytes + payload_len)]

\* NULL when the length in the header is another than payload_len, with -1 for
\* any length.  Bytes behind the end of the frame are added to b in Read.
packet_deserialize(b, payload_len) ==
    LET h == Header(b)
    IN  IF payload_len \notin {h["payload_len"], -1}
        THEN Null
        ELSE [header |-> h, payload |->
                 SubSeq(b, HeaderBytes + 1, HeaderBytes + h["payload_len"])]

-----------------------------------------------------------------------------
VARIABLES
    pkt,    \* the packet that is sent
    wire,   \* the bytes the FIFO of the receiving radio is given
    changed,    \* ghost: position of a byte changed on the way, 0 for none
    cut,    \* ghost: bytes cut off
    stage,  \* "sent", "hit" or "read"
    got     \* the packet cc1200_get_packet returns, or Null

vars == <<pkt, wire, changed, cut, stage, got>>

Payloads == UNION {[1 .. n -> Octet] : n \in 0 .. MaxPayload}

RateFields == {"next_symbol_rate", "next_second_best_rate", "next_highest_pro_rate",
               "fallback_rate"}

\* packet_status_ok from the sender, packet_status_ok_ack from the receiver
Types == {1, 2}

\* What sender_build_pkt and receiver_ack build
Built(id, ack, tr, ts, type, rates, payload) ==
    packet_set_checksum(
        [ header |-> [ f \in FieldNames |->
             CASE f = "id" -> id
               [] f = "ack" -> ack
               [] f = "token_recv" -> tr
               [] f = "token_send" -> ts
               [] f = "type" -> type
               [] f = "payload_len" -> Len(payload)
               [] f \in RateFields -> rates[f]
               [] OTHER -> 0 ],
          payload |-> payload ])

Init ==
    /\ \E id \in Ids, ack \in Ids, tr \in TokenValues, ts \in TokenValues,
          type \in Types, rates \in [RateFields -> Rates], payload \in Payloads :
             pkt = Built(id, ack, tr, ts, type, rates, payload)
    /\ \E rest \in Octet : wire = packet_serialize(pkt) \o <<rest>>
    /\ changed = 0 /\ cut = 0
    /\ stage = "sent" /\ got = Null

\* Interference changes one byte
Flip ==
    /\ stage = "sent" /\ stage' = "hit"
    /\ \E k \in 1 .. Len(wire) :
          /\ changed' = k
          /\ \E b \in Octet \ {wire[k]} : wire' = [wire EXCEPT ![k] = b]
    /\ UNCHANGED <<pkt, cut, got>>

\* The byte that announces the length to the radio is read too small, so the
\* FIFO gets fewer bytes, down to the 22 of a header (bound: with less, the
\* header itself would be read from behind the buffer)
Cut ==
    /\ stage = "sent" /\ stage' = "hit"
    /\ \E n \in HeaderBytes .. Len(wire) - 1 :
          /\ cut' = Len(wire) - n
          /\ wire' = SubSeq(wire, 1, n)
    /\ UNCHANGED <<pkt, changed, got>>

\* The number of bytes in the FIFO decides the payload length to expect.
\* Bytes that packet_deserialize reads behind the buffer may be anything; here
\* they are all the same (bound).
Read ==
    /\ stage # "read" /\ stage' = "read"
    /\ \E b \in Octet :
          got' = packet_deserialize(wire \o [k \in 1 .. cut |-> b],
                                    Len(wire) - getHeaderSize)
    /\ UNCHANGED <<pkt, wire, changed, cut>>

Next == Flip \/ Cut \/ Read

Spec == Init /\ [][Next]_vars
-----------------------------------------------------------------------------
(* Properties *)

\* Sender and receiver go on with what was read
Accepted ==
    /\ stage = "read" /\ got # Null
    /\ got.header["checksum"] = packet_calc_checksum(got)

\* A frame that arrives as it was sent is read as the packet it was made of.
RoundTrip == stage = "read" /\ changed = 0 /\ cut = 0 => Accepted /\ got = pkt

\* The low byte of each field of the header, and each byte of the payload
Counted ==
    {Offset(i) + 1 : i \in 1 .. Len(Fields)}
        \cup HeaderBytes + 1 .. HeaderBytes + Len(pkt.payload)

\* The bytes of payload_len
LengthBytes == Offset(5) + 1 .. Offset(6)

\* One wrong byte is noticed wherever it counts: by the checksum in the low byte
\* of a field, in the payload or in the checksum, by the length check in
\* payload_len.  This is the detection Driver relies on with `intact'.
OneByteNoticed == Accepted /\ changed # 0 => changed \notin Counted \cup LengthBytes

\* A frame that was cut short is not taken for a shorter packet, unless nothing
\* but the header is left: the length to expect is then the -1 that stands for
\* any length, and the payload is read from behind the buffer.
CutNoticed == Accepted /\ cut # 0 => Len(wire) = HeaderBytes
=============================================================================
