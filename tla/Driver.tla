------------------------------- MODULE Driver -------------------------------
(***************************************************************************)
(* What lies between sender and receiver, as the two programs see it       *)
(* through cc1200_send_packet, cc1200_get_packet and cc1200_change_rate.   *)
(*                                                                         *)
(* Two builds exist.  With BUILD_LOCAL_ONLY the file cc1200_mockup.c is    *)
(* linked: one shared buffer per direction, overwritten by every send,     *)
(* kept until it is read, and debug flags that swallow or corrupt the next *)
(* send.  Otherwise it is cc1200_rate.c: the RX FIFO of a real radio,      *)
(* which hears a frame only while it is in RX mode on the rate of the      *)
(* transmitter, is flushed by a timeout, and may always hear nothing or    *)
(* something garbled.                                                      *)
(***************************************************************************)
EXTENDS Minstrel

CONSTANTS
    BUILD_LOCAL_ONLY,   \* the CMake option: TRUE links cc1200_mockup.c
    IdMod,              \* ids and ACK numbers are uint32_t: 2^32 in the code
    Tokens,             \* the values of rand() % UINT16_MAX
    NumSlices,          \* packets the application hands over (bound)
    MaxDebugCalls       \* calls of the cc1200_debug functions (bound)

ASSUME DriverAssumption ==
    /\ BUILD_LOCAL_ONLY \in BOOLEAN
    /\ IdMod \in Nat /\ IdMod >= 2
    /\ Tokens \subseteq Nat /\ Tokens # {}
    /\ NumSlices \in Nat
    /\ MaxDebugCalls \in Nat

Node == {"sender", "receiver"}
Peer(n) == IF n = "sender" THEN "receiver" ELSE "sender"

Id == 0 .. IdMod - 1
Inc_Wide(x) == x + 1                             \* mutant: a wider integer
Inc(x) == IF x = IdMod - 1 THEN 0 ELSE x + 1     \* uint32_t ++

Token == Tokens \cup {0, 1}

(***************************************************************************)
(* packet_t.  The payload is the ghost number of the slice it carries (0   *)
(* for the empty payload of a handshake); an ACK carries the number of the *)
(* slice it answers.  `intact' says that packet_deserialize accepts the    *)
(* length and that the checksum agrees.                                    *)
(***************************************************************************)
Packet ==
    [ id : Id, ack : Id, slice : 0 .. NumSlices,
      next_symbol_rate : Rate, next_second_best_rate : Rate,
      next_highest_pro_rate : Rate, fallback_rate : Rate,
      token_send : Token, token_recv : Token, intact : BOOLEAN ]

\* A packet pointer before the first packet
Blank ==
    [ id |-> 0, ack |-> 0, slice |-> 0,
      next_symbol_rate |-> 0, next_second_best_rate |-> 0,
      next_highest_pro_rate |-> 0, fallback_rate |-> 0,
      token_send |-> 0, token_recv |-> 0, intact |-> TRUE ]

VARIABLES
    rate,           \* rate[n]: symbol rate the radio of n is set to
    rx,             \* the nodes whose radio is in RX mode (in cc1200_get_packet)
    air,            \* air[n]: the at most one frame waiting for n to read it
    ignore_next,    \* mockup: ignore_next_write flag of the buffer read by n
    corrupt_next,   \* mockup: corrupt_next_checksum flag of that buffer
    debug_calls     \* mockup: how often a test has set one of the flags

driverVars == <<rate, rx, air, ignore_next, corrupt_next, debug_calls>>
debugVars == <<ignore_next, corrupt_next, debug_calls>>

DriverTypeOK ==
    /\ rate \in [Node -> Rate]
    /\ rx \subseteq Node
    /\ air \in [Node -> SUBSET Packet]
    /\ ignore_next \in [Node -> BOOLEAN]
    /\ corrupt_next \in [Node -> BOOLEAN]
    /\ debug_calls \in 0 .. MaxDebugCalls

\* Both programs select rate 0 before they start; only the receiver listens
DriverInit ==
    /\ rate = [n \in Node |-> 0]
    /\ rx = {"receiver"}
    /\ air = [n \in Node |-> {}]
    /\ ignore_next = [n \in Node |-> FALSE]
    /\ corrupt_next = [n \in Node |-> FALSE]
    /\ debug_calls = 0
-----------------------------------------------------------------------------
Garbled(p) == [p EXCEPT !.intact = FALSE]

\* What waits for node n after p was written to its shared buffer
WrittenTo(n, p) ==
    IF ignore_next[n] THEN air[n]
    ELSE IF corrupt_next[n] THEN {Garbled(p)} ELSE {p}

\* What may wait for node n after p was transmitted at rate r
HeardBy(n, p, r) ==
    IF n \in rx /\ rate[n] = r /\ air[n] = {}
    THEN {{}, {p}, {Garbled(p)}}
    ELSE {air[n]}

Arrivals(n, p, r) ==
    IF BUILD_LOCAL_ONLY THEN {WrittenTo(n, p)} ELSE HeardBy(n, p, r)

\* Mutant: no flush on timeout
Leftover_NoFlush(n) == air[n]

\* What is left for n itself when it stops reading without having read: the
\* shared buffer keeps its content, the RX FIFO is flushed
Leftover(n) == IF BUILD_LOCAL_ONLY THEN air[n] ELSE {}

\* cc1200_send_packet by node n with its radio at rate r, leaving `rest' in its
\* own buffer; it reports success whatever happens to the frame
Send(n, p, r, rest) ==
    LET to == Peer(n)
    IN  /\ \E x \in Arrivals(to, p, r) :
               air' = [air EXCEPT ![to] = x, ![n] = rest]
        /\ IF BUILD_LOCAL_ONLY
           THEN /\ ignore_next' = [ignore_next EXCEPT ![to] = FALSE]
                /\ corrupt_next' = [corrupt_next EXCEPT
                                       ![to] = @ /\ ignore_next[to]]
           ELSE UNCHANGED <<ignore_next, corrupt_next>>
        /\ UNCHANGED debug_calls

\* cc1200_change_rate, which does nothing in the mockup
change_rate(n, r) ==
    IF BUILD_LOCAL_ONLY THEN rate ELSE [rate EXCEPT ![n] = r]

\* cc1200_get_packet takes the waiting frame away
Take(n) == air' = [air EXCEPT ![n] = {}]

cc1200_debug_block_next_write(n) ==
    /\ BUILD_LOCAL_ONLY /\ debug_calls < MaxDebugCalls
    /\ debug_calls' = debug_calls + 1
    /\ ignore_next' = [ignore_next EXCEPT ![n] = TRUE]
    /\ UNCHANGED <<rate, rx, air, corrupt_next>>

cc1200_debug_corrupt_next_checksum(n) ==
    /\ BUILD_LOCAL_ONLY /\ debug_calls < MaxDebugCalls
    /\ debug_calls' = debug_calls + 1
    /\ corrupt_next' = [corrupt_next EXCEPT ![n] = TRUE]
    /\ UNCHANGED <<rate, rx, air, ignore_next>>
=============================================================================
