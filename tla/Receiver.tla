------------------------------ MODULE Receiver ------------------------------
(***************************************************************************)
(* controller/receiver.c and the loop around it (main_receiver.c, and the  *)
(* same loop in the tests).  receiver_receive_and_ack is cut where another *)
(* process can tell: after the packet has been taken from the driver, after *)
(* the ACK has been sent, and after the rate has been changed, when the    *)
(* payload is returned and the next call starts to listen.                 *)
(***************************************************************************)
EXTENDS Driver

CONSTANT
    RCV_MAX_TIMEOUTS    \* failures before each step of the fallback (4)

ASSUME ReceiverAssumption == RCV_MAX_TIMEOUTS \in Nat /\ RCV_MAX_TIMEOUTS >= 1

VARIABLES
    rpc,            \* "init" in the loop of receiver_init, "initack" before its
                    \* receiver_ack; "listen", "ack", "adapt" in
                    \* receiver_receive_and_ack
    rpkt,           \* the packet accepted last
    last_ack_rcv,   \* receiver->last_ack_rcv
    last,           \* receiver->last_symbol_rate, last_second_best_rate, ...
    timeout_counter,    \* receiver->timeout_counter
    r_token_receiver,   \* receiver->token_receiver
    r_token_sender,     \* receiver->token_sender
    delivered       \* ghost: slice returned to the caller last, 0 before

receiverVars == <<rpc, rpkt, last_ack_rcv, last, timeout_counter,
                  r_token_receiver, r_token_sender, delivered>>

\* receiver_receive_and_ack compares the counter with nothing larger than
\* 3 * RCV_MAX_TIMEOUTS: one value stands for all that exceed it
TimeoutCap == 3 * RCV_MAX_TIMEOUTS + 1

LastRates ==
    [ symbol_rate : Rate, second_best_rate : Rate,
      highest_prob_rate : Rate, fallback_rate : Rate ]

ReceiverTypeOK ==
    /\ rpc \in {"init", "initack", "listen", "ack", "adapt"}
    /\ rpkt \in Packet
    /\ last_ack_rcv \in Id
    /\ last \in LastRates
    /\ timeout_counter \in 0 .. TimeoutCap
    /\ r_token_receiver \in Token
    /\ r_token_sender \in Token
    /\ delivered \in 0 .. NumSlices

ReceiverInit ==
    /\ rpc = "init"
    /\ rpkt = Blank
    /\ last_ack_rcv = 0
    /\ last = [ symbol_rate |-> 0, second_best_rate |-> 0,
                highest_prob_rate |-> 0, fallback_rate |-> 0 ]
    /\ timeout_counter = 0
    /\ \E t \in Tokens : r_token_receiver = IF t = 0 THEN 1 ELSE t
    /\ r_token_sender = 0
    /\ delivered = 0
-----------------------------------------------------------------------------
(* receiver_receive *)

Listening == rpc \in {"init", "listen"}

\* An intact packet is accepted whatever its id and its tokens are, and its
\* announced rate is noted but not yet set
Accept ==
    /\ Listening
    /\ \E p \in air["receiver"] :
          /\ p.intact
          /\ rpkt' = p
          /\ last_ack_rcv' = p.id
          /\ last' = [last EXCEPT !.symbol_rate = p.next_symbol_rate]
    /\ Take("receiver")
    /\ rx' = rx \ {"receiver"}
    /\ rpc' = IF rpc = "init" THEN "initack" ELSE "ack"
    /\ UNCHANGED <<rate, debugVars, timeout_counter, r_token_receiver,
                   r_token_sender, delivered>>

\* Mutant: the last step, to the fallback rate, is missing
CountFailure_TwoSteps ==
    LET n == timeout_counter + 1
        Tune(r) == rate' = change_rate("receiver", r)
    IN  /\ timeout_counter' = IF n < TimeoutCap THEN n ELSE TimeoutCap
        /\ \/ n = RCV_MAX_TIMEOUTS /\ Tune(last.second_best_rate)
           \/ n = 2 * RCV_MAX_TIMEOUTS /\ Tune(last.highest_prob_rate)
           \/ /\ n \notin {k * RCV_MAX_TIMEOUTS : k \in 1 .. 2}
              /\ UNCHANGED rate

\* timeout_counter++, and at 4, 8 and 12 one more rate is tried
CountFailure ==
    LET n == timeout_counter + 1
        Tune(r) == rate' = change_rate("receiver", r)
    IN  /\ timeout_counter' = IF n < TimeoutCap THEN n ELSE TimeoutCap
        /\ \/ n = RCV_MAX_TIMEOUTS /\ Tune(last.second_best_rate)
           \/ n = 2 * RCV_MAX_TIMEOUTS /\ Tune(last.highest_prob_rate)
           \/ n = 3 * RCV_MAX_TIMEOUTS /\ Tune(last.fallback_rate)
           \/ /\ n \notin {k * RCV_MAX_TIMEOUTS : k \in 1 .. 3}
              /\ UNCHANGED rate

\* receiver_init repeats receiver_receive without counting
NothingAccepted ==
    /\ Listening
    /\ IF rpc = "init" THEN UNCHANGED <<timeout_counter, rate>> ELSE CountFailure
    /\ UNCHANGED <<rpc, rpkt, last_ack_rcv, last, r_token_receiver,
                   r_token_sender, delivered, rx, debugVars>>

\* A packet of the wrong length or checksum is dropped
RcvGarbled ==
    /\ \E p \in air["receiver"] : ~p.intact
    /\ Take("receiver")
    /\ NothingAccepted

\* No packet in time
RcvTimeout ==
    /\ air' = [air EXCEPT !["receiver"] = Leftover("receiver")]
    /\ NothingAccepted

(* receiver_ack and what follows it *)

\* Mutant: the ACK names the packet expected next
AckPacket_Next ==
    [Blank EXCEPT !.id = last_ack_rcv, !.ack = Inc(last_ack_rcv),
                  !.slice = rpkt.slice,
                  !.token_recv = r_token_receiver,
                  !.token_send = IF rpc = "initack" THEN rpkt.token_send
                                 ELSE r_token_sender]

AckPacket ==
    [Blank EXCEPT !.id = last_ack_rcv, !.ack = last_ack_rcv,
                  !.slice = rpkt.slice,
                  !.token_recv = r_token_receiver,
                  !.token_send = IF rpc = "initack" THEN rpkt.token_send
                                 ELSE r_token_sender]

\* The end of receiver_init; the caller then calls receiver_receive_and_ack
InitAck ==
    /\ rpc = "initack"
    /\ r_token_sender' = rpkt.token_send
    /\ Send("receiver", AckPacket, rate["receiver"], Leftover("receiver"))
    /\ rx' = rx \cup {"receiver"}
    /\ rpc' = "listen"
    /\ UNCHANGED <<rate, rpkt, last_ack_rcv, last, timeout_counter,
                   r_token_receiver, delivered>>

SendAck ==
    /\ rpc = "ack"
    /\ timeout_counter' = 0
    /\ Send("receiver", AckPacket, rate["receiver"], Leftover("receiver"))
    /\ rpc' = "adapt"
    /\ UNCHANGED <<rate, rx, rpkt, last_ack_rcv, last, r_token_receiver,
                   r_token_sender, delivered>>

\* Adopt the announced rate, keep the others for the fallback, return the
\* payload; the caller listens again
Adapt ==
    /\ rpc = "adapt"
    /\ rate' = change_rate("receiver", rpkt.next_symbol_rate)
    /\ last' = [ symbol_rate |-> rpkt.next_symbol_rate,
                 second_best_rate |-> rpkt.next_second_best_rate,
                 highest_prob_rate |-> rpkt.next_highest_pro_rate,
                 fallback_rate |-> rpkt.fallback_rate ]
    /\ delivered' = rpkt.slice
    /\ rx' = rx \cup {"receiver"}
    /\ rpc' = "listen"
    /\ UNCHANGED <<air, debugVars, rpkt, last_ack_rcv, timeout_counter,
                   r_token_receiver, r_token_sender>>

ReceiverStep == Accept \/ RcvGarbled \/ InitAck \/ SendAck \/ Adapt
=============================================================================
