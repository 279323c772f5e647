------------------------------- MODULE Sender -------------------------------
(***************************************************************************)
(* controller/sender.c and the loop of controller/sender_interface.c that  *)
(* drives it: a handshake, then one call of sender_send_and_ack per slice  *)
(* of the data.  An action is one pass through the loop of                 *)
(* sender_send_and_ack, from the return of cc1200_get_packet to the next   *)
(* call of it; what a pass changes in between is seen by nobody else.      *)
(***************************************************************************)
EXTENDS Driver

VARIABLES
    spc,            \* "idle" between two calls of sender_send_and_ack, "wait"
                    \* in its loop, "spin" when minstrel_update does not return
    acked,          \* ghost: calls of sender_send_and_ack that returned, which is
                    \* the number of the slice in transfer (0: handshake)
    next_ack,       \* sender->next_ack
    pkt,            \* the packet built last
    minstrel,       \* sender->minstrel
    s_token_sender, \* sender->token_sender
    s_token_receiver    \* sender->token_receiver, 0 until the first ACK

senderVars == <<spc, acked, next_ack, pkt, minstrel, s_token_sender, s_token_receiver>>

SenderTypeOK ==
    /\ spc \in {"idle", "wait", "spin"}
    /\ acked \in 0 .. NumSlices + 1
    /\ spc # "idle" => acked <= NumSlices
    /\ next_ack \in Id
    /\ pkt \in Packet
    /\ minstrel \in Minstrel
    /\ s_token_sender \in Token
    /\ s_token_receiver \in Token

\* sender_init stores the token before it replaces a 0 in the local variable
SenderInit ==
    /\ spc = "idle"
    /\ acked = 0
    /\ next_ack = 1
    /\ pkt = Blank
    /\ minstrel = Zeroed
    /\ s_token_sender \in Tokens
    /\ s_token_receiver = 0

isHandshake == acked = 0

\* With Minstrel in state m
sender_build_pkt(m) ==
    [ id |-> next_ack, ack |-> 0, slice |-> acked,
      next_symbol_rate |-> minstrel_get_next_rate(m),
      next_second_best_rate |-> m.r[SECOND_BEST_RATE],
      next_highest_pro_rate |-> m.r[HIGHEST_PROB_RATE],
      fallback_rate |-> m.r[FALLBACK_RATE],
      token_send |-> s_token_sender, token_recv |-> s_token_receiver,
      intact |-> TRUE ]

\* Build the packet and send it: sender_send sets next_ack to its id
BuildAndSend(m, r, rest) ==
    LET p == sender_build_pkt(m)
    IN  /\ pkt' = p
        /\ Send("sender", p, r, rest)
        /\ UNCHANGED next_ack

\* minstrel_update is skipped for the handshake
Update(ok) ==
    IF isHandshake
    THEN {minstrel}
    ELSE minstrel_update(minstrel, ok, pkt.id)
-----------------------------------------------------------------------------
\* The next call of sender_send_and_ack: the handshake of sender_init or the
\* next slice of sender_interface_send_data
StartSend ==
    /\ spc = "idle" /\ acked <= NumSlices
    /\ spc' = "wait"
    /\ BuildAndSend(minstrel, rate["sender"], Leftover("sender"))
    /\ rx' = rx \cup {"sender"}
    /\ UNCHANGED <<rate, acked, minstrel, s_token_sender, s_token_receiver>>

\* Mutant: the ACK number is not compared
Expected_AnyNumber(a) == a.intact

\* sender_rcv_ack returns packet_status_ok for a
Expected(a) == a.intact /\ a.ack = next_ack

\* Mutant: the number stays, so the next packet has the same id
AckAfterOk_Same == next_ack

AckAfterOk == Inc(next_ack)

\* Mutant: the announced rate is not adopted
RateAfterOk_Keep == rate

\* The handshake leaves the rate alone
RateAfterOk ==
    IF isHandshake THEN rate ELSE change_rate("sender", pkt.next_symbol_rate)

\* The expected ACK: report it, then adopt the rate the packet has announced
AckOk ==
    /\ spc = "wait"
    /\ \E a \in air["sender"] : Expected(a) /\ s_token_receiver' = a.token_recv
    /\ next_ack' = AckAfterOk
    /\ minstrel' \in Update(TRUE)
    /\ Take("sender")
    /\ rx' = rx \ {"sender"}
    /\ IF minstrel'.spinning
       THEN spc' = "spin" /\ UNCHANGED <<rate, acked>>
       ELSE spc' = "idle" /\ acked' = acked + 1 /\ rate' = RateAfterOk
    /\ UNCHANGED <<pkt, s_token_sender, debugVars>>

\* An intact packet with another ACK number: build and send the slice again
AckWrong ==
    /\ spc = "wait"
    /\ \E a \in air["sender"] : a.intact /\ ~Expected(a)
    /\ minstrel' \in Update(FALSE)
    /\ BuildAndSend(minstrel', rate["sender"], {})
    /\ UNCHANGED <<spc, acked, rate, rx, s_token_sender, s_token_receiver>>

\* A packet of the wrong length or checksum: neither sent again nor is the
\* timer restarted, the loop just goes on receiving
AckGarbled ==
    /\ spc = "wait"
    /\ \E a \in air["sender"] : ~a.intact
    /\ minstrel' \in Update(FALSE)
    /\ Take("sender")
    /\ UNCHANGED <<spc, acked, next_ack, pkt, rate, rx,
                   s_token_sender, s_token_receiver, debugVars>>

\* Mutant: nothing is sent again
AckTimeout_NoResend ==
    /\ spc = "wait"
    /\ minstrel' \in Update(FALSE)
    /\ air' = [air EXCEPT !["sender"] = Leftover("sender")]
    /\ UNCHANGED <<spc, acked, next_ack, pkt, rate, rx,
                   s_token_sender, s_token_receiver, debugVars>>

\* Mutant: the slice is given up after a timeout
AckTimeout_GiveUp ==
    /\ spc = "wait" /\ spc' = "idle"
    /\ minstrel' \in Update(FALSE)
    /\ next_ack' = Inc(next_ack)
    /\ acked' = acked + 1
    /\ air' = [air EXCEPT !["sender"] = Leftover("sender")]
    /\ rx' = rx \ {"sender"}
    /\ UNCHANGED <<pkt, rate, s_token_sender, s_token_receiver, debugVars>>

\* No ACK in time: perhaps change the rate, then build and send again
AckTimeout ==
    /\ spc = "wait"
    /\ minstrel' \in Update(FALSE)
    /\ rate' = IF minstrel'.is_new_rate /\ ~isHandshake
               THEN change_rate("sender", minstrel_get_next_rate(minstrel'))
               ELSE rate
    /\ BuildAndSend(minstrel', rate'["sender"], Leftover("sender"))
    /\ UNCHANGED <<spc, acked, rx, s_token_sender, s_token_receiver>>

SenderStep == StartSend \/ AckOk \/ AckWrong \/ AckGarbled
=============================================================================
