--------------------------- MODULE Session_proofs ---------------------------
(***************************************************************************)
(* The session for every number of slices, ids, rates and tokens, over     *)
(* either driver: types, the window invariant, the ACK comparison and the  *)
(* refinement of StopAndWait.  Over a radio, the two sides also take       *)
(* turns, so no acknowledgement is stale; and, when no timer fires early,  *)
(* both are on one rate after an acknowledgement.                          *)
(***************************************************************************)
EXTENDS Session, Minstrel_proofs

\* uint32_t ++ stays in range, is injective and never gives the id back.
LEMMA IncFacts ==
    /\ \A x \in Id : Inc(x) \in Id /\ Inc(x) # x
    /\ \A x, y \in Id : Inc(x) = Inc(y) => x = y
BY DriverAssumption DEF Id, Inc

LEMMA BlankType == Blank \in Packet
BY DriverAssumption, MinstrelAssumption DEF Blank, Packet, Id, Rate, Token

LEMMA PeerType == \A n \in Node : Peer(n) \in Node /\ Peer(n) # n
BY DEF Node, Peer

\* Corruption leaves a packet a packet and its numbers what they are.
LEMMA GarbledFacts ==
    ASSUME NEW p \in Packet
    PROVE  /\ Garbled(p) \in Packet
           /\ Garbled(p).id = p.id /\ Garbled(p).ack = p.ack
           /\ Garbled(p).slice = p.slice
BY DEF Garbled, Packet

\* Sending puts at most the packet itself, garbled or not, before the peer
\* (cc1200_send_packet in both builds).
LEMMA SendEffect ==
    ASSUME DriverTypeOK, NEW n \in Node, NEW p \in Packet, NEW r \in Rate,
           NEW rest \in SUBSET Packet, Send(n, p, r, rest)
    PROVE  /\ air' \in [Node -> SUBSET Packet]
           /\ air'[n] = rest
           /\ \A x \in air'[Peer(n)] : x \in air[Peer(n)] \/ x = p \/ x = Garbled(p)
           /\ ignore_next' \in [Node -> BOOLEAN]
           /\ corrupt_next' \in [Node -> BOOLEAN]
           /\ debug_calls' \in 0 .. MaxDebugCalls
<1> DEFINE to == Peer(n)
<1>1. to \in Node /\ to # n
  BY PeerType
<1>2. PICK x \in Arrivals(to, p, r) : air' = [air EXCEPT ![to] = x, ![n] = rest]
  BY DEF Send
<1>3. air \in [Node -> SUBSET Packet]
  BY DEF DriverTypeOK
<1>4. x \in {air[to], {}, {p}, {Garbled(p)}}
  BY <1>2 DEF Arrivals, WrittenTo, HeardBy
<1>5. x \in SUBSET Packet
  BY <1>1, <1>3, <1>4, GarbledFacts
<1>6. air'[to] = x /\ air'[n] = rest /\ air' \in [Node -> SUBSET Packet]
  BY <1>1, <1>2, <1>3, <1>5
<1>7. \A y \in air'[to] : y \in air[to] \/ y = p \/ y = Garbled(p)
  BY <1>4, <1>6
<1>8. ignore_next' \in [Node -> BOOLEAN] /\ corrupt_next' \in [Node -> BOOLEAN]
  BY <1>1 DEF Send, DriverTypeOK
<1>9. debug_calls' \in 0 .. MaxDebugCalls
  BY DEF Send, DriverTypeOK
<1> QED BY <1>6, <1>7, <1>8, <1>9

\* What stays in the own buffer was there before.
LEMMA LeftoverFacts ==
    ASSUME DriverTypeOK, NEW n \in Node
    PROVE  Leftover(n) \in SUBSET Packet /\ Leftover(n) \subseteq air[n]
BY DEF Leftover, DriverTypeOK

LEMMA ChangeRateType ==
    ASSUME DriverTypeOK, NEW n \in Node, NEW r \in Rate
    PROVE  change_rate(n, r) \in [Node -> Rate]
BY DEF change_rate, DriverTypeOK

\* The packets of sender_build_pkt and receiver_ack are packets.
LEMMA BuildType ==
    ASSUME SenderTypeOK, NEW m \in Minstrel, acked <= NumSlices
    PROVE  sender_build_pkt(m) \in Packet
<1>1. minstrel_get_next_rate(m) \in Rate
  BY NextRateType
<1>2. /\ m.r[SECOND_BEST_RATE] \in Rate /\ m.r[HIGHEST_PROB_RATE] \in Rate
      /\ m.r[FALLBACK_RATE] \in Rate
  BY DEF Minstrel, RateState, SECOND_BEST_RATE, HIGHEST_PROB_RATE, FALLBACK_RATE
<1>3. 0 \in Id /\ next_ack \in Id /\ acked \in 0 .. NumSlices
  BY DriverAssumption DEF SenderTypeOK, Id
<1>4. s_token_sender \in Token /\ s_token_receiver \in Token
  BY DEF SenderTypeOK
<1> QED BY <1>1, <1>2, <1>3, <1>4 DEF sender_build_pkt, Packet

LEMMA AckPacketType ==
    ASSUME ReceiverTypeOK
    PROVE  AckPacket \in Packet
<1>1. /\ rpkt \in Packet /\ last_ack_rcv \in Id
      /\ r_token_receiver \in Token /\ r_token_sender \in Token
  BY DEF ReceiverTypeOK
<1>2. rpkt.slice \in 0 .. NumSlices /\ rpkt.token_send \in Token
  BY <1>1 DEF Packet
<1>3. (IF rpc = "initack" THEN rpkt.token_send ELSE r_token_sender) \in Token
  BY <1>1, <1>2
<1> QED BY <1>1, <1>2, <1>3, BlankType DEF AckPacket, Packet

\* Reporting an exchange keeps the Minstrel struct typed.
LEMMA UpdateKeepsType ==
    ASSUME SenderTypeOK, NEW ok \in BOOLEAN, minstrel' \in Update(ok)
    PROVE  minstrel' \in Minstrel
<1>1. minstrel \in Minstrel /\ pkt.id \in Nat
  BY DriverAssumption DEF SenderTypeOK, Packet, Id
<1> QED BY <1>1, UpdateType DEF Update
-----------------------------------------------------------------------------
(* Type correctness, action by action *)

LEMMA TypeInit == Init => TypeOK
<1> SUFFICES ASSUME Init PROVE TypeOK
  OBVIOUS
<1>1. DriverTypeOK
  BY MinstrelAssumption, DriverAssumption
     DEF Init, DriverInit, DriverTypeOK, Node, Rate
<1>2. SenderTypeOK
  BY ZeroedType, BlankType, DriverAssumption
     DEF Init, SenderInit, SenderTypeOK, Id, Token
<1>3. ReceiverTypeOK
  BY BlankType, MinstrelAssumption, DriverAssumption, ReceiverAssumption
     DEF Init, ReceiverInit, ReceiverTypeOK, Id, Token, LastRates, Rate, TimeoutCap
<1> QED BY <1>1, <1>2, <1>3 DEF TypeOK

\* Each step of the sender keeps the types of what it touches.
LEMMA TypeSender ==
    ASSUME TypeOK, SenderStep \/ AckTimeout
    PROVE  SenderTypeOK' /\ DriverTypeOK'
<1> USE DEF TypeOK
<1>0. "sender" \in Node /\ "receiver" \in Node /\ rate["sender"] \in Rate
  BY DEF DriverTypeOK, Node
<1>1. CASE StartSend
  <2> DEFINE p == sender_build_pkt(minstrel)
  <2>1. p \in Packet
    BY <1>1, BuildType DEF StartSend, SenderTypeOK
  <2>2. Send("sender", p, rate["sender"], Leftover("sender")) /\ pkt' = p
    BY <1>1 DEF StartSend, BuildAndSend
  <2> HIDE DEF p
  <2>3. /\ air' \in [Node -> SUBSET Packet]
        /\ ignore_next' \in [Node -> BOOLEAN] /\ corrupt_next' \in [Node -> BOOLEAN]
        /\ debug_calls' \in 0 .. MaxDebugCalls
    BY <1>0, <2>1, <2>2, SendEffect, LeftoverFacts
  <2>4. SenderTypeOK'
    BY <1>1, <2>1, <2>2 DEF StartSend, BuildAndSend, SenderTypeOK
  <2>5. rate' \in [Node -> Rate] /\ rx' \subseteq Node
    BY <1>0, <1>1 DEF StartSend, DriverTypeOK
  <2> QED BY <2>3, <2>4, <2>5 DEF DriverTypeOK
<1>2. CASE AckOk
  <2>1. minstrel' \in Minstrel
    BY <1>2, UpdateKeepsType DEF AckOk
  <2>2. s_token_receiver' \in Token
    BY <1>0, <1>2 DEF AckOk, Expected, DriverTypeOK, Packet
  <2>3. next_ack' \in Id
    BY <1>2, IncFacts DEF AckOk, AckAfterOk, SenderTypeOK
  <2>4. /\ spc' \in {"idle", "spin"} /\ acked' \in 0 .. NumSlices + 1
        /\ spc' # "idle" => acked' <= NumSlices
    BY <1>2, DriverAssumption DEF AckOk, SenderTypeOK
  <2>5. SenderTypeOK'
    BY <1>2, <2>1, <2>2, <2>3, <2>4 DEF AckOk, SenderTypeOK
  <2>6. rate' \in [Node -> Rate]
    <3>1. pkt.next_symbol_rate \in Rate
      BY DEF SenderTypeOK, Packet
    <3>2. change_rate("sender", pkt.next_symbol_rate) \in [Node -> Rate]
      BY <1>0, <3>1, ChangeRateType
    <3>3. rate' = rate \/ rate' = change_rate("sender", pkt.next_symbol_rate)
      BY <1>2 DEF AckOk, RateAfterOk
    <3> QED BY <3>2, <3>3 DEF DriverTypeOK
  <2>7. air' \in [Node -> SUBSET Packet]
    BY <1>2 DEF AckOk, Take, DriverTypeOK
  <2> QED BY <1>2, <2>5, <2>6, <2>7 DEF AckOk, DriverTypeOK, debugVars
<1>3. CASE AckWrong
  <2> DEFINE p == sender_build_pkt(minstrel')
  <2>1. minstrel' \in Minstrel
    BY <1>3, UpdateKeepsType DEF AckWrong
  <2>2. p \in Packet
    BY <1>3, <2>1, BuildType DEF AckWrong, SenderTypeOK
  <2>3. Send("sender", p, rate["sender"], {}) /\ pkt' = p
    BY <1>3 DEF AckWrong, BuildAndSend
  <2> HIDE DEF p
  <2>4. /\ air' \in [Node -> SUBSET Packet]
        /\ ignore_next' \in [Node -> BOOLEAN] /\ corrupt_next' \in [Node -> BOOLEAN]
        /\ debug_calls' \in 0 .. MaxDebugCalls
    BY <1>0, <2>2, <2>3, SendEffect
  <2>5. SenderTypeOK'
    BY <1>3, <2>1, <2>2, <2>3 DEF AckWrong, BuildAndSend, SenderTypeOK
  <2> QED BY <1>3, <2>4, <2>5 DEF AckWrong, DriverTypeOK
<1>4. CASE AckGarbled
  <2>1. minstrel' \in Minstrel
    BY <1>4, UpdateKeepsType DEF AckGarbled
  <2>2. air' \in [Node -> SUBSET Packet]
    BY <1>4 DEF AckGarbled, Take, DriverTypeOK
  <2>3. SenderTypeOK'
    BY <1>4, <2>1 DEF AckGarbled, SenderTypeOK
  <2> QED BY <1>4, <2>2, <2>3 DEF AckGarbled, DriverTypeOK, debugVars
<1>5. CASE AckTimeout
  <2> DEFINE p == sender_build_pkt(minstrel')
  <2>1. minstrel' \in Minstrel
    BY <1>5, UpdateKeepsType DEF AckTimeout
  <2>2. p \in Packet
    BY <1>5, <2>1, BuildType DEF AckTimeout, SenderTypeOK
  <2>3. rate' \in [Node -> Rate]
    <3>1. minstrel_get_next_rate(minstrel') \in Rate
      BY <2>1, NextRateType
    <3>2. change_rate("sender", minstrel_get_next_rate(minstrel')) \in [Node -> Rate]
      BY <1>0, <3>1, ChangeRateType
    <3> QED BY <1>5, <3>2 DEF AckTimeout, DriverTypeOK
  <2>4. Send("sender", p, rate'["sender"], Leftover("sender")) /\ pkt' = p
    BY <1>5 DEF AckTimeout, BuildAndSend
  <2> HIDE DEF p
  <2>5. /\ air' \in [Node -> SUBSET Packet]
        /\ ignore_next' \in [Node -> BOOLEAN] /\ corrupt_next' \in [Node -> BOOLEAN]
        /\ debug_calls' \in 0 .. MaxDebugCalls
    BY <1>0, <2>2, <2>3, <2>4, SendEffect, LeftoverFacts
  <2>6. SenderTypeOK'
    BY <1>5, <2>1, <2>2, <2>4 DEF AckTimeout, BuildAndSend, SenderTypeOK
  <2> QED BY <1>5, <2>3, <2>5, <2>6 DEF AckTimeout, DriverTypeOK
<1> QED BY <1>1, <1>2, <1>3, <1>4, <1>5 DEF SenderStep

\* Each step of the receiver keeps the types of what it touches.
LEMMA TypeReceiver ==
    ASSUME TypeOK, ReceiverStep \/ RcvTimeout
    PROVE  ReceiverTypeOK' /\ DriverTypeOK'
<1> USE DEF TypeOK
<1>0. /\ "sender" \in Node /\ "receiver" \in Node
      /\ rate["receiver"] \in Rate /\ air["receiver"] \subseteq Packet
  BY DEF DriverTypeOK, Node
<1>1. CASE Accept
  <2>1. PICK p \in air["receiver"] :
           /\ rpkt' = p /\ last_ack_rcv' = p.id
           /\ last' = [last EXCEPT !.symbol_rate = p.next_symbol_rate]
    BY <1>1 DEF Accept
  <2>2. p \in Packet /\ p.id \in Id /\ p.next_symbol_rate \in Rate
    BY <1>0, <2>1 DEF Packet
  <2>3. last' \in LastRates
    BY <2>1, <2>2 DEF ReceiverTypeOK, LastRates
  <2>4. ReceiverTypeOK'
    BY <1>1, <2>1, <2>2, <2>3 DEF Accept, ReceiverTypeOK
  <2> QED BY <1>1, <2>4 DEF Accept, Take, DriverTypeOK, debugVars
<1>2. CASE NothingAccepted /\ air' \in [Node -> SUBSET Packet]
  <2>1. /\ timeout_counter' \in 0 .. TimeoutCap
        /\ rate' \in [Node -> Rate]
    <3>1. CASE rpc = "init"
      BY <1>2, <3>1 DEF NothingAccepted, ReceiverTypeOK, DriverTypeOK
    <3>2. CASE rpc # "init"
      <4>1. CountFailure
        BY <1>2, <3>2 DEF NothingAccepted
      <4>2. timeout_counter' \in 0 .. TimeoutCap
        BY <4>1, ReceiverAssumption DEF CountFailure, ReceiverTypeOK, TimeoutCap
      <4>3. \A r \in Rate : change_rate("receiver", r) \in [Node -> Rate]
        BY <1>0, ChangeRateType
      <4>4. /\ last.second_best_rate \in Rate
            /\ last.highest_prob_rate \in Rate
            /\ last.fallback_rate \in Rate
        BY DEF ReceiverTypeOK, LastRates
      <4>5. rate' \in [Node -> Rate]
        BY <4>1, <4>3, <4>4 DEF CountFailure, DriverTypeOK
      <4> QED BY <4>2, <4>5
    <3> QED BY <3>1, <3>2
  <2>2. ReceiverTypeOK'
    BY <1>2, <2>1 DEF NothingAccepted, ReceiverTypeOK
  <2> QED BY <1>2, <2>1, <2>2 DEF NothingAccepted, DriverTypeOK, debugVars
<1>3. CASE RcvGarbled
  <2>1. air' \in [Node -> SUBSET Packet]
    BY <1>3 DEF RcvGarbled, Take, DriverTypeOK
  <2> QED BY <1>2, <1>3, <2>1 DEF RcvGarbled
<1>4. CASE RcvTimeout
  <2>1. air' \in [Node -> SUBSET Packet]
    BY <1>0, <1>4, LeftoverFacts DEF RcvTimeout, DriverTypeOK
  <2> QED BY <1>2, <1>4, <2>1 DEF RcvTimeout
<1>5. CASE InitAck \/ SendAck
  <2>1. Send("receiver", AckPacket, rate["receiver"], Leftover("receiver"))
    BY <1>5 DEF InitAck, SendAck
  <2>2. /\ air' \in [Node -> SUBSET Packet]
        /\ ignore_next' \in [Node -> BOOLEAN] /\ corrupt_next' \in [Node -> BOOLEAN]
        /\ debug_calls' \in 0 .. MaxDebugCalls
    BY <1>0, <2>1, SendEffect, LeftoverFacts, AckPacketType
  <2>3. rate' = rate /\ rx' \subseteq Node
    BY <1>0, <1>5 DEF InitAck, SendAck, DriverTypeOK
  <2>4. ReceiverTypeOK'
    BY <1>5, ReceiverAssumption
       DEF InitAck, SendAck, ReceiverTypeOK, Packet, TimeoutCap
  <2> QED BY <2>2, <2>3, <2>4 DEF DriverTypeOK
<1>6. CASE Adapt
  <2>1. /\ rpkt.next_symbol_rate \in Rate /\ rpkt.next_second_best_rate \in Rate
        /\ rpkt.next_highest_pro_rate \in Rate /\ rpkt.fallback_rate \in Rate
        /\ rpkt.slice \in 0 .. NumSlices
    BY DEF ReceiverTypeOK, Packet
  <2>2. rate' \in [Node -> Rate]
    BY <1>0, <1>6, <2>1, ChangeRateType DEF Adapt
  <2>3. last' \in LastRates
    BY <1>6, <2>1 DEF Adapt, LastRates
  <2>4. ReceiverTypeOK'
    BY <1>6, <2>1, <2>3 DEF Adapt, ReceiverTypeOK
  <2> QED BY <1>0, <1>6, <2>2, <2>4 DEF Adapt, DriverTypeOK, debugVars
<1> QED BY <1>1, <1>3, <1>4, <1>5, <1>6 DEF ReceiverStep

\* A call of a debug function touches the flags only.
LEMMA TypeDebugging ==
    ASSUME TypeOK, Debugging
    PROVE  DriverTypeOK'
<1>1. debug_calls' \in 0 .. MaxDebugCalls
  BY DriverAssumption DEF TypeOK, DriverTypeOK, Debugging,
     cc1200_debug_block_next_write, cc1200_debug_corrupt_next_checksum
<1> QED BY <1>1 DEF TypeOK, DriverTypeOK, Debugging,
     cc1200_debug_block_next_write, cc1200_debug_corrupt_next_checksum

\* A step of one side leaves the other side's variables, and their types, alone.
LEMMA TypeStep == TypeOK /\ [Next]_vars => TypeOK'
<1> SUFFICES ASSUME TypeOK, [Next]_vars PROVE TypeOK'
  OBVIOUS
<1>1. CASE Sending \/ SenderTimeout
  <2>1. SenderTypeOK' /\ DriverTypeOK'
    BY <1>1, TypeSender DEF Sending, SenderTimeout
  <2>2. UNCHANGED receiverVars
    BY <1>1 DEF Sending, SenderTimeout
  <2>3. ReceiverTypeOK'
    BY <2>2 DEF TypeOK, ReceiverTypeOK, receiverVars
  <2> QED BY <2>1, <2>3 DEF TypeOK
<1>2. CASE Receiving \/ ReceiverTimeout
  <2>1. ReceiverTypeOK' /\ DriverTypeOK'
    BY <1>2, TypeReceiver DEF Receiving, ReceiverTimeout
  <2>2. UNCHANGED senderVars
    BY <1>2 DEF Receiving, ReceiverTimeout
  <2>3. SenderTypeOK'
    BY <2>2 DEF TypeOK, SenderTypeOK, senderVars
  <2> QED BY <2>1, <2>3 DEF TypeOK
<1>3. CASE Debugging
  <2>1. DriverTypeOK'
    BY <1>3, TypeDebugging
  <2>2. SenderTypeOK' /\ ReceiverTypeOK'
    BY <1>3 DEF Debugging, TypeOK, SenderTypeOK, senderVars, ReceiverTypeOK, receiverVars
  <2> QED BY <2>1, <2>2 DEF TypeOK
<1>4. CASE UNCHANGED vars
  BY <1>4 DEF vars, driverVars, senderVars, receiverVars, TypeOK,
     DriverTypeOK, SenderTypeOK, ReceiverTypeOK
<1> QED BY <1>1, <1>2, <1>3, <1>4 DEF Next

\* The session is well typed for all values of its constants, in both builds.
THEOREM TypeCorrect == Spec => []TypeOK
BY TypeInit, TypeStep, PTL DEF Spec
-----------------------------------------------------------------------------
(* The window invariant *)

LEMMA WindowInit == Init => Window
BY DEF Init, DriverInit, SenderInit, ReceiverInit, Window, SenderWindow,
   Connecting, ReceiverWindow, AirWindow, Node

\* The numbers that the arguments below add and compare
LEMMA WindowTypes ==
    ASSUME TypeOK
    PROVE  /\ pkt.id \in Id /\ pkt.slice \in Nat /\ pkt \in Packet
           /\ rpkt.id \in Id /\ rpkt.slice \in Nat
           /\ next_ack \in Id /\ acked \in Nat /\ delivered \in Nat
           /\ \A n \in Node : \A p \in air[n] :
                 p \in Packet /\ p.id \in Id /\ p.ack \in Id /\ p.slice \in Nat
           /\ "sender" \in Node /\ "receiver" \in Node
           /\ Peer("sender") = "receiver" /\ Peer("receiver") = "sender"
           /\ rate["sender"] \in Rate /\ rate["receiver"] \in Rate
<1>1. \A p \in Packet : p.id \in Id /\ p.ack \in Id /\ p.slice \in Nat
  BY DriverAssumption DEF Packet
<1>2. \A n \in Node : air[n] \subseteq Packet
  BY DEF TypeOK, DriverTypeOK
<1>3. /\ "sender" \in Node /\ "receiver" \in Node
      /\ Peer("sender") = "receiver" /\ Peer("receiver") = "sender"
  BY DEF Node, Peer
<1> QED BY <1>1, <1>2, <1>3, DriverAssumption
        DEF TypeOK, DriverTypeOK, SenderTypeOK, ReceiverTypeOK

\* In a window the packet number decides the slice and the slice the number.
LEMMA PairedFacts ==
    ASSUME TypeOK, NEW n \in Id, NEW s \in Nat, Paired(n, s)
    PROVE  /\ s <= pkt.slice /\ s + 1 >= pkt.slice
           /\ n = pkt.id <=> s = pkt.slice
<1>1. pkt.id \in Id /\ pkt.slice \in Nat
  BY WindowTypes
<1> QED BY <1>1, IncFacts DEF Paired

\* The next transfer: everything in the air and at the receiver belongs to the
\* one just acknowledged, or there is nothing yet.
LEMMA WindowStartSend ==
    ASSUME TypeOK, Window, StartSend, UNCHANGED receiverVars
    PROVE  Window'
<1> DEFINE p == sender_build_pkt(minstrel)
<1> USE WindowTypes
<1>1. /\ p \in Packet /\ p.id = next_ack /\ p.slice = acked
      /\ Garbled(p).id = p.id /\ Garbled(p).slice = p.slice
  <2>1. p \in Packet
    BY BuildType DEF StartSend, TypeOK, SenderTypeOK
  <2> QED BY <2>1, GarbledFacts DEF sender_build_pkt
<1>2. Send("sender", p, rate["sender"], Leftover("sender")) /\ pkt' = p /\ next_ack' = next_ack
  BY DEF StartSend, BuildAndSend
<1> HIDE DEF p
<1>3. /\ air'["sender"] \subseteq air["sender"]
      /\ \A x \in air'["receiver"] : x \in air["receiver"] \/ x = p \/ x = Garbled(p)
  BY <1>1, <1>2, SendEffect, LeftoverFacts DEF TypeOK
<1>4. spc = "idle" /\ spc' = "wait" /\ acked' = acked
  BY DEF StartSend
<1>5. /\ rpc' = rpc /\ rpkt' = rpkt /\ last_ack_rcv' = last_ack_rcv
      /\ delivered' = delivered
  BY DEF receiverVars
<1>6. SenderWindow'
  BY <1>1, <1>2, <1>4 DEF SenderWindow
<1>7. CASE acked = 0
  <2>1. rpc = "init" /\ air["receiver"] = {} /\ air["sender"] = {} /\ delivered = 0
    BY <1>4, <1>7 DEF Window, Connecting
  <2>2. Connecting' /\ ReceiverWindow'
    BY <1>3, <1>4, <1>5, <1>7, <2>1 DEF Connecting, ReceiverWindow
  <2>3. AirWindow'
    BY <1>1, <1>2, <1>3, <1>5, <2>1 DEF AirWindow, Paired
  <2> QED BY <1>6, <2>2, <2>3 DEF Window
<1>8. CASE acked > 0
  <2>1. /\ pkt.slice + 1 = acked /\ next_ack = Inc(pkt.id)
        /\ rpc \notin {"init", "initack"}
        /\ Paired(rpkt.id, rpkt.slice) /\ rpkt.slice = pkt.slice
        /\ last_ack_rcv = rpkt.id
        /\ rpc = "listen" => rpkt.slice = delivered
        /\ rpc \in {"ack", "adapt"} => rpkt.slice \in {delivered, delivered + 1}
    BY <1>4, <1>8 DEF Window, SenderWindow, Connecting, ReceiverWindow
  <2>2. \A n \in Id, s \in Nat : n = pkt.id /\ s = pkt.slice => Paired(n, s)'
    BY <1>1, <1>2, <2>1 DEF Paired
  <2>3. rpkt.id = pkt.id
    BY <2>1, PairedFacts
  <2>4. Connecting' /\ ReceiverWindow'
    BY <1>4, <1>5, <2>1, <2>2, <2>3 DEF Connecting, ReceiverWindow
  <2>5. \A x \in air["receiver"] : x.slice = pkt.slice /\ x.id = pkt.id
    <3> SUFFICES ASSUME NEW x \in air["receiver"]
                 PROVE  x.slice = pkt.slice /\ x.id = pkt.id
      OBVIOUS
    <3>1. Paired(x.id, x.slice) /\ x.slice >= pkt.slice /\ x.id \in Id /\ x.slice \in Nat
      BY <2>1 DEF Window, AirWindow
    <3> QED BY <3>1, PairedFacts
  <2>6. \A a \in air["sender"] : a.slice = pkt.slice /\ a.ack = pkt.id
    <3> SUFFICES ASSUME NEW a \in air["sender"]
                 PROVE  a.slice = pkt.slice /\ a.ack = pkt.id
      OBVIOUS
    <3>1. Paired(a.ack, a.slice) /\ a.slice = pkt.slice /\ a.ack \in Id /\ a.slice \in Nat
      BY <1>4 DEF Window, AirWindow
    <3> QED BY <3>1, PairedFacts
  <2>7. \A x \in air'["receiver"] : Paired(x.id, x.slice)' /\ x.slice >= rpkt'.slice
    <3> SUFFICES ASSUME NEW x \in air'["receiver"]
                 PROVE  Paired(x.id, x.slice)' /\ x.slice >= rpkt'.slice
      OBVIOUS
    <3>1. CASE x \in air["receiver"]
      BY <1>5, <2>1, <2>2, <2>5, <3>1
    <3>2. CASE x = p \/ x = Garbled(p)
      BY <1>1, <1>2, <1>5, <2>1, <3>2 DEF Paired
    <3> QED BY <1>3, <3>1, <3>2
  <2>8. \A a \in air'["sender"] : Paired(a.ack, a.slice)' /\ a.slice <= rpkt'.slice
    BY <1>3, <1>5, <2>1, <2>2, <2>6
  <2>9. AirWindow'
    BY <1>4, <2>7, <2>8 DEF AirWindow
  <2> QED BY <1>6, <2>4, <2>9 DEF Window
<1> QED BY <1>7, <1>8

\* Sending the slice in transfer again changes no number.
LEMMA WindowResend ==
    ASSUME TypeOK, Window, spc = "wait", UNCHANGED <<spc, acked, next_ack, receiverVars>>,
           NEW p \in Packet, p.id = next_ack, p.slice = acked, pkt' = p,
           air'["sender"] \subseteq air["sender"],
           \A x \in air'["receiver"] : x \in air["receiver"] \/ x = p \/ x = Garbled(p)
    PROVE  Window'
<1> USE WindowTypes
<1>1. pkt.slice = acked /\ next_ack = pkt.id
  BY DEF Window, SenderWindow
<1>2. \A n, s : Paired(n, s)' <=> Paired(n, s)
  BY <1>1 DEF Paired
<1>3. /\ rpc' = rpc /\ rpkt' = rpkt /\ last_ack_rcv' = last_ack_rcv
      /\ delivered' = delivered
  BY DEF receiverVars
<1>4. SenderWindow' /\ Connecting' /\ ReceiverWindow'
  BY <1>1, <1>2, <1>3 DEF Window, SenderWindow, Connecting, ReceiverWindow
<1>5. \A x \in air'["receiver"] :
         Paired(x.id, x.slice)' /\ (rpc' # "init" => x.slice >= rpkt'.slice)
  <2> SUFFICES ASSUME NEW x \in air'["receiver"]
               PROVE  Paired(x.id, x.slice)' /\ (rpc' # "init" => x.slice >= rpkt'.slice)
    OBVIOUS
  <2>1. CASE x \in air["receiver"]
    BY <1>2, <1>3, <2>1 DEF Window, AirWindow
  <2>2. CASE x = p \/ x = Garbled(p)
    <3>1. x.id = pkt.id /\ x.slice = pkt.slice
      BY <1>1, <2>2, GarbledFacts
    <3>2. rpc # "init" => rpkt.slice <= pkt.slice
      BY PairedFacts DEF Window, ReceiverWindow
    <3> QED BY <1>2, <1>3, <3>1, <3>2 DEF Paired
  <2> QED BY <2>1, <2>2
<1>6. AirWindow'
  BY <1>2, <1>3, <1>5 DEF Window, AirWindow
<1> QED BY <1>4, <1>6 DEF Window

\* The ACK that is accepted answers the slice in transfer, of which the receiver
\* therefore has a copy.
LEMMA WindowAckOk ==
    ASSUME TypeOK, Window, AckOk
    PROVE  /\ rpc \notin {"init", "initack"}
           /\ rpkt.slice = acked /\ pkt.slice = acked
<1> USE WindowTypes
<1>1. PICK a \in air["sender"] : a.ack = next_ack
  BY DEF AckOk, Expected
<1>2. pkt.slice = acked /\ next_ack = pkt.id
  BY DEF AckOk, Window, SenderWindow
<1>3. rpc \notin {"init", "initack"}
  BY <1>1 DEF Window, Connecting
<1>4. Paired(a.ack, a.slice) /\ a.slice <= rpkt.slice
  BY DEF Window, AirWindow
<1>5. a.slice = pkt.slice
  BY <1>1, <1>2, <1>4, PairedFacts
<1>6. rpkt.slice <= pkt.slice
  BY <1>3, PairedFacts DEF Window, ReceiverWindow
<1> QED BY <1>2, <1>3, <1>4, <1>5, <1>6

LEMMA WindowSender ==
    ASSUME TypeOK, Window, TypeOK', SenderStep \/ AckTimeout, UNCHANGED receiverVars
    PROVE  Window'
<1> USE WindowTypes
<1>1. CASE StartSend
  BY <1>1, WindowStartSend
<1>2. CASE AckOk
  <2>1. /\ rpc \notin {"init", "initack"}
        /\ rpkt.slice = acked /\ pkt.slice = acked
    BY <1>2, WindowAckOk
  <2>2. /\ air'["sender"] = {} /\ air'["receiver"] = air["receiver"]
        /\ pkt' = pkt /\ next_ack' = Inc(next_ack) /\ next_ack = pkt.id
        /\ \/ spc' = "spin" /\ acked' = acked
           \/ spc' = "idle" /\ acked' = acked + 1
    BY <1>2 DEF AckOk, AckAfterOk, Take, TypeOK, DriverTypeOK, Window, SenderWindow
  <2>3. /\ rpc' = rpc /\ rpkt' = rpkt /\ last_ack_rcv' = last_ack_rcv
        /\ delivered' = delivered
    BY DEF receiverVars
  <2>4. \A n, s : Paired(n, s)' <=> Paired(n, s)
    BY <2>2 DEF Paired
  <2>5. SenderWindow'
    BY <2>1, <2>2 DEF SenderWindow
  <2>6. Connecting' /\ ReceiverWindow' /\ AirWindow'
    BY <2>1, <2>2, <2>3, <2>4 DEF Window, Connecting, ReceiverWindow, AirWindow
  <2> QED BY <2>5, <2>6 DEF Window
<1>3. CASE AckWrong \/ AckTimeout
  <2> DEFINE p == sender_build_pkt(minstrel')
  <2>1. /\ spc = "wait" /\ UNCHANGED <<spc, acked, next_ack>>
        /\ pkt' = p /\ p.id = next_ack /\ p.slice = acked
    BY <1>3 DEF AckWrong, AckTimeout, BuildAndSend, sender_build_pkt
  <2>2. p \in Packet
    BY <2>1 DEF TypeOK, SenderTypeOK
  <2>3. \E r \in Rate, rest \in SUBSET air["sender"] : Send("sender", p, r, rest)
    <3>1. CASE AckWrong
      BY <3>1 DEF AckWrong, BuildAndSend
    <3>2. CASE AckTimeout
      <4>1. rate'["sender"] \in Rate
        BY DEF TypeOK, DriverTypeOK
      <4>2. Leftover("sender") \subseteq air["sender"]
        BY LeftoverFacts DEF TypeOK
      <4> QED BY <3>2, <4>1, <4>2 DEF AckTimeout, BuildAndSend
    <3> QED BY <1>3, <3>1, <3>2
  <2> HIDE DEF p
  <2>4. /\ air'["sender"] \subseteq air["sender"]
        /\ \A x \in air'["receiver"] : x \in air["receiver"] \/ x = p \/ x = Garbled(p)
    <3>1. PICK r \in Rate, rest \in SUBSET air["sender"] : Send("sender", p, r, rest)
      BY <2>3
    <3>2. rest \in SUBSET Packet /\ DriverTypeOK
      BY DEF TypeOK, DriverTypeOK
    <3> QED BY <2>2, <3>1, <3>2, SendEffect
  <2> QED BY <2>1, <2>2, <2>4, WindowResend
<1>4. CASE AckGarbled
  <2>1. /\ air'["sender"] = {} /\ air'["receiver"] = air["receiver"]
        /\ UNCHANGED <<spc, acked, next_ack, pkt>>
    BY <1>4 DEF AckGarbled, Take, TypeOK, DriverTypeOK
  <2>2. /\ rpc' = rpc /\ rpkt' = rpkt /\ last_ack_rcv' = last_ack_rcv
        /\ delivered' = delivered
    BY DEF receiverVars
  <2>3. \A n, s : Paired(n, s)' <=> Paired(n, s)
    BY <2>1 DEF Paired
  <2> QED BY <2>1, <2>2, <2>3
      DEF Window, SenderWindow, Connecting, ReceiverWindow, AirWindow
<1> QED BY <1>1, <1>2, <1>3, <1>4 DEF SenderStep

\* Taking the frame that waits, or dropping it, takes nothing else back.
LEMMA WindowAccept ==
    ASSUME TypeOK, Window, Accept, UNCHANGED senderVars
    PROVE  /\ Window'
           /\ rpc = "init" => spc = "wait" /\ rpkt'.slice = 0
           /\ rpc = "listen" => rpkt'.slice \in {rpkt.slice, rpkt.slice + 1}
<1> USE WindowTypes
<1>1. PICK p \in air["receiver"] : rpkt' = p /\ last_ack_rcv' = p.id
  BY DEF Accept
<1>2. /\ spc' = spc /\ acked' = acked /\ next_ack' = next_ack /\ pkt' = pkt
      /\ delivered' = delivered
  BY DEF Accept, senderVars
<1>3. air'["receiver"] = {} /\ air'["sender"] = air["sender"]
  BY DEF Accept, Take, TypeOK, DriverTypeOK
<1>4. \A n, s : Paired(n, s)' <=> Paired(n, s)
  BY <1>2 DEF Paired
<1>5. /\ p.id \in Id /\ p.slice \in Nat /\ Paired(p.id, p.slice)
      /\ rpc # "init" => p.slice >= rpkt.slice
  BY DEF Window, AirWindow
<1>6. p.slice <= pkt.slice /\ p.slice + 1 >= pkt.slice
  BY <1>5, PairedFacts
<1>7. SenderWindow'
  BY <1>2 DEF Window, SenderWindow
<1>8. CASE rpc = "init"
  <2>1. /\ acked = 0 /\ delivered = 0 /\ spc = "wait" /\ air["sender"] = {}
        /\ pkt.slice = 0 /\ rpc' = "initack"
    BY <1>8 DEF Window, Connecting, SenderWindow, Accept
  <2>2. p.slice = 0
    BY <1>5, <1>6, <2>1
  <2>3. Connecting' /\ ReceiverWindow' /\ AirWindow'
    BY <1>1, <1>2, <1>3, <1>4, <1>5, <2>1 DEF Connecting, ReceiverWindow, AirWindow
  <2> QED BY <1>1, <1>7, <1>8, <2>1, <2>2, <2>3 DEF Window
<1>9. CASE rpc = "listen"
  <2>1. rpc' = "ack" /\ rpkt.slice = delivered /\ Paired(rpkt.id, rpkt.slice)
    BY <1>9 DEF Accept, Window, ReceiverWindow
  <2>2. rpkt.slice <= pkt.slice /\ rpkt.slice + 1 >= pkt.slice
    BY <2>1, PairedFacts
  <2>3. p.slice \in {rpkt.slice, rpkt.slice + 1}
    BY <1>5, <1>6, <1>9, <2>2
  <2>4. spc # "wait" => p.slice = pkt.slice
    BY <1>5, <1>6, <1>9, <2>2 DEF Window, ReceiverWindow
  <2>5. Connecting'
    BY <1>2, <1>9, <2>1 DEF Window, Connecting
  <2>6. ReceiverWindow'
    BY <1>1, <1>2, <1>4, <1>5, <2>1, <2>3, <2>4 DEF ReceiverWindow
  <2>7. AirWindow'
    BY <1>1, <1>2, <1>3, <1>4, <1>5, <1>9 DEF Window, AirWindow
  <2> QED BY <1>1, <1>7, <1>9, <2>3, <2>5, <2>6, <2>7 DEF Window
<1> QED BY <1>8, <1>9 DEF Accept, Listening

\* A step of the receiver that accepts nothing and sends nothing leaves every
\* number alone, and the air no fuller.
LEMMA WindowReceiverIdle ==
    ASSUME TypeOK, Window, UNCHANGED senderVars,
           UNCHANGED <<rpc, rpkt, last_ack_rcv, delivered>>,
           \A n \in Node : air'[n] \subseteq air[n]
    PROVE  Window'
<1> USE WindowTypes
<1>1. spc' = spc /\ acked' = acked /\ next_ack' = next_ack /\ pkt' = pkt
  BY DEF senderVars
<1>2. \A n, s : Paired(n, s)' <=> Paired(n, s)
  BY <1>1 DEF Paired
<1>3. SenderWindow' /\ Connecting' /\ ReceiverWindow'
  BY <1>1, <1>2 DEF Window, SenderWindow, Connecting, ReceiverWindow
<1>4. AirWindow'
  BY <1>1, <1>2 DEF Window, AirWindow
<1> QED BY <1>3, <1>4 DEF Window

\* An ACK carries the numbers of the packet it answers.
LEMMA WindowAck ==
    ASSUME TypeOK, Window, InitAck \/ SendAck, UNCHANGED senderVars
    PROVE  Window'
<1> DEFINE a == AckPacket
<1> USE WindowTypes
<1>1. spc' = spc /\ acked' = acked /\ next_ack' = next_ack /\ pkt' = pkt
  BY DEF senderVars
<1>2. \A n, s : Paired(n, s)' <=> Paired(n, s)
  BY <1>1 DEF Paired
<1>3. /\ Send("receiver", a, rate["receiver"], Leftover("receiver"))
      /\ rpc \in {"initack", "ack"} /\ rpc' # "init" /\ rpc' # "initack"
      /\ rpkt' = rpkt /\ last_ack_rcv' = last_ack_rcv /\ delivered' = delivered
  BY DEF InitAck, SendAck
<1>4. last_ack_rcv = rpkt.id /\ Paired(rpkt.id, rpkt.slice)
  BY <1>3 DEF Window, ReceiverWindow
<1>5. /\ a \in Packet /\ a.ack = rpkt.id /\ a.slice = rpkt.slice
      /\ Garbled(a).ack = a.ack /\ Garbled(a).slice = a.slice
  <2>1. a \in Packet
    BY AckPacketType DEF TypeOK
  <2>2. a.ack = last_ack_rcv /\ a.slice = rpkt.slice
    BY DEF AckPacket, Blank
  <2> QED BY <1>4, <2>1, <2>2, GarbledFacts
<1> HIDE DEF a
<1>6. /\ air'["receiver"] \subseteq air["receiver"]
      /\ \A x \in air'["sender"] : x \in air["sender"] \/ x = a \/ x = Garbled(a)
  BY <1>3, <1>5, SendEffect, LeftoverFacts DEF TypeOK
<1>7. SenderWindow'
  BY <1>1 DEF Window, SenderWindow
<1>8. Connecting'
  BY <1>1, <1>3 DEF Window, Connecting
<1>9. ReceiverWindow'
  <2>1. CASE InitAck
    <3>1. rpc' = "listen" /\ rpc = "initack" /\ acked = 0 /\ delivered = 0
      BY <2>1 DEF InitAck, Window, Connecting
    <3>2. spc = "wait" /\ pkt.slice = 0
      BY <3>1 DEF Window, Connecting, SenderWindow
    <3>3. rpkt.slice = 0
      BY <1>4, <3>2, PairedFacts
    <3> QED BY <1>1, <1>2, <1>3, <1>4, <3>1, <3>2, <3>3 DEF ReceiverWindow
  <2>2. CASE SendAck
    BY <1>1, <1>2, <1>3, <2>2 DEF SendAck, Window, ReceiverWindow
  <2> QED BY <2>1, <2>2
<1>10. spc = "idle" => rpkt.slice = pkt.slice
  BY <1>3 DEF Window, ReceiverWindow
<1>11. AirWindow'
  <2>1. \A x \in air'["receiver"] :
           Paired(x.id, x.slice)' /\ (rpc' # "init" => x.slice >= rpkt'.slice)
    BY <1>2, <1>3, <1>6 DEF Window, AirWindow
  <2>2. \A x \in air'["sender"] :
           /\ Paired(x.ack, x.slice)' /\ x.slice <= rpkt'.slice
           /\ spc' = "idle" => x.slice = pkt'.slice
    <3> SUFFICES ASSUME NEW x \in air'["sender"]
                 PROVE  /\ Paired(x.ack, x.slice)' /\ x.slice <= rpkt'.slice
                        /\ spc' = "idle" => x.slice = pkt'.slice
      OBVIOUS
    <3>1. CASE x \in air["sender"]
      BY <1>1, <1>2, <1>3, <3>1 DEF Window, AirWindow
    <3>2. CASE x = a \/ x = Garbled(a)
      BY <1>1, <1>2, <1>3, <1>4, <1>5, <1>10, <3>2
    <3> QED BY <1>6, <3>1, <3>2
  <2> QED BY <2>1, <2>2 DEF AirWindow
<1> QED BY <1>7, <1>8, <1>9, <1>11 DEF Window

LEMMA WindowReceiver ==
    ASSUME TypeOK, Window, ReceiverStep \/ RcvTimeout, UNCHANGED senderVars
    PROVE  Window'
<1> USE WindowTypes
<1>1. CASE Accept
  BY <1>1, WindowAccept
<1>2. CASE RcvGarbled
  <2>1. UNCHANGED <<rpc, rpkt, last_ack_rcv, delivered>>
    BY <1>2 DEF RcvGarbled, NothingAccepted
  <2>2. \A n \in Node : air'[n] \subseteq air[n]
    BY <1>2 DEF RcvGarbled, Take, TypeOK, DriverTypeOK
  <2> QED BY <2>1, <2>2, WindowReceiverIdle
<1>3. CASE RcvTimeout
  <2>1. UNCHANGED <<rpc, rpkt, last_ack_rcv, delivered>>
    BY <1>3 DEF RcvTimeout, NothingAccepted
  <2>2. \A n \in Node : air'[n] \subseteq air[n]
    BY <1>3, LeftoverFacts DEF RcvTimeout, TypeOK, DriverTypeOK
  <2> QED BY <2>1, <2>2, WindowReceiverIdle
<1>4. CASE InitAck \/ SendAck
  BY <1>4, WindowAck
<1>5. CASE Adapt
  <2>1. /\ rpc = "adapt" /\ rpc' = "listen" /\ delivered' = rpkt.slice
        /\ rpkt' = rpkt /\ last_ack_rcv' = last_ack_rcv /\ air' = air
    BY <1>5 DEF Adapt
  <2>2. spc' = spc /\ acked' = acked /\ next_ack' = next_ack /\ pkt' = pkt
    BY DEF senderVars
  <2>3. \A n, s : Paired(n, s)' <=> Paired(n, s)
    BY <2>2 DEF Paired
  <2> QED BY <2>1, <2>2, <2>3
      DEF Window, SenderWindow, Connecting, ReceiverWindow, AirWindow
<1> QED BY <1>1, <1>2, <1>3, <1>4, <1>5 DEF ReceiverStep

LEMMA WindowStep == TypeOK /\ Window /\ TypeOK' /\ [Next]_vars => Window'
<1> SUFFICES ASSUME TypeOK, Window, TypeOK', [Next]_vars PROVE Window'
  OBVIOUS
<1>1. CASE Sending \/ SenderTimeout
  BY <1>1, WindowSender DEF Sending, SenderTimeout
<1>2. CASE Receiving \/ ReceiverTimeout
  BY <1>2, WindowReceiver DEF Receiving, ReceiverTimeout
<1>3. CASE Debugging \/ UNCHANGED vars
  <2>1. air' = air /\ UNCHANGED <<senderVars, receiverVars>>
    BY <1>3 DEF Debugging, cc1200_debug_block_next_write,
       cc1200_debug_corrupt_next_checksum, vars, driverVars
  <2>2. UNCHANGED <<rpc, rpkt, last_ack_rcv, delivered>>
    BY <2>1 DEF receiverVars
  <2> QED BY <2>1, <2>2, WindowReceiverIdle
<1> QED BY <1>1, <1>2, <1>3 DEF Next

\* Whatever the medium loses, keeps, overwrites or corrupts and whichever build
\* is used, no frame and neither side is more than one transfer behind.
THEOREM WindowHolds == Spec => []Window
<1>1. Init => TypeOK /\ Window
  BY TypeInit, WindowInit
<1>2. TypeOK /\ Window /\ [Next]_vars => (TypeOK /\ Window)'
  BY TypeStep, WindowStep
<1> QED BY <1>1, <1>2, PTL DEF Spec

\* The comparison of sender_rcv_ack separates the ACKs of the slice in transfer
\* from all others for every size of the id counter from two upwards.
THEOREM AckComparisonCorrect == Spec => []AckNumbersSuffice
<1>1. TypeOK /\ Window => AckNumbersSuffice
  <2> SUFFICES ASSUME TypeOK, Window, spc = "wait", NEW a \in air["sender"]
               PROVE  (a.ack = next_ack) <=> (a.slice = acked)
    BY DEF AckNumbersSuffice
  <2>1. a.ack \in Id /\ a.slice \in Nat
    BY WindowTypes
  <2>2. Paired(a.ack, a.slice) /\ pkt.slice = acked /\ next_ack = pkt.id
    BY DEF Window, AirWindow, SenderWindow
  <2> QED BY <2>1, <2>2, PairedFacts
<1> QED BY <1>1, TypeCorrect, WindowHolds, PTL
-----------------------------------------------------------------------------
(* The refinement *)

AbstractVars == <<sent, received, acked, delivered>>

LEMMA RefineInit == Init => Abstract!Init
BY DEF Init, SenderInit, ReceiverInit, Abstract!Init, sent, received

LEMMA RefineSender ==
    ASSUME TypeOK, Window, SenderStep \/ AckTimeout, UNCHANGED receiverVars
    PROVE  [Abstract!Next]_AbstractVars
<1> USE WindowTypes
<1>1. received' = received /\ delivered' = delivered
  BY DEF receiverVars, received
<1>2. CASE StartSend
  <2>1. Abstract!Start
    BY <1>1, <1>2 DEF StartSend, Abstract!Start, sent
  <2> QED BY <2>1 DEF Abstract!Next
<1>3. CASE AckOk
  <2>1. received = acked + 1 /\ spc = "wait"
    BY <1>3, WindowAckOk DEF received, AckOk
  <2>2. CASE minstrel'.spinning
    <3>1. sent' = sent /\ acked' = acked
      BY <1>3, <2>2 DEF AckOk, sent
    <3> QED BY <1>1, <3>1 DEF AbstractVars
  <2>3. CASE ~minstrel'.spinning
    <3>1. sent' = sent /\ acked' = acked + 1 /\ sent = acked + 1
      BY <1>3, <2>3 DEF AckOk, sent
    <3>2. Abstract!Acknowledge
      BY <1>1, <2>1, <3>1 DEF Abstract!Acknowledge
    <3> QED BY <3>2 DEF Abstract!Next
  <2> QED BY <2>2, <2>3
<1>4. CASE AckWrong \/ AckGarbled \/ AckTimeout
  <2>1. sent' = sent /\ acked' = acked
    BY <1>4 DEF AckWrong, AckGarbled, AckTimeout, sent
  <2> QED BY <1>1, <2>1 DEF AbstractVars
<1> QED BY <1>2, <1>3, <1>4 DEF SenderStep

LEMMA RefineReceiver ==
    ASSUME TypeOK, Window, ReceiverStep \/ RcvTimeout, UNCHANGED senderVars
    PROVE  [Abstract!Next]_AbstractVars
<1> USE WindowTypes
<1>1. sent' = sent /\ acked' = acked
  BY DEF senderVars, sent
<1>2. CASE Accept
  <2>1. /\ rpc = "init" => spc = "wait" /\ rpkt'.slice = 0
        /\ rpc = "listen" => rpkt'.slice \in {rpkt.slice, rpkt.slice + 1}
    BY <1>2, WindowAccept
  <2>2. delivered' = delivered /\ rpc' # "init" /\ rpc \in {"init", "listen"}
    BY <1>2 DEF Accept, Listening
  <2>3. CASE rpc = "init"
    <3>1. received = 0 /\ received' = 1 /\ delivered = 0 /\ sent = 1
      BY <2>1, <2>2, <2>3 DEF received, sent, Window, Connecting
    <3>2. Abstract!Arrive
      BY <1>1, <2>2, <3>1 DEF Abstract!Arrive
    <3> QED BY <3>2 DEF Abstract!Next
  <2>4. CASE rpc = "listen" /\ rpkt'.slice = rpkt.slice
    <3>1. received' = received
      BY <2>2, <2>4 DEF received
    <3> QED BY <1>1, <2>2, <3>1 DEF AbstractVars
  <2>5. CASE rpc = "listen" /\ rpkt'.slice = rpkt.slice + 1
    <3>1. rpkt.slice = delivered
      BY <2>5 DEF Window, ReceiverWindow
    <3>2. received = delivered + 1 /\ received' = received + 1
      BY <2>2, <2>5, <3>1 DEF received
    <3>3. received < sent
      <4>1. rpkt'.slice <= pkt.slice
        <5>1. PICK p \in air["receiver"] : rpkt' = p
          BY <1>2 DEF Accept
        <5>2. Paired(p.id, p.slice)
          BY DEF Window, AirWindow
        <5> QED BY <5>1, <5>2, PairedFacts
      <4>2. spc = "wait" => sent = pkt.slice + 1
        BY DEF Window, SenderWindow, sent
      <4>3. spc = "idle" => rpkt.slice = pkt.slice
        BY <2>5 DEF Window, ReceiverWindow
      <4>4. spc = "spin" => rpkt.slice = pkt.slice
        BY <2>5 DEF Window, ReceiverWindow
      <4>5. spc \in {"idle", "wait", "spin"}
        BY DEF TypeOK, SenderTypeOK
      <4> QED BY <2>2, <2>5, <3>2, <4>1, <4>2, <4>3, <4>4, <4>5 DEF received
    <3>4. Abstract!Arrive
      BY <1>1, <2>2, <3>2, <3>3 DEF Abstract!Arrive
    <3> QED BY <3>4 DEF Abstract!Next
  <2> QED BY <2>1, <2>2, <2>3, <2>4, <2>5
<1>3. CASE RcvGarbled \/ RcvTimeout \/ InitAck \/ SendAck
  <2>1. received' = received /\ delivered' = delivered
    BY <1>3 DEF RcvGarbled, RcvTimeout, NothingAccepted, InitAck, SendAck, received
  <2> QED BY <1>1, <2>1 DEF AbstractVars
<1>4. CASE Adapt
  <2>1. /\ received' = received /\ received = rpkt.slice + 1
        /\ delivered' = rpkt.slice
        /\ rpkt.slice \in {delivered, delivered + 1}
    BY <1>4 DEF Adapt, received, Window, ReceiverWindow
  <2>2. CASE rpkt.slice = delivered
    BY <1>1, <2>1, <2>2 DEF AbstractVars
  <2>3. CASE rpkt.slice = delivered + 1
    <3>1. Abstract!Deliver
      BY <1>1, <2>1, <2>3 DEF Abstract!Deliver
    <3> QED BY <3>1 DEF Abstract!Next
  <2> QED BY <2>1, <2>2, <2>3
<1> QED BY <1>2, <1>3, <1>4 DEF ReceiverStep

LEMMA RefineStep == TypeOK /\ Window /\ [Next]_vars => [Abstract!Next]_AbstractVars
<1> SUFFICES ASSUME TypeOK, Window, [Next]_vars PROVE [Abstract!Next]_AbstractVars
  OBVIOUS
<1>1. CASE Sending \/ SenderTimeout
  BY <1>1, RefineSender DEF Sending, SenderTimeout
<1>2. CASE Receiving \/ ReceiverTimeout
  BY <1>2, RefineReceiver DEF Receiving, ReceiverTimeout
<1>3. CASE Debugging \/ UNCHANGED vars
  BY <1>3 DEF Debugging, vars, senderVars, receiverVars, AbstractVars, sent, received
<1> QED BY <1>1, <1>2, <1>3 DEF Next

\* sender.c, receiver.c and either driver together are a stop-and-wait transfer:
\* in order, without gaps, each slice at least once, acknowledged only after it
\* has been received.
THEOREM Refinement == Spec => ImplementsStopAndWait
<1>1. TypeOK /\ Window /\ [Next]_vars => [Abstract!Next]_(Abstract!vars)
  BY RefineStep DEF AbstractVars, Abstract!vars
<1> QED BY <1>1, RefineInit, TypeCorrect, WindowHolds, PTL
        DEF Spec, ImplementsStopAndWait, Abstract!Spec
-----------------------------------------------------------------------------
(* Over a radio                                                            *)

\* The turns: a frame waits for one side only, and while it does the other one
\* is not about to transmit; whatever is under way carries the number of the
\* packet built last.
Turns ==
    /\ air["sender"] = {} \/ air["receiver"] = {}
    /\ air["sender"] # {} => spc = "wait" /\ rpc \in {"listen", "adapt"}
    /\ spc # "wait" => air["receiver"] = {} /\ rpc \in {"init", "listen", "adapt"}
    /\ rpc \in {"initack", "ack"} => rpkt.id = pkt.id
    /\ \A p \in air["receiver"] : p.id = pkt.id
    /\ \A a \in air["sender"] : a.ack = pkt.id

RadioTurns == ~BUILD_LOCAL_ONLY => Turns

\* Rates that a packet of the handshake announces
Slowest(p) ==
    /\ p.next_symbol_rate = 0 /\ p.next_second_best_rate = 0
    /\ p.next_highest_pro_rate = 0 /\ p.fallback_rate = 0

\* Until the handshake is acknowledged nobody has heard of a rate but 0
HandshakeSlow ==
    acked = 0 =>
        /\ minstrel = Zeroed
        /\ rate["sender"] = 0 /\ rate["receiver"] = 0
        /\ Slowest(pkt) /\ Slowest(rpkt)
        /\ \A p \in air["receiver"] : Slowest(p)
        /\ last = [ symbol_rate |-> 0, second_best_rate |-> 0,
                    highest_prob_rate |-> 0, fallback_rate |-> 0 ]

\* The sender has an answer to the packet built last, or soon will
Answered == spc = "idle" \/ air["sender"] # {}

\* A prompt receiver holds and answers the very packet that was built last, and
\* from the answer on until it gives up, it is or goes where that packet says.
Together ==
    /\ \A p \in air["receiver"] : p.intact => p = pkt
    /\ rpc \in {"initack", "ack"} => rpkt = pkt
    /\ rpc = "adapt" /\ Answered => rpkt = pkt
    /\ rpc = "listen" /\ timeout_counter < RCV_MAX_TIMEOUTS /\ Answered
          => rate["receiver"] = pkt.next_symbol_rate
    /\ spc = "idle" => rate["sender"] = pkt.next_symbol_rate

RadioTogether == ~BUILD_LOCAL_ONLY /\ Prompt => Together

SameRate == BUILD_LOCAL_ONLY => rate["sender"] = rate["receiver"]
-----------------------------------------------------------------------------
(* What the steps do over a radio *)

\* A pass that sends leaves the sender without a frame and the receiver at most
\* with one more, the packet built in it.
LEMMA SenderSends ==
    ASSUME TypeOK, TypeOK', ~BUILD_LOCAL_ONLY, StartSend \/ AckWrong \/ AckTimeout
    PROVE  /\ air'["sender"] = {}
           /\ \A x \in air'["receiver"] :
                 x \in air["receiver"] \/ x = pkt' \/ x = Garbled(pkt')
           /\ pkt' \in Packet /\ pkt'.id = next_ack /\ pkt'.slice = acked
           /\ spc' = "wait" /\ UNCHANGED <<acked, next_ack>>
<1> USE WindowTypes
<1>1. \E r \in Rate : Send("sender", pkt', r, {})
  <2>1. Leftover("sender") = {}
    BY DEF Leftover
  <2>2. CASE StartSend
    BY <2>1, <2>2 DEF StartSend, BuildAndSend
  <2>3. CASE AckWrong
    BY <2>3 DEF AckWrong, BuildAndSend
  <2>4. CASE AckTimeout
    <3>1. rate'["sender"] \in Rate
      BY DEF TypeOK, DriverTypeOK
    <3> QED BY <2>1, <2>4, <3>1 DEF AckTimeout, BuildAndSend
  <2> QED BY <2>2, <2>3, <2>4
<1>2. /\ pkt' \in Packet /\ pkt'.id = next_ack /\ pkt'.slice = acked
      /\ spc' = "wait" /\ UNCHANGED <<acked, next_ack>>
  <2>1. pkt' \in Packet
    BY DEF TypeOK, SenderTypeOK
  <2>2. \E m : pkt' = sender_build_pkt(m)
    BY DEF StartSend, AckWrong, AckTimeout, BuildAndSend
  <2>3. pkt'.id = next_ack /\ pkt'.slice = acked
    BY <2>2 DEF sender_build_pkt
  <2>4. spc' = "wait" /\ UNCHANGED <<acked, next_ack>>
    BY DEF StartSend, AckWrong, AckTimeout, BuildAndSend
  <2> QED BY <2>1, <2>3, <2>4
<1>3. PICK r \in Rate : Send("sender", pkt', r, {})
  BY <1>1
<1>4. DriverTypeOK /\ {} \in SUBSET Packet
  BY DEF TypeOK
<1> QED BY <1>2, <1>3, <1>4, SendEffect

\* A pass that reads without sending leaves the sender without a frame, too.
LEMMA SenderTakes ==
    ASSUME TypeOK, AckOk \/ AckGarbled
    PROVE  /\ air["sender"] # {} /\ air'["sender"] = {}
           /\ air'["receiver"] = air["receiver"]
           /\ pkt' = pkt
BY WindowTypes DEF AckOk, AckGarbled, Take, TypeOK, DriverTypeOK

\* The receiver reads or flushes its FIFO
LEMMA ReceiverTakes ==
    ASSUME TypeOK, ~BUILD_LOCAL_ONLY, Accept \/ RcvGarbled \/ RcvTimeout
    PROVE  air'["receiver"] = {} /\ air'["sender"] = air["sender"]
BY WindowTypes DEF Accept, RcvGarbled, RcvTimeout, Take, Leftover, TypeOK, DriverTypeOK

\* An acknowledgement flushes the FIFO of the receiver and carries the number of
\* the packet it holds.
LEMMA ReceiverAnswers ==
    ASSUME TypeOK, ~BUILD_LOCAL_ONLY, InitAck \/ SendAck
    PROVE  /\ air'["receiver"] = {}
           /\ \A x \in air'["sender"] : x \in air["sender"] \/ x.ack = last_ack_rcv
<1> USE WindowTypes
<1>1. Send("receiver", AckPacket, rate["receiver"], {})
  BY DEF InitAck, SendAck, Leftover
<1>2. AckPacket \in Packet /\ DriverTypeOK /\ {} \in SUBSET Packet
  BY AckPacketType DEF TypeOK
<1>3. AckPacket.ack = last_ack_rcv
  BY DEF AckPacket, Blank
<1> QED BY <1>1, <1>2, <1>3, SendEffect, GarbledFacts

\* What the other side leaves alone
LEMMA SenderAlone ==
    ASSUME UNCHANGED senderVars
    PROVE  UNCHANGED <<spc, acked, next_ack, pkt, minstrel>>
BY DEF senderVars

LEMMA ReceiverAlone ==
    ASSUME UNCHANGED receiverVars
    PROVE  UNCHANGED <<rpc, rpkt, last_ack_rcv, last, timeout_counter>>
BY DEF receiverVars
-----------------------------------------------------------------------------
(* Turns *)

LEMMA TurnsInit == Init => RadioTurns
BY DEF Init, DriverInit, SenderInit, ReceiverInit, RadioTurns, Turns, Node

LEMMA TurnsSender ==
    ASSUME TypeOK, TypeOK', Window, ~BUILD_LOCAL_ONLY, Turns,
           SenderStep \/ AckTimeout, UNCHANGED receiverVars
    PROVE  Turns'
<1> USE ReceiverAlone
<1>1. CASE StartSend \/ AckWrong \/ AckTimeout
  <2>1. /\ air'["sender"] = {} /\ pkt'.id = next_ack /\ spc' = "wait"
        /\ \A x \in air'["receiver"] :
              x \in air["receiver"] \/ x = pkt' \/ x = Garbled(pkt')
    BY <1>1, SenderSends
  <2>2. Garbled(pkt').id = pkt'.id
    BY <1>1, SenderSends, GarbledFacts
  <2>3. CASE StartSend
    <3>1. air["receiver"] = {} /\ rpc \notin {"initack", "ack"}
      BY <2>3 DEF Turns, StartSend
    <3> QED BY <2>1, <2>2, <3>1 DEF Turns
  <2>4. CASE AckWrong \/ AckTimeout
    <3>1. pkt'.id = pkt.id
      BY <2>1, <2>4 DEF AckWrong, AckTimeout, Window, SenderWindow
    <3> QED BY <2>1, <2>2, <3>1 DEF Turns
  <2> QED BY <1>1, <2>3, <2>4
<1>2. CASE AckOk \/ AckGarbled
  <2>1. air'["sender"] = {} /\ air'["receiver"] = {} /\ pkt' = pkt
        /\ rpc \in {"listen", "adapt"}
    BY <1>2, SenderTakes DEF Turns
  <2> QED BY <2>1 DEF Turns
<1> QED BY <1>1, <1>2 DEF SenderStep

LEMMA TurnsReceiver ==
    ASSUME TypeOK, Window, ~BUILD_LOCAL_ONLY, Turns,
           ReceiverStep \/ RcvTimeout, UNCHANGED senderVars
    PROVE  Turns'
<1> USE SenderAlone
<1>1. CASE Accept
  <2>1. PICK p \in air["receiver"] : rpkt' = p
    BY <1>1 DEF Accept
  <2>2. air["sender"] = {} /\ spc = "wait" /\ p.id = pkt.id
    BY <2>1 DEF Turns
  <2> QED BY <1>1, <2>1, <2>2, ReceiverTakes DEF Turns, Accept
<1>2. CASE RcvGarbled \/ RcvTimeout
  <2>1. UNCHANGED <<rpc, rpkt>>
    BY <1>2 DEF RcvGarbled, RcvTimeout, NothingAccepted
  <2> QED BY <1>2, <2>1, ReceiverTakes DEF Turns
<1>3. CASE InitAck \/ SendAck
  <2>1. rpc \in {"initack", "ack"} /\ rpc' \in {"listen", "adapt"} /\ rpkt' = rpkt
    BY <1>3 DEF InitAck, SendAck
  <2>2. spc = "wait" /\ air["sender"] = {} /\ rpkt.id = pkt.id
    BY <2>1 DEF Turns
  <2>3. last_ack_rcv = rpkt.id
    BY <2>1 DEF Window, ReceiverWindow
  <2> QED BY <1>3, <2>1, <2>2, <2>3, ReceiverAnswers DEF Turns
<1>4. CASE Adapt
  BY <1>4 DEF Adapt, Turns
<1> QED BY <1>1, <1>2, <1>3, <1>4 DEF ReceiverStep

LEMMA TurnsStep ==
    TypeOK /\ TypeOK' /\ Window /\ RadioTurns /\ [Next]_vars => RadioTurns'
<1> SUFFICES ASSUME TypeOK, TypeOK', Window, ~BUILD_LOCAL_ONLY, Turns, [Next]_vars
             PROVE  Turns'
  BY DEF RadioTurns
<1>1. CASE Sending \/ SenderTimeout
  BY <1>1, TurnsSender DEF Sending, SenderTimeout
<1>2. CASE Receiving \/ ReceiverTimeout
  BY <1>2, TurnsReceiver DEF Receiving, ReceiverTimeout
<1>3. CASE Debugging \/ UNCHANGED vars
  <2>1. ~Debugging
    BY DEF Debugging, cc1200_debug_block_next_write, cc1200_debug_corrupt_next_checksum
  <2> QED BY <1>3, <2>1, SenderAlone, ReceiverAlone DEF vars, driverVars, Turns
<1> QED BY <1>1, <1>2, <1>3 DEF Next

\* The two sides of a radio link take turns, whatever the timers do.
THEOREM TurnsTaken == Spec => []RadioTurns
<1>1. TypeOK /\ Window /\ RadioTurns /\ [Next]_vars /\ TypeOK' => RadioTurns'
  BY TurnsStep
<1> QED BY <1>1, TurnsInit, TypeCorrect, WindowHolds, PTL DEF Spec

\* Half duplex is enough: never do frames wait for both nodes, although either
\* timer may fire while the other side answers (sender.c:183, receiver.c:155).
THEOREM AirIsNeverShared == Spec => []OneFrameInAir
<1>1. RadioTurns => OneFrameInAir
  BY DEF RadioTurns, Turns, OneFrameInAir
<1> QED BY <1>1, TurnsTaken, PTL

\* Over a radio no ACK of an earlier slice is ever read while a later one waits:
\* the repetition for a wrong ACK (sender.c:176) serves the simulated radio only.
THEOREM AcksAreFresh == Spec => []NoStaleAck
<1>1. RadioTurns /\ Window => NoStaleAck
  BY DEF RadioTurns, Turns, NoStaleAck, Window, SenderWindow
<1> QED BY <1>1, TurnsTaken, WindowHolds, PTL
-----------------------------------------------------------------------------
(* The handshake stays on the slowest rate *)

LEMMA SlowInit == Init => HandshakeSlow
BY DEF Init, DriverInit, SenderInit, ReceiverInit, HandshakeSlow, Slowest, Blank, Node

\* A packet built before Minstrel has been told of anything announces rate 0.
LEMMA SlowBuilt ==
    /\ Slowest(sender_build_pkt(Zeroed))
    /\ ~Zeroed.spinning
BY DEF Slowest, sender_build_pkt, Zeroed, minstrel_get_next_rate, RateState,
   SECOND_BEST_RATE, HIGHEST_PROB_RATE, FALLBACK_RATE

\* What was sent is as slow as the packet, over either driver.
LEMMA SlowGarbled ==
    ASSUME NEW p \in Packet, Slowest(p)
    PROVE  Slowest(Garbled(p))
BY DEF Slowest, Garbled, Packet

LEMMA SlowSender ==
    ASSUME TypeOK, TypeOK', HandshakeSlow, SenderStep \/ AckTimeout,
           UNCHANGED receiverVars
    PROVE  HandshakeSlow'
<1> USE ReceiverAlone, WindowTypes
<1> SUFFICES ASSUME acked' = 0 PROVE HandshakeSlow'
  BY DEF HandshakeSlow
<1>1. acked = 0 /\ minstrel' = minstrel /\ rate' = rate
  <2>1. acked = 0
    <3>1. acked \in Nat
      OBVIOUS
    <3>2. acked' = acked \/ acked' = acked + 1
      BY DEF SenderStep, StartSend, AckOk, AckWrong, AckGarbled, AckTimeout
    <3> QED BY <3>1, <3>2
  <2>2. \A ok \in BOOLEAN : Update(ok) = {minstrel}
    BY <2>1 DEF Update, isHandshake
  <2>3. isHandshake
    BY <2>1 DEF isHandshake
  <2>4. CASE AckOk
    <3>1. minstrel' = minstrel /\ minstrel = Zeroed
      BY <2>1, <2>2, <2>4 DEF AckOk, HandshakeSlow
    <3>2. acked' = acked + 1
      BY <3>1, <2>4, SlowBuilt DEF AckOk
    <3> QED BY <2>1, <3>2
  <2>5. CASE StartSend
    BY <2>1, <2>5 DEF StartSend
  <2>6. CASE AckWrong \/ AckGarbled \/ AckTimeout
    BY <2>1, <2>2, <2>3, <2>6 DEF AckWrong, AckGarbled, AckTimeout
  <2> QED BY <2>1, <2>4, <2>5, <2>6 DEF SenderStep
<1>2. minstrel = Zeroed /\ rate["sender"] = 0 /\ rate["receiver"] = 0
  BY <1>1 DEF HandshakeSlow
<1>3. CASE StartSend \/ AckWrong \/ AckTimeout
  <2>1. pkt' = sender_build_pkt(Zeroed)
    BY <1>1, <1>2, <1>3 DEF StartSend, AckWrong, AckTimeout, BuildAndSend
  <2>2. Slowest(pkt') /\ pkt' \in Packet
    BY <2>1, SlowBuilt DEF TypeOK, SenderTypeOK
  <2>3. \E rest \in SUBSET Packet : Send("sender", pkt', rate["sender"], rest)
    <3>1. Leftover("sender") \in SUBSET Packet
      BY LeftoverFacts DEF TypeOK
    <3>2. CASE StartSend
      BY <3>1, <3>2 DEF StartSend, BuildAndSend
    <3>3. CASE AckWrong
      BY <3>3 DEF AckWrong, BuildAndSend
    <3>4. CASE AckTimeout
      BY <3>1, <3>4, <1>1 DEF AckTimeout, BuildAndSend
    <3> QED BY <1>3, <3>2, <3>3, <3>4
  <2>4. \A x \in air'["receiver"] : x \in air["receiver"] \/ x = pkt' \/ x = Garbled(pkt')
    BY <2>2, <2>3, SendEffect DEF TypeOK
  <2>5. \A x \in air'["receiver"] : Slowest(x)
    BY <1>1, <2>2, <2>4, SlowGarbled DEF HandshakeSlow
  <2> QED BY <1>1, <1>2, <2>2, <2>5 DEF HandshakeSlow, Slowest
<1>4. CASE AckOk \/ AckGarbled
  BY <1>1, <1>2, <1>4, SenderTakes DEF HandshakeSlow, Slowest
<1> QED BY <1>3, <1>4 DEF SenderStep

\* Tuning to rate 0 changes nothing on rate 0.
LEMMA SlowTune ==
    ASSUME TypeOK, NEW n \in Node, NEW r \in Rate
    PROVE  /\ \A k \in Node : change_rate(n, r)[k] \in {rate[k], r}
           /\ \A k \in Node : k # n => change_rate(n, r)[k] = rate[k]
           /\ ~BUILD_LOCAL_ONLY => change_rate(n, r)[n] = r
BY DEF change_rate, TypeOK, DriverTypeOK

LEMMA SlowReceiver ==
    ASSUME TypeOK, TypeOK', HandshakeSlow, ReceiverStep \/ RcvTimeout, UNCHANGED senderVars
    PROVE  HandshakeSlow'
<1> USE SenderAlone, WindowTypes
<1> SUFFICES ASSUME acked = 0 PROVE HandshakeSlow'
  BY DEF HandshakeSlow
<1> DEFINE L == [ symbol_rate |-> 0, second_best_rate |-> 0,
                  highest_prob_rate |-> 0, fallback_rate |-> 0 ]
<1>1. /\ minstrel = Zeroed /\ rate["sender"] = 0 /\ rate["receiver"] = 0
      /\ Slowest(pkt) /\ Slowest(rpkt) /\ last = L
      /\ \A p \in air["receiver"] : Slowest(p)
  BY DEF HandshakeSlow
<1>2. 0 \in Rate
  BY <1>1
<1>3. minstrel' = Zeroed /\ Slowest(pkt') /\ acked' = 0
  BY <1>1 DEF Slowest
<1>4. CASE Accept
  <2>1. PICK p \in air["receiver"] :
           rpkt' = p /\ last' = [last EXCEPT !.symbol_rate = p.next_symbol_rate]
    BY <1>4 DEF Accept
  <2>2. Slowest(rpkt') /\ last' = L
    BY <1>1, <2>1 DEF Slowest
  <2>3. rate' = rate /\ air'["receiver"] = {}
    BY <1>4 DEF Accept, Take, TypeOK, DriverTypeOK
  <2> QED BY <1>1, <1>3, <2>2, <2>3 DEF HandshakeSlow
<1>5. CASE RcvGarbled \/ RcvTimeout
  <2>1. air'["receiver"] \subseteq air["receiver"]
    BY <1>5, LeftoverFacts DEF RcvGarbled, RcvTimeout, Take, TypeOK, DriverTypeOK
  <2>2. NothingAccepted
    BY <1>5 DEF RcvGarbled, RcvTimeout
  <2>3. rpkt' = rpkt /\ last' = last
    BY <2>2 DEF NothingAccepted
  <2>4. rate' = rate \/ rate' = change_rate("receiver", 0)
    BY <1>1, <2>2 DEF NothingAccepted, CountFailure
  <2>5. rate'["sender"] = 0 /\ rate'["receiver"] = 0
    BY <1>1, <1>2, <2>4, SlowTune
  <2> QED BY <1>1, <1>3, <2>1, <2>3, <2>5 DEF HandshakeSlow, Slowest
<1>6. CASE InitAck \/ SendAck
  <2>1. rate' = rate /\ rpkt' = rpkt /\ last' = last
    BY <1>6 DEF InitAck, SendAck
  <2>2. air'["receiver"] \subseteq air["receiver"]
    <3>1. Send("receiver", AckPacket, rate["receiver"], Leftover("receiver"))
      BY <1>6 DEF InitAck, SendAck
    <3>2. AckPacket \in Packet /\ DriverTypeOK
      BY AckPacketType DEF TypeOK
    <3> QED BY <3>1, <3>2, LeftoverFacts, SendEffect
  <2> QED BY <1>1, <1>3, <2>1, <2>2 DEF HandshakeSlow, Slowest
<1>7. CASE Adapt
  <2>1. rate' = change_rate("receiver", 0) /\ last' = L /\ rpkt' = rpkt /\ air' = air
    BY <1>1, <1>7 DEF Adapt, Slowest
  <2>2. rate'["sender"] = 0 /\ rate'["receiver"] = 0
    BY <1>1, <1>2, <2>1, SlowTune
  <2> QED BY <1>1, <1>3, <2>1, <2>2 DEF HandshakeSlow, Slowest
<1> QED BY <1>4, <1>5, <1>6, <1>7 DEF ReceiverStep

LEMMA SlowStep == TypeOK /\ TypeOK' /\ HandshakeSlow /\ [Next]_vars => HandshakeSlow'
<1> SUFFICES ASSUME TypeOK, TypeOK', HandshakeSlow, [Next]_vars PROVE HandshakeSlow'
  OBVIOUS
<1>1. CASE Sending \/ SenderTimeout
  BY <1>1, SlowSender DEF Sending, SenderTimeout
<1>2. CASE Receiving \/ ReceiverTimeout
  BY <1>2, SlowReceiver DEF Receiving, ReceiverTimeout
<1>3. CASE Debugging \/ UNCHANGED vars
  <2>1. UNCHANGED <<rate, air, senderVars, receiverVars>>
    BY <1>3 DEF Debugging, cc1200_debug_block_next_write,
       cc1200_debug_corrupt_next_checksum, vars, driverVars
  <2> QED BY <2>1, SenderAlone, ReceiverAlone DEF HandshakeSlow, Slowest
<1> QED BY <1>1, <1>2, <1>3 DEF Next

LEMMA SlowHolds == Spec => []HandshakeSlow
<1>1. TypeOK /\ HandshakeSlow /\ [Next]_vars /\ TypeOK' => HandshakeSlow'
  BY SlowStep
<1> QED BY <1>1, SlowInit, TypeCorrect, PTL DEF Spec
-----------------------------------------------------------------------------
(* Together *)

LEMMA TogetherInit == Init => RadioTogether /\ SameRate
BY DEF Init, DriverInit, SenderInit, ReceiverInit, RadioTogether, Together, SameRate,
   Blank, Node

\* A prompt sender sends while nobody listens to anything but its packet.
LEMMA PromptSends ==
    ASSUME TypeOK, Turns, Prompt,
           StartSend \/ AckWrong \/ (AckTimeout /\ (Prompt => Quiet))
    PROVE  air["receiver"] = {} /\ rpc \notin {"initack", "ack"}
<1> USE WindowTypes
<1>1. CASE StartSend
  BY <1>1 DEF StartSend, Turns
<1>2. CASE AckWrong
  BY <1>2 DEF AckWrong, Turns
<1>3. CASE AckTimeout /\ (Prompt => Quiet)
  BY <1>3 DEF Quiet, Listening
<1> QED BY <1>1, <1>2, <1>3

LEMMA TogetherSender ==
    ASSUME TypeOK, TypeOK', Turns, HandshakeSlow, Together, ~BUILD_LOCAL_ONLY, Prompt,
           SenderStep \/ (AckTimeout /\ (Prompt => Quiet)), UNCHANGED receiverVars
    PROVE  Together'
<1> USE ReceiverAlone, WindowTypes
<1>1. CASE StartSend \/ AckWrong \/ (AckTimeout /\ (Prompt => Quiet))
  <2>1. air["receiver"] = {} /\ rpc \notin {"initack", "ack"}
    BY <1>1, PromptSends
  <2>2. /\ air'["sender"] = {} /\ spc' = "wait" /\ pkt' \in Packet
        /\ \A x \in air'["receiver"] : x = pkt' \/ x = Garbled(pkt')
    BY <1>1, <2>1, SenderSends
  <2>3. ~Garbled(pkt').intact
    BY <2>2 DEF Garbled, Packet
  <2>4. ~Answered'
    BY <2>2 DEF Answered
  <2> QED BY <2>1, <2>2, <2>3, <2>4 DEF Together
<1>2. CASE AckOk
  <2>1. Answered /\ air'["receiver"] = {} /\ pkt' = pkt
    BY <1>2, SenderTakes DEF Turns, Answered
  <2>2. rate'["receiver"] = rate["receiver"]
    BY <1>2, SlowTune DEF AckOk, RateAfterOk, change_rate, TypeOK, DriverTypeOK
  <2>3. spc' = "idle" => rate'["sender"] = pkt.next_symbol_rate
    <3>1. SUFFICES ASSUME spc' = "idle" PROVE rate'["sender"] = pkt.next_symbol_rate
      OBVIOUS
    <3>2. rate' = RateAfterOk
      BY <1>2, <3>1 DEF AckOk
    <3>3. CASE isHandshake
      BY <3>2, <3>3 DEF RateAfterOk, HandshakeSlow, Slowest, isHandshake
    <3>4. CASE ~isHandshake
      <4>1. pkt.next_symbol_rate \in Rate
        BY DEF Packet
      <4> QED BY <3>2, <3>4, <4>1, SlowTune DEF RateAfterOk
    <3> QED BY <3>3, <3>4
  <2> QED BY <2>1, <2>2, <2>3 DEF Together
<1>3. CASE AckGarbled
  <2>1. air'["sender"] = {} /\ air'["receiver"] = {} /\ pkt' = pkt
        /\ rpc \notin {"initack", "ack"}
    BY <1>3, SenderTakes DEF Turns
  <2>2. spc' = "wait"
    BY <1>3 DEF AckGarbled
  <2> QED BY <2>1, <2>2 DEF Together, Answered
<1> QED BY <1>1, <1>2, <1>3 DEF SenderStep

LEMMA TogetherReceiver ==
    ASSUME TypeOK, TypeOK', Window, Turns, HandshakeSlow, Together, ~BUILD_LOCAL_ONLY,
           ReceiverStep \/ RcvTimeout, UNCHANGED senderVars
    PROVE  Together'
<1> USE SenderAlone, WindowTypes
<1>1. CASE Accept
  <2>1. PICK p \in air["receiver"] : p.intact /\ rpkt' = p
    BY <1>1 DEF Accept
  <2>2. p = pkt /\ rpc' \in {"initack", "ack"} /\ rate' = rate /\ air'["receiver"] = {}
    BY <1>1, <2>1, ReceiverTakes DEF Together, Accept
  <2> QED BY <2>1, <2>2 DEF Together
<1>2. CASE RcvGarbled \/ RcvTimeout
  <2>1. NothingAccepted /\ air'["receiver"] = {} /\ air'["sender"] = air["sender"]
    BY <1>2, ReceiverTakes DEF RcvGarbled, RcvTimeout
  <2>2. UNCHANGED <<rpc, rpkt>> /\ (Answered' <=> Answered)
    BY <2>1 DEF NothingAccepted, Answered
  <2>3. rate'["sender"] = rate["sender"]
    <3>1. rate' = rate \/ \E r \in Rate : rate' = change_rate("receiver", r)
      <4>1. /\ last.second_best_rate \in Rate /\ last.highest_prob_rate \in Rate
            /\ last.fallback_rate \in Rate
        BY DEF TypeOK, ReceiverTypeOK, LastRates
      <4> QED BY <2>1, <4>1 DEF NothingAccepted, CountFailure
    <3> QED BY <3>1, SlowTune
  <2>4. rpc = "listen" /\ timeout_counter' < RCV_MAX_TIMEOUTS
          => timeout_counter < RCV_MAX_TIMEOUTS /\ rate' = rate
    <3>1. SUFFICES ASSUME rpc = "listen", timeout_counter' < RCV_MAX_TIMEOUTS
                   PROVE  timeout_counter < RCV_MAX_TIMEOUTS /\ rate' = rate
      OBVIOUS
    <3> DEFINE n == timeout_counter + 1
    <3>2. CountFailure
      BY <2>1, <3>1 DEF NothingAccepted
    <3>3. timeout_counter \in Nat /\ RCV_MAX_TIMEOUTS \in Nat /\ RCV_MAX_TIMEOUTS >= 1
      BY ReceiverAssumption DEF TypeOK, ReceiverTypeOK, TimeoutCap
    <3>4. timeout_counter' = IF n < TimeoutCap THEN n ELSE TimeoutCap
      BY <3>2 DEF CountFailure
    <3>5. n < RCV_MAX_TIMEOUTS
      BY <3>1, <3>3, <3>4 DEF TimeoutCap
    <3>6. n # RCV_MAX_TIMEOUTS /\ n # 2 * RCV_MAX_TIMEOUTS /\ n # 3 * RCV_MAX_TIMEOUTS
      BY <3>3, <3>5
    <3>7. rate' = rate
      BY <3>2, <3>6 DEF CountFailure
    <3> QED BY <3>3, <3>5, <3>7
  <2> QED BY <2>1, <2>2, <2>3, <2>4 DEF Together
<1>3. CASE InitAck
  <2>1. acked = 0 /\ rate' = rate /\ rpc' = "listen" /\ air'["receiver"] = {}
    BY <1>3, ReceiverAnswers DEF InitAck, Window, Connecting
  <2>2. rate["receiver"] = pkt.next_symbol_rate
    BY <2>1 DEF HandshakeSlow, Slowest
  <2> QED BY <2>1, <2>2 DEF Together
<1>4. CASE SendAck
  <2>1. /\ rpkt = pkt /\ rpkt' = rpkt /\ rate' = rate
        /\ rpc' = "adapt" /\ air'["receiver"] = {}
    BY <1>4, ReceiverAnswers DEF SendAck, Together
  <2> QED BY <2>1 DEF Together
<1>5. CASE Adapt
  <2>1. /\ rpc = "adapt" /\ rpc' = "listen" /\ UNCHANGED <<air, rpkt>>
        /\ rate' = change_rate("receiver", rpkt.next_symbol_rate)
    BY <1>5 DEF Adapt
  <2>2. rpkt.next_symbol_rate \in Rate
    BY DEF TypeOK, ReceiverTypeOK, Packet
  <2>3. rate'["receiver"] = rpkt.next_symbol_rate /\ rate'["sender"] = rate["sender"]
    BY <2>1, <2>2, SlowTune
  <2>4. Answered' <=> Answered
    BY <2>1 DEF Answered
  <2> QED BY <2>1, <2>3, <2>4 DEF Together
<1> QED BY <1>1, <1>2, <1>3, <1>4, <1>5 DEF ReceiverStep

LEMMA TogetherStep ==
    TypeOK /\ TypeOK' /\ Window /\ RadioTurns /\ HandshakeSlow /\ RadioTogether /\ [Next]_vars
        => RadioTogether'
<1> SUFFICES ASSUME TypeOK, TypeOK', Window, Turns, HandshakeSlow, Together,
                    ~BUILD_LOCAL_ONLY, Prompt, [Next]_vars
             PROVE  Together'
  BY DEF RadioTogether, RadioTurns
<1>1. CASE Sending \/ SenderTimeout
  BY <1>1, TogetherSender DEF Sending, SenderTimeout
<1>2. CASE Receiving \/ ReceiverTimeout
  BY <1>2, TogetherReceiver DEF Receiving, ReceiverTimeout
<1>3. CASE Debugging \/ UNCHANGED vars
  <2>1. ~Debugging
    BY DEF Debugging, cc1200_debug_block_next_write, cc1200_debug_corrupt_next_checksum
  <2> QED BY <1>3, <2>1, SenderAlone, ReceiverAlone
      DEF vars, driverVars, Together, Answered
<1> QED BY <1>1, <1>2, <1>3 DEF Next

\* In the simulation cc1200_change_rate does nothing.
LEMMA SameRateStep == SameRate /\ [Next]_vars => SameRate'
<1> SUFFICES ASSUME BUILD_LOCAL_ONLY, [Next]_vars PROVE rate' = rate
  BY DEF SameRate
<1>1. \A n, r : change_rate(n, r) = rate
  BY DEF change_rate
<1>2. CASE Sending \/ SenderTimeout
  BY <1>1, <1>2 DEF Sending, SenderTimeout, SenderStep, StartSend, AckOk, AckWrong,
     AckGarbled, AckTimeout, RateAfterOk
<1>3. CASE Receiving \/ ReceiverTimeout
  BY <1>1, <1>3 DEF Receiving, ReceiverTimeout, ReceiverStep, Accept, RcvGarbled,
     RcvTimeout, NothingAccepted, CountFailure, InitAck, SendAck, Adapt
<1>4. CASE Debugging \/ UNCHANGED vars
  BY <1>4 DEF Debugging, cc1200_debug_block_next_write,
     cc1200_debug_corrupt_next_checksum, vars, driverVars
<1> QED BY <1>2, <1>3, <1>4 DEF Next

\* After an acknowledgement the two radios are on one rate, for any number of
\* copies with other announcements, until the receiver gives up on it.
THEOREM RatesMeet == Spec => []SyncAfterAck
<1>1. TypeOK /\ Window /\ RadioTurns /\ HandshakeSlow /\ RadioTogether
        /\ [Next]_vars /\ TypeOK' => RadioTogether'
  BY TogetherStep
<1>2. Spec => []RadioTogether
  BY <1>1, TogetherInit, TypeCorrect, WindowHolds, TurnsTaken, SlowHolds, PTL DEF Spec
<1>3. Spec => []SameRate
  BY SameRateStep, TogetherInit, PTL DEF Spec
<1>4. RadioTogether /\ SameRate => SyncAfterAck
  BY DEF RadioTogether, Together, Answered, SameRate, SyncAfterAck
<1> QED BY <1>2, <1>3, <1>4, PTL
=============================================================================
