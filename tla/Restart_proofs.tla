--------------------------- MODULE Restart_proofs ---------------------------
(***************************************************************************)
(* What is lost when programs are killed and started again, for any number *)
(* of restarts, slices, ids, rates and tokens and any timing.              *)
(*                                                                         *)
(* Over a radio, which is where programs are restarted, the account rests  *)
(* on the turns alone: nobody has to compare an id correctly.  Over the    *)
(* simulated radio it is the window of the session.                        *)
(***************************************************************************)
EXTENDS Restart, Session_proofs, FiniteSetTheorems

\* The turns, which a restart does not break: it takes a frame away.  After the
\* handshake no packet of an earlier life of the sender is left, nor anything of it
\* in the hands of the receiver that is still to be acknowledged.
OneTurn ==
    /\ air["sender"] = {} \/ air["receiver"] = {}
    /\ air["sender"] # {} => rpc \notin {"initack", "ack"}
    /\ acked > 0 /\ spc # "wait" =>
          /\ \A n \in Node : air[n] = {}
          /\ rpc \notin {"initack", "ack"}
    /\ acked > 0 /\ spc = "wait" =>
          /\ \A p \in air["receiver"] : p.slice = acked
          /\ rpc \in {"initack", "ack"} => rpkt.slice = acked

\* The first receiver takes nothing but a handshake for the handshake
FirstReceiver ==
    restarts["receiver"] = 0 /\ rpc \in {"init", "initack"} =>
        acked = 0 /\ air["sender"] = {}

InHands == IF rpc \in {"ack", "adapt"} THEN {rpkt.slice} ELSE {}

\* The slices acknowledged, with the one whose ACK is under way or follows
Replied == acked > 0 /\ spc = "wait" /\ (air["sender"] # {} \/ rpc = "initack")
Promised == Acknowledged \cup (IF Replied THEN {acked} ELSE {})

Missing == Promised \ (returned \cup InHands)

\* What the receiver started last has yet to throw away
Due == IF rpc = "init" /\ restarts["receiver"] > 0 THEN 1 ELSE 0

Balance == Cardinality(Missing) + Due <= 2 * restarts["receiver"]

RadioLoss == ~BUILD_LOCAL_ONLY => OneTurn /\ FirstReceiver /\ Balance
-----------------------------------------------------------------------------
(* Types *)

RestartTypeOK ==
    /\ TypeOK
    /\ restarts \in [Node -> Nat]

\* A step of the session is one here, whether the programs are prompt or not.
LEMMA GoingIsNext ==
    ASSUME Going(Sending \/ SenderExpires \/ Receiving \/ ReceiverExpires)
    PROVE  Next
BY DEF Going, SenderExpires, ReceiverExpires, Next

\* What a restart leaves is what the program starts with.
LEMMA RestartKeepsType ==
    ASSUME RestartTypeOK, RestartSender \/ RestartReceiver
    PROVE  RestartTypeOK'
<1>1. DriverTypeOK'
  <2>1. DriverTypeOK /\ 0 \in Rate
    BY MinstrelAssumption DEF RestartTypeOK, TypeOK, Rate
  <2>2. PICK n \in Node : Kill(n)
    BY DEF RestartSender, RestartReceiver, Node
  <2>3. rate' \in [Node -> Rate] /\ air' \in [Node -> SUBSET Packet]
    BY <2>1, <2>2 DEF Kill, DriverTypeOK
  <2>4. rx' \subseteq Node
    BY <2>1 DEF RestartSender, RestartReceiver, DriverTypeOK, Node
  <2>5. UNCHANGED <<ignore_next, corrupt_next, debug_calls>>
    BY <2>2 DEF Kill, debugVars
  <2> QED BY <2>1, <2>3, <2>4, <2>5 DEF DriverTypeOK
<1>2. SenderTypeOK'
  <2>1. CASE RestartSender
    BY <2>1, ZeroedType, BlankType, DriverAssumption
       DEF RestartSender, SenderTypeOK, Id, Token
  <2>2. CASE RestartReceiver
    BY <2>2 DEF RestartReceiver, senderVars, RestartTypeOK, TypeOK, SenderTypeOK
  <2> QED BY <2>1, <2>2
<1>3. ReceiverTypeOK'
  <2>1. CASE RestartReceiver
    <3>1. last' \in LastRates
      BY <2>1, MinstrelAssumption DEF RestartReceiver, RestartTypeOK, TypeOK,
         ReceiverTypeOK, LastRates, Rate
    <3>2. /\ rpc' = "init" /\ rpkt' \in Packet /\ last_ack_rcv' \in Id
          /\ timeout_counter' \in 0 .. TimeoutCap
          /\ r_token_receiver' \in Token /\ r_token_sender' \in Token
          /\ delivered' \in 0 .. NumSlices
      BY <2>1, BlankType, DriverAssumption, ReceiverAssumption
         DEF RestartReceiver, RestartTypeOK, TypeOK, ReceiverTypeOK, Id, Token, TimeoutCap
    <3> QED BY <3>1, <3>2 DEF ReceiverTypeOK
  <2>2. CASE RestartSender
    BY <2>2 DEF RestartSender, receiverVars, RestartTypeOK, TypeOK, ReceiverTypeOK
  <2> QED BY <2>1, <2>2
<1>4. restarts' \in [Node -> Nat]
  BY DEF RestartTypeOK, RestartSender, RestartReceiver, Kill, Node
<1> QED BY <1>1, <1>2, <1>3, <1>4 DEF RestartTypeOK, TypeOK
-----------------------------------------------------------------------------
(* The turns *)

\* After a pass that sends, the frames that wait for the receiver are of the slice
\* in transfer if those before were, and nothing waits for the sender.
LEMMA TurnSender ==
    ASSUME TypeOK, TypeOK', ~BUILD_LOCAL_ONLY, OneTurn,
           SenderStep \/ AckTimeout, UNCHANGED receiverVars
    PROVE  OneTurn' /\ air'["sender"] = {}
<1> USE WindowTypes, ReceiverAlone
<1>0. Node = {"sender", "receiver"}
  BY DEF Node
<1>1. CASE StartSend \/ AckWrong \/ AckTimeout
  <2>1. /\ air'["sender"] = {} /\ spc' = "wait" /\ acked' = acked
        /\ pkt' \in Packet /\ pkt'.slice = acked
        /\ \A x \in air'["receiver"] :
              x \in air["receiver"] \/ x = pkt' \/ x = Garbled(pkt')
    BY <1>1, SenderSends
  <2>2. Garbled(pkt').slice = acked
    BY <2>1, GarbledFacts
  <2>3. \A x \in air'["receiver"] : acked > 0 => x.slice = acked
    <3>1. \A x \in air["receiver"] : acked > 0 => x.slice = acked
      BY <1>0 DEF OneTurn
    <3> QED BY <2>1, <2>2, <3>1
  <2>4. acked > 0 /\ rpc \in {"initack", "ack"} => rpkt.slice = acked
    BY DEF OneTurn
  <2> QED BY <2>1, <2>3, <2>4 DEF OneTurn
<1>2. CASE AckOk
  <2>1. air["sender"] # {} /\ air'["sender"] = {} /\ air'["receiver"] = air["receiver"]
    BY <1>2, SenderTakes
  <2>2. air["receiver"] = {} /\ rpc \notin {"initack", "ack"} /\ spc' # "wait"
    BY <1>2, <2>1 DEF OneTurn, AckOk
  <2> QED BY <1>0, <2>1, <2>2 DEF OneTurn
<1>3. CASE AckGarbled
  <2>1. air'["sender"] = {} /\ air'["receiver"] = air["receiver"]
    BY <1>3, SenderTakes
  <2>2. spc' = spc /\ acked' = acked
    BY <1>3 DEF AckGarbled
  <2> QED BY <1>0, <2>1, <2>2 DEF OneTurn
<1> QED BY <1>1, <1>2, <1>3 DEF SenderStep

\* The receiver answers only what it has taken, and leaves nothing for itself.
LEMMA TurnReceiver ==
    ASSUME TypeOK, TypeOK', ~BUILD_LOCAL_ONLY, OneTurn,
           ReceiverStep \/ RcvTimeout, UNCHANGED senderVars
    PROVE  OneTurn'
<1> USE WindowTypes, SenderAlone
<1>0. Node = {"sender", "receiver"}
  BY DEF Node
<1>1. CASE Accept
  <2>1. PICK p \in air["receiver"] : rpkt' = p
    BY <1>1 DEF Accept
  <2>2. air'["receiver"] = {} /\ air'["sender"] = air["sender"]
    BY <1>1, ReceiverTakes
  <2>3. air["sender"] = {} /\ (acked > 0 => spc = "wait" /\ p.slice = acked)
    BY <1>0, <2>1 DEF OneTurn
  <2> QED BY <2>1, <2>2, <2>3 DEF OneTurn
<1>2. CASE RcvGarbled \/ RcvTimeout
  <2>1. air'["receiver"] = {} /\ air'["sender"] = air["sender"]
    BY <1>2, ReceiverTakes
  <2>2. rpc' = rpc /\ rpkt' = rpkt
    BY <1>2 DEF RcvGarbled, RcvTimeout, NothingAccepted
  <2> QED BY <1>0, <2>1, <2>2 DEF OneTurn
<1>3. CASE InitAck \/ SendAck
  <2>1. air'["receiver"] = {}
    BY <1>3, ReceiverAnswers
  <2>2. rpc \in {"initack", "ack"} /\ rpc' \in {"listen", "adapt"}
    BY <1>3 DEF InitAck, SendAck
  <2>3. acked > 0 => spc = "wait"
    BY <2>2 DEF OneTurn
  <2> QED BY <2>1, <2>2, <2>3 DEF OneTurn
<1>4. CASE Adapt
  BY <1>0, <1>4 DEF Adapt, OneTurn
<1> QED BY <1>1, <1>2, <1>3, <1>4 DEF ReceiverStep

\* A restart takes a frame away and puts the program where it has none to answer.
LEMMA TurnRestart ==
    ASSUME RestartTypeOK, OneTurn, RestartSender \/ RestartReceiver
    PROVE  OneTurn'
<1>0. Node = {"sender", "receiver"} /\ air \in [Node -> SUBSET Packet]
  BY DEF Node, RestartTypeOK, TypeOK, DriverTypeOK
<1>1. CASE RestartSender
  <2>1. air'["sender"] = {} /\ air'["receiver"] = air["receiver"] /\ acked' = 0
    BY <1>0, <1>1 DEF RestartSender, Kill
  <2> QED BY <2>1 DEF OneTurn
<1>2. CASE RestartReceiver
  <2>1. air'["receiver"] = {} /\ air'["sender"] = air["sender"] /\ rpc' = "init"
    BY <1>0, <1>2 DEF RestartReceiver, Kill
  <2>2. spc' = spc /\ acked' = acked
    BY <1>2 DEF RestartReceiver, senderVars
  <2> QED BY <1>0, <2>1, <2>2 DEF OneTurn
<1> QED BY <1>1, <1>2
-----------------------------------------------------------------------------
(* The account of what is missing *)

\* No more slices than before, or one more
LEMMA Counting ==
    ASSUME NEW S, IsFiniteSet(S), NEW T, NEW x
    PROVE  /\ Cardinality(S) \in Nat
           /\ T \subseteq S => Cardinality(T) \in Nat /\ Cardinality(T) <= Cardinality(S)
           /\ T \subseteq S \cup {x} =>
                 Cardinality(T) \in Nat /\ Cardinality(T) <= Cardinality(S) + 1
<1>1. \A A, B : IsFiniteSet(A) /\ B \subseteq A =>
         /\ IsFiniteSet(B) /\ Cardinality(B) \in Nat /\ Cardinality(A) \in Nat
         /\ Cardinality(B) <= Cardinality(A)
  BY FS_Subset, FS_CardinalityType
<1>2. /\ IsFiniteSet(S \cup {x})
      /\ Cardinality(S \cup {x}) = Cardinality(S) \/ Cardinality(S \cup {x}) = Cardinality(S) + 1
  BY FS_AddElement
<1>3. Cardinality(S) \in Nat
  BY FS_CardinalityType
<1>4. T \subseteq S => Cardinality(T) \in Nat /\ Cardinality(T) <= Cardinality(S)
  BY <1>1
<1>5. T \subseteq S \cup {x} =>
         /\ Cardinality(T) \in Nat /\ Cardinality(S \cup {x}) \in Nat
         /\ Cardinality(T) <= Cardinality(S \cup {x})
  BY <1>1, <1>2
<1> QED BY <1>2, <1>3, <1>4, <1>5

LEMMA MissingFinite ==
    ASSUME TypeOK
    PROVE  IsFiniteSet(Missing) /\ Missing \subseteq 1 .. acked
<1>1. acked \in Nat
  BY WindowTypes
<1>2. Missing \subseteq 1 .. acked
  BY <1>1 DEF Missing, Promised, Replied, Acknowledged
<1>3. IsFiniteSet(1 .. acked)
  BY <1>1, FS_Interval
<1>4. IsFiniteSet(Missing)
  BY <1>2, <1>3, FS_Subset
<1> QED BY <1>2, <1>4

\* Nothing is ever taken back from what was returned.
LEMMA ReturnKeeps ==
    ASSUME Return
    PROVE  returned \subseteq returned' /\ (Adapt => delivered' \in returned')
BY DEF Return

\* No pass of the sender makes a slice missing: when it counts a slice as
\* acknowledged the ACK was there.
LEMMA MissingSender ==
    ASSUME TypeOK, TypeOK', ~BUILD_LOCAL_ONLY, OneTurn,
           SenderStep \/ AckTimeout, UNCHANGED receiverVars, Return
    PROVE  Missing' \subseteq Missing
<1> USE WindowTypes, ReceiverAlone
<1>1. InHands' = InHands /\ returned \subseteq returned'
  BY ReturnKeeps DEF InHands
<1>2. air'["sender"] = {}
  BY TurnSender
<1>3. Promised' \subseteq Promised
  <2>1. CASE AckOk
    <3>1. spc = "wait" /\ air["sender"] # {} /\ spc' # "wait"
      BY <2>1 DEF AckOk
    <3>2. acked' \in {acked, acked + 1}
      BY <2>1 DEF AckOk
    <3>3. Promised' = 1 .. acked' - 1
      BY <3>1 DEF Promised, Replied, Acknowledged
    <3>4. 1 .. acked' - 1 \subseteq 1 .. acked
      BY <3>2
    <3>5. acked > 0 => Promised = 1 .. acked
      BY <3>1 DEF Promised, Replied, Acknowledged
    <3> QED BY <3>3, <3>4, <3>5
  <2>2. CASE ~AckOk
    <3>1. /\ acked' = acked /\ spc' = "wait"
          /\ spc = "wait" \/ (spc = "idle" /\ StartSend)
      BY <2>2 DEF SenderStep, StartSend, AckWrong, AckGarbled, AckTimeout
    <3>2. Replied' => Replied
      BY <1>2, <3>1 DEF Replied, OneTurn
    <3> QED BY <3>1, <3>2 DEF Promised, Acknowledged
  <2> QED BY <2>1, <2>2
<1> QED BY <1>1, <1>3 DEF Missing

\* A receiver makes a slice missing only when it takes it for the handshake: in
\* receiver_receive_and_ack it returns what it acknowledges.
LEMMA MissingReceiver ==
    ASSUME TypeOK, TypeOK', ~BUILD_LOCAL_ONLY, OneTurn,
           ReceiverStep \/ RcvTimeout, UNCHANGED senderVars, Return
    PROVE  /\ rpc' = "init" => rpc = "init"
           /\ ~(Accept /\ rpc = "init") => Missing' \subseteq Missing
           /\ Accept /\ rpc = "init" =>
                 /\ rpc' = "initack"
                 /\ Missing' \subseteq Missing \cup {acked}
                 /\ acked = 0 => Missing' \subseteq Missing
<1> USE WindowTypes, SenderAlone
<1>0. /\ Node = {"sender", "receiver"} /\ returned \subseteq returned'
      /\ spc' = spc /\ acked' = acked /\ Acknowledged' = Acknowledged
  BY ReturnKeeps DEF Node, Acknowledged
<1>1. CASE Accept
  <2>1. air'["sender"] = {} /\ (rpc = "init" \/ rpc = "listen")
    BY <1>0, <1>1, ReceiverTakes DEF OneTurn, Accept, Listening
  <2>2. rpc' = IF rpc = "init" THEN "initack" ELSE "ack"
    BY <1>1 DEF Accept
  <2>3. InHands = {}
    BY <2>1 DEF InHands
  <2>4. CASE rpc = "listen"
    <3>1. Promised' = Acknowledged
      BY <1>0, <2>1, <2>2, <2>4 DEF Promised, Replied
    <3> QED BY <1>0, <2>2, <2>3, <2>4, <3>1 DEF Missing, Promised
  <2>5. CASE rpc = "init"
    <3>1. Promised' \subseteq Acknowledged \cup {acked}
      BY <1>0 DEF Promised
    <3>2. acked = 0 => Promised' = Acknowledged
      BY <1>0 DEF Promised, Replied
    <3>3. Missing' \subseteq Missing \cup {acked}
      BY <1>0, <2>3, <3>1 DEF Missing, Promised
    <3>4. acked = 0 => Missing' \subseteq Missing
      BY <1>0, <2>3, <3>2 DEF Missing, Promised
    <3> QED BY <1>1, <2>2, <2>5, <3>3, <3>4
  <2> QED BY <2>1, <2>4, <2>5
<1>2. CASE RcvGarbled \/ RcvTimeout
  <2>1. air'["sender"] = air["sender"] /\ rpc' = rpc /\ rpkt' = rpkt
    BY <1>2, ReceiverTakes DEF RcvGarbled, RcvTimeout, NothingAccepted
  <2>2. Promised' = Promised /\ InHands' = InHands
    BY <1>0, <2>1 DEF Promised, Replied, InHands
  <2>3. ~Accept \/ rpc # "init"
    BY <2>1 DEF Accept
  <2> QED BY <1>0, <2>1, <2>2, <2>3 DEF Missing
<1>3. CASE InitAck
  <2>1. rpc = "initack" /\ rpc' = "listen"
    BY <1>3 DEF InitAck
  <2>2. Promised' \subseteq Promised /\ InHands = {}
    BY <1>0, <2>1 DEF Promised, Replied, InHands
  <2> QED BY <1>0, <2>1, <2>2 DEF Missing
<1>4. CASE SendAck
  <2>1. rpc = "ack" /\ rpc' = "adapt" /\ rpkt' = rpkt
    BY <1>4 DEF SendAck
  <2>2. InHands' = {rpkt.slice} /\ InHands = {rpkt.slice}
    BY <2>1 DEF InHands
  <2>3. acked > 0 /\ spc = "wait" => rpkt.slice = acked
    BY <2>1 DEF OneTurn
  <2>4. Promised' \subseteq Acknowledged \cup {rpkt.slice}
    BY <1>0, <2>3 DEF Promised, Replied
  <2> QED BY <1>0, <2>1, <2>2, <2>4 DEF Missing, Promised
<1>5. CASE Adapt
  <2>1. /\ rpc = "adapt" /\ rpc' = "listen" /\ air' = air
        /\ delivered' = rpkt.slice /\ delivered' \in returned'
    BY <1>5, ReturnKeeps DEF Adapt
  <2>2. Promised' = Promised /\ InHands = {rpkt.slice}
    BY <1>0, <2>1 DEF Promised, Replied, InHands
  <2> QED BY <1>0, <2>1, <2>2 DEF Missing
<1> QED BY <1>1, <1>2, <1>3, <1>4, <1>5 DEF ReceiverStep

\* A killed receiver takes at most what it holds with it, a killed sender starts
\* counting again.
LEMMA MissingRestart ==
    ASSUME RestartTypeOK, OneTurn, RestartSender \/ RestartReceiver
    PROVE  /\ RestartSender => Missing' = {}
           /\ RestartReceiver => Missing' \subseteq Missing \cup {rpkt.slice}
<1>0. Node = {"sender", "receiver"} /\ air \in [Node -> SUBSET Packet]
  BY DEF Node, RestartTypeOK, TypeOK, DriverTypeOK
<1>1. ASSUME RestartSender PROVE Missing' = {}
  <2>1. acked' = 0
    BY <1>1 DEF RestartSender
  <2> QED BY <2>1 DEF Missing, Promised, Replied, Acknowledged
<1>2. ASSUME RestartReceiver PROVE Missing' \subseteq Missing \cup {rpkt.slice}
  <2>1. /\ spc' = spc /\ acked' = acked /\ returned' = returned
        /\ rpc' = "init" /\ air'["sender"] = air["sender"]
    BY <1>0, <1>2 DEF RestartReceiver, Kill, senderVars
  <2>2. Promised' \subseteq Promised
    BY <2>1 DEF Promised, Replied, Acknowledged
  <2>3. InHands \subseteq {rpkt.slice}
    BY DEF InHands
  <2> QED BY <2>1, <2>2, <2>3 DEF Missing
<1> QED BY <1>1, <1>2
-----------------------------------------------------------------------------
(* The radio *)

\* A step of the session is one of the sender or one of the receiver.
SenderMoves == (SenderStep \/ AckTimeout) /\ UNCHANGED receiverVars
ReceiverMoves == (ReceiverStep \/ RcvTimeout) /\ UNCHANGED senderVars

LEMMA OneMoves ==
    ASSUME Going(Sending \/ SenderExpires \/ Receiving \/ ReceiverExpires)
    PROVE  /\ SenderMoves \/ ReceiverMoves
           /\ Return /\ restarts' = restarts
BY DEF Going, SenderMoves, ReceiverMoves, Sending, SenderExpires, SenderTimeout,
   Receiving, ReceiverExpires, ReceiverTimeout

\* The first receiver is given a handshake first.
LEMMA FirstStep ==
    ASSUME TypeOK, TypeOK', ~BUILD_LOCAL_ONLY, OneTurn, FirstReceiver,
           SenderMoves \/ ReceiverMoves, restarts' = restarts
    PROVE  FirstReceiver'
<1>1. CASE SenderMoves
  <2>1. air'["sender"] = {} /\ rpc' = rpc
    BY <1>1, TurnSender, ReceiverAlone DEF SenderMoves
  <2>2. air["sender"] = {} => acked' = acked
    BY <1>1 DEF SenderMoves, SenderStep, StartSend, AckOk, AckWrong, AckGarbled,
       AckTimeout
  <2> QED BY <2>1, <2>2 DEF FirstReceiver
<1>2. CASE ReceiverMoves
  <2>1. acked' = acked
    BY <1>2, SenderAlone DEF ReceiverMoves
  <2>2. CASE Accept \/ RcvGarbled \/ RcvTimeout
    <3>1. air'["sender"] = air["sender"]
      BY <2>2, ReceiverTakes
    <3>2. rpc' \in {"init", "initack"} => rpc = "init" \/ rpc' = rpc
      BY <2>2 DEF Accept, RcvGarbled, RcvTimeout, NothingAccepted
    <3> QED BY <2>1, <3>1, <3>2 DEF FirstReceiver
  <2>3. CASE InitAck \/ SendAck \/ Adapt
    BY <2>3 DEF InitAck, SendAck, Adapt, FirstReceiver
  <2> QED BY <1>2, <2>2, <2>3 DEF ReceiverMoves, ReceiverStep
<1> QED BY <1>1, <1>2

\* What a receiver throws away was due since its restart.
LEMMA BalanceStep ==
    ASSUME TypeOK, TypeOK', ~BUILD_LOCAL_ONLY, OneTurn, FirstReceiver, Balance,
           SenderMoves \/ ReceiverMoves, restarts' = restarts, Return,
           restarts["receiver"] \in Nat
    PROVE  Balance'
<1> DEFINE c == Cardinality(Missing)
           r == restarts["receiver"]
<1>1. IsFiniteSet(Missing) /\ c \in Nat
  BY MissingFinite, Counting
<1>2. Missing' \subseteq Missing =>
         Cardinality(Missing') \in Nat /\ Cardinality(Missing') <= c
  BY <1>1, Counting
<1>3. CASE SenderMoves
  <2>1. Missing' \subseteq Missing /\ rpc' = rpc
    BY <1>3, MissingSender, ReceiverAlone DEF SenderMoves
  <2> QED BY <1>1, <1>2, <2>1 DEF Balance, Due
<1>4. CASE ReceiverMoves /\ ~(Accept /\ rpc = "init")
  <2>1. Missing' \subseteq Missing /\ (rpc' = "init" => rpc = "init")
    BY <1>4, MissingReceiver DEF ReceiverMoves
  <2> QED BY <1>1, <1>2, <2>1 DEF Balance, Due
<1>5. CASE ReceiverMoves /\ Accept /\ rpc = "init"
  <2>1. /\ rpc' = "initack"
        /\ Missing' \subseteq Missing \cup {acked}
        /\ acked = 0 => Missing' \subseteq Missing
    BY <1>5, MissingReceiver DEF ReceiverMoves
  <2>2. Cardinality(Missing') \in Nat /\ Cardinality(Missing') <= c + 1
    BY <1>1, <2>1, Counting
  <2>3. r = 0 => Cardinality(Missing') <= c
    BY <1>2, <1>5, <2>1 DEF FirstReceiver
  <2>4. Due = (IF r > 0 THEN 1 ELSE 0) /\ Due' = 0
    BY <1>5, <2>1 DEF Due
  <2> QED BY <1>1, <2>2, <2>3, <2>4 DEF Balance
<1> QED BY <1>3, <1>4, <1>5

\* A restart of the receiver is worth two slices: what it held and what is due.
LEMMA BalanceRestart ==
    ASSUME RestartTypeOK, RestartTypeOK', OneTurn, FirstReceiver, Balance,
           RestartSender \/ RestartReceiver
    PROVE  FirstReceiver' /\ Balance'
<1> DEFINE c == Cardinality(Missing)
           r == restarts["receiver"]
<1>1. /\ IsFiniteSet(Missing) /\ c \in Nat
      /\ r \in Nat /\ air \in [Node -> SUBSET Packet]
  BY MissingFinite, Counting DEF RestartTypeOK, TypeOK, DriverTypeOK, Node
<1>2. CASE RestartSender
  <2>1. /\ restarts'["receiver"] = r /\ acked' = 0 /\ air'["sender"] = {}
        /\ rpc' = rpc
    BY <1>1, <1>2 DEF RestartSender, Kill, receiverVars, RestartTypeOK, Node
  <2>2. Missing' = {} /\ Cardinality(Missing') = 0
    BY <1>2, MissingRestart, FS_EmptySet
  <2>3. Due' = Due /\ (Due = 0 \/ (Due = 1 /\ r > 0))
    BY <2>1 DEF Due
  <2> QED BY <1>1, <2>1, <2>2, <2>3 DEF FirstReceiver, Balance
<1>3. CASE RestartReceiver
  <2>1. restarts'["receiver"] = r + 1 /\ rpc' = "init"
    BY <1>1, <1>3 DEF RestartReceiver, Kill, RestartTypeOK, Node
  <2>2. Cardinality(Missing') \in Nat /\ Cardinality(Missing') <= c + 1
    BY <1>1, <1>3, MissingRestart, Counting
  <2>3. Due' = 1 /\ Due \in {0, 1}
    BY <1>1, <2>1 DEF Due
  <2> QED BY <1>1, <2>1, <2>2, <2>3 DEF FirstReceiver, Balance
<1> QED BY <1>2, <1>3

LEMMA RestartInitially == RestartInit => RestartTypeOK /\ RadioLoss
<1> SUFFICES ASSUME RestartInit PROVE RestartTypeOK /\ RadioLoss
  OBVIOUS
<1>1. RestartTypeOK
  BY TypeInit DEF RestartInit, RestartTypeOK, Node
<1>2. /\ acked = 0 /\ rpc = "init" /\ restarts["receiver"] = 0
      /\ \A n \in Node : air[n] = {}
  BY DEF RestartInit, Init, DriverInit, SenderInit, ReceiverInit, Node
<1>3. Missing = {} /\ Cardinality(Missing) = 0 /\ Due = 0
  BY <1>2, FS_EmptySet DEF Missing, Promised, Replied, Acknowledged, Due
<1> QED BY <1>1, <1>2, <1>3 DEF RadioLoss, OneTurn, FirstReceiver, Balance, Node

LEMMA RestartTypeStep ==
    RestartTypeOK /\ [RestartNext]_restartVars => RestartTypeOK'
<1> SUFFICES ASSUME RestartTypeOK, [RestartNext]_restartVars PROVE RestartTypeOK'
  OBVIOUS
<1>1. CASE Going(Sending \/ SenderExpires \/ Receiving \/ ReceiverExpires)
  <2>1. Next /\ restarts' = restarts
    BY <1>1, GoingIsNext, OneMoves
  <2> QED BY <2>1, TypeStep DEF RestartTypeOK
<1>2. CASE RestartSender \/ RestartReceiver
  BY <1>2, RestartKeepsType
<1>3. CASE UNCHANGED restartVars
  <2>1. [Next]_vars /\ restarts' = restarts
    BY <1>3 DEF restartVars
  <2> QED BY <2>1, TypeStep DEF RestartTypeOK
<1> QED BY <1>1, <1>2, <1>3 DEF RestartNext

LEMMA RadioLossStep ==
    RestartTypeOK /\ RestartTypeOK' /\ RadioLoss /\ [RestartNext]_restartVars => RadioLoss'
<1> SUFFICES ASSUME RestartTypeOK, RestartTypeOK', ~BUILD_LOCAL_ONLY,
                    OneTurn, FirstReceiver, Balance, [RestartNext]_restartVars
             PROVE  OneTurn' /\ FirstReceiver' /\ Balance'
  BY DEF RadioLoss
<1>1. CASE Going(Sending \/ SenderExpires \/ Receiving \/ ReceiverExpires)
  <2>1. (SenderMoves \/ ReceiverMoves) /\ Return /\ restarts' = restarts
    BY <1>1, OneMoves
  <2>2. TypeOK /\ TypeOK' /\ restarts["receiver"] \in Nat
    BY DEF RestartTypeOK, Node
  <2>3. OneTurn'
    BY <2>1, <2>2, TurnSender, TurnReceiver DEF SenderMoves, ReceiverMoves
  <2> QED BY <2>1, <2>2, <2>3, FirstStep, BalanceStep
<1>2. CASE RestartSender \/ RestartReceiver
  BY <1>2, TurnRestart, BalanceRestart
<1>3. CASE UNCHANGED restartVars
  <2>1. /\ air' = air /\ rpc' = rpc /\ rpkt' = rpkt /\ spc' = spc /\ acked' = acked
        /\ restarts' = restarts /\ returned' = returned
    BY <1>3 DEF restartVars, vars, driverVars, senderVars, receiverVars
  <2>2. Missing' = Missing /\ Due' = Due
    BY <2>1 DEF Missing, Promised, Replied, Acknowledged, InHands, Due
  <2> QED BY <2>1, <2>2 DEF OneTurn, FirstReceiver, Balance
<1> QED BY <1>1, <1>2, <1>3 DEF RestartNext
-----------------------------------------------------------------------------
(* The simulated radio, where nothing is restarted *)

\* Every slice that was delivered is among those returned, and the window says
\* that what is acknowledged has been delivered or is in the receiver's hands.
AllReturned == BUILD_LOCAL_ONLY => Window /\ 1 .. delivered \subseteq returned

LEMMA LocalInitially == RestartInit => AllReturned
BY WindowInit DEF RestartInit, AllReturned, Init, ReceiverInit

LEMMA LocalStep ==
    RestartTypeOK /\ RestartTypeOK' /\ AllReturned /\ [RestartNext]_restartVars
        => AllReturned'
<1> SUFFICES ASSUME TypeOK, TypeOK', BUILD_LOCAL_ONLY, Window,
                    1 .. delivered \subseteq returned, [RestartNext]_restartVars
             PROVE  Window' /\ 1 .. delivered' \subseteq returned'
  BY DEF AllReturned, RestartTypeOK
<1> USE WindowTypes
<1>1. CASE Going(Sending \/ SenderExpires \/ Receiving \/ ReceiverExpires)
  <2>1. Window'
    BY <1>1, GoingIsNext, WindowStep
  <2>2. returned \subseteq returned' /\ (Adapt => delivered' \in returned')
    BY <1>1, OneMoves, ReturnKeeps
  <2>3. CASE delivered' = delivered
    BY <2>1, <2>2, <2>3
  <2>4. CASE delivered' # delivered
    <3>1. Adapt
      BY <1>1, <2>4, OneMoves DEF SenderMoves, ReceiverMoves, receiverVars, ReceiverStep,
         Accept, RcvGarbled, RcvTimeout, NothingAccepted, InitAck, SendAck
    <3>2. delivered' = delivered + 1
      BY <2>4, <3>1 DEF Adapt, Window, ReceiverWindow
    <3> QED BY <2>1, <2>2, <3>1, <3>2
  <2> QED BY <2>3, <2>4
<1>2. CASE RestartSender \/ RestartReceiver
  BY <1>2 DEF RestartSender, RestartReceiver, Kill
<1>3. CASE UNCHANGED restartVars
  <2>1. UNCHANGED vars /\ delivered' = delivered /\ returned' = returned
    BY <1>3 DEF restartVars, vars, receiverVars
  <2> QED BY <2>1, WindowStep
<1> QED BY <1>1, <1>2, <1>3 DEF RestartNext
-----------------------------------------------------------------------------
\* However often the programs are killed, and whenever, a transfer loses no more
\* than two slices for each restart of the receiver, and none for one of the sender
\* (receiver.c:30-52, receiver.c:171).
THEOREM LossIsBounded == RestartSpec => []LossBounded
<1>1. RestartTypeOK /\ RadioLoss /\ ~BUILD_LOCAL_ONLY => LossBounded
  <2> SUFFICES ASSUME TypeOK, restarts["receiver"] \in Nat, Balance
               PROVE  LossBounded
    BY DEF RestartTypeOK, RadioLoss, Node
  <2>1. Lost \subseteq Missing
    BY DEF Lost, Missing, Promised, InHands
  <2>2. Cardinality(Lost) \in Nat /\ Cardinality(Lost) <= Cardinality(Missing)
        /\ Cardinality(Missing) \in Nat
    BY <2>1, MissingFinite, Counting
  <2> QED BY <2>2 DEF LossBounded, Balance, Due
<1>2. ASSUME TypeOK, Window, 1 .. delivered \subseteq returned
      PROVE  Lost = {}
  <2> USE WindowTypes, <1>2
  <2>1. CASE acked = 0
    BY <2>1 DEF Lost, Acknowledged
  <2>2. CASE acked > 0
    <3>1. rpc \in {"listen", "ack", "adapt"} /\ spc \in {"idle", "wait", "spin"}
      BY <2>2 DEF Window, Connecting, TypeOK, ReceiverTypeOK, SenderTypeOK
    <3>2. rpkt.slice + 1 >= pkt.slice
      BY <3>1, PairedFacts DEF Window, ReceiverWindow
    <3>3. rpkt.slice + 1 >= acked
      BY <2>2, <3>1, <3>2 DEF Window, SenderWindow, ReceiverWindow
    <3>4. Acknowledged \subseteq 1 .. rpkt.slice
      BY <3>3 DEF Acknowledged
    <3>5. 1 .. rpkt.slice \subseteq returned \cup InHands
      BY <3>1 DEF Window, ReceiverWindow, InHands
    <3> QED BY <3>4, <3>5 DEF Lost, InHands
  <2> QED BY <2>1, <2>2
<1>3. RestartTypeOK /\ AllReturned /\ BUILD_LOCAL_ONLY => LossBounded
  <2> SUFFICES ASSUME RestartTypeOK, AllReturned, BUILD_LOCAL_ONLY PROVE LossBounded
    OBVIOUS
  <2>1. Lost = {}
    BY <1>2 DEF RestartTypeOK, AllReturned
  <2>2. Cardinality(Lost) = 0 /\ restarts["receiver"] \in Nat
    BY <2>1, FS_EmptySet DEF RestartTypeOK, Node
  <2> QED BY <2>2 DEF LossBounded
<1>4. RestartSpec => [](RestartTypeOK /\ RadioLoss /\ AllReturned)
  <2>1. RestartInit => RestartTypeOK /\ RadioLoss /\ AllReturned
    BY RestartInitially, LocalInitially
  <2>2. RestartTypeOK /\ RadioLoss /\ AllReturned /\ [RestartNext]_restartVars
           => (RestartTypeOK /\ RadioLoss /\ AllReturned)'
    BY RestartTypeStep, RadioLossStep, LocalStep
  <2> QED BY <2>1, <2>2, PTL DEF RestartSpec
<1>5. RestartTypeOK /\ RadioLoss /\ AllReturned => LossBounded
  BY <1>1, <1>3
<1> QED BY <1>4, <1>5, PTL
=============================================================================
