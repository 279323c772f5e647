------------------------------ MODULE Session -------------------------------
(***************************************************************************)
(* Sender and receiver over the driver: two processes, each with its own   *)
(* timer, that share nothing but the frames in the air.                    *)
(***************************************************************************)
EXTENDS Sender, Receiver

CONSTANT
    Prompt      \* TRUE: both programs are fast against their timers: none expires
                \* while a frame waits to be read, nor the sender's while the
                \* receiver is between taking a packet and listening again

ASSUME SessionAssumption == Prompt \in BOOLEAN

vars == <<driverVars, senderVars, receiverVars>>

Init == DriverInit /\ SenderInit /\ ReceiverInit

Sending == SenderStep /\ UNCHANGED receiverVars

Quiet == Listening /\ \A n \in Node : air[n] = {}

SenderTimeout ==
    /\ Prompt => Quiet
    /\ AckTimeout
    /\ UNCHANGED receiverVars

Receiving ==
    /\ ReceiverStep
    /\ UNCHANGED senderVars

ReceiverTimeout ==
    /\ Prompt => air["receiver"] = {}
    /\ RcvTimeout
    /\ UNCHANGED senderVars

\* The tests set the debug flags of the mockup from outside
Debugging ==
    /\ \E n \in Node : \/ cc1200_debug_block_next_write(n)
                       \/ cc1200_debug_corrupt_next_checksum(n)
    /\ UNCHANGED <<senderVars, receiverVars>>

Next == Sending \/ SenderTimeout \/ Receiving \/ ReceiverTimeout \/ Debugging

Spec == Init /\ [][Next]_vars

(***************************************************************************)
(* Fairness.  Both programs are busy loops that nothing blocks, so a step  *)
(* that stays possible is taken.  That is enough over the mockup, whose    *)
(* buffers keep what nobody has read.  A radio needs more: a transmission  *)
(* repeated for ever to a listener on the same rate is heard at last.      *)
(***************************************************************************)
Heard(n) == \E p \in air'[n] : p.intact

Fairness ==
    /\ WF_vars(StartSend /\ UNCHANGED receiverVars)
    /\ WF_vars(AckOk /\ UNCHANGED receiverVars)
    /\ WF_vars(AckWrong /\ UNCHANGED receiverVars)
    /\ WF_vars(AckGarbled /\ UNCHANGED receiverVars)
    /\ WF_vars(SenderTimeout)
    /\ WF_vars(Receiving)
    /\ WF_vars(ReceiverTimeout)

RadioFairness ==
    /\ SF_vars(SenderTimeout /\ Heard("receiver"))
    /\ SF_vars(Receiving /\ Heard("sender"))

FairSpec == Spec /\ Fairness
FairRadioSpec == FairSpec /\ RadioFairness
-----------------------------------------------------------------------------
(* Properties *)

\* All variables keep the types of the fields they stand for.
TypeOK == DriverTypeOK /\ SenderTypeOK /\ ReceiverTypeOK

\* The number of transfers of which the receiver has accepted a copy
received == IF rpc = "init" THEN 0 ELSE rpkt.slice + 1

\* The number of transfers the sender has started
sent == IF spc = "idle" THEN acked ELSE acked + 1

\* The refinement: with retransmissions, a lossy or overwriting medium and a
\* receiver that checks neither ids nor tokens (receiver.c:106-129), the session
\* still is a stop-and-wait transfer.
Abstract == INSTANCE StopAndWait WITH
    NumSlices <- NumSlices, sent <- sent, acked <- acked,
    received <- received, delivered <- delivered
ImplementsStopAndWait == Abstract!Spec

\* ACK numbers wrap, packets are sent again and the mockup keeps old frames, yet
\* the comparison in sender_rcv_ack (sender.c:111) tells exactly the ACKs of the
\* slice in transfer from all others.
AckNumbersSuffice ==
    spc = "wait" =>
        \A a \in air["sender"] : (a.ack = next_ack) <=> (a.slice = acked)

\* Packet number n and slice s belong together: both are those of the packet
\* built last, or both those of the one before it.
Paired(n, s) ==
    \/ n = pkt.id /\ s = pkt.slice
    \/ Inc(n) = pkt.id /\ s + 1 = pkt.slice

\* Where the sender is in its numbering
SenderWindow ==
    /\ spc = "idle" /\ acked = 0 => pkt = Blank /\ next_ack = 1
    /\ spc = "idle" /\ acked > 0 => pkt.slice + 1 = acked /\ next_ack = Inc(pkt.id)
    /\ spc = "wait" => pkt.slice = acked /\ next_ack = pkt.id
    /\ spc = "spin" => pkt.slice = acked

\* Before its first ACK the receiver holds the handshake at most
Connecting ==
    /\ spc = "idle" /\ acked = 0 => rpc = "init" /\ air["receiver"] = {}
    /\ rpc \in {"init", "initack"} =>
        /\ acked = 0 /\ delivered = 0
        /\ spc \in {"idle", "wait"}
        /\ air["sender"] = {}

\* The receiver is at the sender's transfer or at the one before it, and has
\* delivered all but at most the packet in its hands
ReceiverWindow ==
    rpc # "init" =>
        /\ last_ack_rcv = rpkt.id
        /\ Paired(rpkt.id, rpkt.slice)
        /\ spc # "wait" => rpkt.slice = pkt.slice
        /\ rpc = "listen" => rpkt.slice = delivered
        /\ rpc \in {"ack", "adapt"} => rpkt.slice \in {delivered, delivered + 1}

\* What waits to be read never takes either side back
AirWindow ==
    /\ \A p \in air["receiver"] :
          Paired(p.id, p.slice) /\ (rpc # "init" => p.slice >= rpkt.slice)
    /\ \A a \in air["sender"] :
          /\ Paired(a.ack, a.slice) /\ a.slice <= rpkt.slice
          /\ spc = "idle" => a.slice = pkt.slice

\* The inductive invariant behind the refinement: whatever is lost, repeated or
\* overwritten, no frame and neither side is ever more than one transfer behind,
\* although nobody checks ids on reception (receiver.c:119-127).
Window == SenderWindow /\ Connecting /\ ReceiverWindow /\ AirWindow

\* With a radio the air is never used from both sides: a flushed FIFO and
\* strict turns leave at most one frame that somebody may still read.
OneFrameInAir ==
    ~BUILD_LOCAL_ONLY => air["sender"] = {} \/ air["receiver"] = {}

\* With a radio every ACK that can still be read answers the slice in transfer,
\* so the retransmission at sender.c:176-182 is never reached.
NoStaleAck ==
    ~BUILD_LOCAL_ONLY /\ spc = "wait" =>
        \A a \in air["sender"] : a.ack = next_ack

\* Rate announcements keep the two radios together: after an acknowledged slice
\* both are on the same rate, however often the packet was repeated with other
\* announcements, until the receiver has counted RCV_MAX_TIMEOUTS failures.
\* This takes a prompt receiver.
SyncAfterAck ==
    Prompt /\ spc = "idle" /\ acked > 0 /\ rpc = "listen"
        /\ timeout_counter < RCV_MAX_TIMEOUTS
        => rate["sender"] = rate["receiver"]

Done == acked = NumSlices + 1

\* The transmitter is off the fallback rate although Minstrel fell back to it:
\* is_new_rate is computed from the rate table, not from the radio.
Stranded ==
    /\ spc = "wait" /\ minstrel.rate_state = FALLBACK_RATE
    /\ rate["sender"] # minstrel.r[FALLBACK_RATE]

\* Over the mockup every slice is acknowledged, whatever order the threads run
\* in, unless set_probe_rate never returns.
EventuallyDone == <>(Done \/ spc = "spin")

\* Over a radio that is heard again and again there are two ways only in which
\* a transfer can hang: set_probe_rate spins, or the sender is stranded on a
\* rate which the receiver has left.
DoneOrStranded == <>(Done \/ spc = "spin") \/ <>[]Stranded

-----------------------------------------------------------------------------
(* What the documents say and the code does not do *)

\* test_controller_communication.c:458 asserts that the payloads returned by
\* receiver_receive_and_ack make up the data in order: no slice comes twice.
NoDuplicate == [][Adapt => delivered' = delivered + 1]_vars

\* minstrel.c:152-153 promises the way down to the fallback rate after timeouts:
\* when the update has arrived there the packet is sent on that rate.
FallbackIsUsed ==
    spc = "wait" /\ minstrel.state = "PACKET_TIMEOUT" => ~Stranded
=============================================================================
