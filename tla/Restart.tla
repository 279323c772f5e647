------------------------------ MODULE Restart -------------------------------
(***************************************************************************)
(* A session over radios in which the two programs may be killed and       *)
(* started again, each on its own.  Nothing of a program survives: the     *)
(* radio is reset and on rate 0, Minstrel and the counters are zeroed, the *)
(* sender begins with a handshake and the first slice, the receiver waits  *)
(* for a handshake.  The other side is not told.  Prompt is FALSE in this  *)
(* module: whether the programs are is chosen at the start.                *)
(***************************************************************************)
EXTENDS Session, FiniteSets

CONSTANT
    MaxRestarts     \* restarts of each program (bound)

ASSUME RestartAssumption == MaxRestarts \in Nat

VARIABLES
    restarts,   \* ghost: how often each program was started again
    prompt,     \* both programs are fast against their timers, as in Session
    returned    \* ghost: the slices that any receiver has returned to its caller

restartVars == <<vars, restarts, prompt, returned>>

RestartInit ==
    /\ Init
    /\ restarts = [n \in Node |-> 0]
    /\ prompt \in BOOLEAN
    /\ returned = {}

Return == returned' = IF Adapt THEN returned \cup {delivered'} ELSE returned

\* A step of the session itself
Going(step) == step /\ Return /\ UNCHANGED <<restarts, prompt>>

\* The timers of a prompt program, see Session
SenderExpires == (prompt => Quiet) /\ SenderTimeout
ReceiverExpires == (prompt => air["receiver"] = {}) /\ ReceiverTimeout

\* Mutant: the radio stays on the rate of the register table
Kill_TableRate(n) ==
    /\ ~BUILD_LOCAL_ONLY
    /\ restarts[n] < MaxRestarts
    /\ restarts' = [restarts EXCEPT ![n] = @ + 1]
    /\ rate' = [rate EXCEPT ![n] = 1]
    /\ air' = [air EXCEPT ![n] = {}]
    /\ UNCHANGED <<debugVars, prompt>>

\* The radio of n is reset, and what it has received is lost
Kill(n) ==
    /\ ~BUILD_LOCAL_ONLY
    /\ restarts[n] < MaxRestarts
    /\ restarts' = [restarts EXCEPT ![n] = @ + 1]
    /\ rate' = [rate EXCEPT ![n] = 0]
    /\ air' = [air EXCEPT ![n] = {}]
    /\ UNCHANGED <<debugVars, prompt>>

RestartSender ==
    /\ Kill("sender")
    /\ rx' = rx \ {"sender"}
    /\ spc' = "idle" /\ acked' = 0 /\ next_ack' = 1
    /\ pkt' = Blank /\ minstrel' = Zeroed
    /\ s_token_sender' \in Tokens /\ s_token_receiver' = 0
    /\ returned' = {}
    /\ UNCHANGED receiverVars

RestartReceiver ==
    /\ Kill("receiver")
    /\ rx' = rx \cup {"receiver"}
    /\ rpc' = "init" /\ rpkt' = Blank /\ last_ack_rcv' = 0
    /\ last' = [f \in DOMAIN last |-> 0] /\ timeout_counter' = 0
    /\ \E t \in Tokens : r_token_receiver' = IF t = 0 THEN 1 ELSE t
    /\ r_token_sender' = 0
    /\ UNCHANGED <<senderVars, delivered, returned>>

RestartNext ==
    \/ Going(Sending \/ SenderExpires \/ Receiving \/ ReceiverExpires)
    \/ RestartSender
    \/ RestartReceiver

RestartSpec == RestartInit /\ [][RestartNext]_restartVars

\* The fairness of Session, for the steps of the session itself
RestartFairness ==
    /\ WF_restartVars(Going(StartSend /\ UNCHANGED receiverVars))
    /\ WF_restartVars(Going(AckOk /\ UNCHANGED receiverVars))
    /\ WF_restartVars(Going(AckWrong /\ UNCHANGED receiverVars))
    /\ WF_restartVars(Going(AckGarbled /\ UNCHANGED receiverVars))
    /\ WF_restartVars(Going(SenderExpires))
    /\ WF_restartVars(Going(Receiving))
    /\ WF_restartVars(Going(ReceiverExpires))
    /\ SF_restartVars(Going(SenderExpires /\ Heard("receiver")))
    /\ SF_restartVars(Going(Receiving /\ Heard("sender")))

FairRestartSpec == RestartSpec /\ RestartFairness
-----------------------------------------------------------------------------
(* Properties *)

\* Slices the sender knows to have arrived
Acknowledged == 1 .. acked - 1

\* Slices that will never be returned, as they are not even in the receiver's hands
Lost == Acknowledged \ (returned \cup IF rpc \in {"ack", "adapt"} THEN {rpkt.slice} ELSE {})

\* A receiver that starts in the middle of a transfer takes the first packet it
\* hears for the handshake, acknowledges it and throws the payload away
\* (receiver.c:30-52), and the one killed may have acknowledged a slice it has
\* not returned: two slices per restart, and never more.
LossBounded == Cardinality(Lost) <= 2 * restarts["receiver"]

\* A program that restarts finds its peer again: a running receiver comes down to
\* the rate of a new handshake, a sender to that of a new receiver, and the whole
\* data arrive unless the sender spins or is stranded, as without restarts.
Recovers == prompt => DoneOrStranded
=============================================================================
