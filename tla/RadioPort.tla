----------------------------- MODULE RadioPort ------------------------------
(***************************************************************************)
(* What the two calls of a radio driver promise to the controllers: a send *)
(* returns after its packet was on the air, once; a get returns a packet   *)
(* whose reception was completed during the call, or says that there was   *)
(* none or a damaged one.  If its checksum lets it, it may also take for a *)
(* packet what stands out of step in frames that were in the air during    *)
(* the call.  Nothing of an earlier call is ever returned.                 *)
(***************************************************************************)
CONSTANTS
    Frames,             \* packets
    Noise,              \* damaged frames
    OutOfStep(_, _)     \* packets found in the rest of one frame and the next

VARIABLES
    call,       \* "none", "send" or "get"
    packet,     \* the packet to be sent
    aired,      \* the packet that was transmitted last, in a set
    done,       \* the packet of this call has been transmitted
    begun,      \* frames whose reception began or went on since the call began
    heard,      \* packets received since then
    result      \* what the last call returned

vars == <<call, packet, aired, done, begun, heard, result>>

NoPacket == <<>>

Init ==
    /\ call = "none" /\ packet = NoPacket
    /\ aired = {} /\ done = FALSE
    /\ begun = {} /\ heard = {} /\ result = <<"none", NoPacket>>

BeginSend(p) ==
    /\ call = "none" /\ call' = "send"
    /\ packet' = p /\ done' = FALSE
    /\ UNCHANGED <<aired, begun, heard, result>>

Transmit ==
    /\ call = "send" /\ ~done /\ done' = TRUE
    /\ aired' = {packet}
    /\ UNCHANGED <<call, packet, begun, heard, result>>

EndSend ==
    /\ call = "send" /\ done
    /\ call' = "none" /\ packet' = NoPacket /\ done' = FALSE
    /\ result' = <<"sent", NoPacket>>
    /\ UNCHANGED <<aired, begun, heard>>

\* A frame may be coming in already
BeginGet ==
    /\ call = "none" /\ call' = "get"
    /\ begun' \in {{}} \cup {{f} : f \in Frames \cup Noise}
    /\ heard' = {}
    /\ UNCHANGED <<packet, aired, done, result>>

Begin(f) ==
    /\ call = "get"
    /\ begun' = begun \cup {f}
    /\ UNCHANGED <<call, packet, aired, done, heard, result>>

Hear(p) ==
    /\ call = "get" /\ p \in begun
    /\ heard' = heard \cup {p}
    /\ UNCHANGED <<call, packet, aired, done, begun, result>>

EndGet ==
    /\ call = "get" /\ call' = "none"
    /\ \/ \E p \in heard : result' = <<"ok", p>>
       \/ \E f, g \in begun : \E p \in OutOfStep(f, g) : result' = <<"ok", p>>
       \/ result' \in {<<"checksum", NoPacket>>, <<"timeout", NoPacket>>}
    /\ begun' = {} /\ heard' = {}
    /\ UNCHANGED <<packet, aired, done>>

\* The program ends and starts anew
Restart ==
    /\ call' = "none" /\ packet' = NoPacket /\ done' = FALSE
    /\ begun' = {} /\ heard' = {} /\ result' = <<"none", NoPacket>>
    /\ UNCHANGED aired

Next ==
    \/ \E p \in Frames : BeginSend(p) \/ Hear(p)
    \/ \E f \in Frames \cup Noise : Begin(f)
    \/ Transmit \/ EndSend
    \/ BeginGet \/ EndGet
    \/ Restart

Spec == Init /\ [][Next]_vars
=============================================================================
