---------------------------- MODULE StopAndWait -----------------------------
(***************************************************************************)
(* What the protocol promises to the application: slices are handed over   *)
(* one at a time, each is received before it is acknowledged, and they     *)
(* are delivered in order, without a gap, each at least once.              *)
(***************************************************************************)
EXTENDS Naturals

CONSTANT NumSlices      \* slices after the handshake, which is slice 0

VARIABLES
    sent,       \* transfers the sender has started
    received,   \* transfers of which the receiver has a copy
    acked,      \* transfers the sender knows to have arrived
    delivered   \* the slice the receiving application has got last

vars == <<sent, received, acked, delivered>>

Init == sent = 0 /\ received = 0 /\ acked = 0 /\ delivered = 0

\* The next transfer starts when the previous one is acknowledged
Start ==
    /\ sent = acked /\ sent <= NumSlices
    /\ sent' = sent + 1
    /\ UNCHANGED <<received, acked, delivered>>

\* A first copy arrives, after the slice before it has been delivered
Arrive ==
    /\ received < sent
    /\ received <= delivered + 1
    /\ received' = received + 1
    /\ UNCHANGED <<sent, acked, delivered>>

\* The slice that arrived last is delivered; a further copy is no news
Deliver ==
    /\ received = delivered + 2
    /\ delivered' = delivered + 1
    /\ UNCHANGED <<sent, received, acked>>

\* Only what has been received is acknowledged
Acknowledge ==
    /\ acked < sent /\ received = sent
    /\ acked' = acked + 1
    /\ UNCHANGED <<sent, received, delivered>>

Next == Start \/ Arrive \/ Deliver \/ Acknowledge

Spec == Init /\ [][Next]_vars
=============================================================================
