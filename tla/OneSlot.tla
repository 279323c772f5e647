------------------------------ MODULE OneSlot -------------------------------
(***************************************************************************)
(* What Driver takes the buffer of the simulated radio to be: one slot     *)
(* which every write overwrites and every read empties, each in one step.  *)
(***************************************************************************)
EXTENDS Naturals

CONSTANT Frame      \* numbers, in the order in which the frames are made

VARIABLES
    slot,   \* at most one frame
    got     \* the frame read last, 0 before the first

vars == <<slot, got>>

Init == slot = {} /\ got = 0

\* A newer frame replaces what is in the slot
Write ==
    /\ \E f \in Frame : f > got /\ (\A g \in slot : f > g) /\ slot' = {f}
    /\ UNCHANGED got

Read ==
    /\ got' \in slot
    /\ slot' = {}

Next == Write \/ Read

Spec == Init /\ [][Next]_vars
=============================================================================
