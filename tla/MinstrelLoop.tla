---------------------------- MODULE MinstrelLoop ----------------------------
(***************************************************************************)
(* minstrel.c driven the way sender_send_and_ack drives it: the update of  *)
(* one packet id is repeated after every failed exchange and the id is     *)
(* advanced after an acknowledged one.  No radio and no receiver: every    *)
(* pattern of successes and failures is possible.                          *)
(***************************************************************************)
EXTENDS Minstrel

CONSTANTS
    IdMod,      \* ids count modulo this (2^32 in the code)
    MaxFails    \* the ghost `fails' stops counting here

ASSUME LoopAssumption ==
    /\ IdMod \in Nat /\ IdMod >= 1
    /\ MaxFails \in Nat

VARIABLES
    minstrel,   \* the Minstrel struct and the globals of minstrel.c
    id,         \* id of the packet in transfer
    fails       \* ghost: failed exchanges since the last success

vars == <<minstrel, id, fails>>

Init ==
    /\ minstrel = Zeroed
    /\ id = 2 % IdMod       \* the handshake has used 1 and skips Minstrel
    /\ fails = 0

\* A failed exchange: the same id is tried again
Fail ==
    /\ ~minstrel.spinning
    /\ minstrel' \in minstrel_update(minstrel, FALSE, id)
    /\ fails' = IF fails < MaxFails THEN fails + 1 ELSE fails
    /\ UNCHANGED id

\* An acknowledged exchange: sender->next_ack has been advanced
Succeed ==
    /\ ~minstrel.spinning
    /\ minstrel' \in minstrel_update(minstrel, TRUE, id)
    /\ fails' = 0
    /\ id' = (id + 1) % IdMod

Next == Fail \/ Succeed

Spec == Init /\ [][Next]_vars
-----------------------------------------------------------------------------
(* Properties *)

\* The variables keep the types of the struct fields they stand for.
TypeOK ==
    /\ minstrel \in Minstrel
    /\ id \in 0 .. IdMod - 1
    /\ fails \in 0 .. MaxFails

\* One failure may be swallowed by is_prob_ack, then each group of
\* TimeoutLimit + 1 failures takes one of the five steps down from PROBE_RATE.
FailsToFallback == 1 + 5 * (TimeoutLimit + 1)

\* A link that stays silent is tried at the fallback rate after a bounded
\* number of attempts, whatever was going on before: the skipped update after a
\* probe (minstrel.c:187), the failure counter that no success resets and a
\* probe under evaluation delay the descent but cannot restart it.
FallbackWithin ==
    fails >= FailsToFallback => minstrel.rate_state = FALLBACK_RATE

\* How far the descent is still away, in failed exchanges
Distance(m) ==
    m.rate_state * (TimeoutLimit + 1) - m.timeout_count
        + (IF m.is_prob_ack THEN 1 ELSE 0)

\* The strengthening that makes FallbackWithin inductive: the failures seen and
\* those still needed never exceed the bound.
FallbackProgress ==
    \/ minstrel.rate_state = FALLBACK_RATE
    \/ fails + Distance(minstrel) <= FailsToFallback

\* What the retry chain of minstrel.c rests on: current and best are one rate, best
\* and highest_prob have been measured at least once (or nothing has been measured
\* yet), and the fallback rate is the lowest, although the statistics and the rate
\* table are updated in different calls.
RatesConsistent ==
    LET r == minstrel.r
        Known == minstrel.measured \cup {0}
    IN  /\ r[CURRENT_RATE] = r[BEST_RATE]
        /\ r[BEST_RATE] \in Known /\ r[HIGHEST_PROB_RATE] \in Known
        /\ r[FALLBACK_RATE] = 0

\* The update that is_prob_ack suppresses is the one of the packet that merely
\* announces the probe: the announced rate is a probe above the current rate
\* and its evaluation is still to come.
SkipIsForProbe ==
    minstrel.is_prob_ack /\ ~minstrel.spinning =>
        /\ minstrel.state = "PROBE"
        /\ minstrel.rate_state = PROBE_RATE
        /\ minstrel.r[PROBE_RATE] > minstrel.r[CURRENT_RATE]

\* minstrel.c:135 `Pick a random rate not equal to the current one': picking
\* comes to an end.
PickingEnds == ~minstrel.spinning
=============================================================================
