---------------------------- MODULE RateControl -----------------------------
(***************************************************************************)
(* The three programs that contain a rate control: minstrel.c is linked    *)
(* with BUILD_REAL_MINSTREL only, minstrel_mockup.c otherwise, and the     *)
(* simulation has a version of its own.  Which one it is is chosen at the  *)
(* start; the first is driven as in MinstrelLoop, the others alike.        *)
(***************************************************************************)
EXTENDS MinstrelLoop

CONSTANT PktCounts      \* see MinstrelMockup

ASSUME RateControlAssumption == PktCounts \in Nat \ {0}

Mockup == INSTANCE MinstrelMockup
Sim == INSTANCE StatsSim

VARIABLES
    program,    \* "minstrel", "mockup" or "simulation"
    mockup,     \* the struct as minstrel_mockup.c uses it
    sim         \* the struct of the simulation

rateVars == <<vars, program, mockup, sim>>

\* The handshake, which does not update, comes first in the two sender programs
RateInit ==
    /\ program \in {"minstrel", "mockup", "simulation"}
    /\ minstrel = Zeroed /\ fails = 0
    /\ id = IF program = "simulation" THEN 0 ELSE 2 % IdMod
    /\ mockup = Mockup!Zeroed
    /\ sim = Sim!Initial

Count(ok) ==
    fails' = IF ok THEN 0 ELSE IF fails < MaxFails THEN fails + 1 ELSE fails

MinstrelStep ==
    /\ program = "minstrel"
    /\ Next
    /\ UNCHANGED <<program, mockup, sim>>

\* A pass of sender_send_and_ack
MockupStep(ok) ==
    /\ program = "mockup"
    /\ mockup' = Mockup!AfterPass(mockup, ok)
    /\ Count(ok)
    /\ UNCHANGED <<minstrel, id, program, sim>>

\* A round of the loop of main in the simulation: get_new_packet counts each
\* attempt as a packet of its own
SimStep(ok) ==
    /\ program = "simulation"
    /\ id' = (id + 1) % IdMod
    /\ sim' \in Sim!minstrel_update(sim, ok, id')
    /\ Count(ok)
    /\ UNCHANGED <<minstrel, program, mockup>>

RateNext == MinstrelStep \/ \E ok \in BOOLEAN : MockupStep(ok) \/ SimStep(ok)

RateSpec == RateInit /\ [][RateNext]_rateVars
-----------------------------------------------------------------------------
(* Properties *)

\* The rate of the next packet
NextRate ==
    CASE program = "minstrel" -> minstrel_get_next_rate(minstrel)
      [] program = "mockup" -> mockup.current
      [] program = "simulation" -> Sim!minstrel_get_next_rate(sim)

\* Failures after which the program is sure to be at the lowest rate.  In the
\* simulation one may be skipped, and five steps lead down from PROBE_RATE.
Patience ==
    CASE program = "minstrel" -> FailsToFallback
      [] program = "mockup" -> 1
      [] program = "simulation" -> 6

\* Whichever program it is, a silent link is tried at the lowest rate, the one a
\* receiver without a packet listens on, after a bounded number of failures: a
\* probe, a skipped update or rates recomputed on the way do not lead off again.
LowestRateWithin == fails >= Patience => NextRate = 0

\* In the simulation, too, the rate table is that of the statistics: current is
\* best, the second best is measured and below it, and a skip belongs to a probe
\* that is being announced.
SimConsistent ==
    LET Known == sim.measured \cup {0}
    IN  /\ sim.r[CURRENT_RATE] = sim.r[BEST_RATE]
        /\ {sim.r[k] : k \in {HIGHEST_PROB_RATE, SECOND_BEST_RATE, BEST_RATE}} \subseteq Known
        /\ sim.r[SECOND_BEST_RATE] < sim.r[BEST_RATE] \/ sim.r[SECOND_BEST_RATE] = 0
        /\ sim.is_prob_ack => sim.state = "PROBE" /\ sim.rate_state = PROBE_RATE
=============================================================================
