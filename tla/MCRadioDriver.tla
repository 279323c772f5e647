---------------------------- MODULE MCRadioDriver ----------------------------
(***************************************************************************)
(* RadioDriver with one packet and a damaged frame, whose bytes are also   *)
(* lengths a reader out of step can take them for; one of them is followed *)
(* by the bytes of the packet.                                             *)
(***************************************************************************)
EXTENDS RadioDriver

MCFrames == {<<0, 1>>}
MCNoise == {<<2, 0, 1>>}

\* A reader out of step finds the packet in the damaged frame, and nowhere else
ASSUME FoundInNoise ==
    \A f, g \in MCFrames \cup MCNoise :
        OutOfStep(f, g) = IF f \in MCNoise THEN MCFrames ELSE {}

\* The run selects one rate; the formula is evaluated for all of them
ASSUME EveryRateSpelt ==
    \A bauds \in {MINSTREL_RATES[r] : r \in DOMAIN MINSTREL_RATES} :
        LET w == RateWrites(bauds)
        IN  Spells(w[1].val, w[2].val, w[3].val, bauds)
=============================================================================
