------------------------- MODULE RateControl_proofs --------------------------
(***************************************************************************)
(* The loop of MinstrelLoop and the three programs of RateControl for      *)
(* every number of rates, interval and limit.                              *)
(*                                                                         *)
(* First minstrel.c: types, the bounded descent to the fallback rate and   *)
(* the consistency of the rate table.  Then all three programs: each comes *)
(* down to the lowest rate on a silent link, and the table of the          *)
(* simulation is consistent.  A behaviour is one of minstrel.c, of         *)
(* minstrel_mockup.c or of the simulation; each of the three has its own   *)
(* invariant.                                                              *)
(***************************************************************************)
EXTENDS RateControl, Minstrel_proofs

\* A step of the loop is one call of minstrel_update.
LEMMA StepIsUpdate ==
    ASSUME TypeOK, Next
    PROVE  /\ \E ok \in BOOLEAN : minstrel' \in minstrel_update(minstrel, ok, id)
           /\ id \in Nat /\ minstrel \in Minstrel
<1>1. id \in Nat /\ minstrel \in Minstrel
  BY LoopAssumption DEF TypeOK
<1>2. CASE Fail
  BY <1>1, <1>2 DEF Fail
<1>3. CASE Succeed
  BY <1>1, <1>3 DEF Succeed
<1> QED BY <1>2, <1>3 DEF Next

\* The loop keeps the struct, the id and the failure count well typed.
THEOREM TypeCorrect == Spec => []TypeOK
<1>1. Init => TypeOK
  BY ZeroedType, LoopAssumption DEF Init, TypeOK
<1>2. TypeOK /\ [Next]_vars => TypeOK'
  <2> SUFFICES ASSUME TypeOK, [Next]_vars PROVE TypeOK'
    OBVIOUS
  <2>1. CASE Next
    <3>1. minstrel' \in Minstrel
      BY <2>1, StepIsUpdate, UpdateType
    <3>2. id \in 0 .. IdMod - 1 /\ fails \in 0 .. MaxFails
      BY DEF TypeOK
    <3>3. CASE Fail
      <4>1. id' = id /\ fails' = IF fails < MaxFails THEN fails + 1 ELSE fails
        BY <3>3 DEF Fail
      <4>2. fails' \in 0 .. MaxFails
        BY <3>2, <4>1, LoopAssumption
      <4> QED BY <3>1, <3>2, <4>1, <4>2 DEF TypeOK
    <3>4. CASE Succeed
      <4>1. id' = (id + 1) % IdMod /\ fails' = 0
        BY <3>4 DEF Succeed
      <4>2. id' \in 0 .. IdMod - 1 /\ fails' \in 0 .. MaxFails
        BY <3>2, <4>1, LoopAssumption
      <4> QED BY <3>1, <4>2 DEF TypeOK
    <3> QED BY <2>1, <3>3, <3>4 DEF Next
  <2>2. CASE UNCHANGED vars
    BY <2>2 DEF TypeOK, vars
  <2> QED BY <2>1, <2>2
<1> QED BY <1>1, <1>2, PTL DEF Spec
-----------------------------------------------------------------------------
\* update_rates writes the table only.
LEMMA UpdateRatesKeeps ==
    ASSUME NEW m \in Minstrel, NEW n \in update_rates(m)
    PROVE  /\ n.rate_state = m.rate_state
           /\ n.timeout_count = m.timeout_count
           /\ n.is_prob_ack = m.is_prob_ack
           /\ n.spinning = m.spinning
           /\ n.measured = m.measured
BY DEF update_rates, Minstrel

\* The descent of one failed exchange: it clears is_prob_ack, counts the failure
\* or steps down one rate state (minstrel.c:187-212).
LEMMA FailureDescends ==
    ASSUME NEW m \in Minstrel, NEW id0 \in Nat,
           NEW n \in minstrel_update(m, FALSE, id0)
    PROVE  \/ n.rate_state = FALLBACK_RATE
           \/ Distance(n) <= Distance(m) - 1
<1>1. CASE m.is_prob_ack
  <2>1. n = [m EXCEPT !.is_prob_ack = FALSE]
    BY <1>1 DEF minstrel_update
  <2> QED BY <1>1, <2>1, MinstrelAssumption DEF Distance, Minstrel, RateState
<1>2. CASE ~m.is_prob_ack
  <2>1. PICK u \in (IF m.state = "PROBE" THEN update_rates(m) ELSE {m}) :
           n \in Account(u, FALSE, id0)
    BY <1>2 DEF minstrel_update
  <2>2. /\ u \in Minstrel
        /\ u.rate_state = m.rate_state
        /\ u.timeout_count = m.timeout_count
        /\ u.is_prob_ack = FALSE
    BY <1>2, <2>1, UpdateRatesType, UpdateRatesKeeps DEF Minstrel
  <2> DEFINE v == [u EXCEPT !.state = "RUNNING"]
  <2>3. log_package_status(v, FALSE) = v
    BY <2>2 DEF log_package_status, Minstrel
  <2>4. /\ v \in Minstrel
        /\ v.rate_state = m.rate_state
        /\ v.timeout_count = m.timeout_count
        /\ v.is_prob_ack = FALSE
    BY <2>2 DEF Minstrel, MinstrelState
  <2>5. n \in OnFailure(v)
    BY <2>1, <2>3 DEF Account
  <2> HIDE DEF v
  <2>6. CASE v.timeout_count = TimeoutLimit
    <3> DEFINE w == [v EXCEPT !.state = "PACKET_TIMEOUT", !.timeout_count = 0]
    <3>1. /\ w.rate_state = m.rate_state
          /\ w.is_prob_ack = FALSE
          /\ w.timeout_count = 0
          /\ DOMAIN w = DOMAIN v
      BY <2>4 DEF Minstrel
    <3>2. n = SwitchTo(w, StepDown(w.rate_state), w.r[PROBE_RATE])
      BY <2>5, <2>6 DEF OnFailure, AfterTimeout
    <3>3. /\ n.rate_state = StepDown(m.rate_state)
          /\ n.timeout_count = 0
          /\ n.is_prob_ack = FALSE
      BY <2>4, <3>1, <3>2 DEF SwitchTo, Minstrel
    <3>4. m.rate_state \in RateState
      BY DEF Minstrel
    <3>5. m.timeout_count = TimeoutLimit
      BY <2>4, <2>6
    <3>6. CASE m.rate_state = FALLBACK_RATE
      BY <3>3, <3>6 DEF StepDown
    <3>7. CASE m.rate_state # FALLBACK_RATE
      <4>1. n.rate_state = m.rate_state - 1
        BY <3>3, <3>7 DEF StepDown
      <4>2. m.rate_state \in {1, 2, 3, 4, 5}
        BY <3>4, <3>7 DEF RateState, FALLBACK_RATE
      <4>3. Distance(n) = (m.rate_state - 1) * (TimeoutLimit + 1)
        BY <3>3, <4>1, <4>2, MinstrelAssumption DEF Distance
      <4>4. Distance(m) = m.rate_state * (TimeoutLimit + 1) - TimeoutLimit
        BY <1>2, <3>5, <4>2, MinstrelAssumption DEF Distance
      <4>5. (m.rate_state - 1) * (TimeoutLimit + 1)
               = m.rate_state * (TimeoutLimit + 1) - (TimeoutLimit + 1)
        BY <4>2, MinstrelAssumption
      <4>6. m.rate_state * (TimeoutLimit + 1) \in Int
        BY <4>2, MinstrelAssumption
      <4> QED BY <4>3, <4>4, <4>5, <4>6, MinstrelAssumption
    <3> QED BY <3>6, <3>7
  <2>7. CASE v.timeout_count # TimeoutLimit
    <3>1. n = [v EXCEPT !.timeout_count = @ + 1]
      BY <2>5, <2>7 DEF OnFailure
    <3>2. /\ n.rate_state = m.rate_state
          /\ n.timeout_count = m.timeout_count + 1
          /\ n.is_prob_ack = FALSE
      BY <2>4, <3>1 DEF Minstrel
    <3> QED BY <1>2, <3>2, MinstrelAssumption DEF Distance, Minstrel, RateState
  <2> QED BY <2>6, <2>7
<1> QED BY <1>1, <1>2

\* A failed exchange never leaves the fallback rate (minstrel.c:154-156).
LEMMA FailureStaysLow ==
    ASSUME NEW m \in Minstrel, NEW id0 \in Nat,
           NEW n \in minstrel_update(m, FALSE, id0),
           m.rate_state = FALLBACK_RATE
    PROVE  n.rate_state = FALLBACK_RATE
<1>1. CASE m.is_prob_ack
  BY <1>1 DEF minstrel_update, Minstrel
<1>2. CASE ~m.is_prob_ack
  <2>1. PICK u \in (IF m.state = "PROBE" THEN update_rates(m) ELSE {m}) :
           n \in Account(u, FALSE, id0)
    BY <1>2 DEF minstrel_update
  <2>2. u \in Minstrel /\ u.rate_state = FALLBACK_RATE
    BY <2>1, UpdateRatesType, UpdateRatesKeeps
  <2> DEFINE v == [u EXCEPT !.state = "RUNNING"]
  <2>3. log_package_status(v, FALSE) = v
    BY <2>2 DEF log_package_status, Minstrel
  <2>4. v \in Minstrel /\ v.rate_state = FALLBACK_RATE
    BY <2>2 DEF Minstrel, MinstrelState
  <2>5. n \in OnFailure(v)
    BY <2>1, <2>3 DEF Account
  <2> HIDE DEF v
  <2> QED BY <2>4, <2>5
        DEF OnFailure, AfterTimeout, SwitchTo, StepDown, Minstrel
<1> QED BY <1>1, <1>2

\* No struct is further from the fallback rate than FailsToFallback.
LEMMA DistanceBounded ==
    ASSUME NEW m \in Minstrel
    PROVE  Distance(m) \in Int /\ Distance(m) <= FailsToFallback
<1>1. m.rate_state \in {0, 1, 2, 3, 4, 5} /\ m.timeout_count \in Nat
  BY MinstrelAssumption DEF Minstrel, RateState
<1>2. m.rate_state * (TimeoutLimit + 1) \in Int
  BY <1>1, MinstrelAssumption
<1>3. m.rate_state * (TimeoutLimit + 1) <= 5 * (TimeoutLimit + 1)
  BY <1>1, MinstrelAssumption
<1> QED BY <1>1, <1>2, <1>3, MinstrelAssumption DEF Distance, FailsToFallback

\* The inductive strengthening of FallbackWithin.
THEOREM DescentProgress == Spec => []FallbackProgress
<1>1. Init => FallbackProgress
  BY DEF Init, FallbackProgress, Zeroed
<1>2. TypeOK /\ FallbackProgress /\ [Next]_vars => FallbackProgress'
  <2> SUFFICES ASSUME TypeOK, FallbackProgress, [Next]_vars PROVE FallbackProgress'
    OBVIOUS
  <2>1. minstrel \in Minstrel /\ id \in Nat /\ fails \in Nat
    BY LoopAssumption DEF TypeOK
  <2>2. CASE Fail
    <3>1. minstrel' \in minstrel_update(minstrel, FALSE, id)
      BY <2>2 DEF Fail
    <3>2. minstrel' \in Minstrel
      BY <2>1, <3>1, UpdateType
    <3>3. CASE minstrel.rate_state = FALLBACK_RATE
      <4>1. minstrel'.rate_state = FALLBACK_RATE
        BY <2>1, <3>1, <3>3, FailureStaysLow
      <4> QED BY <4>1 DEF FallbackProgress
    <3>4. CASE minstrel.rate_state # FALLBACK_RATE
      <4>1. fails + Distance(minstrel) <= FailsToFallback
        BY <3>4 DEF FallbackProgress
      <4>2. fails' <= fails + 1 /\ fails' \in Nat
        BY <2>1, <2>2, LoopAssumption DEF Fail
      <4>3. \/ minstrel'.rate_state = FALLBACK_RATE
            \/ Distance(minstrel') <= Distance(minstrel) - 1
        BY <2>1, <3>1, FailureDescends
      <4>4. /\ Distance(minstrel) \in Int /\ Distance(minstrel') \in Int
            /\ FailsToFallback \in Int
        BY <2>1, <3>2, DistanceBounded, MinstrelAssumption DEF FailsToFallback
      <4>5. CASE Distance(minstrel') <= Distance(minstrel) - 1
        <5>1. fails' + Distance(minstrel') <= FailsToFallback
          BY <2>1, <4>1, <4>2, <4>4, <4>5
        <5> QED BY <5>1 DEF FallbackProgress, Distance, FailsToFallback
      <4> QED BY <4>3, <4>5 DEF FallbackProgress
    <3> QED BY <3>3, <3>4
  <2>3. CASE Succeed
    <3>1. minstrel' \in Minstrel
      BY <2>1, <2>3, UpdateType DEF Succeed
    <3>2. fails' = 0
      BY <2>3 DEF Succeed
    <3>3. fails' + Distance(minstrel') <= FailsToFallback
      BY <3>1, <3>2, DistanceBounded
    <3> QED BY <3>3 DEF FallbackProgress, Distance, FailsToFallback
  <2>4. CASE UNCHANGED vars
    BY <2>4 DEF FallbackProgress, vars, Distance, FailsToFallback
  <2> QED BY <2>2, <2>3, <2>4 DEF Next
<1> QED BY <1>1, <1>2, TypeCorrect, PTL DEF Spec

\* A silent link is tried at the fallback rate after at most FailsToFallback
\* failed exchanges, for every TimeoutLimit (minstrel.c:152-156, 187-212).
THEOREM BoundedDescent == Spec => []FallbackWithin
<1>1. TypeOK /\ FallbackProgress => FallbackWithin
  <2> SUFFICES ASSUME TypeOK, FallbackProgress, fails >= FailsToFallback,
                      minstrel.rate_state # FALLBACK_RATE
               PROVE  FALSE
    BY DEF FallbackWithin
  <2>1. minstrel \in Minstrel /\ fails \in Nat
    BY LoopAssumption DEF TypeOK
  <2>2. minstrel.rate_state \in {1, 2, 3, 4, 5} /\ minstrel.timeout_count \in 0 .. TimeoutLimit
    BY <2>1 DEF Minstrel, RateState, FALLBACK_RATE
  <2>3. Distance(minstrel) >= 1
    BY <2>2, MinstrelAssumption DEF Distance
  <2>4. Distance(minstrel) \in Int /\ FailsToFallback \in Int
    BY <2>1, DistanceBounded, MinstrelAssumption DEF FailsToFallback
  <2> QED BY <2>1, <2>3, <2>4 DEF FallbackProgress
<1> QED BY <1>1, TypeCorrect, DescentProgress, PTL
-----------------------------------------------------------------------------
(* The consistency of the rate table, and the skipped update *)

\* RatesConsistent and SkipIsForProbe of a record
Consistent(m) ==
    /\ m.r[CURRENT_RATE] = m.r[BEST_RATE]
    /\ m.r[BEST_RATE] \in m.measured \cup {0}
    /\ m.r[HIGHEST_PROB_RATE] \in m.measured \cup {0}
    /\ m.r[FALLBACK_RATE] = 0

Skipping(m) ==
    m.is_prob_ack /\ ~m.spinning =>
        /\ m.state = "PROBE"
        /\ m.rate_state = PROBE_RATE
        /\ m.r[PROBE_RATE] > m.r[CURRENT_RATE]

\* Recomputing the rates restores what RatesConsistent says, from whatever has
\* been measured by then.
LEMMA UpdateRatesConsistent ==
    ASSUME NEW m \in Minstrel, Consistent(m), NEW n \in update_rates(m)
    PROVE  Consistent(n)
<1>1. PICK best \in Winners(m), highest \in Winners(m) :
         n = [m EXCEPT !.r = [@ EXCEPT ![HIGHEST_PROB_RATE] = highest,
                                       ![SECOND_BEST_RATE] = Below(best),
                                       ![BEST_RATE] = best,
                                       ![CURRENT_RATE] = best]]
  BY DEF update_rates
<1> DEFINE r == [m.r EXCEPT ![HIGHEST_PROB_RATE] = highest,
                            ![SECOND_BEST_RATE] = Below(best),
                            ![BEST_RATE] = best, ![CURRENT_RATE] = best]
<1>2. n.r = r /\ n.measured = m.measured
  BY <1>1 DEF Minstrel
<1>3. /\ r[CURRENT_RATE] = best /\ r[BEST_RATE] = best
      /\ r[HIGHEST_PROB_RATE] = highest
      /\ r[FALLBACK_RATE] = m.r[FALLBACK_RATE]
  BY DEF Minstrel, RateState, FALLBACK_RATE, HIGHEST_PROB_RATE, SECOND_BEST_RATE,
     BEST_RATE, CURRENT_RATE
<1>4. Winners(m) \subseteq m.measured \cup {0}
  BY DEF Winners
<1> QED BY <1>2, <1>3, <1>4 DEF Consistent

\* Switching writes the probe rate only, which is no part of the consistency.
LEMMA SwitchEffect ==
    ASSUME NEW m \in Minstrel, NEW rs \in RateState, NEW p \in Rate,
           NEW n, n = SwitchTo(m, rs, p)
    PROVE  /\ Consistent(m) => Consistent(n)
           /\ n.rate_state = rs /\ n.r[PROBE_RATE] = p
           /\ n.r[CURRENT_RATE] = m.r[CURRENT_RATE]
           /\ n.state = m.state /\ n.is_prob_ack = m.is_prob_ack
<1> DEFINE r == [m.r EXCEPT ![PROBE_RATE] = p]
<1>1. /\ n.r = r /\ n.rate_state = rs /\ n.measured = m.measured
      /\ n.state = m.state /\ n.is_prob_ack = m.is_prob_ack
  BY DEF SwitchTo, Minstrel
<1>2. /\ r[PROBE_RATE] = p
      /\ \A k \in {FALLBACK_RATE, HIGHEST_PROB_RATE, BEST_RATE, CURRENT_RATE} :
            r[k] = m.r[k]
  BY DEF Minstrel, RateState, FALLBACK_RATE, HIGHEST_PROB_RATE, BEST_RATE,
     CURRENT_RATE, PROBE_RATE
<1> QED BY <1>1, <1>2 DEF Consistent

\* What minstrel_update keeps: the table stays that of the statistics, and only
\* the announcement of a probe is skipped (minstrel.c:186-238).
LEMMA UpdateConsistent ==
    ASSUME NEW m \in Minstrel, Consistent(m), NEW ok \in BOOLEAN, NEW id0 \in Nat,
           NEW n \in minstrel_update(m, ok, id0)
    PROVE  Consistent(n) /\ Skipping(n)
<1>1. CASE m.is_prob_ack
  <2>1. n = [m EXCEPT !.is_prob_ack = FALSE]
    BY <1>1 DEF minstrel_update
  <2> QED BY <2>1 DEF Consistent, Skipping, Minstrel
<1>2. CASE ~m.is_prob_ack
  <2>1. PICK u \in (IF m.state = "PROBE" THEN update_rates(m) ELSE {m}) :
           n \in Account(u, ok, id0)
    BY <1>2 DEF minstrel_update
  <2>2. u \in Minstrel /\ Consistent(u) /\ u.is_prob_ack = FALSE
    <3>1. u = m \/ u \in update_rates(m)
      BY <2>1
    <3>2. m.is_prob_ack = FALSE
      BY <1>2 DEF Minstrel
    <3> QED BY <3>1, <3>2, UpdateRatesType, UpdateRatesConsistent, UpdateRatesKeeps
  <2> DEFINE t == [u EXCEPT !.state = "RUNNING"]
             v == log_package_status(t, ok)
  <2>3. t \in Minstrel
    BY <2>2 DEF Minstrel, MinstrelState
  <2>4. v \in Minstrel
    BY <2>3, LogType
  <2>5. /\ v.r = u.r /\ v.is_prob_ack = FALSE
        /\ u.measured \subseteq v.measured
    BY <2>2 DEF log_package_status, Minstrel
  <2>6. Consistent(v)
    BY <2>2, <2>5 DEF Consistent
  <2>7. n \in (IF ok THEN OnSuccess(v, id0) ELSE OnFailure(v))
    BY <2>1 DEF Account
  <2> HIDE DEF t, v
  <2>8. v.r[PROBE_RATE] \in Rate
    BY <2>4 DEF Minstrel, RateState, PROBE_RATE
  <2>9. CASE ~ok /\ v.timeout_count = TimeoutLimit
    <3> DEFINE w == [v EXCEPT !.state = "PACKET_TIMEOUT", !.timeout_count = 0]
    <3>1. /\ w \in Minstrel /\ Consistent(w) /\ w.is_prob_ack = FALSE
          /\ w.r = v.r /\ w.rate_state = v.rate_state
      <4>1. 0 \in 0 .. TimeoutLimit /\ "PACKET_TIMEOUT" \in MinstrelState
        BY MinstrelAssumption DEF MinstrelState
      <4> QED BY <2>4, <2>5, <2>6, <4>1 DEF Minstrel, Consistent
    <3>2. n = SwitchTo(w, StepDown(w.rate_state), w.r[PROBE_RATE])
      BY <2>7, <2>9 DEF OnFailure, AfterTimeout
    <3> HIDE DEF w
    <3>3. StepDown(w.rate_state) \in RateState
      BY <3>1 DEF Minstrel, StepDown, RateState, FALLBACK_RATE
    <3>4. Consistent(n) /\ n.is_prob_ack = FALSE
      BY <2>8, <3>1, <3>2, <3>3, SwitchEffect
    <3> QED BY <3>4 DEF Skipping
  <2>10. CASE ~ok /\ v.timeout_count # TimeoutLimit
    <3>1. n = [v EXCEPT !.timeout_count = @ + 1]
      BY <2>7, <2>10 DEF OnFailure
    <3> QED BY <2>4, <2>5, <2>6, <3>1 DEF Minstrel, Consistent, Skipping
  <2>11. CASE ok /\ ProbeIsDue(v, id0)
    <3> DEFINE w == [v EXCEPT !.state = "PROBE", !.is_prob_ack = TRUE]
    <3>1. w \in Minstrel /\ Consistent(w) /\ w.state = "PROBE"
      BY <2>4, <2>6 DEF Minstrel, MinstrelState, Consistent
    <3>2. n \in StartProbe(w)
      BY <2>7, <2>11 DEF OnSuccess
    <3> HIDE DEF w
    <3>3. CASE ProbeChoices(w) = {}
      <4>1. n = [w EXCEPT !.spinning = TRUE]
        BY <3>2, <3>3 DEF StartProbe
      <4> QED BY <3>1, <4>1 DEF Minstrel, Consistent, Skipping
    <3>4. CASE ProbeChoices(w) # {}
      <4>1. PICK p \in ProbeChoices(w) : n = SwitchTo(w, PROBE_RATE, p)
        BY <3>2, <3>4 DEF StartProbe
      <4>2. p \in Rate /\ p > w.r[CURRENT_RATE] /\ PROBE_RATE \in RateState
        BY <4>1 DEF ProbeChoices, RateState, PROBE_RATE
      <4>3. /\ Consistent(n) /\ n.rate_state = PROBE_RATE /\ n.r[PROBE_RATE] = p
            /\ n.r[CURRENT_RATE] = w.r[CURRENT_RATE] /\ n.state = "PROBE"
        BY <3>1, <4>1, <4>2, SwitchEffect
      <4> QED BY <4>2, <4>3 DEF Skipping
    <3> QED BY <3>3, <3>4
  <2>12. CASE ok /\ ~ProbeIsDue(v, id0)
    <3>1. n = SwitchTo(v, CURRENT_RATE, v.r[PROBE_RATE])
      BY <2>7, <2>12 DEF OnSuccess, AfterSuccess
    <3>2. CURRENT_RATE \in RateState
      BY DEF RateState, CURRENT_RATE
    <3>3. Consistent(n) /\ n.is_prob_ack = FALSE
      BY <2>4, <2>5, <2>6, <2>8, <3>1, <3>2, SwitchEffect
    <3> QED BY <3>3 DEF Skipping
  <2> QED BY <2>9, <2>10, <2>11, <2>12
<1> QED BY <1>1, <1>2

LEMMA ConsistentHolds == Spec => [](Consistent(minstrel) /\ Skipping(minstrel))
<1> DEFINE Inv == Consistent(minstrel) /\ Skipping(minstrel)
<1>1. Init => Inv
  BY DEF Init, Zeroed, Consistent, Skipping, RateState, FALLBACK_RATE,
     HIGHEST_PROB_RATE, BEST_RATE, CURRENT_RATE
<1>2. TypeOK /\ Inv /\ [Next]_vars => Inv'
  <2> SUFFICES ASSUME TypeOK, Inv, [Next]_vars PROVE Inv'
    OBVIOUS
  <2>1. CASE Next
    <3>1. PICK ok \in BOOLEAN : minstrel' \in minstrel_update(minstrel, ok, id)
      BY <2>1, StepIsUpdate
    <3>2. id \in Nat /\ minstrel \in Minstrel
      BY <2>1, StepIsUpdate
    <3>3. Consistent(minstrel') /\ Skipping(minstrel')
      BY <3>1, <3>2, UpdateConsistent
    <3> QED BY <3>3 DEF Consistent, Skipping
  <2>2. CASE UNCHANGED vars
    BY <2>2 DEF vars, Consistent, Skipping
  <2> QED BY <2>1, <2>2
<1> QED BY <1>1, <1>2, TypeCorrect, PTL DEF Spec

\* The rate table is that of the statistics, although the two are written in
\* different calls and the winners are taken from what was measured long ago.
THEOREM TableConsistent == Spec => []RatesConsistent
<1>1. Consistent(minstrel) => RatesConsistent
  BY DEF Consistent, RatesConsistent
<1> QED BY <1>1, ConsistentHolds, PTL

\* The update that is_prob_ack swallows is that of the packet announcing a probe.
THEOREM SkipsAnnouncementOnly == Spec => []SkipIsForProbe
<1>1. Skipping(minstrel) => SkipIsForProbe
  BY DEF Skipping, SkipIsForProbe
<1> QED BY <1>1, ConsistentHolds, PTL
-----------------------------------------------------------------------------
(* The programs of RateControl *)

\* minstrel.c: a behaviour of RateControl is one of MinstrelLoop.
LEMMA MinstrelAlone ==
    RateSpec /\ program = "minstrel" => Spec /\ [](program = "minstrel")
<1>1. RateInit /\ program = "minstrel" => Init
  BY DEF RateInit, Init
<1>2. program = "minstrel" /\ [RateNext]_rateVars
        => (program = "minstrel")' /\ [Next]_vars
  BY DEF RateNext, MinstrelStep, MockupStep, SimStep, rateVars, vars
<1> QED BY <1>1, <1>2, PTL DEF RateSpec, Spec
-----------------------------------------------------------------------------
(* minstrel_mockup.c *)

\* After a failed exchange the mockup is at the lowest rate.
MockupInv ==
    /\ program = "mockup"
    /\ mockup \in [current : Rate, avg_duration : 0 .. 2, pkt_count : Nat]
    /\ fails \in 0 .. MaxFails
    /\ fails > 0 => mockup.current = 0

MockStruct == [current : Rate, avg_duration : 1 .. 2, pkt_count : Nat]

\* One call after an update: it keeps the flag, which decides between the climb and
\* the fall.
LEMMA MockupAsked ==
    ASSUME NEW m \in MockStruct
    PROVE  LET n == Mockup!minstrel_get_next_rate(m)
           IN  /\ n \in MockStruct
               /\ n.avg_duration = m.avg_duration
               /\ m.avg_duration = 2 => n.current = 0
<1> DEFINE n == Mockup!minstrel_get_next_rate(m)
<1>1. m.current \in 0 .. MAX_RATES - 1 /\ m.avg_duration \in {1, 2}
  BY DEF MockStruct, Rate
<1>2. CASE m.avg_duration = 2
  <2>1. n = [m EXCEPT !.current = 0]
    BY <1>2 DEF Mockup!minstrel_get_next_rate
  <2> QED BY <1>1, <1>2, <2>1, MinstrelAssumption DEF MockStruct, Rate
<1>3. CASE m.avg_duration = 1 /\ m.pkt_count % 5 = 0 /\ m.current # MAX_RATES - 1
  <2>1. n = [m EXCEPT !.current = @ + 1]
    BY <1>3 DEF Mockup!minstrel_get_next_rate
  <2> QED BY <1>1, <1>3, <2>1, MinstrelAssumption DEF MockStruct, Rate
<1>4. CASE m.avg_duration = 1 /\ ~(m.pkt_count % 5 = 0 /\ m.current # MAX_RATES - 1)
  <2>1. n = m
    BY <1>4 DEF Mockup!minstrel_get_next_rate
  <2> QED BY <1>4, <2>1
<1> QED BY <1>1, <1>2, <1>3, <1>4

\* However often the screen has asked before, the last call of a failed pass
\* returns the lowest rate.
LEMMA MockupPass ==
    ASSUME NEW m \in [current : Rate, avg_duration : 0 .. 2, pkt_count : Nat],
           NEW ok \in BOOLEAN
    PROVE  LET n == Mockup!AfterPass(m, ok)
           IN  n \in MockStruct /\ (~ok => n.current = 0)
<1> DEFINE a == Mockup!minstrel_update(m, ok)
           f == Mockup!ui_update(a)
           n == Mockup!minstrel_get_next_rate(f)
<1>1. n = Mockup!AfterPass(m, ok)
  BY DEF Mockup!AfterPass
<1>2. a \in MockStruct /\ (~ok => a.avg_duration = 2)
  <2> DEFINE p == (m.pkt_count + 1) % PktCounts
  <2>1. p \in Nat
    BY RateControlAssumption
  <2>2. a = [m EXCEPT !.avg_duration = IF ok THEN 1 ELSE 2, !.pkt_count = p]
    BY DEF Mockup!minstrel_update
  <2> HIDE DEF a, p
  <2>3. /\ a = [current |-> m.current, avg_duration |-> a.avg_duration, pkt_count |-> p]
        /\ a.avg_duration = (IF ok THEN 1 ELSE 2)
    BY <2>2
  <2> QED BY <2>1, <2>3 DEF MockStruct
<1>3. ASSUME NEW x \in MockStruct
      PROVE  LET y == Mockup!Twice(x)
             IN  y \in MockStruct /\ y.avg_duration = x.avg_duration
  BY <1>3, MockupAsked DEF Mockup!Twice
<1> HIDE DEF a
<1>4. f \in MockStruct /\ f.avg_duration = a.avg_duration
  BY <1>2, <1>3 DEF Mockup!ui_update
<1> HIDE DEF f
<1> QED BY <1>1, <1>2, <1>4, MockupAsked

\* A pass keeps the types, and a failed one takes the rate to 0.
LEMMA MockupStepInv ==
    ASSUME MockupInv, NEW ok \in BOOLEAN, MockupStep(ok)
    PROVE  MockupInv'
<1>1. mockup' \in MockStruct /\ (~ok => mockup'.current = 0)
  BY MockupPass DEF MockupStep, MockupInv
<1>2. /\ program' = "mockup" /\ fails \in 0 .. MaxFails
      /\ fails' = (IF ok THEN 0 ELSE IF fails < MaxFails THEN fails + 1 ELSE fails)
  BY DEF MockupStep, MockupInv, Count
<1>3. mockup' \in [current : Rate, avg_duration : 0 .. 2, pkt_count : Nat]
  BY <1>1 DEF MockStruct
<1>4. fails' \in 0 .. MaxFails
  BY <1>2, LoopAssumption
<1>5. fails' > 0 => mockup'.current = 0
  BY <1>1, <1>2
<1> QED BY <1>2, <1>3, <1>4, <1>5 DEF MockupInv

LEMMA MockupHolds == RateSpec /\ program = "mockup" => []MockupInv
<1>1. RateInit /\ program = "mockup" => MockupInv
  BY MinstrelAssumption, LoopAssumption, RateControlAssumption
  DEF RateInit, MockupInv, Mockup!Zeroed, Rate
<1>2. MockupInv /\ [RateNext]_rateVars => MockupInv'
  <2> SUFFICES ASSUME MockupInv, [RateNext]_rateVars PROVE MockupInv'
    OBVIOUS
  <2>1. program = "mockup"
    BY DEF MockupInv
  <2>2. ASSUME NEW ok \in BOOLEAN, MockupStep(ok) PROVE MockupInv'
    BY <2>2, MockupStepInv
  <2>3. CASE UNCHANGED rateVars
    BY <2>3 DEF rateVars, vars, MockupInv
  <2> QED BY <2>1, <2>2, <2>3 DEF RateNext, MinstrelStep, SimStep
<1> QED BY <1>1, <1>2, PTL DEF RateSpec

-----------------------------------------------------------------------------
(* The simulation *)

SimStruct ==
    [ state : {"RUNNING", "PROBE", "PACKET_TIMEOUT"}, rate_state : RateState,
      r : [RateState -> Rate], is_prob_ack : BOOLEAN, measured : SUBSET Rate ]

\* What SimConsistent says of the simulation's struct, and that nothing writes the
\* entry of the fallback rate
SimTable(m) ==
    /\ m.r[FALLBACK_RATE] = 0
    /\ m.r[CURRENT_RATE] = m.r[BEST_RATE]
    /\ m.r[HIGHEST_PROB_RATE] \in m.measured \cup {0}
    /\ m.r[SECOND_BEST_RATE] \in m.measured \cup {0}
    /\ m.r[BEST_RATE] \in m.measured \cup {0}
    /\ m.r[SECOND_BEST_RATE] < m.r[BEST_RATE] \/ m.r[SECOND_BEST_RATE] = 0
    /\ m.is_prob_ack => m.state = "PROBE" /\ m.rate_state = PROBE_RATE

\* Failures still needed on the way down
SimDistance(m) == m.rate_state + (IF m.is_prob_ack THEN 1 ELSE 0)

USE DEF RateState, FALLBACK_RATE, HIGHEST_PROB_RATE, SECOND_BEST_RATE, BEST_RATE,
        CURRENT_RATE, PROBE_RATE,
        Sim!RateState, Sim!FALLBACK_RATE, Sim!HIGHEST_PROB_RATE, Sim!SECOND_BEST_RATE,
        Sim!BEST_RATE, Sim!CURRENT_RATE, Sim!PROBE_RATE

\* update_rates of the simulation keeps the table consistent and the rest of the
\* struct as it is.
LEMMA SimUpdateRates ==
    ASSUME NEW m \in SimStruct, m.r[FALLBACK_RATE] = 0, NEW n \in Sim!update_rates(m)
    PROVE  /\ n \in SimStruct
           /\ (m.is_prob_ack => m.state = "PROBE" /\ m.rate_state = PROBE_RATE) => SimTable(n)
           /\ n.rate_state = m.rate_state /\ n.is_prob_ack = m.is_prob_ack
           /\ n.state = m.state /\ n.measured = m.measured
<1>1. PICK c \in Sim!Choices(m) :
         n = [m EXCEPT !.r = [@ EXCEPT ![1] = c.highest, ![2] = c.second,
                                       ![3] = c.best, ![4] = c.best]]
  BY DEF Sim!update_rates
<1>2. /\ c.highest \in Sim!Winners(m) /\ c.best \in Sim!Winners(m)
      /\ c.second \in Sim!Seconds(m, c.best)
  BY DEF Sim!Choices
<1>3. m.measured \subseteq Rate /\ 0 \in Rate /\ Rate \subseteq Nat
  BY MinstrelAssumption DEF SimStruct, Rate
<1>4. /\ c.highest \in m.measured \cup {0} /\ c.best \in m.measured \cup {0}
      /\ c.second \in m.measured \cup {0}
      /\ c.second < c.best \/ c.second = 0
  BY <1>2 DEF Sim!Winners, Sim!Seconds
<1>5. c.highest \in Rate /\ c.best \in Rate /\ c.second \in Rate
  BY <1>3, <1>4
<1> DEFINE r == [m.r EXCEPT ![1] = c.highest, ![2] = c.second, ![3] = c.best, ![4] = c.best]
<1>6. n = [m EXCEPT !.r = r]
  BY <1>1
<1>7. m.r \in [0 .. 5 -> Rate]
  BY DEF SimStruct
<1>8. /\ r \in [0 .. 5 -> Rate]
      /\ r[0] = 0 /\ r[1] = c.highest /\ r[2] = c.second /\ r[3] = c.best /\ r[4] = c.best
  BY <1>5, <1>7
<1> HIDE DEF r
<1>9. /\ n \in SimStruct /\ n.r = r
      /\ n.rate_state = m.rate_state /\ n.is_prob_ack = m.is_prob_ack
      /\ n.state = m.state /\ n.measured = m.measured
  BY <1>6, <1>8 DEF SimStruct
<1> QED BY <1>4, <1>8, <1>9 DEF SimTable

\* One round of the simulation: the table stays consistent, a failure comes one
\* step closer to the lowest rate, and no success leads further away than six.
LEMMA SimUpdate ==
    ASSUME NEW m \in SimStruct, SimTable(m), NEW ok \in BOOLEAN, NEW id0 \in Nat,
           NEW n \in Sim!minstrel_update(m, ok, id0)
    PROVE  /\ n \in SimStruct /\ SimTable(n)
           /\ ok => SimDistance(n) <= 6
           /\ ~ok => n.rate_state = 0 \/ SimDistance(n) <= SimDistance(m) - 1
           /\ ~ok /\ m.rate_state = 0 => n.rate_state = 0
<1>1. CASE m.is_prob_ack
  <2>1. PICK u \in Sim!update_rates(m) : n = [u EXCEPT !.is_prob_ack = FALSE]
    BY <1>1 DEF Sim!minstrel_update
  <2>2. /\ u \in SimStruct /\ SimTable(u) /\ m.rate_state = 5
        /\ u.rate_state = m.rate_state
    BY <1>1, SimUpdateRates DEF SimTable
  <2>3. /\ n \in SimStruct /\ n.is_prob_ack = FALSE /\ n.r = u.r
        /\ n.rate_state = u.rate_state /\ n.measured = u.measured
    BY <2>1, <2>2 DEF SimStruct
  <2> QED BY <1>1, <2>2, <2>3 DEF SimTable, SimDistance
<1>2. CASE ~m.is_prob_ack
  <2>1. PICK u \in Sim!update_rates(m) : n \in Sim!Account(u, ok, id0)
    BY <1>2 DEF Sim!minstrel_update
  <2>2. /\ u \in SimStruct /\ SimTable(u) /\ u.is_prob_ack = FALSE
        /\ u.rate_state = m.rate_state
    BY <1>2, SimUpdateRates DEF SimTable, SimStruct
  <2> DEFINE v == [u EXCEPT !.state = "RUNNING"]
             a == Sim!log_package_status(v, ok)
  <2>3. /\ v \in SimStruct /\ v.r = u.r /\ v.is_prob_ack = FALSE
        /\ v.rate_state = u.rate_state /\ v.measured = u.measured
        /\ v.r[v.rate_state] \in Rate
    BY <2>2 DEF SimStruct
  <2>4. /\ a \in SimStruct /\ a.r = u.r /\ a.is_prob_ack = FALSE
        /\ a.rate_state = m.rate_state /\ u.measured \subseteq a.measured
    <3> DEFINE M == IF ok THEN v.measured \cup {v.r[v.rate_state]} ELSE v.measured
    <3>1. a = [v EXCEPT !.measured = M]
      BY DEF Sim!log_package_status, Sim!minstrel_get_next_rate
    <3>2. M \in SUBSET Rate /\ v.measured \subseteq M
      BY <2>3 DEF SimStruct
    <3> HIDE DEF M, v
    <3> QED BY <2>2, <2>3, <3>1, <3>2 DEF SimStruct
  <2>5. n \in IF ~ok THEN Sim!StepDown(a)
              ELSE IF id0 % ProbeInterval = 0 THEN Sim!Probing(a) ELSE Sim!Running(a)
    BY <2>1 DEF Sim!Account
  <2> HIDE DEF a, v
  <2>6. SimTable(a)
    BY <2>2, <2>4 DEF SimTable
  <2>7. CASE ~ok
    <3>1. n = [a EXCEPT !.state = "PACKET_TIMEOUT",
                        !.rate_state = IF @ = 0 THEN @ ELSE @ - 1]
      BY <2>5, <2>7 DEF Sim!StepDown
    <3>2. m.rate_state \in {0, 1, 2, 3, 4, 5}
      BY DEF SimStruct
    <3>3. /\ n.state = "PACKET_TIMEOUT" /\ n.r = a.r /\ n.is_prob_ack = FALSE
          /\ n.measured = a.measured
          /\ n.rate_state = (IF m.rate_state = 0 THEN 0 ELSE m.rate_state - 1)
      BY <2>4, <3>1 DEF SimStruct
    <3>4. n.rate_state \in 0 .. 5
      BY <3>2, <3>3
    <3>5. n \in SimStruct
      BY <2>4, <3>1, <3>3, <3>4 DEF SimStruct
    <3> QED BY <1>2, <2>6, <2>7, <3>2, <3>3, <3>5 DEF SimTable, SimDistance
  <2>8. CASE ok /\ id0 % ProbeInterval = 0
    <3> DEFINE b == [a EXCEPT !.state = "PROBE"]
    <3>1. b \in SimStruct /\ b.state = "PROBE" /\ b.r = a.r /\ b.measured = a.measured
      BY <2>4 DEF SimStruct
    <3>2. PICK c \in Sim!set_probe_rate(b) :
             n = [c EXCEPT !.rate_state = 5, !.is_prob_ack = TRUE]
      BY <2>5, <2>8 DEF Sim!Probing
    <3>3. PICK p \in Rate : c = [b EXCEPT !.r[5] = p]
      BY <3>2 DEF Sim!set_probe_rate, Sim!Rate, Rate
    <3> DEFINE r == [a.r EXCEPT ![5] = p]
    <3> HIDE DEF b
    <3>4. c = [b EXCEPT !.r = r]
      BY <3>1, <3>3
    <3>5. /\ r \in [0 .. 5 -> Rate]
          /\ r[0] = a.r[0] /\ r[1] = a.r[1] /\ r[2] = a.r[2] /\ r[3] = a.r[3] /\ r[4] = a.r[4]
      BY <2>4 DEF SimStruct
    <3> HIDE DEF r
    <3>6. /\ c \in SimStruct /\ c.state = "PROBE" /\ c.r = r /\ c.measured = a.measured
      BY <3>1, <3>4, <3>5 DEF SimStruct
    <3>7. /\ n \in SimStruct /\ n.r = r /\ n.state = "PROBE" /\ n.rate_state = 5
          /\ n.is_prob_ack = TRUE /\ n.measured = a.measured
      <4>1. n = [state |-> "PROBE", rate_state |-> 5, r |-> r,
                 is_prob_ack |-> TRUE, measured |-> a.measured]
        BY <3>2, <3>6 DEF SimStruct
      <4>2. r \in [RateState -> Rate] /\ a.measured \in SUBSET Rate
        BY <2>4, <3>5 DEF SimStruct
      <4> QED BY <4>1, <4>2 DEF SimStruct
    <3> QED BY <2>6, <2>8, <3>5, <3>7 DEF SimTable, SimDistance
  <2>9. CASE ok /\ id0 % ProbeInterval # 0
    <3>1. n = [a EXCEPT !.rate_state = 4]
      BY <2>5, <2>9 DEF Sim!Running
    <3>2. /\ n \in SimStruct /\ n.r = a.r /\ n.rate_state = 4
          /\ n.is_prob_ack = FALSE /\ n.measured = a.measured
      BY <2>4, <3>1 DEF SimStruct
    <3> QED BY <2>6, <2>9, <3>2 DEF SimTable, SimDistance
  <2> QED BY <2>7, <2>8, <2>9
<1> QED BY <1>1, <1>2

SimInv ==
    /\ program = "simulation"
    /\ sim \in SimStruct /\ SimTable(sim)
    /\ id \in Nat /\ fails \in 0 .. MaxFails
    /\ sim.rate_state = 0 \/ fails + SimDistance(sim) <= 6

LEMMA SimInit ==
    ASSUME RateInit
    PROVE  sim \in SimStruct /\ SimTable(sim) /\ SimDistance(sim) = 3
<1>1. sim = [ state |-> "RUNNING", rate_state |-> 3,
              r |-> [rs \in 0 .. 5 |-> 0], is_prob_ack |-> FALSE, measured |-> {} ]
  BY DEF RateInit, Sim!Initial
<1>2. 0 \in Rate
  BY MinstrelAssumption DEF Rate
<1> QED BY <1>1, <1>2 DEF SimStruct, SimTable, SimDistance

LEMMA SimHolds == RateSpec /\ program = "simulation" => []SimInv
<1>1. RateInit /\ program = "simulation" => SimInv
  <2> SUFFICES ASSUME RateInit, program = "simulation" PROVE SimInv
    OBVIOUS
  <2>1. id = 0 /\ fails = 0
    BY DEF RateInit
  <2> QED BY <2>1, SimInit, LoopAssumption DEF SimInv
<1>2. SimInv /\ [RateNext]_rateVars => SimInv'
  <2> SUFFICES ASSUME SimInv, [RateNext]_rateVars PROVE SimInv'
    OBVIOUS
  <2>1. program = "simulation"
    BY DEF SimInv
  <2>2. ASSUME NEW ok \in BOOLEAN, SimStep(ok) PROVE SimInv'
    <3>1. /\ id' = (id + 1) % IdMod /\ sim' \in Sim!minstrel_update(sim, ok, id')
          /\ fails' = (IF ok THEN 0 ELSE IF fails < MaxFails THEN fails + 1 ELSE fails)
          /\ program' = "simulation"
      BY <2>1, <2>2 DEF SimStep, Count
    <3>2. id' \in Nat
      BY <3>1, LoopAssumption DEF SimInv
    <3>3. /\ sim' \in SimStruct /\ SimTable(sim')
          /\ ok => SimDistance(sim') <= 6
          /\ ~ok => sim'.rate_state = 0 \/ SimDistance(sim') <= SimDistance(sim) - 1
          /\ ~ok /\ sim.rate_state = 0 => sim'.rate_state = 0
      BY <3>1, <3>2, SimUpdate DEF SimInv
    <3>4. fails \in Nat /\ fails <= MaxFails /\ MaxFails \in Nat
      BY LoopAssumption DEF SimInv
    <3>5. fails' \in 0 .. MaxFails /\ (ok => fails' = 0) /\ fails' <= fails + 1
      BY <3>1, <3>4
    <3>6. SimDistance(sim) \in Int /\ SimDistance(sim') \in Int
      BY <3>3 DEF SimInv, SimDistance, SimStruct
    <3>7. sim'.rate_state = 0 \/ fails' + SimDistance(sim') <= 6
      <4>1. CASE ok
        BY <3>3, <3>5, <3>6, <4>1
      <4>2. CASE ~ok
        BY <3>3, <3>4, <3>5, <3>6, <4>2 DEF SimInv
      <4> QED BY <4>1, <4>2
    <3> QED BY <3>1, <3>2, <3>3, <3>5, <3>7 DEF SimInv
  <2>3. CASE UNCHANGED rateVars
    BY <2>3 DEF rateVars, vars, SimInv, SimTable, SimDistance
  <2> QED BY <2>1, <2>2, <2>3 DEF RateNext, MinstrelStep, MockupStep
<1> QED BY <1>1, <1>2, PTL DEF RateSpec

\* Only the simulation writes its struct: in the other two programs it stays as
\* it was initialised.
LEMMA SimIdle == RateSpec /\ program # "simulation" => [](sim = Sim!Initial)
<1> DEFINE Inv == program # "simulation" /\ sim = Sim!Initial
<1>1. RateInit /\ program # "simulation" => Inv
  BY DEF RateInit
<1>2. Inv /\ [RateNext]_rateVars => Inv'
  BY DEF RateNext, rateVars, MinstrelStep, MockupStep, SimStep
<1> QED BY <1>1, <1>2, PTL DEF RateSpec

\* The table of the simulation is that of its statistics (RateControl's
\* SimConsistent), for every number of rates and every probe interval.
THEOREM SimTableConsistent == RateSpec => []SimConsistent
<1>1. SimInv => SimConsistent
  BY DEF SimInv, SimTable, SimConsistent
<1>2. sim = Sim!Initial => SimConsistent
  BY DEF Sim!Initial, SimConsistent
<1>3. RateSpec /\ program = "simulation" => []SimConsistent
  BY <1>1, SimHolds, PTL
<1>4. RateSpec /\ program # "simulation" => []SimConsistent
  BY <1>2, SimIdle, PTL
<1> QED BY <1>3, <1>4

\* Whichever rate control a program contains, a silent link is tried at the lowest
\* rate after the number of failures that is its patience (LowestRateWithin).
THEOREM LowestRateBounded == RateSpec => []LowestRateWithin
<1>1. program = "minstrel" /\ FallbackWithin /\ RatesConsistent => LowestRateWithin
  BY DEF LowestRateWithin, Patience, NextRate, FallbackWithin, RatesConsistent,
         minstrel_get_next_rate
<1>2. MockupInv => LowestRateWithin
  <2> SUFFICES ASSUME MockupInv, fails >= Patience PROVE NextRate = 0
    BY DEF LowestRateWithin
  <2>1. Patience = 1 /\ NextRate = mockup.current
    BY DEF MockupInv, Patience, NextRate
  <2> QED BY <2>1 DEF MockupInv
<1>3. SimInv => LowestRateWithin
  <2> SUFFICES ASSUME SimInv, fails >= Patience PROVE NextRate = 0
    BY DEF LowestRateWithin
  <2>1. Patience = 6 /\ NextRate = sim.r[sim.rate_state]
    BY DEF SimInv, Patience, NextRate, Sim!minstrel_get_next_rate
  <2>2. sim.rate_state \in {0, 1, 2, 3, 4, 5} /\ fails \in Nat
    BY DEF SimInv, SimStruct
  <2>3. sim.rate_state = 0
    BY <2>1, <2>2 DEF SimInv, SimDistance
  <2> QED BY <2>1, <2>3 DEF SimInv, SimTable
<1>4. RateSpec /\ program = "minstrel" => []LowestRateWithin
  BY <1>1, MinstrelAlone, BoundedDescent, TableConsistent, PTL
<1>5. RateSpec /\ program = "mockup" => []LowestRateWithin
  BY <1>2, MockupHolds, PTL
<1>6. RateSpec /\ program = "simulation" => []LowestRateWithin
  BY <1>3, SimHolds, PTL
<1>7. RateInit => program = "minstrel" \/ program = "mockup" \/ program = "simulation"
  BY DEF RateInit
<1> QED BY <1>4, <1>5, <1>6, <1>7, PTL DEF RateSpec
=============================================================================
