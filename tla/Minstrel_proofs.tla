-------------------------- MODULE Minstrel_proofs ---------------------------
(***************************************************************************)
(* What minstrel_update preserves, whatever the constants are.             *)
(***************************************************************************)
EXTENDS Minstrel, TLAPS

\* Looking up a table entry yields a rate.
LEMMA NextRateType ==
    ASSUME NEW m \in Minstrel
    PROVE  minstrel_get_next_rate(m) \in Rate
BY DEF Minstrel, minstrel_get_next_rate

\* The zeroed struct is a Minstrel struct (minstrel.h:87-94).
LEMMA ZeroedType == Zeroed \in Minstrel
BY MinstrelAssumption DEF Zeroed, Minstrel, MinstrelState, RateState, Rate, FALLBACK_RATE

\* update_rates writes rates into the table and nothing else (minstrel.c:89-125).
LEMMA UpdateRatesType ==
    ASSUME NEW m \in Minstrel, NEW n \in update_rates(m)
    PROVE  n \in Minstrel
<1>1. Winners(m) \subseteq Rate
  BY MinstrelAssumption DEF Winners, Minstrel, Rate
<1>2. PICK best \in Winners(m), highest \in Winners(m) :
         n = [m EXCEPT !.r = [@ EXCEPT ![HIGHEST_PROB_RATE] = highest,
                                       ![SECOND_BEST_RATE] = Below(best),
                                       ![BEST_RATE] = best,
                                       ![CURRENT_RATE] = best]]
  BY DEF update_rates
<1>3. best \in Rate /\ highest \in Rate /\ Below(best) \in Rate
  BY <1>1, MinstrelAssumption DEF Below, Rate
<1>4. [m.r EXCEPT ![HIGHEST_PROB_RATE] = highest, ![SECOND_BEST_RATE] = Below(best),
                  ![BEST_RATE] = best, ![CURRENT_RATE] = best] \in [RateState -> Rate]
  BY <1>3 DEF Minstrel
<1> QED BY <1>2, <1>4 DEF Minstrel

\* log_package_status credits a rate of the table (minstrel.c:66-82).
LEMMA LogType ==
    ASSUME NEW m \in Minstrel, NEW ok \in BOOLEAN
    PROVE  log_package_status(m, ok) \in Minstrel
<1>1. minstrel_get_next_rate(m) \in Rate
  BY NextRateType
<1>2. (IF ok THEN m.measured \cup {minstrel_get_next_rate(m)} ELSE m.measured)
         \in SUBSET Rate
  BY <1>1 DEF Minstrel
<1> QED BY <1>2 DEF log_package_status, Minstrel

\* Switching to a rate state writes a probe rate and the flag (minstrel.c:222-228).
LEMMA SwitchType ==
    ASSUME NEW m \in Minstrel, NEW rs \in RateState, NEW p \in Rate
    PROVE  SwitchTo(m, rs, p) \in Minstrel
<1> DEFINE n == [m EXCEPT !.rate_state = rs, !.r = [@ EXCEPT ![PROBE_RATE] = p]]
<1>1. [m.r EXCEPT ![PROBE_RATE] = p] \in [RateState -> Rate]
  BY DEF Minstrel
<1>2. n \in Minstrel
  BY <1>1 DEF Minstrel
<1>3. (minstrel_get_next_rate(m) # minstrel_get_next_rate(n)) \in BOOLEAN
  OBVIOUS
<1>4. SwitchTo(m, rs, p) = [n EXCEPT !.is_new_rate =
                               minstrel_get_next_rate(m) # minstrel_get_next_rate(n)]
  BY DEF SwitchTo
<1> HIDE DEF n
<1> QED BY <1>2, <1>3, <1>4 DEF Minstrel

\* minstrel_update keeps the type of the struct, for every outcome of an
\* exchange and every packet id (minstrel.c:186-238).
THEOREM UpdateType ==
    ASSUME NEW m \in Minstrel, NEW ok \in BOOLEAN, NEW id \in Nat,
           NEW n \in minstrel_update(m, ok, id)
    PROVE  n \in Minstrel
<1>1. CASE m.is_prob_ack
  BY <1>1 DEF minstrel_update, Minstrel
<1>2. CASE ~m.is_prob_ack
  <2>1. PICK u \in (IF m.state = "PROBE" THEN update_rates(m) ELSE {m}) :
           n \in Account(u, ok, id)
    BY <1>2 DEF minstrel_update
  <2>2. u \in Minstrel
    BY <2>1, UpdateRatesType
  <2> DEFINE v == log_package_status([u EXCEPT !.state = "RUNNING"], ok)
  <2>3. v \in Minstrel
    <3>1. [u EXCEPT !.state = "RUNNING"] \in Minstrel
      BY <2>2 DEF Minstrel, MinstrelState
    <3> QED BY <3>1, LogType
  <2>4. n \in (IF ok THEN OnSuccess(v, id) ELSE OnFailure(v))
    BY <2>1 DEF Account
  <2> HIDE DEF v
  <2>5. CASE ~ok
    <3>1. CASE v.timeout_count = TimeoutLimit
      <4> DEFINE w == [v EXCEPT !.state = "PACKET_TIMEOUT", !.timeout_count = 0]
      <4>1. w \in Minstrel
        <5>1. 0 \in 0 .. TimeoutLimit /\ "PACKET_TIMEOUT" \in MinstrelState
          BY MinstrelAssumption DEF MinstrelState
        <5> QED BY <2>3, <5>1 DEF Minstrel
      <4>2. n = SwitchTo(w, StepDown(w.rate_state), w.r[PROBE_RATE])
        BY <2>4, <2>5, <3>1 DEF OnFailure, AfterTimeout
      <4> HIDE DEF w
      <4>3. StepDown(w.rate_state) \in RateState /\ w.r[PROBE_RATE] \in Rate
        BY <4>1 DEF Minstrel, StepDown, RateState, FALLBACK_RATE, PROBE_RATE
      <4> QED BY <4>1, <4>2, <4>3, SwitchType
    <3>2. CASE v.timeout_count # TimeoutLimit
      <4>1. n = [v EXCEPT !.timeout_count = @ + 1]
        BY <2>4, <2>5, <3>2 DEF OnFailure
      <4>2. v.timeout_count + 1 \in 0 .. TimeoutLimit
        BY <2>3, <3>2, MinstrelAssumption DEF Minstrel
      <4> QED BY <2>3, <4>1, <4>2 DEF Minstrel
    <3> QED BY <3>1, <3>2
  <2>6. CASE ok /\ ProbeIsDue(v, id)
    <3> DEFINE w == [v EXCEPT !.state = "PROBE", !.is_prob_ack = TRUE]
    <3>1. w \in Minstrel
      BY <2>3 DEF Minstrel, MinstrelState
    <3>2. n \in StartProbe(w)
      BY <2>4, <2>6 DEF OnSuccess
    <3> HIDE DEF w
    <3>3. CASE ProbeChoices(w) = {}
      BY <3>1, <3>2, <3>3 DEF StartProbe, Minstrel
    <3>4. CASE ProbeChoices(w) # {}
      <4>1. PICK p \in ProbeChoices(w) : n = SwitchTo(w, PROBE_RATE, p)
        BY <3>2, <3>4 DEF StartProbe
      <4>2. p \in Rate /\ PROBE_RATE \in RateState
        BY DEF ProbeChoices, RateState, PROBE_RATE
      <4> QED BY <3>1, <4>1, <4>2, SwitchType
    <3> QED BY <3>3, <3>4
  <2>7. CASE ok /\ ~ProbeIsDue(v, id)
    <3>1. n = SwitchTo(v, CURRENT_RATE, v.r[PROBE_RATE])
      BY <2>4, <2>7 DEF OnSuccess, AfterSuccess
    <3>2. CURRENT_RATE \in RateState /\ v.r[PROBE_RATE] \in Rate
      BY <2>3 DEF Minstrel, RateState, CURRENT_RATE, PROBE_RATE
    <3> QED BY <2>3, <3>1, <3>2, SwitchType
  <2> QED BY <2>5, <2>6, <2>7
<1> QED BY <1>1, <1>2
=============================================================================
