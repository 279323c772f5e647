------------------------------ MODULE Minstrel ------------------------------
(***************************************************************************)
(* The rate control algorithm of minstrel/minstrel.c as operators on one   *)
(* record, the Minstrel struct together with the two globals is_prob_ack   *)
(* and timeout_count of that file.                                         *)
(*                                                                         *)
(* The floating point statistics are abstracted to `measured', the set of  *)
(* rates that log_package_status has credited with at least one success:   *)
(* exactly those have an ewma and a throughput different from zero.  Which *)
(* of them has the largest throughput or success probability depends on    *)
(* measured durations and is left open.                                    *)
(***************************************************************************)
EXTENDS Integers

CONSTANTS
    MAX_RATES,      \* number of symbol rates (9 in minstrel.h)
    ProbeInterval,  \* a probe follows each id divisible by it (10 in the code)
    TimeoutLimit    \* failures tolerated before the next lower rate (2)

ASSUME MinstrelAssumption ==
    /\ MAX_RATES \in Nat /\ MAX_RATES >= 1
    /\ ProbeInterval \in Nat /\ ProbeInterval >= 1
    /\ TimeoutLimit \in Nat

Rate == 0 .. MAX_RATES - 1

\* enum RateState, the index into AvailableRates.r
FALLBACK_RATE == 0
HIGHEST_PROB_RATE == 1
SECOND_BEST_RATE == 2
BEST_RATE == 3
CURRENT_RATE == 4
PROBE_RATE == 5
RateState == 0 .. 5

\* enum MinstrelState; UPDATE is overwritten before anyone reads it and
\* nothing ever assigns RESET, so neither is a state between two calls
MinstrelState == {"PROBE", "RUNNING", "PACKET_TIMEOUT"}

Minstrel ==
    [ state : MinstrelState,
      rate_state : RateState,
      r : [RateState -> Rate],
      is_new_rate : BOOLEAN,
      is_prob_ack : BOOLEAN,
      timeout_count : 0 .. TimeoutLimit,
      measured : SUBSET Rate,
      spinning : BOOLEAN ]      \* inside the loop of set_probe_rate, for good

\* sender_interface_init hands out zeroed memory (minstrel_init has no caller)
Zeroed ==
    [ state |-> "PROBE",
      rate_state |-> FALLBACK_RATE,
      r |-> [rs \in RateState |-> 0],
      is_new_rate |-> FALSE,
      is_prob_ack |-> FALSE,
      timeout_count |-> 0,
      measured |-> {},
      spinning |-> FALSE ]

minstrel_get_next_rate(m) == m.r[m.rate_state]

-----------------------------------------------------------------------------
\* The index of a maximum over all rates, 0 when every entry is zero
Winners(m) == IF m.measured = {} THEN {0} ELSE m.measured

Below(rate) == IF rate = 0 THEN 0 ELSE rate - 1

\* Mutant: the current rate is left alone
update_rates_KeepCurrent(m) ==
    { [m EXCEPT !.r = [@ EXCEPT ![HIGHEST_PROB_RATE] = highest,
                                ![SECOND_BEST_RATE] = Below(best),
                                ![BEST_RATE] = best]] :
         best \in Winners(m), highest \in Winners(m) }

update_rates(m) ==
    { [m EXCEPT !.r = [@ EXCEPT ![HIGHEST_PROB_RATE] = highest,
                                ![SECOND_BEST_RATE] = Below(best),
                                ![BEST_RATE] = best,
                                ![CURRENT_RATE] = best]] :
         best \in Winners(m), highest \in Winners(m) }

log_package_status(m, ok) ==
    [m EXCEPT !.measured = IF ok THEN @ \cup {minstrel_get_next_rate(m)} ELSE @]

\* Mutant: the loop ends with < instead of <=
ProbeChoices_OrCurrent(m) == {p \in Rate : p >= m.r[CURRENT_RATE]}

\* The rates on which the loop `while ((probe = rand() % MAX_RATES) <= current)'
\* of set_probe_rate can end
ProbeChoices(m) == {p \in Rate : p > m.r[CURRENT_RATE]}

\* The end of minstrel_update: rate state rs, probe rate p, is_new_rate
SwitchTo(m, rs, p) ==
    LET n == [m EXCEPT !.rate_state = rs, !.r = [@ EXCEPT ![PROBE_RATE] = p]]
    IN  [n EXCEPT !.is_new_rate =
            minstrel_get_next_rate(m) # minstrel_get_next_rate(n)]

StepDown(rs) == IF rs # FALLBACK_RATE THEN rs - 1 ELSE FALLBACK_RATE

\* minstrel_state_to_rate_state for the three states it is called in
AfterSuccess(m) == {SwitchTo(m, CURRENT_RATE, m.r[PROBE_RATE])}

\* Mutant: the case PACKET_TIMEOUT is missing
AfterTimeout_Default(m) == {SwitchTo(m, CURRENT_RATE, m.r[PROBE_RATE])}

AfterTimeout(m) == {SwitchTo(m, StepDown(m.rate_state), m.r[PROBE_RATE])}

StartProbe(m) ==
    IF ProbeChoices(m) = {}
    THEN {[m EXCEPT !.spinning = TRUE]}
    ELSE {SwitchTo(m, PROBE_RATE, p) : p \in ProbeChoices(m)}

\* The last `else if' of minstrel_update: is this success followed by a probe?
ProbeIsDue(m, id) ==
    /\ id % ProbeInterval = 0
    /\ minstrel_get_next_rate(m) # MAX_RATES - 1

\* Mutant: one failure too many is tolerated
OnFailure_OffByOne(m) ==
    IF m.timeout_count = TimeoutLimit + 1
    THEN AfterTimeout([m EXCEPT !.state = "PACKET_TIMEOUT", !.timeout_count = 0])
    ELSE {[m EXCEPT !.timeout_count = @ + 1]}

OnFailure(m) ==
    IF m.timeout_count = TimeoutLimit
    THEN AfterTimeout([m EXCEPT !.state = "PACKET_TIMEOUT", !.timeout_count = 0])
    ELSE {[m EXCEPT !.timeout_count = @ + 1]}

OnSuccess(m, id) ==
    IF ProbeIsDue(m, id)
    THEN StartProbe([m EXCEPT !.state = "PROBE", !.is_prob_ack = TRUE])
    ELSE AfterSuccess(m)

Account(m, ok, id) ==
    LET n == log_package_status([m EXCEPT !.state = "RUNNING"], ok)
    IN  IF ok THEN OnSuccess(n, id) ELSE OnFailure(n)

\* Mutant: the skip is not used up
minstrel_update_SkipForever(m, ok, id) ==
    IF m.is_prob_ack
    THEN {m}
    ELSE UNION {Account(n, ok, id) :
                   n \in IF m.state = "PROBE" THEN update_rates(m) ELSE {m}}

\* All records that minstrel_update can leave behind when it is told that the
\* packet id was acknowledged (ok) or failed: timeout, wrong ACK or checksum
minstrel_update(m, ok, id) ==
    IF m.is_prob_ack
    THEN {[m EXCEPT !.is_prob_ack = FALSE]}
    ELSE UNION {Account(n, ok, id) :
                   n \in IF m.state = "PROBE" THEN update_rates(m) ELSE {m}}
=============================================================================
