------------------------------ MODULE StatsSim ------------------------------
(***************************************************************************)
(* simulation/stats_sim.c, an experiment with an earlier version of the    *)
(* rate control: a program of its own, which draws the outcome of every    *)
(* packet at random.  Other than minstrel.c it recomputes the rates in     *)
(* every update, looks for a second best rate among the measured ones, may *)
(* probe a lower rate and falls back at the first failure.                 *)
(*                                                                         *)
(* The statistics are abstracted as in Minstrel: `measured' are the rates  *)
(* that have been credited with a success.                                 *)
(***************************************************************************)
EXTENDS Integers

CONSTANTS
    MAX_RATES,
    ProbeInterval   \* 10 in the code

Rate == 0 .. MAX_RATES - 1
FALLBACK_RATE == 0
HIGHEST_PROB_RATE == 1
SECOND_BEST_RATE == 2
BEST_RATE == 3
CURRENT_RATE == 4
PROBE_RATE == 5
RateState == 0 .. 5

\* minstrel_init
Initial ==
    [ state |-> "RUNNING", rate_state |-> BEST_RATE,
      r |-> [rs \in RateState |-> 0], is_prob_ack |-> FALSE, measured |-> {} ]

minstrel_get_next_rate(m) == m.r[m.rate_state]

Winners(m) == IF m.measured = {} THEN {0} ELSE m.measured

\* A measured rate below the best one in index and in throughput, 0 if there is none
Seconds(m, best) == {s \in m.measured : s < best} \cup {0}

\* The winners of the two loops over the statistics
Choices(m) ==
    {c \in [highest : Winners(m), best : Winners(m), second : Rate] :
        c.second \in Seconds(m, c.best)}

\* Mutant: the current rate is left alone
update_rates_KeepCurrent(m) ==
    { [m EXCEPT !.r = [@ EXCEPT ![HIGHEST_PROB_RATE] = c.highest,
                                ![SECOND_BEST_RATE] = c.second,
                                ![BEST_RATE] = c.best]] : c \in Choices(m) }

update_rates(m) ==
    { [m EXCEPT !.r = [@ EXCEPT ![HIGHEST_PROB_RATE] = c.highest,
                                ![SECOND_BEST_RATE] = c.second,
                                ![BEST_RATE] = c.best,
                                ![CURRENT_RATE] = c.best]] : c \in Choices(m) }

log_package_status(m, ok) ==
    [m EXCEPT !.measured = IF ok THEN @ \cup {minstrel_get_next_rate(m)} ELSE @]

set_probe_rate(m) ==
    {[m EXCEPT !.r[PROBE_RATE] = p] : p \in Rate \ {m.r[CURRENT_RATE]}}

\* minstrel_state_to_rate_state and its use, in the three states it is called in
Probing(m) ==
    {[n EXCEPT !.rate_state = PROBE_RATE, !.is_prob_ack = TRUE] :
        n \in set_probe_rate([m EXCEPT !.state = "PROBE"])}

\* Mutant: the way down ends one step early
StepDown_Early(m) ==
    {[m EXCEPT !.state = "PACKET_TIMEOUT",
               !.rate_state = IF @ > HIGHEST_PROB_RATE THEN @ - 1 ELSE @]}

StepDown(m) ==
    {[m EXCEPT !.state = "PACKET_TIMEOUT",
               !.rate_state = IF @ = FALLBACK_RATE THEN @ ELSE @ - 1]}

Running(m) == {[m EXCEPT !.rate_state = CURRENT_RATE]}

Account(m, ok, id) ==
    LET n == log_package_status([m EXCEPT !.state = "RUNNING"], ok)
    IN  IF ~ok THEN StepDown(n)
        ELSE IF id % ProbeInterval = 0 THEN Probing(n) ELSE Running(n)

\* The second call of update_rates, after a probe, finds the same statistics
minstrel_update(m, ok, id) ==
    IF m.is_prob_ack
    THEN {[n EXCEPT !.is_prob_ack = FALSE] : n \in update_rates(m)}
    ELSE UNION {Account(n, ok, id) : n \in update_rates(m)}
=============================================================================
