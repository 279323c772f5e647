--------------------------- MODULE MinstrelMockup ---------------------------
(***************************************************************************)
(* minstrel/minstrel_mockup.c, which the default build links instead of    *)
(* minstrel.c, as operators on the fields of the struct it uses:           *)
(*   current       rates.current, which minstrel_get_next_rate changes     *)
(*   avg_duration  of statistics[0], a flag: 1 success, 2 error, 0 neither *)
(*   pkt_count     of statistics[0]                                        *)
(* sender_send_and_ack calls minstrel_update once per pass, then ui_update *)
(* (controller/ui_sender.c), which asks for the next rate ten times, and   *)
(* at last sender_build_pkt asks once more and announces the answer.       *)
(***************************************************************************)
EXTENDS Integers

CONSTANTS
    MAX_RATES,
    PktCounts       \* values of pkt_count, a uint32_t (2^32 in the code)

\* sender_interface_init hands out zeroed memory (minstrel_init has no caller)
Zeroed == [current |-> 0, avg_duration |-> 0, pkt_count |-> 0]

\* The struct after one call, which returns its field current
minstrel_get_next_rate(m) ==
    CASE m.avg_duration = 1 /\ m.pkt_count % 5 = 0 /\ m.current # MAX_RATES - 1
            -> [m EXCEPT !.current = @ + 1]
      [] m.avg_duration = 2 -> [m EXCEPT !.current = 0]
      [] OTHER -> m

Twice(m) == minstrel_get_next_rate(minstrel_get_next_rate(m))

\* The statistics on the screen: ten lines, and a call for each
ui_update(m) == Twice(Twice(Twice(Twice(Twice(m)))))

minstrel_update(m, ok) ==
    [m EXCEPT !.avg_duration = IF ok THEN 1 ELSE 2,
              !.pkt_count = (@ + 1) % PktCounts]

\* What the packet built after a pass announces is the field current of this
AfterPass(m, ok) == minstrel_get_next_rate(ui_update(minstrel_update(m, ok)))
=============================================================================
