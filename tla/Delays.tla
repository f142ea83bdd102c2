--------------------------------- MODULE Delays ---------------------------------
(***************************************************************************)
(* Busy waiting (timer.c, reboot.c): a counter of Ticks values that runs   *)
(* round is polled until it has gone on far enough.  In the code Ticks is  *)
(* 2^32 and the counter runs at 1 MHz.                                     *)
(***************************************************************************)
EXTENDS Integers

CONSTANTS Ticks, PerMs      \* PerMs microseconds to the millisecond: 1000
ASSUME TicksAssumption == Ticks \in Nat \ {0} /\ PerMs \in 1 .. Ticks

\* ra - rb in unsigned arithmetic.
Passed_Bug(ra, rb) == ra - rb

Passed(ra, rb) == (ra - rb) % Ticks

\* The time from the call on at which a loop that polls every gap ticks sees
\* the counter, which then was at start, far enough; -1 when it never does.
Polled(us, start, gap) ==
    LET late == {k \in 1 .. Ticks : Passed((start + k * gap) % Ticks, start) >= us}
    IN  IF late = {} THEN -1 ELSE gap * (CHOOSE k \in late : \A j \in late : k <= j)

delay_us(us, start, gap) == Polled(us, start, gap)

\* ms * 1000 as an unsigned.
Micros(ms) == (ms * PerMs) % Ticks

delay_ms(ms, start, gap) == delay_us(Micros(ms), start, gap)

\* The count that delay_core_timer() waits to be exceeded; the counter has 64
\* bits and the division loses the remainder.
Quota(f, divisor) == f \div divisor

delay_core_timer(f, divisor, gap) == gap * (Quota(f, divisor) \div gap + 1)

--------------------------------------------------------------------------------
(* Properties. *)

\* Wherever the counter stands, a wait lasts as long as asked and at most a poll
\* longer, also across the end of the counter, if it polls often enough to see
\* the counter before it has gone round.
WaitsAsLong(us, start, gap) ==
    us + gap <= Ticks => delay_us(us, start, gap) \in us .. us + gap

\* In milliseconds this is so up to Ticks / PerMs; from there on (71 minutes in
\* the code) the product is cut off and the wait is too short.
MillisCutOff(ms, start, gap) ==
    LET d == delay_ms(ms, start, gap)
    IN  /\ ms * PerMs + gap <= Ticks => d \in ms * PerMs .. ms * PerMs + gap
        /\ ms * PerMs >= Ticks + gap /\ gap = 1 => d < ms * PerMs

\* The core timer is polled for more than the part of a second asked for.
CorePart(f, divisor, gap) ==
    LET d == delay_core_timer(f, divisor, gap)
    IN  d * divisor > f - 1 /\ (d - gap) * divisor <= f
================================================================================
