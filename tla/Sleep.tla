-------------------------------- MODULE Sleep -------------------------------
(***************************************************************************)
(* How long sleep (src/src/time.c) waits.  It counts ticks of the timer    *)
(* from the one it begins in; the counter is a machine word and starts     *)
(* again at zero.                                                          *)
(***************************************************************************)
EXTENDS Integers

CONSTANTS TickWord,        \* 2^32
          TIMER_FREQUENCY  \* ticks in a second

ASSUME TimerAssumption == TickWord \in Nat /\ TickWord > 1000 /\ TIMER_FREQUENCY \in 1 .. 1000

timer_handler_c(timer_ticks) == (timer_ticks + 1) % TickWord

ticks_to_wait(ms) ==
    LET ticks == ((ms * TIMER_FREQUENCY) % TickWord) \div 1000
    IN IF ticks = 0 THEN 1 ELSE ticks

\* Whether a sleep that began at start_ticks ends when it reads current_ticks.
SleepEnds(ms, start_ticks, current_ticks) ==
    \/ ms = 0
    \/ (current_ticks - start_ticks) % TickWord >= ticks_to_wait(ms)

\* The counter k ticks after start_ticks.
Ticks(start_ticks, k) == (start_ticks + k) % TickWord

-----------------------------------------------------------------------------
\* The loop sees when enough ticks have passed, no matter from where the counter
\* started and whether it has come back to zero.
EndsOnTime(ms, start_ticks, k) ==
    ms # 0 => (SleepEnds(ms, start_ticks, Ticks(start_ticks, k)) <=> k >= ticks_to_wait(ms))

\* The ticks are as many as fit in the time, and one if none does.  The time
\* must be one whose product does not wrap: below twelve hours, at 100 Hz.
FitsTheTime(ms) ==
    ms * TIMER_FREQUENCY < TickWord =>
        /\ ms * TIMER_FREQUENCY < (ticks_to_wait(ms) + 1) * 1000
        /\ ticks_to_wait(ms) = 1 \/ ticks_to_wait(ms) * 1000 <= ms * TIMER_FREQUENCY
=============================================================================
