----------------------------- MODULE MCKeyboard -----------------------------
(* A keyboard of few keys for TLC. *)
EXTENDS Keyboard, Sleep

\* A Shift key, both Ctrl keys, C, Up.
ModifierBoard == {<<SC_LEFT_SHIFT>>, <<SC_LEFT_CTRL>>,
                  <<SC_EXTENDED_PREFIX, SC_LEFT_CTRL>>, <<SC_C>>,
                  <<SC_EXTENDED_PREFIX, SC_EXT_UP>>}

\* A small word, ten ticks a second; KeyboardProofs proves it of all.
ASSUME SleepHolds == \A ms \in 0 .. 999 : /\ FitsTheTime(ms)
                                          /\ \A s \in {0, 1, 1000, TickWord - 1} :
                                                \A k \in 0 .. 12 : EndsOnTime(ms, s, k)
=============================================================================
