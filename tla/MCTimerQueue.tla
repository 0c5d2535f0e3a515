--------------------------- MODULE MCTimerQueue ---------------------------
(* Two timers that can be due before, with and after each other, already   *)
(* past, at once, or one or two units ahead, and repeat faster or slower   *)
(* than the loop comes round.                                              *)
EXTENDS TimerQueue

MCWhens == {-1, 0, 2}
MCIntervals == {0, 1}
MCJumps == {-1, 2}
=============================================================================
