--------------------------- MODULE MCAsyncLogger ----------------------------
(* AsyncLogger with two callers, two closers, two levels and a short channel. *)
EXTENDS AsyncLogger

CONSTANTS g1, g2, k1, k2

MCCaller == {g1, g2}
MCCloser == {k1, k2}
MCLevel == {0, 1}
=============================================================================
