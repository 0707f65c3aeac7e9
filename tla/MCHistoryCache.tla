--------------------------- MODULE MCHistoryCache ---------------------------
(* HistoryCache with one key more than fits, a new value for a known key,   *)
(* and two goroutines and a clear, so that a call on the discarded cache    *)
(* meets one on the new one.                                                *)
EXTENDS HistoryCache, TLC

CONSTANTS k1, k2, k3, v1, v2, c1, c2, e1, e2, e3

MCKey == {k1, k2, k3}
MCValue == {v1, v2}
MCCaller == {c1, c2}
MCElement == {e1, e2, e3}
MCSymmetry == Permutations(MCKey) \cup Permutations(MCValue) \cup Permutations(MCCaller)
              \cup Permutations(MCElement)
=============================================================================
