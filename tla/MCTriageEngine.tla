--------------------------- MODULE MCTriageEngine ---------------------------
(***************************************************************************)
(* Two handlers at a time of one monitor, two or three publication         *)
(* attempts in all, and a clock that runs past one lease.                  *)
(***************************************************************************)
EXTENDS TriageEngine, TLC

CONSTANTS t1, t2, t3, h1, h2

MCTokens == {t1, t2, t3}
MCTwoTokens == {t1, t2}
MCTasks == {h1, h2}
MCTimes == 0 .. MaxClock

MCSymmetry == Permutations(MCTokens) \cup Permutations(MCTasks)
=============================================================================
