------------------------- MODULE MCIncidentRegistry -------------------------
(***************************************************************************)
(* One monitor (monitors share no rows), a confirmed outage, a blocked     *)
(* probe and a recovery, two instants and enough tokens for a delivered    *)
(* report, one in flight and a takeover of an expired one.                 *)
(***************************************************************************)
EXTENDS IncidentRegistry, TLC

CONSTANTS t1, t2, t3

MCTokens == {t1, t2, t3}
MCTimes == 1 .. 2

TokenSymmetry == Permutations(MCTokens)
=============================================================================
