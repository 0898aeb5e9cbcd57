-------------------------- MODULE MCCheckScheduler --------------------------
(***************************************************************************)
(* Pages p1 and p2 of site s1, page p3 of site s2.  f1, f2 and f3 are the  *)
(* fast loops of the pages, d1 is the deep loop of p1.                     *)
(***************************************************************************)
EXTENDS CheckScheduler

CONSTANTS p1, p2, p3, s1, s2, f1, f2, f3, d1

MCSiteOf == [p \in Pages |-> IF p = p3 THEN s2 ELSE s1]
MCLoopPage == [l \in Loops |-> CASE l = f2 -> p2 [] l = f3 -> p3 [] OTHER -> p1]
=============================================================================
