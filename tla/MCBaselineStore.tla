-------------------------- MODULE MCBaselineStore --------------------------
(***************************************************************************)
(* One page and viewport (slots share no files but the log), two           *)
(* interchangeable images and one that is too large to compare, and three  *)
(* approvals: one that dies half-way, one that the next replaces.          *)
(***************************************************************************)
EXTENDS BaselineStore, TLC

CONSTANTS a, b, c

MCImages == {a, b, c}

MCComparable == {a, b}

ImageSymmetry == Permutations(MCComparable)
=============================================================================
