---------------------------- MODULE MCAdminAccess ----------------------------
(***************************************************************************)
(* One account, also typed with a space too many, and a name of spaces;    *)
(* two passwords that will do and one that is too short.                   *)
(***************************************************************************)
EXTENDS AdminAccess, TLC

CONSTANTS alice, padded, blank, short

MCNames == {alice, padded, blank}
MCStrip == [n \in MCNames |-> IF n = padded THEN alice ELSE n]
MCPasswords == LongEnough \cup {short}

Symmetry == Permutations(Tokens) \cup Permutations(Requests) \cup Permutations(LongEnough)
=============================================================================
