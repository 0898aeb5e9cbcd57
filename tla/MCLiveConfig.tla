---------------------------- MODULE MCLiveConfig ----------------------------
(***************************************************************************)
(* Three manifests: without loops, with a single one, and with two.        *)
(***************************************************************************)
EXTENDS LiveConfig

CONSTANTS none, one, two, l1, l2, g1, g2, g3

MCManifests == {none, one, two}

MCLoopsOf ==
  [m \in MCManifests |-> CASE m = none -> {} [] m = one -> {l1} [] m = two -> {l1, l2}]

MCGenerations == {g1, g2, g3}
=============================================================================
