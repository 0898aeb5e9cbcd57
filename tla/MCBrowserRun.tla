---------------------------- MODULE MCBrowserRun ----------------------------
(***************************************************************************)
(* A page that asks for its entry document twice (a frame or a reload of   *)
(* its own), for a resource, and in a way that is blocked; any three of    *)
(* these in one run.                                                       *)
(***************************************************************************)
EXTENDS BrowserRun

CONSTANTS page, frame, image, beacon

MCRoutes == {page, frame, image, beacon}
MCKindOf ==
  [r \in MCRoutes |-> CASE r \in {page, frame} -> "document"
                        [] r = image -> "resource" [] r = beacon -> "blocked"]
=============================================================================
