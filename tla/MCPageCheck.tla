---------------------------- MODULE MCPageCheck ----------------------------
(***************************************************************************)
(* Two crawled pages, the first with two viewports and two health checks,  *)
(* the second with one viewport and ignoring console errors, against every *)
(* symptom.                                                                *)
(***************************************************************************)
EXTENDS PageCheck

Fine ==
  [valid |-> TRUE, timedOut |-> FALSE, document |-> "loaded",
   textMissing |-> FALSE, selector |-> "shown", forbiddenText |-> FALSE,
   application |-> FALSE, assertionFailed |-> FALSE, interactionFailed |-> FALSE,
   console |-> FALSE, exception |-> FALSE, resources |-> {}, visual |-> "matched"]

\* Every symptom, alone and in pairs.
AllObservations ==
  {Fine, Incomplete(TRUE), Incomplete(FALSE),
   [Fine EXCEPT !.valid = FALSE],
   [Fine EXCEPT !.valid = FALSE, !.visual = "baseline_pending"],
   [Fine EXCEPT !.document = "failed"], [Fine EXCEPT !.textMissing = TRUE],
   [Fine EXCEPT !.selector = "missing"], [Fine EXCEPT !.selector = "hidden"],
   [Fine EXCEPT !.selector = "flat"], [Fine EXCEPT !.forbiddenText = TRUE],
   [Fine EXCEPT !.application = TRUE], [Fine EXCEPT !.assertionFailed = TRUE],
   [Fine EXCEPT !.interactionFailed = TRUE], [Fine EXCEPT !.console = TRUE],
   [Fine EXCEPT !.exception = TRUE],
   [Fine EXCEPT !.exception = TRUE, !.visual = "baseline_pending"],
   [Fine EXCEPT !.resources = {"critical", "noncritical"}],
   [Fine EXCEPT !.resources = {"noncritical"}], [Fine EXCEPT !.visual = "changed"],
   [Fine EXCEPT !.visual = "unavailable", !.application = TRUE],
   [Fine EXCEPT !.visual = "unavailable"], [Fine EXCEPT !.visual = "none"],
   [Fine EXCEPT !.visual = "baseline_pending"]}

Answered == [Unavailable EXCEPT !.ok = TRUE]

AllAnswers ==
  {Answered, Unavailable, [Answered EXCEPT !.overdue = 2, !.fatal = TRUE],
   [Answered EXCEPT !.coreUpdate = TRUE], [Answered EXCEPT !.themeUpdate = TRUE],
   [Answered EXCEPT !.critical = TRUE, !.failing = 1],
   [Answered EXCEPT !.restFailed = TRUE]}

MixedViewports == <<2, 1>>
MixedHealthChecks == <<2, 0>>
=============================================================================
