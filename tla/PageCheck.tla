----------------------------- MODULE PageCheck -----------------------------
(***************************************************************************)
(* Checks of whole pages: what the browser saw in each viewport and what   *)
(* the WordPress health endpoints answered, reduced to one classification, *)
(* and the Discord alerts on the way (browser_checks.py, _summarize in     *)
(* api.py, wordpress_reporting.py, run_deep_check in runtime.py).  One     *)
(* check is followed at a time: checks share nothing of what is here.      *)
(*                                                                         *)
(* A viewport's evidence says which symptoms it shows: "valid" stands for  *)
(* _is_valid_evidence, the other fields for what its lists contain.        *)
(***************************************************************************)
EXTENDS Naturals, Sequences, FiniteSets

CONSTANTS
  Pages,           \* how many pages the manifest has
  Viewports,       \* how many viewports each page has
  HealthChecks,    \* how many WordPress health checks each page has
  Crawled,         \* the pages that a full triage crawls
  IgnoresConsole,  \* the pages with ignore_console_errors
  Observations,    \* what a browser run may bring back
  HealthAnswers,   \* what a health check may bring back
  NoJob            \* no check is running

\* A page under check: on whose behalf, how far, and whether its alerts are held back.
Jobs ==
  [kind : {"deep", "manual", "triage"}, page : 1..Pages,
   phase : {"checking", "crawling", "checked", "done"}, suppress : BOOLEAN]

ASSUME PageAssumption ==
  /\ Pages \in Nat \ {0}
  /\ Viewports \in [1..Pages -> Nat \ {0}]
  /\ HealthChecks \in [1..Pages -> Nat]
  /\ Crawled \subseteq 1..Pages
  /\ IgnoresConsole \subseteq 1..Pages
  /\ NoJob \notin Jobs

VARIABLES
  job,       \* the check that runs: its kind, page, phase, alert suppression
  evidence,  \* of the page's viewports, so far
  health,    \* failure codes of the page's health checks, so far
  alerts,    \* the alerts of the page that were sent
  verdicts,  \* classifications of the job's pages
  crawlFailures,  \* whether a crawl of the job found a page failing
  trouble    \* history: whether anything in the job was not as it should be

vars == <<job, evidence, health, alerts, verdicts, crawlFailures, trouble>>

-----------------------------------------------------------------------------
(* What a viewport's evidence amounts to. *)

Evidence ==
  [valid : BOOLEAN, timedOut : BOOLEAN, document : {"loaded", "failed", "none"},
   textMissing : BOOLEAN, selector : {"shown", "missing", "hidden", "flat"},
   forbiddenText : BOOLEAN, application : BOOLEAN, assertionFailed : BOOLEAN,
   interactionFailed : BOOLEAN, console : BOOLEAN, exception : BOOLEAN,
   resources : SUBSET {"critical", "noncritical"},
   visual : {"none", "baseline_pending", "matched", "changed", "unavailable"}]

\* A run that the deadline ended, or that an error did (_incomplete_evidence),
\* of a page that requires some text and some selector.
Incomplete(timedOut) ==
  [valid |-> TRUE, timedOut |-> timedOut, document |-> "none",
   textMissing |-> TRUE, selector |-> "missing", forbiddenText |-> FALSE,
   application |-> FALSE, assertionFailed |-> FALSE, interactionFailed |-> FALSE,
   console |-> FALSE, exception |-> FALSE, resources |-> {}, visual |-> "none"]

\* Failure codes a valid evidence shows.
Symptoms(e) ==
  [visual_regression |-> e.visual = "changed",
   visual_evaluation_failed |-> e.visual = "unavailable",
   browser_timeout |-> e.timedOut,
   document_failure |-> e.document # "loaded",
   required_text_missing |-> e.textMissing,
   required_selector_missing |-> e.selector = "missing",
   required_selector_not_visible |-> e.selector = "hidden",
   required_selector_zero_geometry |-> e.selector = "flat",
   forbidden_text_match |-> e.forbiddenText,
   application_failure |-> e.application,
   plugin_assertion_failed |-> e.assertionFailed,
   interaction_failed |-> e.interactionFailed,
   page_exception |-> e.exception,
   critical_resource_failure |-> "critical" \in e.resources]

\* evaluate_browser_evidence: the codes of all failures.
Failures(e, ignoreConsole) ==
  IF ~e.valid THEN {"invalid_browser_evidence"}
  ELSE {c \in DOMAIN Symptoms(e) : Symptoms(e)[c]}
         \cup {c \in {"console_error"} : e.console /\ ~ignoreConsole}

BaselinePending(e) == e.valid /\ e.visual = "baseline_pending"

-----------------------------------------------------------------------------
(* What a health check's answer amounts to. *)

HealthResult ==
  [ok : BOOLEAN, coreUpdate : BOOLEAN, themeUpdate : BOOLEAN, critical : BOOLEAN,
   overdue : Nat, failing : Nat, restFailed : BOOLEAN, fatal : BOOLEAN]

\* A health check without an answer to go by: no secret, no address, no
\* response, or not one in the expected form.
Unavailable ==
  [ok |-> FALSE, coreUpdate |-> FALSE, themeUpdate |-> FALSE, critical |-> FALSE,
   overdue |-> 0, failing |-> 0, restFailed |-> FALSE, fatal |-> FALSE]

HealthSymptoms(r) ==
  [wordpress_health_unavailable |-> ~r.ok,
   wordpress_core_update_available |-> r.coreUpdate,
   wordpress_theme_update_available |-> r.themeUpdate,
   wordpress_site_health_critical |-> r.critical,
   wordpress_cron_overdue |-> r.overdue > 0,
   wordpress_cron_failing |-> r.failing > 0,
   wordpress_rest_api_failure |-> r.restFailed,
   wordpress_fatal_error |-> r.fatal]

ASSUME InputAssumption ==
  Observations \subseteq Evidence /\ HealthAnswers \subseteq HealthResult

WordPressCodes == DOMAIN HealthSymptoms(Unavailable)

HealthFailures(r) == {c \in WordPressCodes : HealthSymptoms(r)[c]}

-----------------------------------------------------------------------------
(* The classification, most severe first. *)

Priority ==
  <<"render_failure", "wordpress_error_page", "critical_resource_failure",
    "javascript_failure", "functional_regression", "visual_regression",
    "baseline_pending", "healthy">>

\* Mutant: an uncaught exception is in no family.
JavascriptCodes_NoException == {"console_error"}

JavascriptCodes == {"console_error", "page_exception"}

CodesOf ==
  [render_failure |->
     {"invalid_browser_evidence", "browser_timeout", "document_failure"},
   wordpress_error_page |->
     {"application_failure", "forbidden_text_match"} \cup WordPressCodes,
   critical_resource_failure |-> {"critical_resource_failure"},
   javascript_failure |-> JavascriptCodes,
   functional_regression |->
     {"required_text_missing", "required_selector_missing",
      "required_selector_not_visible", "required_selector_zero_geometry",
      "plugin_assertion_failed", "interaction_failed"},
   visual_regression |-> {"visual_regression", "visual_evaluation_failed"}]

\* Mutant: a pending baseline is reported over a failure.
Classify_PendingFirst(codes, pending) ==
  LET present == {c \in DOMAIN CodesOf : codes \cap CodesOf[c] # {}}
                   \cup {"healthy"}
      first   == CHOOSE i \in DOMAIN Priority :
                   /\ Priority[i] \in present
                   /\ \A j \in 1..(i - 1) : Priority[j] \notin present
  IN  IF pending THEN "baseline_pending" ELSE Priority[first]

Classify(codes, pending) ==
  LET present == {c \in DOMAIN CodesOf : codes \cap CodesOf[c] # {}}
                   \cup {c \in {"baseline_pending"} : pending}
                   \cup {"healthy"}
      first   == CHOOSE i \in DOMAIN Priority :
                   /\ Priority[i] \in present
                   /\ \A j \in 1..(i - 1) : Priority[j] \notin present
  IN  Priority[first]

\* _summarize_page_check: the page's failure codes and whether a baseline is
\* pending, over all its viewports.
ViewportFailures(i) == Failures(evidence[i], job.page \in IgnoresConsole)

FailureCodes ==
  (UNION {ViewportFailures(i) : i \in DOMAIN evidence})
    \cup (UNION {health[i] : i \in DOMAIN health})

AnyPending == \E i \in DOMAIN evidence : BaselinePending(evidence[i])

ViewportClass(i) == Classify(ViewportFailures(i), BaselinePending(evidence[i]))

-----------------------------------------------------------------------------
Working(phase) == job # NoJob /\ job.phase = phase

PageVars == <<evidence, health, alerts>>

\* What an alert is about: a health check, by its number, or the page.
ThePage == 0

\* What a check is for: alerting (deep), an answer (manual: /checks/pages and
\* the admin panel's tests), or an answer about every page (triage).
Job(kind, page, suppress) ==
  [kind |-> kind, page |-> page, phase |-> "checking", suppress |-> suppress]

Init ==
  /\ job = NoJob
  /\ evidence = <<>>
  /\ health = <<>>
  /\ alerts = {}
  /\ verdicts = <<>>
  /\ crawlFailures = FALSE
  /\ trouble = FALSE

\* Evidence of a viewport that nothing is wrong with, by what the manifest
\* asks of page p rather than by any code.
Sound(p) ==
  [valid : {TRUE}, timedOut : {FALSE}, document : {"loaded"},
   textMissing : {FALSE}, selector : {"shown"}, forbiddenText : {FALSE},
   application : {FALSE}, assertionFailed : {FALSE}, interactionFailed : {FALSE},
   console : IF p \in IgnoresConsole THEN BOOLEAN ELSE {FALSE},
   exception : {FALSE}, resources : SUBSET {"noncritical"},
   visual : {"none", "baseline_pending", "matched"}]

Start(newJob) ==
  /\ job = NoJob
  /\ job' = newJob
  /\ UNCHANGED <<PageVars, verdicts, crawlFailures, trouble>>

\* run_deep_check: whether now is within a maintenance window of the page is
\* looked up once, before anything is checked.
StartDeep(p) == \E inWindow \in BOOLEAN : Start(Job("deep", p, inWindow))

StartManual(p) == Start(Job("manual", p, FALSE))

StartTriage == Start(Job("triage", 1, FALSE))

\* The browser checks the next viewport.
CheckViewport(e) ==
  /\ Working("checking")
  /\ Len(evidence) < Viewports[job.page]
  /\ evidence' = Append(evidence, e)
  /\ trouble' = (trouble \/ e \notin Sound(job.page))
  /\ UNCHANGED <<job, health, alerts, verdicts, crawlFailures>>

\* Sending an alert, which may fail; the caller carries on in both cases.
Send(about) ==
  \E delivered \in BOOLEAN :
    alerts' = alerts \cup {[about |-> about, delivered |-> delivered]}

\* Mutant: a failed delivery ends the alerting of the page's health checks.
AlertsHealth_UntilFailedDelivery(codes) ==
  codes # {} /\ ~job.suppress /\ \A a \in alerts : a.delivered

AlertsHealth(codes) == codes # {} /\ ~job.suppress

\* Once the viewports are done, the next WordPress health check is asked and,
\* if it reports a failure, alerted at once (_summarize_page_check).
CheckHealth(r) ==
  /\ Working("checking")
  /\ Len(evidence) = Viewports[job.page]
  /\ Len(health) < HealthChecks[job.page]
  /\ health' = Append(health, HealthFailures(r))
  /\ IF AlertsHealth(HealthFailures(r)) THEN Send(Len(health) + 1)
     ELSE UNCHANGED alerts
  /\ trouble' = (trouble \/ HealthFailures(r) # {})
  /\ UNCHANGED <<job, evidence, verdicts, crawlFailures>>

\* The page's result; a scheduled check alerts on it, a triage goes on.
Summarize ==
  LET verdict == Classify(FailureCodes, AnyPending)
  IN  /\ Working("checking")
      /\ Len(evidence) = Viewports[job.page]
      /\ Len(health) = HealthChecks[job.page]
      /\ verdicts' = Append(verdicts, verdict)
      /\ IF /\ job.kind = "deep"
            /\ verdict \notin {"healthy", "baseline_pending"}
            /\ ~job.suppress
         THEN Send(ThePage) ELSE UNCHANGED alerts
      /\ job' = [job EXCEPT !.phase = IF job.kind # "triage" THEN "done"
                                      ELSE IF job.page \in Crawled THEN "crawling"
                                      ELSE "checked"]
      /\ UNCHANGED <<evidence, health, crawlFailures, trouble>>

\* Mutant: only the last crawl counts.
Crawl_LastCounts(failed) ==
  /\ Working("crawling")
  /\ crawlFailures' = failed
  /\ trouble' = (trouble \/ failed)
  /\ job' = [job EXCEPT !.phase = "checked"]
  /\ UNCHANGED <<PageVars, verdicts>>

\* The crawl of a page's site, which finds failing pages or does not.
Crawl(failed) ==
  /\ Working("crawling")
  /\ crawlFailures' = (crawlFailures \/ failed)
  /\ trouble' = (trouble \/ failed)
  /\ job' = [job EXCEPT !.phase = "checked"]
  /\ UNCHANGED <<PageVars, verdicts>>

\* A triage turns to the next page, or is done.
NextPage ==
  /\ Working("checked")
  /\ IF job.page < Pages
     THEN /\ job' = [job EXCEPT !.page = @ + 1, !.phase = "checking"]
          /\ evidence' = <<>>
          /\ health' = <<>>
          /\ alerts' = {}
     ELSE /\ job' = [job EXCEPT !.phase = "done"]
          /\ UNCHANGED PageVars
  /\ UNCHANGED <<verdicts, crawlFailures, trouble>>

\* The result of a full triage that is done.
TriagePasses ==
  ~crawlFailures /\ \A i \in DOMAIN verdicts : verdicts[i] = "healthy"

\* The job is over, or given up: an exception, a scheduler that is stopped, a
\* client that left.
End ==
  /\ job # NoJob
  /\ job' = NoJob
  /\ evidence' = <<>>
  /\ health' = <<>>
  /\ alerts' = {}
  /\ verdicts' = <<>>
  /\ crawlFailures' = FALSE
  /\ trouble' = FALSE

Next ==
  \/ \E p \in 1..Pages : StartDeep(p) \/ StartManual(p)
  \/ StartTriage
  \/ \E e \in Observations : CheckViewport(e)
  \/ \E r \in HealthAnswers : CheckHealth(r)
  \/ Summarize
  \/ \E failed \in BOOLEAN : Crawl(failed)
  \/ NextPage
  \/ End

Spec == Init /\ [][Next]_vars

-----------------------------------------------------------------------------
FailingChecks == {i \in DOMAIN health : health[i] # {}}

PageIsSound ==
  /\ FailingChecks = {}
  /\ \A i \in DOMAIN evidence : evidence[i] \in Sound(job.page)

Alert == [about : Nat, delivered : BOOLEAN]

Alerted == {a.about : a \in alerts}

\* Every variable has its type, and a page has no more evidence and answers
\* than viewports and health checks.
TypeOK ==
  /\ {crawlFailures, trouble} \subseteq BOOLEAN
  /\ \/ job = NoJob /\ evidence = <<>> /\ health = <<>> /\ alerts = {}
     \/ /\ job \in Jobs
        /\ Len(evidence) <= Viewports[job.page]
        /\ Len(health) <= HealthChecks[job.page]
  /\ \A i \in DOMAIN evidence : evidence[i] \in Evidence
  /\ \A i \in DOMAIN health : health[i] \subseteq WordPressCodes
  /\ \A a \in alerts : a \in Alert
  /\ \A i \in DOMAIN verdicts : \E j \in DOMAIN Priority : verdicts[i] = Priority[j]

\* A scheduled check that began outside maintenance alerts about its page
\* exactly when something is wrong with it: whatever a viewport or a health
\* check shows reaches Discord, and nothing else does (run_deep_check decides
\* by a classification that reduces all of it to one word).
TroubleIsAlerted ==
  Working("done") /\ job.kind = "deep" /\ ~job.suppress =>
    (ThePage \in Alerted <=> ~PageIsSound)

\* A page's classification is the most severe of those its viewports have by
\* themselves and of "wordpress_error_page" if a health check fails: reducing
\* the union of all codes loses none and invents none.
WorstViewportWins ==
  Working("done") /\ job.kind # "triage" =>
    LET own     == {ViewportClass(i) : i \in DOMAIN evidence}
                     \cup {c \in {"wordpress_error_page"} : FailingChecks # {}}
        Rank(c) == CHOOSE i \in DOMAIN Priority : Priority[i] = c
    IN  /\ verdicts[1] \in own
        /\ \A c \in own : Rank(verdicts[1]) <= Rank(c)

\* Each health check that fails is alerted, also after the delivery of an
\* earlier alert has failed, and none that passes; none at all in a check that
\* is suppressed.
FailingHealthChecksAreAlerted ==
  Working("done") =>
    Alerted \ {ThePage} = {i \in FailingChecks : ~job.suppress}

\* A full triage ends "failed" when anything was wrong in any viewport, health check
\* or crawl of any page, however many pages came after, and "healthy" when nothing
\* was.  A page that came out as baseline_pending, with nothing wrong elsewhere, is
\* left out: the code counts it as not healthy (api.py:404), the README does not
\* call it a failure.
FullTriageHidesNothing ==
  Working("done") /\ job.kind = "triage" =>
    /\ trouble => ~TriagePasses
    /\ ~trouble /\ (\A i \in DOMAIN verdicts : verdicts[i] # "baseline_pending")
         => TriagePasses
=============================================================================
