-------------------------- MODULE PageCheckProofs --------------------------
(***************************************************************************)
(* For any manifest and any observations: the classification of a page is  *)
(* the worst of what its viewports and health checks show by themselves,   *)
(* whatever is wrong is alerted, and a full triage hides nothing.          *)
(***************************************************************************)
EXTENDS PageCheck, SequenceTheorems, TLAPS

Verdicts == {Priority[i] : i \in DOMAIN Priority}

\* Every variable has its type, and there is nothing between jobs.
Typed ==
  /\ job \in Jobs \cup {NoJob}
  /\ evidence \in Seq(Evidence)
  /\ health \in Seq(SUBSET WordPressCodes)
  /\ alerts \subseteq Alert
  /\ verdicts \in Seq(Verdicts)
  /\ crawlFailures \in BOOLEAN /\ trouble \in BOOLEAN
  /\ job = NoJob =>
       /\ evidence = <<>> /\ health = <<>> /\ alerts = {} /\ verdicts = <<>>
       /\ ~crawlFailures /\ ~trouble

\* How far the check of the page is.
ProgressInv ==
  job # NoJob =>
    /\ Len(evidence) <= Viewports[job.page] /\ Len(health) <= HealthChecks[job.page]
    /\ job.phase # "checking" => Len(evidence) = Viewports[job.page]
    /\ job.kind # "triage" => job.phase \in {"checking", "done"}

Verdict == Classify(FailureCodes, AnyPending)

Severe(verdict) == verdict \notin {"healthy", "baseline_pending"}

\* A check of one page has its verdict exactly when it is done.
VerdictInv ==
  job # NoJob /\ job.kind # "triage" =>
    verdicts = IF job.phase = "checking" THEN <<>> ELSE <<Verdict>>

\* Which alerts were sent so far, of health checks and of the page.
AlertsInv ==
  job # NoJob =>
    /\ Alerted \ {ThePage} = {i \in FailingChecks : ~job.suppress}
    /\ ThePage \in Alerted <=>
         job.phase # "checking" /\ job.kind = "deep" /\ ~job.suppress /\ Severe(Verdict)

\* Whatever went wrong in a triage is in a verdict, in a crawl or on the page at hand.
TroubleInv ==
  job # NoJob /\ job.kind = "triage" =>
    (trouble <=>
       \/ crawlFailures
       \/ \E i \in DOMAIN verdicts : Severe(verdicts[i])
       \/ job.phase = "checking" /\ ~PageIsSound)

PageInv ==
  /\ Typed
  /\ ProgressInv
  /\ VerdictInv
  /\ AlertsInv
  /\ TroubleInv

-----------------------------------------------------------------------------
(* The classification: the most severe of the families that are present.   *)

Present(codes, pending) ==
  {c \in DOMAIN CodesOf : codes \cap CodesOf[c] # {}}
    \cup {c \in {"baseline_pending"} : pending}
    \cup {"healthy"}

Rank(c) == CHOOSE i \in DOMAIN Priority : Priority[i] = c

Families ==
  {"render_failure", "wordpress_error_page", "critical_resource_failure",
   "javascript_failure", "functional_regression", "visual_regression"}

LEMMA FamilyNames == DOMAIN CodesOf = Families
BY DEF CodesOf, Families

LEMMA PriorityValues ==
  /\ DOMAIN Priority = 1..8
  /\ Priority[1] = "render_failure" /\ Priority[2] = "wordpress_error_page"
  /\ Priority[3] = "critical_resource_failure" /\ Priority[4] = "javascript_failure"
  /\ Priority[5] = "functional_regression" /\ Priority[6] = "visual_regression"
  /\ Priority[7] = "baseline_pending" /\ Priority[8] = "healthy"
BY DEF Priority

\* No two classifications have the same place.
LEMMA PriorityOnce ==
  \A i, j \in DOMAIN Priority : Priority[i] = Priority[j] => i = j
<1> SUFFICES ASSUME NEW i \in 1..8, NEW j \in 1..8, Priority[i] = Priority[j] PROVE i = j
  BY PriorityValues
<1>1. i \in {1, 2, 3, 4, 5, 6, 7, 8} /\ j \in {1, 2, 3, 4, 5, 6, 7, 8}
  OBVIOUS
<1>2. QED
  BY <1>1, PriorityValues

LEMMA RankOfPriority ==
  ASSUME NEW i \in DOMAIN Priority
  PROVE  Rank(Priority[i]) = i
BY PriorityOnce DEF Rank

\* Whatever is present, one place is the first.
LEMMA SomePlaceIsFirst ==
  ASSUME NEW present, "healthy" \in present
  PROVE  \E i \in DOMAIN Priority : /\ Priority[i] \in present
                                    /\ \A j \in 1..(i - 1) : Priority[j] \notin present
<1>1. ASSUME NEW i \in 1..8, Priority[i] \in present,
             \A j \in 1..8 : j < i => Priority[j] \notin present
      PROVE  \E k \in DOMAIN Priority : /\ Priority[k] \in present
                                        /\ \A j \in 1..(k - 1) : Priority[j] \notin present
  BY <1>1, PriorityValues
<1>2. \A j \in 1..8 : j \in {1, 2, 3, 4, 5, 6, 7, 8}
  OBVIOUS
<1>3. CASE Priority[1] \in present
  BY <1>1, <1>3
<1>4. CASE Priority[1] \notin present /\ Priority[2] \in present
  BY <1>1, <1>2, <1>4
<1>5. CASE Priority[1] \notin present /\ Priority[2] \notin present /\ Priority[3] \in present
  BY <1>1, <1>2, <1>5
<1>6. CASE /\ Priority[1] \notin present /\ Priority[2] \notin present
           /\ Priority[3] \notin present /\ Priority[4] \in present
  BY <1>1, <1>2, <1>6
<1>7. CASE /\ Priority[1] \notin present /\ Priority[2] \notin present
           /\ Priority[3] \notin present /\ Priority[4] \notin present /\ Priority[5] \in present
  BY <1>1, <1>2, <1>7
<1>8. CASE /\ Priority[1] \notin present /\ Priority[2] \notin present
           /\ Priority[3] \notin present /\ Priority[4] \notin present
           /\ Priority[5] \notin present /\ Priority[6] \in present
  BY <1>1, <1>2, <1>8
<1>9. CASE /\ Priority[1] \notin present /\ Priority[2] \notin present
           /\ Priority[3] \notin present /\ Priority[4] \notin present
           /\ Priority[5] \notin present /\ Priority[6] \notin present /\ Priority[7] \in present
  BY <1>1, <1>2, <1>9
<1>10. CASE /\ Priority[1] \notin present /\ Priority[2] \notin present
            /\ Priority[3] \notin present /\ Priority[4] \notin present
            /\ Priority[5] \notin present /\ Priority[6] \notin present
            /\ Priority[7] \notin present
  BY <1>1, <1>2, <1>10, PriorityValues
<1>11. QED
  BY <1>3, <1>4, <1>5, <1>6, <1>7, <1>8, <1>9, <1>10

LEMMA PresentHasPlace ==
  ASSUME NEW codes, NEW pending, NEW c \in Present(codes, pending)
  PROVE  \E i \in DOMAIN Priority : Priority[i] = c
<1>1. c \in Families \cup {"baseline_pending", "healthy"}
  BY FamilyNames DEF Present
<1>2. QED
  BY <1>1, PriorityValues DEF Families

\* What a page or a viewport is called is present, and nothing present is worse.
LEMMA ClassifyIsWorst ==
  ASSUME NEW codes, NEW pending
  PROVE  /\ Classify(codes, pending) \in Present(codes, pending)
         /\ Classify(codes, pending) \in Verdicts
         /\ \A c \in Present(codes, pending) : Rank(Classify(codes, pending)) <= Rank(c)
<1> DEFINE present == Present(codes, pending)
           isFirst(i) == /\ Priority[i] \in present
                         /\ \A j \in 1..(i - 1) : Priority[j] \notin present
           first == CHOOSE i \in DOMAIN Priority : isFirst(i)
<1>1. Classify(codes, pending) = Priority[first]
  BY DEF Classify, Present
<1>2. "healthy" \in present
  BY DEF Present
<1>3. \E i \in DOMAIN Priority : isFirst(i)
  BY <1>2, SomePlaceIsFirst
<1>4. PICK f \in DOMAIN Priority : isFirst(f) /\ Classify(codes, pending) = Priority[f]
  BY <1>1, <1>3
<1>5. ASSUME NEW c \in present PROVE f <= Rank(c)
  <2>1. PICK i \in DOMAIN Priority : Priority[i] = c
    BY <1>5, PresentHasPlace
  <2>2. Rank(c) = i
    BY <2>1, RankOfPriority
  <2>3. ~(i \in 1..(f - 1))
    BY <1>4, <1>5, <2>1
  <2>4. i \in 1..8 /\ f \in 1..8
    BY PriorityValues
  <2>5. QED
    BY <2>2, <2>3, <2>4
<1>6. Rank(Priority[f]) = f
  BY RankOfPriority
<1>7. QED
  BY <1>4, <1>5, <1>6 DEF Verdicts

\* Two classifications that are present at each other's side and no worse than the
\* other are the same.
LEMMA SameRank ==
  ASSUME NEW v \in Verdicts, NEW w \in Verdicts, Rank(v) <= Rank(w), Rank(w) <= Rank(v)
  PROVE  v = w
<1>1. PICK i \in DOMAIN Priority : Priority[i] = v
  BY DEF Verdicts
<1>2. PICK j \in DOMAIN Priority : Priority[j] = w
  BY DEF Verdicts
<1>3. Rank(v) = i /\ Rank(w) = j /\ i \in 1..8 /\ j \in 1..8
  BY <1>1, <1>2, RankOfPriority, PriorityValues
<1>4. QED
  BY <1>1, <1>2, <1>3

-----------------------------------------------------------------------------
(* Codes and families: every code counts, and nothing sound has one.       *)

SymptomCodes ==
  {"visual_regression", "visual_evaluation_failed", "browser_timeout", "document_failure",
   "required_text_missing", "required_selector_missing", "required_selector_not_visible",
   "required_selector_zero_geometry", "forbidden_text_match", "application_failure",
   "plugin_assertion_failed", "interaction_failed", "page_exception",
   "critical_resource_failure"}

LEMMA SymptomNames == \A e : DOMAIN Symptoms(e) = SymptomCodes
BY DEF Symptoms, SymptomCodes

LEMMA SymptomValues ==
  ASSUME NEW e
  PROVE  /\ Symptoms(e)["visual_regression"] <=> e.visual = "changed"
         /\ Symptoms(e)["visual_evaluation_failed"] <=> e.visual = "unavailable"
         /\ Symptoms(e)["browser_timeout"] <=> e.timedOut
         /\ Symptoms(e)["document_failure"] <=> e.document # "loaded"
         /\ Symptoms(e)["required_text_missing"] <=> e.textMissing
         /\ Symptoms(e)["required_selector_missing"] <=> e.selector = "missing"
         /\ Symptoms(e)["required_selector_not_visible"] <=> e.selector = "hidden"
         /\ Symptoms(e)["required_selector_zero_geometry"] <=> e.selector = "flat"
         /\ Symptoms(e)["forbidden_text_match"] <=> e.forbiddenText
         /\ Symptoms(e)["application_failure"] <=> e.application
         /\ Symptoms(e)["plugin_assertion_failed"] <=> e.assertionFailed
         /\ Symptoms(e)["interaction_failed"] <=> e.interactionFailed
         /\ Symptoms(e)["page_exception"] <=> e.exception
         /\ Symptoms(e)["critical_resource_failure"] <=> "critical" \in e.resources
BY DEF Symptoms

LEMMA WordPressNames ==
  WordPressCodes = {"wordpress_health_unavailable", "wordpress_core_update_available",
                    "wordpress_theme_update_available", "wordpress_site_health_critical",
                    "wordpress_cron_overdue", "wordpress_cron_failing",
                    "wordpress_rest_api_failure", "wordpress_fatal_error"}
BY DEF WordPressCodes, HealthSymptoms

LEMMA FamilyCodes ==
  /\ CodesOf["render_failure"] =
       {"invalid_browser_evidence", "browser_timeout", "document_failure"}
  /\ CodesOf["wordpress_error_page"] =
       {"application_failure", "forbidden_text_match"} \cup WordPressCodes
  /\ CodesOf["critical_resource_failure"] = {"critical_resource_failure"}
  /\ CodesOf["javascript_failure"] = {"console_error", "page_exception"}
  /\ CodesOf["functional_regression"] =
       {"required_text_missing", "required_selector_missing",
        "required_selector_not_visible", "required_selector_zero_geometry",
        "plugin_assertion_failed", "interaction_failed"}
  /\ CodesOf["visual_regression"] = {"visual_regression", "visual_evaluation_failed"}
BY DEF CodesOf, JavascriptCodes

\* Whatever a viewport shows belongs to some family.
LEMMA EveryCodeCounts ==
  ASSUME NEW e, NEW ignoreConsole, NEW c \in Failures(e, ignoreConsole)
  PROVE  \E f \in Families : c \in CodesOf[f]
<1>1. c \in SymptomCodes \cup {"invalid_browser_evidence", "console_error"}
  BY SymptomNames DEF Failures
<1>2. QED
  BY <1>1, FamilyCodes DEF SymptomCodes, Families

\* What a health check shows belongs to one family only.
LEMMA HealthCodesCount ==
  ASSUME NEW c \in WordPressCodes, NEW f \in Families
  PROVE  c \in CodesOf[f] <=> f = "wordpress_error_page"
BY WordPressNames, FamilyCodes DEF Families

\* A viewport has no failure exactly if it is as the manifest wants it.
LEMMA SoundHasNoFailure ==
  ASSUME NEW e \in Evidence, NEW p
  PROVE  Failures(e, p \in IgnoresConsole) = {} <=> e \in Sound(p)
<1>1. ASSUME e \in Sound(p) PROVE Failures(e, p \in IgnoresConsole) = {}
  <2>1. /\ e.valid = TRUE /\ e.timedOut = FALSE /\ e.document = "loaded"
        /\ e.textMissing = FALSE /\ e.selector = "shown" /\ e.forbiddenText = FALSE
        /\ e.application = FALSE /\ e.assertionFailed = FALSE
        /\ e.interactionFailed = FALSE /\ e.exception = FALSE
        /\ e.resources \in SUBSET {"noncritical"}
        /\ e.visual \in {"none", "baseline_pending", "matched"}
        /\ e.console \in IF p \in IgnoresConsole THEN BOOLEAN ELSE {FALSE}
    BY <1>1 DEF Sound
  <2>2. \A c \in SymptomCodes : ~Symptoms(e)[c]
    <3>1. /\ e.document = "loaded" /\ e.selector # "missing" /\ e.selector # "hidden"
          /\ e.selector # "flat" /\ e.visual # "changed" /\ e.visual # "unavailable"
          /\ "critical" \notin e.resources
      BY <2>1
    <3>2. /\ ~e.timedOut /\ ~e.textMissing /\ ~e.forbiddenText /\ ~e.application
          /\ ~e.assertionFailed /\ ~e.interactionFailed /\ ~e.exception
      BY <2>1
    <3>3. QED
      BY <3>1, <3>2, SymptomValues DEF SymptomCodes
  <2>3. ~(e.console /\ ~(p \in IgnoresConsole))
    BY <2>1
  <2>4. QED
    BY <2>1, <2>2, <2>3, SymptomNames DEF Failures
<1>2. ASSUME Failures(e, p \in IgnoresConsole) = {} PROVE e \in Sound(p)
  <2>1. e.valid
    BY <1>2 DEF Failures
  <2>2. /\ \A c \in SymptomCodes : ~Symptoms(e)[c]
        /\ ~(e.console /\ ~(p \in IgnoresConsole))
    BY <1>2, <2>1, SymptomNames DEF Failures
  <2>3. /\ ~e.timedOut /\ e.document = "loaded" /\ ~e.textMissing
        /\ e.selector \notin {"missing", "hidden", "flat"} /\ ~e.forbiddenText
        /\ ~e.application /\ ~e.assertionFailed /\ ~e.interactionFailed /\ ~e.exception
        /\ "critical" \notin e.resources /\ e.visual \notin {"changed", "unavailable"}
    BY <2>2 DEF Symptoms, SymptomCodes
  <2>4. QED
    BY <2>1, <2>2, <2>3 DEF Evidence, Sound
<1>3. QED
  BY <1>1, <1>2

\* The reduction to one word keeps whether there was any code of a family.
LEMMA SevereMeansCodes ==
  ASSUME NEW codes, NEW pending
  PROVE  Severe(Classify(codes, pending)) <=> \E f \in Families : codes \cap CodesOf[f] # {}
<1> DEFINE v == Classify(codes, pending)
<1>1. v \in Present(codes, pending) /\ \A c \in Present(codes, pending) : Rank(v) <= Rank(c)
  BY ClassifyIsWorst
<1> HIDE DEF v
<1>2. ASSUME Severe(v) PROVE \E f \in Families : codes \cap CodesOf[f] # {}
  BY <1>1, <1>2, FamilyNames DEF Present, Severe
<1>3. ASSUME NEW f \in Families, codes \cap CodesOf[f] # {} PROVE Severe(v)
  <2>1. f \in Present(codes, pending)
    BY <1>3, FamilyNames DEF Present
  <2>2. Rank(v) <= Rank(f)
    BY <1>1, <2>1
  <2>3. Rank(f) \in 1..6
    <3>1. \E i \in 1..6 : Priority[i] = f
      BY PriorityValues DEF Families
    <3>2. QED
      BY <3>1, RankOfPriority, PriorityValues
  <2>4. Rank("healthy") = 8 /\ Rank("baseline_pending") = 7
    BY RankOfPriority, PriorityValues
  <2>5. v # "healthy" /\ v # "baseline_pending"
    BY <2>2, <2>3, <2>4
  <2>6. QED
    BY <2>5 DEF Severe
<1>4. QED
  BY <1>2, <1>3 DEF v

LEMMA CodesOfThePage ==
  \A c : c \in FailureCodes <=> \/ \E i \in DOMAIN evidence : c \in ViewportFailures(i)
                               \/ \E i \in DOMAIN health : c \in health[i]
<1> DEFINE seen == UNION {ViewportFailures(i) : i \in DOMAIN evidence}
           answered == UNION {health[i] : i \in DOMAIN health}
<1>1. \A c : c \in seen <=> \E i \in DOMAIN evidence : c \in ViewportFailures(i)
  BY Zenon
<1>2. \A c : c \in answered <=> \E i \in DOMAIN health : c \in health[i]
  BY Zenon
<1>3. FailureCodes = seen \cup answered
  BY DEF FailureCodes
<1> HIDE DEF seen, answered
<1>4. \A c : c \in FailureCodes <=> c \in seen \/ c \in answered
  BY <1>3
<1>5. QED
  BY <1>1, <1>2, <1>4, Zenon

\* The page as a whole: its verdict is severe exactly if something is wrong with it.
LEMMA VerdictIsSevere ==
  ASSUME Typed
  PROVE  Severe(Verdict) <=> ~PageIsSound
<1>1. /\ \A i \in DOMAIN evidence : evidence[i] \in Evidence
      /\ \A i \in DOMAIN health : health[i] \in SUBSET WordPressCodes
  BY DEF Typed
<1>2. Severe(Verdict) <=> FailureCodes # {}
  <2>1. \A c \in FailureCodes : \E f \in Families : c \in CodesOf[f]
    <3> SUFFICES ASSUME NEW c \in FailureCodes PROVE \E f \in Families : c \in CodesOf[f]
      OBVIOUS
    <3>1. CASE \E i \in DOMAIN evidence : c \in ViewportFailures(i)
      BY <3>1, EveryCodeCounts DEF ViewportFailures
    <3>2. CASE \E i \in DOMAIN health : c \in health[i]
      <4>1. c \in WordPressCodes
        BY <1>1, <3>2
      <4>2. "wordpress_error_page" \in Families
        BY DEF Families
      <4>3. QED
        BY <4>1, <4>2, HealthCodesCount
    <3>3. QED
      BY <3>1, <3>2, CodesOfThePage
  <2>2. Severe(Verdict) <=> \E f \in Families : FailureCodes \cap CodesOf[f] # {}
    BY SevereMeansCodes DEF Verdict
  <2>3. QED
    BY <2>1, <2>2
<1>3. FailureCodes # {} <=> \/ \E i \in DOMAIN evidence : ViewportFailures(i) # {}
                            \/ \E i \in DOMAIN health : health[i] # {}
  <2>1. ASSUME NEW S PROVE S # {} <=> \E c : c \in S
    OBVIOUS
  <2>2. QED
    BY <2>1, CodesOfThePage, Zenon
<1>4. \A i \in DOMAIN evidence : ViewportFailures(i) = {} <=> evidence[i] \in Sound(job.page)
  BY <1>1, SoundHasNoFailure DEF ViewportFailures
<1>5. QED
  BY <1>2, <1>3, <1>4 DEF PageIsSound, FailingChecks

\* What the page is called and what its parts are called by themselves.
LEMMA WorstOfItsParts ==
  ASSUME Typed, DOMAIN evidence # {}
  PROVE  LET own == {ViewportClass(i) : i \in DOMAIN evidence}
                      \cup {c \in {"wordpress_error_page"} : FailingChecks # {}}
         IN  /\ Verdict \in own
             /\ \A c \in own : Rank(Verdict) <= Rank(c)
<1> DEFINE all == Present(FailureCodes, AnyPending)
           part(i) == Present(ViewportFailures(i), BaselinePending(evidence[i]))
           wordpress == "wordpress_error_page"
<1>1. /\ Verdict \in all /\ Verdict \in Verdicts
      /\ \A c \in all : Rank(Verdict) <= Rank(c)
  BY ClassifyIsWorst DEF Verdict
<1>2. \A i \in DOMAIN evidence :
        /\ ViewportClass(i) \in part(i) /\ ViewportClass(i) \in Verdicts
        /\ \A c \in part(i) : Rank(ViewportClass(i)) <= Rank(c)
  BY ClassifyIsWorst DEF ViewportClass
<1>3. ASSUME NEW i \in DOMAIN evidence, NEW c \in part(i) PROVE c \in all
  <2>1. \A x \in ViewportFailures(i) : x \in FailureCodes
    BY CodesOfThePage
  <2>2. BaselinePending(evidence[i]) => AnyPending
    BY DEF AnyPending
  <2>3. QED
    BY <1>3, <2>1, <2>2 DEF Present
<1>4. FailingChecks # {} => wordpress \in all
  <2> SUFFICES ASSUME NEW i \in DOMAIN health, health[i] # {} PROVE wordpress \in all
    BY DEF FailingChecks
  <2>1. PICK x : x \in health[i]
    OBVIOUS
  <2>2. x \in FailureCodes
    BY <2>1, CodesOfThePage
  <2>3. health[i] \in SUBSET WordPressCodes
    BY DEF Typed
  <2>4. x \in WordPressCodes
    BY <2>1, <2>3
  <2>5. wordpress \in Families
    BY DEF Families
  <2>6. x \in CodesOf[wordpress]
    BY <2>4, <2>5, HealthCodesCount
  <2>7. QED
    BY <2>2, <2>5, <2>6, FamilyNames DEF Present
<1>5. ASSUME NEW c \in all
      PROVE  (\E i \in DOMAIN evidence : c \in part(i)) \/ (c = wordpress /\ FailingChecks # {})
  <2>1. CASE c = "healthy"
    BY <2>1 DEF Present
  <2>2. CASE c = "baseline_pending" /\ AnyPending
    BY <2>2 DEF Present, AnyPending
  <2>3. CASE c \in Families /\ FailureCodes \cap CodesOf[c] # {}
    <3>1. PICK x \in FailureCodes : x \in CodesOf[c]
      BY <2>3
    <3>2. CASE \E i \in DOMAIN evidence : x \in ViewportFailures(i)
      BY <2>3, <3>1, <3>2, FamilyNames DEF Present
    <3>3. CASE \E i \in DOMAIN health : x \in health[i]
      <4>1. PICK i \in DOMAIN health : x \in health[i]
        BY <3>3
      <4>2. health[i] \in SUBSET WordPressCodes
        BY DEF Typed
      <4>3. x \in WordPressCodes /\ i \in FailingChecks
        BY <4>1, <4>2 DEF FailingChecks
      <4>4. c = wordpress
        BY <2>3, <3>1, <4>3, HealthCodesCount
      <4>5. QED
        BY <4>3, <4>4
    <3>4. QED
      BY <3>1, <3>2, <3>3, CodesOfThePage
  <2>4. QED
    BY <1>5, <2>1, <2>2, <2>3, FamilyNames DEF Present
<1> HIDE DEF all, part
<1>6. ASSUME NEW i \in DOMAIN evidence, Verdict \in part(i) PROVE Verdict = ViewportClass(i)
  <2>1. Rank(Verdict) <= Rank(ViewportClass(i))
    BY <1>1, <1>2, <1>3
  <2>2. Rank(ViewportClass(i)) <= Rank(Verdict)
    BY <1>2, <1>6
  <2>3. QED
    BY <1>1, <1>2, <2>1, <2>2, SameRank
<1>7. \/ \E i \in DOMAIN evidence : Verdict = ViewportClass(i)
      \/ Verdict = wordpress /\ FailingChecks # {}
  BY <1>1, <1>5, <1>6
<1>8. /\ \A i \in DOMAIN evidence : Rank(Verdict) <= Rank(ViewportClass(i))
      /\ FailingChecks # {} => Rank(Verdict) <= Rank(wordpress)
  BY <1>1, <1>2, <1>3, <1>4
<1>9. QED
  BY <1>7, <1>8

-----------------------------------------------------------------------------
(* The steps of a check.                                                   *)

LEMMA EvidenceGrows ==
  ASSUME Typed, NEW e \in Evidence, evidence' = Append(evidence, e)
  PROVE  /\ evidence' \in Seq(Evidence) /\ Len(evidence') = Len(evidence) + 1
         /\ \A i \in DOMAIN evidence' :
              \/ i \in DOMAIN evidence /\ evidence'[i] = evidence[i]
              \/ i = Len(evidence) + 1 /\ evidence'[i] = e
         /\ \A i \in DOMAIN evidence : i \in DOMAIN evidence' /\ evidence'[i] = evidence[i]
         /\ Len(evidence) + 1 \in DOMAIN evidence' /\ evidence'[Len(evidence) + 1] = e
<1>1. /\ evidence' \in Seq(Evidence) /\ Len(evidence') = Len(evidence) + 1
      /\ DOMAIN evidence' = DOMAIN evidence \cup {Len(evidence) + 1}
      /\ \A i \in DOMAIN evidence : evidence'[i] = evidence[i]
      /\ evidence'[Len(evidence) + 1] = e
  BY DEF Typed
<1> DEFINE n == Len(evidence) + 1
<1> HIDE DEF n
<1>2. /\ DOMAIN evidence' = DOMAIN evidence \cup {n}
      /\ \A i \in DOMAIN evidence : evidence'[i] = evidence[i]
      /\ evidence'[n] = e
  BY <1>1 DEF n
<1>3. /\ \A i \in DOMAIN evidence' :
           \/ i \in DOMAIN evidence /\ evidence'[i] = evidence[i]
           \/ i = n /\ evidence'[i] = e
      /\ \A i \in DOMAIN evidence : i \in DOMAIN evidence' /\ evidence'[i] = evidence[i]
      /\ n \in DOMAIN evidence' /\ evidence'[n] = e
  BY <1>2, Zenon
<1>4. QED
  BY <1>1, <1>3 DEF n

LEMMA HealthGrows ==
  ASSUME Typed, NEW codes \in SUBSET WordPressCodes, health' = Append(health, codes)
  PROVE  /\ health' \in Seq(SUBSET WordPressCodes) /\ Len(health') = Len(health) + 1
         /\ Len(health) \in Nat
         /\ FailingChecks' = FailingChecks \cup {i \in {Len(health) + 1} : codes # {}}
<1>1. /\ health' \in Seq(SUBSET WordPressCodes) /\ Len(health') = Len(health) + 1
      /\ Len(health) \in Nat
      /\ DOMAIN health' = DOMAIN health \cup {Len(health) + 1}
      /\ \A i \in DOMAIN health : health'[i] = health[i] /\ i # Len(health) + 1
      /\ health'[Len(health) + 1] = codes
  BY DEF Typed
<1>2. QED
  BY <1>1 DEF FailingChecks

\* An alert more, delivered or not.
LEMMA SendAdds ==
  ASSUME NEW about \in Nat, Send(about)
  PROVE  Alerted' = Alerted \cup {about} /\ (alerts \subseteq Alert => alerts' \subseteq Alert)
<1>1. PICK delivered \in BOOLEAN :
        alerts' = alerts \cup {[about |-> about, delivered |-> delivered]}
  BY DEF Send
<1>2. [about |-> about, delivered |-> delivered] \in Alert
  BY DEF Alert
<1>3. [about |-> about, delivered |-> delivered].about = about
  OBVIOUS
<1>4. Alerted' = Alerted \cup {about}
  BY <1>1, <1>3 DEF Alerted
<1>5. QED
  BY <1>1, <1>2, <1>4

LEMMA StartKeeps ==
  ASSUME PageInv, NEW newJob \in Jobs, newJob.phase = "checking", Start(newJob)
  PROVE  PageInv'
<1>1. /\ job = NoJob /\ job' = newJob /\ newJob # NoJob
      /\ UNCHANGED <<evidence, health, alerts, verdicts, crawlFailures, trouble>>
  BY PageAssumption DEF Start, PageVars
<1>2. /\ evidence = <<>> /\ health = <<>> /\ alerts = {} /\ verdicts = <<>>
      /\ crawlFailures = FALSE /\ trouble = FALSE
  BY <1>1 DEF PageInv, Typed
<1>3. DOMAIN evidence = {} /\ DOMAIN health = {} /\ DOMAIN verdicts = {}
      /\ Len(evidence) = 0 /\ Len(health) = 0
  BY <1>2
<1>4. Typed'
  BY <1>1 DEF PageInv, Typed
<1>5. Viewports[newJob.page] \in Nat /\ HealthChecks[newJob.page] \in Nat
  BY PageAssumption DEF Jobs
<1>6. ProgressInv'
  BY <1>1, <1>3, <1>5 DEF ProgressInv
<1>7. VerdictInv'
  BY <1>1, <1>2 DEF VerdictInv
<1>8. AlertsInv'
  <2>1. FailingChecks' = {} /\ Alerted' = {}
    BY <1>1, <1>2, <1>3 DEF FailingChecks, Alerted
  <2>2. QED
    BY <1>1, <2>1 DEF AlertsInv
<1>9. TroubleInv'
  <2>1. PageIsSound'
    BY <1>1, <1>3 DEF PageIsSound, FailingChecks
  <2>2. QED
    BY <1>1, <1>2, <1>3, <2>1 DEF TroubleInv
<1>10. QED
  BY <1>4, <1>6, <1>7, <1>8, <1>9 DEF PageInv

LEMMA CheckViewportKeeps ==
  ASSUME PageInv, NEW e \in Observations, CheckViewport(e)
  PROVE  PageInv'
<1>1. /\ job # NoJob /\ job.phase = "checking" /\ Len(evidence) < Viewports[job.page]
      /\ evidence' = Append(evidence, e)
      /\ trouble' = (trouble \/ e \notin Sound(job.page))
      /\ UNCHANGED <<job, health, alerts, verdicts, crawlFailures>>
  BY DEF CheckViewport, Working
<1>2. e \in Evidence /\ Typed /\ job \in Jobs
  BY <1>1, InputAssumption DEF PageInv, Typed
<1>3. /\ evidence' \in Seq(Evidence) /\ Len(evidence') = Len(evidence) + 1
      /\ \A i \in DOMAIN evidence' :
           \/ i \in DOMAIN evidence /\ evidence'[i] = evidence[i]
           \/ i = Len(evidence) + 1 /\ evidence'[i] = e
      /\ \A i \in DOMAIN evidence : i \in DOMAIN evidence' /\ evidence'[i] = evidence[i]
      /\ Len(evidence) + 1 \in DOMAIN evidence' /\ evidence'[Len(evidence) + 1] = e
  BY <1>1, <1>2, EvidenceGrows
<1>4. trouble' \in BOOLEAN
  BY <1>1
<1>5. Typed'
  BY <1>1, <1>2, <1>3, <1>4 DEF Typed
<1>6. ProgressInv'
  <2>1. Len(evidence) \in Nat /\ Viewports[job.page] \in Nat
    BY <1>2, PageAssumption DEF Typed, Jobs
  <2>2. Len(evidence') <= Viewports[job.page]
    BY <1>1, <1>3, <2>1
  <2>3. QED
    BY <1>1, <2>2 DEF PageInv, ProgressInv
<1>7. VerdictInv'
  BY <1>1 DEF PageInv, VerdictInv
<1>8. AlertsInv'
  <2>1. FailingChecks' = FailingChecks /\ Alerted' = Alerted
    BY <1>1 DEF FailingChecks, Alerted
  <2>2. QED
    BY <1>1, <2>1 DEF PageInv, AlertsInv
<1>9. TroubleInv'
  <2>1. PageIsSound' <=> PageIsSound /\ e \in Sound(job.page)
    BY <1>1, <1>3 DEF PageIsSound, FailingChecks
  <2>2. QED
    BY <1>1, <2>1 DEF PageInv, TroubleInv
<1>10. QED
  BY <1>5, <1>6, <1>7, <1>8, <1>9 DEF PageInv

LEMMA CheckHealthKeeps ==
  ASSUME PageInv, NEW r \in HealthAnswers, CheckHealth(r)
  PROVE  PageInv'
<1> DEFINE codes == HealthFailures(r)
<1>1. /\ job # NoJob /\ job.phase = "checking" /\ Len(health) < HealthChecks[job.page]
      /\ health' = Append(health, codes)
      /\ trouble' = (trouble \/ codes # {})
      /\ UNCHANGED <<job, evidence, verdicts, crawlFailures>>
  BY DEF CheckHealth, Working
<1>2. codes \in SUBSET WordPressCodes /\ Typed /\ job \in Jobs
  BY <1>1 DEF HealthFailures, PageInv, Typed
<1>3. IF codes # {} /\ ~job.suppress THEN Send(Len(health) + 1) ELSE UNCHANGED alerts
  BY DEF CheckHealth, AlertsHealth
<1> HIDE DEF codes
<1>4. /\ health' \in Seq(SUBSET WordPressCodes) /\ Len(health') = Len(health) + 1
      /\ Len(health) \in Nat
      /\ FailingChecks' = FailingChecks \cup {i \in {Len(health) + 1} : codes # {}}
  BY <1>1, <1>2, HealthGrows
<1>5. /\ alerts' \subseteq Alert
      /\ Alerted' = Alerted \cup {i \in {Len(health) + 1} : codes # {} /\ ~job.suppress}
  <2>1. CASE codes # {} /\ ~job.suppress
    BY <1>2, <1>3, <1>4, <2>1, SendAdds DEF Typed
  <2>2. CASE ~(codes # {} /\ ~job.suppress)
    BY <1>2, <1>3, <2>2 DEF Typed, Alerted
  <2>3. QED
    BY <2>1, <2>2
<1>6. trouble' \in BOOLEAN
  BY <1>1
<1>7. Typed'
  BY <1>1, <1>2, <1>4, <1>5, <1>6 DEF Typed
<1>8. ProgressInv'
  <2>1. HealthChecks[job.page] \in Nat
    BY <1>2, PageAssumption DEF Jobs
  <2>2. Len(health') <= HealthChecks[job.page]
    BY <1>1, <1>4, <2>1
  <2>3. QED
    BY <1>1, <2>2 DEF PageInv, ProgressInv
<1>9. VerdictInv'
  BY <1>1 DEF PageInv, VerdictInv
<1>10. AlertsInv'
  <2>1. Len(health) + 1 # ThePage
    BY <1>4 DEF ThePage
  <2>2. QED
    BY <1>1, <1>4, <1>5, <2>1 DEF PageInv, AlertsInv
<1>11. TroubleInv'
  <2>1. PageIsSound' <=> PageIsSound /\ codes = {}
    BY <1>1, <1>4 DEF PageIsSound
  <2>2. QED
    BY <1>1, <2>1 DEF PageInv, TroubleInv
<1>12. QED
  BY <1>7, <1>8, <1>9, <1>10, <1>11 DEF PageInv

LEMMA SummarizeKeeps ==
  ASSUME PageInv, Summarize
  PROVE  PageInv'
<1> DEFINE after == IF job.kind # "triage" THEN "done"
                    ELSE IF job.page \in Crawled THEN "crawling" ELSE "checked"
<1>1. /\ job # NoJob /\ job.phase = "checking" /\ Len(evidence) = Viewports[job.page]
      /\ verdicts' = Append(verdicts, Verdict)
      /\ job' = [job EXCEPT !.phase = after]
      /\ UNCHANGED <<evidence, health, crawlFailures, trouble>>
  BY DEF Summarize, Working, Verdict
<1>2. IF job.kind = "deep" /\ Severe(Verdict) /\ ~job.suppress THEN Send(ThePage)
      ELSE UNCHANGED alerts
  BY DEF Summarize, Verdict, Severe
<1>3. job \in Jobs /\ Typed
  BY <1>1 DEF PageInv, Typed
<1>4. after \in {"crawling", "checked", "done"} /\ (job.kind # "triage" => after = "done")
  OBVIOUS
<1> HIDE DEF after
<1>5. /\ job' \in Jobs /\ job'.phase = after /\ job'.kind = job.kind /\ job'.page = job.page
      /\ job'.suppress = job.suppress /\ job' # NoJob
  BY <1>1, <1>3, <1>4, PageAssumption DEF Jobs
<1>6. Verdict' = Verdict /\ FailingChecks' = FailingChecks /\ (PageIsSound' <=> PageIsSound)
  BY <1>1, <1>5 DEF Verdict, FailureCodes, AnyPending, ViewportFailures, FailingChecks, PageIsSound
<1>7. Verdict \in Verdicts
  BY ClassifyIsWorst DEF Verdict
<1>8. /\ alerts' \subseteq Alert
      /\ Alerted' = Alerted \cup {a \in {ThePage} :
                      job.kind = "deep" /\ Severe(Verdict) /\ ~job.suppress}
  <2>1. CASE job.kind = "deep" /\ Severe(Verdict) /\ ~job.suppress
    BY <1>2, <1>3, <2>1, SendAdds DEF Typed, ThePage
  <2>2. CASE ~(job.kind = "deep" /\ Severe(Verdict) /\ ~job.suppress)
    BY <1>2, <1>3, <2>2 DEF Typed, Alerted
  <2>3. QED
    BY <2>1, <2>2
<1>9. /\ verdicts' \in Seq(Verdicts)
      /\ DOMAIN verdicts' = DOMAIN verdicts \cup {Len(verdicts) + 1}
      /\ \A i \in DOMAIN verdicts : verdicts'[i] = verdicts[i]
      /\ verdicts'[Len(verdicts) + 1] = Verdict
  BY <1>1, <1>3, <1>7 DEF Typed
<1>10. Typed'
  BY <1>1, <1>3, <1>5, <1>8, <1>9 DEF Typed
<1>11. ProgressInv'
  BY <1>1, <1>4, <1>5 DEF PageInv, ProgressInv
<1>12. VerdictInv'
  <2> SUFFICES ASSUME job.kind # "triage" PROVE verdicts' = <<Verdict>>
    BY <1>4, <1>5, <1>6 DEF VerdictInv
  <2>1. verdicts = <<>>
    BY <1>1 DEF PageInv, VerdictInv
  <2>2. QED
    BY <1>1, <2>1
<1>13. AlertsInv'
  <2>1. Alerted \ {ThePage} = {i \in FailingChecks : ~job.suppress} /\ ThePage \notin Alerted
    BY <1>1 DEF PageInv, AlertsInv
  <2>2. Alerted' \ {ThePage} = {i \in FailingChecks' : ~job'.suppress}
    BY <1>5, <1>6, <1>8, <2>1
  <2>3. ThePage \in Alerted' <=> job.kind = "deep" /\ Severe(Verdict) /\ ~job.suppress
    BY <1>8, <2>1
  <2>4. job'.phase # "checking"
    BY <1>4, <1>5
  <2>5. QED
    BY <1>5, <1>6, <2>2, <2>3, <2>4 DEF AlertsInv
<1>14. TroubleInv'
  <2> SUFFICES ASSUME job.kind = "triage"
               PROVE  trouble <=> crawlFailures \/ \E i \in DOMAIN verdicts' : Severe(verdicts'[i])
    BY <1>1, <1>4, <1>5 DEF TroubleInv
  <2>1. Severe(Verdict) <=> ~PageIsSound
    BY <1>3, VerdictIsSevere
  <2>2. trouble <=> \/ crawlFailures
                    \/ \E i \in DOMAIN verdicts : Severe(verdicts[i])
                    \/ ~PageIsSound
    BY <1>1 DEF PageInv, TroubleInv
  <2>3. (\E i \in DOMAIN verdicts' : Severe(verdicts'[i])) <=>
          (\E i \in DOMAIN verdicts : Severe(verdicts[i])) \/ Severe(Verdict)
    BY <1>9
  <2>4. QED
    BY <2>1, <2>2, <2>3
<1>15. QED
  BY <1>10, <1>11, <1>12, <1>13, <1>14 DEF PageInv

LEMMA CrawlKeeps ==
  ASSUME PageInv, NEW failed \in BOOLEAN, Crawl(failed)
  PROVE  PageInv'
<1>1. /\ job # NoJob /\ job.phase = "crawling"
      /\ crawlFailures' = (crawlFailures \/ failed) /\ trouble' = (trouble \/ failed)
      /\ job' = [job EXCEPT !.phase = "checked"]
      /\ UNCHANGED <<evidence, health, alerts, verdicts>>
  BY DEF Crawl, Working, PageVars
<1>2. job \in Jobs /\ Typed /\ job.kind = "triage"
  BY <1>1 DEF PageInv, Typed, ProgressInv
<1>3. /\ job' \in Jobs /\ job'.phase = "checked" /\ job'.kind = job.kind /\ job'.page = job.page
      /\ job'.suppress = job.suppress /\ job' # NoJob
  BY <1>1, <1>2, PageAssumption DEF Jobs
<1>4. crawlFailures' \in BOOLEAN /\ trouble' \in BOOLEAN
  BY <1>1
<1>5. Typed'
  BY <1>1, <1>2, <1>3, <1>4 DEF Typed
<1>6. ProgressInv' /\ VerdictInv'
  BY <1>1, <1>2, <1>3 DEF PageInv, ProgressInv, VerdictInv
<1>7. AlertsInv'
  <2>1. FailingChecks' = FailingChecks /\ Alerted' = Alerted
    BY <1>1 DEF FailingChecks, Alerted
  <2>2. QED
    BY <1>1, <1>2, <1>3, <2>1 DEF PageInv, AlertsInv
<1>8. TroubleInv'
  BY <1>1, <1>2, <1>3 DEF PageInv, TroubleInv
<1>9. QED
  BY <1>5, <1>6, <1>7, <1>8 DEF PageInv

\* The next page begins without evidence, so it is sound as far as one can see.
LEMMA NextPageKeeps ==
  ASSUME PageInv, NextPage
  PROVE  PageInv'
<1>1. /\ job # NoJob /\ job.phase = "checked"
      /\ UNCHANGED <<verdicts, crawlFailures, trouble>>
  BY DEF NextPage, Working
<1>2. job \in Jobs /\ Typed /\ job.kind = "triage"
  BY <1>1 DEF PageInv, Typed, ProgressInv
<1>3. CASE job.page < Pages
  <2>1. /\ job' = [job EXCEPT !.page = job.page + 1, !.phase = "checking"]
        /\ evidence' = <<>> /\ health' = <<>> /\ alerts' = {}
    BY <1>3 DEF NextPage
  <2>2. job.page + 1 \in 1..Pages
    BY <1>2, <1>3, PageAssumption DEF Jobs
  <2>3. /\ job' \in Jobs /\ job'.phase = "checking" /\ job'.kind = "triage"
        /\ job'.page \in 1..Pages /\ job'.suppress = job.suppress /\ job' # NoJob
    BY <1>2, <2>1, <2>2, PageAssumption DEF Jobs
  <2>4. evidence' \in Seq(Evidence) /\ health' \in Seq(SUBSET WordPressCodes)
        /\ DOMAIN evidence' = {} /\ DOMAIN health' = {} /\ Len(evidence') = 0 /\ Len(health') = 0
    BY <2>1
  <2>5. Typed'
    BY <1>1, <1>2, <2>1, <2>3, <2>4 DEF Typed
  <2>6. ProgressInv' /\ VerdictInv'
    <3>1. Viewports[job'.page] \in Nat /\ HealthChecks[job'.page] \in Nat
      BY <2>3, PageAssumption
    <3>2. QED
      BY <2>3, <2>4, <3>1 DEF ProgressInv, VerdictInv
  <2>7. FailingChecks' = {} /\ Alerted' = {} /\ PageIsSound'
    BY <2>1, <2>4 DEF FailingChecks, Alerted, PageIsSound
  <2>8. AlertsInv'
    BY <2>3, <2>7 DEF AlertsInv
  <2>9. TroubleInv'
    BY <1>1, <1>2, <2>3, <2>7 DEF PageInv, TroubleInv
  <2>10. QED
    BY <2>5, <2>6, <2>8, <2>9 DEF PageInv
<1>4. CASE ~(job.page < Pages)
  <2>1. job' = [job EXCEPT !.phase = "done"] /\ UNCHANGED <<evidence, health, alerts>>
    BY <1>4 DEF NextPage, PageVars
  <2>2. /\ job' \in Jobs /\ job'.phase = "done" /\ job'.kind = job.kind /\ job'.page = job.page
        /\ job'.suppress = job.suppress /\ job' # NoJob
    BY <1>2, <2>1, PageAssumption DEF Jobs
  <2>3. Typed'
    BY <1>1, <1>2, <2>1, <2>2 DEF Typed
  <2>4. ProgressInv' /\ VerdictInv'
    BY <1>1, <1>2, <2>1, <2>2 DEF PageInv, ProgressInv, VerdictInv
  <2>5. FailingChecks' = FailingChecks /\ Alerted' = Alerted
    BY <2>1 DEF FailingChecks, Alerted
  <2>6. AlertsInv'
    BY <1>1, <1>2, <2>2, <2>5 DEF PageInv, AlertsInv
  <2>7. TroubleInv'
    BY <1>1, <1>2, <2>2 DEF PageInv, TroubleInv
  <2>8. QED
    BY <2>3, <2>4, <2>6, <2>7 DEF PageInv
<1>5. QED
  BY <1>3, <1>4

\* Nothing is left of a job that is over, nor is there anything at first.
NoJobYet ==
  /\ job = NoJob /\ evidence = <<>> /\ health = <<>> /\ alerts = {} /\ verdicts = <<>>
  /\ crawlFailures = FALSE /\ trouble = FALSE

LEMMA NoJobIsFine == NoJobYet => PageInv
<1> SUFFICES ASSUME NoJobYet PROVE PageInv
  OBVIOUS
<1>1. ProgressInv /\ VerdictInv /\ AlertsInv /\ TroubleInv
  BY DEF NoJobYet, ProgressInv, VerdictInv, AlertsInv, TroubleInv
<1>2. evidence \in Seq(Evidence) /\ health \in Seq(SUBSET WordPressCodes)
      /\ verdicts \in Seq(Verdicts)
  BY DEF NoJobYet
<1>3. QED
  BY <1>1, <1>2 DEF NoJobYet, PageInv, Typed

LEMMA StepKeepsPage ==
  ASSUME PageInv, [Next]_vars
  PROVE  PageInv' \/ NoJobYet'
<1>1. CASE \E p \in 1..Pages : StartDeep(p) \/ StartManual(p)
  <2>1. PICK p \in 1..Pages, kind \in {"deep", "manual"}, suppress \in BOOLEAN :
          Start(Job(kind, p, suppress))
    BY <1>1 DEF StartDeep, StartManual
  <2>2. Job(kind, p, suppress) \in Jobs /\ Job(kind, p, suppress).phase = "checking"
    BY DEF Job, Jobs
  <2>3. QED
    BY <2>1, <2>2, StartKeeps
<1>2. CASE StartTriage
  <2>1. 1 \in 1..Pages
    BY PageAssumption
  <2>2. Job("triage", 1, FALSE) \in Jobs /\ Job("triage", 1, FALSE).phase = "checking"
    BY <2>1 DEF Job, Jobs
  <2>3. QED
    BY <1>2, <2>2, StartKeeps DEF StartTriage
<1>3. CASE \E e \in Observations : CheckViewport(e)
  BY <1>3, CheckViewportKeeps
<1>4. CASE \E r \in HealthAnswers : CheckHealth(r)
  BY <1>4, CheckHealthKeeps
<1>5. CASE Summarize
  BY <1>5, SummarizeKeeps
<1>6. CASE \E failed \in BOOLEAN : Crawl(failed)
  BY <1>6, CrawlKeeps
<1>7. CASE NextPage
  BY <1>7, NextPageKeeps
<1>8. CASE End
  BY <1>8 DEF End, NoJobYet
<1>9. CASE UNCHANGED vars
  <2>1. UNCHANGED <<job, evidence, health, alerts, verdicts, crawlFailures, trouble>>
    BY <1>9 DEF vars
  <2>2. /\ Verdict' = Verdict /\ FailingChecks' = FailingChecks /\ Alerted' = Alerted
        /\ (PageIsSound' <=> PageIsSound)
    BY <2>1 DEF Verdict, FailureCodes, AnyPending, ViewportFailures, FailingChecks,
                Alerted, PageIsSound
  <2>3. QED
    BY <2>1, <2>2 DEF PageInv, Typed, ProgressInv, VerdictInv, AlertsInv, TroubleInv
<1>10. QED
  BY <1>1, <1>2, <1>3, <1>4, <1>5, <1>6, <1>7, <1>8, <1>9 DEF Next

\* The invariant that the properties of page checks follow from: what was alerted and
\* what a triage remembers agree with what the page shows, at every moment.
THEOREM PageCheckCorrect == Spec => []PageInv
<1>1. Init => NoJobYet
  BY DEF Init, NoJobYet
<1>2. PageInv /\ [Next]_vars => PageInv' \/ NoJobYet'
  BY StepKeepsPage
<1>3. NoJobYet => PageInv
  BY NoJobIsFine
<1>4. QED
  BY <1>1, <1>2, <1>3, PTL DEF Spec

\* Every variable of a page check has its type, and a page has no more evidence and
\* answers than viewports and health checks.
THEOREM PageCheckTypeCorrect == Spec => []TypeOK
<1>1. PageInv => TypeOK
  <2> SUFFICES ASSUME PageInv PROVE TypeOK
    OBVIOUS
  <2>1. /\ \A i \in DOMAIN evidence : evidence[i] \in Evidence
        /\ \A i \in DOMAIN health : health[i] \in SUBSET WordPressCodes
        /\ \A i \in DOMAIN verdicts : verdicts[i] \in Verdicts
    BY DEF PageInv, Typed
  <2>2. \A i \in DOMAIN verdicts : \E j \in DOMAIN Priority : verdicts[i] = Priority[j]
    BY <2>1 DEF Verdicts
  <2>3. QED
    BY <2>1, <2>2 DEF PageInv, Typed, ProgressInv, TypeOK
<1>2. QED
  BY PageCheckCorrect, <1>1, PTL

\* Reducing all codes of a page to one word gives the most severe of the words its
\* viewports and health checks have by themselves (_summarize_page_check, api.py).
THEOREM WorstAlwaysWins == Spec => []WorstViewportWins
<1>1. PageInv => WorstViewportWins
  <2> SUFFICES ASSUME PageInv, Working("done"), job.kind # "triage" PROVE WorstViewportWins
    BY DEF WorstViewportWins
  <2>1. job # NoJob /\ job.phase = "done" /\ job \in Jobs
    BY DEF Working, PageInv, Typed
  <2>2. verdicts[1] = Verdict
    BY <2>1 DEF PageInv, VerdictInv
  <2>3. DOMAIN evidence # {}
    <3>1. Len(evidence) = Viewports[job.page] /\ Viewports[job.page] \in Nat \ {0}
      BY <2>1, PageAssumption DEF PageInv, ProgressInv, Jobs
    <3>2. 1 \in DOMAIN evidence
      BY <3>1 DEF PageInv, Typed
    <3>3. QED
      BY <3>2
  <2>4. QED
    BY <2>2, <2>3, WorstOfItsParts DEF PageInv, WorstViewportWins, Rank
<1>2. QED
  BY PageCheckCorrect, <1>1, PTL

\* A scheduled check outside maintenance alerts about the page exactly if a viewport
\* or a health check shows anything wrong (run_deep_check, runtime.py).
THEOREM TroubleIsAlwaysAlerted == Spec => []TroubleIsAlerted
<1>1. PageInv => TroubleIsAlerted
  <2> SUFFICES ASSUME PageInv, Working("done"), job.kind = "deep", ~job.suppress
               PROVE  ThePage \in Alerted <=> ~PageIsSound
    BY DEF TroubleIsAlerted
  <2>1. ThePage \in Alerted <=> Severe(Verdict)
    BY DEF Working, PageInv, AlertsInv
  <2>2. QED
    BY <2>1, VerdictIsSevere DEF PageInv
<1>2. QED
  BY PageCheckCorrect, <1>1, PTL

\* Each failing health check has its alert, whether the ones before were delivered or
\* not, and no other has one (_summarize_page_check, api.py).
THEOREM HealthAlertsAreExact == Spec => []FailingHealthChecksAreAlerted
<1>1. PageInv => FailingHealthChecksAreAlerted
  BY DEF PageInv, AlertsInv, Working, FailingHealthChecksAreAlerted
<1>2. QED
  BY PageCheckCorrect, <1>1, PTL

\* A full triage fails if anything was wrong with any page or crawl, and passes if
\* nothing was and no baseline is pending (the triage stream, api.py).
THEOREM TriageHidesNothing == Spec => []FullTriageHidesNothing
<1>1. PageInv => FullTriageHidesNothing
  <2> SUFFICES ASSUME PageInv, Working("done"), job.kind = "triage"
               PROVE  /\ trouble => ~TriagePasses
                      /\ ~trouble /\ (\A i \in DOMAIN verdicts : verdicts[i] # "baseline_pending")
                           => TriagePasses
    BY DEF FullTriageHidesNothing
  <2>1. trouble <=> crawlFailures \/ \E i \in DOMAIN verdicts : Severe(verdicts[i])
    BY DEF Working, PageInv, TroubleInv
  <2>2. QED
    BY <2>1 DEF TriagePasses, Severe
<1>2. QED
  BY PageCheckCorrect, <1>1, PTL
=============================================================================
