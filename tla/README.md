# Web Assurance Agent: a verification project

TLA+ modules of the agent in `src/triage_agent/`, the TLC configurations that check them on
small instances, and TLAPS proofs of their safety properties. Paths below are relative to
`src/triage_agent/` unless they say otherwise.

The agent watches WordPress sites. Uptime Kuma posts events to a webhook, and a scheduler of its
own probes pages (fast checks) and drives a browser through them (deep checks). A confirmed change
of a monitor's state is reported to Discord once, through a registry in SQLite. Admins edit the
site manifest and the settings while the service runs, approve visual baselines and start checks
by hand. It is one asyncio process (a single uvicorn worker, restarted when it dies); the baseline
script and the account tool are processes of their own on the same files.

## Inventory

| Component | State | Operations | Interacts with | What makes it correct |
| --- | --- | --- | --- | --- |
| Durable registry, `durable_registry.py` | tables `monitor_state`, `publication_reservations` | `reserve`, `complete`, `prune` | called by the engine; survives crashes | one entitled publisher per transition; the committed state never moves back; a delivered report stays recognisable |
| Triage engine, `engine.py`, `classification.py`, `events.py` | a lock per monitor, confirmation settings | `handle_event`, `set_confirmation` | webhook, fast checks, registry, Discord, on_publish hook | complete() finds its row; no lost and no repeated report without an excuse; every event handled |
| Scheduler, `scheduler.py` | global and per-site semaphores | `run_forever`, `_loop`, `_execute`, `run_immediate_deep_check` | hook of the engine, page checks | budgets kept, permits conserved, no wedge |
| Manual checks, `api.py` | queue of slots | `check_page`, admin tests, full triage | page checks | slots conserved; full triage hides nothing |
| Live configuration, `runtime.py`, `manifest_store.py`, `settings_store.py` | saved and live manifest, settings, the scheduler's task | PUT manifest, PUT settings, reload, startup | scheduler | the last save is what runs; one scheduler |
| Page check, `browser_checks.py`, `api.py`, `wordpress_*.py`, `visual_page_checker.py` | evidence of one check | viewports, health checks, classification, alerts | browser runner, Discord, baselines | what is wrong, and nothing else, is reported, unless a maintenance window is on |
| Baseline store, `baselines.py`, `visual_assurance.py`, `scripts/approve_baseline.py` | pending and approved files, audit log | capture, upload, approve, current | admin API, script, page checks | the baseline is what was approved, and can be loaded |
| Browser runner, `browser_runner.py` | request and byte budget, route tasks, the entry response, recorded failures | `run`, `route_handler`, budget, nested cleanup | page checks, the browser, the web | permits come back; the entry response is served once; nothing outlives the run; evidence and outcome are what happened |
| Probes and target safety, `probes.py`, `security.py` | none beyond one fetch | `probe_url`, validation | engine, admin link test | every hop authorised; an answer is the end of its chain |
| Crawler, `crawler.py` | queue, set of queued URLs, pages checked | `crawl`, `SafeCrawlFetcher`, `suggest_page` | full triage, page suggestion | breadth first, each page once, within its bounds |
| Accounts and sessions, `auth_store.py`, `sessions.py`, `manage_users.py` | users table, sessions in memory | create, reset, delete; log in and out, `require_admin` | admin API, command line | an ended session stays ended; access ends with the password |
| Manifest schema, visual diff, reports, process settings, admin pages | none | parsing, pixel arithmetic, formatting | all | not stateful |

What is hard here: awaits inside a lock (probe, post, hook), permits taken twice by one task,
cancellation by a reload or a deadline anywhere in nested cleanup, leases against a clock, events late, twice or out of order, a file
protocol of several steps shared by two processes, and values read before an await and used after
it. `PROJECT.json` lists these hazards one by one at their lines, with the property that would
catch each, or the reason none does.

## Modules

| Module | Models | Composition |
| --- | --- | --- |
| `PublicationLeases` | what the registry promises: leases on transitions, and what was committed | abstract; uses no other module |
| `IncidentRegistry` | the registry's tables and its callers' claims | `Leases == INSTANCE PublicationLeases WITH ...` is the refinement mapping |
| `TriageEngine` | handlers, from lock to hook | EXTENDS `IncidentRegistry`; every engine step is a registry step or leaves the registry alone (`RegistrySpec` is a property of the engine) |
| `TriageEngineProofs` | theorems about the registry, and that it implements the leases; theorems about the engine, and that it refines the registry | EXTENDS `TriageEngine`; the registry's invariant is a part of the engine's |
| `CheckScheduler` | loops, permits, the hook's nested check, manual slots | takes the engine's outcome as a choice |
| `CheckSchedulerProofs` | theorems about it | EXTENDS `CheckScheduler` |
| `LiveConfig` | saves and reloads | takes a check as an interval |
| `LiveConfigProofs` | theorems about it | EXTENDS `LiveConfig` |
| `BaselineStore` | baseline files, one step per file operation | |
| `BaselineStoreProofs` | theorems about it | EXTENDS `BaselineStore` |
| `PageCheck` | one check of a page, from evidence to alerts | takes a visual status and a crawl's outcome as choices |
| `PageCheckProofs` | theorems about it | EXTENDS `PageCheck` |
| `SafeFetch` | one fetch with its redirects, as the probe, the crawler and the browser do it | the servers and the name service are the environment |
| `SiteCrawler` | the crawl of a site, and single fetches | EXTENDS `SafeFetch`: each page of the crawl is one fetch |
| `SiteCrawlerProofs` | theorems about fetches and crawls | EXTENDS `SiteCrawler` |
| `BrowserRun` | one run of the browser with its route handlers and its cleanup | takes a fetch as a reservation, a permit and chunks per hop |
| `BrowserRunProofs` | theorems about it | EXTENDS `BrowserRun` |
| `AdminAccess` | accounts, sessions, logins and guarded operations | the command-line tool interleaves with the server |
| `AdminAccessProofs` | theorems about it | EXTENDS `AdminAccess` |

The `MC*` modules only give constants their values. Definitions whose name has a suffix after an
underscore and whose comment begins with "Mutant:" are variants of a definition of the code with a
plausible error; no specification uses them, they record what each property is able to catch.

**IncidentRegistry.** Each operation is one `BEGIN IMMEDIATE` transaction, hence one action.
`monitorState` and `reservations` are the two tables; `claims` is what callers hold between
`reserve` and `complete`. `Decision`, `NextOutageStart` and `Committed` are `_decision`,
`_next_outage_start` and the guarded upsert. Callers are anonymous and may be several, also of
another process: the registry is checked for more than the one process that uses it. Times are
naturals; the text comparison of ISO timestamps in SQL is the order of instants because
`events.py` normalises them to UTC.

**PublicationLeases** says the same without tables: a lease per transition, what was committed per
monitor, which tokens were given out. The lease of a transition is its undelivered row, run out or
not; granting it over a lease that has run out is what `reserve` does by deleting one row and adding
another. Refusals, pruning, failed completions and callers that vanish change nothing of it.

**TriageEngine.** A task's `pc` says where it is waiting: at the monitor's lock (`ahead` is the
queue asyncio keeps), for a probe, for Discord, for the hook. Between two awaits nothing
interleaves, so the code between them is one action. `Cancel` is a reload of the scheduler that
hits a fast check, `ProbeRaises` is an exception of the probe, which the engine passes on, and `Crash` loses
all tasks and keeps the file. Probe results are kept as the set of
outcomes, all that `classify_incident` looks at. The variables marked "history" serve properties
only.

**CheckScheduler.** An actor is a loop, a webhook in flight or a manual check. `AcquireGlobal` and
`AcquireSite` are the two halves of `async with` in `_execute`; `hookGlobal` to `hookCheck` is the
same code once more, run by the hook inside the engine, inside the first. Here the whole engine is
the one place `engine`, which ends either without a hook or with one. `CheckDone` is the end of a loop's
check otherwise: of a deep check, or of a fast one that raises before it reaches the engine.

**LiveConfig.** A save replaces file and store with nothing in between (the handlers do not await
there), cancels the scheduler's task, awaits it, then builds another from the store. `gen` are the
tasks so created and `loop` their loops. A task ends with its first cancelled loop
(`asyncio.gather`, `GatherOver`), while a cancelled check goes on until it has cleaned up. It then ends
its loop (`CheckUnwound`), unless an error while closing the browser took the place of the
`CancelledError` (`CancellationLost`; browser_runner.py:1010-1021): `run` makes evidence of it, or
`_execute` logs it, and the loop goes on. `survivors` remembers those loops; the properties except
them and no others. `Restart` is a process
that starts again from the files. `ManifestStore.replace` is `sites.yaml` as a whole: a manifest
that does not validate changes nothing and is left out. `overlapped` remembers whether a save ever
began while another waited; what holds only for saves one at a time is stated under `~overlapped`.
`reported` remembers whether any settings save was answered with `restart_required`.

**BaselineStore.** One page and viewport. Each atomic file replacement, append and unlink is one
step of a process; the server's handlers run one at a time because they do not await in between,
and the script interleaves with them. An image stands for its bytes and its hash; `Comparable` are those
the visual diff decodes. Three histories tell operations apart that ran undisturbed: `alone` (no
other process was at work since this operation began), `paired` (the operation that touched the
pending files last was alone and came to its end), `latest` (so did the append of the approval that
replaced the baseline last, it found a pair, and the log had no torn end). An accident leaves the
last two false. The next capture or approval that runs alone to its end makes `paired` true again, and
the next approval of such a pair `latest`: what is stated under them is how the store recovers.
`LogTears` is a crash in the middle of appending a line: the torn line stays
(`Torn`), the next append is glued to it (`Garbled`), and `Legible` says whether `history` can still
parse the log; if not, every visual check is `unavailable`.

**PageCheck.** `Evidence` has a field per kind of list in `BrowserEvidence`, with what the rules of
`evaluate_browser_evidence` tell apart; that its fields have the right types is the flag `valid`.
`Symptoms`, `Failures`, `CodesOf` and `Classify` are the rules, the families of codes and their
priority. A job is a scheduled, manual or full-triage check; a scheduled one looks its maintenance
window up once, when it starts.

**SafeFetch, SiteCrawler.** `Urls` are absolute URLs, of which `Allowed` pass `validate_probe_url`.
A fetch resolves its host, checks all the addresses and tries them in order; an address answers,
refuses, or breaks off in the body. What the callers do differently is kept apart: the probe checks a
redirect target before it counts, and at its limit resolves a host it will not go to; the crawler
counts first, has the headers before the body, and takes a 3xx without a location, or with a malformed
one, for an error (the others raise at a malformed one: outcome `raised`); the browser has a limit on
the body and does not let a subresource leave its origin. `FindWorld` chooses
what the servers answer and how names resolve when a job begins, `NamesChange` changes the names in
the middle of one. A crawl yields its result (`Report`) before it looks at the links (`Expand`), and
may be abandoned where it waits (`Disconnect`). The properties compare fetches and crawls with
definitions over the web as a graph: `Chain` and `EndsAt`, `Within` and `AtDistance`.

**BrowserRun.** `run.pc` is the await in which `_run_with_deadline` is: opening driver, browser and
context, fetching the entry, loading, inspecting, and the `finally` blocks from the innermost out.
`Unwound` is where the blocks lead from there when a return or an exception passes, `Leave` does it,
and what is on its way out is `run.pending`. Each request of the page is a handler, a task of its own
between two awaits; `Begin` is `route_handler` up to its first await, where the entry response is read
and cleared. `Strike` cancels the run in any await, once as the deadline of `asyncio.timeout` and once
from outside; `Fail` is an error of the browser or of a fetch, which `run` makes evidence of, or one it does
not catch (`uncaught`; a malformed Location of the entry document), which it raises; `CloseFails` is Playwright raising in a `finally` block, which replaces what was on its
way. `Outcome` is what `run` then returns or raises.

**AdminAccess.** A table row is its password. A login reads the row, hashes, and issues a token without
an await in between (`LoopFree`), but the tool may change the row meanwhile. `Admit` is
`require_admin`; the operation may await long after (`Working`, `Finish`). The clock is the wall
clock, which may be set back; `Elapsed` is the time that has really passed. `lostAt` and `ended` are
history for the properties.

## Runs

| Run | What it checks | Bounds, and why they are enough |
| --- | --- | --- |
| `registry` | `OneLivePublisher`, `HolderKeepsRowWithinLease`, `DeliveredIsReflected`, `OutageStartTracksState`, `OutageStartSticky`, `RepeatOnlyAcrossTie`, and `ImplementsLeases`, the refinement of `PublicationLeases` | one monitor (no row mentions two), three kinds (two outages and the recovery), two instants, three reservations (a delivered one, one in flight, a takeover), clock to 3 with leases and retention of 1 |
| `engine` | refinement of the registry, `PublisherFindsItsRow`, `HookSeesItsTransition`, `RepeatsAreExcused`, `NoLossWithoutFailure`, and `EveryEventHandled` under fairness | two handlers of one monitor, two reservations (one per handler, so a repeat after a lost one is reached), a clock that lets one lease run out |
| `scheduler` | `BudgetsHold` (budgets kept, permits and slots conserved), `ImmediateDeepCheckRuns`, `EventsAreHandled`, `LoopsKeepChecking` | two pages, two fast loops and a deep loop, a webhook, a manual check; three permits in all and two per site, one more than fast loops that can hold them |
| `live_config` | `LatestSaveIsScheduled`, `SerialSavesLeaveOneScheduler`, `PendingRestartIsReported`, `SavesAreAnswered` | two saves that may overlap, three manifests (no loop, one, two), two cold settings, three scheduler tasks per process: the first, and one for each of two saves, overlapping or one after the other; any loop may lose its cancellation |
| `baselines` | `RecordedBaselineCanBeLoaded` whatever happens; `FilesInStep`, how the files recover from crashes and races; `OnlyApprovedCapturesGo`, of approvals that run alone, also after accidents | three images, one of which the diff refuses, server, script, crashes, three approvals so that one replaces another, one is glued to a torn line, and one follows an accident |
| `page_check` | `WorstViewportWins`, `TroubleIsAlerted`, `FailingHealthChecksAreAlerted`, `FullTriageHidesNothing` | two crawled pages; one with two viewports and two health checks, one that ignores console errors; all symptoms alone and some together in each viewport, each kind of health answer |
| `crawl` | `AnswerIsTheEndOfTheChain`, `RequestsStayInside`, `CrawlIsBreadthFirst`, `JobsEnd` | five pages of a site (one excluded, one under two addresses, one with a malformed link), a sibling host (once with a malformed Location) and a foreign one; chains up to the limits (2 and 3 for the code's 5 and 10), over them, and circles; two public addresses and a private one; one change of names per job; pages cut off by `max_pages` and by `max_depth` |
| `browser` | `PermitsComeBack`, `EntryAnsweredOnce`, `NothingSurvivesTheRun`, `EvidenceNamesTheFailures`, `OutcomeIsHonest`, `RunEnds` | three of four requests (two for the document, a resource, a blocked one) next to the entry fetch; one permit, one chunk, three reservations and room for one failure, so that each is used up |
| `admin` | `EndedForGood`, `AccessEndsWithThePassword` | one account also typed with a space, a blank name, two good passwords and a short one, two tokens, two requests at a time, a lifetime of 1 within 3 ticks, the clock set back once |

Reservations, engine tasks, images, tokens, requests and passwords are interchangeable where a run
declares symmetry; no run with a liveness property does. Deadlock is checked in every run but
`browser`, which ends with the run it models, and `scheduler_wedge`, where the system really stops.
Type invariants are in no run's list: they are part of the inductive invariants below.

The scheduler's budget of `scheduler` is not the default. Under the default (one permit per site)
the liveness properties fail, which is `scheduler_wedge`. One permit more than fast loops, in all and per site, is a
sufficient condition that an operator can configure.

### Where the code disagrees with its documentation

Each of these runs checks one property that a document, comment or test states, and TLC finds the
behaviour of the code that violates it.

| Run | Statement | What happens |
| --- | --- | --- |
| `scheduler_wedge` | README.md:392, a deep check runs immediately after a confirmed outage | with one permit per site (the default), the hook waits for the permit of the very fast check that called it; the site's checks stop |
| `engine_loss` | README.md:117, a failed publication remains retryable | a retry within the lease is refused as a duplicate and answered 202 |
| `live_config_two_saves` | runtime.py:209, stop the old loop set, then start a new one | overlapping saves stop the same one and start two; the first is never stopped again |

Read from the code while modelling, and without a run of its own:

- An event refused as a duplicate does not advance the committed timestamp, so a transition older
  than that event is still published (README.md:68 says stale transitions are rejected).
- The WordPress checker is built at startup only if a page has a health check then
  (runtime.py:142-147); the first one saved later is skipped until a restart, although
  runtime.py:206 says none is needed.
- When the script approves while the server captures, the hash that goes into the log may be that of
  another capture than the image (baselines.py:97-103; line 6 says approval records the hash), and the
  newer capture may be unlinked with the one approved (118).
- A torn line in `audit.jsonl` makes every visual check of every page unavailable, and the next
  approval is appended to that line and lost with it; nothing repairs the log.
- A crawl only follows links to the host of its start page (crawler.py:144, 173, and a test);
  README.md:364 says to any of the allowed hosts. The start page is never compared with
  `exclude_paths`.
- A malformed `href` (`http://[x`) makes `urljoin` raise `ValueError` in `crawl`, which nothing
  catches: the stream of the full triage ends there, without a result (README.md:369 says that any
  failed crawled URL contributes to the classification). A URL longer than httpx accepts does the same
  (`httpx.InvalidURL`). Of a redirect's Location, the crawler catches that ValueError; a probe raises
  it (the webhook answers 400, as for an invalid payload), and so does a browser run for its entry
  document.
- Bytes of an attempt that broke off count again at the next address; the request budget counts hops
  and not the addresses tried for one.
- The deadline of a browser run strikes once. If it strikes early, the cleanup after it has no limit;
  if it strikes during the cleanup, complete evidence is thrown away. Handlers that begin between the
  list of tasks to cancel and the closing of the context are not on that list, and the context is not
  told to close at all if a strike interrupts the waiting for those handlers. The screenshot of a run
  that ends incomplete stays on disk.
- An error of Playwright's while closing takes the place of a timeout (the evidence then says it was
  none) or of a cancellation: `run` (browser_runner.py:671) or `_execute` (scheduler.py:78) then swallows
  the error, and a loop of the scheduler that was stopped goes on with its next check after the save,
  although runtime.py:209-211 says the old loop set is stopped. If every loop of it loses its cancellation,
  `await scheduler_task` (runtime.py:217) does not return and the save is not answered.
- Sessions outlive the account they belong to, and its password, for up to 12 hours (README.md:169
  says so). An operation that has begun is finished after a logout.
- `create` strips the username; `delete`, `reset-password` and login do not.
- Manual checks take slots of their own, next to the scheduler's budgets (README.md:395 says they
  share them).
- An exact repeat of a delivered event is granted again across another kind with the same timestamp;
  `RepeatOnlyAcrossTie` is the exact condition, and is proved (tests/test_durable_registry.py:109
  knows the case without a tie).
- Cancelled checks outlive the scheduler task that ran them, since `gather` ends with the first
  cancelled loop; a new loop set may start while they clean up.
- `restart_required` is true only in the answer to the save that changed a cold setting; later saves
  are answered with false while the restart is still due.
- A crash after the approved image is replaced and before the audit line is written leaves a
  replaced baseline without a record of it; `approve` takes what is pending when it runs, not what
  the operator looked at.
- A page whose baseline is pending fails a full triage (api.py:404), while README.md:422 says that
  `baseline_pending` is not treated as a failure. `FullTriageHidesNothing` says nothing of the verdict of a
  triage in which baselines are pending and nothing is wrong.
- A deep check that began before a maintenance window sends its alerts within it.

## Fairness

- Engine: `WF` of each task's steps. Probes and posts have httpx timeouts, so an await ends. That
  the hook returns is an assumption there, and what `scheduler` and `scheduler_wedge` are
  about. Arrivals, cancellation, crashes and the clock are not fair.
- Scheduler: `SF` of each actor's own progress. asyncio serves the waiters of a lock or semaphore
  in order of arrival, so an actor that could be served again and again is served; the queue itself
  is abstracted. Publication of an outage and the arrival of requests are not fair: whether a check
  finds an outage is up to the site.
- Crawl: `WF` of the fetch's steps and of the crawl's own. Resolver and httpx have timeouts, and the
  stream reads the generator as long as its client is there. Jobs begin, clients leave and names
  change as they like.
- Browser: `WF` of the deadline, of each handler's steps and of the cleanup (gathering and
  closing). `asyncio.timeout` fires, httpx gives up on a silent server, and that closing ends is
  assumed of Playwright. Opening and the page itself are not fair: some of their awaits have no limit
  of their own, which is what the deadline is for.
- LiveConfig: `WF` of resuming a save, ending a task and unwinding a cancelled check, one way or the
  other: nothing says that the cancellation arrives rather than gets lost. Browser checks have a total
  timeout, and their cleanup closes local resources. A sleeping loop need not wake, a check need not end
  by itself.

## Proofs

All theorems hold for every value of the constants that the module's assumption admits, with or without
the fairness of the specification, which they do not use. TLC found no violation of the inductive invariants on the
constants of the component's run before they were proved, but for those of fetches and crawls, which
quantify over all functions and are beyond it; their properties were checked.

| Module | Theorem | Statement |
| --- | --- | --- |
| `TriageEngineProofs` | `RegistryCorrect`, `RegistryTypeCorrect` | the inductive invariant `RegistryInv`, and types |
| | `SinglePublisher` | `OneLivePublisher` |
| | `LeaseProtectsHolder` | `HolderKeepsRowWithinLease` |
| | `DeliveriesAreReflected` | `DeliveredIsReflected` |
| | `OutageStartSound` | `OutageStartTracksState` |
| | `WatermarkMonotone` | the committed transition of a monitor never moves back |
| | `OutageStartFixed` | `OutageStartSticky` |
| | `RepeatsAreTies` | `RepeatOnlyAcrossTie` |
| | `RegistryImplementsLeases` | `ImplementsLeases`: the registry implements `PublicationLeases` |
| | `EngineCorrect`, `EngineTypeCorrect` | the inductive invariant `EngineInv`, and types |
| | `PublisherAlwaysFindsItsRow` | `PublisherFindsItsRow` |
| | `HookIsCurrent` | `HookSeesItsTransition` |
| | `RepeatsAlwaysExcused` | `RepeatsAreExcused` |
| | `NothingLostWithoutFailure` | `NoLossWithoutFailure` |
| | `EngineRefinesRegistry` | `EngineSpec => RegistrySpec` |
| | `EngineKeepsPromises` | what is proved of the registry, of the engine: its action properties, `DeliveredIsReflected`, `OutageStartTracksState`, `ImplementsLeases` |
| `CheckSchedulerProofs` | `SchedulerCorrect`, `SchedulerTypeCorrect` | the inductive invariant `SchedulerInv`, and types |
| | `BudgetsAlwaysHold` | `BudgetsHold` |
| `LiveConfigProofs` | `LiveConfigCorrect`, `LiveConfigTypeCorrect` | the inductive invariant `LiveInv`, and types |
| | `LatestSaveAlwaysScheduled` | `LatestSaveIsScheduled` |
| | `SerialSavesAreClean` | `SerialSavesLeaveOneScheduler` |
| | `RestartsAreReported` | `PendingRestartIsReported` |
| `BaselineStoreProofs` | `BaselineCorrect`, `BaselineTypeCorrect` | the inductive invariant `BaselineInv`, and types |
| | `RecordedBaselineSurvives` | `RecordedBaselineCanBeLoaded` |
| | `FilesRecover` | the inductive invariant `HistoryInv` |
| | `FilesStayInStep` | `FilesInStep` |
| | `PendingGoesOnlyApproved` | `OnlyApprovedCapturesGo` |
| `PageCheckProofs` | `PageCheckCorrect`, `PageCheckTypeCorrect` | the inductive invariant `PageInv`, and types |
| | `WorstAlwaysWins` | `WorstViewportWins` |
| | `TroubleIsAlwaysAlerted` | `TroubleIsAlerted` |
| | `HealthAlertsAreExact` | `FailingHealthChecksAreAlerted` |
| | `TriageHidesNothing` | `FullTriageHidesNothing` |
| `SiteCrawlerProofs` | `AnswersAreTrue` | `AnswerIsTheEndOfTheChain` |
| | `RequestsAreContained` | `RequestsStayInside` |
| | `CrawlsAreBreadthFirst` | `CrawlIsBreadthFirst` |
| `BrowserRunProofs` | `PermitsAreConserved` | `PermitsComeBack` |
| | `EntryIsAnsweredOnce` | `EntryAnsweredOnce` |
| | `RunEndsInOrder` | the inductive invariant `EndInv` |
| | `OutcomesAreHonest` | `OutcomeIsHonest` |
| | `NothingOutlivesTheRun` | `NothingSurvivesTheRun` |
| | `EvidenceIsOfTheBody` | `EvidenceNamesTheFailures` |
| `AdminAccessProofs` | `AccessInvariant` | the inductive invariant `AccessInv` |
| | `SessionsEndForGood` | `EndedForGood` |
| | `AccessFollowsThePassword` | `AccessEndsWithThePassword` |

**Registry**, from `RegistryAssumption` (constants are numbers, sentinels are distinct from the values
they stand next to). `HolderKeepsRowWithinLease` needs to know that the row under
a claim's token has the claim's key and lease and is undelivered, or else another `reserve` or
`prune` might delete it: that is `ClaimsOwnTheirRows`, which also says that a token never drawn has
no row, so a new row replaces none. `DeliveredIsReflected` then follows because the row turns
delivered in the step that commits its key. The proof has a lemma per action: `ReserveGrantedInv`,
`DeletionInv` (shared by refusals and pruning, which only delete), `CompleteDeliveredInv`,
`ClaimsEndInv` (shared by failed and unknown completions and by callers that vanish), `TickInv`.
`CommittedFacts` is what the guarded upsert yields; the two action properties rest on it, the third on
the invariant. The refinement of the leases needs `RegistryInv` too: with two undelivered rows of a key
its lease would not be determined, and `complete` commits as the holder only because the row under a
claim's token is that claim's. Each action has a lemma that says to which abstract step it maps; a
takeover is one `Grant`, since the deletion of the expired row and the new row are one transaction.

**Engine**, from `RegistryAssumption` and `EngineAssumption` (the four kinds of incident, of which the
recovery is none of the others, a non-zero number of attempts). The registry alone does not
promise that a holder keeps its row once the lease ran out; the engine does, because its handlers take turns.
`LockInv` says that of two handlers of a monitor one is queued behind the other, so one at most is past
the lock. `FlightInv` says that who posts holds the claim of its own event's row, and that nobody holds
any other; with the lock, the transition it posts is still one for `_decision` when it completes.
`FailuresAreKnown` (an undelivered row that nobody holds belongs to a failed post) is why what is
suppressed was either accepted or failed. `AcceptedInv` and `CommittedRepeatsAreExcused` tie the
history of what Discord accepted to the rows and to the committed state; `Excused` is the tie of
timestamps. Steps are grouped by what they do to the registry (`QuietStep`, `LeavingStep`,
`ReserveStep`, `RefuseStep`, `AcceptStep`, `CommitInEngine`). `EngineStepIsRegistryStep` is the step of
the refinement. TLC checked `EngineInv` on the instance of `engine` (118,773 states).

**Scheduler**, from `SchedulerAssumption` (finitely many actors, budgets above zero). `BudgetsHold`
bounds the checks that run, which is not inductive: an actor that checks must be known to hold its
permits, twice if the hook of a fast check runs the nested deep check. `PermitsConserved` sums what every
actor holds and what is free; `Balanced` says of a step that one actor moves and gives
back exactly what it no longer holds, and `BalancedKeeps` adds it up. `PlacesFit` keeps a deep loop out of
the engine and a webhook out of `_execute`.

**Live configuration**, from `ConfigAssumption`. The instance has finitely many saves and scheduler tasks
(the assumption says so: they are the bounds of the model). `RoomInv` says that there is a task left for
every save in flight, so a save that resumes can always start one; this is of the model's bound only.
`CurrentInv` carries `LatestSaveIsScheduled`: the current task was built from what was live, which may be
behind what is saved only while a save is in flight, and the current task is awaited, or runs, or had
nothing to run. `LoopsInv` says that an awaited task is being stopped, and that of a task that is, no loop goes
on but those that lost their cancellation. `SerialInv` and `ReportInv`
are the two other properties, extended to the middle of a save. Startup and restart lead to the same
states (`JustStarted`), from which everything holds.

**Baseline store**, from `BaselineAssumption`. That an audit record has its image is not inductive, since
it says nothing of a process about to append one: `ImagePrecedesRecord` adds that whoever stands before the
append has placed its image. The approved file is never removed, so both parts survive every step;
`MovePreserves` covers all steps that touch neither that file nor the log; `PlaceInv`, `LogInv` and
`LogTearsInv` are those that do. A torn or glued line never counts as a record (`Legible`). What
the files recover to rests on `HistoryInv`: while a process is alone all others are idle, and `InStepAt`
says for each of its places what it has done to the files so far, whatever it found there. Once another
begins, nothing is claimed until an operation begins among idle ones again (`OneGoesOn`).

**Page checks**, from `PageAssumption`. What the provers have to learn of the data is that the families of
codes in `CodesOf` cover every code a viewport or a health check can yield (`FamilyCodes`,
`EveryCodeCounts`), so that what is not sound has a severe classification (`SevereMeansCodes`), and that
`Classify` is the first place of `Priority` that is present (`ClassifyIsWorst`), so that
of a union it is the least of the parts' places (`WorstOfItsParts`); no induction over the viewports is needed.
`PageInv` then says at each moment of a job how far it is (`ProgressInv`), that its verdict is there when
it is done, which alerts were sent (`AlertsInv`), and what a full triage that is under way already knows to be
wrong (`TroubleInv`, of which `FullTriageHidesNothing` is the end). TLC checked `PageInv` on the instance
of `page_check` (963,147 states).

**Fetches and crawls**, from `FetchAssumption` and `CrawlAssumption` (of the web only that a redirect leads
to a URL and a page has a list of links; of the normal form of a URL, that it is its own normal form, keeps
the host and is allowed if the URL is; and that there are finitely many URLs, as there are in any crawl that
is compared with all it could have found). Induction on the natural numbers is `UpTo`: if a statement
failed somewhere there would be a first place, since the order of the naturals is well-founded
(`SomeLeast`). The library's induction theorems take an operator, which the provers cannot instantiate; a
set of numbers is enough here. `Iterated` then yields the recursive functions of the model: a chain of
redirects (`ChainIsTheChain`), the pages within so many links (`WithinIsWithin`), the states of a crawl while it
queues links (`LinksAreQueued`).

`SiteInv` is what holds of a fetch. `SafeInv`, that the addresses left to try were checked for the host of the
present URL, gives `RequestsStayInside`, also while names change. `ChainInv` says that the fetch has
come along the chain of its start by redirects that were served, while names stay put, and once it is
done, that its outcome says where the chain ends or that it ends nowhere (`AlongTheChain`, `NoEnd`).
Each caller checks, counts and gives up in an order of its own; `AttemptKeeps` and `ResolveKeeps` go
through them. `BreadthInv` is what holds of a crawl: the pages reported and those in the queue
are one list of pages (`Found`), each once, by depth, and `Layers` says that
each stands there with its true distance, that the pages linked from an expanded one are in the list,
and that those not expanded differ by one level at most. `LinkGrowsTheList` and `LinksGrowTheList` are what the queue gains by
one link and by all of a page; `LayersGrow` makes of it the layers again, for which every page nearer than
the one expanded must be in the list already (`NearPagesAreListed`). `ListsCount`
turns an exhausted queue into the number of pages of the last conjunct.

**Browser run**, from `BrowserAssumption`. The permits are a sum over handlers, so the proof rests on
`StepMoves`: a step moves one handler at most, into `transfer`, out of it, or neither, and the budget moves
with it. `PermitInv` adds that there are finitely many handlers at it and what their values are. `EntryInv`
adds that while the entry response is there it was served to nobody, and that it is not there before the
entry fetch has ended: without that, loading could make it available a second time. How a run ends is
`EndInv`, whose parts have to be proved together: `OutcomeInv` (what is on its way out, and what
struck), `ClosedInv` (what was opened by each place on the way in and told to close by each on the way
out; the context is the exception when a strike hits the gathering), `RoutesInv` (after the body, a handler at work
began late or was cancelled) and `FailuresInv` (the list names what failed in the body and is not added
to by what is late). TLC checked it on the instance of `browser` (798,863 states).

**Admin access**, from `AccessAssumption`. `AccessInv` says that ended tokens have no session, and ties
each session to the account: its password is the account's, or was lost at a time from which the expiry is
no further away than `TTL` plus the steps back. A login whose hashing is under way must be covered as
well, as the row it read may be gone before its token is issued; time does not pass meanwhile.

Only model-checked:

- Liveness, which is beyond TLAPS here (ENABLED): `EveryEventHandled`, `ImmediateDeepCheckRuns`,
  `EventsAreHandled`, `LoopsKeepChecking`, `SavesAreAnswered`, `JobsEnd`, `RunEnds`.
- What the three runs that expect a violation refute: TLC's counterexample is the result.

Every invariant and every other action property of a run is a theorem.

## Not modelled

The components with status `not_modelled` in `PROJECT.json`. Of the browser runner: cookies, what
is collected from the page (selectors, texts, interactions, screenshots) other than failed requests,
and the patterns of paths to ignore. Parsing (URLs, YAML, HTML, JSON),
formatting of payloads, admin pages, password hashing and pixel comparison carry no protocol.
SQLite's and the file system's own durability is taken as given. The rate at which Kuma or an admin
acts is not modelled; neither is the event loop's exact order of ready tasks, which is a free choice.

## Plan

Done, the reporting path first: `IncidentRegistry`, `PublicationLeases`, `TriageEngine`,
`CheckScheduler`, `BaselineStore`, `LiveConfig`, `PageCheck`, `BrowserRun`, `AdminAccess`, `SafeFetch` and
`SiteCrawler`, all with their proofs. Next:

1. Proofs of the safety parts of the liveness properties, such as who may hold a permit that a check
   waits for.
2. Maintenance windows as weekly intervals that may pass midnight and Sunday; the visual diff over
   small grids.
3. `BaselineStore` with two slots in one log.
