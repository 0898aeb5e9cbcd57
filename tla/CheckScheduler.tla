--------------------------- MODULE CheckScheduler ---------------------------
(***************************************************************************)
(* The scheduled checks (scheduler.py) with what they meet at run time     *)
(* (runtime.py): the monitor locks of the triage engine, the on_publish    *)
(* hook that runs an immediate deep check, and the manual checks of the    *)
(* admin API, which have slots of their own.                               *)
(*                                                                         *)
(* An actor is a fast or deep loop of a page, a Kuma webhook in flight, or *)
(* a manual check.  What the engine does between taking the monitor's lock *)
(* and publishing is the subject of TriageEngine; here it either ends      *)
(* without a hook (refused, suppressed, failed to post, no outage) or has  *)
(* published a confirmed outage and awaits the hook, holding the lock.     *)
(***************************************************************************)
EXTENDS Integers, FiniteSets

CONSTANTS
  Pages, Sites,
  SiteOf,             \* the site of a page
  FastLoops,          \* pages with a fast_check_interval, as actors
  DeepLoops,          \* pages with a deep_check_interval, as actors
  Webhooks,           \* webhook requests that may be in flight at once
  ManualChecks,       \* manual check requests that may be in flight at once
  LoopPage,           \* the page of a loop
  GlobalConcurrency,  \* scheduler_global_concurrency
  SiteConcurrency,    \* scheduler_site_concurrency
  ManualSlots,        \* manual_check_concurrency
  Nobody              \* a monitor lock is free

Loops == FastLoops \cup DeepLoops
Actors == Loops \cup Webhooks \cup ManualChecks

ASSUME SchedulerAssumption ==
  /\ IsFiniteSet(Actors)
  /\ FastLoops \cap DeepLoops = {}
  /\ Loops \cap Webhooks = {}
  /\ (Loops \cup Webhooks) \cap ManualChecks = {}
  /\ Pages # {}
  /\ SiteOf \in [Pages -> Sites]
  /\ LoopPage \in [Loops -> Pages]
  /\ GlobalConcurrency \in Nat \ {0}
  /\ SiteConcurrency \in Nat \ {0}
  /\ ManualSlots \in Nat \ {0}
  /\ Nobody \notin Actors

VARIABLES
  pc,           \* where each actor is
  page,         \* the page it works for
  globalFree,   \* permits of the global semaphore
  siteFree,     \* permits of each site's semaphore
  holder,       \* who holds each monitor's lock (a page has one monitor)
  slotsFree     \* slots for manual checks

vars == <<pc, page, globalFree, siteFree, holder, slotsFree>>

Site(a) == SiteOf[page[a]]

\* Inside a loop's own _execute, and inside the one the hook calls.
OuterGlobal(a) == a \in Loops /\ pc[a] \notin {"off", "global"}
OuterSite(a) == OuterGlobal(a) /\ pc[a] # "site"
InnerGlobal(a) == pc[a] \in {"hookSite", "hookCheck"}
InnerSite(a) == pc[a] = "hookCheck"


\* A fast or deep check is running.
Running(a) == pc[a] \in {"checking", "hookCheck"}

-----------------------------------------------------------------------------
Init ==
  /\ pc = [a \in Actors |-> "off"]
  /\ page \in [Actors -> Pages]
  /\ \A l \in Loops : page[l] = LoopPage[l]
  /\ globalFree = GlobalConcurrency
  /\ siteFree = [s \in Sites |-> SiteConcurrency]
  /\ holder = [p \in Pages |-> Nobody]
  /\ slotsFree = ManualSlots

Goto(a, there) == pc' = [pc EXCEPT ![a] = there]

\* _loop: the interval and its jitter have passed.
Wake(l) ==
  /\ pc[l] = "off"
  /\ Goto(l, "global")
  /\ UNCHANGED <<page, globalFree, siteFree, holder, slotsFree>>

\* Mutant: the hook gives up when no permit is free.
AcquireGlobal_HookGivesUp(a) ==
  /\ pc[a] \in {"global", "hookGlobal"}
  /\ pc[a] = "global" => globalFree > 0
  /\ globalFree' = IF globalFree > 0 THEN globalFree - 1 ELSE 0
  /\ Goto(a, IF pc[a] = "global" THEN "site"
             ELSE IF globalFree > 0 THEN "hookSite" ELSE "engine")
  /\ UNCHANGED <<page, siteFree, holder, slotsFree>>

\* _execute: `async with self._global_semaphore`, for a loop or for the hook.
AcquireGlobal(a) ==
  /\ pc[a] \in {"global", "hookGlobal"}
  /\ globalFree > 0
  /\ globalFree' = globalFree - 1
  /\ Goto(a, IF pc[a] = "global" THEN "site" ELSE "hookSite")
  /\ UNCHANGED <<page, siteFree, holder, slotsFree>>

\* _execute: `self._site_semaphores[site_id]`, while holding the global permit.
AcquireSite(a) ==
  /\ pc[a] \in {"site", "hookSite"}
  /\ siteFree[Site(a)] > 0
  /\ siteFree' = [siteFree EXCEPT ![Site(a)] = siteFree[Site(a)] - 1]
  /\ Goto(a, IF pc[a] = "site" THEN "checking" ELSE "hookCheck")
  /\ UNCHANGED <<page, globalFree, holder, slotsFree>>

\* Leaving n nested _execute blocks of a's site.
Release(a, n) ==
  /\ globalFree' = globalFree + n
  /\ siteFree' = [siteFree EXCEPT ![Site(a)] = siteFree[Site(a)] + n]

\* Mutant: an exception of a check ends its loop.
CheckDone_LoopDies(l) ==
  /\ pc[l] = "checking"
  /\ Release(l, 1)
  /\ Goto(l, "dead")
  /\ UNCHANGED <<page, holder, slotsFree>>

\* Mutant: the permits are not given back when the check ends.
CheckDone_KeepsPermits(l) ==
  /\ pc[l] = "checking"
  /\ Goto(l, "off")
  /\ UNCHANGED <<page, globalFree, siteFree, holder, slotsFree>>

\* The check of a loop ends: run_deep_check, or run_fast_check by an exception before
\* the engine is reached (exceptions are logged and swallowed).
CheckDone(l) ==
  /\ pc[l] = "checking"
  /\ Release(l, 1)
  /\ Goto(l, "off")
  /\ UNCHANGED <<page, holder, slotsFree>>

\* run_fast_check has probed the page and hands its event to the engine.
FastProbed(l) ==
  /\ pc[l] = "checking"
  /\ Goto(l, "lock")
  /\ UNCHANGED <<page, globalFree, siteFree, holder, slotsFree>>

\* Kuma posts an event of page p's monitor.
Post(w, p) ==
  /\ pc[w] = "off"
  /\ page' = [page EXCEPT ![w] = p]
  /\ Goto(w, "lock")
  /\ UNCHANGED <<globalFree, siteFree, holder, slotsFree>>

AcquireLock(a) ==
  /\ pc[a] = "lock"
  /\ holder[page[a]] = Nobody
  /\ holder' = [holder EXCEPT ![page[a]] = a]
  /\ Goto(a, "engine")
  /\ UNCHANGED <<page, globalFree, siteFree, slotsFree>>

\* A confirmed outage was published and committed: on_publish asks the
\* scheduler for an immediate deep check, with the monitor's lock held.
OutagePublished(a) ==
  /\ pc[a] = "engine"
  /\ Goto(a, "hookGlobal")
  /\ UNCHANGED <<page, globalFree, siteFree, holder, slotsFree>>

\* Mutant: the monitor's lock stays taken.
HandlerDone_KeepsLock(a) ==
  /\ pc[a] \in {"engine", "hookCheck"}
  /\ Release(a, (IF pc[a] = "hookCheck" THEN 1 ELSE 0) + (IF a \in Loops THEN 1 ELSE 0))
  /\ Goto(a, "off")
  /\ UNCHANGED <<page, holder, slotsFree>>

\* The handler ends, after the hook's deep check or without one.  A fast check
\* leaves its own _execute too; a webhook had none.
HandlerDone(a) ==
  /\ pc[a] \in {"engine", "hookCheck"}
  /\ Release(a, (IF pc[a] = "hookCheck" THEN 1 ELSE 0) + (IF a \in Loops THEN 1 ELSE 0))
  /\ holder' = [holder EXCEPT ![page[a]] = Nobody]
  /\ Goto(a, "off")
  /\ UNCHANGED <<page, slotsFree>>

\* A manual check takes a slot at once or is answered 429.
ManualStart(c, p) ==
  /\ pc[c] = "off"
  /\ slotsFree > 0
  /\ slotsFree' = slotsFree - 1
  /\ page' = [page EXCEPT ![c] = p]
  /\ Goto(c, "checking")
  /\ UNCHANGED <<globalFree, siteFree, holder>>

ManualDone(c) ==
  /\ pc[c] = "checking"
  /\ slotsFree' = slotsFree + 1
  /\ Goto(c, "off")
  /\ UNCHANGED <<page, globalFree, siteFree, holder>>

\* What an actor does next by itself.  At each place it is one action, but for a fast
\* check, which may raise.
Proceed(a) ==
  \/ a \in Loops /\ Wake(a)
  \/ AcquireGlobal(a)
  \/ AcquireSite(a)
  \/ AcquireLock(a)
  \/ a \in Loops /\ CheckDone(a)
  \/ a \in FastLoops /\ FastProbed(a)
  \/ HandlerDone(a)
  \/ a \in ManualChecks /\ ManualDone(a)

Next ==
  \/ \E a \in Actors : Proceed(a) \/ OutagePublished(a)
  \/ \E w \in Webhooks, p \in Pages : Post(w, p)
  \/ \E c \in ManualChecks, p \in Pages : ManualStart(c, p)

Spec == Init /\ [][Next]_vars

\* Timers fire, and checks and posts end by their timeouts.  asyncio serves the
\* waiters of a semaphore or a lock in order of arrival, so an actor that could
\* be served again and again is served: strong fairness.
Fairness == \A a \in Actors : SF_vars(Proceed(a))

FairSpec == Spec /\ Fairness

-----------------------------------------------------------------------------
(* Properties.                                                             *)

TypeOK ==
  /\ pc \in [Actors -> {"off", "global", "site", "checking", "lock", "engine",
                        "hookGlobal", "hookSite", "hookCheck"}]
  /\ page \in [Actors -> Pages]
  /\ globalFree \in 0 .. GlobalConcurrency
  /\ siteFree \in [Sites -> 0 .. SiteConcurrency]
  /\ holder \in [Pages -> Actors \cup {Nobody}]
  /\ slotsFree \in 0 .. ManualSlots

SchedulerWithinBudget ==
  LET running == {a \in Loops \cup Webhooks : Running(a)}
  IN  /\ Cardinality(running) <= GlobalConcurrency
      /\ \A s \in Sites :
           Cardinality({a \in running : Site(a) = s}) <= SiteConcurrency

PermitsConserved ==
  /\ globalFree + Cardinality({a \in Actors : OuterGlobal(a)})
                + Cardinality({a \in Actors : InnerGlobal(a)}) = GlobalConcurrency
  /\ \A s \in Sites :
       siteFree[s] + Cardinality({a \in Actors : OuterSite(a) /\ Site(a) = s})
                   + Cardinality({a \in Actors : InnerSite(a) /\ Site(a) = s})
         = SiteConcurrency
  /\ slotsFree + Cardinality({c \in ManualChecks : pc[c] = "checking"}) = ManualSlots

\* However fast checks nest an immediate deep check, the scheduler never runs
\* more checks of a site, or in all, than its budgets allow ("still bounded by the
\* same concurrency budgets", scheduler.py:63-65), and no path through a check loses
\* or invents a permit or a slot (the async with blocks of _execute and the finally
\* of check_page).
BudgetsHold == SchedulerWithinBudget /\ PermitsConserved

\* README.md:392-393: after a confirmed outage "a deep check for that page runs
\* immediately".
ImmediateDeepCheckRuns ==
  \A a \in Actors : pc[a] = "hookGlobal" ~> pc[a] = "hookCheck"

\* Every event handed to the engine is dealt with.
EventsAreHandled ==
  \A a \in Actors : pc[a] = "lock" ~> pc[a] = "off"

\* Every configured loop keeps checking its page.
LoopsKeepChecking == \A l \in Loops : []<>(pc[l] = "checking")
=============================================================================
