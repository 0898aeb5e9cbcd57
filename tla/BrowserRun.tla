----------------------------- MODULE BrowserRun -----------------------------
(***************************************************************************)
(* One run of the browser for a page and a viewport (browser_runner.py):   *)
(* the driver, the browser and a context are opened, the entry document is *)
(* fetched, the page is loaded with each of its requests answered by a     *)
(* route handler, a task of its own, evidence is collected, and all is     *)
(* closed again in nested finally blocks.  A deadline covers the whole of  *)
(* it, the closing included, and the task may be cancelled from outside.   *)
(*                                                                         *)
(* What a fetch does with hops and addresses is SafeFetch; here a fetch is *)
(* a reservation, a permit and a number of chunks per hop.  Driver and     *)
(* browser are external: they may fail, and their closing ends.  The       *)
(* patterns of paths whose failures are not recorded are left out.         *)
(***************************************************************************)
EXTENDS Naturals, FiniteSets

CONSTANTS
  Routes,         \* requests the page may make, each handled by a task
  KindOf,         \* [Routes -> Kinds]
  MaxRoutes,      \* bound on how many of them one run makes
  MaxRequests,    \* MAX_BROWSER_REQUESTS
  MaxBytes,       \* MAX_BROWSER_TOTAL_BYTES, in chunks
  MaxConcurrent,  \* MAX_BROWSER_CONCURRENT_REQUESTS
  MaxFailures,    \* MAX_BROWSER_RESOURCE_FAILURES
  Initial         \* the fetch of the entry document, by the run itself

\* A document here asks for document_final_url; a blocked request is no GET or
\* was redirected too often.
Kinds == {"document", "resource", "blocked"}

ASSUME BrowserAssumption ==
  /\ KindOf \in [Routes -> Kinds]
  /\ Initial \notin Routes
  /\ {MaxRoutes, MaxRequests, MaxBytes, MaxFailures} \subseteq Nat
  /\ MaxConcurrent \in Nat \ {0}

Handlers == Routes \cup {Initial}

Resources == {r \in Routes : KindOf[r] = "resource"}

VARIABLES
  run,       \* where the run is, what is on its way out of it, what struck it
  held,      \* what the run has opened: driver, browser, context
  closed,    \* what was told to close
  entry,     \* entry_response is there to be served
  budget,    \* BrowserRunBudget: requests, bytes, and the semaphore's value
  handler,   \* [Handlers -> where it is, or how it ended]
  cancelled, \* pending_route_tasks: the routes whose tasks were cancelled
  failures,  \* resource_failures, as the routes they are about
  evidence,  \* what the evidence lists of them
  servedBy,  \* history: the routes answered with the entry response
  late       \* history: the routes that began after pending_route_tasks was taken

runVars == <<run, held, closed, evidence>>
routeVars == <<handler, cancelled, failures, servedBy, late>>
vars == <<runVars, routeVars, entry, budget>>

Opening == {"start driver", "launch", "new context"}
Body == {"fetch entry", "load", "inspect"}
Closing == {"close context", "close browser", "stop driver"}

\* Where a handler still has something to do.
Working == {"headers", "next hop", "wait", "transfer",
            "serve entry", "fulfill", "fulfill error", "abort"}

Live(h) == handler[h] \in Working

Init ==
  /\ run = [pc |-> "start driver", pending |-> "none", struck |-> {}, closeFailed |-> FALSE]
  /\ held = {} /\ closed = {} /\ evidence = {}
  /\ entry = FALSE
  /\ budget = [requests |-> 0, bytes |-> 0, permits |-> MaxConcurrent]
  /\ handler = [h \in Handlers |-> "none"]
  /\ cancelled = {} /\ failures = {} /\ servedBy = {} /\ late = {}

-----------------------------------------------------------------------------
(* Handlers: the route tasks, and the entry fetch as far as it is alike.   *)

\* A permit is back in the semaphore when its holder leaves the async with.
Released(h) == [budget EXCEPT !.permits = IF handler[h] = "transfer" THEN @ + 1 ELSE @]

\* Routes are registered before the page is opened, and stalled by Playwright as
\* soon as the context was told to close.
RoutesOpen ==
  /\ run.pc \in {"load", "inspect", "gather", "close browser"} /\ "context" \notin closed
  /\ Cardinality({r \in Routes : handler[r] # "none"}) < MaxRoutes

\* Mutant: the entry response is not taken away before it was served.
Begin_ClearedAfterwards(r) ==
  /\ RoutesOpen /\ handler[r] = "none"
  /\ LET serve == KindOf[r] = "document" /\ entry
     IN  /\ handler' = [handler EXCEPT ![r] = IF serve THEN "serve entry"
                                              ELSE IF KindOf[r] = "blocked" THEN "abort"
                                              ELSE "headers"]
         /\ servedBy' = IF serve THEN servedBy \cup {r} ELSE servedBy
  /\ entry' = (entry /\ \A d \in servedBy : handler[d] = "serve entry")
  /\ late' = IF run.pc \in Body THEN late ELSE late \cup {r}
  /\ UNCHANGED <<runVars, budget, cancelled, failures>>

\* route_handler up to its first await: the entry response is read and cleared.
Begin(r) ==
  /\ RoutesOpen /\ handler[r] = "none"
  /\ LET serve == KindOf[r] = "document" /\ entry
     IN  /\ handler' = [handler EXCEPT ![r] = IF serve THEN "serve entry"
                                              ELSE IF KindOf[r] = "blocked" THEN "abort"
                                              ELSE "headers"]
         /\ entry' = (entry /\ ~serve)
         /\ servedBy' = IF serve THEN servedBy \cup {r} ELSE servedBy
  /\ late' = IF run.pc \in Body THEN late ELSE late \cup {r}
  /\ UNCHANGED <<runVars, budget, cancelled, failures>>

Continues(h) == h \notin cancelled

\* reserve_request, with the lock free whenever it is asked for.
Reserve(h) ==
  /\ handler[h] \in {"headers", "next hop"} /\ Continues(h)
  /\ IF budget.requests >= MaxRequests
     THEN handler' = [handler EXCEPT ![h] = "abort"] /\ UNCHANGED budget
     ELSE /\ handler' = [handler EXCEPT ![h] = "wait"]
          /\ budget' = [budget EXCEPT !.requests = @ + 1]
  /\ UNCHANGED <<runVars, entry, cancelled, failures, servedBy, late>>

Acquire(h) ==
  /\ handler[h] = "wait" /\ Continues(h)
  /\ budget.permits > 0
  /\ budget' = [budget EXCEPT !.permits = @ - 1]
  /\ handler' = [handler EXCEPT ![h] = "transfer"]
  /\ UNCHANGED <<runVars, entry, cancelled, failures, servedBy, late>>

\* consume_bytes for one more chunk of the body.
Chunk(h) ==
  /\ handler[h] = "transfer" /\ Continues(h)
  /\ IF budget.bytes >= MaxBytes
     THEN handler' = [handler EXCEPT ![h] = "abort"] /\ budget' = Released(h)
     ELSE budget' = [budget EXCEPT !.bytes = @ + 1] /\ UNCHANGED handler
  /\ UNCHANGED <<runVars, entry, cancelled, failures, servedBy, late>>

\* The hop is over: a redirect to follow, an answer, or any of the errors of the
\* chain.  A status of 400 or more counts for resources only.
EndTransfer(h) ==
  /\ handler[h] = "transfer" /\ Continues(h)
  /\ \E to \in {"next hop", "fulfill", "abort"} \cup
               {"fulfill error" : r \in {h} \cap Resources} :
       handler' = [handler EXCEPT ![h] = to]
  /\ budget' = Released(h)
  /\ UNCHANGED <<runVars, entry, cancelled, failures, servedBy, late>>

Records(r) ==
  /\ KindOf[r] # "document"
  /\ Cardinality(failures) < MaxFailures

\* How a handler that answers its request ends.
EndOf(at) ==
  CASE at = "abort" -> "aborted"
    [] at = "fulfill error" -> "errored"
    [] at \in {"serve entry", "fulfill"} -> "fulfilled"

Answering == {"serve entry", "fulfill", "fulfill error", "abort"}

\* Mutant: the evidence goes on sharing the list of failures.
Answer_SharedList(r) ==
  /\ handler[r] \in Answering /\ Continues(r)
  /\ handler' = [handler EXCEPT ![r] = EndOf(handler[r])]
  /\ failures' = IF handler[r] \in {"abort", "fulfill error"} /\ Records(r)
                 THEN failures \cup {r} ELSE failures
  /\ evidence' = IF run.pending = "evidence" THEN failures' ELSE evidence
  /\ UNCHANGED <<run, held, closed, entry, budget, cancelled, servedBy, late>>

\* The browser has the answer and the handler records it, if it is a failure.
Answer(r) ==
  /\ handler[r] \in Answering /\ Continues(r)
  /\ handler' = [handler EXCEPT ![r] = EndOf(handler[r])]
  /\ failures' = IF handler[r] \in {"abort", "fulfill error"} /\ Records(r)
                 THEN failures \cup {r} ELSE failures
  /\ UNCHANGED <<runVars, entry, budget, cancelled, servedBy, late>>

\* The page has gone on without the request: Playwright raises.
Vanish(r) ==
  /\ handler[r] \in Answering \cup {"headers"} /\ Continues(r)
  /\ handler' = [handler EXCEPT ![r] = "gone"]
  /\ UNCHANGED <<runVars, entry, budget, cancelled, failures, servedBy, late>>

\* Mutant: no async with gives the permit back.
EndCancelled_KeepsPermit(r) ==
  /\ r \in cancelled /\ Live(r)
  /\ handler' = [handler EXCEPT ![r] = "gone"]
  /\ UNCHANGED <<runVars, entry, budget, cancelled, failures, servedBy, late>>

\* CancelledError has passed all of the handler's blocks.
EndCancelled(r) ==
  /\ r \in cancelled /\ Live(r)
  /\ handler' = [handler EXCEPT ![r] = "gone"]
  /\ budget' = Released(r)
  /\ UNCHANGED <<runVars, entry, cancelled, failures, servedBy, late>>

FetchStep(h) == Reserve(h) \/ Acquire(h) \/ Chunk(h) \/ EndTransfer(h)

RouteStep(r) == FetchStep(r) \/ Answer(r) \/ Vanish(r) \/ EndCancelled(r)

-----------------------------------------------------------------------------
(* The run: its way in, through the body and out of the nested blocks.     *)

\* Mutant: closing the context does not wait for the cancelled handlers.
Unwound_NoGather(pc) ==
  CASE pc = "start driver" -> "returned"
    [] pc = "launch" -> "stop driver"
    [] pc = "new context" -> "close browser"
    [] pc \in Body -> "close context"
    [] pc \in {"gather", "close context"} -> "close browser"
    [] pc = "close browser" -> "stop driver"
    [] pc = "stop driver" -> "returned"

\* Where the blocks lead from pc when a return or an exception passes.
Unwound(pc) ==
  CASE pc = "start driver" -> "returned"
    [] pc = "launch" -> "stop driver"
    [] pc = "new context" -> "close browser"
    [] pc \in Body -> IF \E r \in Routes : Live(r) THEN "gather" ELSE "close context"
    [] pc \in {"gather", "close context"} -> "close browser"
    [] pc = "close browser" -> "stop driver"
    [] pc = "stop driver" -> "returned"

\* What is told to close when the run comes to pc.
ClosedAt(pc) ==
  CASE pc = "close context" -> {"context"}
    [] pc = "close browser" -> {"browser"}
    [] pc = "stop driver" -> {"driver"}
    [] OTHER -> {}

\* A return or an exception leaves the block the run is in.  The entry fetch is
\* left with it; out of the body, the route tasks of the moment are cancelled.
Leave(pending, struck, closeFailed) ==
  LET to == Unwound(run.pc)
  IN  /\ run' = [pc |-> to, pending |-> pending, struck |-> struck, closeFailed |-> closeFailed]
      /\ closed' = closed \cup ClosedAt(to)
      /\ cancelled' = IF run.pc \in Body THEN {r \in Routes : Live(r)} ELSE cancelled
      /\ handler' = IF Live(Initial) THEN [handler EXCEPT ![Initial] = "aborted"] ELSE handler
      /\ budget' = Released(Initial)
      /\ UNCHANGED <<held, entry, failures, servedBy, late>>

\* The opening, await by await.
Open ==
  /\ run.pc \in Opening
  /\ LET step == CASE run.pc = "start driver" -> [opens |-> "driver", to |-> "launch"]
                   [] run.pc = "launch" -> [opens |-> "browser", to |-> "new context"]
                   [] run.pc = "new context" -> [opens |-> "context", to |-> "fetch entry"]
     IN  /\ held' = held \cup {step.opens}
         /\ run' = [run EXCEPT !.pc = step.to]
         /\ handler' = IF step.to = "fetch entry" THEN [handler EXCEPT ![Initial] = "headers"]
                       ELSE handler
  /\ UNCHANGED <<closed, evidence, entry, budget, cancelled, failures, servedBy, late>>

\* The entry response and its cookies are there; routes are registered.
EntryFetched ==
  /\ run.pc = "fetch entry" /\ handler[Initial] = "fulfill"
  /\ handler' = [handler EXCEPT ![Initial] = EndOf(@)]
  /\ entry' = TRUE
  /\ run' = [run EXCEPT !.pc = "load"]
  /\ UNCHANGED <<held, closed, evidence, budget, cancelled, failures, servedBy, late>>

\* goto() returns once the document is there and the network is idle.
Loaded ==
  /\ run.pc = "load"
  /\ \E r \in Routes : KindOf[r] = "document" /\ handler[r] = "fulfilled"
  /\ \A r \in Routes : ~Live(r)
  /\ run' = [run EXCEPT !.pc = "inspect"]
  /\ UNCHANGED <<held, closed, evidence, routeVars, entry, budget>>

\* The evidence is complete, with results of interactions and a screenshot.
Collect ==
  /\ run.pc = "inspect"
  /\ evidence' = failures
  /\ Leave("evidence", run.struck, FALSE)

\* A PlaywrightError, BrowserFetchError, UnsafeTargetError or OSError; or, of what the
\* site answered or the page contains, an exception that run() does not catch, as
\* urljoin's ValueError for a malformed Location.
Fail ==
  /\ run.pc \in Opening \cup Body
  /\ run.pc = "fetch entry" => handler[Initial] \in Answering
  /\ \E error \in {"error"} \cup {"uncaught" : pc \in {run.pc} \cap Body} :
       Leave(error, run.struck, FALSE)
  /\ UNCHANGED evidence

\* gather(return_exceptions=True): the context is next to be closed.
Gathered ==
  /\ run.pc = "gather"
  /\ \A r \in cancelled : ~Live(r)
  /\ run' = [run EXCEPT !.pc = "close context"]
  /\ closed' = closed \cup ClosedAt("close context")
  /\ UNCHANGED <<held, evidence, routeVars, entry, budget>>

Close ==
  /\ run.pc \in Closing
  /\ Leave(run.pending, run.struck, run.closeFailed)
  /\ UNCHANGED evidence

\* Playwright raises in a finally block: whatever was on its way is replaced.
CloseFails ==
  /\ run.pc \in Closing
  /\ Leave("error", run.struck, TRUE)
  /\ UNCHANGED evidence

\* Mutant: what strikes after the evidence is complete is of no consequence.
Strike_EvidenceStays(by) ==
  /\ run.pc # "returned" /\ by \notin run.struck
  /\ Leave(IF run.pending = "evidence" THEN "evidence" ELSE "cancelled",
           run.struck \cup {by}, run.closeFailed)
  /\ UNCHANGED evidence

\* Mutant: the deadline is for the page and not for the browser before it.
Strike_OnlyThePage(by) ==
  /\ run.pc \notin Opening \cup {"fetch entry", "returned"} /\ by \notin run.struck
  /\ Leave("cancelled", run.struck \cup {by}, FALSE)
  /\ UNCHANGED evidence

\* The task is cancelled where it waits, by asyncio.timeout or from outside, each
\* of them once.
Strike(by) ==
  /\ run.pc # "returned" /\ by \notin run.struck
  /\ Leave("cancelled", run.struck \cup {by}, FALSE)
  /\ UNCHANGED evidence

Deadline == Strike("deadline")

Cancel == Strike("cancel")

\* What run() returns or raises.  The timeout only claims a CancelledError, and
\* only if nobody else asked for one.
Outcome ==
  CASE run.pending = "evidence" -> "evidence"
    [] run.pending = "error" -> "incomplete"
    [] run.pending = "uncaught" -> "raised"
    [] run.pending = "cancelled" ->
         IF "cancel" \in run.struck THEN "cancelled" ELSE "timed out"

RunStep == Open \/ EntryFetched \/ Loaded \/ Collect \/ Fail \/ Gathered \/ Close \/ CloseFails

Next ==
  \/ RunStep
  \/ Deadline \/ Cancel
  \/ FetchStep(Initial)
  \/ \E r \in Routes : Begin(r) \/ RouteStep(r)

\* The browser may keep the body and the opening waiting: fonts.ready, inner_text
\* and launch have no limit of their own.  The deadline comes; closing ends; a
\* fetch ends, as httpx gives up on a silent server.
Fairness ==
  /\ WF_vars(Deadline)
  /\ WF_vars(Gathered \/ Close)
  /\ \A r \in Routes : WF_vars(RouteStep(r))

Spec == Init /\ [][Next]_vars /\ Fairness

-----------------------------------------------------------------------------
(* Properties.                                                             *)

\* Whoever is cancelled, wherever it is, the semaphore has as many permits as are
\* not in the hands of a fetch: no run of failing or cancelled requests starves
\* the others (browser_runner.py:86-97, 349-359).
PermitsComeBack ==
  budget.permits + Cardinality({h \in Handlers : handler[h] = "transfer"}) = MaxConcurrent

\* The entry response answers one document request and no other, although handlers
\* run side by side (browser_runner.py:742-753).
EntryAnsweredOnce ==
  /\ Cardinality(servedBy) <= 1
  /\ \A r \in servedBy : KindOf[r] = "document"

\* A run that has returned has told all it opened to close, the context excepted
\* if it was struck while it waited for its handlers; a handler outlives it only
\* if it began after the others were cancelled, or is on its way out after such a
\* strike (the finally blocks, browser_runner.py:1010-1021).
NothingSurvivesTheRun ==
  run.pc = "returned" =>
    /\ held \ {"context"} \subseteq closed
    /\ held # {} /\ run.struck = {} => held \subseteq closed
    /\ \A r \in Routes : Live(r) => r \in late \/ (r \in cancelled /\ "context" \notin closed)

\* Complete evidence lists the requests that failed the page before it was
\* collected, as many as there is room for, and nothing else: no document and nothing
\* that happened while the browser was closing
\* (browser_runner.py:766-815, 1005).
EvidenceNamesTheFailures ==
  run.pc = "returned" /\ Outcome = "evidence" =>
    LET failed == {r \in Routes \ late :
                     KindOf[r] # "document" /\ handler[r] \in {"errored", "aborted"}}
    IN  /\ evidence \subseteq failed
        /\ evidence = failed \/ Cardinality(evidence) = MaxFailures

\* What a run says of itself is so: evidence, or what the body raised, if nothing
\* struck it; a timeout, if the deadline passed; and a cancelled run is cancelled for
\* its caller too, unless the browser would not close
\* (run, browser_runner.py:650-677).
OutcomeIsHonest ==
  run.pc = "returned" =>
    /\ Outcome \in {"evidence", "raised"} => run.struck = {}
    /\ Outcome = "timed out" => run.struck = {"deadline"}
    /\ "cancel" \in run.struck => Outcome = "cancelled" \/ run.closeFailed
    /\ "deadline" \in run.struck => Outcome \in {"timed out", "cancelled"} \/ run.closeFailed

\* Whatever the page does, the run returns, and its handlers end
\* (browser_runner.py:687, with the timeouts of httpx).
RunEnds == <>[](run.pc = "returned" /\ \A h \in Handlers : ~Live(h))
=============================================================================
