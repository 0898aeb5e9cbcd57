---------------------------- MODULE TriageEngine ----------------------------
(***************************************************************************)
(* The triage engine (engine.py) on top of the durable registry: what      *)
(* happens to one event from the moment a webhook or a scheduled fast      *)
(* check hands it in until its handler returns.  Tasks are asyncio tasks   *)
(* of the one process of the deployment; a task gives way to others where  *)
(* the code awaits: for the monitor's lock, for a probe, for Discord, for  *)
(* the on_publish hook.  The process may die at any of these points, and a *)
(* scheduler reload may cancel a task there.                               *)
(***************************************************************************)
EXTENDS IncidentRegistry, FiniteSets

CONSTANTS
  Tasks,             \* event handlers that may be in flight at once
  ConfirmedOutage,   \* IncidentKind.CONFIRMED_OUTAGE
  MonitorBlocked,    \* IncidentKind.MONITOR_BLOCKED
  TransientFailure,  \* IncidentKind.TRANSIENT_FAILURE
  Outcomes,          \* the probe outcomes that may occur
  Errors403,         \* whether an event's error may report a 403
  MaxAttempts        \* bound on the confirmation_attempts setting

ASSUME EngineAssumption ==
  /\ Kinds = {ConfirmedOutage, MonitorBlocked, TransientFailure, Recovered}
  /\ Recovered \notin {ConfirmedOutage, MonitorBlocked, TransientFailure}
  /\ Outcomes \subseteq {"ok", "http_error", "inconclusive"}
  /\ Errors403 \subseteq BOOLEAN
  /\ MaxAttempts \in Nat \ {0}

\* A KumaEvent, with what matters about it later: whether its error reports a
\* 403, whether it comes from a scheduled fast check (stamped with the clock) or
\* from Kuma (any timestamp), and whether a fast check found its page inside a
\* maintenance window.
Event ==
  {e \in [monitor : Monitors, up : BOOLEAN, http403 : Errors403, observed : Times,
          fast : BOOLEAN, suppress : BOOLEAN] :
     /\ e.suppress => e.fast}

VARIABLES
  task,       \* the handlers
  ahead,      \* who came first at the monitor's lock, by task
  attempts,   \* confirmation_attempts, live-updated by the admin panel
  accepted,   \* history: reports Discord accepted, as <<token, key>>
  missed,     \* history: transitions answered as accepted yet never reported
  failed      \* history: keys some publication of which was not committed

engineVars == <<task, ahead, attempts, accepted, missed, failed>>
allVars == <<registryVars, engineVars>>

Idle == [pc |-> "idle"]

\* The key an event gets once it is classified.
KeyOf(e, kind) == [monitor |-> e.monitor, kind |-> kind, observed |-> e.observed]

\* classify_incident: only which outcomes occurred matters, not how often.  A
\* probe is ok (2xx, 3xx), an http_error (4xx, 5xx) or inconclusive (no answer,
\* an unsafe or exhausted redirect).
Classify(e, results) ==
  IF e.up THEN Recovered
  ELSE IF e.http403 /\ "ok" \in results THEN MonitorBlocked
  ELSE IF results = {"http_error"} THEN ConfirmedOutage
  ELSE TransientFailure

Busy == {t \in Tasks : task[t].pc # "idle"}

\* The tasks that hold the lock of monitor m or wait for it.
AtLock(m) == {t \in Busy : task[t].event.monitor = m}

\* The task leaves the engine and the lock; the next in line moves up.
Leave(t) ==
  /\ task' = [task EXCEPT ![t] = Idle]
  /\ ahead' = [u \in Tasks |-> IF u = t THEN {} ELSE ahead[u] \ {t}]

-----------------------------------------------------------------------------
EngineInit ==
  /\ Init
  /\ task = [t \in Tasks |-> Idle]
  /\ ahead = [t \in Tasks |-> {}]
  /\ attempts \in 1 .. MaxAttempts
  /\ accepted = {}
  /\ missed = {}
  /\ failed = {}

\* handle_event: a webhook or a fast check hands in an event and queues for the
\* monitor's lock, which asyncio grants in order of arrival.  Kuma may send
\* anything, late, twice or out of order.  The guard on tokens keeps one in
\* reserve for every task in flight (they are bounded here, not in the code).
Arrive(t, e) ==
  /\ task[t] = Idle
  /\ Cardinality({x \in Tokens : claims[x] = Unissued}) > Cardinality(Busy)
  /\ e.fast => e.observed = now
  /\ task' = [task EXCEPT ![t] = [pc |-> "waiting", event |-> e]]
  /\ ahead' = [ahead EXCEPT ![t] = AtLock(e.monitor)]
  /\ UNCHANGED <<registryVars, attempts, accepted, missed, failed>>

\* Mutant: handle_event without its lock.
Start_NoLock(t) ==
  /\ task[t].pc = "waiting"
  /\ task' = [task EXCEPT ![t] =
       [pc |-> "probing", event |-> task[t].event, results |-> {},
        left |-> IF task[t].event.up THEN 0 ELSE attempts]]
  /\ UNCHANGED <<registryVars, ahead, attempts, accepted, missed, failed>>

\* The lock is acquired.  A DOWN event is probed as many times as the setting
\* says at this moment; an UP event is not probed.
Start(t) ==
  /\ task[t].pc = "waiting" /\ ahead[t] = {}
  /\ task' = [task EXCEPT ![t] =
       [pc |-> "probing", event |-> task[t].event, results |-> {},
        left |-> IF task[t].event.up THEN 0 ELSE attempts]]
  /\ UNCHANGED <<registryVars, ahead, attempts, accepted, missed, failed>>

\* A probe answers.
Probe(t, outcome) ==
  /\ task[t].pc = "probing" /\ task[t].left > 0
  /\ task' = [task EXCEPT ![t].left = task[t].left - 1,
                          ![t].results = task[t].results \cup {outcome}]
  /\ UNCHANGED <<registryVars, ahead, attempts, accepted, missed, failed>>

\* A probe raises instead (urljoin's ValueError for a malformed Location), and the
\* error goes to the caller: a webhook answers 400.
ProbeRaises(t) ==
  /\ task[t].pc = "probing" /\ task[t].left > 0
  /\ Leave(t)
  /\ UNCHANGED <<registryVars, attempts, accepted, missed, failed>>

\* The key of a task whose probes are done.
KeyOfTask(t) == KeyOf(task[t].event, Classify(task[t].event, task[t].results))

Classified(t) == task[t].pc = "probing" /\ task[t].left = 0

\* Mutant: a suppressed event is reserved and completed as undelivered.
Suppress_Reserves(t) ==
  /\ Classified(t) /\ task[t].event.suppress
  /\ IF Decision(KeyOfTask(t)) = "publish" /\ Active(KeyOfTask(t)) = {}
     THEN \E x \in Tokens :
            /\ claims[x] = Unissued
            /\ claims' = [claims EXCEPT ![x] = Finished]
            /\ reservations' = [reservations EXCEPT ![x] =
                 [key |-> KeyOfTask(t), until |-> now + LeaseTicks,
                  created |-> now, delivered |-> FALSE]]
            /\ UNCHANGED <<monitorState, now>>
     ELSE UNCHANGED registryVars
  /\ Leave(t)
  /\ UNCHANGED <<attempts, accepted, missed, failed>>

\* In a maintenance window the handler returns without touching the registry.
Suppress(t) ==
  /\ Classified(t) /\ task[t].event.suppress
  /\ Leave(t)
  /\ UNCHANGED <<registryVars, attempts, accepted, missed, failed>>

\* reserve() grants the publication, and the task starts to post the report.
Reserve(t, token) ==
  /\ Classified(t) /\ ~task[t].event.suppress
  /\ ReserveGranted(KeyOfTask(t), token)
  /\ task' = [task EXCEPT ![t] = [pc |-> "publishing", event |-> task[t].event,
                                  token |-> token]]
  /\ UNCHANGED <<ahead, attempts, accepted, missed, failed>>

\* reserve() says STALE or DUPLICATE: the handler returns, the event counts as
\* accepted (202).
Refuse(t) ==
  LET k == KeyOfTask(t)
  IN  /\ Classified(t) /\ ~task[t].event.suppress
      /\ ReserveRefused(k)
      /\ missed' = missed \cup {j \in {k} : /\ Decision(j) = "publish"
                                           /\ \A a \in accepted : a[2] # j}
      /\ Leave(t)
      /\ UNCHANGED <<attempts, accepted, failed>>

KeyInFlight(t) == claims[task[t].token].key

\* Discord accepts the report (or the dry run logs it).
Accept(t) ==
  /\ task[t].pc = "publishing"
  /\ accepted' = accepted \cup {<<task[t].token, KeyInFlight(t)>>}
  /\ task' = [task EXCEPT ![t].pc = "accepted"]
  /\ UNCHANGED <<registryVars, ahead, attempts, missed, failed>>

\* Mutant: the monitor's lock is released before the hook runs.
Commit_UnlocksFirst(t) ==
  /\ task[t].pc = "accepted"
  /\ CompleteDelivered(task[t].token)
  /\ task' = [task EXCEPT ![t].pc = "hook"]
  /\ ahead' = [u \in Tasks |-> ahead[u] \ {t}]
  /\ UNCHANGED <<attempts, accepted, missed, failed>>

\* publish() returns: the delivery is committed before anything else happens,
\* then the hook runs, still under the monitor's lock.
Commit(t) ==
  /\ task[t].pc = "accepted"
  /\ CompleteDelivered(task[t].token)
  /\ task' = [task EXCEPT ![t].pc = "hook"]
  /\ UNCHANGED <<ahead, attempts, accepted, missed, failed>>

\* Mutant: a failed publication deletes its reservation.
PublishFails_DropsRow(t) ==
  /\ task[t].pc \in {"publishing", "accepted"}
  /\ reservations' = [reservations EXCEPT ![task[t].token] = NoRow]
  /\ claims' = [claims EXCEPT ![task[t].token] = Finished]
  /\ failed' = failed \cup {KeyInFlight(t)}
  /\ Leave(t)
  /\ UNCHANGED <<monitorState, now, attempts, accepted, missed>>

\* Mutant: an error on the way out leaves the monitor's lock taken.
PublishFails_KeepsLock(t) ==
  /\ task[t].pc \in {"publishing", "accepted"}
  /\ CompleteFailed(task[t].token)
  /\ failed' = failed \cup {KeyInFlight(t)}
  /\ task' = [task EXCEPT ![t] = Idle]
  /\ UNCHANGED <<ahead, attempts, accepted, missed>>

\* publish() raises, whether Discord got the report or not: the reservation is
\* completed as undelivered and the error goes to the caller (503).
PublishFails(t) ==
  /\ task[t].pc \in {"publishing", "accepted"}
  /\ CompleteFailed(task[t].token)
  /\ failed' = failed \cup {KeyInFlight(t)}
  /\ Leave(t)
  /\ UNCHANGED <<attempts, accepted, missed>>

\* The hook returns or raises; its exceptions are swallowed.
HookReturns(t) ==
  /\ task[t].pc = "hook"
  /\ Leave(t)
  /\ UNCHANGED <<registryVars, attempts, accepted, missed, failed>>

InFlight == {t \in Tasks : task[t].pc \in {"publishing", "accepted"}}

\* A scheduler reload cancels a fast check.  CancelledError is no Exception: the
\* reservation it may hold is not completed.
Cancel(t) ==
  /\ t \in Busy /\ task[t].event.fast
  /\ IF t \in InFlight THEN Abandon({task[t].token}) ELSE UNCHANGED registryVars
  /\ failed' = failed \cup {KeyInFlight(u) : u \in InFlight \cap {t}}
  /\ Leave(t)
  /\ UNCHANGED <<attempts, accepted, missed>>

\* The process dies; the database file stays.
Crash ==
  /\ Busy # {}
  /\ IF InFlight # {} THEN Abandon({task[t].token : t \in InFlight})
                      ELSE UNCHANGED registryVars
  /\ failed' = failed \cup {KeyInFlight(t) : t \in InFlight}
  /\ task' = [t \in Tasks |-> Idle]
  /\ ahead' = [t \in Tasks |-> {}]
  /\ UNCHANGED <<attempts, accepted, missed>>

\* set_confirmation: an admin saves the settings while events are in flight.
SetConfirmation(n) ==
  /\ attempts' = n
  /\ UNCHANGED <<registryVars, task, ahead, accepted, missed, failed>>

ClockTick == Tick /\ UNCHANGED engineVars

TaskStep(t) ==
  \/ Start(t)
  \/ \E outcome \in Outcomes : Probe(t, outcome)
  \/ ProbeRaises(t)
  \/ Suppress(t)
  \/ \E token \in Tokens : Reserve(t, token)
  \/ Refuse(t)
  \/ Accept(t)
  \/ Commit(t)
  \/ PublishFails(t)
  \/ HookReturns(t)

EngineNext ==
  \/ \E t \in Tasks : \/ \E e \in Event : Arrive(t, e)
                      \/ TaskStep(t)
                      \/ Cancel(t)
  \/ Crash
  \/ \E n \in 1 .. MaxAttempts : SetConfirmation(n)
  \/ ClockTick

EngineSpec == EngineInit /\ [][EngineNext]_allVars

\* Probes and posts have timeouts (httpx), so a task that can move does; that
\* the hook returns is assumed here and is the subject of CheckScheduler.
EngineFairness == \A t \in Tasks : WF_allVars(TaskStep(t))

FairEngineSpec == EngineSpec /\ EngineFairness

-----------------------------------------------------------------------------
(* Properties.                                                             *)

TaskState ==
  [pc : {"idle"}]
  \cup [pc : {"waiting"}, event : Event]
  \cup [pc : {"probing"}, event : Event, results : SUBSET Outcomes,
        left : 0 .. MaxAttempts]
  \cup [pc : {"publishing", "accepted", "hook"}, event : Event, token : Tokens]

EngineTypeOK ==
  /\ task \in [Tasks -> TaskState]
  /\ ahead \in [Tasks -> SUBSET Tasks]
  /\ attempts \in 1 .. MaxAttempts
  /\ accepted \subseteq Tokens \X Key
  /\ missed \subseteq Key
  /\ failed \subseteq Key

\* The monitor lock makes complete() safe: however long a post takes, and even
\* when its lease runs out meanwhile, the row of a task that is posting a report
\* is still there and undelivered, so complete() never raises "Unknown
\* publication reservation" in this process (engine.py:71-73 and 108-114).
PublisherFindsItsRow ==
  \A t \in InFlight :
    /\ task[t].token \in Held \cap Rows
    /\ ~reservations[task[t].token].delivered

\* When the hook runs (engine.py:115-121) the state on record is the very
\* transition it was told about, and stays so for as long as the hook lasts.
HookSeesItsTransition ==
  \A t \in Tasks : task[t].pc = "hook" =>
    LET e == task[t].event
        s == monitorState[e.monitor]
    IN  /\ s # NoState /\ s.observed = e.observed
        /\ s.kind = Recovered <=> e.up

\* A key is reported twice only when the first report Discord accepted was never
\* committed, or when another kind with the same timestamp was committed too:
\* at most one accepted report of a key is committed or about to be.
RepeatsAreExcused ==
  \A p, q \in accepted :
    LET Counts(x) == x[1] \in Held \/ (x[1] \in Rows /\ reservations[x[1]].delivered)
    IN  p[2] = q[2] /\ p # q /\ Counts(p) /\ Counts(q) =>
          \E r \in accepted : /\ r[2].monitor = p[2].monitor
                              /\ r[2].observed = p[2].observed
                              /\ r[2].kind # p[2].kind

\* A transition answered as accepted was accepted by Discord before, unless an
\* earlier attempt to publish that key failed: nothing is lost without a
\* failure.  In particular a suppressed event leaves no reservation that would
\* block a later one (engine.py:89-96).
NoLossWithoutFailure == missed \subseteq failed

\* The engine uses the registry as the registry allows: every step of the engine
\* is a step of IncidentRegistry or leaves its state alone.
RegistrySpec == Spec

\* Every event handed in gets its turn at the monitor's lock and its handler
\* ends, whatever the other events of the monitor do.
EveryEventHandled ==
  \A t \in Tasks : task[t].pc = "waiting" ~> task[t].pc = "idle"

\* README.md:117 "Failed publication remains retryable": an event answered as
\* accepted was reported.  A retry within the lease of the failed attempt is
\* refused as a duplicate and answered 202, so nobody sends it again.
AcceptedEventsAreReported == missed = {}
=============================================================================
