-------------------------- MODULE IncidentRegistry --------------------------
(***************************************************************************)
(* The durable incident registry (durable_registry.py): one SQLite file    *)
(* with a row per monitor (the last transition whose delivery was          *)
(* committed) and a row per publication reservation.  Every operation runs *)
(* in one BEGIN IMMEDIATE transaction, so each is one action here.         *)
(*                                                                         *)
(* Callers are anonymous: a reservation that was handed out and not yet    *)
(* completed is a claim.  Claims of several callers (tasks of the service, *)
(* or a second process on the same file) coexist, a caller may crash while *)
(* it holds a claim, and it may complete one long after its lease ended.   *)
(***************************************************************************)
EXTENDS Integers

CONSTANTS
  Monitors,        \* monitor ids
  Kinds,           \* IncidentKind
  Recovered,       \* IncidentKind.RECOVERED
  Times,           \* the instants an event may carry as its observed_at
  Tokens,          \* uuid4 values; each is drawn at most once
  LeaseTicks,      \* lease_seconds
  RetentionTicks,  \* retention_days
  MaxClock,        \* bound on the wall clock
  NoState,         \* no row in monitor_state
  NoRow,           \* no row in publication_reservations under that token
  NoOutage,        \* outage_started_at IS NULL
  Unissued,        \* this token has not been drawn yet
  Finished         \* this claim was completed, or its caller is gone

Key == [monitor : Monitors, kind : Kinds, observed : Times]

MonitorState ==
  [kind : Kinds, observed : Times, outageStart : Times \cup {NoOutage}]

Reservation ==
  [key : Key, until : Nat, created : Nat, delivered : BOOLEAN]

\* A PublicationReservation whose decision is PUBLISH, in its caller's hands.
\* until is the lease it was given; the caller itself never looks at it.
Claim == [key : Key, until : Nat]

ASSUME RegistryAssumption ==
  /\ Recovered \in Kinds
  /\ Times \subseteq Nat
  /\ LeaseTicks \in Nat \ {0}
  /\ RetentionTicks \in Nat \ {0}
  /\ MaxClock \in Nat
  /\ NoState \notin MonitorState \cup [kind : Kinds, observed : Times]
  /\ NoRow \notin Reservation \cup [token : Tokens, until : Nat]
  /\ NoOutage \notin Times
  /\ {Unissued, Finished} \cap Claim = {}
  /\ Unissued # Finished

VARIABLES
  monitorState,   \* the monitor_state table, by monitor
  reservations,   \* the publication_reservations table, by token
  claims,         \* the reservations callers hold, by token
  now             \* the wall clock

registryVars == <<monitorState, reservations, claims, now>>

-----------------------------------------------------------------------------
(* Reading the tables.                                                     *)

Held == {t \in Tokens : claims[t] \in Claim}

Rows == {t \in Tokens : reservations[t] # NoRow}

Undelivered(k) ==
  {t \in Rows : reservations[t].key = k /\ ~reservations[t].delivered}

\* Mutant: the lease is taken to end one tick early.
Expired_OneTickEarly(k) ==
  {t \in Undelivered(k) : reservations[t].until <= now + 1}

\* Mutant: reserve() without its DELETE.
Expired_NeverDeleted(k) == {}

Expired(k) == {t \in Undelivered(k) : reservations[t].until <= now}

Active(k) == {t \in Undelivered(k) : reservations[t].until > now}

\* Mutant: an exact repeat of the committed event is taken for a transition.
Decision_TieIsTransition(k) ==
  LET s == monitorState[k.monitor]
  IN  IF s = NoState THEN "publish"
      ELSE IF k.observed < s.observed THEN "stale"
      ELSE IF s.kind # k.kind \/ k.observed = s.observed THEN "publish"
      ELSE "duplicate"

\* _decision: what the last committed transition says about an event.
Decision(k) ==
  LET s == monitorState[k.monitor]
  IN  IF s = NoState THEN "publish"
      ELSE IF k.observed < s.observed THEN "stale"
      ELSE IF s.kind # k.kind THEN "publish"
      ELSE IF k.observed = s.observed THEN "stale" ELSE "duplicate"

\* Mutant: the outage start is kept on recovery.
NextOutageStart_KeptOnRecovery(s, k) ==
  IF s # NoState /\ s.outageStart # NoOutage THEN s.outageStart ELSE k.observed

\* Mutant: every report restarts the outage.
NextOutageStart_EveryReport(s, k) ==
  IF k.kind = Recovered THEN NoOutage ELSE k.observed

\* _next_outage_start: an outage starts with its first report and ends with a
\* recovery; a change of kind in between does not restart it.
NextOutageStart(s, k) ==
  IF k.kind = Recovered THEN NoOutage
  ELSE IF s # NoState /\ s.outageStart # NoOutage THEN s.outageStart
  ELSE k.observed

\* Mutant: the upsert without its WHERE clause.
Committed_Unguarded(s, k) ==
  [kind |-> k.kind, observed |-> k.observed, outageStart |-> NextOutageStart(s, k)]

\* The upsert of complete(): an older observation leaves the row alone.
Committed(s, k) ==
  IF s # NoState /\ k.observed < s.observed THEN s
  ELSE [kind |-> k.kind, observed |-> k.observed,
        outageStart |-> NextOutageStart(s, k)]

-----------------------------------------------------------------------------
Init ==
  /\ monitorState = [m \in Monitors |-> NoState]
  /\ reservations = [t \in Tokens |-> NoRow]
  /\ claims = [t \in Tokens |-> Unissued]
  /\ now = 0

\* reserve(): the event is a transition nobody is publishing at the moment.
\* Reservations of the same key whose lease ran out are deleted first.
ReserveGranted(k, t) ==
  /\ Decision(k) = "publish"
  /\ Active(k) = {}
  /\ claims[t] = Unissued
  /\ reservations' =
       [x \in Tokens |->
          IF x = t THEN [key |-> k, until |-> now + LeaseTicks,
                         created |-> now, delivered |-> FALSE]
          ELSE IF x \in Expired(k) THEN NoRow ELSE reservations[x]]
  /\ claims' = [claims EXCEPT ![t] = [key |-> k, until |-> now + LeaseTicks]]
  /\ UNCHANGED <<monitorState, now>>

\* reserve(): the event is stale or repeats the state, or another reservation
\* of the same key is active.  The caller is told STALE or DUPLICATE.
ReserveRefused(k) ==
  /\ Decision(k) = "publish" => Active(k) # {}
  /\ reservations' =
       [x \in Tokens |-> IF Decision(k) = "publish" /\ x \in Expired(k)
                         THEN NoRow ELSE reservations[x]]
  /\ UNCHANGED <<monitorState, claims, now>>

\* complete(delivered=True)
CompleteDelivered(t) ==
  /\ t \in Held /\ t \in Rows
  /\ LET k == claims[t].key
     IN  monitorState' = [monitorState EXCEPT
                            ![k.monitor] = Committed(monitorState[k.monitor], k)]
  /\ reservations' = [reservations EXCEPT ![t].delivered = TRUE]
  /\ claims' = [claims EXCEPT ![t] = Finished]
  /\ UNCHANGED now

\* complete(delivered=False): the row stays as it is, and keeps its lease.
CompleteFailed(t) ==
  /\ t \in Held /\ t \in Rows
  /\ reservations' = [reservations EXCEPT ![t].delivered = FALSE]
  /\ claims' = [claims EXCEPT ![t] = Finished]
  /\ UNCHANGED <<monitorState, now>>

\* complete() of a reservation that was deleted: ValueError, nothing is written.
CompleteUnknown(t) ==
  /\ t \in Held /\ t \notin Rows
  /\ claims' = [claims EXCEPT ![t] = Finished]
  /\ UNCHANGED <<monitorState, reservations, now>>

\* The callers holding S crash or are cancelled between reserve() and
\* complete(): a caller alone, or every caller of a process that dies.
Abandon(S) ==
  /\ S # {}
  /\ claims' = [t \in Tokens |-> IF t \in S THEN Finished ELSE claims[t]]
  /\ UNCHANGED <<monitorState, reservations, now>>

\* prune(): delivered rows past their retention (completed_at is set exactly
\* when delivered is, so one flag stands for both).
Prune ==
  /\ reservations' =
       [t \in Tokens |->
          IF t \in Rows /\ reservations[t].delivered
                        /\ reservations[t].created < now - RetentionTicks
          THEN NoRow ELSE reservations[t]]
  /\ UNCHANGED <<monitorState, claims, now>>

Tick ==
  /\ now < MaxClock
  /\ now' = now + 1
  /\ UNCHANGED <<monitorState, reservations, claims>>

Next ==
  \/ \E k \in Key, t \in Tokens : ReserveGranted(k, t)
  \/ \E k \in Key : ReserveRefused(k)
  \/ \E t \in Tokens : \/ CompleteDelivered(t)
                       \/ CompleteFailed(t)
                       \/ CompleteUnknown(t)
  \/ \E S \in SUBSET Held : Abandon(S)
  \/ Prune
  \/ Tick

Spec == Init /\ [][Next]_registryVars

-----------------------------------------------------------------------------
(* Properties.                                                             *)

\* Every table and claim holds values of the shape the schema gives them.
TypeOK ==
  /\ monitorState \in [Monitors -> MonitorState \cup {NoState}]
  /\ reservations \in [Tokens -> Reservation \cup {NoRow}]
  /\ claims \in [Tokens -> Claim \cup {Unissued, Finished}]
  /\ now \in Nat

\* At most one undelivered reservation of a key exists, so at most one caller
\* is entitled to publish it: reserve() deletes the expired ones and refuses
\* while one is active (durable_registry.py:102-147).
OneLivePublisher ==
  \A t, u \in Rows :
    /\ ~reservations[t].delivered /\ ~reservations[u].delivered
    /\ reservations[t].key = reservations[u].key
    => t = u

\* A caller whose lease still runs finds its row when it completes: neither a
\* concurrent reserve() nor prune() takes it away (durable_registry.py:102-114
\* and 221-230), so ValueError in complete() means a lease was overrun.
HolderKeepsRowWithinLease ==
  \A t \in Held : t \in Rows \/ claims[t].until <= now

\* Whatever the order in which callers complete, a delivered reservation is
\* never ahead of its monitor's state: a redelivery of it is then recognised
\* after any restart (complete, durable_registry.py:186-215).
DeliveredIsReflected ==
  \A t \in Rows :
    LET k == reservations[t].key
    IN  reservations[t].delivered =>
          /\ monitorState[k.monitor] # NoState
          /\ k.observed <= monitorState[k.monitor].observed

\* The recorded outage start is absent exactly when the monitor recovered, and
\* is never later than the transition it belongs to (_next_outage_start,
\* durable_registry.py:263-272): a recovery never reports a negative downtime.
OutageStartTracksState ==
  \A m \in Monitors : monitorState[m] # NoState =>
    /\ monitorState[m].outageStart = NoOutage <=> monitorState[m].kind = Recovered
    /\ monitorState[m].kind # Recovered =>
         monitorState[m].outageStart <= monitorState[m].observed

\* The inductive strengthening of the invariants above: a claim's row, while it
\* is there, is the caller's own, and tokens never drawn have no row.
ClaimsOwnTheirRows ==
  \A t \in Rows :
    /\ claims[t] # Unissued
    /\ t \in Held => /\ reservations[t].key = claims[t].key
                     /\ reservations[t].until = claims[t].until
                     /\ ~reservations[t].delivered

RegistryInv ==
  /\ TypeOK
  /\ OneLivePublisher
  /\ HolderKeepsRowWithinLease
  /\ DeliveredIsReflected
  /\ OutageStartTracksState
  /\ ClaimsOwnTheirRows

WatermarkKept ==
  \A m \in Monitors : monitorState[m] # NoState =>
    /\ monitorState'[m] # NoState
    /\ monitorState[m].observed <= monitorState'[m].observed

\* The committed transition of a monitor never gives way to an older one, even
\* when two callers complete in the wrong order (durable_registry.py:206).
WatermarkNeverMovesBack == [][WatermarkKept]_registryVars

OutageStartKept ==
  \A m \in Monitors :
    monitorState[m] # NoState /\ monitorState[m].kind # Recovered =>
      \/ monitorState'[m].kind = Recovered
      \/ monitorState'[m].outageStart = monitorState[m].outageStart

\* While an outage lasts its recorded start does not move, through changes of
\* kind and out-of-order completions (durable_registry.py:187-195 and 263-272).
OutageStartSticky == [][OutageStartKept]_registryVars

GrantedRepeatIsTie ==
  \A t \in Held' \ Held, u \in Rows :
    LET k == claims'[t].key
        s == monitorState[k.monitor]
    IN  reservations[u].delivered /\ reservations[u].key = k =>
          s.observed = k.observed /\ s.kind # k.kind

\* A key already delivered (and not pruned) is granted again in one case only:
\* the state now holds another kind observed at the same instant
\* (_decision, durable_registry.py:236-249).
RepeatOnlyAcrossTie == [][GrantedRepeatIsTie]_registryVars

\* The lease of a key, as PublicationLeases sees it: its undelivered row.
LeaseOf(k) ==
  IF Undelivered(k) = {} THEN NoRow
  ELSE LET t == CHOOSE t \in Undelivered(k) : TRUE
       IN  [token |-> t, until |-> reservations[t].until]

\* The transition committed for a monitor, without its outage.
CommittedOf(m) ==
  IF monitorState[m] = NoState THEN NoState
  ELSE [kind |-> monitorState[m].kind, observed |-> monitorState[m].observed]

Leases == INSTANCE PublicationLeases WITH
  Keys <- Key,
  Free <- NoRow,
  Nothing <- NoState,
  lease <- [k \in Key |-> LeaseOf(k)],
  committed <- [m \in Monitors |-> CommittedOf(m)],
  granted <- {t \in Tokens : claims[t] # Unissued}

\* The registry keeps its promise to those who publish: every operation is a
\* grant, a publication or nothing at all to the leases and to what is committed
\* (reserve, complete and prune, durable_registry.py:81-230).
ImplementsLeases == Leases!Spec
=============================================================================
