-------------------------- MODULE TriageEngineProofs --------------------------
(***************************************************************************)
(* The registry, and the engine on top of it, for any number of monitors,  *)
(* kinds, events, callers, handlers and tokens, and any lease and          *)
(* retention.  First what the registry guarantees, and that it implements  *)
(* PublicationLeases: the rows of a key and the claims of callers add up   *)
(* to one lease per key.  Then the engine: it uses the registry as the     *)
(* registry allows, a publisher finds its row, the hook sees its           *)
(* transition, repeats are excused, and nothing is lost without a failure. *)
(***************************************************************************)
EXTENDS TriageEngine, TLAPS

-----------------------------------------------------------------------------
(* The registry.                                                           *)

\* The tables start empty, so the invariant holds at first.
LEMMA InitRegistryInv == Init => RegistryInv
<1> SUFFICES ASSUME Init PROVE RegistryInv
  OBVIOUS
<1> USE RegistryAssumption DEF Init
<1>1. TypeOK
  BY DEF TypeOK
<1>2. Rows = {}
  BY DEF Rows
<1>3. Held = {}
  BY DEF Held
<1>4. OutageStartTracksState
  BY DEF OutageStartTracksState
<1>5. QED
  BY <1>1, <1>2, <1>3, <1>4
     DEF RegistryInv, OneLivePublisher, HolderKeepsRowWithinLease,
         DeliveredIsReflected, ClaimsOwnTheirRows

\* The next state of a monitor after complete(): a well-formed state, at least
\* as recent as both the old one and the event, with a sound outage start.
LEMMA CommittedFacts ==
  ASSUME NEW s \in MonitorState \cup {NoState}, NEW k \in Key,
         s # NoState => /\ s.outageStart = NoOutage <=> s.kind = Recovered
                        /\ s.kind # Recovered => s.outageStart <= s.observed
  PROVE  LET c == Committed(s, k)
         IN  /\ c \in MonitorState
             /\ k.observed <= c.observed
             /\ s # NoState => s.observed <= c.observed
             /\ c.outageStart = NoOutage <=> c.kind = Recovered
             /\ c.kind # Recovered => c.outageStart <= c.observed
             /\ s # NoState /\ s.kind # Recovered /\ c.kind # Recovered
                  => c.outageStart = s.outageStart
<1> DEFINE c == Committed(s, k)
<1>1. k.kind \in Kinds /\ k.observed \in Times /\ k.observed \in Nat
  BY RegistryAssumption DEF Key
<1>2. s # NoState => /\ s \in MonitorState
                     /\ s.kind \in Kinds
                     /\ s.observed \in Times /\ s.observed \in Nat
                     /\ s.outageStart \in Times \cup {NoOutage}
  BY RegistryAssumption DEF MonitorState
<1>3. NoOutage \notin Times /\ Times \subseteq Nat
  BY RegistryAssumption
<1>4. CASE s # NoState /\ k.observed < s.observed
  BY <1>1, <1>2, <1>4 DEF Committed
<1>5. CASE s = NoState \/ s.observed <= k.observed
  <2>1. c = [kind |-> k.kind, observed |-> k.observed,
             outageStart |-> NextOutageStart(s, k)]
    BY <1>1, <1>2, <1>5 DEF Committed
  <2>2. /\ c.kind = k.kind
        /\ c.observed = k.observed
        /\ c.outageStart = NextOutageStart(s, k)
    BY <2>1
  <2>3. NextOutageStart(s, k) \in Times \cup {NoOutage}
    BY <1>1, <1>2 DEF NextOutageStart
  <2>4. c \in MonitorState
    BY <1>1, <2>1, <2>3 DEF MonitorState
  <2>5. NextOutageStart(s, k) = NoOutage <=> k.kind = Recovered
    BY <1>1, <1>2, <1>3 DEF NextOutageStart
  <2>6. k.kind # Recovered => NextOutageStart(s, k) <= k.observed
    <3>1. CASE s # NoState /\ s.outageStart # NoOutage
      <4>1. s.outageStart \in Nat /\ s.outageStart <= s.observed
        BY <1>2, <1>3, <3>1
      <4>2. s.outageStart <= k.observed
        BY <1>1, <1>2, <1>5, <3>1, <4>1
      <4>3. QED
        BY <3>1, <4>2 DEF NextOutageStart
    <3>2. CASE ~(s # NoState /\ s.outageStart # NoOutage)
      <4>1. k.observed <= k.observed
        BY <1>1
      <4>2. QED
        BY <3>2, <4>1 DEF NextOutageStart
    <3>3. QED
      BY <3>1, <3>2
  <2>7. s # NoState /\ s.kind # Recovered /\ k.kind # Recovered
          => NextOutageStart(s, k) = s.outageStart
    BY DEF NextOutageStart
  <2>8. QED
    BY <1>1, <1>2, <1>5, <2>2, <2>4, <2>5, <2>6, <2>7
<1>6. QED
  BY <1>1, <1>2, <1>4, <1>5
-----------------------------------------------------------------------------
\* A granted reservation: the new row is the only undelivered one of its key,
\* since the active ones were refused and the expired ones are deleted.
LEMMA ReserveGrantedInv ==
  ASSUME RegistryInv, NEW k \in Key, NEW t \in Tokens, ReserveGranted(k, t)
  PROVE  RegistryInv'
<1> USE RegistryAssumption
<1> DEFINE row == [key |-> k, until |-> now + LeaseTicks,
                   created |-> now, delivered |-> FALSE]
           claim == [key |-> k, until |-> now + LeaseTicks]
<1>1. /\ TypeOK /\ OneLivePublisher /\ HolderKeepsRowWithinLease
      /\ DeliveredIsReflected /\ OutageStartTracksState /\ ClaimsOwnTheirRows
  BY DEF RegistryInv
<1>2. row \in Reservation /\ claim \in Claim
  BY <1>1 DEF TypeOK, Reservation, Claim
<1>3. /\ claims[t] = Unissued /\ Active(k) = {}
      /\ claims' = [claims EXCEPT ![t] = claim]
      /\ monitorState' = monitorState /\ now' = now
      /\ reservations' = [x \in Tokens |-> IF x = t THEN row
                            ELSE IF x \in Expired(k) THEN NoRow ELSE reservations[x]]
  BY DEF ReserveGranted
<1>4. t \notin Rows /\ t \notin Held
  BY <1>1, <1>3 DEF ClaimsOwnTheirRows, Held
<1>5. /\ Rows' = (Rows \ Expired(k)) \cup {t}
      /\ reservations'[t] = row
      /\ \A x \in Rows \ Expired(k) : x # t /\ reservations'[x] = reservations[x]
  BY <1>2, <1>3, <1>4 DEF Rows
<1>6. /\ Held' = Held \cup {t}
      /\ claims'[t] = claim
      /\ \A x \in Tokens : x # t => claims'[x] = claims[x]
  BY <1>1, <1>2, <1>3 DEF Held, TypeOK
<1>7. TypeOK'
  BY <1>1, <1>2, <1>3 DEF TypeOK
<1>8. \A x \in Rows \ Expired(k) : reservations[x].key = k => reservations[x].delivered
  <2> SUFFICES ASSUME NEW x \in Rows \ Expired(k), reservations[x].key = k,
                      ~reservations[x].delivered
               PROVE  FALSE
    BY <1>1 DEF Rows, TypeOK, Reservation
  <2>1. x \in Undelivered(k) /\ reservations[x] \in Reservation
    BY <1>1 DEF Undelivered, Rows, TypeOK
  <2>2. reservations[x].until > now
    BY <1>1, <2>1 DEF Expired, TypeOK, Reservation
  <2>3. QED
    BY <1>3, <2>1, <2>2 DEF Active
<1>9. OneLivePublisher'
  BY <1>1, <1>5, <1>8 DEF OneLivePublisher
<1>10. HolderKeepsRowWithinLease'
  <2> SUFFICES ASSUME NEW x \in Held', x \notin Rows'
               PROVE  claims'[x].until <= now'
    BY DEF HolderKeepsRowWithinLease
  <2>1. x # t /\ x \in Held /\ claims'[x] = claims[x] /\ now' = now
    BY <1>3, <1>5, <1>6 DEF Held
  <2>2. CASE x \notin Rows
    BY <1>1, <2>1, <2>2 DEF HolderKeepsRowWithinLease
  <2>3. CASE x \in Rows
    <3>1. x \in Expired(k)
      BY <1>5, <2>3
    <3>2. reservations[x].until <= now /\ reservations[x].until = claims[x].until
      BY <1>1, <2>1, <2>3, <3>1 DEF Expired, ClaimsOwnTheirRows
    <3>3. QED
      BY <2>1, <3>2
  <2>4. QED
    BY <2>2, <2>3
<1>11. DeliveredIsReflected'
  BY <1>1, <1>3, <1>5 DEF DeliveredIsReflected
<1>12. OutageStartTracksState'
  BY <1>1, <1>3 DEF OutageStartTracksState
<1>13. ClaimsOwnTheirRows'
  <2> SUFFICES ASSUME NEW x \in Rows'
               PROVE  /\ claims'[x] # Unissued
                      /\ x \in Held' => /\ reservations'[x].key = claims'[x].key
                                       /\ reservations'[x].until = claims'[x].until
                                       /\ ~reservations'[x].delivered
    BY DEF ClaimsOwnTheirRows
  <2>1. CASE x = t
    BY <1>2, <1>5, <1>6, <2>1
  <2>2. CASE x # t
    <3>1. x \in Rows \ Expired(k) /\ x \in Tokens
      BY <1>5, <2>2 DEF Rows
    <3>2. QED
      BY <1>1, <1>5, <1>6, <2>2, <3>1 DEF ClaimsOwnTheirRows
  <2>3. QED
    BY <2>1, <2>2
<1>14. QED
  BY <1>7, <1>9, <1>10, <1>11, <1>12, <1>13 DEF RegistryInv

\* A step that leaves the monitors, the claims and the clock alone and only
\* deletes rows nobody holds within a lease keeps the invariant: reserve() that
\* refuses, and prune().
LEMMA DeletionInv ==
  ASSUME RegistryInv, NEW D \in SUBSET Rows,
         \A t \in D : t \in Held => reservations[t].until <= now,
         reservations' = [x \in Tokens |-> IF x \in D THEN NoRow ELSE reservations[x]],
         UNCHANGED <<monitorState, claims, now>>
  PROVE  RegistryInv'
<1>1. /\ TypeOK /\ OneLivePublisher /\ HolderKeepsRowWithinLease
      /\ DeliveredIsReflected /\ OutageStartTracksState /\ ClaimsOwnTheirRows
  BY DEF RegistryInv
<1>2. /\ Rows' = Rows \ D
      /\ \A x \in Rows' : reservations'[x] = reservations[x]
      /\ Held' = Held
  BY DEF Rows, Held
<1>3. TypeOK'
  BY <1>1 DEF TypeOK
<1>4. OneLivePublisher'
  BY <1>1, <1>2 DEF OneLivePublisher
<1>5. HolderKeepsRowWithinLease'
  BY <1>1, <1>2 DEF HolderKeepsRowWithinLease, ClaimsOwnTheirRows
<1>6. DeliveredIsReflected'
  BY <1>1, <1>2 DEF DeliveredIsReflected
<1>7. OutageStartTracksState'
  BY <1>1 DEF OutageStartTracksState
<1>8. ClaimsOwnTheirRows'
  BY <1>1, <1>2 DEF ClaimsOwnTheirRows
<1>9. QED
  BY <1>3, <1>4, <1>5, <1>6, <1>7, <1>8 DEF RegistryInv

\* A refusal deletes at most expired reservations of the key it was asked for.
LEMMA ReserveRefusedInv ==
  ASSUME RegistryInv, NEW k \in Key, ReserveRefused(k)
  PROVE  RegistryInv'
<1> DEFINE D == IF Decision(k) = "publish" THEN Expired(k) ELSE {}
<1>1. D \in SUBSET Rows
  BY DEF Expired, Undelivered
<1>2. \A t \in D : t \in Held => reservations[t].until <= now
  BY DEF Expired
<1>3. /\ reservations' = [x \in Tokens |-> IF x \in D THEN NoRow ELSE reservations[x]]
      /\ UNCHANGED <<monitorState, claims, now>>
  BY DEF ReserveRefused
<1> HIDE DEF D
<1>4. QED
  BY <1>1, <1>2, <1>3, DeletionInv

\* Pruning deletes delivered rows only, and nobody holds a claim on those.
LEMMA PruneInv == ASSUME RegistryInv, Prune PROVE RegistryInv'
<1> DEFINE D == {t \in Rows : /\ reservations[t].delivered
                              /\ reservations[t].created < now - RetentionTicks}
<1>1. D \in SUBSET Rows
  OBVIOUS
<1>2. \A t \in D : t \in Held => reservations[t].until <= now
  BY DEF RegistryInv, ClaimsOwnTheirRows
<1>3. /\ reservations' = [x \in Tokens |-> IF x \in D THEN NoRow ELSE reservations[x]]
      /\ UNCHANGED <<monitorState, claims, now>>
  BY DEF Prune
<1> HIDE DEF D
<1>4. QED
  BY <1>1, <1>2, <1>3, DeletionInv

\* A committed delivery: the row turns delivered in the same step in which the
\* monitor's state moves to the event, or already is at a later one.
LEMMA CompleteDeliveredInv ==
  ASSUME RegistryInv, NEW t \in Tokens, CompleteDelivered(t)
  PROVE  RegistryInv'
<1> USE RegistryAssumption
<1> DEFINE k == claims[t].key
           s == monitorState[k.monitor]
<1>1. /\ TypeOK /\ OneLivePublisher /\ HolderKeepsRowWithinLease
      /\ DeliveredIsReflected /\ OutageStartTracksState /\ ClaimsOwnTheirRows
  BY DEF RegistryInv
<1>2. t \in Held /\ t \in Rows /\ now' = now
  BY DEF CompleteDelivered
<1>3. /\ k \in Key /\ k.monitor \in Monitors /\ k.observed \in Nat
      /\ reservations[t] \in Reservation /\ reservations[t].key = k
  BY <1>1, <1>2 DEF Held, Rows, TypeOK, Claim, Key, ClaimsOwnTheirRows
<1>4. s \in MonitorState \cup {NoState}
  BY <1>1, <1>3 DEF TypeOK
<1>5. /\ Committed(s, k) \in MonitorState
      /\ k.observed <= Committed(s, k).observed
      /\ s # NoState => s.observed <= Committed(s, k).observed
      /\ Committed(s, k).outageStart = NoOutage <=> Committed(s, k).kind = Recovered
      /\ Committed(s, k).kind # Recovered
           => Committed(s, k).outageStart <= Committed(s, k).observed
  BY <1>1, <1>3, <1>4, CommittedFacts DEF OutageStartTracksState
<1>6. /\ monitorState' = [monitorState EXCEPT ![k.monitor] = Committed(s, k)]
      /\ claims' = [claims EXCEPT ![t] = Finished]
      /\ reservations' = [reservations EXCEPT ![t].delivered = TRUE]
  BY DEF CompleteDelivered
<1> HIDE DEF k, s
<1>7. /\ reservations'[t] \in Reservation
      /\ reservations'[t].key = k /\ reservations'[t].delivered
      /\ \A x \in Tokens : x # t => reservations'[x] = reservations[x]
  BY <1>1, <1>3, <1>6 DEF TypeOK, Reservation
<1>8. Rows' = Rows
  BY <1>1, <1>2, <1>7 DEF Rows
<1>9. Held' = Held \ {t} /\ \A x \in Held' : claims'[x] = claims[x]
  BY <1>1, <1>6 DEF Held, TypeOK
<1>10. /\ monitorState'[k.monitor] = Committed(s, k)
       /\ \A m \in Monitors : m # k.monitor => monitorState'[m] = monitorState[m]
  BY <1>1, <1>3, <1>6 DEF TypeOK
<1>11. TypeOK'
  BY <1>1, <1>2, <1>5, <1>6, <1>7 DEF TypeOK
<1>12. OneLivePublisher'
  BY <1>1, <1>7, <1>8 DEF OneLivePublisher, Rows
<1>13. HolderKeepsRowWithinLease'
  BY <1>1, <1>2, <1>8, <1>9 DEF HolderKeepsRowWithinLease
<1>14. DeliveredIsReflected'
  <2> SUFFICES ASSUME NEW x \in Rows, reservations'[x].delivered
               PROVE  LET j == reservations'[x].key
                      IN  /\ monitorState'[j.monitor] # NoState
                          /\ j.observed <= monitorState'[j.monitor].observed
    BY <1>8 DEF DeliveredIsReflected
  <2> DEFINE j == reservations'[x].key
  <2>1. j \in Key /\ j.monitor \in Monitors /\ j.observed \in Nat
    <3>1. x \in Tokens /\ reservations'[x] # NoRow
      BY <1>8 DEF Rows
    <3>2. reservations'[x] \in Reservation
      BY <1>11, <3>1 DEF TypeOK
    <3>3. j \in Key
      BY <3>2 DEF Reservation
    <3>4. j.monitor \in Monitors /\ j.observed \in Times
      BY <3>3 DEF Key
    <3>5. QED
      BY <3>3, <3>4, RegistryAssumption DEF Key
  <2>2. CASE x = t
    BY <1>5, <1>7, <1>10, <2>2
  <2>3. CASE x # t
    <3>1. /\ reservations[x].key = j /\ reservations[x].delivered
      BY <1>7, <2>3 DEF Rows
    <3>2. /\ monitorState[j.monitor] # NoState
          /\ j.observed <= monitorState[j.monitor].observed
      BY <1>1, <3>1 DEF DeliveredIsReflected
    <3>3. CASE j.monitor # k.monitor
      BY <1>10, <2>1, <3>2, <3>3
    <3>4. CASE j.monitor = k.monitor
      <4>1. s # NoState /\ j.observed <= s.observed
        BY <3>2, <3>4 DEF s
      <4>2. s.observed \in Nat /\ Committed(s, k).observed \in Nat
        BY <1>4, <1>5, <4>1 DEF MonitorState
      <4>3. j.observed <= Committed(s, k).observed
        BY <1>5, <2>1, <4>1, <4>2
      <4>4. QED
        BY <1>5, <1>10, <3>4, <4>3
    <3>5. QED
      BY <3>3, <3>4
  <2>4. QED
    BY <2>2, <2>3
<1>15. OutageStartTracksState'
  BY <1>1, <1>5, <1>10 DEF OutageStartTracksState
<1>16. ClaimsOwnTheirRows'
  <2>1. Finished # Unissued /\ \A x \in Tokens : x # t => claims'[x] = claims[x]
    BY <1>1, <1>6 DEF TypeOK
  <2>2. claims'[t] = Finished
    BY <1>1, <1>6 DEF TypeOK
  <2>3. QED
    BY <1>1, <1>7, <1>8, <1>9, <2>1, <2>2 DEF ClaimsOwnTheirRows, Rows
<1>17. QED
  BY <1>11, <1>12, <1>13, <1>14, <1>15, <1>16 DEF RegistryInv

\* A step that only ends claims keeps the invariant: complete(delivered=False),
\* complete() of a deleted row, and callers that are gone.
LEMMA ClaimsEndInv ==
  ASSUME RegistryInv, NEW S \in SUBSET Held,
         claims' = [t \in Tokens |-> IF t \in S THEN Finished ELSE claims[t]],
         UNCHANGED <<monitorState, reservations, now>>
  PROVE  RegistryInv'
<1> USE RegistryAssumption
<1>1. /\ TypeOK /\ OneLivePublisher /\ HolderKeepsRowWithinLease
      /\ DeliveredIsReflected /\ OutageStartTracksState /\ ClaimsOwnTheirRows
  BY DEF RegistryInv
<1>2. \A x \in Tokens : /\ x \in S => claims'[x] = Finished
                        /\ x \notin S => claims'[x] = claims[x]
  OBVIOUS
<1>3. Rows' = Rows /\ Held' = Held \ S
  BY <1>2 DEF Rows, Held
<1>4. TypeOK'
  BY <1>1 DEF TypeOK
<1>5. OneLivePublisher' /\ DeliveredIsReflected' /\ OutageStartTracksState'
  BY <1>1, <1>3 DEF OneLivePublisher, DeliveredIsReflected, OutageStartTracksState
<1>6. HolderKeepsRowWithinLease'
  BY <1>1, <1>2, <1>3 DEF HolderKeepsRowWithinLease, Held
<1>7. ClaimsOwnTheirRows'
  BY <1>1, <1>2, <1>3 DEF ClaimsOwnTheirRows, Held, Rows
<1>8. QED
  BY <1>4, <1>5, <1>6, <1>7 DEF RegistryInv

\* The same, for one claim written with EXCEPT.
LEMMA ClaimEndsInv ==
  ASSUME RegistryInv, NEW t \in Held,
         claims' = [claims EXCEPT ![t] = Finished],
         UNCHANGED <<monitorState, reservations, now>>
  PROVE  RegistryInv'
<1>1. claims' = [x \in Tokens |-> IF x \in {t} THEN Finished ELSE claims[x]]
  BY DEF RegistryInv, TypeOK
<1>2. {t} \in SUBSET Held
  OBVIOUS
<1>3. QED
  BY <1>1, <1>2, ClaimsEndInv

\* complete(delivered=False) writes the value that is there already.
LEMMA CompleteFailedInv ==
  ASSUME RegistryInv, NEW t \in Tokens, CompleteFailed(t)
  PROVE  RegistryInv'
<1>1. t \in Held /\ t \in Rows /\ reservations \in [Tokens -> Reservation \cup {NoRow}]
  BY DEF CompleteFailed, RegistryInv, TypeOK
<1>2. reservations[t] \in Reservation /\ reservations[t].delivered = FALSE
  BY <1>1 DEF RegistryInv, ClaimsOwnTheirRows, Rows, Reservation
<1>3. [reservations[t] EXCEPT !.delivered = FALSE] = reservations[t]
  BY <1>2 DEF Reservation
<1>4. reservations' = reservations
  BY <1>1, <1>3 DEF CompleteFailed
<1>5. QED
  BY <1>1, <1>4, ClaimEndsInv DEF CompleteFailed

\* Time only ends leases.
LEMMA TickInv == ASSUME RegistryInv, Tick PROVE RegistryInv'
<1>1. /\ TypeOK /\ OneLivePublisher /\ HolderKeepsRowWithinLease
      /\ DeliveredIsReflected /\ OutageStartTracksState /\ ClaimsOwnTheirRows
  BY DEF RegistryInv
<1>2. Rows' = Rows /\ Held' = Held /\ now' = now + 1
  BY DEF Tick, Rows, Held
<1>3. TypeOK'
  BY <1>1 DEF Tick, TypeOK
<1>4. OneLivePublisher' /\ DeliveredIsReflected' /\ OutageStartTracksState'
      /\ ClaimsOwnTheirRows'
  BY <1>1, <1>2 DEF Tick, OneLivePublisher, DeliveredIsReflected,
                    OutageStartTracksState, ClaimsOwnTheirRows
<1>5. HolderKeepsRowWithinLease'
  <2>1. \A x \in Held : claims[x].until \in Nat
    BY DEF Held, Claim
  <2>2. QED
    BY <1>1, <1>2, <2>1 DEF Tick, TypeOK, HolderKeepsRowWithinLease
<1>6. QED
  BY <1>3, <1>4, <1>5 DEF RegistryInv

-----------------------------------------------------------------------------
\* Every step of the registry keeps the inductive invariant.
LEMMA NextRegistryInv == RegistryInv /\ [Next]_registryVars => RegistryInv'
<1> SUFFICES ASSUME RegistryInv, [Next]_registryVars PROVE RegistryInv'
  OBVIOUS
<1>1. ASSUME NEW k \in Key, NEW t \in Tokens, ReserveGranted(k, t) PROVE RegistryInv'
  BY <1>1, ReserveGrantedInv
<1>2. ASSUME NEW k \in Key, ReserveRefused(k) PROVE RegistryInv'
  BY <1>2, ReserveRefusedInv
<1>3. ASSUME NEW t \in Tokens, CompleteDelivered(t) PROVE RegistryInv'
  BY <1>3, CompleteDeliveredInv
<1>4. ASSUME NEW t \in Tokens, CompleteFailed(t) PROVE RegistryInv'
  BY <1>4, CompleteFailedInv
<1>5. ASSUME NEW t \in Tokens, CompleteUnknown(t) PROVE RegistryInv'
  BY <1>5, ClaimEndsInv DEF CompleteUnknown
<1>6. ASSUME NEW S \in SUBSET Held, Abandon(S) PROVE RegistryInv'
  BY <1>6, ClaimsEndInv DEF Abandon
<1>7. CASE Prune
  BY <1>7, PruneInv
<1>8. CASE Tick
  BY <1>8, TickInv
<1>9. CASE UNCHANGED registryVars
  BY <1>9 DEF registryVars, RegistryInv, TypeOK, OneLivePublisher,
              HolderKeepsRowWithinLease, DeliveredIsReflected,
              OutageStartTracksState, ClaimsOwnTheirRows, Rows, Held
<1>10. QED
  BY <1>1, <1>2, <1>3, <1>4, <1>5, <1>6, <1>7, <1>8, <1>9 DEF Next

\* The registry's invariant holds in every reachable state (the whole of
\* durable_registry.py): the theorems below are its readable parts.
THEOREM RegistryCorrect == Spec => []RegistryInv
<1>1. QED
  BY InitRegistryInv, NextRegistryInv, PTL DEF Spec

\* Tables and claims stay well formed.
THEOREM RegistryTypeCorrect == Spec => []TypeOK
<1>1. RegistryInv => TypeOK
  BY DEF RegistryInv
<1>2. QED
  BY <1>1, RegistryCorrect, PTL

\* No two callers are ever entitled to publish the same key at once.
THEOREM SinglePublisher == Spec => []OneLivePublisher
<1>1. RegistryInv => OneLivePublisher
  BY DEF RegistryInv
<1>2. QED
  BY <1>1, RegistryCorrect, PTL

\* complete() within the lease always finds its reservation.
THEOREM LeaseProtectsHolder == Spec => []HolderKeepsRowWithinLease
<1>1. RegistryInv => HolderKeepsRowWithinLease
  BY DEF RegistryInv
<1>2. QED
  BY <1>1, RegistryCorrect, PTL

\* What was delivered is never ahead of the deduplication state.
THEOREM DeliveriesAreReflected == Spec => []DeliveredIsReflected
<1>1. RegistryInv => DeliveredIsReflected
  BY DEF RegistryInv
<1>2. QED
  BY <1>1, RegistryCorrect, PTL

\* The outage start on record belongs to the state on record.
THEOREM OutageStartSound == Spec => []OutageStartTracksState
<1>1. RegistryInv => OutageStartTracksState
  BY DEF RegistryInv
<1>2. QED
  BY <1>1, RegistryCorrect, PTL

-----------------------------------------------------------------------------
\* A monitor that has a committed transition has one with a time.
LEMMA CommittedIsTimed ==
  ASSUME TypeOK, NEW m \in Monitors, monitorState[m] # NoState
  PROVE  monitorState[m].observed \in Nat
<1>1. monitorState[m] \in MonitorState
  BY DEF TypeOK
<1>2. monitorState[m].observed \in Times
  BY <1>1 DEF MonitorState
<1>3. Times \subseteq Nat
  BY RegistryAssumption
<1>4. QED
  BY <1>2, <1>3

\* What complete(delivered=True) does to one monitor, from the invariant.
LEMMA CommitStep ==
  ASSUME RegistryInv, NEW t \in Tokens, CompleteDelivered(t)
  PROVE  WatermarkKept /\ OutageStartKept
<1> USE RegistryAssumption
<1> DEFINE k == claims[t].key
           s == monitorState[k.monitor]
<1>1. TypeOK /\ OutageStartTracksState
  BY DEF RegistryInv
<1>2. k \in Key /\ k.monitor \in Monitors /\ s \in MonitorState \cup {NoState}
  BY <1>1 DEF CompleteDelivered, Held, TypeOK, Claim, Key
<1>3. /\ Committed(s, k) \in MonitorState
      /\ s # NoState => s.observed <= Committed(s, k).observed
      /\ s # NoState /\ s.kind # Recovered /\ Committed(s, k).kind # Recovered
           => Committed(s, k).outageStart = s.outageStart
  BY <1>1, <1>2, CommittedFacts DEF OutageStartTracksState
<1>4. monitorState' = [monitorState EXCEPT ![k.monitor] = Committed(s, k)]
  BY DEF CompleteDelivered
<1> HIDE DEF k
<1>5. /\ monitorState'[k.monitor] = Committed(s, k)
      /\ \A m \in Monitors : m # k.monitor => monitorState'[m] = monitorState[m]
  BY <1>1, <1>2, <1>4 DEF TypeOK
<1>6. \A m \in Monitors : monitorState[m] # NoState =>
        monitorState[m].observed <= monitorState[m].observed
  BY <1>1, CommittedIsTimed
<1>7. WatermarkKept
  BY <1>3, <1>5, <1>6 DEF WatermarkKept
<1>8. OutageStartKept
  BY <1>3, <1>5 DEF OutageStartKept
<1>9. QED
  BY <1>7, <1>8

\* No step moves a monitor back in time or restarts a lasting outage.
LEMMA NextKeepsHistory ==
  RegistryInv /\ [Next]_registryVars => WatermarkKept /\ OutageStartKept
<1> SUFFICES ASSUME RegistryInv, [Next]_registryVars
             PROVE  WatermarkKept /\ OutageStartKept
  OBVIOUS
<1>1. CASE monitorState' = monitorState
  <2>1. \A m \in Monitors : monitorState[m] # NoState =>
          monitorState[m].observed <= monitorState[m].observed
    BY CommittedIsTimed DEF RegistryInv
  <2>2. QED
    BY <1>1, <2>1 DEF WatermarkKept, OutageStartKept
<1>2. ASSUME NEW t \in Tokens, CompleteDelivered(t)
      PROVE  WatermarkKept /\ OutageStartKept
  BY <1>2, CommitStep
<1>3. QED
  BY <1>1, <1>2 DEF Next, registryVars, ReserveGranted, ReserveRefused,
     CompleteFailed, CompleteUnknown, Abandon, Prune, Tick

\* The committed transition of a monitor only moves forward in observed time.
THEOREM WatermarkMonotone == Spec => WatermarkNeverMovesBack
<1>1. RegistryInv /\ [Next]_registryVars => [WatermarkKept]_registryVars
  BY NextKeepsHistory
<1>2. QED
  BY <1>1, RegistryCorrect, PTL DEF Spec, WatermarkNeverMovesBack

\* The start of an outage is fixed until the recovery is reported.
THEOREM OutageStartFixed == Spec => OutageStartSticky
<1>1. RegistryInv /\ [Next]_registryVars => [OutageStartKept]_registryVars
  BY NextKeepsHistory
<1>2. QED
  BY <1>1, RegistryCorrect, PTL DEF Spec, OutageStartSticky

\* A delivered key is granted again only across a tie in observed time.
THEOREM RepeatsAreTies == Spec => RepeatOnlyAcrossTie
<1>1. RegistryInv /\ [Next]_registryVars => [GrantedRepeatIsTie]_registryVars
  <2> SUFFICES ASSUME RegistryInv, Next, NEW t \in Held' \ Held, NEW u \in Rows,
                      reservations[u].delivered, reservations[u].key = claims'[t].key
               PROVE  LET k == claims'[t].key
                          s == monitorState[k.monitor]
                      IN  s.observed = k.observed /\ s.kind # k.kind
    BY DEF GrantedRepeatIsTie
  <2>1. TypeOK /\ DeliveredIsReflected
    BY DEF RegistryInv
  <2>2. CASE \E k \in Key, x \in Tokens : ReserveGranted(k, x)
    <3>1. PICK k \in Key, x \in Tokens : ReserveGranted(k, x)
      BY <2>2
    <3>2. claims' = [claims EXCEPT ![x] = [key |-> k, until |-> now + LeaseTicks]]
          /\ Decision(k) = "publish"
      BY <3>1 DEF ReserveGranted
    <3>3. t = x /\ claims'[t].key = k
      BY <2>1, <3>2 DEF TypeOK, Held
    <3>4. /\ monitorState[k.monitor] # NoState
          /\ k.observed <= monitorState[k.monitor].observed
      BY <2>1, <3>3 DEF DeliveredIsReflected
    <3>5. /\ k.observed \in Nat /\ monitorState[k.monitor] \in MonitorState
          /\ monitorState[k.monitor].observed \in Nat
      BY <2>1, <3>4, RegistryAssumption DEF TypeOK, Key, MonitorState
    <3>6. ~(k.observed < monitorState[k.monitor].observed)
          /\ monitorState[k.monitor].kind # k.kind
      BY <3>2, <3>4 DEF Decision
    <3>7. QED
      BY <3>3, <3>4, <3>5, <3>6
  <2>3. CASE Held' \subseteq Held
    BY <2>3
  <2>4. QED
    <3>1. ASSUME NEW x \in Tokens, claims' = [claims EXCEPT ![x] = Finished]
          PROVE  Held' \subseteq Held
      BY <2>1, <3>1, RegistryAssumption DEF Held, TypeOK
    <3>2. ASSUME claims' = claims PROVE Held' \subseteq Held
      BY <3>2 DEF Held
    <3>3. ASSUME NEW S \in SUBSET Held, Abandon(S) PROVE Held' \subseteq Held
      BY <3>3, RegistryAssumption DEF Held, Abandon
    <3>4. QED
      BY <2>2, <2>3, <3>1, <3>2, <3>3 DEF Next, ReserveRefused, CompleteDelivered,
         CompleteFailed, CompleteUnknown, Prune, Tick
<1>2. QED
  BY <1>1, RegistryCorrect, PTL DEF Spec, RepeatOnlyAcrossTie

-----------------------------------------------------------------------------
(* The registry implements PublicationLeases.                              *)

LEMMA ChooseOnly == \A t : (CHOOSE x \in {t} : TRUE) = t
  OBVIOUS

\* The key of a lease is determined by its row: the undelivered row of a key is
\* the only one, so it is what LeaseOf reports.
LEMMA LeaseIsRow ==
  ASSUME OneLivePublisher, NEW k \in Key, NEW t \in Undelivered(k)
  PROVE  /\ LeaseOf(k) = [token |-> t, until |-> reservations[t].until]
         /\ Undelivered(k) = {t}
<1>1. Undelivered(k) = {t}
  BY DEF Undelivered, OneLivePublisher, Rows
<1>2. (CHOOSE x \in Undelivered(k) : TRUE) = t
  BY <1>1, ChooseOnly
<1>3. QED
  BY <1>1, <1>2 DEF LeaseOf

\* Leases do not change when the undelivered rows do not.
LEMMA SameRowsSameLeases ==
  ASSUME reservations' = reservations
  PROVE  \A k \in Key : LeaseOf(k)' = LeaseOf(k)
BY DEF LeaseOf, Undelivered, Rows

\* What a step leaves alone, in the terms of PublicationLeases.
LEMMA QuietForLeases ==
  ASSUME \A k \in Key : LeaseOf(k)' = LeaseOf(k),
         monitorState' = monitorState,
         {t \in Tokens : claims'[t] # Unissued} = {t \in Tokens : claims[t] # Unissued},
         now' = now
  PROVE  UNCHANGED Leases!leaseVars
<1>1. [k \in Key |-> LeaseOf(k)]' = [k \in Key |-> LeaseOf(k)]
  OBVIOUS
<1>2. [m \in Monitors |-> CommittedOf(m)]' = [m \in Monitors |-> CommittedOf(m)]
  BY DEF CommittedOf
<1>3. QED
  BY <1>1, <1>2 DEF Leases!leaseVars

LEMMA InitLeases == Init => Leases!Init
<1> SUFFICES ASSUME Init PROVE Leases!Init
  OBVIOUS
<1> USE DEF Init
<1>1. \A k \in Key : LeaseOf(k) = NoRow
  BY DEF LeaseOf, Undelivered, Rows
<1>2. \A m \in Monitors : CommittedOf(m) = NoState
  BY DEF CommittedOf
<1>3. QED
  BY <1>1, <1>2 DEF Leases!Init

\* reserve() that hands out a reservation is a Grant.
LEMMA GrantStep ==
  ASSUME RegistryInv, RegistryInv', NEW k \in Key, NEW t \in Tokens, ReserveGranted(k, t)
  PROVE  Leases!Grant(k, t)
<1> USE RegistryAssumption DEF ReserveGranted
<1>1. TypeOK /\ OneLivePublisher /\ ClaimsOwnTheirRows /\ OneLivePublisher' /\ TypeOK'
  BY DEF RegistryInv
<1>2. reservations[t] = NoRow
  BY <1>1 DEF ClaimsOwnTheirRows, Rows
<1>3. k.monitor \in Monitors /\ k.kind \in Kinds /\ k.observed \in Nat
  BY DEF Key
<1>4. Leases!IsTransition(k)
  <2>1. CASE monitorState[k.monitor] = NoState
    BY <2>1, <1>3 DEF Leases!IsTransition, CommittedOf
  <2>2. CASE monitorState[k.monitor] # NoState
    <3>1. monitorState[k.monitor].observed \in Nat
      BY <1>1, <1>3, <2>2, CommittedIsTimed
    <3>2. ~(k.observed < monitorState[k.monitor].observed)
          /\ monitorState[k.monitor].kind # k.kind
      BY <2>2 DEF Decision
    <3>3. QED
      BY <1>3, <2>2, <3>1, <3>2 DEF Leases!IsTransition, CommittedOf
  <2>3. QED
    BY <2>1, <2>2
<1>5. LeaseOf(k) # NoRow => LeaseOf(k).until <= now
  <2>1. ASSUME NEW u \in Undelivered(k) PROVE reservations[u].until <= now
    <3>1. reservations[u].until \in Nat /\ now \in Nat
      BY <1>1, <2>1 DEF TypeOK, Undelivered, Rows, Reservation
    <3>2. ~(reservations[u].until > now)
      BY <2>1 DEF Active
    <3>3. QED
      BY <3>1, <3>2
  <2>2. ASSUME NEW u \in Undelivered(k) PROVE LeaseOf(k).until <= now
    BY <1>1, <2>1, <2>2, LeaseIsRow
  <2>3. QED
    BY <2>2 DEF LeaseOf
<1>6. {x \in Tokens : claims'[x] # Unissued}
        = {x \in Tokens : claims[x] # Unissued} \cup {t}
  <2>1. claims'[t] \in Claim
    BY <1>1 DEF TypeOK, Claim
  <2>2. QED
    BY <1>1, <2>1 DEF TypeOK
<1>7. LeaseOf(k)' = [token |-> t, until |-> now + LeaseTicks]
  <2>1. reservations'[t] = [key |-> k, until |-> now + LeaseTicks,
                            created |-> now, delivered |-> FALSE]
    OBVIOUS
  <2>2. reservations'[t] # NoRow
    <3>1. now \in Nat /\ LeaseTicks \in Nat
      BY <1>1 DEF TypeOK
    <3>2. [key |-> k, until |-> now + LeaseTicks, created |-> now, delivered |-> FALSE]
            \in Reservation
      BY <3>1 DEF Reservation
    <3>3. QED
      BY <2>1, <3>2
  <2>3. t \in Undelivered(k)'
    BY <2>1, <2>2 DEF Undelivered, Rows
  <2>4. Undelivered(k)' = {t}
    BY <1>1, <2>3 DEF Undelivered, OneLivePublisher, Rows
  <2>5. (CHOOSE x \in Undelivered(k)' : TRUE) = t
    BY <2>4, ChooseOnly
  <2>6. QED
    BY <2>1, <2>4, <2>5 DEF LeaseOf
<1>8. \A j \in Key : j # k => LeaseOf(j)' = LeaseOf(j)
  <2> SUFFICES ASSUME NEW j \in Key, j # k PROVE LeaseOf(j)' = LeaseOf(j)
    OBVIOUS
  <2>1. \A x \in Undelivered(j) \cup Undelivered(j)' : reservations'[x] = reservations[x]
    BY <1>2 DEF Undelivered, Rows, Expired
  <2>2. Undelivered(j)' = Undelivered(j)
    BY <2>1 DEF Undelivered, Rows
  <2>3. CASE Undelivered(j) = {}
    BY <2>2, <2>3 DEF LeaseOf
  <2>4. ASSUME NEW x \in Undelivered(j) PROVE LeaseOf(j)' = LeaseOf(j)
    <3>1. Undelivered(j) = {x} /\ LeaseOf(j) = [token |-> x, until |-> reservations[x].until]
      BY <1>1, <2>4, LeaseIsRow
    <3>2. (CHOOSE y \in Undelivered(j)' : TRUE) = x
      BY <2>2, <3>1, ChooseOnly
    <3>3. QED
      BY <2>1, <2>2, <3>1, <3>2 DEF LeaseOf
  <2>5. QED
    BY <2>3, <2>4
<1>9. [j \in Key |-> LeaseOf(j)]'
        = [[j \in Key |-> LeaseOf(j)] EXCEPT ![k] = [token |-> t, until |-> now + LeaseTicks]]
  BY <1>7, <1>8
<1>10. [m \in Monitors |-> CommittedOf(m)]' = [m \in Monitors |-> CommittedOf(m)]
  BY DEF CommittedOf
<1>11. QED
  BY <1>4, <1>5, <1>6, <1>9, <1>10 DEF Leases!Grant

\* complete(delivered=True) is the holder's Publish.
LEMMA PublishStep ==
  ASSUME RegistryInv, RegistryInv', NEW t \in Tokens, CompleteDelivered(t),
         NEW k \in Key, claims[t].key = k
  PROVE  Leases!Publish(k, t)
<1> USE RegistryAssumption DEF CompleteDelivered
<1>1. TypeOK /\ OneLivePublisher /\ ClaimsOwnTheirRows /\ OneLivePublisher' /\ TypeOK'
  BY DEF RegistryInv
<1>2. claims[t] \in Claim /\ k.monitor \in Monitors /\ k.kind \in Kinds
      /\ k.observed \in Times /\ k.observed \in Nat
  BY DEF Held, Key
<1>3. reservations[t].key = k /\ ~reservations[t].delivered /\ reservations[t] \in Reservation
  BY <1>1 DEF ClaimsOwnTheirRows, TypeOK, Rows
<1>4. Undelivered(k) = {t} /\ LeaseOf(k) = [token |-> t, until |-> reservations[t].until]
  <2>1. t \in Undelivered(k)
    BY <1>3 DEF Undelivered
  <2>2. QED
    BY <1>1, <1>2, <2>1, LeaseIsRow
<1>5. LeaseOf(k) # NoRow /\ LeaseOf(k).token = t
  <2>1. [token |-> t, until |-> reservations[t].until] \in [token : Tokens, until : Nat]
    BY <1>3 DEF Reservation
  <2>2. QED
    BY <1>4, <2>1
<1>6. reservations' = [reservations EXCEPT ![t].delivered = TRUE]
  OBVIOUS
<1>7. /\ reservations'[t].delivered /\ reservations'[t].key = k
      /\ \A x \in Tokens : x # t => reservations'[x] = reservations[x]
  BY <1>1, <1>3, <1>6 DEF TypeOK, Reservation
<1>8. LeaseOf(k)' = NoRow
  <2>1. Undelivered(k)' = {}
    BY <1>4, <1>7 DEF Undelivered, Rows
  <2>2. QED
    BY <2>1 DEF LeaseOf
<1>9. \A j \in Key : j # k => LeaseOf(j)' = LeaseOf(j)
  <2> SUFFICES ASSUME NEW j \in Key, j # k PROVE LeaseOf(j)' = LeaseOf(j)
    OBVIOUS
  <2>1. t \notin Undelivered(j) /\ t \notin Undelivered(j)'
    BY <1>3, <1>7 DEF Undelivered
  <2>2. Undelivered(j)' = Undelivered(j)
    BY <1>7, <2>1 DEF Undelivered, Rows
  <2>3. CASE Undelivered(j) = {}
    BY <2>2, <2>3 DEF LeaseOf
  <2>4. ASSUME NEW x \in Undelivered(j) PROVE LeaseOf(j)' = LeaseOf(j)
    <3>1. Undelivered(j) = {x} /\ LeaseOf(j) = [token |-> x, until |-> reservations[x].until]
      BY <1>1, <2>4, LeaseIsRow
    <3>2. (CHOOSE y \in Undelivered(j)' : TRUE) = x
      BY <2>2, <3>1, ChooseOnly
    <3>3. x # t /\ x \in Tokens
      BY <2>1, <2>4 DEF Undelivered, Rows
    <3>4. QED
      BY <1>7, <2>2, <3>1, <3>2, <3>3 DEF LeaseOf
  <2>5. QED
    BY <2>3, <2>4
<1>10. [j \in Key |-> LeaseOf(j)]' = [[j \in Key |-> LeaseOf(j)] EXCEPT ![k] = NoRow]
  BY <1>8, <1>9
<1>11. {x \in Tokens : claims'[x] # Unissued} = {x \in Tokens : claims[x] # Unissued}
  BY <1>1, <1>2 DEF TypeOK
<1>12. [m \in Monitors |-> CommittedOf(m)]'
         = IF CommittedOf(k.monitor) # NoState /\ k.observed < CommittedOf(k.monitor).observed
           THEN [m \in Monitors |-> CommittedOf(m)]
           ELSE [[m \in Monitors |-> CommittedOf(m)] EXCEPT
                   ![k.monitor] = [kind |-> k.kind, observed |-> k.observed]]
  <2> DEFINE s == monitorState[k.monitor]
  <2>1. monitorState' = [monitorState EXCEPT ![k.monitor] = Committed(s, k)]
    OBVIOUS
  <2>2. /\ monitorState'[k.monitor] = Committed(s, k)
        /\ \A m \in Monitors : m # k.monitor => monitorState'[m] = monitorState[m]
    BY <1>1, <1>2, <2>1 DEF TypeOK
  <2>3. \A m \in Monitors : m # k.monitor => CommittedOf(m)' = CommittedOf(m)
    BY <2>2 DEF CommittedOf
  <2>4. CASE s # NoState /\ k.observed < s.observed
    <3>1. CommittedOf(k.monitor) # NoState /\ CommittedOf(k.monitor).observed = s.observed
      <4>1. CommittedOf(k.monitor) = [kind |-> s.kind, observed |-> s.observed]
        BY <2>4 DEF CommittedOf
      <4>2. s \in MonitorState
        BY <1>1, <1>2, <2>4 DEF TypeOK
      <4>3. [kind |-> s.kind, observed |-> s.observed] \in [kind : Kinds, observed : Times]
        BY <4>2 DEF MonitorState
      <4>4. QED
        BY <4>1, <4>3
    <3>2. Committed(s, k) = s
      BY <2>4 DEF Committed
    <3>3. CommittedOf(k.monitor)' = CommittedOf(k.monitor)
      BY <2>2, <3>2 DEF CommittedOf
    <3>4. QED
      BY <2>3, <2>4, <3>1, <3>3
  <2>5. CASE ~(s # NoState /\ k.observed < s.observed)
    <3>1. ~(CommittedOf(k.monitor) # NoState /\ k.observed < CommittedOf(k.monitor).observed)
      BY <2>5 DEF CommittedOf
    <3>2. Committed(s, k) = [kind |-> k.kind, observed |-> k.observed,
                             outageStart |-> NextOutageStart(s, k)]
      BY <2>5 DEF Committed
    <3>3. Committed(s, k) # NoState
      <4>1. monitorState' \in [Monitors -> MonitorState \cup {NoState}]
        BY <1>1 DEF TypeOK
      <4>2. /\ s \in MonitorState \cup {NoState}
            /\ s # NoState => /\ s.outageStart = NoOutage <=> s.kind = Recovered
                              /\ s.kind # Recovered => s.outageStart <= s.observed
        BY <1>1, <1>2 DEF TypeOK, RegistryInv, OutageStartTracksState
      <4>3. Committed(s, k) \in MonitorState
        BY <1>2, <4>2, CommittedFacts
      <4>4. QED
        BY <4>3
    <3>4. CommittedOf(k.monitor)' = [kind |-> k.kind, observed |-> k.observed]
      BY <2>2, <3>2, <3>3 DEF CommittedOf
    <3>5. QED
      BY <1>2, <2>3, <3>1, <3>4
  <2>6. QED
    BY <2>4, <2>5
<1>13. QED
  BY <1>2, <1>5, <1>10, <1>11, <1>12 DEF Leases!Publish, Leases!IsLate

\* Every other step leaves the leases and what is committed as they were.
LEMMA OtherSteps ==
  ASSUME RegistryInv,
         \/ \E k \in Key : ReserveRefused(k)
         \/ \E t \in Tokens : CompleteFailed(t) \/ CompleteUnknown(t)
         \/ \E S \in SUBSET Held : Abandon(S)
         \/ Prune
  PROVE  UNCHANGED Leases!leaseVars
<1> USE RegistryAssumption
<1>1. TypeOK /\ OneLivePublisher /\ ClaimsOwnTheirRows
  BY DEF RegistryInv
<1>2. monitorState' = monitorState /\ now' = now
  BY DEF ReserveRefused, CompleteFailed, CompleteUnknown, Abandon, Prune
<1>3. {t \in Tokens : claims'[t] # Unissued} = {t \in Tokens : claims[t] # Unissued}
  <2>1. \A t \in Held : claims[t] # Unissued
    BY DEF Held
  <2>2. ASSUME NEW t \in Held, claims' = [claims EXCEPT ![t] = Finished]
        PROVE  \A x \in Tokens : claims'[x] # Unissued <=> claims[x] # Unissued
    BY <1>1, <2>1, <2>2 DEF TypeOK
  <2>3. ASSUME NEW S \in SUBSET Held, Abandon(S)
        PROVE  \A x \in Tokens : claims'[x] # Unissued <=> claims[x] # Unissued
    BY <2>1, <2>3 DEF Abandon
  <2>4. CASE claims' = claims
    BY <2>4
  <2>5. QED
    BY <2>2, <2>3, <2>4 DEF ReserveRefused, CompleteFailed, CompleteUnknown, Prune
<1>4. \A k \in Key : LeaseOf(k)' = LeaseOf(k)
  <2>1. ASSUME NEW k \in Key, ReserveRefused(k) PROVE reservations' = reservations
    <3>1. Decision(k) = "publish" => Expired(k) = {}
      <4> SUFFICES ASSUME Active(k) # {}, NEW x \in Expired(k) PROVE FALSE
        BY <2>1 DEF ReserveRefused
      <4>1. PICK y \in Active(k) : TRUE
        OBVIOUS
      <4>2. x = y
        BY <1>1 DEF Expired, Active, Undelivered, OneLivePublisher
      <4>3. reservations[x].until \in Nat /\ now \in Nat
        BY <1>1 DEF TypeOK, Expired, Undelivered, Rows, Reservation
      <4>4. QED
        BY <4>2, <4>3 DEF Expired, Active
    <3>2. QED
      BY <1>1, <2>1, <3>1 DEF ReserveRefused, TypeOK
  <2>2. ASSUME NEW t \in Tokens, CompleteFailed(t) PROVE reservations' = reservations
    <3>1. ~reservations[t].delivered /\ reservations[t] \in Reservation
      BY <1>1, <2>2 DEF CompleteFailed, ClaimsOwnTheirRows, TypeOK, Rows
    <3>2. reservations[t].delivered = FALSE
      BY <3>1, Zenon DEF Reservation
    <3>3. QED
      BY <1>1, <2>2, <3>1, <3>2 DEF CompleteFailed, TypeOK, Reservation
  <2>3. ASSUME Prune PROVE \A k \in Key : LeaseOf(k)' = LeaseOf(k)
    <3> SUFFICES ASSUME NEW k \in Key PROVE LeaseOf(k)' = LeaseOf(k)
      OBVIOUS
    <3>1. \A x \in Tokens :
            /\ x \in Undelivered(k) => reservations'[x] = reservations[x]
            /\ reservations'[x] # NoRow => reservations'[x] = reservations[x]
      BY <2>3 DEF Prune, Undelivered
    <3>2. Undelivered(k)' = Undelivered(k)
      BY <3>1 DEF Undelivered, Rows
    <3>3. CASE Undelivered(k) = {}
      BY <3>2, <3>3 DEF LeaseOf
    <3>4. ASSUME NEW x \in Undelivered(k) PROVE LeaseOf(k)' = LeaseOf(k)
      <4>1. Undelivered(k) = {x} /\ LeaseOf(k) = [token |-> x, until |-> reservations[x].until]
        BY <1>1, <3>4, LeaseIsRow
      <4>2. (CHOOSE y \in Undelivered(k)' : TRUE) = x
        BY <3>2, <4>1, ChooseOnly
      <4>3. x \in Tokens
        BY <3>4 DEF Undelivered, Rows
      <4>4. QED
        BY <3>1, <3>2, <3>4, <4>1, <4>2, <4>3 DEF LeaseOf
    <3>5. QED
      BY <3>3, <3>4
  <2>4. CASE reservations' = reservations
    BY <2>4, SameRowsSameLeases
  <2>5. QED
    BY <2>1, <2>2, <2>3, <2>4 DEF CompleteUnknown, Abandon
<1>5. QED
  BY <1>2, <1>3, <1>4, QuietForLeases

\* A registry step is a step of PublicationLeases or leaves its state alone.
LEMMA NextLeases ==
  RegistryInv /\ RegistryInv' /\ [Next]_registryVars => [Leases!Next]_(Leases!leaseVars)
<1> SUFFICES ASSUME RegistryInv, RegistryInv', [Next]_registryVars
             PROVE  [Leases!Next]_(Leases!leaseVars)
  OBVIOUS
<1>1. CASE UNCHANGED registryVars
  BY <1>1, SameRowsSameLeases, QuietForLeases DEF registryVars
<1>2. ASSUME NEW k \in Key, NEW t \in Tokens, ReserveGranted(k, t) PROVE Leases!Next
  BY <1>2, GrantStep DEF Leases!Next
<1>3. ASSUME NEW t \in Tokens, CompleteDelivered(t) PROVE Leases!Next
  <2>1. PICK k \in Key : claims[t].key = k
    BY <1>3 DEF CompleteDelivered, Held, Claim
  <2>2. QED
    BY <1>3, <2>1, PublishStep DEF Leases!Next
<1>4. ASSUME Tick PROVE Leases!Tick
  <2>1. reservations' = reservations /\ monitorState' = monitorState /\ claims' = claims
    BY <1>4 DEF Tick
  <2>2. [k \in Key |-> LeaseOf(k)]' = [k \in Key |-> LeaseOf(k)]
    BY <2>1, SameRowsSameLeases
  <2>3. [m \in Monitors |-> CommittedOf(m)]' = [m \in Monitors |-> CommittedOf(m)]
    BY <2>1 DEF CommittedOf
  <2>4. QED
    BY <1>4, <2>1, <2>2, <2>3 DEF Tick, Leases!Tick
<1>5. QED
  BY <1>1, <1>2, <1>3, <1>4, OtherSteps DEF Next, Leases!Next

\* Callers that publish have one lease per transition at a time, keep it until
\* it runs out, and only they commit (reserve, complete and prune).
THEOREM RegistryImplementsLeases == Spec => ImplementsLeases
<1>1. QED
  BY InitLeases, NextLeases, RegistryCorrect, PTL DEF Spec, ImplementsLeases, Leases!Spec

-----------------------------------------------------------------------------
(* The engine.                                                             *)

\* The monitor's lock: of two handlers of one monitor one is behind the other,
\* and who is past the lock has nobody before it.
LockInv ==
  /\ \A t \in Tasks : task[t].pc \notin {"idle", "waiting"} => ahead[t] = {}
  /\ \A t, u \in Busy :
       t # u /\ task[t].event.monitor = task[u].event.monitor
         => t \in ahead[u] \/ u \in ahead[t]

\* A handler that posts a report holds the row of its own event's key, which the
\* committed state still calls a transition.
PublishesItsOwn(t) ==
  LET x == task[t].token
      e == task[t].event
      k == claims[x].key
  IN  /\ x \in Held /\ x \in Rows
      /\ k.monitor = e.monitor /\ k.observed = e.observed
      /\ k.kind = Recovered <=> e.up
      /\ Decision(k) = "publish"

\* Every handler that posts does so, and nobody else holds a claim.
FlightInv ==
  /\ \A t \in InFlight : PublishesItsOwn(t)
  /\ \A x \in Held : \E t \in InFlight : task[t].token = x

\* An undelivered row is in somebody's hands or belongs to a failed publication.
FailuresAreKnown ==
  \A x \in Rows : ~reservations[x].delivered =>
    x \in Held \/ reservations[x].key \in failed

\* Discord accepted a report of this monitor, kind and time.
Reported(m, kind, observed) ==
  \E r \in accepted : /\ r[2].monitor = m
                      /\ r[2].kind = kind
                      /\ r[2].observed = observed

\* A report of another kind with the key's monitor and time was accepted.
Excused(k) ==
  \E r \in accepted : /\ r[2].monitor = k.monitor
                      /\ r[2].observed = k.observed
                      /\ r[2].kind # k.kind

\* What was accepted belongs to the row of its token, once per token, and every
\* committed transition was accepted.
AcceptedInv ==
  /\ \A p \in accepted : /\ claims[p[1]] # Unissued
                         /\ p[1] \in Rows => reservations[p[1]].key = p[2]
  /\ \A t \in Tasks : task[t].pc = "publishing" =>
       \A p \in accepted : p[1] # task[t].token
  /\ \A t \in Tasks : task[t].pc = "accepted" =>
       <<task[t].token, KeyInFlight(t)>> \in accepted
  /\ \A m \in Monitors : monitorState[m] # NoState =>
       Reported(m, monitorState[m].kind, monitorState[m].observed)

\* Two committed reports of one key are excused.
CommittedRepeatsAreExcused ==
  \A p, q \in accepted :
    /\ p[2] = q[2] /\ p # q
    /\ p[1] \in Rows /\ reservations[p[1]].delivered
    /\ q[1] \in Rows /\ reservations[q[1]].delivered
    => Excused(p[2])

\* What the handlers, the tables and the histories say about each other.
PublicationInv ==
  /\ RegistryInv
  /\ FlightInv
  /\ HookSeesItsTransition
  /\ FailuresAreKnown
  /\ NoLossWithoutFailure
  /\ AcceptedInv
  /\ CommittedRepeatsAreExcused

\* With the order at the lock, which says that handlers of a monitor take turns.
EngineInv == EngineTypeOK /\ LockInv /\ PublicationInv

\* A handler past the monitor's lock.
Past(t) == task[t].pc \notin {"idle", "waiting"}

-----------------------------------------------------------------------------
(* The state of one handler.                                               *)

\* Who is idle is in one state; everybody else has an event.
LEMMA TaskShape ==
  ASSUME EngineTypeOK, NEW t \in Tasks
  PROVE  /\ task[t].pc \in {"idle", "waiting", "probing", "publishing", "accepted", "hook"}
         /\ task[t].pc # "idle" => task[t].event \in Event
         /\ task[t].pc = "probing" => /\ task[t].results \in SUBSET Outcomes
                                      /\ task[t].left \in 0 .. MaxAttempts
         /\ task[t].pc \in {"publishing", "accepted", "hook"} => task[t].token \in Tokens
<1>1. task[t] \in TaskState
  BY DEF EngineTypeOK
<1>2. QED
  BY <1>1 DEF TaskState

\* What an event is made of.
LEMMA EventParts ==
  ASSUME NEW e \in Event
  PROVE  e.monitor \in Monitors /\ e.observed \in Times /\ e.up \in BOOLEAN
BY DEF Event

\* The key of a classified event is a key, and a recovery exactly when Kuma said UP.
LEMMA KeyOfTaskFacts ==
  ASSUME EngineTypeOK, NEW t \in Tasks, Classified(t)
  PROVE  LET e == task[t].event
             k == KeyOfTask(t)
         IN  /\ k \in Key
             /\ k.monitor = e.monitor /\ k.observed = e.observed
             /\ k.kind = Recovered <=> e.up
<1> DEFINE e == task[t].event
           c == Classify(e, task[t].results)
<1>1. e.monitor \in Monitors /\ e.observed \in Times /\ e.up \in BOOLEAN
  BY TaskShape, EventParts DEF Classified
<1>2. c \in Kinds /\ (c = Recovered <=> e.up)
  BY <1>1, EngineAssumption DEF Classify
<1>3. KeyOfTask(t) = [monitor |-> e.monitor, kind |-> c, observed |-> e.observed]
  BY DEF KeyOfTask, KeyOf
<1> HIDE DEF c
<1>4. QED
  BY <1>1, <1>2, <1>3 DEF Key

-----------------------------------------------------------------------------
(* The monitor's lock.                                                     *)

\* Of two handlers past the lock no two are of the same monitor.
LEMMA OneHandler ==
  ASSUME EngineTypeOK, LockInv, NEW t \in Tasks, NEW u \in Tasks, t # u, Past(t), Past(u)
  PROVE  task[t].event.monitor # task[u].event.monitor
BY DEF LockInv, Past, Busy

\* Leaving the lock moves the others up and disturbs no order.
LEMMA LeaveKeepsLock ==
  ASSUME EngineTypeOK, LockInv, NEW t \in Tasks, Leave(t)
  PROVE  LockInv'
<1>1. /\ task'[t].pc = "idle"
      /\ \A u \in Tasks : u # t => task'[u] = task[u] /\ ahead'[u] = ahead[u] \ {t}
  BY DEF Leave, EngineTypeOK, Idle
<1>2. QED
  BY <1>1 DEF LockInv, Busy

\* A handler that goes on, with its event, leaves the order alone.
LEMMA GoingOnKeepsLock ==
  ASSUME LockInv, NEW t \in Tasks, t \in Busy, ahead[t] = {}, ahead' = ahead,
         task'[t].pc # "idle", task'[t].event = task[t].event,
         \A u \in Tasks : u # t => task'[u] = task[u]
  PROVE  LockInv'
BY DEF LockInv, Busy

-----------------------------------------------------------------------------
(* Who holds what.                                                         *)

\* Handlers in flight hold different tokens, for keys of different monitors.
LEMMA OwnTokens ==
  ASSUME EngineTypeOK, LockInv, FlightInv, NEW t \in InFlight, NEW u \in InFlight, t # u
  PROVE  /\ task[t].token # task[u].token
         /\ KeyInFlight(t).monitor # KeyInFlight(u).monitor
<1>1. task[t].event.monitor # task[u].event.monitor
  BY OneHandler DEF InFlight, Past
<1>2. /\ KeyInFlight(t).monitor = task[t].event.monitor
      /\ KeyInFlight(u).monitor = task[u].event.monitor
  BY DEF FlightInv, PublishesItsOwn, KeyInFlight
<1>3. QED
  BY <1>1, <1>2 DEF KeyInFlight

\* The key in flight is a key, and the one its row carries.
LEMMA KeyInFlightFacts ==
  ASSUME RegistryInv, FlightInv, NEW t \in InFlight
  PROVE  /\ task[t].token \in Tokens
         /\ KeyInFlight(t) \in Key
         /\ reservations[task[t].token].key = KeyInFlight(t)
         /\ ~reservations[task[t].token].delivered
<1>1. task[t].token \in Held /\ task[t].token \in Rows
  BY DEF FlightInv, PublishesItsOwn
<1>2. claims[task[t].token] \in Claim
  BY <1>1 DEF Held
<1>3. QED
  BY <1>1, <1>2 DEF RegistryInv, ClaimsOwnTheirRows, KeyInFlight, Claim, Held

\* A held row of a handler's own monitor would be held by that very handler.
LEMMA NobodyElsesKey ==
  ASSUME EngineInv, NEW t \in Tasks, Past(t), NEW u \in InFlight, u # t
  PROVE  KeyInFlight(u).monitor # task[t].event.monitor
<1>1. task[t].event.monitor # task[u].event.monitor
  BY OneHandler DEF InFlight, Past, EngineInv
<1>2. QED
  BY <1>1 DEF EngineInv, PublicationInv, FlightInv, PublishesItsOwn, KeyInFlight

\* A report that is accepted and not committed yet never makes an unexcused
\* repeat: its key is a transition, so what is committed with the key's time is
\* of another kind, and was reported.
LEMMA RepeatsExcused ==
  ASSUME EngineTypeOK, RegistryInv, FlightInv, AcceptedInv, CommittedRepeatsAreExcused
  PROVE  RepeatsAreExcused
<1> DEFINE Counts(x) == x[1] \in Held \/ (x[1] \in Rows /\ reservations[x[1]].delivered)
<1>1. Held \subseteq Rows
  BY DEF FlightInv, PublishesItsOwn
<1>2. ASSUME NEW p \in accepted, NEW q \in accepted, p[2] = q[2], p[1] # q[1],
             p[1] \in Held, Counts(q)
      PROVE  Excused(p[2])
  <2> DEFINE x == p[1]
             y == q[1]
             k == p[2]
             s == monitorState[k.monitor]
  <2>1. x \in Rows /\ y \in Rows /\ reservations[x].key = k /\ reservations[y].key = k
    BY <1>1, <1>2 DEF AcceptedInv
  <2>2. ~reservations[x].delivered /\ claims[x].key = k
    BY <1>2, <2>1 DEF RegistryInv, ClaimsOwnTheirRows
  <2>3. reservations[y].delivered
    <3>1. SUFFICES ASSUME ~reservations[y].delivered PROVE x = y
      BY <1>2
    <3>2. QED
      BY <2>1, <2>2, <3>1 DEF RegistryInv, OneLivePublisher
  <2>4. Decision(k) = "publish"
    BY <1>2, <2>2 DEF FlightInv, PublishesItsOwn
  <2>5. k \in Key
    BY <1>2, <2>2 DEF Held, Claim
  <2>6. k.monitor \in Monitors /\ k.observed \in Nat
    BY <2>5, RegistryAssumption DEF Key
  <2>7. s # NoState /\ k.observed <= s.observed
    BY <2>1, <2>3 DEF RegistryInv, DeliveredIsReflected
  <2>8. s.observed \in Nat
    BY <2>6, <2>7, CommittedIsTimed DEF RegistryInv
  <2>9. s.observed = k.observed /\ s.kind # k.kind
    BY <2>4, <2>6, <2>7, <2>8 DEF Decision
  <2>10. Reported(k.monitor, s.kind, s.observed)
    BY <2>6, <2>7 DEF AcceptedInv
  <2>11. QED
    BY <2>9, <2>10 DEF Reported, Excused
<1>3. SUFFICES ASSUME NEW p \in accepted, NEW q \in accepted, p[2] = q[2], p # q,
                      Counts(p), Counts(q)
               PROVE  Excused(p[2])
  BY DEF RepeatsAreExcused, Excused
<1>4. CASE p[1] \in Rows /\ reservations[p[1]].delivered
           /\ q[1] \in Rows /\ reservations[q[1]].delivered
  BY <1>3, <1>4 DEF CommittedRepeatsAreExcused
<1>5. CASE p[1] # q[1] /\ (p[1] \in Held \/ q[1] \in Held)
  BY <1>2, <1>3, <1>5
<1>6. CASE p[1] = q[1]
  BY <1>3, <1>6 DEF EngineTypeOK
<1>7. QED
  BY <1>3, <1>4, <1>5, <1>6

-----------------------------------------------------------------------------
(* The steps, by what they do to the publications.                         *)

\* A step that leaves the tables, the claims, the histories and the handlers in
\* flight alone and starts no hook: an arrival, the lock, a probe, a tick.
LEMMA QuietStep ==
  ASSUME PublicationInv, RegistryInv',
         UNCHANGED <<monitorState, reservations, claims, accepted, missed, failed>>,
         InFlight' = InFlight,
         \A u \in Tasks : task[u].pc \in {"publishing", "accepted"} => task'[u] = task[u],
         \A u \in Tasks : task'[u].pc = "hook" => task'[u] = task[u]
  PROVE  PublicationInv'
<1>1. Held' = Held /\ Rows' = Rows
  BY DEF Held, Rows
<1>2. \A k : Decision(k)' = Decision(k)
  BY DEF Decision
<1>3. \A t \in InFlight : task'[t] = task[t]
  BY DEF InFlight
<1>4. FlightInv'
  BY <1>1, <1>2, <1>3 DEF PublicationInv, FlightInv, PublishesItsOwn
<1>5. HookSeesItsTransition'
  BY DEF PublicationInv, HookSeesItsTransition
<1>6. FailuresAreKnown' /\ NoLossWithoutFailure' /\ CommittedRepeatsAreExcused'
  BY <1>1 DEF PublicationInv, FailuresAreKnown, NoLossWithoutFailure,
              CommittedRepeatsAreExcused, Excused
<1>7. AcceptedInv'
  <2>1. \A t \in Tasks : task'[t].pc \in {"publishing", "accepted"} => task'[t] = task[t]
    BY <1>3 DEF InFlight
  <2>2. QED
    BY <1>1, <2>1 DEF PublicationInv, AcceptedInv, KeyInFlight, Reported
<1>8. QED
  BY <1>4, <1>5, <1>6, <1>7 DEF PublicationInv

\* Some handlers leave, and with them the claims of those in flight, whose keys
\* count as failed: a window, a hook that returns, a failed post, a
\* cancellation, a crash.
LEMMA LeavingStep ==
  ASSUME EngineInv, RegistryInv', NEW F \in SUBSET InFlight,
         UNCHANGED <<monitorState, reservations, accepted, missed>>,
         claims' = [x \in Tokens |-> IF x \in {task[t].token : t \in F}
                                     THEN Finished ELSE claims[x]],
         failed' = failed \cup {KeyInFlight(t) : t \in F},
         \A t \in F : task'[t].pc = "idle",
         \A u \in InFlight \ F : task'[u] = task[u],
         \A u \in Tasks : task'[u] = task[u] \/ task'[u].pc = "idle"
  PROVE  PublicationInv'
<1> USE RegistryAssumption DEF EngineInv, PublicationInv
<1> DEFINE S == {task[t].token : t \in F}
<1>1. Rows' = Rows /\ \A k : Decision(k)' = Decision(k)
  BY DEF Rows, Decision
<1>2. S \subseteq Held
  BY DEF FlightInv, PublishesItsOwn
<1>3. /\ Held' = Held \ S
      /\ \A x \in Tokens : claims'[x] = IF x \in S THEN Finished ELSE claims[x]
  BY DEF Held
<1>4. InFlight' = InFlight \ F
  BY DEF InFlight
<1>5. \A t \in InFlight' : /\ task'[t] = task[t]
                           /\ task[t].token \in Held /\ task[t].token \notin S
                           /\ claims'[task[t].token] = claims[task[t].token]
  BY <1>3, <1>4, OwnTokens DEF FlightInv, PublishesItsOwn, Held
<1>6. FlightInv'
  <2>1. ASSUME NEW t \in InFlight' PROVE PublishesItsOwn(t)'
    <3> DEFINE k == claims[task[t].token].key
    <3>1. /\ t \in InFlight /\ task'[t] = task[t]
          /\ task[t].token \in Held' /\ claims'[task[t].token].key = k
      BY <1>3, <1>4, <1>5, <2>1
    <3>2. PublishesItsOwn(t)
      BY <3>1 DEF FlightInv
    <3>3. QED
      BY <1>1, <3>1, <3>2 DEF PublishesItsOwn
  <2>2. ASSUME NEW x \in Held' PROVE \E t \in InFlight' : task'[t].token = x
    BY <1>3, <1>4, <1>5, <2>2 DEF FlightInv
  <2>3. QED
    BY <2>1, <2>2 DEF FlightInv
<1>7. HookSeesItsTransition'
  BY DEF HookSeesItsTransition
<1>8. FailuresAreKnown'
  <2> SUFFICES ASSUME NEW x \in Rows, ~reservations[x].delivered, x \notin Held'
               PROVE  reservations[x].key \in failed'
    BY <1>1 DEF FailuresAreKnown
  <2>1. CASE x \in S
    BY <2>1, KeyInFlightFacts
  <2>2. CASE x \notin S
    BY <1>3, <2>2 DEF FailuresAreKnown
  <2>3. QED
    BY <2>1, <2>2
<1>9. NoLossWithoutFailure' /\ CommittedRepeatsAreExcused'
  BY <1>1 DEF NoLossWithoutFailure, CommittedRepeatsAreExcused, Excused
<1>10. AcceptedInv'
  <2>1. \A p \in accepted : p[1] \in Tokens /\ claims'[p[1]] # Unissued
    BY <1>3 DEF AcceptedInv, EngineTypeOK
  <2>2. \A t \in Tasks : task'[t].pc \in {"publishing", "accepted"} =>
          task'[t] = task[t] /\ KeyInFlight(t)' = KeyInFlight(t)
    BY <1>5 DEF InFlight, KeyInFlight
  <2>3. QED
    BY <1>1, <2>1, <2>2 DEF AcceptedInv, Reported
<1>11. QED
  BY <1>6, <1>7, <1>8, <1>9, <1>10

\* reserve() grants: the new row is held by the handler that asked, and no row of
\* a handler in flight is among the expired ones it deletes, because that
\* handler is of another monitor.
LEMMA ReserveStep ==
  ASSUME EngineInv, RegistryInv', NEW t \in Tasks, NEW x \in Tokens, Reserve(t, x)
  PROVE  PublicationInv'
<1> USE RegistryAssumption DEF EngineInv, PublicationInv
<1> DEFINE key == KeyOfTask(t)
<1>1. /\ key \in Key /\ key.monitor = task[t].event.monitor
      /\ key.observed = task[t].event.observed
      /\ key.kind = Recovered <=> task[t].event.up
  BY KeyOfTaskFacts DEF Reserve
<1>2. Past(t) /\ t \notin InFlight /\ ReserveGranted(key, x)
  BY DEF Reserve, Classified, Past, InFlight
<1> HIDE DEF key
<1>3. /\ Decision(key) = "publish" /\ claims[x] = Unissued
      /\ claims' = [claims EXCEPT ![x] = [key |-> key, until |-> now + LeaseTicks]]
      /\ reservations' = [y \in Tokens |->
           IF y = x THEN [key |-> key, until |-> now + LeaseTicks,
                          created |-> now, delivered |-> FALSE]
           ELSE IF y \in Expired(key) THEN NoRow ELSE reservations[y]]
      /\ monitorState' = monitorState
  BY <1>2 DEF ReserveGranted
<1>4. /\ task' = [task EXCEPT ![t] = [pc |-> "publishing", event |-> task[t].event,
                                      token |-> x]]
      /\ accepted' = accepted /\ missed' = missed /\ failed' = failed
  BY DEF Reserve
<1>5. /\ task'[t] = [pc |-> "publishing", event |-> task[t].event, token |-> x]
      /\ \A u \in Tasks : u # t => task'[u] = task[u]
      /\ InFlight' = InFlight \cup {t}
  BY <1>4 DEF EngineTypeOK, InFlight
<1>6. /\ x \notin Held /\ x \notin Rows
      /\ claims'[x].key = key /\ claims'[x] \in Claim
      /\ \A y \in Tokens : y # x => claims'[y] = claims[y]
      /\ Held' = Held \cup {x}
  BY <1>1, <1>3 DEF Held, RegistryInv, TypeOK, ClaimsOwnTheirRows, Claim
<1>7. /\ reservations'[x] = [key |-> key, until |-> now + LeaseTicks,
                             created |-> now, delivered |-> FALSE]
      /\ x \in Rows'
      /\ \A y \in Rows' : y # x => y \in Rows /\ reservations'[y] = reservations[y]
  <2>1. reservations'[x] \in Reservation
    BY <1>1, <1>3 DEF Reservation, RegistryInv, TypeOK
  <2>2. QED
    BY <1>3, <2>1 DEF Rows
<1>8. \A k : Decision(k)' = Decision(k)
  BY <1>3 DEF Decision
<1>9. \A u \in InFlight : /\ u # t /\ task[u].token # x
                          /\ task[u].token \in Rows'
                          /\ PublishesItsOwn(u)
  <2> SUFFICES ASSUME NEW u \in InFlight
               PROVE  /\ u # t /\ task[u].token # x
                      /\ task[u].token \in Rows' /\ PublishesItsOwn(u)
    OBVIOUS
  <2>1. u # t /\ PublishesItsOwn(u) /\ task[u].token # x
    BY <1>2, <1>6 DEF FlightInv, PublishesItsOwn
  <2>2. reservations[task[u].token].key.monitor # key.monitor
    BY <1>1, <1>2, <2>1, NobodyElsesKey, KeyInFlightFacts
  <2>3. task[u].token \notin Expired(key)
    BY <2>2 DEF Expired, Undelivered
  <2>4. QED
    BY <1>3, <2>1, <2>3 DEF PublishesItsOwn, Rows
<1>10. PublishesItsOwn(t)'
  BY <1>1, <1>3, <1>5, <1>6, <1>7, <1>8 DEF PublishesItsOwn
<1>11. FlightInv'
  <2>1. ASSUME NEW u \in InFlight PROVE PublishesItsOwn(u)'
    <3>1. /\ u # t /\ task'[u] = task[u] /\ task[u].token \in Held'
          /\ claims'[task[u].token] = claims[task[u].token]
      BY <1>5, <1>6, <1>9 DEF InFlight, PublishesItsOwn, Held
    <3>2. QED
      BY <1>8, <1>9, <3>1 DEF PublishesItsOwn
  <2>2. \A y \in Held' : \E u \in InFlight' : task'[u].token = y
    BY <1>5, <1>6, <1>9 DEF FlightInv, InFlight
  <2>3. QED
    BY <1>5, <1>10, <2>1, <2>2 DEF FlightInv
<1>12. HookSeesItsTransition'
  BY <1>3, <1>5 DEF HookSeesItsTransition
<1>13. FailuresAreKnown' /\ NoLossWithoutFailure'
  BY <1>4, <1>6, <1>7 DEF FailuresAreKnown, NoLossWithoutFailure
<1>14. \A p \in accepted : p[1] \in Tokens /\ p[1] # x
  BY <1>3 DEF AcceptedInv, EngineTypeOK
<1>15. AcceptedInv'
  <2>1. \A p \in accepted : /\ claims'[p[1]] # Unissued
                            /\ p[1] \in Rows' => reservations'[p[1]].key = p[2]
    BY <1>6, <1>7, <1>14 DEF AcceptedInv
  <2>2. \A u \in Tasks : task'[u].pc = "publishing" =>
          \A p \in accepted : p[1] # task'[u].token
    BY <1>5, <1>14 DEF AcceptedInv
  <2>3. \A u \in Tasks : task'[u].pc = "accepted" =>
          /\ task'[u] = task[u] /\ task[u].pc = "accepted"
          /\ KeyInFlight(u)' = KeyInFlight(u)
    BY <1>5, <1>6, <1>9, TaskShape DEF InFlight, KeyInFlight
  <2>4. QED
    BY <1>3, <1>4, <2>1, <2>2, <2>3 DEF AcceptedInv, Reported
<1>16. CommittedRepeatsAreExcused'
  BY <1>4, <1>7, <1>14 DEF CommittedRepeatsAreExcused, Excused
<1>17. QED
  BY <1>11, <1>12, <1>13, <1>15, <1>16

\* reserve() refuses: the rows it deletes are nobody's, and a transition it
\* refuses is being published by no other handler, so an earlier publication of
\* the key failed.
LEMMA RefuseStep ==
  ASSUME EngineInv, RegistryInv', NEW t \in Tasks, Refuse(t)
  PROVE  PublicationInv'
<1> USE RegistryAssumption DEF EngineInv, PublicationInv
<1> DEFINE key == KeyOfTask(t)
<1>1. /\ key \in Key /\ key.monitor = task[t].event.monitor
      /\ Past(t) /\ t \notin InFlight
      /\ ReserveRefused(key) /\ Leave(t)
      /\ accepted' = accepted /\ failed' = failed
      /\ missed' = missed \cup {j \in {key} : /\ Decision(j) = "publish"
                                             /\ \A a \in accepted : a[2] # j}
  BY KeyOfTaskFacts DEF Refuse, Classified, Past, InFlight
<1> HIDE DEF key
<1>2. /\ Decision(key) = "publish" => Active(key) # {}
      /\ reservations' = [x \in Tokens |-> IF Decision(key) = "publish" /\ x \in Expired(key)
                                           THEN NoRow ELSE reservations[x]]
      /\ monitorState' = monitorState /\ claims' = claims
  BY <1>1 DEF ReserveRefused
<1>3. /\ \A u \in Tasks : u # t => task'[u] = task[u]
      /\ task'[t].pc = "idle"
      /\ InFlight' = InFlight
  BY <1>1 DEF Leave, Idle, EngineTypeOK, InFlight
<1>4. /\ Held' = Held
      /\ \A k : Decision(k)' = Decision(k)
      /\ \A y \in Rows' : y \in Rows /\ reservations'[y] = reservations[y]
  BY <1>2 DEF Held, Decision, Rows
<1>5. \A x \in Undelivered(key) : x \notin Held
  <2> SUFFICES ASSUME NEW x \in Undelivered(key), x \in Held PROVE FALSE
    OBVIOUS
  <2>1. PICK u \in InFlight : task[u].token = x
    BY DEF FlightInv
  <2>2. KeyInFlight(u) = key
    BY <2>1, KeyInFlightFacts DEF Undelivered
  <2>3. QED
    BY <1>1, <2>1, <2>2, NobodyElsesKey
<1>6. \A x \in Held : x \in Rows'
  <2> SUFFICES ASSUME NEW x \in Held PROVE x \in Rows'
    OBVIOUS
  <2>1. x \in Rows
    BY DEF FlightInv, PublishesItsOwn
  <2>2. x \notin Expired(key)
    BY <1>5 DEF Expired
  <2>3. QED
    BY <1>2, <2>1, <2>2 DEF Rows
<1>7. FlightInv'
  BY <1>2, <1>3, <1>4, <1>6 DEF FlightInv, PublishesItsOwn, InFlight
<1>8. HookSeesItsTransition'
  BY <1>2, <1>3 DEF HookSeesItsTransition
<1>9. FailuresAreKnown'
  BY <1>1, <1>4 DEF FailuresAreKnown
<1>10. NoLossWithoutFailure'
  <2>1. SUFFICES ASSUME Decision(key) = "publish" PROVE key \in failed
    BY <1>1 DEF NoLossWithoutFailure
  <2>2. PICK x \in Undelivered(key) : TRUE
    BY <1>2, <2>1 DEF Active
  <2>3. QED
    BY <1>5, <2>2 DEF FailuresAreKnown, Undelivered
<1>11. AcceptedInv' /\ CommittedRepeatsAreExcused'
  <2>1. \A u \in Tasks : task'[u].pc \in {"publishing", "accepted"} =>
          task'[u] = task[u] /\ KeyInFlight(u)' = KeyInFlight(u)
    BY <1>2, <1>3 DEF KeyInFlight
  <2>2. AcceptedInv'
    BY <1>1, <1>2, <1>4, <2>1 DEF AcceptedInv, Reported
  <2>3. CommittedRepeatsAreExcused'
    BY <1>1, <1>4 DEF CommittedRepeatsAreExcused, Excused
  <2>4. QED
    BY <2>2, <2>3
<1>12. QED
  BY <1>7, <1>8, <1>9, <1>10, <1>11

\* Discord accepts a report: it is the first of its token, and its row is there.
LEMMA AcceptStep ==
  ASSUME EngineInv, RegistryInv', NEW t \in Tasks, Accept(t)
  PROVE  PublicationInv'
<1> USE DEF EngineInv, PublicationInv
<1> DEFINE x == task[t].token
           pair == <<x, KeyInFlight(t)>>
<1>1. /\ task[t].pc = "publishing" /\ t \in InFlight
      /\ task' = [task EXCEPT ![t].pc = "accepted"]
      /\ accepted' = accepted \cup {pair}
      /\ UNCHANGED <<monitorState, reservations, claims, missed, failed>>
  BY DEF Accept, registryVars, InFlight
<1>2. /\ \A u \in Tasks : u # t => task'[u] = task[u]
      /\ task'[t].pc = "accepted" /\ task'[t].token = x
      /\ task'[t].event = task[t].event
      /\ InFlight' = InFlight
  <2>1. task[t] \in [pc : {"publishing", "accepted", "hook"}, event : Event, token : Tokens]
    BY <1>1 DEF EngineTypeOK, TaskState
  <2>2. task'[t] = [task[t] EXCEPT !.pc = "accepted"]
    BY <1>1 DEF EngineTypeOK
  <2>3. \A u \in Tasks : u # t => task'[u] = task[u]
    BY <1>1 DEF EngineTypeOK
  <2>4. QED
    BY <1>1, <2>1, <2>2, <2>3 DEF InFlight
<1>3. /\ Held' = Held /\ Rows' = Rows
      /\ \A k : Decision(k)' = Decision(k)
  BY <1>1 DEF Held, Rows, Decision
<1>4. /\ x \in Held /\ x \in Rows /\ reservations[x].key = KeyInFlight(t)
      /\ ~reservations[x].delivered
  BY <1>1, KeyInFlightFacts DEF FlightInv, PublishesItsOwn
<1>5. FlightInv'
  BY <1>1, <1>2, <1>3 DEF FlightInv, PublishesItsOwn, InFlight
<1>6. HookSeesItsTransition'
  BY <1>1, <1>2 DEF HookSeesItsTransition
<1>7. FailuresAreKnown' /\ NoLossWithoutFailure'
  BY <1>1, <1>3 DEF FailuresAreKnown, NoLossWithoutFailure
<1>8. \A u \in Tasks : KeyInFlight(u)' = KeyInFlight(u) \/ task'[u].pc \notin {"publishing", "accepted"}
  BY <1>1, <1>2 DEF KeyInFlight
<1>9. AcceptedInv'
  <2>1. claims[x] # Unissued
    BY <1>4, RegistryAssumption DEF Held
  <2>2. \A p \in accepted' : /\ claims'[p[1]] # Unissued
                             /\ p[1] \in Rows' => reservations'[p[1]].key = p[2]
    BY <1>1, <1>3, <1>4, <2>1 DEF AcceptedInv
  <2>3. \A u \in Tasks : task'[u].pc = "publishing" =>
          \A p \in accepted' : p[1] # task'[u].token
    <3> SUFFICES ASSUME NEW u \in Tasks, task'[u].pc = "publishing"
                 PROVE  \A p \in accepted' : p[1] # task'[u].token
      OBVIOUS
    <3>1. u # t /\ task'[u] = task[u] /\ u \in InFlight
      BY <1>1, <1>2 DEF InFlight
    <3>2. task[u].token # x
      BY <1>1, <3>1, OwnTokens
    <3>3. \A p \in accepted : p[1] # task[u].token
      BY <3>1 DEF AcceptedInv
    <3>4. QED
      BY <1>1, <3>1, <3>2, <3>3
  <2>4. \A u \in Tasks : task'[u].pc = "accepted" =>
          <<task'[u].token, KeyInFlight(u)'>> \in accepted'
    BY <1>1, <1>2, <1>8 DEF AcceptedInv
  <2>5. QED
    BY <1>1, <2>2, <2>3, <2>4 DEF AcceptedInv, Reported
<1>10. CommittedRepeatsAreExcused'
  BY <1>1, <1>3, <1>4 DEF CommittedRepeatsAreExcused, Excused
<1>11. QED
  BY <1>5, <1>6, <1>7, <1>9, <1>10

\* complete(delivered=True): the key is a transition, so the state moves to it,
\* and with the lock nobody else's key is of this monitor.
LEMMA CommitInEngine ==
  ASSUME EngineInv, RegistryInv', NEW t \in Tasks, Commit(t)
  PROVE  PublicationInv'
<1> USE RegistryAssumption DEF EngineInv, PublicationInv
<1> DEFINE x == task[t].token
           key == KeyInFlight(t)
           m == key.monitor
<1>1. /\ task[t].pc = "accepted" /\ t \in InFlight /\ Past(t)
      /\ task' = [task EXCEPT ![t].pc = "hook"]
      /\ UNCHANGED <<accepted, missed, failed>>
      /\ CompleteDelivered(x)
  BY DEF Commit, InFlight, Past
<1>2. /\ \A u \in Tasks : u # t => task'[u] = task[u]
      /\ task'[t].pc = "hook" /\ task'[t].event = task[t].event
      /\ InFlight' = InFlight \ {t}
  <2>1. task[t] \in [pc : {"publishing", "accepted", "hook"}, event : Event, token : Tokens]
    BY <1>1 DEF EngineTypeOK, TaskState
  <2>2. task'[t] = [task[t] EXCEPT !.pc = "hook"]
    BY <1>1 DEF EngineTypeOK
  <2>3. \A u \in Tasks : u # t => task'[u] = task[u]
    BY <1>1 DEF EngineTypeOK
  <2>4. QED
    BY <1>1, <2>1, <2>2, <2>3 DEF InFlight
<1>3. /\ x \in Held /\ x \in Rows /\ x \in Tokens
      /\ key \in Key /\ reservations[x].key = key
      /\ PublishesItsOwn(t)
  BY <1>1, KeyInFlightFacts DEF FlightInv, PublishesItsOwn
<1>4. /\ monitorState' = [monitorState EXCEPT ![m] = Committed(monitorState[m], key)]
      /\ reservations' = [reservations EXCEPT ![x].delivered = TRUE]
      /\ claims' = [claims EXCEPT ![x] = Finished]
  BY <1>1 DEF CompleteDelivered, KeyInFlight
<1>5. /\ m \in Monitors /\ key.observed \in Nat
      /\ m = task[t].event.monitor /\ key.observed = task[t].event.observed
      /\ key.kind = Recovered <=> task[t].event.up
      /\ Decision(key) = "publish"
  BY <1>3 DEF Key, PublishesItsOwn, KeyInFlight
<1> HIDE DEF key
<1>6. /\ monitorState'[m] # NoState
      /\ monitorState'[m].kind = key.kind /\ monitorState'[m].observed = key.observed
      /\ \A n \in Monitors : n # m => monitorState'[n] = monitorState[n]
  <2> DEFINE s == monitorState[m]
             c == [kind |-> key.kind, observed |-> key.observed,
                   outageStart |-> NextOutageStart(s, key)]
  <2>1. Committed(s, key) = c
    BY <1>5 DEF Decision, Committed
  <2>2. monitorState'[m] = c
    BY <1>4, <1>5, <2>1 DEF RegistryInv, TypeOK
  <2>3. s \in MonitorState \cup {NoState}
    BY <1>5 DEF RegistryInv, TypeOK
  <2>4. c \in MonitorState
    BY <1>3, <2>1, <2>3, <1>5, CommittedFacts DEF RegistryInv, OutageStartTracksState
  <2>5. QED
    BY <1>4, <1>5, <2>2, <2>4 DEF RegistryInv, TypeOK
<1>7. /\ Held' = Held \ {x} /\ claims'[x] = Finished
      /\ \A y \in Tokens : y # x => claims'[y] = claims[y]
  BY <1>3, <1>4 DEF Held, RegistryInv, TypeOK
<1>8. /\ Rows' = Rows
      /\ reservations'[x].key = key /\ reservations'[x].delivered
      /\ \A y \in Rows : y # x => reservations'[y] = reservations[y]
  <2>1. reservations[x] \in Reservation
    BY <1>3 DEF Rows, RegistryInv, TypeOK
  <2>2. /\ reservations'[x] = [reservations[x] EXCEPT !.delivered = TRUE]
        /\ \A y \in Tokens : y # x => reservations'[y] = reservations[y]
    BY <1>3, <1>4 DEF RegistryInv, TypeOK
  <2>3. reservations'[x] \in Reservation
    BY <2>1, <2>2 DEF Reservation
  <2>4. QED
    BY <1>3, <2>1, <2>2, <2>3 DEF Rows, Reservation
<1>9. \A k \in Key : k.monitor # m => Decision(k)' = Decision(k)
  BY <1>6 DEF Decision, Key
<1>10. \A u \in InFlight' :
         /\ u \in InFlight /\ u # t /\ task'[u] = task[u]
         /\ task[u].token # x /\ task[u].token \in Tokens
         /\ claims'[task[u].token] = claims[task[u].token]
         /\ KeyInFlight(u) \in Key /\ KeyInFlight(u).monitor # m
  <2> SUFFICES ASSUME NEW u \in InFlight'
               PROVE  /\ u \in InFlight /\ u # t /\ task'[u] = task[u]
                      /\ task[u].token # x /\ task[u].token \in Tokens
                      /\ claims'[task[u].token] = claims[task[u].token]
                      /\ KeyInFlight(u) \in Key /\ KeyInFlight(u).monitor # m
    OBVIOUS
  <2>1. u \in InFlight /\ u # t /\ task'[u] = task[u]
    BY <1>2 DEF InFlight
  <2>2. task[u].token # x /\ KeyInFlight(u).monitor # m
    BY <1>1, <2>1, OwnTokens DEF key
  <2>3. KeyInFlight(u) \in Key /\ task[u].token \in Tokens
    BY <2>1, KeyInFlightFacts
  <2>4. QED
    BY <1>7, <2>1, <2>2, <2>3
<1>11. FlightInv'
  <2>1. ASSUME NEW u \in InFlight' PROVE PublishesItsOwn(u)'
    <3>1. PublishesItsOwn(u)
      BY <1>10 DEF FlightInv
    <3>2. Decision(claims[task[u].token].key)' = Decision(claims[task[u].token].key)
      BY <1>6, <1>10 DEF Decision, KeyInFlight, Key
    <3>3. QED
      BY <1>7, <1>8, <1>10, <3>1, <3>2 DEF PublishesItsOwn
  <2>2. ASSUME NEW y \in Held' PROVE \E u \in InFlight' : task'[u].token = y
    BY <1>2, <1>7, <1>10, <2>2 DEF FlightInv
  <2>3. QED
    BY <2>1, <2>2 DEF FlightInv
<1>12. HookSeesItsTransition'
  <2> SUFFICES ASSUME NEW u \in Tasks, task'[u].pc = "hook"
               PROVE  LET e == task'[u].event
                          s == monitorState'[e.monitor]
                      IN  /\ s # NoState /\ s.observed = e.observed
                          /\ s.kind = Recovered <=> e.up
    BY DEF HookSeesItsTransition
  <2>1. CASE u = t
    BY <1>2, <1>5, <1>6, <2>1
  <2>2. CASE u # t
    <3>1. task'[u] = task[u] /\ Past(u)
      BY <1>2, <2>2 DEF Past
    <3>2. task[u].event.monitor # m
      BY <1>1, <1>5, <2>2, <3>1, OneHandler
    <3>3. task[u].event.monitor \in Monitors
      BY <3>1, TaskShape, EventParts DEF Past
    <3>4. QED
      BY <1>6, <3>1, <3>2, <3>3 DEF HookSeesItsTransition
  <2>3. QED
    BY <2>1, <2>2
<1>13. FailuresAreKnown' /\ NoLossWithoutFailure'
  BY <1>1, <1>7, <1>8 DEF FailuresAreKnown, NoLossWithoutFailure
<1>14. AcceptedInv'
  <2>1. \A p \in accepted : p[1] \in Tokens /\ claims'[p[1]] # Unissued
    BY <1>7 DEF AcceptedInv, EngineTypeOK
  <2>2. \A p \in accepted : p[1] \in Rows' => reservations'[p[1]].key = p[2]
    BY <1>3, <1>8 DEF AcceptedInv
  <2>3. \A u \in Tasks : task'[u].pc \in {"publishing", "accepted"} =>
          task'[u] = task[u] /\ KeyInFlight(u)' = KeyInFlight(u)
    BY <1>10 DEF InFlight, KeyInFlight
  <2>4. \A n \in Monitors : monitorState'[n] # NoState =>
          Reported(n, monitorState'[n].kind, monitorState'[n].observed)
    <3>1. <<x, key>> \in accepted
      BY <1>1 DEF AcceptedInv, key
    <3>2. Reported(m, key.kind, key.observed)
      BY <3>1 DEF Reported
    <3>3. QED
      BY <1>6, <3>2 DEF AcceptedInv
  <2>5. QED
    BY <1>1, <2>1, <2>2, <2>3, <2>4 DEF AcceptedInv, Reported
<1>15. CommittedRepeatsAreExcused'
  <2>1. \A p \in accepted : p[1] \in Rows' /\ reservations'[p[1]].delivered =>
          p[1] \in Held \/ (p[1] \in Rows /\ reservations[p[1]].delivered)
    BY <1>3, <1>8
  <2>2. RepeatsAreExcused
    BY RepeatsExcused
  <2>3. QED
    BY <1>1, <2>1, <2>2 DEF RepeatsAreExcused, CommittedRepeatsAreExcused, Excused
<1>16. QED
  BY <1>11, <1>12, <1>13, <1>14, <1>15

-----------------------------------------------------------------------------
(* The engine and the registry.                                            *)

\* Every step of the engine is a step of the registry, or none of it.
LEMMA EngineStepIsRegistryStep ==
  ASSUME EngineInv, [EngineNext]_allVars
  PROVE  [Next]_registryVars
<1>1. ASSUME NEW t \in Tasks, NEW x \in Tokens, Reserve(t, x) PROVE Next
  <2>1. KeyOfTask(t) \in Key /\ ReserveGranted(KeyOfTask(t), x)
    BY <1>1, KeyOfTaskFacts DEF Reserve, EngineInv
  <2>2. QED
    BY <2>1 DEF Next
<1>2. ASSUME NEW t \in Tasks, Refuse(t) PROVE Next
  <2>1. KeyOfTask(t) \in Key /\ ReserveRefused(KeyOfTask(t))
    BY <1>2, KeyOfTaskFacts DEF Refuse, EngineInv
  <2>2. QED
    BY <2>1 DEF Next
<1>3. ASSUME NEW t \in Tasks, Commit(t) PROVE Next
  BY <1>3 DEF Commit, CompleteDelivered, Held, Next
<1>4. ASSUME NEW t \in Tasks, PublishFails(t) PROVE Next
  BY <1>4 DEF PublishFails, CompleteFailed, Held, Next
<1>5. ASSUME NEW t \in Tasks, Cancel(t) PROVE [Next]_registryVars
  <2>1. CASE t \in InFlight
    <3>1. {task[t].token} \in SUBSET Held
      BY <2>1 DEF EngineInv, PublicationInv, FlightInv, PublishesItsOwn
    <3>2. QED
      BY <1>5, <2>1, <3>1 DEF Cancel, Next
  <2>2. CASE t \notin InFlight
    BY <1>5, <2>2 DEF Cancel
  <2>3. QED
    BY <2>1, <2>2
<1>6. ASSUME Crash PROVE [Next]_registryVars
  <2>1. {task[t].token : t \in InFlight} \in SUBSET Held
    BY DEF EngineInv, PublicationInv, FlightInv, PublishesItsOwn
  <2>2. QED
    BY <1>6, <2>1 DEF Crash, Next
<1>7. ASSUME ClockTick PROVE Next
  BY <1>7 DEF ClockTick, Next
<1>8. CASE UNCHANGED registryVars
  BY <1>8
<1>9. QED
  BY <1>1, <1>2, <1>3, <1>4, <1>5, <1>6, <1>7, <1>8
     DEF EngineNext, TaskStep, Arrive, Start, Probe, ProbeRaises, Suppress, Accept, HookReturns,
         SetConfirmation, allVars

\* Handlers, lock and histories stay well formed.
LEMMA EngineTypeStep ==
  ASSUME EngineInv, [EngineNext]_allVars
  PROVE  EngineTypeOK'
<1> USE EngineAssumption DEF EngineTypeOK, EngineInv
<1>1. \A t \in InFlight : task[t].token \in Tokens /\ KeyInFlight(t) \in Key
  BY KeyInFlightFacts DEF PublicationInv
<1>2. ASSUME NEW t \in Tasks, NEW e \in Event, Arrive(t, e) PROVE EngineTypeOK'
  <2>1. [pc |-> "waiting", event |-> e] \in TaskState
    BY DEF TaskState
  <2>2. AtLock(e.monitor) \in SUBSET Tasks
    BY DEF AtLock, Busy
  <2>3. QED
    BY <1>2, <2>1, <2>2 DEF Arrive
<1>3. ASSUME NEW t \in Tasks, Start(t) PROVE EngineTypeOK'
  <2>1. task[t].event \in Event
    BY <1>3, TaskShape DEF Start
  <2>2. [pc |-> "probing", event |-> task[t].event, results |-> {},
         left |-> IF task[t].event.up THEN 0 ELSE attempts] \in TaskState
    BY <2>1 DEF TaskState
  <2>3. QED
    BY <1>3, <2>2 DEF Start
<1>4. ASSUME NEW t \in Tasks, NEW o \in Outcomes, Probe(t, o) PROVE EngineTypeOK'
  <2> DEFINE new == [task[t] EXCEPT !.left = task[t].left - 1,
                                    !.results = task[t].results \cup {o}]
  <2>1. task[t] \in [pc : {"probing"}, event : Event, results : SUBSET Outcomes,
                     left : 0 .. MaxAttempts]
    BY <1>4 DEF Probe, TaskState
  <2>2. task[t].left - 1 \in 0 .. MaxAttempts
    BY <1>4, <2>1 DEF Probe
  <2>3. new \in [pc : {"probing"}, event : Event, results : SUBSET Outcomes,
                 left : 0 .. MaxAttempts]
    BY <2>1, <2>2
  <2>4. new \in TaskState
    BY <2>3 DEF TaskState
  <2>5. task' = [task EXCEPT ![t] = new]
    <3>1. task[t].left - 1 = new.left /\ task[t].results \cup {o} = new.results
      BY <2>1
    <3>2. QED
      BY <1>4, <2>1 DEF Probe
  <2>6. UNCHANGED <<ahead, attempts, accepted, missed, failed>>
    BY <1>4 DEF Probe
  <2> HIDE DEF new
  <2>7. QED
    BY <2>4, <2>5, <2>6
<1>5. Idle \in TaskState
  BY DEF Idle, TaskState
<1>6. ASSUME NEW t \in Tasks, Leave(t)
      PROVE  task' \in [Tasks -> TaskState] /\ ahead' \in [Tasks -> SUBSET Tasks]
  BY <1>5, <1>6 DEF Leave
<1>7. ASSUME NEW t \in Tasks, ProbeRaises(t) \/ Suppress(t) \/ HookReturns(t) PROVE EngineTypeOK'
  BY <1>6, <1>7 DEF ProbeRaises, Suppress, HookReturns
<1>8. ASSUME NEW t \in Tasks, NEW x \in Tokens, Reserve(t, x) PROVE EngineTypeOK'
  <2>1. task[t].event \in Event
    BY <1>8, TaskShape DEF Reserve, Classified
  <2>2. [pc |-> "publishing", event |-> task[t].event, token |-> x] \in TaskState
    BY <2>1 DEF TaskState
  <2>3. QED
    BY <1>8, <2>2 DEF Reserve
<1>9. ASSUME NEW t \in Tasks, Refuse(t) PROVE EngineTypeOK'
  BY <1>6, <1>9, KeyOfTaskFacts DEF Refuse
<1>10. ASSUME NEW t \in Tasks, task[t].pc \in {"publishing", "accepted"},
              NEW pc \in {"accepted", "hook"}, task' = [task EXCEPT ![t].pc = pc]
       PROVE  task' \in [Tasks -> TaskState]
  <2>1. task[t] \in [pc : {"publishing", "accepted", "hook"}, event : Event, token : Tokens]
    BY <1>10 DEF TaskState
  <2>2. [task[t] EXCEPT !.pc = pc] \in TaskState
    BY <2>1 DEF TaskState
  <2>3. QED
    BY <1>10, <2>2
<1>11. ASSUME NEW t \in Tasks, Accept(t) PROVE EngineTypeOK'
  <2>1. task' \in [Tasks -> TaskState]
    BY <1>10, <1>11 DEF Accept
  <2>2. <<task[t].token, KeyInFlight(t)>> \in Tokens \X Key
    BY <1>1, <1>11 DEF Accept, InFlight
  <2>3. QED
    BY <1>11, <2>1, <2>2 DEF Accept
<1>12. ASSUME NEW t \in Tasks, Commit(t) PROVE EngineTypeOK'
  BY <1>10, <1>12 DEF Commit
<1>13. ASSUME NEW t \in Tasks, PublishFails(t) PROVE EngineTypeOK'
  BY <1>1, <1>6, <1>13 DEF PublishFails, InFlight
<1>14. ASSUME NEW t \in Tasks, Cancel(t) PROVE EngineTypeOK'
  <2>1. {KeyInFlight(u) : u \in InFlight \cap {t}} \subseteq Key
    BY <1>1
  <2>2. QED
    BY <1>6, <1>14, <2>1 DEF Cancel
<1>15. ASSUME Crash PROVE EngineTypeOK'
  <2>1. {KeyInFlight(t) : t \in InFlight} \subseteq Key
    BY <1>1
  <2>2. QED
    BY <1>5, <1>15, <2>1 DEF Crash
<1>16. ASSUME NEW n \in 1 .. MaxAttempts, SetConfirmation(n) PROVE EngineTypeOK'
  BY <1>16 DEF SetConfirmation
<1>17. CASE UNCHANGED engineVars
  BY <1>17 DEF engineVars
<1>18. QED
  BY <1>2, <1>3, <1>4, <1>7, <1>8, <1>9, <1>11, <1>12, <1>13, <1>14, <1>15, <1>16, <1>17
     DEF EngineNext, TaskStep, ClockTick, allVars

\* The lock keeps its order through every step.
LEMMA LockStep ==
  ASSUME EngineInv, [EngineNext]_allVars
  PROVE  LockInv'
<1> USE DEF EngineInv
<1>1. ASSUME NEW t \in Tasks, NEW e \in Event, Arrive(t, e) PROVE LockInv'
  <2>1. /\ task'[t].pc = "waiting" /\ task'[t].event = e
        /\ ahead'[t] = AtLock(e.monitor) /\ t \notin Busy
        /\ \A u \in Tasks : u # t => task'[u] = task[u] /\ ahead'[u] = ahead[u]
    BY <1>1 DEF Arrive, EngineTypeOK, Idle, Busy
  <2>2. QED
    BY <2>1 DEF LockInv, Busy, AtLock
<1>2. ASSUME NEW t \in Tasks, Start(t) PROVE LockInv'
  <2>1. /\ task'[t].pc = "probing" /\ task'[t].event = task[t].event
        /\ t \in Busy /\ ahead[t] = {} /\ ahead' = ahead
        /\ \A u \in Tasks : u # t => task'[u] = task[u]
    BY <1>2 DEF Start, EngineTypeOK, Busy
  <2>2. QED
    BY <2>1, GoingOnKeepsLock
<1>3. ASSUME NEW t \in Tasks, Past(t), ahead' = ahead,
             task'[t].pc # "idle", task'[t].event = task[t].event,
             \A u \in Tasks : u # t => task'[u] = task[u]
      PROVE  LockInv'
  <2>1. t \in Busy /\ ahead[t] = {}
    BY <1>3 DEF Past, Busy, LockInv
  <2>2. QED
    BY <1>3, <2>1, GoingOnKeepsLock
<1>4. ASSUME NEW t \in Tasks, NEW o \in Outcomes, Probe(t, o) PROVE LockInv'
  <2>1. task[t] \in [pc : {"probing"}, event : Event, results : SUBSET Outcomes,
                     left : 0 .. MaxAttempts]
    BY <1>4 DEF Probe, EngineTypeOK, TaskState
  <2>2. task'[t] = [task[t] EXCEPT !.left = task[t].left - 1,
                                   !.results = task[t].results \cup {o}]
    BY <1>4 DEF Probe, EngineTypeOK
  <2>3. task'[t].pc = "probing" /\ task'[t].event = task[t].event
    BY <2>1, <2>2
  <2>4. \A u \in Tasks : u # t => task'[u] = task[u]
    BY <1>4 DEF Probe, EngineTypeOK
  <2>5. Past(t) /\ ahead' = ahead
    BY <1>4 DEF Probe, Past
  <2>6. QED
    BY <1>3, <2>3, <2>4, <2>5
<1>5. ASSUME NEW t \in Tasks, NEW x \in Tokens, Reserve(t, x) PROVE LockInv'
  <2>1. /\ task'[t].pc = "publishing" /\ task'[t].event = task[t].event
        /\ \A u \in Tasks : u # t => task'[u] = task[u]
        /\ Past(t) /\ ahead' = ahead
    BY <1>5 DEF Reserve, Classified, EngineTypeOK, Past
  <2>2. QED
    BY <1>3, <2>1
<1>6. ASSUME NEW t \in Tasks, Accept(t) \/ Commit(t) PROVE LockInv'
  <2>1. PICK pc \in {"accepted", "hook"} : task' = [task EXCEPT ![t].pc = pc]
    BY <1>6 DEF Accept, Commit
  <2>2. task[t] \in [pc : {"publishing", "accepted", "hook"}, event : Event, token : Tokens]
    BY <1>6 DEF Accept, Commit, EngineTypeOK, TaskState
  <2>3. task'[t].pc = pc /\ task'[t].event = task[t].event
    BY <2>1, <2>2 DEF EngineTypeOK
  <2>4. \A u \in Tasks : u # t => task'[u] = task[u]
    BY <2>1 DEF EngineTypeOK
  <2>5. Past(t) /\ ahead' = ahead
    BY <1>6 DEF Accept, Commit, Past
  <2>6. QED
    BY <1>3, <2>3, <2>4, <2>5
<1>7. ASSUME NEW t \in Tasks,
             \/ ProbeRaises(t) \/ Suppress(t) \/ Refuse(t)
             \/ PublishFails(t) \/ HookReturns(t) \/ Cancel(t)
      PROVE  LockInv'
  <2>1. Leave(t)
    BY <1>7 DEF ProbeRaises, Suppress, Refuse, PublishFails, HookReturns, Cancel
  <2>2. QED
    BY <2>1, LeaveKeepsLock
<1>8. ASSUME Crash PROVE LockInv'
  BY <1>8 DEF Crash, LockInv, Busy, Idle
<1>9. CASE UNCHANGED <<task, ahead>>
  BY <1>9 DEF LockInv, Busy
<1>10. QED
  BY <1>1, <1>2, <1>4, <1>5, <1>6, <1>7, <1>8, <1>9
     DEF EngineNext, TaskStep, SetConfirmation, ClockTick, allVars, engineVars

\* The publications stay in order through every step.
LEMMA PublicationStep ==
  ASSUME EngineInv, [EngineNext]_allVars
  PROVE  PublicationInv'
<1>1. RegistryInv'
  BY EngineStepIsRegistryStep, NextRegistryInv DEF EngineInv, PublicationInv
<1>2. PublicationInv /\ EngineTypeOK
  BY DEF EngineInv
<1>3. ASSUME NEW t \in Tasks, task[t].pc \notin {"publishing", "accepted"},
             task'[t].pc \notin {"publishing", "accepted", "hook"},
             \A u \in Tasks : u # t => task'[u] = task[u],
             UNCHANGED <<monitorState, reservations, claims, accepted, missed, failed>>
      PROVE  PublicationInv'
  <2>1. InFlight' = InFlight
    BY <1>3 DEF InFlight
  <2>2. QED
    BY <1>1, <1>2, <1>3, <2>1, QuietStep
<1>4a. ASSUME NEW t \in Tasks, NEW e \in Event, Arrive(t, e) PROVE PublicationInv'
  <2>1. /\ task[t].pc = "idle" /\ task'[t].pc = "waiting"
        /\ \A u \in Tasks : u # t => task'[u] = task[u]
    BY <1>2, <1>4a DEF Arrive, Idle, EngineTypeOK
  <2>2. UNCHANGED <<monitorState, reservations, claims, accepted, missed, failed>>
    BY <1>4a DEF Arrive, registryVars
  <2>3. QED
    BY <1>3, <2>1, <2>2
<1>4. ASSUME NEW t \in Tasks, Start(t) PROVE PublicationInv'
  <2>1. /\ task[t].pc = "waiting" /\ task'[t].pc = "probing"
        /\ \A u \in Tasks : u # t => task'[u] = task[u]
    BY <1>2, <1>4 DEF Start, EngineTypeOK
  <2>2. UNCHANGED <<monitorState, reservations, claims, accepted, missed, failed>>
    BY <1>4 DEF Start, registryVars
  <2>3. QED
    BY <1>3, <2>1, <2>2
<1>5. ASSUME NEW t \in Tasks, NEW o \in Outcomes, Probe(t, o) PROVE PublicationInv'
  <2>1. task[t] \in [pc : {"probing"}, event : Event, results : SUBSET Outcomes,
                     left : 0 .. MaxAttempts]
    BY <1>2, <1>5 DEF Probe, EngineTypeOK, TaskState
  <2>2. task'[t] = [task[t] EXCEPT !.left = task[t].left - 1,
                                   !.results = task[t].results \cup {o}]
    BY <1>2, <1>5 DEF Probe, EngineTypeOK
  <2>3. task'[t].pc = "probing"
    BY <2>1, <2>2
  <2>4. /\ \A u \in Tasks : u # t => task'[u] = task[u]
        /\ task[t].pc = "probing"
        /\ UNCHANGED <<monitorState, reservations, claims, accepted, missed, failed>>
    BY <1>2, <1>5 DEF Probe, EngineTypeOK, registryVars
  <2>5. QED
    BY <1>3, <2>3, <2>4
<1>6. CASE UNCHANGED <<monitorState, reservations, claims, task, accepted, missed, failed>>
  <2>1. InFlight' = InFlight
    BY <1>6 DEF InFlight
  <2>2. QED
    BY <1>1, <1>2, <1>6, <2>1, QuietStep
<1>7. claims = [x \in Tokens |-> IF x \in {} THEN Finished ELSE claims[x]]
  BY <1>2 DEF PublicationInv, RegistryInv, TypeOK
<1>8. ASSUME NEW t \in Tasks, NEW F \in SUBSET (InFlight \cap {t}), t \in InFlight => t \in F,
             Leave(t), UNCHANGED <<monitorState, reservations, accepted, missed>>,
             failed' = failed \cup {KeyInFlight(u) : u \in F},
             claims' = [x \in Tokens |-> IF x \in {task[u].token : u \in F}
                                         THEN Finished ELSE claims[x]]
      PROVE  PublicationInv'
  <2>1. /\ task'[t].pc = "idle"
        /\ \A u \in Tasks : u # t => task'[u] = task[u]
    BY <1>2, <1>8 DEF Leave, Idle, EngineTypeOK
  <2>2. /\ F \in SUBSET InFlight
        /\ \A u \in F : task'[u].pc = "idle"
        /\ \A u \in InFlight \ F : task'[u] = task[u]
        /\ \A u \in Tasks : task'[u] = task[u] \/ task'[u].pc = "idle"
    BY <1>8, <2>1 DEF InFlight
  <2>3. QED
    BY <1>1, <1>8, <2>2, LeavingStep
<1>9. ASSUME NEW t \in Tasks, ProbeRaises(t) \/ Suppress(t) \/ HookReturns(t) PROVE PublicationInv'
  <2> DEFINE F == {}
  <2>1. /\ t \notin InFlight /\ Leave(t)
        /\ UNCHANGED <<monitorState, reservations, claims, accepted, missed, failed>>
    BY <1>9 DEF ProbeRaises, Suppress, HookReturns, Classified, InFlight, registryVars
  <2>2. /\ F \in SUBSET (InFlight \cap {t})
        /\ {task[u].token : u \in F} = {} /\ {KeyInFlight(u) : u \in F} = {}
    OBVIOUS
  <2> HIDE DEF F
  <2>3. QED
    BY <1>7, <1>8, <2>1, <2>2
<1>10. ASSUME NEW t \in Tasks, PublishFails(t) PROVE PublicationInv'
  <2> DEFINE F == {t}
             x == task[t].token
  <2>1. t \in InFlight /\ Leave(t) /\ CompleteFailed(x)
        /\ failed' = failed \cup {KeyInFlight(t)} /\ UNCHANGED <<accepted, missed>>
    BY <1>10 DEF PublishFails, InFlight
  <2>2. reservations' = reservations
    <3>1. x \in Rows /\ reservations \in [Tokens -> Reservation \cup {NoRow}]
      BY <1>2, <2>1 DEF CompleteFailed, PublicationInv, RegistryInv, TypeOK
    <3>2. reservations[x] \in Reservation /\ ~reservations[x].delivered
      BY <1>2, <2>1, <3>1, KeyInFlightFacts DEF Rows, PublicationInv
    <3>3. [reservations[x] EXCEPT !.delivered = FALSE] = reservations[x]
      BY <3>2 DEF Reservation
    <3>4. QED
      BY <2>1, <3>1, <3>3 DEF CompleteFailed
  <2>3. claims' = [y \in Tokens |-> IF y \in {x} THEN Finished ELSE claims[y]]
    BY <1>2, <2>1 DEF CompleteFailed, PublicationInv, RegistryInv, TypeOK
  <2>4. /\ F \in SUBSET (InFlight \cap {t}) /\ t \in F
        /\ {task[u].token : u \in F} = {x}
        /\ {KeyInFlight(u) : u \in F} = {KeyInFlight(t)}
    BY <2>1
  <2>5. monitorState' = monitorState
    BY <2>1 DEF CompleteFailed
  <2> HIDE DEF F, x
  <2>6. QED
    BY <1>8, <2>1, <2>2, <2>3, <2>4, <2>5
<1>11. ASSUME NEW t \in Tasks, Cancel(t) PROVE PublicationInv'
  <2> DEFINE F == InFlight \cap {t}
  <2>1. /\ Leave(t) /\ UNCHANGED <<monitorState, reservations, accepted, missed>>
        /\ failed' = failed \cup {KeyInFlight(u) : u \in F}
    BY <1>11 DEF Cancel, Abandon, registryVars
  <2>2. claims' = [x \in Tokens |-> IF x \in {task[u].token : u \in F}
                                    THEN Finished ELSE claims[x]]
    <3>1. CASE t \in InFlight
      <4>1. {task[u].token : u \in F} = {task[t].token}
        BY <3>1
      <4>2. QED
        BY <1>11, <3>1, <4>1 DEF Cancel, Abandon
    <3>2. CASE t \notin InFlight
      <4>1. {task[u].token : u \in F} = {} /\ claims' = claims
        BY <1>11, <3>2 DEF Cancel, registryVars
      <4>2. QED
        BY <1>7, <4>1
    <3>3. QED
      BY <3>1, <3>2
  <2>3. F \in SUBSET (InFlight \cap {t}) /\ (t \in InFlight => t \in F)
    OBVIOUS
  <2> HIDE DEF F
  <2>4. QED
    BY <1>8, <2>1, <2>2, <2>3
<1>12. ASSUME Crash PROVE PublicationInv'
  <2>1. /\ UNCHANGED <<monitorState, reservations, accepted, missed>>
        /\ failed' = failed \cup {KeyInFlight(t) : t \in InFlight}
        /\ \A u \in Tasks : task'[u].pc = "idle"
    BY <1>12 DEF Crash, Abandon, registryVars, Idle
  <2>2. claims' = [x \in Tokens |-> IF x \in {task[t].token : t \in InFlight}
                                    THEN Finished ELSE claims[x]]
    <3>1. CASE InFlight # {}
      BY <1>12, <3>1 DEF Crash, Abandon
    <3>2. CASE InFlight = {}
      <4>1. {task[t].token : t \in InFlight} = {} /\ claims' = claims
        BY <1>12, <3>2 DEF Crash, registryVars
      <4>2. QED
        BY <1>7, <4>1
    <3>3. QED
      BY <3>1, <3>2
  <2>3. QED
    BY <1>1, <2>1, <2>2, LeavingStep DEF InFlight
<1>13. QED
  BY <1>1, <1>4a, <1>4, <1>5, <1>6, <1>9, <1>10, <1>11, <1>12,
     ReserveStep, RefuseStep, AcceptStep, CommitInEngine
     DEF EngineNext, TaskStep, SetConfirmation, ClockTick, Tick, allVars, engineVars,
         registryVars

\* At the start nothing is in flight, reported or lost.
LEMMA InitEngineInv == EngineInit => EngineInv
<1> SUFFICES ASSUME EngineInit PROVE EngineInv
  OBVIOUS
<1> USE DEF EngineInit
<1>1. RegistryInv
  BY InitRegistryInv
<1>2. \A t \in Tasks : task[t] = Idle /\ task[t].pc = "idle"
  BY DEF Idle
<1>3. EngineTypeOK
  BY DEF EngineTypeOK, TaskState, Idle
<1>4. Held = {} /\ Rows = {} /\ InFlight = {}
  BY <1>2, RegistryAssumption DEF Init, Held, Rows, InFlight
<1>5. LockInv /\ HookSeesItsTransition
  BY <1>2 DEF LockInv, Busy, HookSeesItsTransition
<1>6. FlightInv /\ FailuresAreKnown /\ NoLossWithoutFailure /\ CommittedRepeatsAreExcused
  BY <1>4 DEF FlightInv, FailuresAreKnown, NoLossWithoutFailure, CommittedRepeatsAreExcused
<1>7. AcceptedInv
  BY <1>2 DEF AcceptedInv, Init
<1>8. QED
  BY <1>1, <1>3, <1>5, <1>6, <1>7 DEF EngineInv, PublicationInv

-----------------------------------------------------------------------------
\* The engine's invariant holds in every reachable state: the theorems below are
\* its readable parts (handle_event, engine.py).
THEOREM EngineCorrect == EngineSpec => []EngineInv
<1>1. EngineInv /\ [EngineNext]_allVars => EngineInv'
  BY EngineTypeStep, LockStep, PublicationStep DEF EngineInv
<1>2. QED
  BY <1>1, InitEngineInv, PTL DEF EngineSpec

\* Handlers, lock and histories stay well formed.
THEOREM EngineTypeCorrect == EngineSpec => []EngineTypeOK
<1>1. EngineInv => EngineTypeOK
  BY DEF EngineInv
<1>2. QED
  BY <1>1, EngineCorrect, PTL

\* complete() finds the row of every report being posted, undelivered, however
\* long the post takes.
THEOREM PublisherAlwaysFindsItsRow == EngineSpec => []PublisherFindsItsRow
<1>1. EngineInv => PublisherFindsItsRow
  BY KeyInFlightFacts
     DEF EngineInv, PublicationInv, FlightInv, PublishesItsOwn, PublisherFindsItsRow
<1>2. QED
  BY <1>1, EngineCorrect, PTL

\* The hook runs while the state on record is the transition it was told about.
THEOREM HookIsCurrent == EngineSpec => []HookSeesItsTransition
<1>1. EngineInv => HookSeesItsTransition
  BY DEF EngineInv, PublicationInv
<1>2. QED
  BY <1>1, EngineCorrect, PTL

\* Two reports of one key count only across a tie with another kind.
THEOREM RepeatsAlwaysExcused == EngineSpec => []RepeatsAreExcused
<1>1. EngineInv => RepeatsAreExcused
  BY RepeatsExcused DEF EngineInv, PublicationInv
<1>2. QED
  BY <1>1, EngineCorrect, PTL

\* A transition answered as accepted was reported, or its publication failed.
THEOREM NothingLostWithoutFailure == EngineSpec => []NoLossWithoutFailure
<1>1. EngineInv => NoLossWithoutFailure
  BY DEF EngineInv, PublicationInv
<1>2. QED
  BY <1>1, EngineCorrect, PTL

\* The engine uses the registry as the registry allows: every step of it is a
\* step of IncidentRegistry, or leaves the registry alone.
THEOREM EngineRefinesRegistry == EngineSpec => RegistrySpec
<1>1. EngineInit => Init
  BY DEF EngineInit
<1>2. EngineInv /\ [EngineNext]_allVars => [Next]_registryVars
  BY EngineStepIsRegistryStep
<1>3. QED
  BY <1>1, <1>2, EngineCorrect, PTL DEF EngineSpec, RegistrySpec, Spec

\* So what is proved of the registry holds of the engine, whatever it handles: the
\* committed transition of a monitor never gives way to an older one, an outage keeps
\* its start, a report is repeated only across a tie, deliveries are reflected, and
\* the engine implements the leases.
THEOREM EngineKeepsPromises ==
  EngineSpec => /\ WatermarkNeverMovesBack /\ OutageStartSticky /\ RepeatOnlyAcrossTie
                /\ []DeliveredIsReflected /\ []OutageStartTracksState
                /\ ImplementsLeases
<1>1. EngineSpec => Spec
  BY EngineRefinesRegistry DEF RegistrySpec
<1>2. QED
  BY <1>1, WatermarkMonotone, OutageStartFixed, RepeatsAreTies, DeliveriesAreReflected,
     OutageStartSound, RegistryImplementsLeases
=============================================================================
