------------------------- MODULE PublicationLeases -------------------------
(***************************************************************************)
(* What the incident registry promises the callers that publish, without   *)
(* its tables: a transition is published under a lease that one caller has *)
(* at a time, a lease that still runs is not taken away, only its holder   *)
(* commits, and the committed transition of a monitor never moves back.    *)
(* IncidentRegistry implements this specification.                         *)
(***************************************************************************)
EXTENDS Integers

CONSTANTS
  Monitors,    \* monitor ids
  Keys,        \* transitions: records with a monitor, a kind, an instant
  Tokens,      \* what identifies a lease
  LeaseTicks,  \* how long a lease runs
  Free,        \* nobody has a lease on the key
  Nothing      \* nothing was committed for the monitor

VARIABLES
  lease,      \* by key: the lease that is out, run out or not
  committed,  \* by monitor: the transition published last
  granted,    \* the tokens that were given out
  now         \* the wall clock

leaseVars == <<lease, committed, granted, now>>

\* k says something about its monitor that was not published yet.
IsTransition(k) ==
  LET c == committed[k.monitor]
  IN  c # Nothing => k.kind # c.kind /\ k.observed >= c.observed

\* k was observed before what is committed for its monitor.
IsLate(k) ==
  LET c == committed[k.monitor]
  IN  c # Nothing /\ k.observed < c.observed

Init ==
  /\ lease = [k \in Keys |-> Free]
  /\ committed = [m \in Monitors |-> Nothing]
  /\ granted = {}
  /\ now = 0

\* A caller gets the lease of a transition that nobody else is publishing, or
\* takes it over from a holder whose time is up.
Grant(k, t) ==
  /\ t \notin granted
  /\ granted' = granted \cup {t}
  /\ IsTransition(k)
  /\ lease[k] # Free => lease[k].until <= now
  /\ lease' = [lease EXCEPT ![k] = [token |-> t, until |-> now + LeaseTicks]]
  /\ UNCHANGED <<committed, now>>

\* The holder reports that it has published, in time or late.
Publish(k, t) ==
  /\ lease[k] # Free /\ lease[k].token = t
  /\ lease' = [lease EXCEPT ![k] = Free]
  /\ committed' = IF IsLate(k) THEN committed
                  ELSE [committed EXCEPT
                         ![k.monitor] = [kind |-> k.kind, observed |-> k.observed]]
  /\ UNCHANGED <<granted, now>>

Tick ==
  /\ now' = now + 1
  /\ UNCHANGED <<lease, committed, granted>>

Next ==
  \/ \E t \in Tokens, k \in Keys : Grant(k, t) \/ Publish(k, t)
  \/ Tick

Spec == Init /\ [][Next]_leaseVars
=============================================================================
