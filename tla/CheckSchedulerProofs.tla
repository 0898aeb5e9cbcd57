------------------------ MODULE CheckSchedulerProofs ------------------------
(***************************************************************************)
(* The budgets of the scheduler, for any number of pages, sites, loops,    *)
(* webhooks and manual checks, and any concurrency settings.               *)
(***************************************************************************)
EXTENDS CheckScheduler, FiniteSetTheorems, TLAPS

\* Where each kind of actor can be: a deep loop hands in no event, a webhook has
\* no _execute of its own, a manual check only checks.
PlacesFit ==
  \A a \in Actors :
    /\ a \in DeepLoops => pc[a] \in {"off", "global", "site", "checking"}
    /\ a \in Webhooks => pc[a] \in {"off", "lock", "engine", "hookGlobal", "hookSite", "hookCheck"}
    /\ a \in ManualChecks => pc[a] \in {"off", "checking"}

SchedulerInv == TypeOK /\ PlacesFit /\ PermitsConserved

\* How often a occurs in S.
Count(a, S) == IF a \in S THEN 1 ELSE 0

\* What one actor holds of the global budget, of a site's and of the slots.
GlobalHeld(a) ==
  (IF OuterGlobal(a) THEN 1 ELSE 0) + (IF InnerGlobal(a) THEN 1 ELSE 0)
SiteHeld(a, s) ==
  (IF OuterSite(a) /\ Site(a) = s THEN 1 ELSE 0)
    + (IF InnerSite(a) /\ Site(a) = s THEN 1 ELSE 0)
SlotHeld(a) == IF a \in ManualChecks /\ pc[a] = "checking" THEN 1 ELSE 0

\* A step of one actor gives back what it no longer holds and takes what it does.
Balanced(a) ==
  /\ \A b \in Actors : b # a => pc'[b] = pc[b] /\ page'[b] = page[b]
  /\ globalFree' \in Nat /\ globalFree' + GlobalHeld(a)' = globalFree + GlobalHeld(a)
  /\ siteFree' \in [Sites -> Nat]
  /\ \A s \in Sites : siteFree'[s] + SiteHeld(a, s)' = siteFree[s] + SiteHeld(a, s)
  /\ slotsFree' \in Nat /\ slotsFree' + SlotHeld(a)' = slotsFree + SlotHeld(a)

-----------------------------------------------------------------------------
(* Counting.                                                               *)

\* An element occurs once or not at all.
LEMMA CountType == \A a, S : Count(a, S) \in 0 .. 1
BY DEF Count

\* Two finite sets that differ in one element at most.
LEMMA CountOneMove ==
  ASSUME NEW S, NEW T, NEW a, IsFiniteSet(S), \A x : x # a => (x \in S <=> x \in T)
  PROVE  /\ IsFiniteSet(T)
         /\ Cardinality(S) \in Nat /\ Cardinality(T) \in Nat
         /\ Cardinality(T) = Cardinality(S) + Count(a, T) - Count(a, S)
<1>1. Cardinality(S) \in Nat
  BY FS_CardinalityType
<1>2. CASE a \in S /\ a \notin T
  <2>1. T = S \ {a}
    BY <1>2
  <2>2. IsFiniteSet(T) /\ Cardinality(T) = Cardinality(S) - 1
    BY <1>2, <2>1, FS_RemoveElement
  <2>3. Cardinality(T) \in Nat
    BY <2>2, FS_CardinalityType
  <2>4. QED
    BY <1>1, <1>2, <2>2, <2>3 DEF Count
<1>3. CASE a \notin S /\ a \in T
  <2>1. T = S \cup {a}
    BY <1>3
  <2>2. IsFiniteSet(T) /\ Cardinality(T) = Cardinality(S) + 1
    BY <1>3, <2>1, FS_AddElement
  <2>3. QED
    BY <1>1, <1>3, <2>2 DEF Count
<1>4. CASE (a \in S) <=> (a \in T)
  <2>1. T = S
    BY <1>4
  <2>2. QED
    BY <1>1, <2>1 DEF Count
<1>5. QED
  BY <1>2, <1>3, <1>4

\* The actors with a property are finitely many.
LEMMA ActorsFinite ==
  ASSUME NEW S \in SUBSET Actors
  PROVE  IsFiniteSet(S) /\ Cardinality(S) \in Nat
BY SchedulerAssumption, FS_Subset, FS_CardinalityType

\* A balanced step conserves the permits and the slots.
LEMMA BalancedKeeps ==
  ASSUME PermitsConserved, TypeOK, NEW a \in Actors, Balanced(a)
  PROVE  PermitsConserved'
<1>1. /\ globalFree \in Nat /\ slotsFree \in Nat /\ siteFree \in [Sites -> Nat]
      /\ globalFree' \in Nat /\ slotsFree' \in Nat /\ siteFree' \in [Sites -> Nat]
      /\ GlobalConcurrency \in Nat /\ SiteConcurrency \in Nat /\ ManualSlots \in Nat
  BY SchedulerAssumption DEF Balanced, TypeOK
<1>2. globalFree' + Cardinality({b \in Actors : OuterGlobal(b)}')
                  + Cardinality({b \in Actors : InnerGlobal(b)}') = GlobalConcurrency
  <2> DEFINE O == {b \in Actors : OuterGlobal(b)}
             I == {b \in Actors : InnerGlobal(b)}
  <2>1. IsFiniteSet(O) /\ IsFiniteSet(I)
    BY ActorsFinite
  <2>2. \A b : b # a => /\ b \in O <=> b \in O'
                        /\ b \in I <=> b \in I'
    BY DEF Balanced, OuterGlobal, InnerGlobal
  <2>3. /\ a \in O <=> OuterGlobal(a)
        /\ a \in I <=> InnerGlobal(a)
        /\ a \in O' <=> OuterGlobal(a)'
        /\ a \in I' <=> InnerGlobal(a)'
    BY DEF OuterGlobal, InnerGlobal
  <2>4. /\ globalFree' + Count(a, O') + Count(a, I')
             = globalFree + Count(a, O) + Count(a, I)
        /\ globalFree \in Nat /\ globalFree' \in Nat
    <3>1. globalFree' + GlobalHeld(a)' = globalFree + GlobalHeld(a)
      BY DEF Balanced
    <3>2. GlobalHeld(a) = Count(a, O) + Count(a, I)
      BY <2>3 DEF GlobalHeld, Count
    <3>3. GlobalHeld(a)' = Count(a, O') + Count(a, I')
      BY <2>3 DEF GlobalHeld, Count
    <3>4. globalFree \in Nat /\ globalFree' \in Nat
      BY <1>1
    <3>5. QED
      BY <3>1, <3>2, <3>3, <3>4, CountType
  <2>5. globalFree + Cardinality(O) + Cardinality(I) = GlobalConcurrency
    BY DEF PermitsConserved
  <2> HIDE DEF O, I
  <2>6. /\ Cardinality(O) \in Nat /\ Cardinality(O') \in Nat
        /\ Cardinality(O') = Cardinality(O) + Count(a, O') - Count(a, O)
    BY <2>1, <2>2, CountOneMove
  <2>7. /\ Cardinality(I) \in Nat /\ Cardinality(I') \in Nat
        /\ Cardinality(I') = Cardinality(I) + Count(a, I') - Count(a, I)
    BY <2>1, <2>2, CountOneMove
  <2>8. globalFree' + Cardinality(O') + Cardinality(I') = GlobalConcurrency
    BY <2>4, <2>5, <2>6, <2>7, CountType
  <2>9. QED
    BY <2>8 DEF O, I
<1>3. ASSUME NEW s \in Sites
      PROVE  siteFree'[s] + Cardinality({b \in Actors : OuterSite(b) /\ Site(b) = s}')
                          + Cardinality({b \in Actors : InnerSite(b) /\ Site(b) = s}')
               = SiteConcurrency
  <2> DEFINE O == {b \in Actors : OuterSite(b) /\ Site(b) = s}
             I == {b \in Actors : InnerSite(b) /\ Site(b) = s}
  <2>1. IsFiniteSet(O) /\ IsFiniteSet(I)
    BY ActorsFinite
  <2>2. \A b : b # a => /\ b \in O <=> b \in O'
                        /\ b \in I <=> b \in I'
    BY DEF Balanced, OuterSite, OuterGlobal, InnerSite, Site
  <2>3. /\ a \in O <=> OuterSite(a) /\ Site(a) = s
        /\ a \in I <=> InnerSite(a) /\ Site(a) = s
        /\ a \in O' <=> (OuterSite(a) /\ Site(a) = s)'
        /\ a \in I' <=> (InnerSite(a) /\ Site(a) = s)'
    OBVIOUS
  <2>4. /\ siteFree'[s] + Count(a, O') + Count(a, I')
             = siteFree[s] + Count(a, O) + Count(a, I)
        /\ siteFree[s] \in Nat /\ siteFree'[s] \in Nat
    BY <1>1, <2>3 DEF Balanced, SiteHeld, Count
  <2>5. siteFree[s] + Cardinality(O) + Cardinality(I) = SiteConcurrency
    BY DEF PermitsConserved
  <2> HIDE DEF O, I
  <2>6. /\ Cardinality(O) \in Nat /\ Cardinality(O') \in Nat
        /\ Cardinality(O') = Cardinality(O) + Count(a, O') - Count(a, O)
    BY <2>1, <2>2, CountOneMove
  <2>7. /\ Cardinality(I) \in Nat /\ Cardinality(I') \in Nat
        /\ Cardinality(I') = Cardinality(I) + Count(a, I') - Count(a, I)
    BY <2>1, <2>2, CountOneMove
  <2>8. siteFree'[s] + Cardinality(O') + Cardinality(I') = SiteConcurrency
    BY <2>4, <2>5, <2>6, <2>7, CountType
  <2>9. QED
    BY <2>8 DEF O, I
<1>4. slotsFree' + Cardinality({c \in ManualChecks : pc[c] = "checking"}') = ManualSlots
  <2> DEFINE C == {c \in ManualChecks : pc[c] = "checking"}
  <2>1. IsFiniteSet(C)
    BY ActorsFinite DEF Actors
  <2>2. \A b : b # a => (b \in C <=> b \in C')
    BY DEF Actors, Balanced
  <2>3. /\ a \in C <=> a \in ManualChecks /\ pc[a] = "checking"
        /\ a \in C' <=> a \in ManualChecks /\ pc'[a] = "checking"
    OBVIOUS
  <2>4. /\ slotsFree' + Count(a, C') = slotsFree + Count(a, C)
        /\ slotsFree \in Nat /\ slotsFree' \in Nat
    BY <1>1, <2>3 DEF Balanced, SlotHeld, Count
  <2>5. slotsFree + Cardinality(C) = ManualSlots
    BY DEF PermitsConserved
  <2> HIDE DEF C
  <2>6. /\ Cardinality(C) \in Nat /\ Cardinality(C') \in Nat
        /\ Cardinality(C') = Cardinality(C) + Count(a, C') - Count(a, C)
    BY <2>1, <2>2, CountOneMove
  <2>7. slotsFree' + Cardinality(C') = ManualSlots
    BY <2>4, <2>5, <2>6, CountType
  <2>8. QED
    BY <2>7 DEF C
<1>5. QED
  BY <1>2, <1>3, <1>4 DEF PermitsConserved

-----------------------------------------------------------------------------
(* The steps.                                                              *)

\* The parts of the type invariant, for one actor.
LEMMA ActorTypes ==
  ASSUME TypeOK, NEW a \in Actors
  PROVE  /\ Site(a) \in Sites
         /\ globalFree \in Nat /\ slotsFree \in Nat /\ siteFree \in [Sites -> Nat]
BY SchedulerAssumption DEF TypeOK, Site

\* A move to another place that passes no semaphore.
LEMMA PlainMove ==
  ASSUME SchedulerInv, NEW a \in Actors, NEW there,
         Goto(a, there), UNCHANGED <<globalFree, siteFree, slotsFree>>,
         \A b \in Actors : b # a => page'[b] = page[b],
         \A s \in Sites : SiteHeld(a, s)' = SiteHeld(a, s),
         GlobalHeld(a)' = GlobalHeld(a), SlotHeld(a)' = SlotHeld(a)
  PROVE  Balanced(a)
BY ActorTypes DEF SchedulerInv, TypeOK, Goto, Balanced

\* Every step is balanced.
LEMMA WakeBalanced ==
  ASSUME SchedulerInv, NEW a \in Loops, Wake(a)
  PROVE  Balanced(a)
<1>1. a \in Actors /\ a \notin ManualChecks
  BY SchedulerAssumption DEF Actors
<1>2. pc[a] = "off" /\ pc'[a] = "global" /\ page' = page
  BY <1>1 DEF Wake, Goto, SchedulerInv, TypeOK
<1>3. /\ GlobalHeld(a) = 0 /\ GlobalHeld(a)' = 0
      /\ \A s \in Sites : SiteHeld(a, s) = 0 /\ SiteHeld(a, s)' = 0
      /\ SlotHeld(a) = 0 /\ SlotHeld(a)' = 0
  BY <1>1, <1>2 DEF GlobalHeld, SiteHeld, SlotHeld, OuterGlobal, InnerGlobal, OuterSite, InnerSite
<1>4. QED
  BY <1>1, <1>2, <1>3, PlainMove DEF Wake

LEMMA AcquireGlobalBalanced ==
  ASSUME SchedulerInv, NEW a \in Actors, AcquireGlobal(a)
  PROVE  Balanced(a)
<1>1. /\ a \notin ManualChecks
      /\ pc[a] = "global" => a \in Loops
  BY SchedulerAssumption DEF AcquireGlobal, SchedulerInv, PlacesFit, Actors
<1>2. /\ pc[a] \in {"global", "hookGlobal"} /\ page' = page
      /\ pc'[a] = IF pc[a] = "global" THEN "site" ELSE "hookSite"
      /\ \A b \in Actors : b # a => pc'[b] = pc[b]
      /\ globalFree > 0 /\ globalFree' = globalFree - 1
      /\ siteFree' = siteFree /\ slotsFree' = slotsFree
  BY DEF AcquireGlobal, Goto, SchedulerInv, TypeOK
<1>3. /\ GlobalHeld(a) \in Nat /\ GlobalHeld(a)' = GlobalHeld(a) + 1
      /\ \A s \in Sites : SiteHeld(a, s)' = SiteHeld(a, s)
      /\ SlotHeld(a) = 0 /\ SlotHeld(a)' = 0
  BY <1>1, <1>2 DEF GlobalHeld, SiteHeld, SlotHeld, OuterGlobal, InnerGlobal,
                    OuterSite, InnerSite, Site
<1>4. globalFree \in Nat /\ slotsFree \in Nat /\ siteFree \in [Sites -> Nat]
  BY ActorTypes DEF SchedulerInv
<1>5. QED
  BY <1>2, <1>3, <1>4 DEF Balanced

LEMMA AcquireSiteBalanced ==
  ASSUME SchedulerInv, NEW a \in Actors, AcquireSite(a)
  PROVE  Balanced(a)
<1>1. /\ a \notin ManualChecks
      /\ pc[a] = "site" => a \in Loops
  BY SchedulerAssumption DEF AcquireSite, SchedulerInv, PlacesFit, Actors
<1>2. /\ pc[a] \in {"site", "hookSite"} /\ page' = page
      /\ pc'[a] = IF pc[a] = "site" THEN "checking" ELSE "hookCheck"
      /\ \A b \in Actors : b # a => pc'[b] = pc[b]
      /\ siteFree[Site(a)] > 0
      /\ siteFree' = [siteFree EXCEPT ![Site(a)] = siteFree[Site(a)] - 1]
      /\ globalFree' = globalFree /\ slotsFree' = slotsFree
  BY DEF AcquireSite, Goto, SchedulerInv, TypeOK
<1>3. /\ GlobalHeld(a)' = GlobalHeld(a)
      /\ \A s \in Sites : /\ SiteHeld(a, s) \in Nat
                          /\ SiteHeld(a, s)' = SiteHeld(a, s) + (IF s = Site(a) THEN 1 ELSE 0)
      /\ SlotHeld(a) = 0 /\ SlotHeld(a)' = 0
  BY <1>1, <1>2 DEF GlobalHeld, SiteHeld, SlotHeld, OuterGlobal, InnerGlobal,
                    OuterSite, InnerSite, Site
<1>4. /\ globalFree \in Nat /\ slotsFree \in Nat /\ siteFree \in [Sites -> Nat]
      /\ Site(a) \in Sites
  BY ActorTypes DEF SchedulerInv
<1>5. \A s \in Sites : /\ siteFree'[s] \in Nat
                       /\ siteFree'[s] = siteFree[s] - (IF s = Site(a) THEN 1 ELSE 0)
  BY <1>2, <1>4
<1>6. siteFree' \in [Sites -> Nat]
  BY <1>2, <1>4, <1>5
<1>7. \A s \in Sites : siteFree'[s] + SiteHeld(a, s)' = siteFree[s] + SiteHeld(a, s)
  BY <1>3, <1>4, <1>5
<1>8. QED
  BY <1>2, <1>3, <1>4, <1>6, <1>7 DEF Balanced

\* An actor that goes home gives back all it holds.
LEMMA ReleaseBalanced ==
  ASSUME SchedulerInv, NEW a \in Actors, NEW n \in Nat, a \notin ManualChecks,
         Release(a, n), Goto(a, "off"), page' = page, slotsFree' = slotsFree,
         GlobalHeld(a) = n,
         \A s \in Sites : SiteHeld(a, s) = IF s = Site(a) THEN n ELSE 0
  PROVE  Balanced(a)
<1>1. /\ pc'[a] = "off" /\ \A b \in Actors : b # a => pc'[b] = pc[b]
      /\ globalFree' = globalFree + n
      /\ siteFree' = [siteFree EXCEPT ![Site(a)] = siteFree[Site(a)] + n]
  BY DEF Goto, Release, SchedulerInv, TypeOK
<1>2. /\ GlobalHeld(a)' = 0
      /\ \A s \in Sites : SiteHeld(a, s)' = 0
      /\ SlotHeld(a) = 0 /\ SlotHeld(a)' = 0
  BY <1>1 DEF GlobalHeld, SiteHeld, SlotHeld, OuterGlobal, InnerGlobal, OuterSite, InnerSite
<1>3. /\ globalFree \in Nat /\ slotsFree \in Nat /\ siteFree \in [Sites -> Nat]
      /\ Site(a) \in Sites
  BY ActorTypes DEF SchedulerInv
<1>4. \A s \in Sites : /\ siteFree'[s] \in Nat
                       /\ siteFree'[s] = siteFree[s] + (IF s = Site(a) THEN n ELSE 0)
  BY <1>1, <1>3
<1>5. siteFree' \in [Sites -> Nat]
  BY <1>1, <1>3, <1>4
<1>6. \A s \in Sites : siteFree'[s] + SiteHeld(a, s)' = siteFree[s] + SiteHeld(a, s)
  BY <1>2, <1>3, <1>4
<1>7. QED
  BY <1>1, <1>2, <1>3, <1>5, <1>6 DEF Balanced

LEMMA CheckDoneBalanced ==
  ASSUME SchedulerInv, NEW a \in Loops, CheckDone(a)
  PROVE  Balanced(a)
<1>1. a \in Actors /\ a \in Loops /\ a \notin ManualChecks /\ pc[a] = "checking"
  BY SchedulerAssumption DEF CheckDone, Actors, Loops
<1>2. /\ GlobalHeld(a) = 1
      /\ \A s \in Sites : SiteHeld(a, s) = IF s = Site(a) THEN 1 ELSE 0
  BY <1>1 DEF GlobalHeld, SiteHeld, OuterGlobal, InnerGlobal, OuterSite, InnerSite
<1>3. QED
  BY <1>1, <1>2, ReleaseBalanced DEF CheckDone

\* The end of a handler gives back the hook's permits and, of a fast check, its own.
LEMMA HandlerDoneBalanced ==
  ASSUME SchedulerInv, NEW a \in Actors, HandlerDone(a)
  PROVE  Balanced(a)
<1> DEFINE n == (IF pc[a] = "hookCheck" THEN 1 ELSE 0) + (IF a \in Loops THEN 1 ELSE 0)
<1>1. /\ pc[a] \in {"engine", "hookCheck"} /\ a \notin ManualChecks /\ n \in Nat
      /\ Release(a, n) /\ Goto(a, "off") /\ page' = page /\ slotsFree' = slotsFree
  BY DEF HandlerDone, SchedulerInv, PlacesFit
<1>2. GlobalHeld(a) = n
  BY <1>1 DEF GlobalHeld, OuterGlobal, InnerGlobal
<1>3. \A s \in Sites : SiteHeld(a, s) = IF s = Site(a) THEN n ELSE 0
  BY <1>1 DEF SiteHeld, OuterGlobal, OuterSite, InnerSite
<1> HIDE DEF n
<1>4. QED
  BY <1>1, <1>2, <1>3, ReleaseBalanced

\* The moves that pass no semaphore: to the engine's lock, through it, to the hook.
LEMMA EngineMovesBalanced ==
  ASSUME SchedulerInv, NEW a \in Actors,
         \/ a \in FastLoops /\ FastProbed(a)
         \/ AcquireLock(a)
         \/ OutagePublished(a)
  PROVE  Balanced(a)
<1>1. a \notin ManualChecks
  BY SchedulerAssumption DEF Loops, AcquireLock, OutagePublished, SchedulerInv, PlacesFit
<1>2. PICK there \in {"lock", "engine", "hookGlobal"} :
        /\ Goto(a, there) /\ pc'[a] = there
        /\ pc[a] \in {"checking", "lock", "engine"}
        /\ pc[a] = "checking" => a \in Loops
        /\ page' = page /\ UNCHANGED <<globalFree, siteFree, slotsFree>>
  BY DEF FastProbed, AcquireLock, OutagePublished, Goto, Loops, SchedulerInv, TypeOK
<1>3. /\ GlobalHeld(a)' = GlobalHeld(a)
      /\ \A s \in Sites : SiteHeld(a, s)' = SiteHeld(a, s)
      /\ SlotHeld(a)' = SlotHeld(a)
  BY <1>1, <1>2 DEF GlobalHeld, SiteHeld, SlotHeld, OuterGlobal, InnerGlobal,
                    OuterSite, InnerSite, Site
<1>4. QED
  BY <1>2, <1>3, PlainMove

LEMMA PostBalanced ==
  ASSUME SchedulerInv, NEW a \in Webhooks, NEW p \in Pages, Post(a, p)
  PROVE  Balanced(a)
<1>1. a \in Actors /\ a \notin Loops /\ a \notin ManualChecks
  BY SchedulerAssumption DEF Actors
<1>2. /\ pc[a] = "off" /\ pc'[a] = "lock"
      /\ \A b \in Actors : b # a => page'[b] = page[b]
  BY <1>1 DEF Post, Goto, SchedulerInv, TypeOK
<1>3. /\ GlobalHeld(a) = 0 /\ GlobalHeld(a)' = 0
      /\ \A s \in Sites : SiteHeld(a, s) = 0 /\ SiteHeld(a, s)' = 0
      /\ SlotHeld(a) = 0 /\ SlotHeld(a)' = 0
  BY <1>1, <1>2 DEF GlobalHeld, SiteHeld, SlotHeld, OuterGlobal, InnerGlobal, OuterSite, InnerSite
<1>4. QED
  BY <1>1, <1>2, <1>3, PlainMove DEF Post

LEMMA ManualBalanced ==
  ASSUME SchedulerInv, NEW a \in ManualChecks,
         (\E p \in Pages : ManualStart(a, p)) \/ ManualDone(a)
  PROVE  Balanced(a)
<1>1. a \in Actors /\ a \notin Loops
  BY SchedulerAssumption DEF Actors
<1>2. globalFree \in Nat /\ slotsFree \in Nat /\ siteFree \in [Sites -> Nat]
  BY <1>1, ActorTypes DEF SchedulerInv
<1>3. /\ pc[a] \in {"off", "checking"} /\ pc'[a] \in {"off", "checking"}
      /\ \A b \in Actors : b # a => pc'[b] = pc[b] /\ page'[b] = page[b]
      /\ globalFree' = globalFree /\ siteFree' = siteFree
      /\ slotsFree' \in Nat
      /\ slotsFree' + SlotHeld(a)' = slotsFree + SlotHeld(a)
  BY <1>1, <1>2 DEF ManualStart, ManualDone, Goto, SchedulerInv, TypeOK, SlotHeld
<1>4. /\ GlobalHeld(a) = 0 /\ GlobalHeld(a)' = 0
      /\ \A s \in Sites : SiteHeld(a, s) = 0 /\ SiteHeld(a, s)' = 0
  BY <1>1, <1>3 DEF GlobalHeld, SiteHeld, OuterGlobal, InnerGlobal, OuterSite, InnerSite
<1>5. QED
  BY <1>2, <1>3, <1>4 DEF Balanced

-----------------------------------------------------------------------------
(* The invariant.                                                          *)

\* The permits that are free after a step are at most all of them.
LEMMA FreeIsBounded ==
  ASSUME PermitsConserved', globalFree' \in Nat, slotsFree' \in Nat, siteFree' \in [Sites -> Nat]
  PROVE  /\ globalFree' \in 0 .. GlobalConcurrency
         /\ siteFree' \in [Sites -> 0 .. SiteConcurrency]
         /\ slotsFree' \in 0 .. ManualSlots
<1> USE SchedulerAssumption
<1>1. globalFree' \in 0 .. GlobalConcurrency
  <2>1. /\ Cardinality({a \in Actors : OuterGlobal(a)}') \in Nat
        /\ Cardinality({a \in Actors : InnerGlobal(a)}') \in Nat
    BY ActorsFinite
  <2>2. QED
    BY <2>1 DEF PermitsConserved
<1>2. ASSUME NEW s \in Sites PROVE siteFree'[s] \in 0 .. SiteConcurrency
  <2>1. /\ Cardinality({a \in Actors : OuterSite(a) /\ Site(a) = s}') \in Nat
        /\ Cardinality({a \in Actors : InnerSite(a) /\ Site(a) = s}') \in Nat
    BY ActorsFinite
  <2>2. QED
    BY <2>1 DEF PermitsConserved
<1>3. slotsFree' \in 0 .. ManualSlots
  <2>1. Cardinality({c \in ManualChecks : pc[c] = "checking"}') \in Nat
    BY ActorsFinite DEF Actors
  <2>2. QED
    BY <2>1 DEF PermitsConserved
<1>4. QED
  BY <1>1, <1>2, <1>3

\* A balanced step of an actor that keeps to its places keeps the invariant.
LEMMA BalancedStepInv ==
  ASSUME SchedulerInv, NEW a \in Actors, Balanced(a), NEW there, Goto(a, there),
         there \in {"off", "global", "site", "checking", "lock", "engine",
                    "hookGlobal", "hookSite", "hookCheck"},
         a \in DeepLoops => there \in {"off", "global", "site", "checking"},
         a \in Webhooks => there \in {"off", "lock", "engine", "hookGlobal",
                                      "hookSite", "hookCheck"},
         a \in ManualChecks => there \in {"off", "checking"},
         page' \in [Actors -> Pages],
         holder' \in [Pages -> Actors \cup {Nobody}]
  PROVE  SchedulerInv'
<1>1. PermitsConserved'
  BY BalancedKeeps DEF SchedulerInv
<1>2. /\ globalFree' \in 0 .. GlobalConcurrency
      /\ siteFree' \in [Sites -> 0 .. SiteConcurrency]
      /\ slotsFree' \in 0 .. ManualSlots
  <2>1. globalFree' \in Nat /\ slotsFree' \in Nat /\ siteFree' \in [Sites -> Nat]
    BY DEF Balanced
  <2>2. QED
    BY <1>1, <2>1, FreeIsBounded
<1>3. pc' = [pc EXCEPT ![a] = there] /\ pc'[a] = there
      /\ \A b \in Actors : b # a => pc'[b] = pc[b]
  BY DEF Goto, SchedulerInv, TypeOK
<1>4. TypeOK'
  BY <1>2, <1>3 DEF SchedulerInv, TypeOK
<1>5. PlacesFit'
  BY <1>3 DEF SchedulerInv, PlacesFit
<1>6. QED
  BY <1>1, <1>4, <1>5 DEF SchedulerInv

\* Every step of the scheduler keeps the invariant.
LEMMA SchedulerStep == SchedulerInv /\ [Next]_vars => SchedulerInv'
<1> SUFFICES ASSUME SchedulerInv, [Next]_vars PROVE SchedulerInv'
  OBVIOUS
<1>1. /\ page \in [Actors -> Pages] /\ holder \in [Pages -> Actors \cup {Nobody}]
      /\ \A a \in Actors : page[a] \in Pages
      /\ Loops \subseteq Actors /\ DeepLoops \subseteq Loops /\ FastLoops \subseteq Loops
      /\ Webhooks \subseteq Actors /\ ManualChecks \subseteq Actors
  BY DEF SchedulerInv, TypeOK, Actors, Loops
<1>2. ASSUME NEW a \in Loops, Wake(a) PROVE SchedulerInv'
  <2>1. Balanced(a) /\ a \in Actors /\ a \notin Webhooks /\ a \notin ManualChecks
    BY <1>1, <1>2, WakeBalanced, SchedulerAssumption
  <2>2. Goto(a, "global") /\ page' = page /\ holder' = holder
    BY <1>2 DEF Wake
  <2>3. QED
    BY <1>1, <2>1, <2>2, BalancedStepInv
<1>3. ASSUME NEW a \in Actors, AcquireGlobal(a) PROVE SchedulerInv'
  <2>1. PICK there \in {"site", "hookSite"} :
          /\ Goto(a, there)
          /\ there = "site" => pc[a] = "global"
          /\ there = "hookSite" => pc[a] = "hookGlobal"
    BY <1>3 DEF AcquireGlobal
  <2>2. /\ a \in DeepLoops => there = "site"
        /\ a \in Webhooks => there = "hookSite"
        /\ a \notin ManualChecks
    BY <1>3, <2>1 DEF AcquireGlobal, SchedulerInv, PlacesFit
  <2>3. page' = page /\ holder' = holder
    BY <1>3 DEF AcquireGlobal
  <2>4. Balanced(a)
    BY <1>3, AcquireGlobalBalanced
  <2>5. QED
    BY <1>1, <2>1, <2>2, <2>3, <2>4, BalancedStepInv
<1>4. ASSUME NEW a \in Actors, AcquireSite(a) PROVE SchedulerInv'
  <2>1. PICK there \in {"checking", "hookCheck"} :
          /\ Goto(a, there)
          /\ there = "checking" => pc[a] = "site"
          /\ there = "hookCheck" => pc[a] = "hookSite"
    BY <1>4 DEF AcquireSite
  <2>2. /\ a \in DeepLoops => there = "checking"
        /\ a \in Webhooks => there = "hookCheck"
        /\ a \notin ManualChecks
    BY <1>4, <2>1 DEF AcquireSite, SchedulerInv, PlacesFit
  <2>3. page' = page /\ holder' = holder
    BY <1>4 DEF AcquireSite
  <2>4. Balanced(a)
    BY <1>4, AcquireSiteBalanced
  <2>5. QED
    BY <1>1, <2>1, <2>2, <2>3, <2>4, BalancedStepInv
<1>5. ASSUME NEW a \in Actors, AcquireLock(a) PROVE SchedulerInv'
  <2>1. /\ Goto(a, "engine") /\ page' = page /\ pc[a] = "lock"
        /\ holder' = [holder EXCEPT ![page[a]] = a]
    BY <1>5 DEF AcquireLock
  <2>2. a \notin DeepLoops /\ a \notin ManualChecks
    BY <1>5, <2>1 DEF SchedulerInv, PlacesFit
  <2>3. holder' \in [Pages -> Actors \cup {Nobody}]
    BY <1>1, <2>1
  <2>4. Balanced(a)
    BY <1>5, EngineMovesBalanced
  <2>5. QED
    BY <1>1, <2>1, <2>2, <2>3, <2>4, BalancedStepInv
<1>6. ASSUME NEW a \in Loops, CheckDone(a) PROVE SchedulerInv'
  <2>1. Goto(a, "off") /\ page' = page /\ holder' = holder /\ a \in Actors
    BY <1>1, <1>6 DEF CheckDone
  <2>2. Balanced(a)
    BY <1>6, CheckDoneBalanced
  <2>3. QED
    BY <1>1, <2>1, <2>2, BalancedStepInv
<1>7. ASSUME NEW a \in FastLoops, FastProbed(a) PROVE SchedulerInv'
  <2>1. /\ Goto(a, "lock") /\ page' = page /\ holder' = holder /\ a \in Actors
        /\ a \notin DeepLoops /\ a \notin ManualChecks
    BY <1>1, <1>7, SchedulerAssumption DEF FastProbed
  <2>2. Balanced(a)
    BY <1>7, <2>1, EngineMovesBalanced
  <2>3. QED
    BY <1>1, <2>1, <2>2, BalancedStepInv
<1>8. ASSUME NEW a \in Actors, HandlerDone(a) PROVE SchedulerInv'
  <2>1. /\ Goto(a, "off") /\ page' = page
        /\ holder' = [holder EXCEPT ![page[a]] = Nobody]
    BY <1>8 DEF HandlerDone
  <2>2. holder' \in [Pages -> Actors \cup {Nobody}]
    BY <1>1, <2>1
  <2>3. Balanced(a)
    BY <1>8, HandlerDoneBalanced
  <2>4. QED
    BY <1>1, <2>1, <2>2, <2>3, BalancedStepInv
<1>9. ASSUME NEW a \in Actors, OutagePublished(a) PROVE SchedulerInv'
  <2>1. /\ Goto(a, "hookGlobal") /\ page' = page /\ holder' = holder /\ pc[a] = "engine"
    BY <1>9 DEF OutagePublished
  <2>2. a \notin DeepLoops /\ a \notin ManualChecks
    BY <1>9, <2>1 DEF SchedulerInv, PlacesFit
  <2>3. Balanced(a)
    BY <1>9, EngineMovesBalanced
  <2>4. QED
    BY <1>1, <2>1, <2>2, <2>3, BalancedStepInv
<1>10. ASSUME NEW a \in Webhooks, NEW p \in Pages, Post(a, p) PROVE SchedulerInv'
  <2>1. /\ Goto(a, "lock") /\ page' = [page EXCEPT ![a] = p] /\ holder' = holder
        /\ a \in Actors /\ a \notin DeepLoops /\ a \notin ManualChecks
    BY <1>1, <1>10, SchedulerAssumption DEF Post
  <2>2. page' \in [Actors -> Pages]
    BY <1>1, <2>1
  <2>3. Balanced(a)
    BY <1>10, PostBalanced
  <2>4. QED
    BY <1>1, <2>1, <2>2, <2>3, BalancedStepInv
<1>11. ASSUME NEW a \in ManualChecks, (\E p \in Pages : ManualStart(a, p)) \/ ManualDone(a)
       PROVE  SchedulerInv'
  <2>1. PICK there \in {"off", "checking"} : Goto(a, there)
    BY <1>11 DEF ManualStart, ManualDone
  <2>2. /\ page' \in [Actors -> Pages] /\ holder' = holder
        /\ a \in Actors /\ a \notin DeepLoops /\ a \notin Webhooks
    BY <1>1, <1>11, SchedulerAssumption DEF ManualStart, ManualDone
  <2>3. Balanced(a)
    BY <1>11, ManualBalanced
  <2>4. QED
    BY <1>1, <2>1, <2>2, <2>3, BalancedStepInv
<1>12. CASE UNCHANGED vars
  BY <1>12 DEF vars, SchedulerInv, TypeOK, PlacesFit, PermitsConserved,
     OuterGlobal, InnerGlobal, OuterSite, InnerSite, Site
<1>13. QED
  BY <1>2, <1>3, <1>4, <1>5, <1>6, <1>7, <1>8, <1>9, <1>10, <1>11, <1>12 DEF Next, Proceed

\* At the start nobody holds a permit, a slot or a lock.
LEMMA InitSchedulerInv == Init => SchedulerInv
<1> SUFFICES ASSUME Init PROVE SchedulerInv
  OBVIOUS
<1> USE SchedulerAssumption DEF Init
<1>1. TypeOK
  BY DEF TypeOK
<1>2. PlacesFit
  BY DEF PlacesFit
<1>3. /\ {a \in Actors : OuterGlobal(a)} = {} /\ {a \in Actors : InnerGlobal(a)} = {}
      /\ {c \in ManualChecks : pc[c] = "checking"} = {}
      /\ \A s \in Sites : /\ {a \in Actors : OuterSite(a) /\ Site(a) = s} = {}
                          /\ {a \in Actors : InnerSite(a) /\ Site(a) = s} = {}
  BY DEF OuterGlobal, InnerGlobal, OuterSite, InnerSite, Actors
<1>4. Cardinality({}) = 0
  BY FS_EmptySet
<1>5. PermitsConserved
  BY <1>3, <1>4 DEF PermitsConserved
<1>6. QED
  BY <1>1, <1>2, <1>5 DEF SchedulerInv

\* As many checks run as permits are held at most: a loop that checks holds its
\* own, a hook that checks holds the inner ones.
LEMMA RunningHoldPermits ==
  ASSUME SchedulerInv PROVE SchedulerWithinBudget
<1> USE SchedulerAssumption
<1>1. ASSUME NEW R \in SUBSET Actors, NEW O \in SUBSET Actors, NEW I \in SUBSET Actors,
             R \subseteq O \cup I
      PROVE  /\ Cardinality(R) \in Nat /\ Cardinality(O) \in Nat /\ Cardinality(I) \in Nat
             /\ Cardinality(R) <= Cardinality(O) + Cardinality(I)
  <2>1. IsFiniteSet(O) /\ IsFiniteSet(I) /\ IsFiniteSet(O \cup I) /\ IsFiniteSet(O \cap I)
    BY ActorsFinite
  <2>2. Cardinality(R) <= Cardinality(O \cup I)
    BY <1>1, <2>1, FS_Subset
  <2>3. Cardinality(O \cup I) = Cardinality(O) + Cardinality(I) - Cardinality(O \cap I)
    BY <2>1, FS_Union
  <2>4. /\ Cardinality(R) \in Nat /\ Cardinality(O) \in Nat /\ Cardinality(I) \in Nat
        /\ Cardinality(O \cap I) \in Nat /\ Cardinality(O \cup I) \in Nat
    BY ActorsFinite
  <2>5. QED
    BY <2>2, <2>3, <2>4
<1> DEFINE running == {a \in Loops \cup Webhooks : Running(a)}
<1>2. /\ running \subseteq Actors
      /\ \A a \in running : /\ OuterGlobal(a) \/ InnerGlobal(a)
                            /\ OuterSite(a) \/ InnerSite(a)
  BY DEF Actors, Running, SchedulerInv, PlacesFit, OuterGlobal, InnerGlobal, OuterSite, InnerSite
<1>3. Cardinality(running) <= GlobalConcurrency
  <2> DEFINE O == {a \in Actors : OuterGlobal(a)}
             I == {a \in Actors : InnerGlobal(a)}
  <2>1. running \subseteq O \cup I
    BY <1>2
  <2>2. globalFree + Cardinality(O) + Cardinality(I) = GlobalConcurrency /\ globalFree \in Nat
    BY DEF SchedulerInv, PermitsConserved, TypeOK
  <2>3. O \in SUBSET Actors /\ I \in SUBSET Actors
    OBVIOUS
  <2> HIDE DEF O, I, running
  <2>4. QED
    BY <1>1, <1>2, <2>1, <2>2, <2>3
<1>4. ASSUME NEW s \in Sites
      PROVE  Cardinality({a \in running : Site(a) = s}) <= SiteConcurrency
  <2> DEFINE R == {a \in running : Site(a) = s}
             O == {a \in Actors : OuterSite(a) /\ Site(a) = s}
             I == {a \in Actors : InnerSite(a) /\ Site(a) = s}
  <2>1. R \subseteq O \cup I
    BY <1>2
  <2>2. siteFree[s] + Cardinality(O) + Cardinality(I) = SiteConcurrency /\ siteFree[s] \in Nat
    BY DEF SchedulerInv, PermitsConserved, TypeOK
  <2>3. O \in SUBSET Actors /\ I \in SUBSET Actors /\ R \in SUBSET Actors
    BY <1>2
  <2> HIDE DEF O, I, R
  <2>4. Cardinality(R) <= SiteConcurrency
    BY <1>1, <2>1, <2>2, <2>3
  <2>5. QED
    BY <2>4 DEF R
<1>5. QED
  BY <1>3, <1>4 DEF SchedulerWithinBudget

-----------------------------------------------------------------------------
\* The invariant of the scheduler holds in every reachable state: permits and
\* slots are conserved, and every actor is where its kind may be.
THEOREM SchedulerCorrect == Spec => []SchedulerInv
<1>1. QED
  BY InitSchedulerInv, SchedulerStep, PTL DEF Spec

\* Actors, semaphores, locks and slots stay well formed.
THEOREM SchedulerTypeCorrect == Spec => []TypeOK
<1>1. SchedulerInv => TypeOK
  BY DEF SchedulerInv
<1>2. QED
  BY <1>1, SchedulerCorrect, PTL

\* For any budgets and any number of loops, webhooks and manual checks, no more
\* checks run than the budgets allow and no permit or slot is lost or invented.
THEOREM BudgetsAlwaysHold == Spec => []BudgetsHold
<1>1. SchedulerInv => BudgetsHold
  BY RunningHoldPermits DEF SchedulerInv, BudgetsHold
<1>2. QED
  BY <1>1, SchedulerCorrect, PTL
=============================================================================
