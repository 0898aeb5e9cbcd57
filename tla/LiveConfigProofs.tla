-------------------------- MODULE LiveConfigProofs --------------------------
(***************************************************************************)
(* For any number of saves in flight, any manifests and any settings: the  *)
(* manifest saved last is the one that is scheduled once all saves are     *)
(* answered, saves that come one at a time leave one scheduler, and a      *)
(* change that needs a restart was reported.                               *)
(***************************************************************************)
EXTENDS LiveConfig, FiniteSetTheorems, TLAPS

NotYetBorn == {g \in Generations : gen[g] = Unborn}

\* Some save waits for g to be over.
Awaited(g) == \E s \in Stopping : saver[s].victim = g

\* There is a task to create for each save in flight.
RoomInv == Cardinality(NotYetBorn) >= Cardinality(Stopping)

\* The current scheduler was built from live, which is behind only while a save is
\* in flight; unless a save waits for it, it runs or has nothing to do.
CurrentInv ==
  /\ gen[current] # Unborn /\ gen[current].manifest = live
  /\ Stopping = {} => live = saved
  /\ \/ Awaited(current)
     \/ gen[current].state = "running"
     \/ gen[current].state = "done" /\ LoopsOf[live] = {}

\* A task that is waited for was cancelled; of a task that was cancelled, or had nothing
\* to do, only loops that lost the cancellation go on; and no task has a loop that its
\* manifest does not ask for.
Over == {"stopping", "done"}

LoopsInv ==
  /\ \A g \in Generations : Awaited(g) => gen[g].state \in Over
  /\ \A g \in Generations, l \in Loops :
       gen[g].state \in Over /\ loop[g][l] \in {"sleeping", "checking"} => <<g, l>> \in survivors
  /\ \A g \in Generations, l \in Loops :
       loop[g][l] # "none" => gen[g] # Unborn /\ l \in LoopsOf[gen[g].manifest]

\* Without overlap there is one save at a time, and it waits for the current task.
SerialInv ==
  ~overlapped =>
    /\ \A s, t \in Stopping : s = t
    /\ \A s \in Stopping : saver[s].victim = current
    /\ OnlyCurrentChecks

\* A save that will have to report that a restart is due.
WillReport(s) == saver[s].pc = "applying" /\ saver[s].new # saver[s].previous

ReportInv ==
  settings # startup => reported \/ \E s \in Stopping : WillReport(s)

LiveInv ==
  /\ TypeOK
  /\ RoomInv
  /\ CurrentInv
  /\ LoopsInv
  /\ SerialInv
  /\ ReportInv

GenType == {Unborn} \cup [state : {"running", "stopping", "done"}, manifest : Manifests]

LoopType == [Loops -> {"none", "sleeping", "checking", "unwinding"}]

Saving == [pc : {"saving"}, victim : Generations, manifest : Manifests]

Applying ==
  [pc : {"applying"}, victim : Generations, previous : ColdSettings, new : ColdSettings]

\* A save in flight is one of the two kinds, and waits for some task.
LEMMA SaverTypes ==
  ASSUME TypeOK
  PROVE  /\ \A s \in Stopping : saver[s] \in Saving \cup Applying /\ saver[s].victim \in Generations
         /\ \A r \in Saving \cup Applying : r # Idle
BY DEF TypeOK, Stopping, Saving, Applying, Idle

LEMMA GenTypes ==
  ASSUME TypeOK, NEW g \in Generations
  PROVE  /\ gen[g] \in GenType
         /\ gen[g] # Unborn <=> gen[g].state # "unborn"
         /\ gen[g] # Unborn => gen[g] \in [state : {"running", "stopping", "done"},
                                           manifest : Manifests]
BY DEF TypeOK, GenType, Unborn

LEMMA FiniteParts ==
  ASSUME TRUE
  PROVE  /\ IsFiniteSet(NotYetBorn) /\ Cardinality(NotYetBorn) \in Nat
         /\ IsFiniteSet(Stopping) /\ Cardinality(Stopping) \in Nat
<1>1. NotYetBorn \subseteq Generations /\ Stopping \subseteq Savers
  BY DEF NotYetBorn, Stopping
<1>2. QED
  BY <1>1, ConfigAssumption, FS_Subset, FS_CardinalityType

LEMMA FinitePartsNext ==
  ASSUME TRUE
  PROVE  /\ IsFiniteSet(NotYetBorn') /\ Cardinality(NotYetBorn') \in Nat
         /\ IsFiniteSet(Stopping') /\ Cardinality(Stopping') \in Nat
<1>1. NotYetBorn' \subseteq Generations /\ Stopping' \subseteq Savers
  BY DEF NotYetBorn, Stopping
<1>2. QED
  BY <1>1, ConfigAssumption, FS_Subset, FS_CardinalityType

\* Starting a scheduler takes a new task and leaves the others alone.
LEMMA StartEffect ==
  ASSUME TypeOK, NotYetBorn # {}, NEW m \in Manifests, Start(m)
  PROVE  /\ current' \in NotYetBorn /\ live' = m /\ startup' = startup
         /\ gen' \in [Generations -> GenType] /\ loop' \in [Generations -> LoopType]
         /\ gen'[current'] = Started(m) /\ Started(m) # Unborn
         /\ loop'[current'] = Sleeping(m)
         /\ \A g \in Generations \ {current'} : gen'[g] = gen[g] /\ loop'[g] = loop[g]
         /\ NotYetBorn' = NotYetBorn \ {current'}
<1>1. current' = CHOOSE g \in Generations : gen[g] = Unborn
  BY DEF Start
<1>2. current' \in NotYetBorn
  BY <1>1 DEF NotYetBorn
<1>3. /\ live' = m /\ startup' = startup
      /\ gen' = [gen EXCEPT ![current'] = Started(m)]
      /\ loop' = [loop EXCEPT ![current'] = Sleeping(m)]
  BY DEF Start
<1>4. Started(m) \in GenType /\ Started(m) # Unborn
  BY DEF Started, GenType, Unborn
<1>5. Sleeping(m) \in LoopType
  BY DEF Sleeping, LoopType
<1>6. gen \in [Generations -> GenType] /\ loop \in [Generations -> LoopType]
      /\ current' \in Generations
  BY <1>2 DEF TypeOK, GenType, LoopType, NotYetBorn
<1>7. gen' \in [Generations -> GenType] /\ loop' \in [Generations -> LoopType]
  BY <1>3, <1>4, <1>5, <1>6
<1>8. gen'[current'] = Started(m) /\ loop'[current'] = Sleeping(m)
      /\ \A g \in Generations \ {current'} : gen'[g] = gen[g] /\ loop'[g] = loop[g]
  BY <1>3, <1>6
<1>9. NotYetBorn' = NotYetBorn \ {current'}
  BY <1>2, <1>4, <1>8 DEF NotYetBorn
<1>10. QED
  BY <1>2, <1>3, <1>4, <1>7, <1>8, <1>9

\* Cancelling a task leaves it no loop that goes on, unless it lost a cancellation before.
LEMMA CancelEffect ==
  ASSUME TypeOK, LoopsInv, NEW g \in Generations, gen[g] # Unborn, gen[g].state # "done",
         Cancel(g)
  PROVE  /\ gen' \in [Generations -> GenType] /\ loop' \in [Generations -> LoopType]
         /\ gen'[g] # Unborn /\ gen'[g].manifest = gen[g].manifest /\ gen'[g].state \in Over
         /\ \A l \in Loops : /\ loop'[g][l] \in {"sleeping", "checking"} => <<g, l>> \in survivors
                             /\ loop'[g][l] # "none" => loop[g][l] # "none"
         /\ \A h \in Generations \ {g} : gen'[h] = gen[h] /\ loop'[h] = loop[h]
         /\ NotYetBorn' = NotYetBorn
<1> DEFINE left(l) == CASE loop[g][l] = "sleeping" -> "none"
                        [] loop[g][l] = "checking" -> "unwinding"
                        [] OTHER -> loop[g][l]
           cancelled == [loop EXCEPT ![g] = [l \in Loops |-> left(l)]]
<1>1. /\ gen' = [gen EXCEPT ![g].state = "stopping"]
      /\ loop' = cancelled \/ (GatherOver(g) /\ loop' = loop)
  BY DEF Cancel
<1>2. gen[g] \in [state : {"running", "stopping", "done"}, manifest : Manifests]
      /\ gen \in [Generations -> GenType] /\ loop \in [Generations -> LoopType]
  BY GenTypes DEF TypeOK, GenType, LoopType
<1>3. gen'[g] = [gen[g] EXCEPT !.state = "stopping"]
      /\ \A h \in Generations \ {g} : gen'[h] = gen[h]
  BY <1>1, <1>2
<1>4. [gen[g] EXCEPT !.state = "stopping"] \in [state : {"stopping"}, manifest : Manifests]
      /\ [gen[g] EXCEPT !.state = "stopping"].manifest = gen[g].manifest
  BY <1>2
<1>5. gen'[g] \in GenType /\ gen'[g] # Unborn /\ gen'[g].manifest = gen[g].manifest
      /\ gen'[g].state \in Over
  BY <1>3, <1>4 DEF GenType, Unborn, Over
<1>6. gen' \in [Generations -> GenType]
  BY <1>1, <1>2, <1>3, <1>5
<1>7. \A l \in Loops : left(l) \in {"none", "unwinding"} /\ (left(l) # "none" => loop[g][l] # "none")
  BY <1>2 DEF LoopType
<1>8. [l \in Loops |-> left(l)] \in LoopType
  BY <1>7 DEF LoopType
<1>9. /\ loop' \in [Generations -> LoopType]
      /\ \A h \in Generations \ {g} : loop'[h] = loop[h]
      /\ \A l \in Loops : /\ loop'[g][l] \in {"sleeping", "checking"} => <<g, l>> \in survivors
                          /\ loop'[g][l] # "none" => loop[g][l] # "none"
  <2>1. CASE loop' = cancelled
    <3>1. loop' \in [Generations -> LoopType] /\ loop'[g] = [l \in Loops |-> left(l)]
          /\ \A h \in Generations \ {g} : loop'[h] = loop[h]
      BY <1>2, <1>8, <2>1
    <3>2. QED
      BY <1>7, <3>1
  <2>2. CASE GatherOver(g) /\ loop' = loop
    BY <1>2, <2>2 DEF LoopsInv, GatherOver, Over
  <2>3. QED
    BY <1>1, <2>1, <2>2
<1>10. NotYetBorn' = NotYetBorn
  BY <1>3, <1>5 DEF NotYetBorn
<1>11. QED
  BY <1>3, <1>5, <1>6, <1>9, <1>10

\* A save that has to wait for the scheduler it cancels.
Waits(s, record) ==
  /\ saver[s] = Idle /\ CanStartOneMore
  /\ overlapped' = (overlapped \/ Stopping # {})
  /\ gen[current].state # "done" /\ Cancel(current)
  /\ saver' = [saver EXCEPT ![s] = record]
  /\ UNCHANGED procVars /\ UNCHANGED survivors

LEMMA WaitingKeeps ==
  ASSUME LiveInv, NEW s \in Savers, NEW record \in Saving \cup Applying,
         record.victim = current, Waits(s, record), saved' \in Manifests
  PROVE  /\ RoomInv' /\ CurrentInv' /\ LoopsInv' /\ SerialInv'
         /\ gen' \in [Generations -> GenType] /\ loop' \in [Generations -> LoopType]
         /\ saver' \in [Savers -> {Idle} \cup Saving \cup Applying]
         /\ s \notin Stopping /\ Stopping' = Stopping \cup {s} /\ saver'[s] = record
         /\ \A t \in Stopping : saver'[t] = saver[t]
<1>1. current \in Generations /\ gen[current] # Unborn /\ current' = current /\ live' = live
  BY DEF LiveInv, TypeOK, CurrentInv, Waits, procVars
<1>2. /\ gen' \in [Generations -> GenType] /\ loop' \in [Generations -> LoopType]
      /\ gen'[current] # Unborn /\ gen'[current].manifest = gen[current].manifest
      /\ gen'[current].state \in Over
      /\ \A l \in Loops :
           /\ loop'[current][l] \in {"sleeping", "checking"} => <<current, l>> \in survivors
           /\ loop'[current][l] # "none" => loop[current][l] # "none"
      /\ \A h \in Generations \ {current} : gen'[h] = gen[h] /\ loop'[h] = loop[h]
      /\ NotYetBorn' = NotYetBorn
  BY <1>1, CancelEffect DEF LiveInv, Waits
<1>3. saver \in [Savers -> {Idle} \cup Saving \cup Applying]
  BY DEF LiveInv, TypeOK, Saving, Applying
<1>4. record # Idle
  BY SaverTypes DEF LiveInv
<1>5. saver' \in [Savers -> {Idle} \cup Saving \cup Applying] /\ saver'[s] = record
      /\ \A t \in Savers \ {s} : saver'[t] = saver[t]
  BY <1>3 DEF Waits
<1>6. s \notin Stopping /\ Stopping' = Stopping \cup {s}
  BY <1>4, <1>5 DEF Stopping, Waits
<1>7. \A t \in Stopping : saver'[t] = saver[t]
  BY <1>5, <1>6 DEF Stopping
<1>8. RoomInv'
  <2>1. Cardinality(NotYetBorn) > Cardinality(Stopping)
    BY DEF Waits, CanStartOneMore, NotYetBorn
  <2>2. Cardinality(Stopping') = Cardinality(Stopping) + 1
    BY <1>6, FiniteParts, FS_AddElement
  <2>3. Cardinality(NotYetBorn') >= Cardinality(Stopping')
    BY <1>2, <2>1, <2>2, FiniteParts
  <2>4. QED
    BY <2>3 DEF RoomInv
<1>9. Awaited(current)'
  BY <1>1, <1>5, <1>6 DEF Awaited
<1>10. \A g \in Generations : Awaited(g)' => g = current \/ Awaited(g)
  BY <1>1, <1>5, <1>6, <1>7 DEF Awaited
<1>11. CurrentInv'
  BY <1>1, <1>2, <1>6, <1>9 DEF LiveInv, CurrentInv
<1>12. LoopsInv'
  <2>1. \A g \in Generations : Awaited(g)' => gen'[g].state \in Over
    BY <1>2, <1>10 DEF LiveInv, LoopsInv
  <2>2. \A g \in Generations, l \in Loops :
          gen'[g].state \in Over /\ loop'[g][l] \in {"sleeping", "checking"} => <<g, l>> \in survivors
    BY <1>2 DEF LiveInv, LoopsInv
  <2>3. \A g \in Generations, l \in Loops :
          loop'[g][l] # "none" => gen'[g] # Unborn /\ l \in LoopsOf[gen'[g].manifest]
    BY <1>1, <1>2 DEF LiveInv, LoopsInv
  <2>4. survivors' = survivors
    BY DEF Waits
  <2>5. QED
    BY <2>1, <2>2, <2>3, <2>4 DEF LoopsInv
<1>13. SerialInv'
  <2> SUFFICES ASSUME ~overlapped'
               PROVE  /\ \A t, u \in Stopping' : t = u
                      /\ \A t \in Stopping' : saver'[t].victim = current'
                      /\ OnlyCurrentChecks'
    BY DEF SerialInv
  <2>1. Stopping = {} /\ ~overlapped
    BY DEF Waits
  <2>2. Stopping' = {s}
    BY <1>6, <2>1
  <2>3. OnlyCurrentChecks
    BY <2>1 DEF LiveInv, SerialInv
  <2>4. OnlyCurrentChecks'
    BY <1>1, <1>2, <2>3 DEF OnlyCurrentChecks, Waits
  <2>5. QED
    BY <1>1, <1>5, <2>2, <2>4
<1>14. QED
  BY <1>2, <1>5, <1>6, <1>7, <1>8, <1>11, <1>12, <1>13

\* A save that finds the task over starts the next one at once.
StartsAtOnce(m) ==
  /\ CanStartOneMore
  /\ overlapped' = (overlapped \/ Stopping # {})
  /\ gen[current].state = "done"
  /\ Start(m)
  /\ UNCHANGED <<saver, survivors>>

LEMMA StartingAtOnceKeeps ==
  ASSUME LiveInv, NEW m \in Manifests, StartsAtOnce(m), saved' = m
  PROVE  /\ RoomInv' /\ CurrentInv' /\ LoopsInv' /\ SerialInv'
         /\ gen' \in [Generations -> GenType] /\ loop' \in [Generations -> LoopType]
         /\ live' = m /\ startup' = startup /\ current' \in Generations
<1>1. Cardinality(NotYetBorn) > Cardinality(Stopping)
  BY DEF StartsAtOnce, CanStartOneMore, NotYetBorn
<1>2. NotYetBorn # {}
  BY <1>1, FiniteParts, FS_EmptySet
<1>3. /\ current' \in NotYetBorn /\ live' = m /\ startup' = startup
      /\ gen' \in [Generations -> GenType] /\ loop' \in [Generations -> LoopType]
      /\ gen'[current'] = Started(m) /\ Started(m) # Unborn
      /\ loop'[current'] = Sleeping(m)
      /\ \A g \in Generations \ {current'} : gen'[g] = gen[g] /\ loop'[g] = loop[g]
      /\ NotYetBorn' = NotYetBorn \ {current'}
  BY <1>2, StartEffect DEF LiveInv, StartsAtOnce
<1>4. Stopping' = Stopping /\ \A g \in Generations : Awaited(g)' <=> Awaited(g)
  BY DEF StartsAtOnce, Stopping, Awaited
<1>5. current' \in Generations /\ gen[current'] = Unborn
  BY <1>3 DEF NotYetBorn
<1>6. RoomInv'
  <2>1. Cardinality(NotYetBorn') = Cardinality(NotYetBorn) - 1
    BY <1>3, FiniteParts, FS_RemoveElement
  <2>2. Cardinality(NotYetBorn') >= Cardinality(Stopping')
    BY <1>1, <1>4, <2>1, FiniteParts
  <2>3. QED
    BY <2>2 DEF RoomInv
<1>7. CurrentInv'
  BY <1>3 DEF CurrentInv, Started
<1>8. LoopsInv'
  <2>1. \A g \in Generations : Awaited(g)' => gen'[g].state \in Over
    BY <1>3, <1>4, <1>5 DEF LiveInv, LoopsInv, Unborn, Over
  <2>2. \A l \in Loops : loop'[current'][l] # "none" => l \in LoopsOf[gen'[current'].manifest]
    BY <1>3 DEF Started, Sleeping
  <2>3. \A g \in Generations, l \in Loops :
          loop'[g][l] # "none" => gen'[g] # Unborn /\ l \in LoopsOf[gen'[g].manifest]
    BY <1>3, <2>2 DEF LiveInv, LoopsInv
  <2>4. gen'[current'].state \notin Over
    BY <1>3 DEF Started, Over
  <2>5. \A g \in Generations, l \in Loops :
          gen'[g].state \in Over /\ loop'[g][l] \in {"sleeping", "checking"} => <<g, l>> \in survivors
    BY <1>3, <2>4 DEF LiveInv, LoopsInv
  <2>6. survivors' = survivors
    BY DEF StartsAtOnce
  <2>7. QED
    BY <2>1, <2>3, <2>5, <2>6 DEF LoopsInv
<1>9. SerialInv'
  <2> SUFFICES ASSUME ~overlapped'
               PROVE  Stopping' = {} /\ OnlyCurrentChecks'
    BY DEF SerialInv
  <2>1. Stopping = {} /\ ~overlapped
    BY DEF StartsAtOnce
  <2>2. LoopsOf[live] = {} /\ current \in Generations /\ gen[current].manifest = live
    BY <2>1 DEF StartsAtOnce, LiveInv, CurrentInv, Awaited, TypeOK
  <2>3. \A l \in Loops : loop[current][l] = "none"
    BY <2>2 DEF LiveInv, LoopsInv
  <2>4. OnlyCurrentChecks
    BY <2>1 DEF LiveInv, SerialInv
  <2>5. OnlyCurrentChecks'
    BY <1>3, <2>3, <2>4 DEF OnlyCurrentChecks, StartsAtOnce
  <2>6. QED
    BY <1>4, <2>1, <2>5
<1>10. QED
  BY <1>3, <1>5, <1>6, <1>7, <1>8, <1>9

LEMMA ReloadKeeps ==
  ASSUME LiveInv, NEW s \in Savers, Reload(s)
  PROVE  LiveInv'
<1>1. /\ s \in Stopping /\ Start(saved)
      /\ saver' = [saver EXCEPT ![s] = Idle]
      /\ UNCHANGED <<saved, settings, overlapped, survivors>>
  BY DEF Reload, Stopped, Stopping
<1>2. NotYetBorn # {} /\ Cardinality(NotYetBorn) >= Cardinality(Stopping)
  <2>1. Cardinality(Stopping) # 0
    BY <1>1, FiniteParts, FS_EmptySet
  <2>2. Cardinality(NotYetBorn) >= Cardinality(Stopping)
    BY DEF LiveInv, RoomInv
  <2>3. Cardinality(NotYetBorn) # 0
    BY <2>1, <2>2, FiniteParts
  <2>4. QED
    BY <2>2, <2>3, FS_EmptySet
<1>3. saved \in Manifests /\ TypeOK
  BY DEF LiveInv, TypeOK
<1>4. /\ current' \in NotYetBorn /\ live' = saved /\ startup' = startup
      /\ gen' \in [Generations -> GenType] /\ loop' \in [Generations -> LoopType]
      /\ gen'[current'] = Started(saved) /\ Started(saved) # Unborn
      /\ loop'[current'] = Sleeping(saved)
      /\ \A g \in Generations \ {current'} : gen'[g] = gen[g] /\ loop'[g] = loop[g]
      /\ NotYetBorn' = NotYetBorn \ {current'}
  BY <1>1, <1>2, <1>3, StartEffect
<1>5. current' \in Generations /\ gen[current'] = Unborn
  BY <1>4 DEF NotYetBorn
<1>6. saver \in [Savers -> {Idle} \cup Saving \cup Applying]
  BY DEF LiveInv, TypeOK, Saving, Applying
<1>7. saver' \in [Savers -> {Idle} \cup Saving \cup Applying] /\ saver'[s] = Idle
      /\ \A t \in Savers \ {s} : saver'[t] = saver[t]
  BY <1>1, <1>6
<1>8. Stopping' = Stopping \ {s}
  BY <1>7 DEF Stopping
<1>9. \A g \in Generations : Awaited(g)' => Awaited(g)
  BY <1>7, <1>8 DEF Awaited, Stopping
<1>10. RoomInv'
  <2>1. Cardinality(NotYetBorn') = Cardinality(NotYetBorn) - 1
    BY <1>4, FiniteParts, FS_RemoveElement
  <2>2. Cardinality(Stopping') = Cardinality(Stopping) - 1
    BY <1>1, <1>8, FiniteParts, FS_RemoveElement
  <2>3. Cardinality(NotYetBorn') >= Cardinality(Stopping')
    BY <1>2, <2>1, <2>2, FiniteParts
  <2>4. QED
    BY <2>3 DEF RoomInv
<1>11. CurrentInv'
  BY <1>1, <1>4 DEF CurrentInv, Started
<1>12. LoopsInv'
  <2>1. \A g \in Generations : Awaited(g)' => gen'[g].state \in Over
    BY <1>4, <1>5, <1>9 DEF LiveInv, LoopsInv, Unborn, Over
  <2>2. \A l \in Loops : loop'[current'][l] # "none" => l \in LoopsOf[gen'[current'].manifest]
    BY <1>4 DEF Started, Sleeping
  <2>3. \A g \in Generations, l \in Loops :
          loop'[g][l] # "none" => gen'[g] # Unborn /\ l \in LoopsOf[gen'[g].manifest]
    BY <1>4, <2>2 DEF LiveInv, LoopsInv
  <2>4. gen'[current'].state \notin Over
    BY <1>4 DEF Started, Over
  <2>5. \A g \in Generations, l \in Loops :
          gen'[g].state \in Over /\ loop'[g][l] \in {"sleeping", "checking"} => <<g, l>> \in survivors
    BY <1>4, <2>4 DEF LiveInv, LoopsInv
  <2>6. survivors' = survivors
    BY DEF Reload
  <2>7. QED
    BY <2>1, <2>3, <2>5, <2>6 DEF LoopsInv
<1>13. SerialInv'
  <2> SUFFICES ASSUME ~overlapped
               PROVE  Stopping' = {} /\ OnlyCurrentChecks'
    BY <1>1 DEF SerialInv
  <2>1. Stopping = {s} /\ saver[s].victim = current /\ OnlyCurrentChecks
    BY <1>1 DEF LiveInv, SerialInv
  <2>2. Awaited(current) /\ current \in Generations
    BY <1>1, <2>1, <1>3 DEF Awaited, TypeOK
  <2>3. \A l \in Loops : loop[current][l] \in {"sleeping", "checking"} => <<current, l>> \in survivors
    BY <2>2 DEF LiveInv, LoopsInv
  <2>4. OnlyCurrentChecks'
    BY <1>1, <1>4, <2>1, <2>3 DEF OnlyCurrentChecks
  <2>5. QED
    BY <1>8, <2>1, <2>4
<1>14. ReportInv'
  <2> SUFFICES ASSUME settings' # startup', ~reported'
               PROVE  \E t \in Stopping' : WillReport(t)'
    BY DEF ReportInv
  <2>1. PICK t \in Stopping : WillReport(t)
    <3>1. ~reported
      BY DEF Reload, Answer
    <3>2. settings # startup
      BY <1>1, <1>4
    <3>3. QED
      BY <3>1, <3>2 DEF LiveInv, ReportInv
  <2>2. t # s
    BY <2>1 DEF Reload, Answer, RestartRequired, WillReport
  <2>3. QED
    BY <1>7, <1>8, <2>1, <2>2 DEF WillReport, Stopping
<1>15. TypeOK'
  <2>1. reported' \in BOOLEAN
    BY <1>3 DEF Reload, Answer, TypeOK
  <2>2. QED
    BY <1>1, <1>3, <1>4, <1>5, <1>7, <2>1 DEF TypeOK, GenType, LoopType, Saving, Applying
<1>16. QED
  BY <1>10, <1>11, <1>12, <1>13, <1>14, <1>15 DEF LiveInv

LEMMA SaveManifestKeeps ==
  ASSUME LiveInv, NEW s \in Savers, NEW m \in Manifests, SaveManifest(s, m)
  PROVE  LiveInv'
<1>1. saved' = m /\ UNCHANGED <<settings, reported, survivors>> /\ TypeOK
  BY DEF SaveManifest, ReplaceManifest, LiveInv
<1>2. overlapped' \in BOOLEAN
  BY <1>1 DEF SaveManifest, TypeOK
<1>3. CASE gen[current].state = "done" /\ Start(m) /\ UNCHANGED saver
  <2>1. StartsAtOnce(m)
    BY <1>1, <1>3 DEF SaveManifest, StartsAtOnce
  <2>2. /\ RoomInv' /\ CurrentInv' /\ LoopsInv' /\ SerialInv'
        /\ gen' \in [Generations -> GenType] /\ loop' \in [Generations -> LoopType]
        /\ live' = m /\ startup' = startup /\ current' \in Generations
    BY <1>1, <2>1, StartingAtOnceKeeps
  <2>3. ReportInv'
    BY <1>1, <1>3, <2>2 DEF LiveInv, ReportInv, WillReport, Stopping
  <2>4. TypeOK'
    BY <1>1, <1>2, <1>3, <2>2 DEF TypeOK, GenType, LoopType
  <2>5. QED
    BY <2>2, <2>3, <2>4 DEF LiveInv
<1>4. CASE ~(gen[current].state = "done" /\ Start(m) /\ UNCHANGED saver)
  <2> DEFINE record == [pc |-> "saving", victim |-> current, manifest |-> m]
  <2>1. record \in Saving \cup Applying /\ record.victim = current
    BY <1>1 DEF Saving, TypeOK
  <2>2. Waits(s, record)
    BY <1>1, <1>4 DEF SaveManifest, Waits
  <2> HIDE DEF record
  <2>3. /\ RoomInv' /\ CurrentInv' /\ LoopsInv' /\ SerialInv'
        /\ gen' \in [Generations -> GenType] /\ loop' \in [Generations -> LoopType]
        /\ saver' \in [Savers -> {Idle} \cup Saving \cup Applying]
        /\ Stopping' = Stopping \cup {s}
        /\ \A t \in Stopping : saver'[t] = saver[t]
    BY <1>1, <2>1, <2>2, WaitingKeeps
  <2>4. UNCHANGED <<live, startup, current>>
    BY <2>2 DEF Waits, procVars
  <2>5. ReportInv'
    BY <1>1, <2>3, <2>4 DEF LiveInv, ReportInv, WillReport
  <2>6. TypeOK'
    BY <1>1, <1>2, <2>3, <2>4 DEF TypeOK, GenType, LoopType, Saving, Applying
  <2>7. QED
    BY <2>3, <2>5, <2>6 DEF LiveInv
<1>5. QED
  BY <1>3, <1>4

\* The hazard of the report: the settings may change back and forth while saves are
\* in flight, and each save compares with what it replaced.
LEMMA SaveSettingsKeeps ==
  ASSUME LiveInv, NEW s \in Savers, NEW c \in ColdSettings, SaveSettings(s, c)
  PROVE  LiveInv'
<1>1. settings' = c /\ saved' = saved /\ survivors' = survivors /\ TypeOK /\ saved \in Manifests
  BY DEF SaveSettings, ReplaceSettings, LiveInv, TypeOK
<1>2. overlapped' \in BOOLEAN
  BY <1>1 DEF SaveSettings, TypeOK
<1>3. CASE gen[current].state = "done" /\ Start(saved) /\ Answer(settings, c) /\ UNCHANGED saver
  <2>1. StartsAtOnce(saved)
    BY <1>1, <1>3 DEF SaveSettings, StartsAtOnce
  <2>2. /\ RoomInv' /\ CurrentInv' /\ LoopsInv' /\ SerialInv'
        /\ gen' \in [Generations -> GenType] /\ loop' \in [Generations -> LoopType]
        /\ live' = saved /\ startup' = startup /\ current' \in Generations
    BY <1>1, <2>1, StartingAtOnceKeeps
  <2>3. ReportInv'
    <3>1. CASE c # settings
      BY <1>3, <3>1 DEF Answer, RestartRequired, ReportInv
    <3>2. CASE c = settings
      BY <1>1, <1>3, <2>2, <3>2 DEF Answer, LiveInv, ReportInv, WillReport, Stopping
    <3>3. QED
      BY <3>1, <3>2
  <2>4. reported' \in BOOLEAN
    BY <1>1, <1>3 DEF Answer, TypeOK
  <2>5. TypeOK'
    BY <1>1, <1>2, <1>3, <2>2, <2>4 DEF TypeOK, GenType, LoopType
  <2>6. QED
    BY <2>2, <2>3, <2>5 DEF LiveInv
<1>4. CASE ~(gen[current].state = "done" /\ Start(saved) /\ Answer(settings, c) /\ UNCHANGED saver)
  <2> DEFINE record == [pc |-> "applying", victim |-> current, previous |-> settings, new |-> c]
  <2>1. record \in Saving \cup Applying /\ record.victim = current
        /\ record.pc = "applying" /\ record.previous = settings /\ record.new = c
    BY <1>1 DEF Applying, TypeOK
  <2>2. Waits(s, record) /\ reported' = reported
    BY <1>1, <1>4 DEF SaveSettings, Waits
  <2> HIDE DEF record
  <2>3. /\ RoomInv' /\ CurrentInv' /\ LoopsInv' /\ SerialInv'
        /\ gen' \in [Generations -> GenType] /\ loop' \in [Generations -> LoopType]
        /\ saver' \in [Savers -> {Idle} \cup Saving \cup Applying]
        /\ Stopping' = Stopping \cup {s} /\ saver'[s] = record
        /\ \A t \in Stopping : saver'[t] = saver[t]
    BY <1>1, <2>1, <2>2, WaitingKeeps
  <2>4. UNCHANGED <<live, startup, current>>
    BY <2>2 DEF Waits, procVars
  <2>5. ReportInv'
    <3>1. CASE c # settings
      <4>1. WillReport(s)'
        BY <2>1, <2>3, <3>1 DEF WillReport
      <4>2. QED
        BY <2>3, <4>1 DEF ReportInv
    <3>2. CASE c = settings
      BY <1>1, <2>2, <2>3, <2>4, <3>2 DEF LiveInv, ReportInv, WillReport
    <3>3. QED
      BY <3>1, <3>2
  <2>6. TypeOK'
    BY <1>1, <1>2, <2>2, <2>3, <2>4 DEF TypeOK, GenType, LoopType, Saving, Applying
  <2>7. QED
    BY <2>3, <2>5, <2>6 DEF LiveInv
<1>5. QED
  BY <1>3, <1>4

\* A loop goes on without a check, or its task still runs.
LEMMA LoopStepKeeps ==
  ASSUME LiveInv, NEW g \in Generations, NEW l \in Loops,
         LoopWakes(g, l) \/ CheckEnds(g, l) \/ CheckUnwound(g, l) \/ CancellationLost(g, l)
  PROVE  LiveInv'
<1>1. UNCHANGED <<saved, settings, procVars, gen, saver, reported, overlapped>>
  BY DEF LoopWakes, CheckEnds, CheckUnwound, CancellationLost
<1>2. UNCHANGED <<saved, settings, live, startup, current, gen, saver, reported, overlapped>>
  BY <1>1 DEF procVars
<1>3. PICK to \in {"checking", "sleeping", "none"} :
        /\ loop' = [loop EXCEPT ![g][l] = to]
        /\ loop[g][l] # "none"
        /\ survivors \subseteq survivors' /\ survivors' \subseteq survivors \cup {<<g, l>>}
        /\ to \in {"checking", "sleeping"} =>
             loop[g][l] \in {"checking", "sleeping"} \/ <<g, l>> \in survivors'
  BY DEF LoopWakes, CheckEnds, CheckUnwound, CancellationLost
<1>4. loop \in [Generations -> LoopType] /\ TypeOK
  BY DEF LiveInv, TypeOK, LoopType
<1>5. /\ loop' \in [Generations -> LoopType] /\ loop'[g][l] = to
      /\ \A h \in Generations, k \in Loops : h # g \/ k # l => loop'[h][k] = loop[h][k]
  BY <1>3, <1>4 DEF LoopType
<1>6. \A h \in Generations, k \in Loops :
        /\ loop'[h][k] \in {"sleeping", "checking"} =>
             loop[h][k] \in {"sleeping", "checking"} \/ <<h, k>> \in survivors'
        /\ loop'[h][k] # "none" => loop[h][k] # "none"
  BY <1>3, <1>5
<1>7. Stopping' = Stopping /\ NotYetBorn' = NotYetBorn /\ \A h \in Generations : Awaited(h)' = Awaited(h)
  BY <1>2 DEF Stopping, NotYetBorn, Awaited
<1>8. TypeOK'
  BY <1>2, <1>3, <1>4, <1>5 DEF TypeOK, LoopType
<1>9. RoomInv' /\ CurrentInv' /\ ReportInv'
  <2>1. RoomInv'
    BY <1>7 DEF LiveInv, RoomInv
  <2>2. Awaited(current)' = Awaited(current)
    BY <1>4, <1>7, <1>2 DEF Awaited
  <2>3. CurrentInv'
    BY <1>2, <1>7, <2>2 DEF LiveInv, CurrentInv
  <2>4. ReportInv'
    BY <1>2, <1>7 DEF LiveInv, ReportInv, WillReport
  <2>5. QED
    BY <2>1, <2>3, <2>4
<1>10. LoopsInv'
  <2>1. \A h \in Generations : Awaited(h)' => gen'[h].state \in Over
    BY <1>2, <1>7 DEF LiveInv, LoopsInv
  <2>2. \A h \in Generations, k \in Loops :
          loop'[h][k] # "none" => gen'[h] # Unborn /\ k \in LoopsOf[gen'[h].manifest]
    BY <1>2, <1>6 DEF LiveInv, LoopsInv
  <2>3. \A h \in Generations, k \in Loops :
          gen'[h].state \in Over /\ loop'[h][k] \in {"sleeping", "checking"} => <<h, k>> \in survivors'
    BY <1>2, <1>3, <1>6 DEF LiveInv, LoopsInv
  <2>4. QED
    BY <2>1, <2>2, <2>3 DEF LoopsInv
<1>11. SerialInv'
  <2>1. OnlyCurrentChecks => OnlyCurrentChecks'
    BY <1>2, <1>3, <1>6 DEF OnlyCurrentChecks
  <2>2. QED
    BY <1>2, <1>7, <2>1 DEF LiveInv, SerialInv
<1>12. QED
  BY <1>8, <1>9, <1>10, <1>11 DEF LiveInv

\* A task is over because a save cancelled it, or because it has nothing to do.
LEMMA TaskEndsKeeps ==
  ASSUME LiveInv, NEW g \in Generations, TaskEnds(g)
  PROVE  LiveInv'
<1>1. UNCHANGED <<saved, settings, live, startup, current, loop, saver, reported, overlapped, survivors>>
      /\ gen' = [gen EXCEPT ![g].state = "done"]
      /\ gen[g].state \in {"running", "stopping"}
  BY DEF TaskEnds, GatherOver, procVars
<1>2. TypeOK /\ gen \in [Generations -> GenType] /\ current \in Generations
  BY DEF LiveInv, TypeOK, GenType
<1>3. gen[g] \in [state : {"running", "stopping", "done"}, manifest : Manifests]
  BY <1>1, <1>2, GenTypes DEF Unborn
<1>4. gen'[g] = [gen[g] EXCEPT !.state = "done"]
      /\ \A h \in Generations \ {g} : gen'[h] = gen[h]
  BY <1>1, <1>2
<1>5. [gen[g] EXCEPT !.state = "done"] \in [state : {"done"}, manifest : Manifests]
      /\ [gen[g] EXCEPT !.state = "done"].manifest = gen[g].manifest
  BY <1>3
<1>6. gen'[g] \in GenType /\ gen'[g] # Unborn /\ gen[g] # Unborn
      /\ gen'[g].manifest = gen[g].manifest /\ gen'[g].state = "done"
  BY <1>1, <1>4, <1>5 DEF GenType, Unborn
<1>7. gen' \in [Generations -> GenType]
  BY <1>1, <1>2, <1>4, <1>6
<1>8. NotYetBorn' = NotYetBorn /\ Stopping' = Stopping
      /\ \A h \in Generations : Awaited(h)' = Awaited(h)
  BY <1>1, <1>4, <1>6 DEF NotYetBorn, Stopping, Awaited
<1>9. TypeOK'
  BY <1>1, <1>2, <1>7 DEF TypeOK, GenType
<1>10. CurrentInv'
  <2>1. Awaited(current)' = Awaited(current)
    BY <1>1, <1>2, <1>8 DEF Awaited
  <2>2. gen'[current] # Unborn /\ gen'[current].manifest = live
    BY <1>2, <1>4, <1>6 DEF LiveInv, CurrentInv
  <2>3. CASE g = current
    <3>1. Awaited(current) \/ LoopsOf[live] = {}
      BY <1>1, <2>3 DEF TaskEnds, GatherOver, LiveInv, CurrentInv, LoopsInv, Over
    <3>2. QED
      BY <1>1, <1>6, <1>8, <2>1, <2>2, <2>3, <3>1 DEF LiveInv, CurrentInv
  <2>4. CASE g # current
    BY <1>1, <1>2, <1>4, <1>8, <2>1, <2>4 DEF LiveInv, CurrentInv
  <2>5. QED
    BY <2>3, <2>4
<1>11. LoopsInv'
  <2>1. \A h \in Generations : gen[h] # Unborn => gen'[h] # Unborn
                               /\ gen'[h].manifest = gen[h].manifest
    BY <1>4, <1>6
  <2>2. gen[g].state \in Over \/ \A l \in Loops : loop[g][l] = "none"
    BY <1>1, <1>6 DEF TaskEnds, GatherOver, Over, LiveInv, LoopsInv
  <2>3. \A h \in Generations, l \in Loops :
          gen'[h].state \in Over /\ loop[h][l] \in {"sleeping", "checking"} => <<h, l>> \in survivors
    BY <1>4, <2>2 DEF LiveInv, LoopsInv
  <2>4. \A h \in Generations : Awaited(h)' => gen'[h].state \in Over
    BY <1>4, <1>6, <1>8 DEF LiveInv, LoopsInv, Over
  <2>5. QED
    BY <1>1, <2>1, <2>3, <2>4 DEF LiveInv, LoopsInv
<1>12. SerialInv'
  BY <1>1, <1>8 DEF LiveInv, SerialInv, OnlyCurrentChecks
<1>13. RoomInv' /\ ReportInv'
  BY <1>1, <1>8 DEF LiveInv, RoomInv, ReportInv, WillReport
<1>14. QED
  BY <1>9, <1>10, <1>11, <1>12, <1>13 DEF LiveInv

\* A process that has just started with manifest m, settings c and task g.
Fresh(m, c, g) ==
  /\ saved = m /\ live = m /\ settings = c /\ startup = c /\ current = g
  /\ gen = [h \in Generations |-> IF h = g THEN Started(m) ELSE Unborn]
  /\ loop = [h \in Generations |-> IF h = g THEN Sleeping(m) ELSE [l \in Loops |-> "none"]]
  /\ saver = [s \in Savers |-> Idle]
  /\ reported = FALSE /\ overlapped = FALSE /\ survivors = {}

LEMMA FreshKeeps ==
  ASSUME NEW m \in Manifests, NEW c \in ColdSettings, NEW g \in Generations, Fresh(m, c, g)
  PROVE  LiveInv
<1>1. Started(m) \in [state : {"running", "stopping", "done"}, manifest : Manifests]
      /\ Started(m).manifest = m /\ Started(m).state = "running" /\ Started(m) # Unborn
  BY DEF Started, Unborn
<1>2. Sleeping(m) \in LoopType /\ [l \in Loops |-> "none"] \in LoopType
  BY DEF Sleeping, LoopType
<1>3. gen[g] = Started(m) /\ gen \in [Generations -> GenType]
      /\ \A h \in Generations \ {g} : gen[h] = Unborn
  BY <1>1 DEF Fresh, GenType
<1>4. loop[g] = Sleeping(m) /\ loop \in [Generations -> LoopType]
      /\ \A h \in Generations \ {g}, l \in Loops : loop[h][l] = "none"
  BY <1>2 DEF Fresh
<1>5. Stopping = {} /\ Cardinality(Stopping) = 0 /\ \A h \in Generations : ~Awaited(h)
  BY FS_EmptySet DEF Fresh, Stopping, Awaited
<1>6. TypeOK
  BY <1>3, <1>4 DEF Fresh, TypeOK, GenType, LoopType
<1>7. RoomInv
  BY <1>5, FiniteParts DEF RoomInv
<1>8. CurrentInv
  BY <1>1, <1>3 DEF Fresh, CurrentInv
<1>9. LoopsInv
  <2>1. \A l \in Loops : loop[g][l] # "none" => l \in LoopsOf[m]
    BY <1>4 DEF Sleeping
  <2>2. gen[g].state \notin Over
    BY <1>1, <1>3 DEF Over
  <2>3. QED
    BY <1>1, <1>3, <1>4, <1>5, <2>1, <2>2 DEF LoopsInv
<1>10. SerialInv
  BY <1>4, <1>5 DEF Fresh, SerialInv, OnlyCurrentChecks
<1>11. ReportInv
  BY DEF Fresh, ReportInv
<1>12. QED
  BY <1>6, <1>7, <1>8, <1>9, <1>10, <1>11 DEF LiveInv

JustStarted ==
  \E m \in Manifests, c \in ColdSettings, g \in Generations : Fresh(m, c, g)

LEMMA StartedAfresh == JustStarted => LiveInv
BY FreshKeeps DEF JustStarted

LEMMA FirstIsATask == First \in Generations
BY ConfigAssumption DEF First

LEMMA InitIsFresh == Init => JustStarted
BY FirstIsATask DEF Init, Fresh, JustStarted

LEMMA RestartIsFresh ==
  ASSUME TypeOK, Restart
  PROVE  JustStarted'
<1>1. Fresh(saved, settings, First)'
  BY FirstIsATask DEF Restart, Boot, Fresh, First
<1>2. saved' \in Manifests /\ settings' \in ColdSettings
  BY DEF Restart, TypeOK
<1>3. QED
  BY <1>1, <1>2, FirstIsATask DEF JustStarted, First

LEMMA StepKeepsLive ==
  ASSUME LiveInv, [Next]_vars
  PROVE  LiveInv' \/ JustStarted'
<1>1. CASE \E s \in Savers, m \in Manifests : SaveManifest(s, m)
  BY <1>1, SaveManifestKeeps
<1>2. CASE \E s \in Savers, c \in ColdSettings : SaveSettings(s, c)
  BY <1>2, SaveSettingsKeeps
<1>3. CASE \E s \in Savers : Reload(s)
  BY <1>3, ReloadKeeps
<1>4. CASE \E g \in Generations, l \in Loops :
             LoopWakes(g, l) \/ CheckEnds(g, l) \/ CheckUnwound(g, l) \/ CancellationLost(g, l)
  BY <1>4, LoopStepKeeps
<1>5. CASE \E g \in Generations : TaskEnds(g)
  BY <1>5, TaskEndsKeeps
<1>6. CASE Restart
  BY <1>6, RestartIsFresh DEF LiveInv
<1>7. CASE UNCHANGED vars
  <2>1. UNCHANGED <<saved, settings, live, startup, current, gen, loop, saver, reported,
                    overlapped, survivors>>
    BY <1>7 DEF vars, procVars
  <2>2. TypeOK' /\ RoomInv' /\ CurrentInv'
    BY <2>1 DEF LiveInv, TypeOK, RoomInv, CurrentInv, NotYetBorn, Stopping, Awaited
  <2>3. LoopsInv' /\ SerialInv' /\ ReportInv'
    BY <2>1 DEF LiveInv, LoopsInv, SerialInv, ReportInv, OnlyCurrentChecks, Stopping, Awaited,
                WillReport
  <2>4. QED
    BY <2>2, <2>3 DEF LiveInv
<1>8. QED
  BY <1>1, <1>2, <1>3, <1>4, <1>5, <1>6, <1>7 DEF Next, GenerationStep

\* The invariant holds of every process, also of one that was restarted while saves
\* were in flight (lifespan and reload_scheduler_impl, runtime.py:205-226).
THEOREM LiveConfigCorrect == Spec => []LiveInv
<1>1. LiveInv /\ [Next]_vars => LiveInv'
  <2>1. LiveInv /\ [Next]_vars => LiveInv' \/ JustStarted'
    BY StepKeepsLive
  <2>2. JustStarted => LiveInv
    BY StartedAfresh
  <2>3. QED
    BY <2>1, <2>2, PTL
<1>2. QED
  BY InitIsFresh, StartedAfresh, <1>1, PTL DEF Spec

\* Every variable of the live configuration has its type.
THEOREM LiveConfigTypeCorrect == Spec => []TypeOK
BY LiveConfigCorrect, PTL DEF LiveInv

\* However saves overlap and overtake each other, once none is in flight the
\* scheduler has the manifest saved last and runs if there is anything to run
\* (runtime.py:218-226).
THEOREM LatestSaveAlwaysScheduled == Spec => []LatestSaveIsScheduled
<1>1. LiveInv => LatestSaveIsScheduled
  BY DEF LiveInv, CurrentInv, Awaited, LatestSaveIsScheduled
<1>2. QED
  BY LiveConfigCorrect, <1>1, PTL

\* Saves that come one at a time leave the current scheduler as the only one that
\* checks pages (runtime.py:205-226), but for the loops whose own cancellation was lost
\* to an error of the cleanup (browser_runner.py:1010-1021, scheduler.py:78).
THEOREM SerialSavesAreClean == Spec => []SerialSavesLeaveOneScheduler
<1>1. LiveInv => SerialSavesLeaveOneScheduler
  BY DEF LiveInv, SerialInv, SerialSavesLeaveOneScheduler
<1>2. QED
  BY LiveConfigCorrect, <1>1, PTL

\* Whatever the settings went through while saves overlapped, a process that runs with
\* other cold settings than the saved ones has told an admin so (runtime.py:230-240).
THEOREM RestartsAreReported == Spec => []PendingRestartIsReported
<1>1. LiveInv => PendingRestartIsReported
  BY DEF LiveInv, ReportInv, PendingRestartIsReported
<1>2. QED
  BY LiveConfigCorrect, <1>1, PTL
=============================================================================
