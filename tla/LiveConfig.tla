----------------------------- MODULE LiveConfig -----------------------------
(***************************************************************************)
(* Saving the manifest or the settings in the admin panel while the        *)
(* service runs (api.py, manifest_store.py, settings_store.py, runtime.py).*)
(* A save replaces the file and the store in one go, then stops the        *)
(* scheduler's task and waits for it, builds a new scheduler from the      *)
(* store and starts its task.  Saves are asyncio tasks: while one waits,   *)
(* others run.  Some of the program is built once, at startup.             *)
(*                                                                         *)
(* A scheduler's task is over as soon as one of its loops is cancelled     *)
(* (asyncio.gather passes on the first CancelledError).  A loop that was   *)
(* in the middle of a check ends when the check has cleaned up, or goes on *)
(* if an error of the cleanup took the place of the cancellation.          *)
(***************************************************************************)
EXTENDS Naturals, FiniteSets

CONSTANTS
  Savers,          \* save requests that may be in flight at once
  Manifests,       \* manifests an admin may save
  LoopsOf,         \* the fast and deep loops a manifest asks for
  ColdSettings,    \* request_timeout_seconds and manual_check_concurrency
  Generations      \* the scheduler tasks created since the process started

\* The first task of a process; which one it is does not matter.
First == CHOOSE g \in Generations : TRUE

Loops == UNION {LoopsOf[m] : m \in Manifests}

ASSUME ConfigAssumption ==
  /\ DOMAIN LoopsOf = Manifests
  /\ IsFiniteSet(Savers)
  /\ IsFiniteSet(Generations) /\ Generations # {}

VARIABLES
  saved,      \* the manifest in sites.yaml and in manifest_store.registry
  settings,   \* the cold settings in settings.yaml and settings_store.settings
  live,       \* runtime's manifest_registry
  startup,    \* the cold settings the process was built with
  gen,        \* the scheduler tasks
  loop,       \* their loops
  current,    \* scheduler_task
  saver,      \* the save requests
  reported,   \* history: whether an admin was told that a restart is due
  overlapped, \* history: whether saves of this process have overlapped
  survivors   \* history: the loops that went on after they were cancelled

procVars == <<live, startup, current>>
vars == <<saved, settings, procVars, gen, loop, saver, reported, overlapped,
          survivors>>

Idle == [pc |-> "idle"]

Unborn == [state |-> "unborn"]

Started(m) == [state |-> "running", manifest |-> m]

Sleeping(m) == [l \in Loops |-> IF l \in LoopsOf[m] THEN "sleeping" ELSE "none"]

Stopping == {s \in Savers : saver[s] # Idle}

-----------------------------------------------------------------------------
(* build_app and lifespan: a process with manifest m and settings c on disk. *)

Boot(m, c, g) ==
  /\ live' = m
  /\ startup' = c
  /\ current' = g
  /\ gen' = [h \in Generations |-> IF h = g THEN Started(m) ELSE Unborn]
  /\ loop' = [h \in Generations |-> IF h = g THEN Sleeping(m) ELSE [l \in Loops |-> "none"]]
  /\ saver' = [s \in Savers |-> Idle]
  /\ reported' = FALSE
  /\ overlapped' = FALSE
  /\ survivors' = {}

Init ==
  /\ saved \in Manifests
  /\ settings \in ColdSettings
  /\ live = saved
  /\ startup = settings
  /\ current = First
  /\ gen = [h \in Generations |-> IF h = current THEN Started(saved) ELSE Unborn]
  /\ loop = [h \in Generations |->
               IF h = current THEN Sleeping(saved) ELSE [l \in Loops |-> "none"]]
  /\ saver = [s \in Savers |-> Idle]
  /\ reported = FALSE
  /\ overlapped = FALSE
  /\ survivors = {}

\* The process dies or is restarted; the files stay.
Restart ==
  /\ Boot(saved, settings, First)
  /\ UNCHANGED <<saved, settings>>

-----------------------------------------------------------------------------
(* Saving.                                                                 *)

\* The task was cancelled and some loop of it is over, and so is gather.
GatherOver(g) ==
  gen[g].state = "stopping" /\ \E l \in LoopsOf[gen[g].manifest] : loop[g][l] = "none"

\* scheduler_task.cancel(): sleeping loops are gone, checks start to clean up.  A
\* task whose gather is over does not pass the cancellation on to what is left of
\* its loops; it still does while gather has not been told.
Cancel(g) ==
  /\ gen' = [gen EXCEPT ![g].state = "stopping"]
  /\ \/ loop' = [loop EXCEPT ![g] = [l \in Loops |->
                  CASE loop[g][l] = "sleeping" -> "none"
                    [] loop[g][l] = "checking" -> "unwinding"
                    [] OTHER -> loop[g][l]]]
     \/ GatherOver(g) /\ UNCHANGED loop

\* Every save in flight will start one more task (a bound of the model).
CanStartOneMore ==
  Cardinality({g \in Generations : gen[g] = Unborn}) > Cardinality(Stopping)

\* ManifestStore.replace: the file, then the registry in memory, with nothing in
\* between; a manifest that is refused or cannot be written changes neither.
ReplaceManifest(m) == saved' = m

\* SettingsStore.replace, likewise.
ReplaceSettings(c) == settings' = c

\* A new scheduler is built from manifest m and its task started; CanStartOneMore
\* saw to it that there is one.
Start(m) ==
  LET g == CHOOSE g \in Generations : gen[g] = Unborn
  IN  /\ live' = m
      /\ current' = g
      /\ gen' = [gen EXCEPT ![g] = Started(m)]
      /\ loop' = [loop EXCEPT ![g] = Sleeping(m)]
      /\ UNCHANGED startup

\* Mutant: the comparison comes after the settings were replaced.
RestartRequired_Late(previous, new) == settings # new

\* restart_required_vs: whether the save changed a cold setting.
RestartRequired(previous, new) == new # previous

\* apply_settings answers a settings save.
Answer(previous, new) == reported' = (reported \/ RestartRequired(previous, new))

\* PUT /admin/api/manifest: the reload waits for the old task, unless that is
\* over already (awaiting it does not give way then).
SaveManifest(s, m) ==
  /\ saver[s] = Idle /\ CanStartOneMore
  /\ overlapped' = (overlapped \/ Stopping # {})
  /\ ReplaceManifest(m)
  /\ \/ /\ gen[current].state = "done"
        /\ Start(m)
        /\ UNCHANGED saver
     \/ /\ gen[current].state # "done"
        /\ Cancel(current)
        /\ saver' = [saver EXCEPT ![s] =
             [pc |-> "saving", victim |-> current, manifest |-> m]]
        /\ UNCHANGED procVars
  /\ UNCHANGED <<settings, reported, survivors>>

\* PUT /admin/api/settings, with apply_settings.
SaveSettings(s, c) ==
  /\ saver[s] = Idle /\ CanStartOneMore
  /\ overlapped' = (overlapped \/ Stopping # {})
  /\ ReplaceSettings(c)
  /\ \/ /\ gen[current].state = "done"
        /\ Start(saved)
        /\ Answer(settings, c)
        /\ UNCHANGED saver
     \/ /\ gen[current].state # "done"
        /\ Cancel(current)
        /\ saver' = [saver EXCEPT ![s] = [pc |-> "applying", victim |-> current,
                                          previous |-> settings, new |-> c]]
        /\ UNCHANGED <<procVars, reported>>
  /\ UNCHANGED <<saved, survivors>>

\* The task a save waits for is over.
Stopped(s) == saver[s] # Idle /\ gen[saver[s].victim].state = "done"

\* Mutant: a save schedules the manifest it brought, not the one saved last.
Reload_OwnManifest(s) ==
  /\ Stopped(s)
  /\ Start(IF saver[s].pc = "saving" THEN saver[s].manifest ELSE live)
  /\ saver' = [saver EXCEPT ![s] = Idle]
  /\ IF saver[s].pc = "applying"
     THEN Answer(saver[s].previous, saver[s].new) ELSE UNCHANGED reported
  /\ UNCHANGED <<saved, settings, overlapped, survivors>>

\* reload_scheduler_impl goes on, and the save is answered.
Reload(s) ==
  /\ Stopped(s)
  /\ Start(saved)
  /\ saver' = [saver EXCEPT ![s] = Idle]
  /\ IF saver[s].pc = "applying"
     THEN Answer(saver[s].previous, saver[s].new) ELSE UNCHANGED reported
  /\ UNCHANGED <<saved, settings, overlapped, survivors>>

-----------------------------------------------------------------------------
(* The scheduler's tasks.                                                  *)

LoopWakes(g, l) ==
  /\ loop[g][l] = "sleeping"
  /\ loop' = [loop EXCEPT ![g][l] = "checking"]
  /\ UNCHANGED <<saved, settings, procVars, gen, saver, reported, overlapped, survivors>>

CheckEnds(g, l) ==
  /\ loop[g][l] = "checking"
  /\ loop' = [loop EXCEPT ![g][l] = "sleeping"]
  /\ UNCHANGED <<saved, settings, procVars, gen, saver, reported, overlapped, survivors>>

\* Mutant: whatever ends a check, its loop goes on (except BaseException in _execute).
CheckUnwound_LoopGoesOn(g, l) ==
  /\ loop[g][l] = "unwinding"
  /\ loop' = [loop EXCEPT ![g][l] = "sleeping"]
  /\ UNCHANGED <<saved, settings, procVars, gen, saver, reported, overlapped, survivors>>

\* A cancelled check has closed its browser and its sockets, and its loop ends.
CheckUnwound(g, l) ==
  /\ loop[g][l] = "unwinding"
  /\ loop' = [loop EXCEPT ![g][l] = "none"]
  /\ UNCHANGED <<saved, settings, procVars, gen, saver, reported, overlapped, survivors>>

\* Closing the context, the browser or Playwright raised, and the error took the
\* place of the CancelledError: run() makes incomplete evidence of it, or _execute
\* logs it, and the check and its loop go on.
CancellationLost(g, l) ==
  /\ loop[g][l] = "unwinding"
  /\ loop' = [loop EXCEPT ![g][l] = "checking"]
  /\ survivors' = survivors \cup {<<g, l>>}
  /\ UNCHANGED <<saved, settings, procVars, gen, saver, reported, overlapped>>

\* Mutant: gather collects what becomes of every loop (return_exceptions=True).
TaskEnds_WaitsForAll(g) ==
  /\ \/ gen[g].state = "running" /\ LoopsOf[gen[g].manifest] = {}
     \/ gen[g].state = "stopping" /\ \A l \in Loops : loop[g][l] = "none"
  /\ gen' = [gen EXCEPT ![g].state = "done"]
  /\ UNCHANGED <<saved, settings, procVars, loop, saver, reported, overlapped, survivors>>

\* run_forever has no loop to run and returns, or gather has its first
\* cancelled loop and run_forever raises.
TaskEnds(g) ==
  /\ \/ gen[g].state \in {"running", "stopping"} /\ LoopsOf[gen[g].manifest] = {}
     \/ GatherOver(g)
  /\ gen' = [gen EXCEPT ![g].state = "done"]
  /\ UNCHANGED <<saved, settings, procVars, loop, saver, reported, overlapped, survivors>>

GenerationStep(g) ==
  \/ \E l \in Loops : CheckEnds(g, l) \/ CheckUnwound(g, l) \/ CancellationLost(g, l)
  \/ TaskEnds(g)

Next ==
  \/ \E s \in Savers : \/ \E m \in Manifests : SaveManifest(s, m)
                       \/ \E c \in ColdSettings : SaveSettings(s, c)
                       \/ Reload(s)
  \/ \E g \in Generations : GenerationStep(g) \/ \E l \in Loops : LoopWakes(g, l)
  \/ Restart

Spec == Init /\ [][Next]_vars

\* Checks have a total timeout, cleaning up ends, and the event loop serves
\* every task that is ready.
Fairness ==
  /\ \A s \in Savers : WF_vars(Reload(s))
  /\ \A g \in Generations : WF_vars(TaskEnds(g))
  /\ \A g \in Generations, l \in Loops : WF_vars(CheckUnwound(g, l) \/ CancellationLost(g, l))

FairSpec == Spec /\ Fairness

-----------------------------------------------------------------------------
(* Properties.                                                             *)

TypeOK ==
  /\ saved \in Manifests /\ live \in Manifests
  /\ settings \in ColdSettings /\ startup \in ColdSettings
  /\ gen \in [Generations -> {Unborn} \cup
       [state : {"running", "stopping", "done"}, manifest : Manifests]]
  /\ loop \in [Generations -> [Loops -> {"none", "sleeping", "checking", "unwinding"}]]
  /\ current \in Generations
  /\ saver \in [Savers -> {Idle}
       \cup [pc : {"saving"}, victim : Generations, manifest : Manifests]
       \cup [pc : {"applying"}, victim : Generations, previous : ColdSettings,
             new : ColdSettings]]
  /\ reported \in BOOLEAN /\ overlapped \in BOOLEAN
  /\ survivors \subseteq Generations \X Loops

\* Whatever saves overlap, and however they overtake each other while they wait
\* for the old scheduler, once all are answered the scheduler that hooks and
\* later saves know has the manifest saved last, and runs (runtime.py:218-226).
LatestSaveIsScheduled ==
  Stopping = {} =>
    /\ live = saved
    /\ gen[current].manifest = saved
    /\ LoopsOf[saved] # {} => gen[current].state = "running"

OnlyCurrentChecks ==
  \A g \in Generations \ {current}, l \in Loops :
    loop[g][l] \in {"sleeping", "checking"} => <<g, l>> \in survivors

\* As long as saves come one at a time, no loop of any scheduler but the current one
\* keeps checking its page (runtime.py:205-226), except that very loop whose own
\* cancellation was lost to an error while its browser closed; other cancelled
\* checks may still be cleaning up.
SerialSavesLeaveOneScheduler == ~overlapped => OnlyCurrentChecks

\* runtime.py:206-211: a save means "stop the old loop set, rebuild, start a new
\* one", whichever saves are in flight, and lost cancellations aside.
OneSchedulerRuns == OnlyCurrentChecks

\* Every loop of the scheduler that save s waits for has lost its cancellation, and
\* none has ended since.
NoLoopEnds(s) ==
  /\ saver[s] # Idle
  /\ \A l \in LoopsOf[gen[saver[s].victim].manifest] :
       <<saver[s].victim, l>> \in survivors /\ loop[saver[s].victim][l] # "none"

\* Every save is answered, even when it stops a scheduler that another save is
\* already stopping or that is in the middle of its checks (runtime.py:214-226):
\* one loop that ends is enough.  It waits for ever only if the cancellation
\* of every single loop was lost.
SavesAreAnswered ==
  \A s \in Savers : saver[s] # Idle ~> (saver[s] = Idle \/ []NoLoopEnds(s))

\* When no save is in flight and the process runs with other cold settings than
\* those saved, some admin was told that a restart is due (runtime.py:230-240):
\* the change is "reported back to the admin UI, not silently dropped", also when
\* saves overlap.
PendingRestartIsReported ==
  Stopping = {} /\ settings # startup => reported

=============================================================================
