--------------------------- MODULE BaselineStore ---------------------------
(***************************************************************************)
(* The store of human-approved visual baselines (baselines.py), for one    *)
(* page and viewport: two pending files, one approved file and an audit    *)
(* log.  Each file operation is one step; a file is replaced as a whole    *)
(* (_write_atomically).  Writers are processes: the server, which runs one *)
(* admin handler at a time since the handlers do not await once they touch *)
(* the store, and scripts/approve_baseline.py.  A process may die between  *)
(* two steps, and the disk may fill up in the middle of an audit line.  An *)
(* image stands for its bytes and for their sha256.                        *)
(***************************************************************************)
EXTENDS Naturals, Sequences

CONSTANTS
  Images,        \* screenshots
  Comparable,    \* those the visual diff can decode within its pixel limit
  Server,        \* the process that captures, and approves for the admin panel
  Clis,          \* runs of scripts/approve_baseline.py
  MayCrash,      \* whether processes may die and the disk may fill up
  MaxApprovals,  \* bound on the length of the audit log
  NoImage,       \* no such file
  Torn,          \* the beginning of an audit line, at the end of the file
  Garbled        \* a line that begins with such a beginning

Processes == {Server} \cup Clis

ASSUME BaselineAssumption ==
  /\ Server \notin Clis
  /\ MayCrash \in BOOLEAN
  /\ MaxApprovals \in Nat
  /\ Comparable \subseteq Images
  /\ Images \cap {NoImage, Torn, Garbled} = {}
  /\ Torn # Garbled

VARIABLES
  pendingPng,    \* pending/<slot>.png
  pendingMeta,   \* pending/<slot>.json: the sha256 of the capture
  approvedPng,   \* approved/<slot>.png
  audit,         \* audit.jsonl, by lines: the sha256 of every approval
  proc,          \* what each process is doing
  alone,    \* history: no two processes were at work at a time since the last
            \* operation that began while all were idle
  paired,   \* history: the pending files were last touched by an operation that was
            \* alone and finished with them
  latest    \* history: the baseline was last touched by an approval that was alone,
            \* found the pending files paired, and wrote its whole line

files == <<pendingPng, pendingMeta, approvedPng, audit>>

history == <<alone, paired, latest>>

vars == <<files, proc, history>>

Idle == [pc |-> "idle"]

AllIdle == \A p \in Processes : proc[p] = Idle

Goto(p, there) == proc' = [proc EXCEPT ![p] = there]

-----------------------------------------------------------------------------
Init ==
  /\ pendingPng = NoImage
  /\ pendingMeta = NoImage
  /\ approvedPng = NoImage
  /\ audit = <<>>
  /\ proc = [p \in Processes |-> Idle]
  /\ alone = TRUE
  /\ paired = TRUE
  /\ latest = TRUE

\* An operation begins: another one at work may spoil what both do.
Begins ==
  /\ alone' = AllIdle
  /\ latest' = (latest /\ AllIdle)

\* capture(), its first write: for the capture button, or for an upload, which
\* goes on to approve what it captured.
CapturePng(img, upload) ==
  /\ proc[Server] = Idle
  /\ upload => Len(audit) < MaxApprovals
  /\ pendingPng' = img
  /\ Goto(Server, [pc |-> "capturing", img |-> img, upload |-> upload])
  /\ Begins
  /\ paired' = FALSE
  /\ UNCHANGED <<pendingMeta, approvedPng, audit>>

\* Mutant: metadata that is already there is not written again.
CaptureMeta_OnlyIfMissing ==
  /\ proc[Server].pc = "capturing"
  /\ pendingMeta' = IF pendingMeta = NoImage THEN proc[Server].img ELSE pendingMeta
  /\ Goto(Server, IF proc[Server].upload THEN [pc |-> "approving"] ELSE Idle)
  /\ paired' = alone
  /\ UNCHANGED <<pendingPng, approvedPng, audit, alone, latest>>

\* capture(), its second write.
CaptureMeta ==
  /\ proc[Server].pc = "capturing"
  /\ pendingMeta' = proc[Server].img
  /\ Goto(Server, IF proc[Server].upload THEN [pc |-> "approving"] ELSE Idle)
  /\ paired' = alone
  /\ UNCHANGED <<pendingPng, approvedPng, audit, alone, latest>>

\* An operator clicks approve in the admin panel or runs the script.
Approve(p) ==
  /\ proc[p] = Idle
  /\ Len(audit) < MaxApprovals
  /\ Goto(p, [pc |-> "approving"])
  /\ Begins
  /\ paired' = (paired /\ AllIdle)
  /\ UNCHANGED files

\* approve(): the candidate's metadata; without any, ValueError.
ReadCandidate(p) ==
  /\ proc[p].pc = "approving"
  /\ Goto(p, IF pendingMeta = NoImage THEN Idle
             ELSE [pc |-> "reading", sha |-> pendingMeta])
  /\ UNCHANGED <<files, history>>

\* Mutant: the audit log is written before the baseline is in place.
ReadPng_LogsFirst(p) ==
  /\ proc[p].pc = "reading"
  /\ Goto(p, IF pendingPng = NoImage THEN Idle
             ELSE [pc |-> "logging", sha |-> proc[p].sha])
  /\ UNCHANGED <<files, history>>

\* approve(): the candidate's bytes; without any, FileNotFoundError.
ReadPng(p) ==
  /\ proc[p].pc = "reading"
  /\ Goto(p, IF pendingPng = NoImage THEN Idle
             ELSE [pc |-> "placing", sha |-> proc[p].sha, img |-> pendingPng])
  /\ UNCHANGED <<files, history>>

\* approve(): the approved file is replaced.
Place(p) ==
  /\ proc[p].pc = "placing"
  /\ approvedPng' = proc[p].img
  /\ Goto(p, [pc |-> "logging", sha |-> proc[p].sha])
  /\ latest' = FALSE
  /\ UNCHANGED <<pendingPng, pendingMeta, audit, alone, paired>>

Last == audit[Len(audit)]

EndsTorn == audit # <<>> /\ Last = Torn

\* approve(): the approval is appended to the audit log, whatever its end is.
Log(p) ==
  /\ proc[p].pc = "logging"
  /\ audit' = IF EndsTorn THEN [audit EXCEPT ![Len(audit)] = Garbled]
              ELSE Append(audit, proc[p].sha)
  /\ Goto(p, [pc |-> "unlinkingPng"])
  /\ latest' = (paired /\ ~EndsTorn)
  /\ UNCHANGED <<pendingPng, pendingMeta, approvedPng, alone, paired>>

\* approve(): the line is written in part; OSError.
LogTears(p) ==
  /\ MayCrash /\ proc[p].pc = "logging"
  /\ audit' = IF EndsTorn THEN audit ELSE Append(audit, Torn)
  /\ Goto(p, Idle)
  /\ latest' = FALSE
  /\ UNCHANGED <<pendingPng, pendingMeta, approvedPng, alone, paired>>

\* approve(): the pending files go, the image first.
UnlinkPng(p) ==
  /\ proc[p].pc = "unlinkingPng"
  /\ pendingPng' = NoImage
  /\ Goto(p, [pc |-> "unlinkingMeta"])
  /\ paired' = FALSE
  /\ UNCHANGED <<pendingMeta, approvedPng, audit, alone, latest>>

\* Mutant: the metadata of the approved capture stays.
UnlinkMeta_Forgotten(p) ==
  /\ proc[p].pc = "unlinkingMeta"
  /\ Goto(p, Idle)
  /\ paired' = alone
  /\ UNCHANGED <<files, alone, latest>>

UnlinkMeta(p) ==
  /\ proc[p].pc = "unlinkingMeta"
  /\ pendingMeta' = NoImage
  /\ Goto(p, Idle)
  /\ paired' = alone
  /\ UNCHANGED <<pendingPng, approvedPng, audit, alone, latest>>

\* The process dies; the files stay as they are.
Crash(p) ==
  /\ MayCrash /\ proc[p] # Idle
  /\ Goto(p, Idle)
  /\ UNCHANGED <<files, history>>

ApproveStep(p) ==
  \/ ReadCandidate(p)
  \/ ReadPng(p)
  \/ Place(p)
  \/ Log(p)
  \/ LogTears(p)
  \/ UnlinkPng(p)
  \/ UnlinkMeta(p)

Next ==
  \/ \E img \in Images, upload \in BOOLEAN : CapturePng(img, upload)
  \/ CaptureMeta
  \/ \E p \in Processes : Approve(p) \/ ApproveStep(p) \/ Crash(p)

Spec == Init /\ [][Next]_vars

-----------------------------------------------------------------------------
(* Properties.                                                             *)

\* Whether history() can parse all lines; it does not get as far as their pages.
Legible == \A i \in DOMAIN audit : audit[i] \in Images

\* evaluate_visual_capture: what a page check makes of a screenshot.  The diff
\* threshold does not matter here.
VisualStatus(current) ==
  IF audit = <<>> THEN "baseline_pending"
  ELSE IF ~Legible THEN "unavailable"
  ELSE IF ~({approvedPng, current} \subseteq Comparable) THEN "unavailable"
  ELSE IF current = approvedPng THEN "matched" ELSE "changed"

ProcState ==
  [pc : {"idle", "approving", "unlinkingPng", "unlinkingMeta"}]
  \cup [pc : {"capturing"}, img : Images, upload : BOOLEAN]
  \cup [pc : {"reading", "logging"}, sha : Images]
  \cup [pc : {"placing"}, sha : Images, img : Images]

TypeOK ==
  /\ pendingPng \in Images \cup {NoImage}
  /\ pendingMeta \in Images \cup {NoImage}
  /\ approvedPng \in Images \cup {NoImage}
  /\ audit \in Seq(Images \cup {Torn, Garbled})
  /\ proc \in [Processes -> ProcState]
  /\ alone \in BOOLEAN /\ paired \in BOOLEAN /\ latest \in BOOLEAN

\* Whatever races or crashes, a baseline on record can be loaded: no page check
\* finds an approval without its image (baselines.py:114-116, the image goes
\* first; visual_assurance.py:18-30).  Only a torn audit line makes the comparison
\* unavailable, and that for good, or an image that the diff refuses
\* (visual_diff.py:114-118).
RecordedBaselineCanBeLoaded ==
  \A current \in Images :
    VisualStatus(current) = "unavailable" =>
      ~Legible \/ current \notin Comparable \/ approvedPng \in Images \ Comparable

\* The files recover from crashes and races.  A capture, or an approval, that runs
\* alone to its end leaves a pending image with its own metadata or neither,
\* whatever it found; and an approval of such a pair that runs alone and writes its
\* whole line leaves the image on record as the baseline, even when the approvals
\* before it died half-way.  Both last until the next such accident
\* (baselines.py:68-70, 114-119, 122-124).
FilesInStep ==
  /\ paired => pendingPng = pendingMeta
  /\ latest => IF audit = <<>> THEN approvedPng = NoImage ELSE approvedPng = Last

\* An approval that runs alone throws away a pending capture only once it is the
\* baseline and a line of the log, its own if capture and metadata were paired: also
\* after accidents a newer capture never goes with it (baselines.py:118-119).
OnlyApprovedCapturesGo ==
  [][alone /\ pendingPng # NoImage /\ pendingPng' = NoImage
       => /\ approvedPng = pendingPng
          /\ audit # <<>>
          /\ paired => Last \in {pendingPng, Garbled}]_vars
=============================================================================
