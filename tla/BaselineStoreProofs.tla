------------------------ MODULE BaselineStoreProofs ------------------------
(***************************************************************************)
(* Whatever captures, approvals and crashes interleave, an approval on     *)
(* record has its image.  The approved image is replaced before the audit  *)
(* line is written and is never removed: the inductive invariant says so   *)
(* of the log, and of every process that is about to write to it.          *)
(*                                                                         *)
(* The second invariant is about recovery: for each place of the code it   *)
(* says what a process that is alone has done to the files so far,         *)
(* whatever it found when it began.                                        *)
(***************************************************************************)
EXTENDS BaselineStore, TLAPS

\* Who has recorded an approval, or is about to, has placed its image.
ImagePrecedesRecord ==
  /\ audit # <<>> => approvedPng \in Images
  /\ \A p \in Processes : proc[p].pc = "logging" => approvedPng \in Images

BaselineInv == TypeOK /\ ImagePrecedesRecord

-----------------------------------------------------------------------------
\* What a process carries at each place of the code.
LEMMA PlaceHasState ==
  ASSUME TypeOK, NEW p \in Processes
  PROVE  /\ proc[p] \in ProcState
         /\ proc[p].pc = "capturing" =>
              proc[p].img \in Images /\ proc[p].upload \in BOOLEAN
         /\ proc[p].pc \in {"reading", "logging"} => proc[p].sha \in Images
         /\ proc[p].pc = "placing" => proc[p].sha \in Images /\ proc[p].img \in Images
<1>1. proc[p] \in ProcState
  BY DEF TypeOK
<1>2. QED
  BY <1>1 DEF ProcState

\* A process goes from one place to another and the others stay.
LEMMA GotoMovesOne ==
  ASSUME TypeOK, NEW p \in Processes, NEW there \in ProcState, Goto(p, there)
  PROVE  /\ proc' \in [Processes -> ProcState]
         /\ proc'[p] = there
         /\ \A q \in Processes : q # p => proc'[q] = proc[q]
<1>1. proc \in [Processes -> ProcState]
  BY DEF TypeOK
<1>2. proc' = [proc EXCEPT ![p] = there]
  BY DEF Goto
<1>3. QED
  BY <1>1, <1>2

\* The places that processes go to.
LEMMA Places ==
  /\ \A pc \in {"idle", "approving", "unlinkingPng", "unlinkingMeta"} :
       [pc |-> pc] \in ProcState
  /\ \A img \in Images, upload \in BOOLEAN :
       [pc |-> "capturing", img |-> img, upload |-> upload] \in ProcState
  /\ \A sha \in Images :
       /\ [pc |-> "reading", sha |-> sha] \in ProcState
       /\ [pc |-> "logging", sha |-> sha] \in ProcState
       /\ \A img \in Images :
            [pc |-> "placing", sha |-> sha, img |-> img] \in ProcState
BY DEF ProcState

\* The invariant survives a step that leaves the log and the approved image
\* alone and takes no process to the log.
LEMMA MovePreserves ==
  ASSUME BaselineInv, NEW p \in Processes, NEW there \in ProcState, Goto(p, there),
         there.pc # "logging", UNCHANGED <<approvedPng, audit>>,
         pendingPng' \in Images \cup {NoImage},
         pendingMeta' \in Images \cup {NoImage}, alone' \in BOOLEAN,
         paired' \in BOOLEAN, latest' \in BOOLEAN
  PROVE  BaselineInv'
<1>1. TypeOK /\ ImagePrecedesRecord
  BY DEF BaselineInv
<1>2. /\ proc' \in [Processes -> ProcState]
      /\ proc'[p] = there
      /\ \A q \in Processes : q # p => proc'[q] = proc[q]
  BY <1>1, GotoMovesOne
<1>3. TypeOK'
  BY <1>1, <1>2 DEF TypeOK
<1>4. ImagePrecedesRecord'
  BY <1>1, <1>2 DEF ImagePrecedesRecord
<1>5. QED
  BY <1>3, <1>4 DEF BaselineInv

-----------------------------------------------------------------------------
\* The empty store satisfies the invariant.
LEMMA InitInv == Init => BaselineInv
<1> SUFFICES ASSUME Init PROVE BaselineInv
  OBVIOUS
<1>1. \A p \in Processes : proc[p] = Idle
  BY DEF Init
<1>2. TypeOK
  <2>1. Idle \in ProcState
    BY Places DEF Idle
  <2>2. audit \in Seq(Images \cup {Torn, Garbled})
    BY DEF Init
  <2>3. QED
    BY <2>1, <2>2 DEF Init, TypeOK
<1>3. ImagePrecedesRecord
  BY <1>1 DEF Init, ImagePrecedesRecord, Idle
<1>4. QED
  BY <1>2, <1>3 DEF BaselineInv

\* capture(), and the start of an approval.
LEMMA CaptureInv ==
  ASSUME BaselineInv,
         \/ \E img \in Images, upload \in BOOLEAN : CapturePng(img, upload)
         \/ CaptureMeta
         \/ \E p \in Processes : Approve(p)
  PROVE  BaselineInv'
<1>1. TypeOK
  BY DEF BaselineInv
<1>2. Server \in Processes
  BY DEF Processes
<1>3. ASSUME NEW img \in Images, NEW upload \in BOOLEAN, CapturePng(img, upload)
      PROVE  BaselineInv'
  <2> DEFINE there == [pc |-> "capturing", img |-> img, upload |-> upload]
  <2>1. there \in ProcState /\ there.pc # "logging"
    BY Places
  <2>2. Goto(Server, there) /\ UNCHANGED <<approvedPng, audit>>
    BY <1>3 DEF CapturePng
  <2>3. /\ pendingPng' \in Images \cup {NoImage}
        /\ pendingMeta' \in Images \cup {NoImage}
        /\ alone' \in BOOLEAN /\ paired' \in BOOLEAN /\ latest' \in BOOLEAN
    BY <1>1, <1>3 DEF CapturePng, TypeOK, Begins, AllIdle, files
  <2>4. QED
    BY <1>2, <2>1, <2>2, <2>3, MovePreserves
<1>4. ASSUME CaptureMeta
      PROVE  BaselineInv'
  <2> DEFINE there == IF proc[Server].upload THEN [pc |-> "approving"] ELSE Idle
  <2>1. there \in ProcState /\ there.pc # "logging"
    BY Places DEF Idle
  <2>2. Goto(Server, there) /\ UNCHANGED <<approvedPng, audit>>
    BY <1>4 DEF CaptureMeta
  <2>3. /\ pendingPng' \in Images \cup {NoImage}
        /\ pendingMeta' \in Images \cup {NoImage}
        /\ alone' \in BOOLEAN /\ paired' \in BOOLEAN /\ latest' \in BOOLEAN
    BY <1>1, <1>2, <1>4, PlaceHasState DEF CaptureMeta, TypeOK, Begins, AllIdle, files
  <2>4. QED
    BY <1>2, <2>1, <2>2, <2>3, MovePreserves
<1>5. ASSUME NEW p \in Processes, Approve(p)
      PROVE  BaselineInv'
  <2> DEFINE there == [pc |-> "approving"]
  <2>1. there \in ProcState /\ there.pc # "logging"
    BY Places
  <2>2. Goto(p, there) /\ UNCHANGED <<approvedPng, audit>>
    BY <1>5 DEF Approve, files
  <2>3. /\ pendingPng' \in Images \cup {NoImage}
        /\ pendingMeta' \in Images \cup {NoImage}
        /\ alone' \in BOOLEAN /\ paired' \in BOOLEAN /\ latest' \in BOOLEAN
    BY <1>1, <1>5 DEF Approve, TypeOK, Begins, AllIdle, files
  <2>4. QED
    BY <2>1, <2>2, <2>3, MovePreserves
<1>6. QED
  BY <1>3, <1>4, <1>5

\* The steps of approve() that only read, or that only remove pending files,
\* and crashes.
LEMMA QuietApproveInv ==
  ASSUME BaselineInv, NEW p \in Processes,
         \/ ReadCandidate(p) \/ ReadPng(p)
         \/ UnlinkPng(p) \/ UnlinkMeta(p) \/ Crash(p)
  PROVE  BaselineInv'
<1>1. TypeOK
  BY DEF BaselineInv
<1>2. Idle \in ProcState /\ Idle.pc # "logging"
  BY Places DEF Idle
<1>3. /\ pendingPng' \in Images \cup {NoImage}
      /\ pendingMeta' \in Images \cup {NoImage}
      /\ alone' \in BOOLEAN /\ paired' \in BOOLEAN /\ latest' \in BOOLEAN
      /\ UNCHANGED <<approvedPng, audit>>
  BY <1>1 DEF ReadCandidate, ReadPng, UnlinkPng, UnlinkMeta, Crash, TypeOK, files, history
<1>4. \E there \in ProcState : there.pc # "logging" /\ Goto(p, there)
  <2>1. CASE ReadCandidate(p)
    <3>1. CASE pendingMeta = NoImage
      BY <1>2, <2>1, <3>1 DEF ReadCandidate
    <3>2. CASE pendingMeta # NoImage
      <4>1. pendingMeta \in Images
        BY <1>1, <3>2 DEF TypeOK
      <4>2. [pc |-> "reading", sha |-> pendingMeta] \in ProcState
        BY <4>1, Places
      <4>3. QED
        BY <2>1, <3>2, <4>2 DEF ReadCandidate
    <3>3. QED
      BY <3>1, <3>2
  <2>2. CASE ReadPng(p)
    <3>1. CASE pendingPng = NoImage
      BY <1>2, <2>2, <3>1 DEF ReadPng
    <3>2. CASE pendingPng # NoImage
      <4>1. pendingPng \in Images /\ proc[p].sha \in Images
        BY <1>1, <2>2, <3>2, PlaceHasState DEF TypeOK, ReadPng
      <4>2. [pc |-> "placing", sha |-> proc[p].sha, img |-> pendingPng] \in ProcState
        BY <4>1, Places
      <4>3. QED
        BY <2>2, <3>2, <4>2 DEF ReadPng
    <3>3. QED
      BY <3>1, <3>2
  <2>3. CASE UnlinkPng(p)
    <3>1. [pc |-> "unlinkingMeta"] \in ProcState
      BY Places
    <3>2. QED
      BY <2>3, <3>1 DEF UnlinkPng
  <2>4. CASE UnlinkMeta(p) \/ Crash(p)
    BY <1>2, <2>4 DEF UnlinkMeta, Crash
  <2>5. QED
    BY <2>1, <2>2, <2>3, <2>4
<1>5. QED
  BY <1>3, <1>4, MovePreserves

\* The image is put in place: whoever logs now finds it.
LEMMA PlaceInv ==
  ASSUME BaselineInv, NEW p \in Processes, Place(p)
  PROVE  BaselineInv'
<1>1. TypeOK /\ ImagePrecedesRecord
  BY DEF BaselineInv
<1>2. proc[p].sha \in Images /\ proc[p].img \in Images
  BY <1>1, PlaceHasState DEF Place
<1>3. approvedPng' \in Images
  BY <1>2 DEF Place
<1>4. [pc |-> "logging", sha |-> proc[p].sha] \in ProcState
  BY <1>2, Places
<1>5. proc' \in [Processes -> ProcState]
  BY <1>1, <1>4, GotoMovesOne DEF Place
<1>6. TypeOK'
  BY <1>1, <1>3, <1>5 DEF Place, TypeOK
<1>7. ImagePrecedesRecord'
  BY <1>3 DEF ImagePrecedesRecord
<1>8. QED
  BY <1>6, <1>7 DEF BaselineInv

\* The last line of a log that has one is replaced.
LEMMA GarblingKeepsType ==
  ASSUME NEW Lines, NEW log \in Seq(Lines), log # <<>>, NEW line \in Lines
  PROVE  [log EXCEPT ![Len(log)] = line] \in Seq(Lines)
OBVIOUS

\* An audit line is written, whole or in part: its writer had placed the image.
LEMMA LogInv ==
  ASSUME BaselineInv, NEW p \in Processes, Log(p)
  PROVE  BaselineInv'
<1>1. TypeOK /\ ImagePrecedesRecord
  BY DEF BaselineInv
<1>2. proc[p].sha \in Images /\ proc[p].pc = "logging"
  BY <1>1, PlaceHasState DEF Log
<1>3. approvedPng' \in Images
  BY <1>1, <1>2 DEF ImagePrecedesRecord, Log
<1>4. [pc |-> "unlinkingPng"] \in ProcState
  BY Places
<1>5. proc' \in [Processes -> ProcState]
  BY <1>1, <1>4, GotoMovesOne DEF Log
<1>6. audit' \in Seq(Images \cup {Torn, Garbled})
  <2>1. CASE EndsTorn
    BY <1>1, <2>1, GarblingKeepsType DEF Log, TypeOK, EndsTorn
  <2>2. CASE ~EndsTorn
    BY <1>1, <1>2, <2>2 DEF Log, TypeOK
  <2>3. QED
    BY <2>1, <2>2
<1>7. TypeOK'
  BY <1>1, <1>3, <1>5, <1>6 DEF Log, TypeOK
<1>8. ImagePrecedesRecord'
  BY <1>3 DEF ImagePrecedesRecord
<1>9. QED
  BY <1>7, <1>8 DEF BaselineInv

LEMMA LogTearsInv ==
  ASSUME BaselineInv, NEW p \in Processes, LogTears(p)
  PROVE  BaselineInv'
<1>1. TypeOK /\ ImagePrecedesRecord
  BY DEF BaselineInv
<1>2. approvedPng' \in Images
  BY <1>1 DEF ImagePrecedesRecord, LogTears
<1>3. Idle \in ProcState
  BY Places DEF Idle
<1>4. proc' \in [Processes -> ProcState]
  BY <1>1, <1>3, GotoMovesOne DEF LogTears
<1>5. audit' \in Seq(Images \cup {Torn, Garbled})
  BY <1>1 DEF LogTears, TypeOK
<1>6. TypeOK'
  BY <1>1, <1>2, <1>4, <1>5 DEF LogTears, TypeOK
<1>7. ImagePrecedesRecord'
  BY <1>2 DEF ImagePrecedesRecord
<1>8. QED
  BY <1>6, <1>7 DEF BaselineInv

\* Every step preserves the invariant.
LEMMA NextInv == BaselineInv /\ [Next]_vars => BaselineInv'
<1> SUFFICES ASSUME BaselineInv, [Next]_vars PROVE BaselineInv'
  OBVIOUS
<1>1. CASE UNCHANGED vars
  BY <1>1 DEF vars, files, history, BaselineInv, TypeOK, ImagePrecedesRecord
<1>2. CASE \E img \in Images, upload \in BOOLEAN : CapturePng(img, upload)
  BY <1>2, CaptureInv
<1>3. CASE CaptureMeta
  BY <1>3, CaptureInv
<1>4. ASSUME NEW p \in Processes, Approve(p) \/ ApproveStep(p) \/ Crash(p)
      PROVE  BaselineInv'
  BY <1>4, CaptureInv, QuietApproveInv, PlaceInv, LogInv, LogTearsInv DEF ApproveStep
<1>5. QED
  BY <1>1, <1>2, <1>3, <1>4 DEF Next

-----------------------------------------------------------------------------
\* Under every interleaving and crash, the invariant holds.
THEOREM BaselineCorrect == Spec => []BaselineInv
  BY InitInv, NextInv, PTL DEF Spec

\* The files, the log and what processes carry keep their types.
THEOREM BaselineTypeCorrect == Spec => []TypeOK
<1>1. BaselineInv => TypeOK
  BY DEF BaselineInv
<1>2. QED
  BY <1>1, BaselineCorrect, PTL

\* A baseline on record can be loaded, for any number of scripts, captures and
\* crashes: the order in which approve() writes is the reason.
THEOREM RecordedBaselineSurvives == Spec => []RecordedBaselineCanBeLoaded
<1>1. BaselineInv => RecordedBaselineCanBeLoaded
  <2> SUFFICES ASSUME BaselineInv, NEW current \in Images
               PROVE  VisualStatus(current) = "unavailable" =>
                        ~Legible \/ current \notin Comparable \/ approvedPng \in Images \ Comparable
    BY DEF RecordedBaselineCanBeLoaded
  <2>1. audit # <<>> => approvedPng \in Images
    BY DEF BaselineInv, ImagePrecedesRecord
  <2>2. NoImage \notin Images
    BY BaselineAssumption
  <2>3. QED
    BY <2>1, <2>2 DEF VisualStatus
<1>2. QED
  BY <1>1, BaselineCorrect, PTL

-----------------------------------------------------------------------------
(* Processes that are alone.                                               *)

\* The approved image is the one approved last, or there is none.
BaselineIsLatest == IF audit = <<>> THEN approvedPng = NoImage ELSE approvedPng = Last

\* What a process that is alone has done to the files so far.
InStepAt(p) ==
  LET s == proc[p]
  IN  /\ s.pc = "capturing" => pendingPng = s.img
      /\ s.pc \in {"reading", "placing", "logging"} => (paired => s.sha = pendingMeta)
      /\ s.pc = "placing" => s.img = pendingPng
      /\ s.pc \in {"logging", "unlinkingPng"} => approvedPng = pendingPng
      /\ s.pc = "unlinkingPng" => /\ audit # <<>>
                                  /\ paired => Last \in {pendingPng, Garbled}
      /\ s.pc = "unlinkingMeta" => pendingPng = NoImage

\* Nothing is claimed of the files while processes race; one that is alone has the
\* others idle, and leaves the files as its place in the code says.
HistoryInv ==
  /\ paired => pendingPng = pendingMeta
  /\ latest => BaselineIsLatest
  /\ ~alone => ~paired /\ ~latest
  /\ alone => \A p \in Processes : proc[p] # Idle =>
                InStepAt(p) /\ \A q \in Processes : q # p => proc[q] = Idle

\* The empty store is in step.
LEMMA InitHistory == Init => HistoryInv
BY DEF Init, HistoryInv, BaselineIsLatest

\* Who begins while all are idle is alone, and so is who was alone and goes on.
LEMMA OneGoesOn ==
  ASSUME TypeOK, HistoryInv, NEW p \in Processes, NEW there \in ProcState, Goto(p, there),
         (alone' = alone /\ proc[p].pc # "idle") \/ alone' = AllIdle,
         alone' => there = Idle \/ (InStepAt(p))',
         paired' => pendingPng' = pendingMeta',
         latest' => BaselineIsLatest',
         ~alone' => ~paired' /\ ~latest'
  PROVE  HistoryInv'
<1>1. /\ proc'[p] = there
      /\ \A q \in Processes : q # p => proc'[q] = proc[q]
  BY GotoMovesOne
<1>2. alone' => \A q \in Processes : q # p => proc[q] = Idle
  <2>1. CASE alone' = alone /\ proc[p].pc # "idle"
    <3>1. proc[p] # Idle
      BY <2>1 DEF Idle
    <3>2. QED
      BY <2>1, <3>1 DEF HistoryInv
  <2>2. CASE alone' = AllIdle
    BY <2>2 DEF AllIdle
  <2>3. QED
    BY <2>1, <2>2
<1>3. ASSUME alone', NEW q \in Processes, proc'[q] # Idle
      PROVE  (InStepAt(q))' /\ \A o \in Processes : o # q => proc'[o] = Idle
  <2>1. q = p
    BY <1>1, <1>2, <1>3
  <2>2. QED
    BY <1>1, <1>2, <1>3, <2>1
<1>4. QED
  BY <1>3 DEF HistoryInv

\* What holds of the files while a process is alone.
LEMMA AtWork ==
  ASSUME TypeOK, HistoryInv, alone, NEW p \in Processes, proc[p].pc # "idle"
  PROVE  InStepAt(p)
<1>1. proc[p] # Idle
  BY DEF Idle
<1>2. QED
  BY <1>1 DEF HistoryInv

\* A capture begins, by itself or next to others.
LEMMA CapturePngHistory ==
  ASSUME TypeOK, HistoryInv, NEW img \in Images, NEW upload \in BOOLEAN, CapturePng(img, upload)
  PROVE  HistoryInv'
<1> DEFINE there == [pc |-> "capturing", img |-> img, upload |-> upload]
<1>1. Server \in Processes
  BY DEF Processes
<1>2. there \in ProcState /\ Goto(Server, there)
  BY Places DEF CapturePng
<1>3. proc'[Server] = there
  BY <1>1, <1>2, GotoMovesOne
<1>4. /\ pendingPng' = img /\ alone' = AllIdle /\ latest' = (latest /\ AllIdle)
      /\ paired' = FALSE /\ UNCHANGED <<pendingMeta, approvedPng, audit>>
  BY DEF CapturePng, Begins
<1>5. (InStepAt(Server))'
  BY <1>3, <1>4 DEF InStepAt
<1>6. latest' => BaselineIsLatest'
  BY <1>4 DEF HistoryInv, BaselineIsLatest, Last
<1> HIDE DEF there
<1>7. QED
  BY <1>1, <1>2, <1>4, <1>5, <1>6, OneGoesOn

\* A capture that is alone leaves its own metadata next to its image.
LEMMA CaptureMetaHistory ==
  ASSUME TypeOK, HistoryInv, CaptureMeta
  PROVE  HistoryInv'
<1> DEFINE there == IF proc[Server].upload THEN [pc |-> "approving"] ELSE Idle
<1>1. Server \in Processes
  BY DEF Processes
<1>2. there \in ProcState /\ Goto(Server, there) /\ proc[Server].pc = "capturing"
  BY Places DEF CaptureMeta, Idle
<1>3. proc'[Server] = there /\ (there = Idle \/ there.pc = "approving")
  BY <1>1, <1>2, GotoMovesOne
<1>4. /\ pendingMeta' = proc[Server].img /\ paired' = alone
      /\ UNCHANGED <<pendingPng, approvedPng, audit, alone, latest>>
  BY DEF CaptureMeta
<1>5. alone => pendingPng = proc[Server].img
  BY <1>1, <1>2, AtWork DEF InStepAt
<1>6. there = Idle \/ (InStepAt(Server))'
  BY <1>3 DEF InStepAt
<1>7. latest' => BaselineIsLatest'
  BY <1>4 DEF HistoryInv, BaselineIsLatest, Last
<1>8. ~alone' => ~paired' /\ ~latest'
  BY <1>4 DEF HistoryInv
<1> HIDE DEF there
<1>9. QED
  BY <1>1, <1>2, <1>4, <1>5, <1>6, <1>7, <1>8, OneGoesOn

\* An approval begins, by itself or next to others.
LEMMA ApproveHistory ==
  ASSUME TypeOK, HistoryInv, NEW p \in Processes, Approve(p)
  PROVE  HistoryInv'
<1> DEFINE there == [pc |-> "approving"]
<1>1. there \in ProcState /\ Goto(p, there)
  BY Places DEF Approve
<1>2. proc'[p] = there
  BY <1>1, GotoMovesOne
<1>3. /\ alone' = AllIdle /\ latest' = (latest /\ AllIdle) /\ paired' = (paired /\ AllIdle)
      /\ UNCHANGED <<pendingPng, pendingMeta, approvedPng, audit>>
  BY DEF Approve, Begins, files
<1>4. (InStepAt(p))'
  BY <1>2 DEF InStepAt
<1>5. (paired' => pendingPng' = pendingMeta') /\ (latest' => BaselineIsLatest')
  BY <1>3 DEF HistoryInv, BaselineIsLatest, Last
<1> HIDE DEF there
<1>6. QED
  BY <1>1, <1>3, <1>4, <1>5, OneGoesOn

\* Steps that leave the files and what is claimed of them alone.
LEMMA ReadHistory ==
  ASSUME TypeOK, HistoryInv, NEW p \in Processes, NEW there \in ProcState, Goto(p, there),
         proc[p].pc # "idle", UNCHANGED <<files, history>>,
         alone => there = Idle \/ (InStepAt(p))'
  PROVE  HistoryInv'
<1>1. UNCHANGED <<pendingPng, pendingMeta, approvedPng, audit, alone, paired, latest>>
  BY DEF files, history
<1>2. /\ paired' => pendingPng' = pendingMeta'
      /\ latest' => BaselineIsLatest'
      /\ ~alone' => ~paired' /\ ~latest'
  BY <1>1 DEF HistoryInv, BaselineIsLatest, Last
<1>3. QED
  BY <1>1, <1>2, OneGoesOn

\* approve() reads the candidate, then its bytes.
LEMMA ApproveReadsHistory ==
  ASSUME TypeOK, HistoryInv, NEW p \in Processes, ReadCandidate(p) \/ ReadPng(p) \/ Crash(p)
  PROVE  HistoryInv'
<1>1. UNCHANGED <<files, history>>
      /\ UNCHANGED <<pendingPng, pendingMeta, approvedPng, audit, alone, paired, latest>>
  BY DEF ReadCandidate, ReadPng, Crash, files, history
<1>2. proc[p].pc = "idle" <=> proc[p] = Idle
  <2>1. proc[p] \in ProcState
    BY DEF TypeOK
  <2>2. QED
    BY <2>1 DEF ProcState, Idle
<1>3. Idle \in ProcState
  BY Places DEF Idle
<1>4. CASE Crash(p)
  BY <1>1, <1>2, <1>3, <1>4, ReadHistory DEF Crash
<1>5. CASE ReadCandidate(p)
  <2>1. proc[p].pc = "approving"
    BY <1>5 DEF ReadCandidate
  <2>2. CASE pendingMeta = NoImage
    BY <1>1, <1>3, <1>5, <2>1, <2>2, ReadHistory DEF ReadCandidate
  <2>3. CASE pendingMeta # NoImage
    <3> DEFINE there == [pc |-> "reading", sha |-> pendingMeta]
    <3>1. there \in ProcState /\ Goto(p, there)
      BY <1>5, <2>3, Places DEF ReadCandidate, TypeOK
    <3>2. proc'[p] = there
      BY <3>1, GotoMovesOne
    <3>3. (InStepAt(p))'
      BY <1>1, <3>2 DEF InStepAt
    <3> HIDE DEF there
    <3>4. QED
      BY <1>1, <2>1, <3>1, <3>3, ReadHistory
  <2>4. QED
    BY <2>2, <2>3
<1>6. CASE ReadPng(p)
  <2>1. proc[p].pc = "reading" /\ proc[p].sha \in Images
    BY <1>6, PlaceHasState DEF ReadPng
  <2>2. CASE pendingPng = NoImage
    BY <1>1, <1>3, <1>6, <2>1, <2>2, ReadHistory DEF ReadPng
  <2>3. CASE pendingPng # NoImage
    <3> DEFINE there == [pc |-> "placing", sha |-> proc[p].sha, img |-> pendingPng]
    <3>1. there \in ProcState /\ Goto(p, there)
      BY <1>6, <2>1, <2>3, Places DEF ReadPng, TypeOK
    <3>2. proc'[p] = there
      BY <3>1, GotoMovesOne
    <3>3. alone => (paired => proc[p].sha = pendingMeta)
      BY <2>1, AtWork DEF InStepAt
    <3>4. alone => (InStepAt(p))'
      BY <1>1, <3>2, <3>3 DEF InStepAt
    <3> HIDE DEF there
    <3>5. QED
      BY <1>1, <2>1, <3>1, <3>4, ReadHistory
  <2>4. QED
    BY <2>2, <2>3
<1>7. QED
  BY <1>4, <1>5, <1>6

\* The approved image is replaced: until its line is written it is not on record.
LEMMA PlaceHistory ==
  ASSUME TypeOK, HistoryInv, NEW p \in Processes, Place(p)
  PROVE  HistoryInv'
<1> DEFINE there == [pc |-> "logging", sha |-> proc[p].sha]
<1>1. proc[p].pc = "placing" /\ proc[p].sha \in Images
  BY PlaceHasState DEF Place
<1>2. there \in ProcState /\ Goto(p, there)
  BY <1>1, Places DEF Place
<1>3. proc'[p] = there
  BY <1>2, GotoMovesOne
<1>4. /\ approvedPng' = proc[p].img /\ latest' = FALSE
      /\ UNCHANGED <<pendingPng, pendingMeta, audit, alone, paired>>
  BY DEF Place
<1>5. alone => proc[p].img = pendingPng /\ (paired => proc[p].sha = pendingMeta)
  BY <1>1, AtWork DEF InStepAt
<1>6. alone => (InStepAt(p))'
  BY <1>3, <1>4, <1>5 DEF InStepAt
<1>7. (paired' => pendingPng' = pendingMeta') /\ (~alone' => ~paired')
  BY <1>4 DEF HistoryInv
<1> HIDE DEF there
<1>8. QED
  BY <1>1, <1>2, <1>4, <1>6, <1>7, OneGoesOn

\* The line is appended.  On a line of its own it records the baseline, if capture
\* and metadata were paired; after a torn one it cannot be read.
LEMMA LogHistory ==
  ASSUME TypeOK, HistoryInv, NEW p \in Processes, Log(p)
  PROVE  HistoryInv'
<1> DEFINE there == [pc |-> "unlinkingPng"]
           sha == proc[p].sha
<1>1. proc[p].pc = "logging"
  BY DEF Log
<1>2. there \in ProcState /\ Goto(p, there)
  BY Places DEF Log
<1>3. proc'[p] = there /\ there.pc = "unlinkingPng"
  BY <1>2, GotoMovesOne
<1>4. /\ audit' = IF EndsTorn THEN [audit EXCEPT ![Len(audit)] = Garbled]
                  ELSE Append(audit, sha)
      /\ latest' = (paired /\ ~EndsTorn)
      /\ UNCHANGED <<pendingPng, pendingMeta, approvedPng, alone, paired>>
  BY DEF Log
<1>5. audit \in Seq(Images \cup {Torn, Garbled})
  BY DEF TypeOK
<1>6. audit' # <<>> /\ Last' = IF EndsTorn THEN Garbled ELSE sha
  <2>1. CASE EndsTorn
    <3>1. audit # <<>>
      BY <2>1 DEF EndsTorn
    <3>2. audit' = [audit EXCEPT ![Len(audit)] = Garbled]
      BY <1>4, <2>1
    <3>3. /\ Len(audit) \in DOMAIN audit /\ DOMAIN audit' = DOMAIN audit
          /\ Len(audit') = Len(audit) /\ audit'[Len(audit)] = Garbled
      BY <1>5, <3>1, <3>2
    <3>4. QED
      BY <1>5, <2>1, <3>3 DEF Last
  <2>2. CASE ~EndsTorn
    BY <1>4, <1>5, <2>2 DEF Last
  <2>3. QED
    BY <2>1, <2>2
<1>7. alone => approvedPng = pendingPng /\ (paired => sha = pendingMeta)
  BY <1>1, AtWork DEF InStepAt
<1>8. (paired => pendingPng = pendingMeta) /\ (~alone => ~paired)
  BY DEF HistoryInv
<1> HIDE DEF there, sha
<1>9. alone => (InStepAt(p))'
  BY <1>3, <1>4, <1>6, <1>7, <1>8 DEF InStepAt
<1>10. latest' => BaselineIsLatest'
  BY <1>4, <1>6, <1>7, <1>8 DEF BaselineIsLatest
<1>11. QED
  BY <1>1, <1>2, <1>4, <1>8, <1>9, <1>10, OneGoesOn

\* The line is torn: the writer ends, and the image it placed is not on record.
LEMMA LogTearsHistory ==
  ASSUME TypeOK, HistoryInv, NEW p \in Processes, LogTears(p)
  PROVE  HistoryInv'
<1>1. Idle \in ProcState /\ Goto(p, Idle) /\ proc[p].pc # "idle"
  BY Places DEF LogTears, Idle
<1>2. latest' = FALSE /\ UNCHANGED <<pendingPng, pendingMeta, alone, paired>>
  BY DEF LogTears
<1>3. (paired' => pendingPng' = pendingMeta') /\ (~alone' => ~paired')
  BY <1>2 DEF HistoryInv
<1>4. QED
  BY <1>1, <1>2, <1>3, OneGoesOn

\* The pending files go, the image first; without a race neither is left.
LEMMA UnlinkHistory ==
  ASSUME TypeOK, HistoryInv, NEW p \in Processes, UnlinkPng(p) \/ UnlinkMeta(p)
  PROVE  HistoryInv'
<1>1. CASE UnlinkPng(p)
  <2> DEFINE there == [pc |-> "unlinkingMeta"]
  <2>1. there \in ProcState /\ Goto(p, there) /\ proc[p].pc # "idle"
    BY <1>1, Places DEF UnlinkPng
  <2>2. proc'[p] = there
    BY <2>1, GotoMovesOne
  <2>3. /\ pendingPng' = NoImage /\ paired' = FALSE
        /\ UNCHANGED <<pendingMeta, approvedPng, audit, alone, latest>>
    BY <1>1 DEF UnlinkPng
  <2>4. (InStepAt(p))'
    BY <2>2, <2>3 DEF InStepAt
  <2>5. (latest' => BaselineIsLatest') /\ (~alone' => ~latest')
    BY <2>3 DEF HistoryInv, BaselineIsLatest, Last
  <2> HIDE DEF there
  <2>6. QED
    BY <2>1, <2>3, <2>4, <2>5, OneGoesOn
<1>2. CASE UnlinkMeta(p)
  <2>1. Idle \in ProcState /\ Goto(p, Idle) /\ proc[p].pc = "unlinkingMeta"
    BY <1>2, Places DEF UnlinkMeta, Idle
  <2>2. /\ pendingMeta' = NoImage /\ paired' = alone
        /\ UNCHANGED <<pendingPng, approvedPng, audit, alone, latest>>
    BY <1>2 DEF UnlinkMeta
  <2>3. alone => pendingPng = NoImage
    BY <2>1, AtWork DEF InStepAt
  <2>4. (latest' => BaselineIsLatest') /\ (~alone' => ~latest')
    BY <2>2 DEF HistoryInv, BaselineIsLatest, Last
  <2>5. QED
    BY <2>1, <2>2, <2>3, <2>4, OneGoesOn
<1>3. QED
  BY <1>1, <1>2

\* Every step keeps what is claimed of the files.
LEMMA NextHistory == TypeOK /\ HistoryInv /\ [Next]_vars => HistoryInv'
<1> SUFFICES ASSUME TypeOK, HistoryInv, [Next]_vars PROVE HistoryInv'
  OBVIOUS
<1>1. CASE UNCHANGED vars
  <2>1. UNCHANGED <<pendingPng, pendingMeta, approvedPng, audit, proc, alone, paired, latest>>
    BY <1>1 DEF vars, files, history
  <2>2. QED
    BY <2>1 DEF HistoryInv, InStepAt, BaselineIsLatest, Last
<1>2. CASE \E img \in Images, upload \in BOOLEAN : CapturePng(img, upload)
  BY <1>2, CapturePngHistory
<1>3. CASE CaptureMeta
  BY <1>3, CaptureMetaHistory
<1>4. ASSUME NEW p \in Processes, Approve(p) \/ ApproveStep(p) \/ Crash(p) PROVE HistoryInv'
  BY <1>4, ApproveHistory, ApproveReadsHistory, PlaceHistory, LogHistory, LogTearsHistory,
     UnlinkHistory DEF ApproveStep
<1>5. QED
  BY <1>1, <1>2, <1>3, <1>4 DEF Next

\* Under every interleaving and crash, what is claimed of the files holds.
THEOREM FilesRecover == Spec => []HistoryInv
  BY InitHistory, NextHistory, BaselineTypeCorrect, PTL DEF Spec

\* The files recover: an operation that runs alone to its end leaves the pending files
\* and the baseline in step, whatever crashes and races came before.
THEOREM FilesStayInStep == Spec => []FilesInStep
<1>1. HistoryInv => FilesInStep
  BY DEF HistoryInv, FilesInStep, BaselineIsLatest
<1>2. QED
  BY <1>1, FilesRecover, PTL

\* What an approval that is alone throws away is the baseline, and on record.
THEOREM PendingGoesOnlyApproved == Spec => OnlyApprovedCapturesGo
<1> DEFINE A == alone /\ pendingPng # NoImage /\ pendingPng' = NoImage
                  => /\ approvedPng = pendingPng
                     /\ audit # <<>>
                     /\ paired => Last \in {pendingPng, Garbled}
<1>1. TypeOK /\ HistoryInv /\ [Next]_vars => [A]_vars
  <2> SUFFICES ASSUME TypeOK, HistoryInv, Next, alone,
                      pendingPng # NoImage, pendingPng' = NoImage
               PROVE  /\ approvedPng = pendingPng
                      /\ audit # <<>>
                      /\ paired => Last \in {pendingPng, Garbled}
    OBVIOUS
  <2>1. PICK p \in Processes : UnlinkPng(p)
    <3>1. ASSUME NEW img \in Images, NEW upload \in BOOLEAN, CapturePng(img, upload)
          PROVE  FALSE
      BY <3>1, BaselineAssumption DEF CapturePng
    <3>2. QED
      BY <3>1 DEF Next, CaptureMeta, Approve, ApproveStep, ReadCandidate, ReadPng, Place,
         Log, LogTears, UnlinkMeta, Crash, files
  <2>2. proc[p].pc = "unlinkingPng"
    BY <2>1 DEF UnlinkPng
  <2>3. QED
    BY <2>2, AtWork DEF InStepAt
<1>2. QED
  BY <1>1, FilesRecover, BaselineTypeCorrect, PTL DEF Spec, OnlyApprovedCapturesGo
=============================================================================
