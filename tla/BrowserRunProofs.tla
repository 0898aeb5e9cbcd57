-------------------------- MODULE BrowserRunProofs --------------------------
(***************************************************************************)
(* For any page, however many requests it makes, and any budget: no permit *)
(* of the semaphore is lost or invented, the entry response answers one    *)
(* request at most, and wherever a run is struck it ends in order: what it *)
(* says of itself is what happened, and it leaves nothing open.            *)
(***************************************************************************)
EXTENDS BrowserRun, FiniteSetTheorems, TLAPS

Transferring == {h \in Handlers : handler[h] = "transfer"}

Phases == Working \cup {"none", "fulfilled", "errored", "aborted", "gone"}

Budget == [requests : Nat, bytes : Nat, permits : Int]

Pcs == Opening \cup Body \cup Closing \cup {"gather", "returned"}

Pendings == {"none", "evidence", "error", "uncaught", "cancelled"}

Strikes == {"deadline", "cancel"}

Runs == [pc : Pcs, pending : Pendings, struck : SUBSET Strikes, closeFailed : BOOLEAN]

\* What the two proofs need of types, and that the entry fetch has not begun
\* while the browser is being opened.
RunTyped ==
  /\ run \in Runs
  /\ handler \in [Handlers -> Phases]
  /\ budget \in Budget
  /\ run.pc \in Opening => handler[Initial] = "none"

PermitInv ==
  /\ RunTyped
  /\ IsFiniteSet(Transferring)
  /\ budget.permits + Cardinality(Transferring) = MaxConcurrent

\* Of one handler h at most, the place changes, and the permits with it.
PermitMoves(h) ==
  /\ handler' \in [Handlers -> Phases]
  /\ \A g \in Handlers \ {h} : handler'[g] = handler[g]
  /\ budget' \in Budget
  /\ budget'.permits = budget.permits
       + (IF handler[h] = "transfer" /\ handler'[h] # "transfer" THEN 1 ELSE 0)
       - (IF handler[h] # "transfer" /\ handler'[h] = "transfer" THEN 1 ELSE 0)

LEMMA PermitMovesKeep ==
  ASSUME PermitInv, NEW h \in Handlers, PermitMoves(h)
  PROVE  /\ IsFiniteSet(Transferring')
         /\ budget'.permits + Cardinality(Transferring') = MaxConcurrent
<1> USE BrowserAssumption DEF PermitInv, RunTyped, PermitMoves
<1>1. Cardinality(Transferring) \in Nat /\ budget.permits \in Int
  BY FS_CardinalityType DEF Budget
<1>2. \A g \in Handlers : g # h => handler'[g] = handler[g]
  OBVIOUS
<1>3. CASE handler[h] = "transfer" /\ handler'[h] # "transfer"
  <2>1. Transferring' = Transferring \ {h} /\ h \in Transferring
    BY <1>2, <1>3 DEF Transferring
  <2>2. IsFiniteSet(Transferring') /\ Cardinality(Transferring') = Cardinality(Transferring) - 1
    BY <2>1, FS_RemoveElement
  <2>3. QED
    BY <1>1, <1>3, <2>2
<1>4. CASE handler[h] # "transfer" /\ handler'[h] = "transfer"
  <2>1. Transferring' = Transferring \cup {h} /\ h \notin Transferring
    BY <1>2, <1>4 DEF Transferring
  <2>2. IsFiniteSet(Transferring') /\ Cardinality(Transferring') = Cardinality(Transferring) + 1
    BY <2>1, FS_AddElement
  <2>3. QED
    BY <1>1, <1>4, <2>2
<1>5. CASE (handler[h] = "transfer") = (handler'[h] = "transfer")
  <2>1. Transferring' = Transferring
    BY <1>2, <1>5 DEF Transferring
  <2>2. QED
    BY <1>1, <1>5, <2>1
<1>6. QED
  BY <1>3, <1>4, <1>5

\* A permit that is given back by a handler that holds one.
LEMMA ReleaseMoves ==
  ASSUME RunTyped, NEW h \in Handlers, budget' = Released(h)
  PROVE  /\ budget' \in Budget
         /\ budget'.permits = budget.permits + (IF handler[h] = "transfer" THEN 1 ELSE 0)
BY DEF RunTyped, Released, Budget

\* One handler comes to another place, and no permit changes hands.
LEMMA PlainMove ==
  ASSUME RunTyped, NEW h \in Handlers, NEW to \in Phases \ {"transfer"}, handler[h] # "transfer",
         handler' = [handler EXCEPT ![h] = to], budget' \in Budget, budget'.permits = budget.permits
  PROVE  PermitMoves(h)
BY DEF RunTyped, PermitMoves, Budget

\* One handler comes to another place and gives back what it holds.
LEMMA ReleasingMove ==
  ASSUME RunTyped, NEW h \in Handlers, NEW to \in Phases \ {"transfer"},
         handler' = [handler EXCEPT ![h] = to], budget' = Released(h)
  PROVE  PermitMoves(h)
BY ReleaseMoves DEF RunTyped, PermitMoves, Budget

\* Every way out of a block: the entry fetch ends with it.
LEMMA LeaveMoves ==
  ASSUME RunTyped, run.pc # "returned",
         NEW pending \in Pendings, NEW struck \in SUBSET Strikes, NEW closeFailed \in BOOLEAN,
         Leave(pending, struck, closeFailed)
  PROVE  PermitMoves(Initial) /\ RunTyped' /\ run'.pc \notin Opening \cup {"fetch entry"}
<1> USE DEF Leave
<1>1. Initial \in Handlers /\ handler[Initial] \in Phases
  BY DEF Handlers, RunTyped
<1>2. PermitMoves(Initial)
  <2>1. CASE Live(Initial)
    BY <1>1, <2>1, ReleasingMove DEF Phases, Working
  <2>2. CASE ~Live(Initial)
    <3>1. handler' = handler /\ handler[Initial] # "transfer"
      BY <2>2 DEF Live, Working
    <3>2. QED
      BY <1>1, <3>1, ReleaseMoves DEF PermitMoves, RunTyped, Budget
  <2>3. QED
    BY <2>1, <2>2
<1>3. run'.pc \in Pcs \ (Opening \cup {"fetch entry"})
  <2>1. run'.pc = Unwound(run.pc)
    OBVIOUS
  <2>2. run.pc \in Pcs \ {"returned"}
    BY DEF RunTyped, Runs
  <2>3. QED
    BY <2>1, <2>2 DEF Pcs, Opening, Body, Closing, Unwound
<1>4. RunTyped'
  <2>1. run' = [pc |-> Unwound(run.pc), pending |-> pending, struck |-> struck,
                closeFailed |-> closeFailed]
    OBVIOUS
  <2>2. Unwound(run.pc) \in Pcs
    <3>1. run'.pc = Unwound(run.pc)
      BY <2>1
    <3>2. QED
      BY <1>3, <3>1
  <2>3. [pc |-> Unwound(run.pc), pending |-> pending, struck |-> struck,
         closeFailed |-> closeFailed] \in Runs
    BY <2>2 DEF Runs
  <2>4. run' \in Runs
    BY <2>1, <2>3
  <2>5. QED
    BY <1>2, <1>3, <2>4 DEF RunTyped, PermitMoves
<1>5. QED
  BY <1>2, <1>3, <1>4

LEMMA FetchMoves ==
  ASSUME RunTyped, NEW h \in Handlers, FetchStep(h)
  PROVE  PermitMoves(h) /\ RunTyped'
<1>1. handler[h] \in {"headers", "next hop", "wait", "transfer"} /\ run' = run
  BY DEF FetchStep, Reserve, Acquire, Chunk, EndTransfer, runVars
<1>2. PermitMoves(h)
  <2>1. CASE Reserve(h)
    <3>1. CASE budget.requests >= MaxRequests
      BY <2>1, <3>1, PlainMove DEF Reserve, RunTyped, Phases, Working
    <3>2. CASE ~(budget.requests >= MaxRequests)
      <4>1. handler' = [handler EXCEPT ![h] = "wait"] /\ handler[h] # "transfer"
            /\ budget' = [budget EXCEPT !.requests = budget.requests + 1]
        BY <2>1, <3>2 DEF Reserve
      <4>2. budget' \in Budget /\ budget'.permits = budget.permits
        BY <4>1 DEF RunTyped, Budget
      <4>3. QED
        BY <4>1, <4>2, PlainMove DEF Phases, Working
    <3>3. QED
      BY <3>1, <3>2
  <2>2. CASE Acquire(h)
    <3>1. handler' = [handler EXCEPT ![h] = "transfer"] /\ handler[h] = "wait"
          /\ budget' = [budget EXCEPT !.permits = budget.permits - 1]
      BY <2>2 DEF Acquire
    <3>2. budget' \in Budget /\ budget'.permits = budget.permits - 1 /\ budget.permits \in Int
      BY <3>1 DEF RunTyped, Budget
    <3>3. handler' \in [Handlers -> Phases] /\ handler'[h] = "transfer"
          /\ \A g \in Handlers \ {h} : handler'[g] = handler[g]
      BY <3>1 DEF RunTyped, Phases, Working
    <3>4. QED
      BY <3>1, <3>2, <3>3 DEF PermitMoves
  <2>3. CASE Chunk(h)
    <3>1. CASE budget.bytes >= MaxBytes
      BY <2>3, <3>1, ReleasingMove DEF Chunk, Phases, Working
    <3>2. CASE ~(budget.bytes >= MaxBytes)
      BY <2>3, <3>2 DEF Chunk, PermitMoves, RunTyped, Budget
    <3>3. QED
      BY <3>1, <3>2
  <2>4. CASE EndTransfer(h)
    <3>1. PICK to \in {"next hop", "fulfill", "abort", "fulfill error"} :
            handler' = [handler EXCEPT ![h] = to]
      BY <2>4 DEF EndTransfer
    <3>2. to \in Phases \ {"transfer"}
      BY DEF Phases, Working
    <3>3. QED
      BY <2>4, <3>1, <3>2, ReleasingMove DEF EndTransfer
  <2>5. QED
    BY <2>1, <2>2, <2>3, <2>4 DEF FetchStep
<1>3. run.pc \in Opening => h # Initial
  BY <1>1 DEF RunTyped
<1>4. QED
  BY <1>1, <1>2, <1>3 DEF PermitMoves, RunTyped, Handlers

LEMMA RouteMoves ==
  ASSUME RunTyped, NEW r \in Routes, Begin(r) \/ RouteStep(r)
  PROVE  PermitMoves(r) /\ RunTyped'
<1>1. r \in Handlers /\ r # Initial
  BY BrowserAssumption DEF Handlers
<1>2. CASE FetchStep(r)
  BY <1>1, <1>2, FetchMoves
<1>3. CASE Begin(r) \/ Answer(r) \/ Vanish(r) \/ EndCancelled(r)
  <2>1. run' = run
    BY <1>3 DEF Begin, Answer, Vanish, EndCancelled, runVars
  <2>2. PermitMoves(r)
    <3>1. CASE Begin(r)
      <4>1. \E to \in {"serve entry", "abort", "headers"} : handler' = [handler EXCEPT ![r] = to]
        BY <3>1 DEF Begin
      <4>2. handler[r] = "none" /\ budget' = budget
        BY <3>1 DEF Begin
      <4>3. QED
        BY <1>1, <4>1, <4>2, PlainMove DEF RunTyped, Phases, Working
    <3>2. CASE Answer(r)
      <4>1. EndOf(handler[r]) \in {"fulfilled", "errored", "aborted"}
            /\ handler[r] # "transfer"
        BY <3>2 DEF Answer, Answering, EndOf
      <4>2. QED
        BY <1>1, <3>2, <4>1, PlainMove DEF Answer, RunTyped, Phases, Working
    <3>3. CASE Vanish(r)
      BY <1>1, <3>3, PlainMove DEF Vanish, Answering, RunTyped, Phases, Working
    <3>4. CASE EndCancelled(r)
      BY <1>1, <3>4, ReleasingMove DEF EndCancelled, Phases, Working
    <3>5. QED
      BY <1>3, <3>1, <3>2, <3>3, <3>4
  <2>3. QED
    BY <1>1, <2>1, <2>2 DEF RunTyped, PermitMoves, Handlers
<1>4. QED
  BY <1>2, <1>3 DEF RouteStep

LEMMA OpenMoves ==
  ASSUME RunTyped, Open
  PROVE  PermitMoves(Initial) /\ RunTyped'
<1> DEFINE next == CASE run.pc = "start driver" -> "launch"
                     [] run.pc = "launch" -> "new context"
                     [] run.pc = "new context" -> "fetch entry"
<1>1. /\ run.pc \in Opening /\ budget' = budget /\ handler[Initial] = "none"
      /\ run' = [run EXCEPT !.pc = next]
      /\ handler' = IF next = "fetch entry" THEN [handler EXCEPT ![Initial] = "headers"]
                    ELSE handler
  <2>1. run.pc \in Opening /\ budget' = budget /\ handler[Initial] = "none"
    BY DEF Open, RunTyped
  <2>2. CASE run.pc = "start driver"
    BY <2>1, <2>2 DEF Open
  <2>3. CASE run.pc = "launch"
    BY <2>1, <2>3 DEF Open
  <2>4. CASE run.pc = "new context"
    BY <2>1, <2>4 DEF Open
  <2>5. QED
    BY <2>1, <2>2, <2>3, <2>4 DEF Opening
<1>2. Initial \in Handlers
  BY DEF Handlers
<1>3. PermitMoves(Initial)
  <2>1. CASE next = "fetch entry"
    BY <1>1, <1>2, <2>1, PlainMove DEF RunTyped, Phases, Working
  <2>2. CASE next # "fetch entry"
    <3>1. handler' = handler /\ budget' = budget
      BY <1>1, <2>2
    <3>2. QED
      BY <3>1 DEF PermitMoves, RunTyped, Budget
  <2>3. QED
    BY <2>1, <2>2
<1>4. run' \in Runs /\ run'.pc = next
  <2>1. next \in Pcs
    BY <1>1 DEF Opening, Body, Pcs
  <2>2. QED
    BY <1>1, <2>1 DEF RunTyped, Runs
<1>5. run'.pc \in Opening => handler' = handler
  BY <1>1, <1>4 DEF Opening
<1>6. QED
  BY <1>1, <1>3, <1>4, <1>5 DEF RunTyped, PermitMoves

LEMMA EntryFetchedMoves ==
  ASSUME RunTyped, EntryFetched
  PROVE  PermitMoves(Initial) /\ RunTyped'
<1>1. /\ run' = [run EXCEPT !.pc = "load"] /\ budget' = budget
      /\ handler' = [handler EXCEPT ![Initial] = EndOf(handler[Initial])]
      /\ handler[Initial] = "fulfill"
  BY DEF EntryFetched
<1>2. EndOf(handler[Initial]) = "fulfilled" /\ Initial \in Handlers
  BY <1>1 DEF EndOf, Handlers
<1>3. PermitMoves(Initial)
  BY <1>1, <1>2, PlainMove DEF RunTyped, Phases, Working
<1>4. run' \in Runs /\ run'.pc = "load"
  BY <1>1 DEF RunTyped, Runs, Pcs, Body
<1>5. QED
  BY <1>3, <1>4 DEF RunTyped, PermitMoves, Opening

\* A step after which every handler is where it was.
LEMMA StillMoves ==
  ASSUME RunTyped, UNCHANGED <<handler, budget>>, run' \in Runs, run'.pc \notin Opening \/ run' = run
  PROVE  PermitMoves(Initial) /\ RunTyped'
<1>1. Initial \in Handlers
  BY DEF Handlers
<1>2. QED
  BY <1>1 DEF PermitMoves, RunTyped, Budget

\* Every step of the program moves one handler at most.
LEMMA StepMoves ==
  ASSUME RunTyped, [Next]_vars
  PROVE  RunTyped' /\ \E h \in Handlers : PermitMoves(h)
<1>1. Initial \in Handlers
  BY DEF Handlers
<1>2. run \in Runs
  BY DEF RunTyped
<1>3. CASE Open
  BY <1>1, <1>3, OpenMoves
<1>4. CASE EntryFetched
  BY <1>1, <1>4, EntryFetchedMoves
<1>5. CASE Loaded
  <2>1. run' \in Runs /\ run'.pc \notin Opening /\ UNCHANGED <<handler, budget>>
    BY <1>2, <1>5 DEF Loaded, Runs, Pcs, Body, Opening, routeVars
  <2>2. QED
    BY <1>1, <2>1, StillMoves
<1>6. CASE Gathered
  <2>1. run' \in Runs /\ run'.pc \notin Opening /\ UNCHANGED <<handler, budget>>
    BY <1>2, <1>6 DEF Gathered, Runs, Pcs, Closing, Opening, routeVars
  <2>2. QED
    BY <1>1, <2>1, StillMoves
<1>7. CASE Collect \/ Fail \/ Close \/ CloseFails \/ Deadline \/ Cancel
  <2>1. run.pc # "returned"
    BY <1>7 DEF Collect, Fail, Close, CloseFails, Deadline, Cancel, Strike,
                Opening, Body, Closing
  <2>2. \E pending \in Pendings, struck \in SUBSET Strikes, closeFailed \in BOOLEAN :
          Leave(pending, struck, closeFailed)
    <3>1. run.pending \in Pendings /\ run.struck \in SUBSET Strikes /\ run.closeFailed \in BOOLEAN
      BY <1>2 DEF Runs
    <3>2. {"evidence", "error", "uncaught", "cancelled"} \subseteq Pendings
          /\ run.struck \cup {"deadline"} \in SUBSET Strikes
          /\ run.struck \cup {"cancel"} \in SUBSET Strikes
      BY <3>1 DEF Pendings, Strikes
    <3>3. CASE Collect
      BY <3>1, <3>2, <3>3 DEF Collect
    <3>4. CASE Fail
      BY <3>1, <3>2, <3>4 DEF Fail
    <3>5. CASE Close
      BY <3>1, <3>5 DEF Close
    <3>6. CASE CloseFails
      BY <3>1, <3>2, <3>6 DEF CloseFails
    <3>7. CASE Deadline
      BY <3>2, <3>7 DEF Deadline, Strike
    <3>8. CASE Cancel
      BY <3>2, <3>8 DEF Cancel, Strike
    <3>9. QED
      BY <1>7, <3>3, <3>4, <3>5, <3>6, <3>7, <3>8
  <2>3. QED
    BY <1>1, <2>1, <2>2, LeaveMoves
<1>8. CASE FetchStep(Initial)
  BY <1>1, <1>8, FetchMoves
<1>9. CASE \E r \in Routes : Begin(r) \/ RouteStep(r)
  BY <1>9, RouteMoves DEF Handlers
<1>10. CASE UNCHANGED vars
  BY <1>1, <1>2, <1>10, StillMoves DEF vars, runVars, routeVars
<1>11. QED
  BY <1>3, <1>4, <1>5, <1>6, <1>7, <1>8, <1>9, <1>10 DEF Next, RunStep

LEMMA InitPermits == Init => PermitInv
<1> SUFFICES ASSUME Init PROVE PermitInv
  OBVIOUS
<1>0. MaxConcurrent \in Nat /\ budget = [requests |-> 0, bytes |-> 0, permits |-> MaxConcurrent]
  <2>1. MaxConcurrent \in Nat
    BY BrowserAssumption
  <2>2. budget = [requests |-> 0, bytes |-> 0, permits |-> MaxConcurrent]
    BY DEF Init
  <2>3. QED
    BY <2>1, <2>2
<1>1. RunTyped
  <2>1. run \in Runs
    BY DEF Init, Runs, Pcs, Pendings, Opening
  <2>2. handler \in [Handlers -> Phases] /\ handler[Initial] = "none"
    BY DEF Init, Phases, Handlers
  <2>3. budget \in Budget
    BY <1>0 DEF Budget
  <2>4. QED
    BY <2>1, <2>2, <2>3 DEF RunTyped
<1>2. Transferring = {}
  BY DEF Init, Transferring
<1>3. IsFiniteSet(Transferring) /\ Cardinality(Transferring) = 0
  BY <1>2, FS_EmptySet
<1>4. budget.permits = MaxConcurrent /\ MaxConcurrent + 0 = MaxConcurrent
  BY <1>0
<1>5. QED
  BY <1>1, <1>3, <1>4 DEF PermitInv

\* The semaphore never loses a permit and never has one too many, whatever is
\* cancelled, fails or ends where (BrowserRunBudget, browser_runner.py:86-109).
THEOREM PermitsAreConserved == Spec => []PermitsComeBack
<1>1. PermitInv /\ [Next]_vars => PermitInv'
  <2> SUFFICES ASSUME PermitInv, [Next]_vars PROVE PermitInv'
    OBVIOUS
  <2>1. RunTyped' /\ \E h \in Handlers : PermitMoves(h)
    BY StepMoves DEF PermitInv
  <2>2. IsFiniteSet(Transferring') /\ budget'.permits + Cardinality(Transferring') = MaxConcurrent
    BY <2>1, PermitMovesKeep
  <2>3. QED
    BY <2>1, <2>2 DEF PermitInv
<1>2. PermitInv => PermitsComeBack
  BY DEF PermitInv, PermitsComeBack, Transferring
<1>3. QED
  BY InitPermits, <1>1, <1>2, PTL DEF Spec

\* While the entry document is still to come, nothing was answered with it; while
\* it is there to be served, it has not been.
EntryInv ==
  /\ RunTyped
  /\ \A r \in servedBy : r \in Routes /\ KindOf[r] = "document"
  /\ servedBy = {} \/ \E r \in Routes : servedBy = {r}
  /\ entry \/ run.pc \in Opening \cup {"fetch entry"} => servedBy = {}

\* A step that neither serves the entry response nor makes it one to be served.
LEMMA EntryKeeps ==
  ASSUME EntryInv, RunTyped', UNCHANGED <<entry, servedBy>>,
         run'.pc \in Opening \cup {"fetch entry"} => run.pc \in Opening \cup {"fetch entry"}
  PROVE  EntryInv'
BY DEF EntryInv

LEMMA BeginKeepsEntry ==
  ASSUME EntryInv, RunTyped', NEW r \in Routes, Begin(r)
  PROVE  EntryInv'
<1>1. run' = run /\ run.pc \notin Opening \cup {"fetch entry"}
  BY DEF Begin, RoutesOpen, runVars, Opening
<1>2. CASE KindOf[r] = "document" /\ entry
  <2>1. servedBy = {} /\ servedBy' = servedBy \cup {r} /\ entry' = FALSE
    BY <1>2 DEF Begin, EntryInv
  <2>2. servedBy' = {r}
    BY <2>1
  <2>3. QED
    BY <1>1, <1>2, <2>1, <2>2 DEF EntryInv
<1>3. CASE ~(KindOf[r] = "document" /\ entry)
  <2>1. servedBy' = servedBy
    BY <1>3 DEF Begin
  <2>2. entry' => entry
    BY DEF Begin
  <2>3. QED
    BY <1>1, <2>1, <2>2 DEF EntryInv
<1>4. QED
  BY <1>2, <1>3

LEMMA StepKeepsEntry ==
  ASSUME EntryInv, [Next]_vars
  PROVE  EntryInv'
<1>1. RunTyped /\ RunTyped'
  BY StepMoves DEF EntryInv
<1>2. run.pc \in Pcs
  BY <1>1 DEF RunTyped, Runs
<1>3. CASE Open
  <2>1. run.pc \in Opening /\ UNCHANGED <<entry, servedBy>>
    BY <1>3 DEF Open
  <2>2. QED
    BY <1>1, <2>1, EntryKeeps
<1>4. CASE EntryFetched
  <2>1. servedBy = {} /\ servedBy' = servedBy
    BY <1>4 DEF EntryFetched, EntryInv
  <2>2. QED
    BY <1>1, <2>1 DEF EntryInv
<1>5. CASE Loaded \/ Gathered
  <2>1. run'.pc \in {"inspect", "close context"} /\ UNCHANGED <<entry, servedBy>>
    BY <1>1, <1>5 DEF Loaded, Gathered, routeVars, RunTyped, Runs
  <2>2. QED
    BY <1>1, <2>1, EntryKeeps DEF Opening
<1>6. CASE Collect \/ Fail \/ Close \/ CloseFails \/ Deadline \/ Cancel
  <2>1. PICK pending, struck, closeFailed : Leave(pending, struck, closeFailed)
    BY <1>6 DEF Collect, Fail, Close, CloseFails, Deadline, Cancel, Strike
  <2>2. run.pc # "returned"
    BY <1>6 DEF Collect, Fail, Close, CloseFails, Deadline, Cancel, Strike,
                Opening, Body, Closing
  <2>3. run'.pc = Unwound(run.pc) /\ UNCHANGED <<entry, servedBy>>
    BY <2>1 DEF Leave
  <2>4. Unwound(run.pc) \notin Opening \cup {"fetch entry"}
    BY <1>2, <2>2 DEF Pcs, Opening, Body, Closing, Unwound
  <2>5. QED
    BY <1>1, <2>3, <2>4, EntryKeeps
<1>7. CASE \E h \in Handlers : FetchStep(h)
  <2>1. run' = run /\ UNCHANGED <<entry, servedBy>>
    BY <1>7 DEF FetchStep, Reserve, Acquire, Chunk, EndTransfer, runVars
  <2>2. QED
    BY <1>1, <2>1, EntryKeeps
<1>8. CASE \E r \in Routes : Answer(r) \/ Vanish(r) \/ EndCancelled(r)
  <2>1. run' = run /\ UNCHANGED <<entry, servedBy>>
    BY <1>8 DEF Answer, Vanish, EndCancelled, runVars
  <2>2. QED
    BY <1>1, <2>1, EntryKeeps
<1>9. CASE \E r \in Routes : Begin(r)
  BY <1>1, <1>9, BeginKeepsEntry
<1>10. CASE UNCHANGED vars
  BY <1>1, <1>10, EntryKeeps DEF vars, runVars, routeVars
<1>11. QED
  BY <1>3, <1>4, <1>5, <1>6, <1>7, <1>8, <1>9, <1>10 DEF Next, RunStep, RouteStep, Handlers

\* However its handlers are interleaved, a run answers one request at most with the
\* response it fetched itself, and that one is a document
\* (browser_runner.py:742-753).
THEOREM EntryIsAnsweredOnce == Spec => []EntryAnsweredOnce
<1>1. Init => EntryInv
  BY InitPermits DEF Init, EntryInv, PermitInv
<1>2. EntryInv /\ [Next]_vars => EntryInv'
  BY StepKeepsEntry
<1>3. EntryInv => EntryAnsweredOnce
  <2> SUFFICES ASSUME EntryInv PROVE EntryAnsweredOnce
    OBVIOUS
  <2>1. Cardinality(servedBy) = 0 \/ Cardinality(servedBy) = 1
    <3>1. CASE servedBy = {}
      BY <3>1, FS_EmptySet
    <3>2. CASE servedBy # {}
      <4>1. PICK r : servedBy = {r}
        BY <3>2 DEF EntryInv
      <4>2. QED
        BY <4>1, FS_Singleton
    <3>3. QED
      BY <3>1, <3>2
  <2>2. Cardinality(servedBy) <= 1
    BY <2>1
  <2>3. \A r \in servedBy : KindOf[r] = "document"
    BY DEF EntryInv
  <2>4. QED
    BY <2>2, <2>3 DEF EntryAnsweredOnce
<1>4. QED
  BY <1>1, <1>2, <1>3, PTL DEF Spec

-----------------------------------------------------------------------------
(* How a run ends: what it says of itself, what it leaves behind, and what *)
(* its evidence lists.                                                     *)

\* Before the way out: nothing has been returned or raised.
Inside == Opening \cup Body

\* What is on its way out, and what struck the run, go together.
OutcomeInv ==
  /\ run.pending = "none" <=> run.pc \in Inside
  /\ run.pending \in {"none", "evidence", "uncaught"} => run.struck = {}
  /\ run.pending = "error" => run.struck = {} \/ run.closeFailed
  /\ run.pending = "cancelled" => run.struck # {}

\* What was opened when, and is told to close on the way out.
ClosedInv ==
  /\ held \subseteq {"driver", "browser", "context"}
  /\ run.pc = "start driver" => held = {}
  /\ run.pc = "launch" => held = {"driver"}
  /\ run.pc = "new context" => held = {"driver", "browser"}
  /\ run.pc \in Inside \cup {"gather"} => closed = {}
  /\ "driver" \in held /\ run.pc \in {"stop driver", "returned"} => "driver" \in closed
  /\ "browser" \in held /\ run.pc \in {"close browser", "stop driver", "returned"}
       => "browser" \in closed
  /\ "context" \in held /\ run.struck = {} /\ run.pc \in Closing \cup {"returned"}
       => "context" \in closed

\* After the body, a handler at work is late or cancelled; once the context was
\* told to close, only a late one is left.
RoutesInv ==
  /\ run.pc \in Opening \cup {"fetch entry"} => \A r \in Routes : handler[r] = "none"
  /\ run.pc \in Inside => late = {}
  /\ run.pc \notin Inside => \A r \in Routes : Live(r) => r \in late \cup cancelled
  /\ "context" \in closed => \A r \in Routes : Live(r) => r \in late

\* The requests of the body that failed the page.
Failed ==
  {r \in Routes \ late : KindOf[r] # "document" /\ handler[r] \in {"errored", "aborted"}}

Names(listed) == listed \subseteq Failed /\ (listed = Failed \/ Cardinality(listed) = MaxFailures)

\* The list is complete, as far as there is room, up to its collection, and stays so
\* for the evidence that is on its way out.
FailuresInv ==
  /\ IsFiniteSet(failures) /\ Cardinality(failures) <= MaxFailures
  /\ run.pc \in Inside => Names(failures)
  /\ run.pending = "evidence" => Names(evidence)

\* The four have to be proved together: what is late or cancelled decides what can
\* still fail, and what was struck decides what is closed.
EndInv ==
  /\ RunTyped
  /\ OutcomeInv
  /\ ClosedInv
  /\ RoutesInv
  /\ FailuresInv

\* A handler at work goes on or is gone; nothing else changes that the end of the
\* run depends on.
QuietMove(h) ==
  /\ Live(h) /\ handler'[h] \in Working \cup {"gone"}
  /\ \A g \in Handlers \ {h} : handler'[g] = handler[g]
  /\ UNCHANGED <<runVars, cancelled, failures, late>>

LEMMA QuietMoves ==
  ASSUME RunTyped, NEW h \in Handlers,
         FetchStep(h) \/ (h \in Routes /\ (Vanish(h) \/ EndCancelled(h)))
  PROVE  QuietMove(h)
<1>1. UNCHANGED <<runVars, cancelled, failures, late>>
  BY DEF FetchStep, Reserve, Acquire, Chunk, EndTransfer, Vanish, EndCancelled
<1>2. Live(h)
  BY DEF FetchStep, Reserve, Acquire, Chunk, EndTransfer, Vanish, EndCancelled, Answering,
         Live, Working
<1>3. handler' = handler \/ \E to \in Working \cup {"gone"} : handler' = [handler EXCEPT ![h] = to]
  <2>1. CASE Reserve(h)
    BY <2>1 DEF Reserve, Working
  <2>2. CASE Acquire(h)
    BY <2>2 DEF Acquire, Working
  <2>3. CASE Chunk(h)
    BY <2>3 DEF Chunk, Working
  <2>4. CASE EndTransfer(h)
    BY <2>4 DEF EndTransfer, Working
  <2>5. CASE Vanish(h) \/ EndCancelled(h)
    BY <2>5 DEF Vanish, EndCancelled
  <2>6. QED
    BY <2>1, <2>2, <2>3, <2>4, <2>5 DEF FetchStep
<1>4. QED
  BY <1>1, <1>2, <1>3 DEF QuietMove, RunTyped, Live

\* While the run stays where it is, so does what depends on it alone.
LEMMA RunStays ==
  ASSUME OutcomeInv, ClosedInv, UNCHANGED runVars
  PROVE  OutcomeInv' /\ ClosedInv'
BY DEF OutcomeInv, ClosedInv, runVars

LEMMA QuietMoveKeepsEnd ==
  ASSUME EndInv, RunTyped', NEW h \in Handlers, QuietMove(h)
  PROVE  EndInv'
<1>0. \A r \in Routes : r \in Handlers
  BY DEF Handlers
<1>1. \A r \in Routes : (Live(r)' => Live(r)) /\ (handler[r] = "none" => handler'[r] = "none")
  BY <1>0 DEF QuietMove, Live, Working
<1>2. RoutesInv'
  BY <1>1 DEF QuietMove, EndInv, RoutesInv, runVars
<1>3. Failed' = Failed
  BY <1>0 DEF QuietMove, Failed, Live, Working
<1>4. FailuresInv'
  BY <1>3 DEF QuietMove, EndInv, FailuresInv, Names, runVars
<1>5. QED
  BY <1>2, <1>4, RunStays DEF QuietMove, EndInv

LEMMA BeginKeepsEnd ==
  ASSUME EndInv, RunTyped', NEW r \in Routes, Begin(r)
  PROVE  EndInv'
<1>1. /\ run.pc \in {"load", "inspect", "gather", "close browser"} /\ "context" \notin closed
      /\ handler[r] = "none" /\ UNCHANGED <<runVars, cancelled, failures>>
      /\ late' = IF run.pc \in Body THEN late ELSE late \cup {r}
  BY DEF Begin, RoutesOpen
<1>2. PICK to \in {"serve entry", "abort", "headers"} : handler' = [handler EXCEPT ![r] = to]
  BY DEF Begin
<1>3. r \in Handlers /\ handler \in [Handlers -> Phases]
  BY DEF Handlers, EndInv, RunTyped
<1>4. handler'[r] = to /\ \A g \in Handlers \ {r} : handler'[g] = handler[g]
  BY <1>2, <1>3
<1>5. \A g \in Routes \ {r} : handler'[g] = handler[g]
  BY <1>4 DEF Handlers
<1>6. run.pc \notin Opening \cup {"fetch entry"} /\ (run.pc \in Inside <=> run.pc \in Body)
  BY <1>1 DEF Opening, Inside
<1>7. RoutesInv'
  <2>1. run' = run /\ closed' = closed
    BY <1>1 DEF runVars
  <2>2. \A g \in Routes \ {r} : Live(g)' => Live(g)
    BY <1>5 DEF Live
  <2>3. run.pc \in Inside => late' = {}
    BY <1>1, <1>6 DEF EndInv, RoutesInv
  <2>4. run.pc \notin Inside => late' = late \cup {r}
    BY <1>1, <1>6
  <2>5. run.pc \notin Inside => \A g \in Routes : Live(g)' => g \in late' \cup cancelled'
    BY <1>1, <2>2, <2>4 DEF EndInv, RoutesInv
  <2>6. QED
    BY <1>1, <1>6, <2>1, <2>3, <2>5 DEF RoutesInv
<1>8. Failed' = Failed
  <2>1. r \notin Failed /\ r \notin Failed'
    BY <1>1, <1>4 DEF Failed
  <2>2. \A g \in Routes \ {r} : g \in Failed' <=> g \in Failed
    BY <1>1, <1>5 DEF Failed
  <2>3. QED
    BY <2>1, <2>2 DEF Failed
<1>9. FailuresInv'
  BY <1>1, <1>8 DEF EndInv, FailuresInv, Names, runVars
<1>10. QED
  BY <1>1, <1>7, <1>9, RunStays DEF EndInv

\* Only what is not cancelled still answers, so nothing of the body can fail once the
\* body is over.
LEMMA AnswerKeepsEnd ==
  ASSUME EndInv, RunTyped', NEW r \in Routes, Answer(r)
  PROVE  EndInv'
<1> DEFINE fails == handler[r] \in {"abort", "fulfill error"}
<1>1. /\ Live(r) /\ r \notin cancelled /\ UNCHANGED <<runVars, cancelled, late>>
      /\ failures' = IF fails /\ Records(r) THEN failures \cup {r} ELSE failures
  BY DEF Answer, Answering, Continues, Live, Working
<1>2. r \in Handlers /\ handler \in [Handlers -> Phases] /\ \A g \in Routes : g \in Handlers
  BY DEF Handlers, EndInv, RunTyped
<1>3. handler'[r] \in {"fulfilled", "errored", "aborted"}
      /\ (handler'[r] \in {"errored", "aborted"} <=> fails)
  <2>1. handler'[r] = EndOf(handler[r]) /\ handler[r] \in Answering
    BY <1>2 DEF Answer
  <2>2. QED
    BY <2>1 DEF EndOf, Answering
<1>4. \A g \in Routes \ {r} : handler'[g] = handler[g]
  BY <1>2 DEF Answer
<1>5. RoutesInv'
  <2>1. \A g \in Routes : (Live(g)' => Live(g)) /\ (handler[g] = "none" => handler'[g] = "none")
    BY <1>1, <1>3, <1>4 DEF Live, Working
  <2>2. QED
    BY <1>1, <2>1 DEF EndInv, RoutesInv, runVars
<1>6. IsFiniteSet(failures') /\ Cardinality(failures') <= MaxFailures
  <2>1. IsFiniteSet(failures) /\ Cardinality(failures) <= MaxFailures /\ MaxFailures \in Nat
        /\ Cardinality(failures) \in Nat
    BY BrowserAssumption, FS_CardinalityType DEF EndInv, FailuresInv
  <2>2. CASE fails /\ Records(r)
    <3>1. failures' = failures \cup {r} /\ Cardinality(failures) < MaxFailures
      BY <1>1, <2>2 DEF Records
    <3>2. IsFiniteSet(failures') /\ (Cardinality(failures') = Cardinality(failures)
            \/ Cardinality(failures') = Cardinality(failures) + 1)
      BY <2>1, <3>1, FS_AddElement
    <3>3. QED
      BY <2>1, <3>1, <3>2
  <2>3. CASE ~(fails /\ Records(r))
    BY <1>1, <2>1, <2>3
  <2>4. QED
    BY <2>2, <2>3
<1>7. CASE run.pc \in Inside
  <2>1. late = {} /\ late' = {} /\ Names(failures) /\ run.pending # "evidence"
    BY <1>1, <1>7 DEF EndInv, RoutesInv, FailuresInv, OutcomeInv
  <2>2. r \notin Failed
    BY <1>1 DEF Failed, Live, Working
  <2>3. Names(failures)'
    <3>1. CASE fails /\ KindOf[r] # "document"
      <4>1. Failed' = Failed \cup {r}
        BY <1>3, <1>4, <2>1, <3>1 DEF Failed
      <4>2. CASE Records(r)
        <5>1. Cardinality(failures) # MaxFailures
          BY <4>2, BrowserAssumption, FS_CardinalityType DEF Records, EndInv, FailuresInv
        <5>2. failures = Failed /\ failures' = failures \cup {r}
          BY <1>1, <2>1, <3>1, <4>2, <5>1 DEF Names
        <5>3. QED
          BY <4>1, <5>2 DEF Names
      <4>3. CASE ~Records(r)
        <5>1. failures' = failures
          BY <1>1, <4>3
        <5>2. Cardinality(failures) = MaxFailures
          <6>1. Cardinality(failures) \in Nat /\ MaxFailures \in Nat
                /\ Cardinality(failures) <= MaxFailures
            BY BrowserAssumption, FS_CardinalityType DEF EndInv, FailuresInv
          <6>2. ~(Cardinality(failures) < MaxFailures)
            BY <3>1, <4>3 DEF Records
          <6>3. QED
            BY <6>1, <6>2
        <5>3. QED
          BY <2>1, <4>1, <5>1, <5>2 DEF Names
      <4>4. QED
        BY <4>2, <4>3
    <3>2. CASE ~(fails /\ KindOf[r] # "document")
      <4>1. failures' = failures
        BY <1>1, <3>2 DEF Records
      <4>2. r \notin Failed'
        BY <1>3, <3>2 DEF Failed
      <4>3. Failed' = Failed
        BY <1>4, <2>1, <2>2, <4>2 DEF Failed
      <4>4. QED
        BY <2>1, <4>1, <4>3 DEF Names
    <3>3. QED
      BY <3>1, <3>2
  <2>4. FailuresInv'
    BY <1>1, <1>6, <2>1, <2>3 DEF FailuresInv, runVars
  <2>5. QED
    BY <1>1, <1>5, <2>4, RunStays DEF EndInv
<1>8. CASE run.pc \notin Inside
  <2>1. r \in late
    BY <1>1, <1>8 DEF EndInv, RoutesInv
  <2>2. Failed' = Failed
    BY <1>1, <1>4, <2>1 DEF Failed
  <2>3. FailuresInv'
    BY <1>1, <1>6, <1>8, <2>2 DEF EndInv, FailuresInv, Names, runVars
  <2>4. QED
    BY <1>1, <1>5, <2>3, RunStays DEF EndInv
<1>9. QED
  BY <1>7, <1>8

\* Between the blocks of the way in, nothing happens to the routes.
LEMMA WayInKeepsEnd ==
  ASSUME EndInv, RunTyped', Open \/ EntryFetched \/ Loaded
  PROVE  EndInv'
<1>1. /\ run.pc \in Inside /\ run'.pc \in Inside
      /\ run'.pending = run.pending /\ run'.struck = run.struck /\ run'.closeFailed = run.closeFailed
  <2>1. run \in Runs
    BY DEF EndInv, RunTyped
  <2>2. CASE Open
    BY <2>1, <2>2 DEF Open, Opening, Body, Inside, Runs
  <2>3. CASE EntryFetched \/ Loaded
    BY <2>1, <2>3 DEF EntryFetched, Loaded, Body, Inside, Runs
  <2>4. QED
    BY <2>2, <2>3
<1>2. UNCHANGED <<closed, evidence, cancelled, failures, late>>
  BY DEF Open, EntryFetched, Loaded, routeVars
<1>3. \A r \in Routes : handler'[r] = handler[r]
  <2>1. handler' = handler \/ \E to : handler' = [handler EXCEPT ![Initial] = to]
    BY DEF Open, EntryFetched, Loaded, routeVars
  <2>2. QED
    BY <2>1, BrowserAssumption DEF EndInv, RunTyped, Handlers
<1>4. run'.pc \in Opening \cup {"fetch entry"} => run.pc \in Opening \cup {"fetch entry"}
  BY DEF Open, EntryFetched, Loaded, Opening, EndInv, RunTyped, Runs
<1>5. OutcomeInv'
  BY <1>1 DEF EndInv, OutcomeInv
<1>6. ClosedInv'
  <2>1. closed' = {} /\ run'.pc \notin Closing \cup {"returned"}
    BY <1>1, <1>2 DEF EndInv, ClosedInv, Inside, Opening, Body, Closing
  <2>2. held' \subseteq {"driver", "browser", "context"}
        /\ (run'.pc = "launch" => held' = {"driver"})
        /\ (run'.pc = "new context" => held' = {"driver", "browser"})
        /\ run'.pc # "start driver"
    <3>1. run \in Runs
      BY DEF EndInv, RunTyped
    <3>2. CASE Open /\ run.pc = "start driver"
      BY <3>1, <3>2 DEF Open, EndInv, ClosedInv, Runs
    <3>3. CASE Open /\ run.pc = "launch"
      BY <3>1, <3>3 DEF Open, EndInv, ClosedInv, Runs
    <3>4. CASE Open /\ run.pc = "new context"
      BY <3>1, <3>4 DEF Open, EndInv, ClosedInv, Runs
    <3>5. CASE EntryFetched \/ Loaded
      BY <3>1, <3>5 DEF EntryFetched, Loaded, EndInv, ClosedInv, Runs
    <3>6. QED
      BY <3>2, <3>3, <3>4, <3>5 DEF Open, Opening
  <2>3. QED
    BY <2>1, <2>2 DEF ClosedInv, Closing
<1>7. RoutesInv'
  BY <1>1, <1>2, <1>3, <1>4 DEF EndInv, RoutesInv, Live
<1>8. Failed' = Failed
  BY <1>2, <1>3 DEF Failed
<1>9. FailuresInv'
  BY <1>1, <1>2, <1>8 DEF EndInv, FailuresInv, Names
<1>10. QED
  BY <1>5, <1>6, <1>7, <1>9 DEF EndInv

\* The way out: blocks are left in order, each having told what it closes.
LEMMA WayOutKeepsEnd ==
  ASSUME EndInv, run.pc # "returned", NEW pending, NEW struck, NEW closeFailed,
         Leave(pending, struck, closeFailed), run.struck \subseteq struck,
         run.pc = "gather" => struck # {}
  PROVE  ClosedInv' /\ RoutesInv' /\ Failed' = Failed
<1>1. /\ run' = [pc |-> Unwound(run.pc), pending |-> pending, struck |-> struck,
                 closeFailed |-> closeFailed]
      /\ closed' = closed \cup ClosedAt(Unwound(run.pc))
      /\ cancelled' = IF run.pc \in Body THEN {r \in Routes : Live(r)} ELSE cancelled
      /\ UNCHANGED <<held, late>>
  BY DEF Leave
<1>2. run'.pc = Unwound(run.pc) /\ run'.struck = struck
  BY <1>1
<1>3. run.pc \in Pcs \ {"returned"}
  BY DEF EndInv, RunTyped, Runs
<1>4. run'.pc \in {"gather", "close context", "close browser", "stop driver", "returned"}
  BY <1>2, <1>3 DEF Unwound, Pcs, Opening, Body, Closing
<1>5. \A r \in Routes : handler'[r] = handler[r]
  BY BrowserAssumption DEF Leave, EndInv, RunTyped, Handlers
<1>6. \A r \in Routes : Live(r)' <=> Live(r)
  BY <1>5 DEF Live
<1>7. ClosedInv'
  <2>1. CASE run.pc = "start driver"
    BY <1>1, <1>2, <2>1 DEF EndInv, ClosedInv, Unwound, ClosedAt, Opening, Body, Inside, Closing
  <2>2. CASE run.pc = "launch"
    BY <1>1, <1>2, <2>2 DEF EndInv, ClosedInv, Unwound, ClosedAt, Opening, Body, Inside, Closing
  <2>3. CASE run.pc = "new context"
    BY <1>1, <1>2, <2>3 DEF EndInv, ClosedInv, Unwound, ClosedAt, Opening, Body, Inside, Closing
  <2>4. CASE run.pc \in Body
    <3>1. closed = {} /\ held \subseteq {"driver", "browser", "context"}
      BY <2>4 DEF EndInv, ClosedInv, Inside
    <3>2. CASE run'.pc = "gather"
      BY <1>1, <1>2, <3>1, <3>2 DEF ClosedInv, ClosedAt, Opening, Body, Inside, Closing
    <3>3. CASE run'.pc = "close context"
      BY <1>1, <1>2, <3>1, <3>3 DEF ClosedInv, ClosedAt, Opening, Body, Inside, Closing
    <3>4. QED
      BY <1>2, <2>4, <3>2, <3>3 DEF Unwound, Body
  <2>5. CASE run.pc = "gather"
    BY <1>1, <1>2, <2>5 DEF EndInv, ClosedInv, Unwound, ClosedAt, Opening, Body, Inside, Closing
  <2>6. CASE run.pc = "close context"
    BY <1>1, <1>2, <2>6 DEF EndInv, ClosedInv, Unwound, ClosedAt, Opening, Body, Inside, Closing
  <2>7. CASE run.pc = "close browser"
    BY <1>1, <1>2, <2>7 DEF EndInv, ClosedInv, Unwound, ClosedAt, Opening, Body, Inside, Closing
  <2>8. CASE run.pc = "stop driver"
    BY <1>1, <1>2, <2>8 DEF EndInv, ClosedInv, Unwound, ClosedAt, Opening, Body, Inside, Closing
  <2>9. QED
    BY <1>3, <2>1, <2>2, <2>3, <2>4, <2>5, <2>6, <2>7, <2>8 DEF Pcs, Opening, Closing
<1>8. RoutesInv'
  <2>1. run'.pc \notin Inside
    BY <1>4 DEF Inside, Opening, Body
  <2>2. CASE run.pc \in Opening
    <3>1. \A r \in Routes : ~Live(r)
      BY <2>2 DEF EndInv, RoutesInv, Live, Working
    <3>2. QED
      BY <1>6, <2>1, <3>1 DEF RoutesInv, Inside, Body
  <2>3. CASE run.pc \in Body
    <3>1. closed = {} /\ run.pc \notin Opening
      BY <2>3 DEF EndInv, ClosedInv, Inside, Opening, Body
    <3>2. \A r \in Routes : Live(r)' => r \in cancelled'
      BY <1>1, <1>6, <2>3
    <3>3. "context" \in closed' => \A r \in Routes : ~Live(r)
      BY <1>1, <2>3, <3>1 DEF Unwound, ClosedAt, Body
    <3>4. QED
      BY <1>6, <2>1, <3>2, <3>3 DEF RoutesInv, Inside, Body
  <2>4. CASE run.pc \notin Inside
    <3>1. ClosedAt(Unwound(run.pc)) \subseteq {"browser", "driver"}
      BY <1>3, <2>4 DEF Unwound, ClosedAt, Pcs, Inside, Closing, Opening, Body
    <3>2. \A r \in Routes : Live(r)' => r \in late' \cup cancelled'
      BY <1>1, <1>6, <2>4 DEF EndInv, RoutesInv, Inside
    <3>3. "context" \in closed' => "context" \in closed
      BY <1>1, <3>1
    <3>4. \A r \in Routes : "context" \in closed' /\ Live(r)' => r \in late'
      BY <1>1, <1>6, <3>3 DEF EndInv, RoutesInv
    <3>5. QED
      BY <2>1, <3>2, <3>4 DEF RoutesInv, Inside, Body
  <2>5. QED
    BY <2>2, <2>3, <2>4 DEF Inside
<1>9. QED
  BY <1>1, <1>5, <1>7, <1>8 DEF Failed

LEMMA GatheredKeepsEnd ==
  ASSUME EndInv, RunTyped', Gathered
  PROVE  EndInv'
<1>1. /\ run.pc = "gather" /\ run' = [run EXCEPT !.pc = "close context"]
      /\ closed' = closed \cup {"context"}
      /\ UNCHANGED <<held, evidence, handler, cancelled, failures, late>>
      /\ \A r \in cancelled : ~Live(r)
  BY DEF Gathered, ClosedAt, routeVars
<1>2. /\ run'.pc = "close context" /\ run'.pending = run.pending
      /\ run'.struck = run.struck /\ run'.closeFailed = run.closeFailed
  BY <1>1 DEF EndInv, RunTyped, Runs
<1>3. OutcomeInv'
  BY <1>1, <1>2 DEF EndInv, OutcomeInv, Inside, Opening, Body
<1>4. ClosedInv'
  BY <1>1, <1>2 DEF EndInv, ClosedInv, Inside, Opening, Body, Closing
<1>5. RoutesInv'
  <2>1. \A r \in Routes : Live(r) => r \in late
    BY <1>1 DEF EndInv, RoutesInv, Inside, Opening, Body
  <2>2. QED
    BY <1>1, <1>2, <2>1 DEF RoutesInv, Live, Inside, Opening, Body
<1>6. Failed' = Failed
  BY <1>1 DEF Failed
<1>7. FailuresInv'
  BY <1>1, <1>2, <1>6 DEF EndInv, FailuresInv, Names, Inside, Opening, Body
<1>8. QED
  BY <1>3, <1>4, <1>5, <1>7 DEF EndInv

\* Whatever leaves a block: what is on its way out then, and with what evidence.
LEMMA LeavingKeepsEnd ==
  ASSUME EndInv, RunTyped', Collect \/ Fail \/ Close \/ CloseFails \/ Deadline \/ Cancel
  PROVE  EndInv'
<1> DEFINE leaves(pending, struck, closeFailed) ==
      /\ run'.pending = pending /\ run'.struck = struck /\ run'.closeFailed = closeFailed
<1>1. run.pc # "returned" /\ run.pc \in Pcs /\ run \in Runs
  BY DEF Collect, Fail, Close, CloseFails, Deadline, Cancel, Strike, Opening, Body, Closing,
         EndInv, RunTyped, Runs
<1>2. run'.pc \notin Inside
  <2>1. PICK pending, struck, closeFailed : Leave(pending, struck, closeFailed)
    BY DEF Collect, Fail, Close, CloseFails, Deadline, Cancel, Strike
  <2>2. run'.pc = Unwound(run.pc)
    BY <2>1 DEF Leave
  <2>3. QED
    BY <1>1, <2>2 DEF Unwound, Inside, Pcs, Opening, Body, Closing
<1>3. failures' = failures
  BY DEF Collect, Fail, Close, CloseFails, Deadline, Cancel, Strike, Leave
<1>4. CASE Collect
  <2>1. Leave("evidence", run.struck, FALSE) /\ evidence' = failures /\ run.pc = "inspect"
    BY <1>4 DEF Collect
  <2>2. ClosedInv' /\ RoutesInv' /\ Failed' = Failed
    BY <1>1, <2>1, WayOutKeepsEnd
  <2>3. run'.pending = "evidence" /\ run'.struck = run.struck /\ run.struck = {}
    BY <2>1 DEF Leave, EndInv, OutcomeInv, Inside, Body
  <2>4. OutcomeInv'
    BY <1>2, <2>3 DEF OutcomeInv
  <2>5. Names(failures)
    BY <2>1 DEF EndInv, FailuresInv, Inside, Body
  <2>6. FailuresInv'
    BY <1>2, <1>3, <2>1, <2>2, <2>5 DEF EndInv, FailuresInv, Names
  <2>7. QED
    BY <2>2, <2>4, <2>6 DEF EndInv
<1>5. CASE Fail
  <2>1. PICK error \in {"error", "uncaught"} :
          Leave(error, run.struck, FALSE) /\ run.pc \in Inside
    BY <1>5 DEF Fail, Inside
  <2>2. ClosedInv' /\ RoutesInv' /\ Failed' = Failed
    BY <1>1, <2>1, WayOutKeepsEnd DEF Inside, Opening, Body
  <2>3. run'.pending = error /\ run'.struck = run.struck /\ run.struck = {}
    BY <2>1 DEF Leave, EndInv, OutcomeInv
  <2>4. OutcomeInv'
    BY <1>2, <2>3 DEF OutcomeInv
  <2>5. FailuresInv'
    BY <1>2, <1>3, <2>3 DEF EndInv, FailuresInv
  <2>6. QED
    BY <2>2, <2>4, <2>5 DEF EndInv
<1>6. CASE Close
  <2>1. Leave(run.pending, run.struck, run.closeFailed) /\ run.pc \in Closing
        /\ evidence' = evidence
    BY <1>6 DEF Close
  <2>2. ClosedInv' /\ RoutesInv' /\ Failed' = Failed
    BY <1>1, <2>1, WayOutKeepsEnd DEF Closing
  <2>3. leaves(run.pending, run.struck, run.closeFailed)
    BY <2>1 DEF Leave
  <2>4. run.pc \notin Inside
    BY <2>1 DEF Inside, Opening, Body, Closing
  <2>5. OutcomeInv'
    BY <1>2, <2>3, <2>4 DEF EndInv, OutcomeInv
  <2>6. FailuresInv'
    BY <1>2, <1>3, <2>1, <2>2, <2>3 DEF EndInv, FailuresInv, Names
  <2>7. QED
    BY <2>2, <2>5, <2>6 DEF EndInv
<1>7. CASE CloseFails
  <2>1. Leave("error", run.struck, TRUE) /\ run.pc \in Closing
    BY <1>7 DEF CloseFails
  <2>2. ClosedInv' /\ RoutesInv' /\ Failed' = Failed
    BY <1>1, <2>1, WayOutKeepsEnd DEF Closing
  <2>3. leaves("error", run.struck, TRUE)
    BY <2>1 DEF Leave
  <2>4. OutcomeInv'
    BY <1>2, <2>3 DEF OutcomeInv
  <2>5. FailuresInv'
    BY <1>2, <1>3, <2>3 DEF EndInv, FailuresInv
  <2>6. QED
    BY <2>2, <2>4, <2>5 DEF EndInv
<1>8. CASE Deadline \/ Cancel
  <2>1. PICK by \in {"deadline", "cancel"} : Leave("cancelled", run.struck \cup {by}, FALSE)
    BY <1>8 DEF Deadline, Cancel, Strike
  <2>2. run.struck \cup {by} # {}
    OBVIOUS
  <2>3. ClosedInv' /\ RoutesInv' /\ Failed' = Failed
    BY <1>1, <2>1, <2>2, WayOutKeepsEnd
  <2>4. leaves("cancelled", run.struck \cup {by}, FALSE)
    BY <2>1 DEF Leave
  <2>5. OutcomeInv'
    BY <1>2, <2>2, <2>4 DEF OutcomeInv
  <2>6. FailuresInv'
    BY <1>2, <1>3, <2>4 DEF EndInv, FailuresInv
  <2>7. QED
    BY <2>3, <2>5, <2>6 DEF EndInv
<1>9. QED
  BY <1>4, <1>5, <1>6, <1>7, <1>8

LEMMA StepKeepsEnd ==
  ASSUME EndInv, [Next]_vars
  PROVE  EndInv'
<1>1. RunTyped'
  BY StepMoves DEF EndInv
<1>2. CASE Open \/ EntryFetched \/ Loaded
  BY <1>1, <1>2, WayInKeepsEnd
<1>3. CASE Collect \/ Fail \/ Close \/ CloseFails \/ Deadline \/ Cancel
  BY <1>1, <1>3, LeavingKeepsEnd
<1>4. CASE Gathered
  BY <1>1, <1>4, GatheredKeepsEnd
<1>5. CASE \E h \in Handlers : FetchStep(h) \/ (h \in Routes /\ (Vanish(h) \/ EndCancelled(h)))
  <2>1. PICK h \in Handlers : QuietMove(h)
    BY <1>5, QuietMoves DEF EndInv
  <2>2. QED
    BY <1>1, <2>1, QuietMoveKeepsEnd
<1>6. CASE \E r \in Routes : Begin(r)
  BY <1>1, <1>6, BeginKeepsEnd
<1>7. CASE \E r \in Routes : Answer(r)
  BY <1>1, <1>7, AnswerKeepsEnd
<1>8. CASE UNCHANGED vars
  <2>1. UNCHANGED <<run, held, closed, evidence, handler, cancelled, failures, late>>
    BY <1>8 DEF vars, runVars, routeVars
  <2>2. Failed' = Failed
    BY <2>1 DEF Failed
  <2>3. RoutesInv' /\ FailuresInv'
    BY <2>1, <2>2 DEF EndInv, RoutesInv, FailuresInv, Names, Live
  <2>4. QED
    BY <1>1, <2>1, <2>3, RunStays DEF EndInv, runVars
<1>9. QED
  BY <1>2, <1>3, <1>4, <1>5, <1>6, <1>7, <1>8 DEF Next, RunStep, RouteStep, Handlers

LEMMA InitEnd == Init => EndInv
<1> SUFFICES ASSUME Init PROVE EndInv
  OBVIOUS
<1>1. RunTyped
  BY InitPermits DEF PermitInv
<1>2. OutcomeInv /\ ClosedInv /\ RoutesInv
  BY DEF Init, OutcomeInv, ClosedInv, RoutesInv, Inside, Opening, Body, Closing, Handlers, Live
<1>3. Failed = {} /\ failures = {} /\ run.pending # "evidence"
  BY DEF Init, Failed, Handlers
<1>4. IsFiniteSet(failures) /\ Cardinality(failures) = 0 /\ MaxFailures \in Nat
  BY <1>3, FS_EmptySet, BrowserAssumption
<1>5. Cardinality(failures) <= MaxFailures
  BY <1>4
<1>6. QED
  BY <1>1, <1>2, <1>3, <1>4, <1>5 DEF EndInv, FailuresInv, Names

\* The invariant that the three properties of the end of a run follow from.
THEOREM RunEndsInOrder == Spec => []EndInv
<1>1. EndInv /\ [Next]_vars => EndInv'
  BY StepKeepsEnd
<1>2. QED
  BY InitEnd, <1>1, PTL DEF Spec

\* Evidence is given only if nothing struck the run, a timeout is reported only for
\* the deadline, and a cancelled run is cancelled for its caller, wherever the run
\* was struck (browser_runner.py:650-677).
THEOREM OutcomesAreHonest == Spec => []OutcomeIsHonest
<1>1. EndInv => OutcomeIsHonest
  <2> SUFFICES ASSUME EndInv, run.pc = "returned" PROVE OutcomeIsHonest
    BY DEF OutcomeIsHonest
  <2>1. run.pending \in {"evidence", "error", "uncaught", "cancelled"} /\ run.struck \subseteq Strikes
    BY DEF EndInv, RunTyped, Runs, Pendings, OutcomeInv, Inside, Opening, Body
  <2>2. CASE run.pending = "evidence"
    BY <2>2 DEF EndInv, OutcomeInv, OutcomeIsHonest, Outcome
  <2>3. CASE run.pending \in {"error", "uncaught"}
    BY <2>3 DEF EndInv, OutcomeInv, OutcomeIsHonest, Outcome
  <2>4. CASE run.pending = "cancelled"
    <3>1. run.struck # {}
      BY <2>4 DEF EndInv, OutcomeInv
    <3>2. CASE "cancel" \in run.struck
      BY <2>4, <3>2 DEF OutcomeIsHonest, Outcome
    <3>3. CASE "cancel" \notin run.struck
      <4>1. run.struck = {"deadline"}
        BY <2>1, <3>1, <3>3 DEF Strikes
      <4>2. QED
        BY <2>4, <4>1 DEF OutcomeIsHonest, Outcome
    <3>4. QED
      BY <3>2, <3>3
  <2>5. QED
    BY <2>1, <2>2, <2>3, <2>4
<1>2. QED
  BY RunEndsInOrder, <1>1, PTL

\* Whatever failed or was struck on the way in or out, what was opened has been told
\* to close, and the handlers left are the late ones and those a strike left on their
\* way out (browser_runner.py:1010-1021).
THEOREM NothingOutlivesTheRun == Spec => []NothingSurvivesTheRun
<1>1. EndInv => NothingSurvivesTheRun
  <2> SUFFICES ASSUME EndInv, run.pc = "returned" PROVE NothingSurvivesTheRun
    BY DEF NothingSurvivesTheRun
  <2>1. held \ {"context"} \subseteq closed
    BY DEF EndInv, ClosedInv
  <2>2. run.struck = {} => held \subseteq closed
    BY DEF EndInv, ClosedInv
  <2>3. \A r \in Routes : Live(r) => r \in late \/ (r \in cancelled /\ "context" \notin closed)
    BY DEF EndInv, RoutesInv, Inside, Opening, Body
  <2>4. QED
    BY <2>1, <2>2, <2>3 DEF NothingSurvivesTheRun
<1>2. QED
  BY RunEndsInOrder, <1>1, PTL

\* However the handlers are interleaved with the end of the body, complete evidence
\* lists what failed before it was collected, up to its bound, and nothing that
\* failed while the browser was closing (browser_runner.py:766-815, 1005).
THEOREM EvidenceIsOfTheBody == Spec => []EvidenceNamesTheFailures
<1>1. EndInv => EvidenceNamesTheFailures
  <2> SUFFICES ASSUME EndInv, run.pc = "returned", Outcome = "evidence"
               PROVE  EvidenceNamesTheFailures
    BY DEF EvidenceNamesTheFailures
  <2>1. run.pending = "evidence"
    <3>1. run.pending \in {"evidence", "error", "uncaught", "cancelled"}
      BY DEF EndInv, RunTyped, Runs, Pendings, OutcomeInv, Inside, Opening, Body
    <3>2. QED
      BY <3>1 DEF Outcome
  <2>2. Names(evidence)
    BY <2>1 DEF EndInv, FailuresInv
  <2>3. QED
    BY <2>2 DEF Names, Failed, EvidenceNamesTheFailures
<1>2. QED
  BY RunEndsInOrder, <1>1, PTL
=============================================================================
