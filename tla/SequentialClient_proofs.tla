----------------------- MODULE SequentialClient_proofs -----------------------
(***************************************************************************)
(* Proofs about SequentialClient, for any number of requests and workers:  *)
(* a page that waits for its answers never has two operations of the       *)
(* session at once, although the handler gives its lease back and takes    *)
(* it again, and although a worker gives back whatever lease is held.  For *)
(* operations that take the lease first, and a broker that answers, the    *)
(* session then moves as SessionLifecycle says and is never left running.  *)
(***************************************************************************)
EXTENDS SequentialClient, CeleryOps_proofs

Unanswered(r) == pc[r] \notin Answered \cup {"idle"}

\* Before the task of a request is enqueued, or instead of it.
TaskNotSent == {"idle", "read", "entered", "placed", "prepared", "restoring",
                "conflict", "rejected", "error"}

\* Why the lease is enough for one client: the lease is free while a task is
\* live only in the gap of the handler that sent that task.
LeaseInv ==
  /\ \A q, r \in Requests : Unanswered(q) /\ Unanswered(r) => q = r
  /\ \A r \in Requests : pc[r] # "idle" => kind[r] = "background"
  /\ \A r \in Requests : pc[r] \in TaskNotSent => ~Live(r)
  /\ \A r \in Requests : pc[r] \in {"placed", "prepared"} =>
       lease # NoLease /\ \A q \in Requests : ~Live(q)
  /\ \A r \in Requests : pc[r] \in {"enqueued", "unplaced"} =>
       \A q \in Requests : Live(q) => q = r
  /\ \A r \in Requests : Live(r) => lease # NoLease \/ pc[r] = "unplaced"
  /\ \A w \in Workers : wpc[w] # "idle" => wtask[w] \notin queue
  /\ OneOperationAtATime

Inv == TypeInv /\ LeaseInv

\* No request has been made.
LEMMA InitLease == Init => LeaseInv
BY ConstantsAssumption DEF Init, LeaseInv, Live, Holds, OneOperationAtATime, Unanswered

\* A submission finds no other request unanswered, and creates no task.
LEMMA SubmitLease ==
  ASSUME Inv, NEW r \in Requests, NEW o, SubmitNext(r, o)
  PROVE  LeaseInv'
BY DEF Inv, TypeInv, TypeOK, LeaseInv, Live, Holds, OneOperationAtATime, Unanswered, TaskNotSent,
   Answered, SubmitNext, OthersAnswered, Submit, Goto, rowVars, brokerVars, workerVars

\* The steps of a handler: the lease is granted only when no task is live, and
\* it is free with a live task only between its release and its reacquisition.
LEMMA BackgroundLease ==
  ASSUME Inv, NEW r \in Requests, BackgroundStep(r)
  PROVE  LeaseInv'
<1> USE ConstantsAssumption
    DEF Inv, TypeInv, TypeOK, LeaseInv, Live, Holds, OneOperationAtATime, Unanswered, TaskNotSent,
        Answered, Goto, SaveSession, ReleaseLease, Placeholder, TaskId, LeaseIds,
        rowVars, brokerVars, workerVars
<1>1. CASE EnterEarly(r)
  BY <1>1 DEF EnterEarly, PrepareTransition
<1>2. CASE AcquirePlaceholder(r)
  BY <1>2 DEF AcquirePlaceholder
<1>3. CASE EnterLate(r)
  BY <1>3 DEF EnterLate, PrepareTransition
<1>4. CASE Enqueue(r)
  BY <1>4 DEF Enqueue
<1>5. CASE EnqueueFails(r)
  BY <1>5 DEF EnqueueFails
<1>6. CASE ReleasePlaceholder(r)
  BY <1>6 DEF ReleasePlaceholder
<1>7. CASE AcquireTaskLease(r)
  BY <1>7 DEF AcquireTaskLease
<1>8. CASE RestoreStatus(r)
  BY <1>8 DEF RestoreStatus
<1> QED
  BY ONLY BackgroundStep(r), <1>1, <1>2, <1>3, <1>4, <1>5, <1>6, <1>7, <1>8 DEF BackgroundStep

\* The steps of a worker: only the one that ends its task frees the lease.
LEMMA WorkerLease ==
  ASSUME Inv, NEW w \in Workers, WorkerStep(w)
  PROVE  LeaseInv'
<1> USE ConstantsAssumption
    DEF Inv, TypeInv, TypeOK, LeaseInv, Live, Holds, OneOperationAtATime, Unanswered,
        WorkerGoto, GoIdle, SaveSession, ReleaseLease,
        rowVars, requestVars, brokerVars, workerVars
<1>1. ASSUME NEW r \in Requests, Receive(w, r) PROVE LeaseInv'
  BY <1>1 DEF Receive
<1>2. ASSUME NEW r \in Requests, DiscardRevoked(w, r) PROVE LeaseInv'
  BY <1>2 DEF DiscardRevoked
<1>3. CASE Perform(w)
  BY <1>3 DEF Perform
<1>4. CASE PerformFails(w)
  BY <1>4 DEF PerformFails
<1>5. CASE CheckCancelled(w)
  BY <1>5 DEF CheckCancelled
<1>6. CASE AppendAndRecheck(w)
  BY <1>6 DEF AppendAndRecheck
<1>7. CASE SaveResult(w)
  BY <1>7 DEF SaveResult
<1>8. CASE SaveFailure(w)
  BY <1>8 DEF SaveFailure
<1>9. CASE WorkerRelease(w)
  BY <1>9 DEF WorkerRelease, TaskNotSent
<1> QED
  BY ONLY WorkerStep(w), <1>1, <1>2, <1>3, <1>4, <1>5, <1>6, <1>7, <1>8, <1>9 DEF WorkerStep

\* The invariant is kept by every step of the service and its client.
LEMMA StepInv == Inv /\ [SequentialNext]_vars => Inv'
<1> SUFFICES ASSUME Inv, [SequentialNext]_vars PROVE Inv'
  OBVIOUS
<1>1. ASSUME NEW r \in Requests, NEW o \in Ops, SubmitNext(r, o) PROVE Inv'
  <2>1. TypeInv'
    BY <1>1, SubmitTypes DEF Inv, SubmitNext, AllKinds
  <2> QED
    BY <1>1, <2>1, SubmitLease DEF Inv
<1>2. ASSUME NEW r \in Requests, BackgroundStep(r) PROVE Inv'
  BY <1>2, BackgroundTypes, BackgroundLease DEF Inv
<1>3. ASSUME NEW w \in Workers, WorkerStep(w) PROVE Inv'
  BY <1>3, WorkerTypes, WorkerLease DEF Inv
<1>4. CASE AllDone \/ UNCHANGED vars
  <2>1. LeaseInv'
    BY <1>4 DEF AllDone, Inv, LeaseInv, Live, Holds, OneOperationAtATime, Unanswered, vars,
       rowVars, requestVars, brokerVars, workerVars
  <2> QED
    BY <1>4, <2>1, StutterTypes DEF AllDone, Inv
<1> QED
  BY <1>1, <1>2, <1>3, <1>4 DEF SequentialNext, ServiceNext

\* With one page that waits for its answers the session is well typed and
\* never has two operations at once, however slow its handlers and workers.
THEOREM OneOperation == SequentialSpec => []OneOperationAtATime
<1>1. Init => Inv
  BY InitTypes, InitLease DEF Inv
<1>2. Inv => OneOperationAtATime
  BY DEF Inv, LeaseInv
<1> QED
  BY <1>1, <1>2, StepInv, PTL DEF SequentialSpec

-----------------------------------------------------------------------------
(* The patient page.  Its requests are those that enter their status after    *)
(* they got the lease: an early one that is refused leaves its running status *)
(* behind (see the README), and so does a broker that refuses a task.         *)

PatientOps == Ops \cap EarlyOperations = {} /\ ~EnqueueMayFail

\* While an operation is in flight the row shows its status, and the page asks
\* for nothing; what a handler has read is therefore still what is there when it
\* enters, although neither the lease nor the table makes sure of it.
ShowingInv ==
  /\ revoked = {}
  /\ \A r \in Requests : /\ pc[r] \notin {"entered", "restoring"}
                         /\ pc[r] # "idle" => op[r] \in Ops
  /\ \A r \in Requests : pc[r] \in {"read", "placed"} =>
       /\ Current = {}
       /\ view[r].status = status /\ prev[r] = status
  /\ \A r \in Current :
       status = RunningStateOf[op[r]] /\ prev[r] \in SettledStates /\ pc[r] # "idle"
  /\ status \in RunningStates => Current # {}

PatientInv == Inv /\ ShowingInv

\* How a step changes what SessionLifecycle sees of the session.
Keeps == /\ status' = status /\ Current' = Current
         /\ \A r \in Current : op'[r] = op[r] /\ prev'[r] = prev[r]
Begins(r) == /\ Current = {} /\ Current' = {r}
             /\ op[r] \in Ops /\ op'[r] = op[r] /\ prev'[r] = prev[r]
             /\ status' = RunningStateOf[op[r]]
Ends(r) == /\ Current = {r} /\ Current' = {}
           /\ status' \in {NextStateOf(op[r]), prev[r]}

\* What a step leaves of ShowingInv to show for requests not in flight.
LEMMA OneInFlight ==
  ASSUME Inv, NEW q \in Requests, NEW r \in Requests, InFlight(q), InFlight(r)
  PROVE  q = r
<1>1. \A p \in Requests : InFlight(p) => pc[p] = "prepared" \/ Live(p)
  BY DEF InFlight, Live
<1> QED
  BY <1>1 DEF Inv, LeaseInv, OneOperationAtATime, Unanswered, Answered

\* A submission finds nothing in flight.
LEMMA SubmitShows ==
  ASSUME PatientInv, PatientOps, NEW r \in Requests, NEW o \in Ops, SubmitPatiently(r, o)
  PROVE  Keeps /\ ShowingInv'
<1>1. status \in SettledStates /\ Submit(r, "background", o) /\ OthersAnswered(r)
  BY DEF SubmitPatiently, SubmitNext
<1>2. Current = {}
  <2>1. \A q \in Current : q \in Requests /\ op[q] \in Operations
    BY ConstantsAssumption DEF Current, PatientInv, ShowingInv
  <2>2. \A q \in Current : status \in RunningStates
    BY <2>1, OperationStatuses DEF PatientInv, ShowingInv
  <2> QED
    BY <1>1, <2>2 DEF SettledStates, RunningStates
<1>3. /\ UNCHANGED <<status, queue, revoked, wpc, wtask>>
      /\ pc' = [pc EXCEPT ![r] = "read"] /\ pc[r] = "idle"
      /\ op' = [op EXCEPT ![r] = o]
      /\ view' = [view EXCEPT ![r] = [status |-> status, lease |-> lease]]
      /\ prev' = [prev EXCEPT ![r] = IF o = "approve_outline" THEN "await_outline_approval"
                                     ELSE status]
  BY <1>1 DEF Submit, Goto, rowVars, brokerVars, workerVars
<1>4. o # "approve_outline"
  BY DEF PatientOps, EarlyOperations
<1>5. pc \in [Requests -> RequestPCs] /\ op \in [Requests -> Operations \cup {"none"}]
      /\ view \in [Requests -> Dicts] /\ prev \in [Requests -> Statuses]
  BY DEF PatientInv, Inv, TypeInv, TypeOK
<1>6. \A q \in Requests : InFlight(q)' => InFlight(q)
  BY <1>3, <1>5 DEF InFlight, Holds
<1>7. Current' = {}
  BY <1>2, <1>6 DEF Current
<1>8. \A q \in Requests \ {r} : pc[q] \in Answered \cup {"idle"}
  BY <1>1 DEF OthersAnswered
<1> QED
  BY <1>1, <1>2, <1>3, <1>4, <1>5, <1>7, <1>8
  DEF Keeps, PatientInv, ShowingInv, Answered, SettledStates, RunningStates

\* A handler begins an operation, or changes nothing of the session.
LEMMA HandlerShows ==
  ASSUME PatientInv, PatientOps, NEW r \in Requests, BackgroundStep(r)
  PROVE  (Keeps \/ (Begins(r) /\ MayMove(status, status') /\ prev[r] = status)) /\ ShowingInv'
<1>0. /\ pc \in [Requests -> RequestPCs] /\ view \in [Requests -> Dicts]
      /\ kind[r] = "background" \/ pc[r] = "idle"
  BY DEF PatientInv, Inv, TypeInv, TypeOK, LeaseInv
<1>1. ~EnterEarly(r) /\ ~EnqueueFails(r) /\ ~RestoreStatus(r)
  BY DEF PatientInv, ShowingInv, PatientOps, EnterEarly, EnqueueFails, RestoreStatus
<1>2. UNCHANGED <<op, prev, revoked, wpc, wtask>> /\ pc[r] # "idle"
  BY <1>1
  DEF BackgroundStep, AcquirePlaceholder, EnterLate, Enqueue, ReleasePlaceholder, AcquireTaskLease,
      PrepareTransition, brokerVars, workerVars
<1>3. \A q \in Requests \ {r} : pc[q] \notin {"read", "placed"} \/ pc[r] \in Answered \cup {"idle"}
  BY DEF PatientInv, Inv, LeaseInv, Unanswered, Answered
<1>4. CASE AcquirePlaceholder(r)
  <2>1. /\ UNCHANGED <<status, queue, view>> /\ pc' = [pc EXCEPT ![r] = pc'[r]]
        /\ pc[r] = "read" /\ pc'[r] \in {"placed", "conflict"}
    BY <1>0, <1>4 DEF AcquirePlaceholder, Goto, PatientInv, ShowingInv, brokerVars
  <2>2. \A q \in Requests : InFlight(q)' <=> InFlight(q)
    BY <1>0, <1>2, <2>1 DEF InFlight, Holds
  <2>3. Current' = Current
    BY <2>2 DEF Current
  <2> QED
    BY <1>0, <1>2, <2>1, <2>3 DEF Keeps, PatientInv, ShowingInv
<1>5. CASE ReleasePlaceholder(r) \/ AcquireTaskLease(r)
  <2>1. /\ UNCHANGED <<status, queue, view>> /\ pc' = [pc EXCEPT ![r] = pc'[r]]
        /\ pc[r] \in {"enqueued", "unplaced"} /\ pc'[r] \in {"unplaced", "accepted"}
    BY <1>0, <1>5 DEF ReleasePlaceholder, AcquireTaskLease, Goto, brokerVars
  <2>2. \A q \in Requests : InFlight(q)' <=> InFlight(q)
    BY <1>0, <1>2, <2>1 DEF InFlight, Holds
  <2>3. Current' = Current
    BY <2>2 DEF Current
  <2>4. \A q \in Requests : /\ pc'[q] \in {"read", "placed"} => pc[q] = pc'[q]
                            /\ pc'[q] = "idle" => pc[q] = "idle"
                            /\ pc'[q] \in {"entered", "restoring"} => pc[q] = pc'[q]
                            /\ pc[q] = "idle" => pc'[q] = "idle"
    BY <1>0, <2>1
  <2>5. Current \subseteq Requests
    BY DEF Current
  <2> QED
    BY <1>2, <2>1, <2>3, <2>4, <2>5 DEF Keeps, PatientInv, ShowingInv
<1>6. CASE Enqueue(r)
  <2>1. /\ UNCHANGED <<status, view>> /\ pc' = [pc EXCEPT ![r] = "enqueued"]
        /\ pc[r] = "prepared" /\ queue' = queue \cup {r}
    BY <1>6 DEF Enqueue, Goto, rowVars
  <2>2. \A q \in Requests : InFlight(q)' <=> InFlight(q)
    BY <1>0, <1>2, <2>1 DEF InFlight, Holds
  <2>3. Current' = Current
    BY <2>2 DEF Current
  <2> QED
    BY <1>0, <1>2, <2>1, <2>3 DEF Keeps, PatientInv, ShowingInv
<1>7. CASE EnterLate(r)
  <2>1. /\ pc[r] = "placed" /\ queue' = queue
        /\ Current = {} /\ view[r].status = status /\ prev[r] = status /\ op[r] \in Ops
        /\ \A q \in Requests \ {r} : pc[q] \notin {"read", "placed"}
    BY <1>3, <1>7 DEF EnterLate, PrepareTransition, brokerVars, PatientInv, ShowingInv, Answered
  <2>a. status \in SettledStates
    BY <2>1 DEF PatientInv, ShowingInv, Inv, TypeInv, TypeOK, Statuses
  <2>2. CASE MayMove(status, RunningStateOf[op[r]])
    <3>1. status' = RunningStateOf[op[r]] /\ pc' = [pc EXCEPT ![r] = "prepared"]
      BY <1>7, <2>1, <2>2 DEF EnterLate, PrepareTransition, SaveSession, Goto
    <3>2. \A q \in Requests : InFlight(q)' <=> q = r
      BY <1>0, <1>2, <2>1, <3>1 DEF InFlight, Holds, Current
    <3>3. Current' = {r}
      BY <3>2 DEF Current
    <3>4. Begins(r) /\ MayMove(status, status') /\ prev[r] = status
      BY <1>2, <2>1, <2>2, <3>1, <3>3 DEF Begins
    <3> QED
      BY <1>0, <1>2, <2>1, <2>a, <3>1, <3>3, <3>4 DEF PatientInv, ShowingInv
  <2>3. CASE ~MayMove(status, RunningStateOf[op[r]])
    <3>1. UNCHANGED <<status, view>> /\ pc' = [pc EXCEPT ![r] = "rejected"]
      BY <1>7, <2>1, <2>3 DEF EnterLate, PrepareTransition, Goto
    <3>2. \A q \in Requests : InFlight(q)' <=> InFlight(q)
      BY <1>0, <1>2, <2>1, <3>1 DEF InFlight, Holds
    <3>3. Current' = Current
      BY <3>2 DEF Current
    <3> QED
      BY <1>0, <1>2, <2>1, <3>1, <3>3 DEF Keeps, PatientInv, ShowingInv
  <2> QED
    BY <2>2, <2>3
<1> QED
  BY <1>1, <1>4, <1>5, <1>6, <1>7 DEF BackgroundStep

\* A worker ends the operation that is in flight, or changes nothing of it.
LEMMA WorkerShows ==
  ASSUME PatientInv, PatientOps, NEW w \in Workers, WorkerStep(w)
  PROVE  (Keeps \/ (Ends(wtask[w]) /\ wtask[w] \in Requests)) /\ ShowingInv'
<1>0. wpc \in [Workers -> WorkerPCs] /\ wtask \in [Workers -> Requests \cup {NoTask}]
      /\ \A v \in Workers : wpc[v] = "idle" <=> wtask[v] = NoTask
  BY DEF PatientInv, Inv, TypeInv, TypeOK
<1>1. \A v \in Workers \ {w} : wpc[w] # "idle" => wpc[v] = "idle"
  BY DEF PatientInv, Inv, LeaseInv, OneOperationAtATime
<1>2. wpc[w] # "idle" =>
        /\ wtask[w] \in Requests /\ wtask[w] \notin queue
        /\ pc[wtask[w]] \notin TaskNotSent
        /\ \A q \in Requests : Live(q) => q = wtask[w]
        /\ \A q \in Requests : pc[q] # "prepared"
  BY <1>0, ConstantsAssumption
  DEF PatientInv, Inv, LeaseInv, OneOperationAtATime, Live, Holds
<1>3. wpc[w] \notin {"idle", "releasing"} => Current = {wtask[w]}
  <2> SUFFICES ASSUME wpc[w] \notin {"idle", "releasing"} PROVE Current = {wtask[w]}
    OBVIOUS
  <2>1. InFlight(wtask[w])
    BY DEF InFlight, Holds
  <2>2. \A q \in Requests : InFlight(q) => q = wtask[w]
    BY <1>2, <2>1, OneInFlight DEF PatientInv
  <2> QED
    BY <1>2, <2>1, <2>2 DEF Current
<1>4. wpc[w] \notin {"idle", "releasing"} => status # "cancelled"
  <2> SUFFICES ASSUME wpc[w] \notin {"idle", "releasing"} PROVE status # "cancelled"
    OBVIOUS
  <2>1. wtask[w] \in Current /\ wtask[w] \in Requests
    BY <1>2, <1>3
  <2>2. op[wtask[w]] \in Operations /\ status = RunningStateOf[op[wtask[w]]]
    BY <2>1, ConstantsAssumption DEF PatientInv, ShowingInv
  <2> QED
    BY <2>2, OperationStatuses DEF RunningStates
<1>5. UNCHANGED requestVars
  BY DEF WorkerStep, Receive, DiscardRevoked, Perform, PerformFails, CheckCancelled, AppendAndRecheck,
         SaveResult, SaveFailure, WorkerRelease
<1>6. revoked' = revoked
  BY DEF WorkerStep, Receive, DiscardRevoked, Perform, PerformFails, CheckCancelled, AppendAndRecheck,
         SaveResult, SaveFailure, WorkerRelease, brokerVars
<1>7. ASSUME status' = status, \A q \in Requests : InFlight(q)' <=> InFlight(q)
      PROVE  Keeps /\ ShowingInv'
  <2>1. Current' = Current
    BY <1>7 DEF Current
  <2> QED
    BY <1>5, <1>6, <1>7, <2>1 DEF Keeps, PatientInv, ShowingInv, requestVars
<1>8. ASSUME NEW r \in Requests, Receive(w, r) PROVE Keeps /\ ShowingInv'
  <2>1. /\ status' = status /\ wpc[w] = "idle" /\ r \in queue /\ queue' = queue \ {r}
        /\ wpc' = [wpc EXCEPT ![w] = "perform"] /\ wtask' = [wtask EXCEPT ![w] = r]
    BY <1>8 DEF Receive, WorkerGoto, rowVars
  <2>2. \A q \in Requests : InFlight(q)' <=> InFlight(q)
    BY <1>0, <1>5, <2>1 DEF InFlight, Holds, requestVars
  <2> QED
    BY <1>7, <2>1, <2>2
<1>9. ASSUME NEW r \in Requests, DiscardRevoked(w, r) PROVE FALSE
  BY <1>9 DEF DiscardRevoked, PatientInv, ShowingInv
<1>10. CASE Perform(w) \/ PerformFails(w) \/ CheckCancelled(w) \/ AppendAndRecheck(w)
  <2>1. /\ status' = status /\ wpc[w] \notin {"idle", "releasing"} /\ queue' = queue
        /\ wpc' = [wpc EXCEPT ![w] = wpc'[w]] /\ wpc'[w] \notin {"idle", "releasing"}
        /\ wtask' = wtask
    BY <1>0, <1>4, <1>10
    DEF Perform, PerformFails, CheckCancelled, AppendAndRecheck, WorkerGoto, rowVars, brokerVars
  <2>2. \A q \in Requests : InFlight(q)' <=> InFlight(q)
    BY <1>0, <1>5, <2>1 DEF InFlight, Holds, requestVars
  <2> QED
    BY <1>7, <2>1, <2>2
<1>11. CASE WorkerRelease(w)
  <2>1. /\ status' = status /\ wpc[w] = "releasing" /\ queue' = queue
        /\ wpc' = [wpc EXCEPT ![w] = "idle"] /\ wtask' = [wtask EXCEPT ![w] = NoTask]
    BY <1>11 DEF WorkerRelease, GoIdle, WorkerGoto, brokerVars
  <2>2. \A q \in Requests : InFlight(q)' <=> InFlight(q)
    BY <1>0, <1>5, <2>1 DEF InFlight, Holds, requestVars
  <2> QED
    BY <1>7, <2>1, <2>2
<1>12. CASE SaveResult(w) \/ SaveFailure(w)
  <2>1. /\ status' \in {NextStateOf(op[wtask[w]]), prev[wtask[w]]}
        /\ wpc[w] \in {"save", "failing"} /\ queue' = queue
        /\ wpc' = [wpc EXCEPT ![w] = "releasing"] /\ wtask' = wtask
    BY <1>12 DEF SaveResult, SaveFailure, SaveSession, WorkerGoto, brokerVars
  <2>2. Current = {wtask[w]} /\ wtask[w] \in Requests
    BY <1>2, <1>3, <2>1
  <2>3. \A q \in Requests : ~InFlight(q)'
    <3>1. \A q \in Requests : q \notin queue /\ pc[q] # "prepared"
      BY <1>2, <2>1 DEF Live
    <3>2. \A v \in Workers : wpc'[v] \in {"idle", "releasing"}
      BY <1>0, <1>1, <2>1
    <3> QED
      BY <1>5, <2>1, <3>1, <3>2 DEF InFlight, Holds, requestVars
  <2>4. Current' = {}
    BY <2>3 DEF Current
  <2>5. Ends(wtask[w])
    BY <2>1, <2>2, <2>4 DEF Ends
  <2>6. status' \in SettledStates
    BY <2>1, <2>2, OperationStatuses DEF PatientInv, ShowingInv
  <2>7. \A q \in Requests : pc[q] \notin {"read", "placed"}
    BY <2>2 DEF PatientInv, ShowingInv
  <2>8. ShowingInv'
    BY <1>5, <1>6, <2>4, <2>6, <2>7
    DEF PatientInv, ShowingInv, requestVars, SettledStates, RunningStates
  <2> QED
    BY <2>2, <2>5, <2>8
<1> QED
  BY ONLY WorkerStep(w), <1>8, <1>9, <1>10, <1>11, <1>12 DEF WorkerStep

\* The variables of SessionLifecycle, as SequentialClient gives them.
ActiveOp == IF Current = {} THEN "none" ELSE op[CHOOSE r \in Current : TRUE]
OriginOf == IF Current = {} THEN "none" ELSE prev[CHOOSE r \in Current : TRUE]

LEMMA OnlyCurrent == \A r : Current = {r} => ActiveOp = op[r] /\ OriginOf = prev[r]
<1>1. \A S, r : S = {r} => (CHOOSE q \in S : TRUE) = r
  OBVIOUS
<1> QED
  BY <1>1 DEF ActiveOp, OriginOf

\* The same for the state after a step.
LEMMA OnlyCurrentNext == \A r : Current' = {r} => ActiveOp' = op'[r] /\ OriginOf' = prev'[r]
<1>1. \A S, r : S = {r} => (CHOOSE q \in S : TRUE) = r
  OBVIOUS
<1> QED
  BY <1>1 DEF ActiveOp, OriginOf

\* The abstract session has the same statuses and operations.
LEMMA SameStates ==
  /\ Session!Statuses = Statuses /\ Session!RunningStateOf = RunningStateOf
  /\ \A o : Session!NextStateOf(o) = NextStateOf(o)
  /\ \A s, t : Session!MayMove(s, t) <=> MayMove(s, t)
BY DEF Session!Statuses, Session!RunningStates, Session!SettledStates, Session!RunningStateOf,
       Session!Operations, Session!Actions, Session!PromptOperations, Session!NextStateOf,
       Session!ActionOf, Session!MayMove, Session!AllowedTransitions,
       Statuses, RunningStates, SettledStates, RunningStateOf, Operations, Actions,
       PromptOperations, NextStateOf, ActionOf, MayMove, AllowedTransitions

\* A step that keeps the session, one that begins and one that ends an operation.
LEMMA StepIsSession ==
  ASSUME PatientInv, PatientOps,
         \/ Keeps
         \/ \E r \in Requests : Begins(r) /\ MayMove(status, status') /\ prev[r] = status
         \/ \E r \in Requests : Ends(r)
  PROVE  [Session!Next]_(Session!vars)
<1>0. \A o \in Ops : o \in Operations /\ o # "approve_outline" /\ o # "none"
  BY ConstantsAssumption DEF PatientOps, EarlyOperations, Operations, Actions, PromptOperations
<1>1. CASE Keeps
  <2>1. CASE Current = {}
    BY <1>1, <2>1 DEF Keeps, Session!vars
  <2>2. CASE Current # {}
    <3>1. (CHOOSE r \in Current : TRUE) \in Current
      BY <2>2
    <3> QED
      BY <1>1, <3>1 DEF Keeps, Session!vars
  <2> QED
    BY <2>1, <2>2
<1>2. ASSUME NEW r \in Requests, Begins(r), MayMove(status, status'), prev[r] = status
      PROVE  Session!Next
  <2>1. ActiveOp = "none" /\ ActiveOp' = op[r] /\ OriginOf' = status
    BY <1>2, OnlyCurrentNext DEF Begins, ActiveOp
  <2>2. op[r] \in Ops /\ op[r] # "approve_outline" /\ status' = RunningStateOf[op[r]]
    BY <1>0, <1>2 DEF Begins
  <2>3. status \in Statuses
    BY DEF PatientInv, Inv, TypeInv, TypeOK
  <2>4. Session!Begin(op[r])
    BY <1>2, <2>1, <2>2, <2>3, SameStates DEF Session!Begin, Session!BeginIn, ActiveOp, OriginOf
  <2> QED
    BY <2>2, <2>4 DEF Session!Next
<1>3. ASSUME NEW r \in Requests, Ends(r) PROVE Session!Next
  <2>1. /\ ActiveOp = op[r] /\ OriginOf = prev[r] /\ ActiveOp' = "none" /\ OriginOf' = "none"
        /\ status' \in {NextStateOf(op[r]), prev[r]}
    BY <1>3, OnlyCurrent DEF Ends, ActiveOp, OriginOf
  <2>2. op[r] \in Ops /\ op[r] # "none"
    BY <1>0, <1>3 DEF Ends, PatientInv, ShowingInv
  <2>3. CASE status' = NextStateOf(op[r])
    <3>1. Session!Finish
      BY <2>1, <2>2, <2>3, SameStates DEF Session!Finish, Session!End, ActiveOp, OriginOf
    <3> QED
      BY <3>1 DEF Session!Next
  <2>4. CASE status' = prev[r]
    <3>1. Session!Fail
      BY <2>1, <2>2, <2>4 DEF Session!Fail, Session!End, ActiveOp, OriginOf
    <3> QED
      BY <3>1 DEF Session!Next
  <2> QED
    BY <2>1, <2>3, <2>4
<1> QED
  BY <1>1, <1>2, <1>3

LEMMA PatientInit == Init => PatientInv
<1>1. Init => Current = {}
  BY DEF Init, Current, InFlight, Holds
<1> QED
  BY <1>1, InitTypes, InitLease, ConstantsAssumption
  DEF Init, PatientInv, Inv, ShowingInv, SettledStates, RunningStates

LEMMA PatientStep ==
  ASSUME PatientInv, PatientOps, [PatientNext]_vars
  PROVE  PatientInv' /\ [Session!Next]_(Session!vars)
<1>1. Inv'
  BY StepInv DEF PatientInv, PatientNext, SequentialNext, SubmitPatiently
<1> SUFFICES ShowingInv' /\ [Session!Next]_(Session!vars)
  BY <1>1 DEF PatientInv
<1>2. ASSUME NEW r \in Requests, NEW o \in Ops, SubmitPatiently(r, o)
      PROVE  ShowingInv' /\ [Session!Next]_(Session!vars)
  BY <1>2, SubmitShows, StepIsSession
<1>3. ASSUME NEW r \in Requests, BackgroundStep(r)
      PROVE  ShowingInv' /\ [Session!Next]_(Session!vars)
  BY <1>3, HandlerShows, StepIsSession
<1>4. ASSUME NEW w \in Workers, WorkerStep(w)
      PROVE  ShowingInv' /\ [Session!Next]_(Session!vars)
  BY <1>4, WorkerShows, StepIsSession
<1>5. CASE AllDone \/ UNCHANGED vars
  <2>1. UNCHANGED <<status, pc, op, view, prev, queue, revoked, wpc, wtask>>
    BY <1>5 DEF AllDone, vars, rowVars, requestVars, brokerVars, workerVars
  <2>2. Current' = Current
    BY <2>1 DEF Current, InFlight, Holds
  <2>3. ShowingInv' /\ Keeps
    BY <2>1, <2>2 DEF PatientInv, ShowingInv, Keeps
  <2> QED
    BY <2>3, StepIsSession
<1> QED
  BY <1>2, <1>3, <1>4, <1>5 DEF PatientNext, ServiceNext

\* For the patient page, the session never stays in a running status once
\* everything is answered and no task is left, however its operations fail.
THEOREM PatientPageNotStuck == PatientOps => (PatientSpec => []NoStuckRunning)
<1> SUFFICES ASSUME PatientOps PROVE PatientSpec => []NoStuckRunning
  OBVIOUS
<1>1. PatientInv => NoStuckRunning
  <2> SUFFICES ASSUME PatientInv, Quiescent PROVE status \in SettledStates
    BY DEF NoStuckRunning
  <2>1. Current = {}
    BY DEF Quiescent, Current, InFlight, Holds, Answered
  <2> QED
    BY <2>1 DEF PatientInv, ShowingInv, Inv, TypeInv, TypeOK, Statuses
<1>2. PatientInv /\ [PatientNext]_vars => PatientInv'
  BY PatientStep
<1> QED
  BY <1>1, <1>2, PatientInit, PTL DEF PatientSpec

\* Handlers, lease, broker and workers together implement SessionLifecycle: one
\* operation at a time, begun when the table allows it, that ends in the state
\* the runtime reports or goes back to the status it began from.
THEOREM PatientSessionIsImplemented == PatientOps => (PatientSpec => ImplementsSession)
<1> SUFFICES ASSUME PatientOps PROVE PatientSpec => ImplementsSession
  OBVIOUS
<1>1. Init => Session!Init
  <2>1. Init => Current = {}
    BY DEF Init, Current, InFlight, Holds
  <2> QED
    BY <2>1 DEF Init, Session!Init
<1>2. PatientInv /\ [PatientNext]_vars => PatientInv' /\ [Session!Next]_(Session!vars)
  BY PatientStep
<1> QED
  BY <1>1, <1>2, PatientInit, PTL DEF PatientSpec, ImplementsSession, Session!Spec

=============================================================================
