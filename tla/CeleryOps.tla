------------------------------ MODULE CeleryOps ------------------------------
(***************************************************************************)
(* Runtime operations on ONE session in the Celery deployment              *)
(* (DOCAGENT_QUEUE=celery, docker-compose.yml).  Three kinds of actors     *)
(* share the row of the session, each database transaction being atomic:   *)
(*                                                                         *)
(*   - API request handlers (routes/sessions.py, routes/_shared.py,        *)
(*     routes/acp_ws.py), which run concurrently in FastAPI's thread pool, *)
(*     each working on the dict of the session it read when it started;    *)
(*   - Celery workers (worker_tasks.py), which receive the tasks the       *)
(*     handlers enqueue;                                                   *)
(*   - the recovery that runs when the API starts (app.py).                *)
(*                                                                         *)
(* The row is its status and its operation lease (column celery_task_id).  *)
(* A request is used once, and the Celery task that a background request   *)
(* enqueues is identified with the request.                                *)
(***************************************************************************)
EXTENDS Naturals, SessionStates

CONSTANTS
  Requests,         \* HTTP and websocket requests
  Workers,          \* Celery worker processes
  Kinds,            \* the kinds of request the clients send
  Ops,              \* the operations they ask for
  InitialStatuses,  \* the statuses the session may start in
  EnqueueMayFail,   \* run_session.delay may raise (broker unreachable)
  RuntimeMayFail,   \* a call of the runtime adapter may raise
  PoolTerminates,   \* the pool can kill a running task (prefork, not solo)
  MaxRestarts,      \* bound on restarts of the API process
  MaxWorkerLosses,  \* bound on losses of a worker process
  NoLease,          \* celery_task_id IS NULL, or the key absent from a dict
  NoTask            \* what an idle worker holds

AllKinds == {"background", "sync", "cancel", "ws_cancel", "answer"}

Placeholder(r) == <<"celery", r>>   \* lease_id = f"celery-{uuid4()...}"
TaskId(r)      == <<"task", r>>     \* the id of the task that delay returned
LeaseIds       == {"celery", "task"} \X Requests
Leases         == LeaseIds \cup {NoLease}

ASSUME ConstantsAssumption ==
  /\ Kinds \subseteq AllKinds
  /\ Ops \subseteq Operations
  /\ InitialStatuses \subseteq SettledStates
  /\ {EnqueueMayFail, RuntimeMayFail, PoolTerminates} \subseteq BOOLEAN
  /\ MaxRestarts \in Nat /\ MaxWorkerLosses \in Nat
  /\ NoLease \notin LeaseIds
  /\ NoTask \notin Requests

VARIABLES
  status, lease,             \* the row of the session
  pc, kind, op, view, prev,  \* per request: where it is, what it asks for, its
                             \* dict of the session, the status a failure restores
  queue, revoked,            \* broker: ready tasks; tasks the workers know revoked
  wpc, wtask, wlease,        \* per worker: where it is, its task, the lease in its dict
  performed,                 \* per request: times the runtime ran its prompt
  apiState,                  \* the state the API process's adapter holds in memory
  restarts, losses           \* how often the API and the workers went down

rowVars     == <<status, lease>>
requestVars == <<pc, kind, op, view, prev>>
brokerVars  == <<queue, revoked>>
workerVars  == <<wpc, wtask, wlease>>
runtimeVars == <<performed, apiState>>
faultVars   == <<restarts, losses>>
vars == <<rowVars, requestVars, brokerVars, workerVars, runtimeVars, faultVars>>

Dicts == [status : Statuses, lease : Leases]

Answered == {"accepted", "finished", "conflict", "rejected", "error", "aborted"}
RequestPCs == Answered \cup
  {"idle", "read", "entered", "placed", "prepared", "enqueued", "unplaced",
   "calling", "returned", "restoring", "revoked", "released", "cancelling", "replied"}
WorkerPCs == {"idle", "perform", "check", "append", "save", "failing", "releasing"}
RuntimeStates == {"idle", "await_outline_approval", "draft_ready", "cancelled",
                  "completed", "unbound"}

-----------------------------------------------------------------------------
(* The row *)

\* save_session: the status always, celery_task_id only if the dict has the key.
SaveSession(dictLease, next) ==
  /\ status' = next
  /\ lease' = IF dictLease = NoLease THEN lease ELSE dictLease

\* release_operation_lease with an id clears only that id, without one any lease.
ReleaseLease(id) ==
  lease' = IF id \in {NoLease, lease} THEN NoLease ELSE lease

-----------------------------------------------------------------------------
(* Request handlers *)

Goto(r, label) == pc' = [pc EXCEPT ![r] = label]

\* require_session, and the status that a failed operation goes back to.
Submit(r, k, o) ==
  /\ pc[r] = "idle"
  /\ o = "none" <=> k \notin {"background", "sync"}
  /\ Goto(r, "read")
  /\ kind' = [kind EXCEPT ![r] = k]
  /\ op' = [op EXCEPT ![r] = o]
  /\ view' = [view EXCEPT ![r] = [status |-> status, lease |-> lease]]
  /\ prev' = [prev EXCEPT ![r] = IF o = "approve_outline" THEN "await_outline_approval"
                                 ELSE status]
  /\ UNCHANGED <<rowVars, brokerVars, workerVars, runtimeVars, faultVars>>

\* Mutant of PrepareTransition: the transition table is not consulted.
PrepareUnchecked(r, next, label) ==
  /\ SaveSession(view[r].lease, next)
  /\ view' = [view EXCEPT ![r].status = next]
  /\ Goto(r, label)
  /\ UNCHANGED <<kind, op, prev, brokerVars, workerVars, runtimeVars, faultVars>>

\* prepare_transition: the check reads the dict of the request, not the row.
\* A refusal (409) gives back the placeholder lease if one is held.
PrepareTransition(r, next, label) ==
  /\ IF MayMove(view[r].status, next)
     THEN /\ SaveSession(view[r].lease, next)
          /\ view' = [view EXCEPT ![r].status = next]
          /\ Goto(r, label)
     ELSE /\ IF pc[r] = "placed" THEN ReleaseLease(Placeholder(r)) ELSE UNCHANGED lease
          /\ Goto(r, "rejected")
          /\ UNCHANGED <<status, view>>
  /\ UNCHANGED <<kind, op, prev, brokerVars, workerVars, runtimeVars, faultVars>>

\* approve_outline and revise_selection enter their running status first.
EnterEarly(r) ==
  /\ pc[r] = "read" /\ kind[r] = "background" /\ op[r] \in EarlyOperations
  /\ PrepareTransition(r, RunningStateOf[op[r]], "entered")

\* Mutant of AcquirePlaceholder: the result of the acquisition is ignored.
AcquireUnchecked(r) ==
  /\ \/ pc[r] = "entered"
     \/ pc[r] = "read" /\ kind[r] = "background" /\ op[r] \notin EarlyOperations
  /\ lease' = IF lease = NoLease THEN Placeholder(r) ELSE lease
  /\ Goto(r, IF pc[r] = "entered" THEN "prepared" ELSE "placed")
  /\ UNCHANGED <<status, kind, op, view, prev, brokerVars, workerVars, runtimeVars, faultVars>>

\* acquire_operation_lease with a placeholder id; 409 if a lease is held.
AcquirePlaceholder(r) ==
  /\ \/ pc[r] = "entered"
     \/ pc[r] = "read" /\ kind[r] = "background" /\ op[r] \notin EarlyOperations
  /\ IF lease = NoLease
     THEN /\ lease' = Placeholder(r)
          /\ Goto(r, IF pc[r] = "entered" THEN "prepared" ELSE "placed")
     ELSE /\ Goto(r, "conflict")
          /\ UNCHANGED lease
  /\ UNCHANGED <<status, kind, op, view, prev, brokerVars, workerVars, runtimeVars, faultVars>>

EnterLate(r) ==
  /\ pc[r] = "placed"
  /\ PrepareTransition(r, RunningStateOf[op[r]], "prepared")

Enqueue(r) ==
  /\ pc[r] = "prepared"
  /\ queue' = queue \cup {r}
  /\ Goto(r, "enqueued")
  /\ UNCHANGED <<rowVars, kind, op, view, prev, revoked, workerVars, runtimeVars, faultVars>>

\* delay raises: the placeholder is released and the exception leaves the
\* handler.  Only revise_selection catches it and restores the status.
EnqueueFails(r) ==
  /\ EnqueueMayFail
  /\ pc[r] = "prepared"
  /\ ReleaseLease(Placeholder(r))
  /\ Goto(r, IF op[r] = "revise_selection" THEN "restoring" ELSE "error")
  /\ UNCHANGED <<status, kind, op, view, prev, brokerVars, workerVars, runtimeVars, faultVars>>

ReleasePlaceholder(r) ==
  /\ pc[r] = "enqueued"
  /\ ReleaseLease(Placeholder(r))
  /\ Goto(r, "unplaced")
  /\ UNCHANGED <<status, kind, op, view, prev, brokerVars, workerVars, runtimeVars, faultVars>>

\* The result of this acquire_operation_lease is ignored.
AcquireTaskLease(r) ==
  /\ pc[r] = "unplaced"
  /\ lease' = IF lease = NoLease THEN TaskId(r) ELSE lease
  /\ Goto(r, "accepted")
  /\ UNCHANGED <<status, kind, op, view, prev, brokerVars, workerVars, runtimeVars, faultVars>>

\* The synchronous form of an operation (background=false, session/prompt on
\* the websocket): no lease, the runtime is called inside the handler.
EnterSync(r) ==
  /\ pc[r] = "read" /\ kind[r] = "sync"
  /\ PrepareTransition(r, RunningStateOf[op[r]], "calling")

CallRuntime(r) ==
  /\ pc[r] = "calling"
  /\ apiState # "unbound"
  /\ performed' = [performed EXCEPT ![r] = @ + 1]
  /\ apiState' = NextStateOf(op[r])
  /\ Goto(r, "returned")
  /\ UNCHANGED <<rowVars, kind, op, view, prev, brokerVars, workerVars, faultVars>>

FinishSync(r) ==
  /\ pc[r] = "returned"
  /\ SaveSession(view[r].lease, NextStateOf(op[r]))
  /\ Goto(r, "finished")
  /\ UNCHANGED <<kind, op, view, prev, brokerVars, workerVars, runtimeVars, faultVars>>

\* A runtime call of a handler raises: the handlers of operations and of
\* cancel restore the status, the two others only report the error.
RuntimeCallFails(r) ==
  /\ RuntimeMayFail \/ apiState = "unbound"
  /\ \/ pc[r] \in {"calling", "cancelling"} /\ Goto(r, "restoring")
     \/ pc[r] = "read" /\ kind[r] \in {"ws_cancel", "answer"} /\ Goto(r, "error")
  /\ UNCHANGED <<rowVars, kind, op, view, prev, brokerVars, workerVars, runtimeVars, faultVars>>

RestoreStatus(r) ==
  /\ pc[r] = "restoring"
  /\ SaveSession(view[r].lease, prev[r])
  /\ Goto(r, "error")
  /\ UNCHANGED <<kind, op, view, prev, brokerVars, workerVars, runtimeVars, faultVars>>

\* cancel_session: revoke what the dict names (the broadcast may be lost) ...
CancelRevoke(r) ==
  /\ pc[r] = "read" /\ kind[r] = "cancel"
  /\ \/ UNCHANGED revoked
     \/ \E q \in Requests : view[r].lease = TaskId(q) /\ revoked' = revoked \cup {q}
  /\ Goto(r, "revoked")
  /\ UNCHANGED <<rowVars, kind, op, view, prev, queue, workerVars, runtimeVars, faultVars>>

\* ... release the lease it names, whichever is held if it names none ...
CancelRelease(r) ==
  /\ pc[r] = "revoked"
  /\ ReleaseLease(view[r].lease)
  /\ view' = [view EXCEPT ![r].lease = NoLease]
  /\ Goto(r, "released")
  /\ UNCHANGED <<status, kind, op, prev, brokerVars, workerVars, runtimeVars, faultVars>>

\* ... and only then check that the session may be cancelled.
CancelEnter(r) ==
  /\ pc[r] = "released"
  /\ PrepareTransition(r, "cancelled", "cancelling")

CancelRuntime(r) ==
  /\ pc[r] = "cancelling"
  /\ apiState' = "cancelled"
  /\ SaveSession(view[r].lease, "cancelled")
  /\ Goto(r, "finished")
  /\ UNCHANGED <<kind, op, view, prev, brokerVars, workerVars, performed, faultVars>>

\* session/cancel on the websocket: no transition check, no revoke, no release.
WebsocketCancel(r) ==
  /\ pc[r] = "read" /\ kind[r] = "ws_cancel"
  /\ apiState' = "cancelled"
  /\ SaveSession(view[r].lease, "cancelled")
  /\ Goto(r, "finished")
  /\ UNCHANGED <<kind, op, view, prev, brokerVars, workerVars, performed, faultVars>>

\* answer_permission stores whatever state the adapter of the API holds.
AnswerRuntime(r) ==
  /\ pc[r] = "read" /\ kind[r] = "answer"
  /\ apiState # "unbound"
  /\ view' = [view EXCEPT ![r].status = apiState]
  /\ Goto(r, "replied")
  /\ UNCHANGED <<rowVars, kind, op, prev, brokerVars, workerVars, runtimeVars, faultVars>>

AnswerSave(r) ==
  /\ pc[r] = "replied"
  /\ SaveSession(view[r].lease, view[r].status)
  /\ Goto(r, "finished")
  /\ UNCHANGED <<kind, op, view, prev, brokerVars, workerVars, runtimeVars, faultVars>>

-----------------------------------------------------------------------------
(* Workers *)

WorkerGoto(w, label) == wpc' = [wpc EXCEPT ![w] = label]

\* Mutant of Receive: the task stays in the queue while it executes.
ReceiveWithoutTaking(w, r) ==
  /\ wpc[w] = "idle"
  /\ r \in queue \ revoked
  /\ wtask' = [wtask EXCEPT ![w] = r]
  /\ wlease' = [wlease EXCEPT ![w] = lease]
  /\ WorkerGoto(w, "perform")
  /\ UNCHANGED <<rowVars, requestVars, brokerVars, runtimeVars, faultVars>>

\* A worker receives a task and reads the session (run_session, first lines).
Receive(w, r) ==
  /\ wpc[w] = "idle"
  /\ r \in queue \ revoked
  /\ queue' = queue \ {r}
  /\ wtask' = [wtask EXCEPT ![w] = r]
  /\ wlease' = [wlease EXCEPT ![w] = lease]
  /\ WorkerGoto(w, "perform")
  /\ UNCHANGED <<rowVars, requestVars, revoked, runtimeVars, faultVars>>

\* Celery drops a revoked task on receipt: run_session does not run at all.
DiscardRevoked(w, r) ==
  /\ wpc[w] = "idle"
  /\ r \in queue \cap revoked
  /\ queue' = queue \ {r}
  /\ UNCHANGED <<rowVars, requestVars, revoked, workerVars, runtimeVars, faultVars>>

Perform(w) ==
  /\ wpc[w] = "perform"
  /\ performed' = [performed EXCEPT ![wtask[w]] = @ + 1]
  /\ WorkerGoto(w, "check")
  /\ UNCHANGED <<rowVars, requestVars, brokerVars, wtask, wlease, apiState, faultVars>>

\* _ensure_runtime_session or send_prompt raises.
PerformFails(w) ==
  /\ RuntimeMayFail
  /\ wpc[w] = "perform"
  /\ WorkerGoto(w, "failing")
  /\ UNCHANGED <<rowVars, requestVars, brokerVars, wtask, wlease, runtimeVars, faultVars>>

\* Mutant of CheckCancelled: the test is the wrong way round.
CheckInverted(w) ==
  /\ wpc[w] = "check"
  /\ WorkerGoto(w, IF status = "cancelled" THEN "append" ELSE "releasing")
  /\ UNCHANGED <<rowVars, requestVars, brokerVars, wtask, wlease, runtimeVars, faultVars>>

\* Mutant of AppendAndRecheck: no second look at the row.
AppendWithoutRecheck(w) ==
  /\ wpc[w] = "append"
  /\ WorkerGoto(w, "save")
  /\ UNCHANGED <<rowVars, requestVars, brokerVars, wtask, wlease, runtimeVars, faultVars>>

\* _is_cancelled before the result is appended, and again after it.
CheckCancelled(w) ==
  /\ wpc[w] = "check"
  /\ WorkerGoto(w, IF status = "cancelled" THEN "releasing" ELSE "append")
  /\ UNCHANGED <<rowVars, requestVars, brokerVars, wtask, wlease, runtimeVars, faultVars>>

AppendAndRecheck(w) ==
  /\ wpc[w] = "append"
  /\ WorkerGoto(w, IF status = "cancelled" THEN "releasing" ELSE "save")
  /\ UNCHANGED <<rowVars, requestVars, brokerVars, wtask, wlease, runtimeVars, faultVars>>

SaveResult(w) ==
  /\ wpc[w] = "save"
  /\ SaveSession(wlease[w], NextStateOf(op[wtask[w]]))
  /\ WorkerGoto(w, "releasing")
  /\ UNCHANGED <<requestVars, brokerVars, wtask, wlease, runtimeVars, faultVars>>

\* Mutants of SaveFailure: the status of the row is kept, or is always failed.
SaveFailureKeeping(w) ==
  /\ wpc[w] = "failing"
  /\ SaveSession(wlease[w], status)
  /\ WorkerGoto(w, "releasing")
  /\ UNCHANGED <<requestVars, brokerVars, wtask, wlease, runtimeVars, faultVars>>

SaveFailureAsFailed(w) ==
  /\ wpc[w] = "failing"
  /\ SaveSession(wlease[w], "failed")
  /\ WorkerGoto(w, "releasing")
  /\ UNCHANGED <<requestVars, brokerVars, wtask, wlease, runtimeVars, faultVars>>

\* The except branch: no look at the row, back to the status before the operation.
SaveFailure(w) ==
  /\ wpc[w] = "failing"
  /\ SaveSession(wlease[w], prev[wtask[w]])
  /\ WorkerGoto(w, "releasing")
  /\ UNCHANGED <<requestVars, brokerVars, wtask, wlease, runtimeVars, faultVars>>

GoIdle(w) ==
  /\ WorkerGoto(w, "idle")
  /\ wtask' = [wtask EXCEPT ![w] = NoTask]
  /\ wlease' = [wlease EXCEPT ![w] = NoLease]

\* release_operation_lease without an id, then the task is acknowledged.
WorkerRelease(w) ==
  /\ wpc[w] = "releasing"
  /\ ReleaseLease(NoLease)
  /\ GoIdle(w)
  /\ UNCHANGED <<status, requestVars, brokerVars, runtimeVars, faultVars>>

-----------------------------------------------------------------------------
(* Faults *)

\* Mutant of LoseWorker: the task was acknowledged when it was received.
LoseWorkerAndTask(w) ==
  /\ losses < MaxWorkerLosses
  /\ wpc[w] # "idle"
  /\ losses' = losses + 1
  /\ revoked' \in {revoked, {}}
  /\ GoIdle(w)
  /\ UNCHANGED <<rowVars, requestVars, queue, runtimeVars, restarts>>

\* A worker process dies: the unacknowledged task is delivered again
\* (task_acks_late, task_reject_on_worker_lost) and revocations may be forgotten.
LoseWorker(w) ==
  /\ losses < MaxWorkerLosses
  /\ wpc[w] # "idle"
  /\ losses' = losses + 1
  /\ queue' = queue \cup {wtask[w]}
  /\ revoked' \in {revoked, {}}
  /\ GoIdle(w)
  /\ UNCHANGED <<rowVars, requestVars, runtimeVars, restarts>>

\* revoke(terminate=True) reaches a pool that can kill the running task.
TerminateRevoked(w) ==
  /\ PoolTerminates
  /\ wpc[w] # "idle"
  /\ wtask[w] \in revoked
  /\ GoIdle(w)
  /\ UNCHANGED <<rowVars, requestVars, brokerVars, runtimeVars, faultVars>>

\* The API process restarts: its handlers are gone, the memory of its adapter
\* too, and _recover_interrupted_sessions fails a session left running.
RestartApi ==
  /\ restarts < MaxRestarts
  /\ restarts' = restarts + 1
  /\ pc' = [r \in Requests |-> IF pc[r] \in Answered \cup {"idle"} THEN pc[r] ELSE "aborted"]
  /\ IF status \in RunningStates
     THEN status' = "failed" /\ lease' = NoLease
     ELSE UNCHANGED rowVars
  /\ apiState' = "unbound"
  /\ UNCHANGED <<kind, op, view, prev, brokerVars, workerVars, performed, losses>>

-----------------------------------------------------------------------------
(* The specification *)

Init ==
  /\ status \in InitialStatuses
  /\ lease = NoLease
  /\ pc = [r \in Requests |-> "idle"]
  /\ kind = [r \in Requests |-> "none"]
  /\ op = [r \in Requests |-> "none"]
  /\ view = [r \in Requests |-> [status |-> status, lease |-> NoLease]]
  /\ prev = [r \in Requests |-> status]
  /\ queue = {}
  /\ revoked = {}
  /\ wpc = [w \in Workers |-> "idle"]
  /\ wtask = [w \in Workers |-> NoTask]
  /\ wlease = [w \in Workers |-> NoLease]
  /\ performed = [r \in Requests |-> 0]
  /\ apiState = "idle"
  /\ restarts = 0
  /\ losses = 0

BackgroundStep(r) ==
  \/ EnterEarly(r)
  \/ AcquirePlaceholder(r)
  \/ EnterLate(r)
  \/ Enqueue(r)
  \/ EnqueueFails(r)
  \/ ReleasePlaceholder(r)
  \/ AcquireTaskLease(r)
  \/ RestoreStatus(r)

DirectStep(r) ==
  \/ EnterSync(r)
  \/ CallRuntime(r)
  \/ FinishSync(r)
  \/ RuntimeCallFails(r)
  \/ CancelRevoke(r)
  \/ CancelRelease(r)
  \/ CancelEnter(r)
  \/ CancelRuntime(r)
  \/ WebsocketCancel(r)
  \/ AnswerRuntime(r)
  \/ AnswerSave(r)

HandlerStep(r) == BackgroundStep(r) \/ DirectStep(r)

WorkerStep(w) ==
  \/ \E r \in Requests : Receive(w, r)
  \/ \E r \in Requests : DiscardRevoked(w, r)
  \/ Perform(w)
  \/ PerformFails(w)
  \/ CheckCancelled(w)
  \/ AppendAndRecheck(w)
  \/ SaveResult(w)
  \/ SaveFailure(w)
  \/ WorkerRelease(w)

\* Nobody asks for anything more and nothing is left to do.
Quiescent ==
  /\ \A r \in Requests : pc[r] \in Answered \cup {"idle"}
  /\ queue = {}
  /\ \A w \in Workers : wpc[w] = "idle"

AllDone == Quiescent /\ (\A r \in Requests : pc[r] # "idle") /\ UNCHANGED vars

Next ==
  \/ \E r \in Requests, k \in Kinds, o \in Ops \cup {"none"} : Submit(r, k, o)
  \/ \E r \in Requests : HandlerStep(r)
  \/ \E w \in Workers : WorkerStep(w)
  \/ \E w \in Workers : LoseWorker(w)
  \/ \E w \in Workers : TerminateRevoked(w)
  \/ RestartApi
  \/ AllDone

\* Handlers and workers are threads that keep running: weakly fair.  Clients
\* and faults owe nobody anything.
Fairness == /\ \A r \in Requests : WF_vars(HandlerStep(r))
            /\ \A w \in Workers : WF_vars(WorkerStep(w))

Spec == Init /\ [][Next]_vars
FairSpec == Spec /\ Fairness

-----------------------------------------------------------------------------
(* Properties of every deployment *)

TypeOK ==
  /\ status \in Statuses /\ lease \in Leases
  /\ pc \in [Requests -> RequestPCs]
  /\ kind \in [Requests -> AllKinds \cup {"none"}]
  /\ op \in [Requests -> Operations \cup {"none"}]
  /\ view \in [Requests -> Dicts]
  /\ prev \in [Requests -> Statuses]
  /\ queue \subseteq Requests /\ revoked \subseteq Requests
  /\ wpc \in [Workers -> WorkerPCs]
  /\ wtask \in [Workers -> Requests \cup {NoTask}]
  /\ wlease \in [Workers -> Leases]
  /\ \A w \in Workers : wpc[w] = "idle" <=> wtask[w] = NoTask
  /\ performed \in [Requests -> Nat]
  /\ apiState \in RuntimeStates
  /\ restarts \in 0..MaxRestarts /\ losses \in 0..MaxWorkerLosses

Holds(w, r) == wpc[w] # "idle" /\ wtask[w] = r
Live(r) == r \in queue \/ \E w \in Workers : Holds(w, r)

\* What the lease is for: never are two tasks of the session waiting or
\* executing, nor one task in the hands of two workers.  The conditional
\* acquire of state.py and the order in which handlers and workers take and
\* give back the lease have to guarantee it.
OneOperationAtATime ==
  /\ \A q, r \in Requests : Live(q) /\ Live(r) => q = r
  /\ \A v, w \in Workers : wpc[v] # "idle" /\ wpc[w] # "idle" => v = w

\* A status that reports progress was earned: whatever stale dict is written
\* and whatever rollback runs, a session is at the outline only if a prompt to
\* start the loop was performed, has a draft only if a drafting prompt was, and
\* is completed only if an export was.  (For sessions created idle.)
MilestoneEarned ==
  LET performedActions == {ActionOf(op[r]) : r \in {q \in Requests : performed[q] > 0}}
  IN /\ status = "await_outline_approval" => "start_loop" \in performedActions
     /\ status = "draft_ready" => performedActions \ {"start_loop", "export_markdown"} # {}
     /\ status = "completed" => "export_markdown" \in performedActions

\* Late acknowledgement repeats a prompt only for a worker that was lost: a
\* task runs at most once per delivery, and one that was refused never runs.
PromptNotRepeated ==
  \A r \in Requests :
    /\ performed[r] <= 1 + losses
    /\ pc[r] \in {"conflict", "rejected"} => performed[r] = 0

\* A cancellation that lands before the worker's last look at the row is
\* respected: that worker does not go on to save the result of its task.
\* (For one operation and one cancel: another request that read the session
\* before the cancellation may write its stale status over it.)
CancelSuppressesResult ==
  \A w \in Workers, r \in Requests :
    [](Holds(w, r) /\ wpc[w] \in {"perform", "check", "append"} /\ status = "cancelled"
       => [](Holds(w, r) => wpc[w] # "save"))

\* Nothing that was enqueued is forgotten, whatever workers are lost: the
\* prompt of every accepted request is performed, or fails, or is revoked.
\* (The broker redelivers what a lost worker had not acknowledged.)
AcceptedIsHandled ==
  \A r \in Requests :
    r \in queue ~> \/ performed[r] > 0
                   \/ r \in revoked
                   \/ \E w \in Workers : Holds(w, r) /\ wpc[w] = "failing"
=============================================================================
