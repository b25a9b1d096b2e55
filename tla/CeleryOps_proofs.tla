--------------------------- MODULE CeleryOps_proofs ---------------------------
(***************************************************************************)
(* Proofs about CeleryOps, for any number of requests, workers, restarts   *)
(* and worker losses: its types, that late acknowledgement repeats a       *)
(* prompt only for a worker that was lost, and, while the API is not       *)
(* restarted, that a status that reports progress was earned.              *)
(***************************************************************************)
EXTENDS CeleryOps, TLAPS

\* What TypeOK needs to be inductive: a request that will enter a running
\* status asks for an operation that has one.
OperationsTyped ==
  \A r \in Requests :
    /\ kind[r] \in {"background", "sync"} => op[r] \in Operations
    /\ pc[r] = "placed" => kind[r] = "background"

TypeInv == TypeOK /\ OperationsTyped

\* The state every operation enters is a status, and so is its result.
LEMMA OperationStatuses ==
  /\ \A o \in Operations : RunningStateOf[o] \in RunningStates
  /\ \A o : NextStateOf(o) \in SettledStates \cap RuntimeStates
BY DEF Operations, RunningStateOf, RunningStates, NextStateOf, SettledStates, RuntimeStates

\* The initial state is well typed.
LEMMA InitTypes == Init => TypeInv
BY ConstantsAssumption DEF Init, TypeInv, TypeOK, OperationsTyped, RequestPCs, WorkerPCs, Dicts,
   Statuses, Leases, RuntimeStates

\* Submitting a request keeps the types.
LEMMA SubmitTypes ==
  ASSUME TypeInv, NEW r \in Requests, NEW k \in AllKinds, NEW o \in Ops \cup {"none"},
         Submit(r, k, o)
  PROVE  TypeInv'
BY ConstantsAssumption DEF TypeInv, TypeOK, OperationsTyped, Submit, Goto, RequestPCs, Dicts,
   Statuses, SettledStates, AllKinds, rowVars, brokerVars, workerVars, runtimeVars, faultVars

\* Entering a status keeps the types, whatever the transition table says.
LEMMA PrepareTypes ==
  ASSUME TypeInv, NEW r \in Requests, NEW next \in Statuses,
         NEW label \in RequestPCs \ {"placed"}, PrepareTransition(r, next, label)
  PROVE  TypeInv'
<1> USE DEF TypeInv, TypeOK, OperationsTyped, PrepareTransition, Goto, brokerVars, workerVars,
        runtimeVars, faultVars
<1>1. lease' \in Leases /\ status' \in Statuses
  BY DEF SaveSession, ReleaseLease, Dicts, Leases, LeaseIds, Placeholder
<1>2. pc' \in [Requests -> RequestPCs] /\ \A q \in Requests : pc'[q] = "placed" => pc[q] = "placed"
  BY DEF RequestPCs, Answered
<1>3. view' \in [Requests -> Dicts]
  BY DEF Dicts
<1> QED
  BY <1>1, <1>2, <1>3

\* Every step of a background request keeps the types.
LEMMA BackgroundTypes ==
  ASSUME TypeInv, NEW r \in Requests, BackgroundStep(r)
  PROVE  TypeInv'
<1> USE DEF Goto, TypeInv, TypeOK, OperationsTyped, RequestPCs, Answered, Leases, LeaseIds,
        Placeholder, TaskId, ReleaseLease, SaveSession, Dicts,
        rowVars, brokerVars, workerVars, runtimeVars, faultVars
<1>1. CASE EnterEarly(r)
  <2>1. RunningStateOf[op[r]] \in Statuses
    BY <1>1, OperationStatuses DEF EnterEarly, Statuses, EarlyOperations, Operations, Actions
  <2> QED
    BY ONLY TypeInv, <1>1, <2>1, PrepareTypes DEF EnterEarly, RequestPCs
<1>2. CASE AcquirePlaceholder(r)
  BY <1>2 DEF AcquirePlaceholder
<1>3. CASE EnterLate(r)
  <2>1. RunningStateOf[op[r]] \in Statuses
    BY <1>3, OperationStatuses DEF EnterLate, Statuses
  <2> QED
    BY ONLY TypeInv, <1>3, <2>1, PrepareTypes DEF EnterLate, RequestPCs
<1>4. CASE Enqueue(r)
  BY <1>4 DEF Enqueue
<1>5. CASE EnqueueFails(r)
  BY <1>5 DEF EnqueueFails
<1>6. CASE ReleasePlaceholder(r)
  BY <1>6 DEF ReleasePlaceholder
<1>7. CASE AcquireTaskLease(r)
  BY <1>7 DEF AcquireTaskLease
<1>8. CASE RestoreStatus(r)
  BY <1>8 DEF RestoreStatus
<1> QED
  BY ONLY BackgroundStep(r), <1>1, <1>2, <1>3, <1>4, <1>5, <1>6, <1>7, <1>8 DEF BackgroundStep

\* Every step of a synchronous request, a cancellation or an answer keeps them.
LEMMA DirectTypes ==
  ASSUME TypeInv, NEW r \in Requests, DirectStep(r)
  PROVE  TypeInv'
<1> USE DEF Goto, TypeInv, TypeOK, OperationsTyped, RequestPCs, Answered, Leases, LeaseIds,
        Placeholder, TaskId, ReleaseLease, SaveSession, Dicts,
        rowVars, brokerVars, workerVars, runtimeVars, faultVars
<1>1. CASE EnterSync(r)
  <2>1. RunningStateOf[op[r]] \in Statuses
    BY <1>1, OperationStatuses DEF EnterSync, Statuses
  <2> QED
    BY ONLY TypeInv, <1>1, <2>1, PrepareTypes DEF EnterSync, RequestPCs
<1>2. CASE CallRuntime(r)
  BY <1>2, OperationStatuses DEF CallRuntime
<1>3. CASE FinishSync(r)
  BY <1>3, OperationStatuses DEF FinishSync, Statuses
<1>4. CASE RuntimeCallFails(r)
  BY <1>4 DEF RuntimeCallFails
<1>5. CASE CancelRevoke(r)
  BY <1>5 DEF CancelRevoke
<1>6. CASE CancelRelease(r)
  BY <1>6 DEF CancelRelease
<1>7. CASE CancelEnter(r)
  BY ONLY TypeInv, <1>7, PrepareTypes DEF CancelEnter, RequestPCs, Statuses, SettledStates
<1>8. CASE CancelRuntime(r)
  BY <1>8 DEF CancelRuntime, Statuses, SettledStates, RuntimeStates
<1>9. CASE WebsocketCancel(r)
  BY <1>9 DEF WebsocketCancel, Statuses, SettledStates, RuntimeStates
<1>10. CASE AnswerRuntime(r)
  BY <1>10 DEF AnswerRuntime, Statuses, SettledStates, RuntimeStates
<1>11. CASE AnswerSave(r)
  BY <1>11 DEF AnswerSave
<1> QED
  BY ONLY DirectStep(r), <1>1, <1>2, <1>3, <1>4, <1>5, <1>6, <1>7, <1>8, <1>9, <1>10, <1>11
     DEF DirectStep

\* Every step of a worker keeps the types.
LEMMA WorkerTypes ==
  ASSUME TypeInv, NEW w \in Workers, WorkerStep(w)
  PROVE  TypeInv'
<1> USE ConstantsAssumption DEF WorkerGoto, GoIdle, TypeInv, TypeOK, OperationsTyped, WorkerPCs,
        Leases, LeaseIds, ReleaseLease, SaveSession,
        rowVars, requestVars, brokerVars, workerVars, runtimeVars, faultVars
<1>1. ASSUME NEW r \in Requests, Receive(w, r) PROVE TypeInv'
  BY <1>1 DEF Receive
<1>2. ASSUME NEW r \in Requests, DiscardRevoked(w, r) PROVE TypeInv'
  BY <1>2 DEF DiscardRevoked
<1>3. CASE Perform(w)
  BY <1>3 DEF Perform
<1>4. CASE PerformFails(w)
  BY <1>4 DEF PerformFails
<1>5. CASE CheckCancelled(w)
  BY <1>5 DEF CheckCancelled
<1>6. CASE AppendAndRecheck(w)
  BY <1>6 DEF AppendAndRecheck
<1>7. CASE SaveResult(w)
  BY <1>7, OperationStatuses DEF SaveResult, Statuses
<1>8. CASE SaveFailure(w)
  BY <1>8 DEF SaveFailure
<1>9. CASE WorkerRelease(w)
  BY <1>9 DEF WorkerRelease
<1> QED
  BY ONLY WorkerStep(w), <1>1, <1>2, <1>3, <1>4, <1>5, <1>6, <1>7, <1>8, <1>9 DEF WorkerStep

\* Losing a worker, killing a task and restarting the API keep the types.
LEMMA FaultTypes ==
  ASSUME TypeInv,
         \/ RestartApi
         \/ \E w \in Workers : LoseWorker(w) \/ TerminateRevoked(w)
  PROVE  TypeInv'
<1> USE ConstantsAssumption DEF WorkerGoto, GoIdle, TypeInv, TypeOK, OperationsTyped,
        rowVars, requestVars, brokerVars, workerVars, runtimeVars, faultVars
<1>1. ASSUME NEW w \in Workers, LoseWorker(w) PROVE TypeInv'
  BY <1>1 DEF LoseWorker, WorkerPCs, Leases
<1>2. ASSUME NEW w \in Workers, TerminateRevoked(w) PROVE TypeInv'
  BY <1>2 DEF TerminateRevoked, WorkerPCs, Leases
<1>3. CASE RestartApi
  BY <1>3 DEF RestartApi, RequestPCs, Answered, Leases, Statuses, SettledStates, RuntimeStates
<1> QED
  BY <1>1, <1>2, <1>3

\* A step that changes nothing keeps the types.
LEMMA StutterTypes == TypeInv /\ UNCHANGED vars => TypeInv'
BY DEF TypeInv, TypeOK, OperationsTyped, vars, rowVars, requestVars, brokerVars, workerVars,
   runtimeVars, faultVars

\* A step of the system keeps the types.
LEMMA StepTypes == TypeInv /\ [Next]_vars => TypeInv'
<1> SUFFICES ASSUME TypeInv, [Next]_vars PROVE TypeInv'
  OBVIOUS
<1>1. ASSUME NEW r \in Requests, NEW k \in Kinds, NEW o \in Ops \cup {"none"}, Submit(r, k, o)
      PROVE  TypeInv'
  <2>1. k \in AllKinds
    BY ConstantsAssumption
  <2> QED
    BY <1>1, <2>1, SubmitTypes
<1>2. ASSUME NEW r \in Requests, HandlerStep(r) PROVE TypeInv'
  BY <1>2, BackgroundTypes, DirectTypes DEF HandlerStep
<1>3. ASSUME NEW w \in Workers, WorkerStep(w) PROVE TypeInv'
  BY <1>3, WorkerTypes
<1>4. CASE AllDone \/ UNCHANGED vars
  BY <1>4, StutterTypes DEF AllDone
<1> QED
  BY <1>1, <1>2, <1>3, <1>4, FaultTypes DEF Next

\* Every reachable state of the whole system is well typed.
THEOREM TypesCorrect == Spec => []TypeOK
<1>1. TypeInv => TypeOK
  BY DEF TypeInv
<1> QED
  BY <1>1, InitTypes, StepTypes, PTL DEF Spec

-----------------------------------------------------------------------------
(* Deliveries.  A task is in one place only, the queue or one worker, and a *)
(* delivery that has not run its prompt leaves one performance to spare.    *)

\* Where a request is before its task is enqueued or its prompt performed.
Unperformed == {"idle", "read", "entered", "placed", "prepared", "calling", "restoring",
                "revoked", "released", "cancelling", "conflict", "rejected"}

DeliveryInv ==
  /\ \A r \in Requests : pc[r] \in Unperformed => performed[r] = 0 /\ ~Live(r)
  /\ \A w \in Workers : wpc[w] # "idle" => wtask[w] \notin queue
  /\ \A v, w \in Workers : wpc[v] # "idle" /\ wtask[v] = wtask[w] => v = w
  /\ \A r \in queue : performed[r] <= losses
  /\ \A w \in Workers : wpc[w] = "perform" => performed[wtask[w]] <= losses
  /\ \A r \in Requests : performed[r] <= 1 + losses

\* A request that nobody has asked for yet has no task.
LEMMA InitDelivery == Init => DeliveryInv
BY ConstantsAssumption DEF Init, DeliveryInv, Live, Holds

\* Submission touches neither broker nor workers.
LEMMA SubmitDelivery ==
  ASSUME TypeInv, DeliveryInv, NEW r \in Requests, NEW k, NEW o, Submit(r, k, o)
  PROVE  DeliveryInv'
BY DEF TypeInv, TypeOK, DeliveryInv, Live, Holds, Unperformed, Submit, Goto, brokerVars, workerVars,
   runtimeVars, faultVars

\* A background request enqueues its task once, before anything performed it.
LEMMA BackgroundDelivery ==
  ASSUME TypeInv, DeliveryInv, NEW r \in Requests, BackgroundStep(r)
  PROVE  DeliveryInv'
<1> USE DEF TypeInv, TypeOK, DeliveryInv, Live, Holds, Unperformed, Goto,
        brokerVars, workerVars, runtimeVars, faultVars
<1>1. CASE EnterEarly(r)
  BY <1>1 DEF EnterEarly, PrepareTransition
<1>2. CASE AcquirePlaceholder(r)
  BY <1>2 DEF AcquirePlaceholder
<1>3. CASE EnterLate(r)
  BY <1>3 DEF EnterLate, PrepareTransition
<1>4. CASE Enqueue(r)
  BY <1>4 DEF Enqueue
<1>5. CASE EnqueueFails(r)
  BY <1>5 DEF EnqueueFails
<1>6. CASE ReleasePlaceholder(r)
  BY <1>6 DEF ReleasePlaceholder
<1>7. CASE AcquireTaskLease(r)
  BY <1>7 DEF AcquireTaskLease
<1>8. CASE RestoreStatus(r)
  BY <1>8 DEF RestoreStatus
<1> QED
  BY ONLY BackgroundStep(r), <1>1, <1>2, <1>3, <1>4, <1>5, <1>6, <1>7, <1>8 DEF BackgroundStep

\* A synchronous request performs its prompt once and has no task.
LEMMA DirectDelivery ==
  ASSUME TypeInv, DeliveryInv, NEW r \in Requests, DirectStep(r)
  PROVE  DeliveryInv'
<1> USE DEF TypeInv, TypeOK, DeliveryInv, Live, Holds, Unperformed, Goto,
        brokerVars, workerVars, runtimeVars, faultVars
<1>1. CASE EnterSync(r)
  BY <1>1 DEF EnterSync, PrepareTransition
<1>2. CASE CallRuntime(r)
  BY <1>2 DEF CallRuntime
<1>3. CASE FinishSync(r)
  BY <1>3 DEF FinishSync
<1>4. CASE RuntimeCallFails(r)
  BY <1>4 DEF RuntimeCallFails
<1>5. CASE CancelRevoke(r)
  BY <1>5 DEF CancelRevoke
<1>6. CASE CancelRelease(r)
  BY <1>6 DEF CancelRelease
<1>7. CASE CancelEnter(r)
  BY <1>7 DEF CancelEnter, PrepareTransition
<1>8. CASE CancelRuntime(r)
  BY <1>8 DEF CancelRuntime
<1>9. CASE WebsocketCancel(r)
  BY <1>9 DEF WebsocketCancel
<1>10. CASE AnswerRuntime(r)
  BY <1>10 DEF AnswerRuntime
<1>11. CASE AnswerSave(r)
  BY <1>11 DEF AnswerSave
<1> QED
  BY ONLY DirectStep(r), <1>1, <1>2, <1>3, <1>4, <1>5, <1>6, <1>7, <1>8, <1>9, <1>10, <1>11
     DEF DirectStep

\* A worker takes the task off the queue and performs its prompt once.
LEMMA WorkerDelivery ==
  ASSUME TypeInv, DeliveryInv, NEW w \in Workers, WorkerStep(w)
  PROVE  DeliveryInv'
<1> USE ConstantsAssumption
    DEF WorkerGoto, GoIdle, TypeInv, TypeOK, DeliveryInv, Live, Holds,
        rowVars, requestVars, brokerVars, workerVars, runtimeVars, faultVars
<1>1. ASSUME NEW r \in Requests, Receive(w, r) PROVE DeliveryInv'
  BY <1>1 DEF Receive
<1>2. ASSUME NEW r \in Requests, DiscardRevoked(w, r) PROVE DeliveryInv'
  BY <1>2 DEF DiscardRevoked
<1>3. CASE Perform(w)
  BY <1>3 DEF Perform, Unperformed
<1>4. CASE PerformFails(w)
  BY <1>4 DEF PerformFails
<1>5. CASE CheckCancelled(w)
  BY <1>5 DEF CheckCancelled
<1>6. CASE AppendAndRecheck(w)
  BY <1>6 DEF AppendAndRecheck
<1>7. CASE SaveResult(w)
  BY <1>7 DEF SaveResult
<1>8. CASE SaveFailure(w)
  BY <1>8 DEF SaveFailure
<1>9. CASE WorkerRelease(w)
  BY <1>9 DEF WorkerRelease
<1> QED
  BY ONLY WorkerStep(w), <1>1, <1>2, <1>3, <1>4, <1>5, <1>6, <1>7, <1>8, <1>9 DEF WorkerStep

\* Losing a worker puts its task back and pays for one more performance.
LEMMA FaultDelivery ==
  ASSUME TypeInv, DeliveryInv,
         \/ RestartApi
         \/ \E w \in Workers : LoseWorker(w) \/ TerminateRevoked(w)
  PROVE  DeliveryInv'
<1> USE ConstantsAssumption
    DEF WorkerGoto, GoIdle, TypeInv, TypeOK, DeliveryInv, Live, Holds,
        rowVars, requestVars, brokerVars, workerVars, runtimeVars, faultVars
<1>1. ASSUME NEW w \in Workers, LoseWorker(w) PROVE DeliveryInv'
  BY <1>1 DEF LoseWorker
<1>2. ASSUME NEW w \in Workers, TerminateRevoked(w) PROVE DeliveryInv'
  BY <1>2 DEF TerminateRevoked
<1>3. CASE RestartApi
  BY <1>3 DEF RestartApi, Unperformed
<1> QED
  BY <1>1, <1>2, <1>3

\* A step of the system keeps the deliveries.
LEMMA StepDelivery == TypeInv /\ DeliveryInv /\ [Next]_vars => (TypeInv /\ DeliveryInv)'
<1> DEFINE Inv == TypeInv /\ DeliveryInv
<1> SUFFICES ASSUME Inv, [Next]_vars PROVE Inv'
  OBVIOUS
<1>1. ASSUME NEW r \in Requests, NEW k \in Kinds, NEW o \in Ops \cup {"none"}, Submit(r, k, o)
      PROVE  Inv'
  <2>1. k \in AllKinds
    BY ConstantsAssumption
  <2> QED
    BY <1>1, <2>1, SubmitTypes, SubmitDelivery
<1>2. ASSUME NEW r \in Requests, HandlerStep(r) PROVE Inv'
  BY <1>2, BackgroundTypes, DirectTypes, BackgroundDelivery, DirectDelivery DEF HandlerStep
<1>3. ASSUME NEW w \in Workers, WorkerStep(w) PROVE Inv'
  BY <1>3, WorkerTypes, WorkerDelivery
<1>4. CASE AllDone \/ UNCHANGED vars
  <2>1. DeliveryInv'
    BY <1>4 DEF AllDone, DeliveryInv, Live, Holds, vars, rowVars, requestVars, brokerVars,
       workerVars, runtimeVars, faultVars
  <2> QED
    BY <1>4, <2>1, StutterTypes DEF AllDone
<1> QED
  BY <1>1, <1>2, <1>3, <1>4, FaultTypes, FaultDelivery DEF Next

\* In every behaviour of the system, faults included, no prompt is performed
\* more often than once plus once per lost worker, and a refused one never.
THEOREM PromptsNotRepeated == Spec => []PromptNotRepeated
<1> DEFINE Inv == TypeInv /\ DeliveryInv
<1>1. Init => Inv
  BY InitTypes, InitDelivery
<1>2. Inv /\ [Next]_vars => Inv'
  BY StepDelivery
<1>3. Inv => PromptNotRepeated
  BY DEF DeliveryInv, PromptNotRepeated, Unperformed
<1> QED
  BY <1>1, <1>2, <1>3, PTL DEF Spec

-----------------------------------------------------------------------------
(* Milestones, for a session created idle while the API stays up.  A restart   *)
(* fails a running session, an outline may be approved from the failed status, *)
(* and when that fails the session goes "back" to the outline.                 *)

\* A prompt with this action has been performed.
Ran(action) == \E r \in Requests : ActionOf(op[r]) = action /\ performed[r] > 0

\* The statuses that the prompts performed so far allow the session to show.
EarnedStates ==
  {s \in Statuses \cup RuntimeStates :
     /\ s \notin {"paused", "failed"}
     /\ s \in {"await_outline_approval", "running_draft"} => Ran("start_loop")
     /\ s = "draft_ready" => \E a \in Actions \ {"start_loop", "export_markdown"} : Ran(a)
     /\ s = "completed" => Ran("export_markdown")}

\* Every status that somebody may still write is earned: the row's, those of the
\* dicts, what the adapter holds, and what a failure restores; but for approvals,
\* whose failure goes back to the outline, only from when the table let them in.
EarnedInv ==
  /\ status \in EarnedStates /\ apiState \in EarnedStates
  /\ \A r \in Requests : view[r].status \in EarnedStates
  /\ \A r \in Requests : \/ prev[r] \in EarnedStates
                         \/ op[r] = "approve_outline" /\ pc[r] \in {"read", "rejected"}

\* Which requests have an operation, and whose prompt has been performed.
RanInv ==
  /\ \A w \in Workers : wpc[w] \in {"check", "append", "save"} => performed[wtask[w]] > 0
  /\ \A r \in Requests :
       /\ pc[r] = "returned" => performed[r] > 0
       /\ kind[r] \notin {"background", "sync"} => op[r] = "none"
       /\ op[r] = "approve_outline" => prev[r] = "await_outline_approval"
       /\ Live(r) \/ pc[r] \in {"entered", "placed", "prepared"} => kind[r] = "background"
       /\ pc[r] \in {"calling", "returned"} => kind[r] = "sync"

MilestoneInv == TypeInv /\ DeliveryInv /\ EarnedInv /\ RanInv

\* What has been performed stays performed.
LEMMA EarnedStays ==
  ASSUME \A r \in Requests : performed[r] > 0 => performed'[r] > 0 /\ op'[r] = op[r]
  PROVE  EarnedStates \subseteq EarnedStates'
<1>1. \A a : Ran(a) => Ran(a)'
  BY DEF Ran
<1> QED
  BY <1>1 DEF EarnedStates

\* The result of an operation is earned once its prompt has been performed.
LEMMA ResultEarned ==
  /\ \A o \in Operations : Ran(ActionOf(o)) => NextStateOf(o) \in EarnedStates
  /\ \A o \in Operations, a \in Actions :
       a = ActionOf(o) /\ Ran(a)' => NextStateOf(o) \in EarnedStates'
<1>1. \A o \in Operations : ActionOf(o) \in Actions
  BY DEF Operations, PromptOperations, Actions, ActionOf
<1> QED
  BY <1>1 DEF NextStateOf, EarnedStates, Statuses, SettledStates

\* A draft is begun at the outline or beside another draft.
LEMMA DraftsBegin ==
  \A s \in Statuses \ {"paused", "failed"} :
    MayMove(s, "running_draft") => s \in {"await_outline_approval", "running_draft"}
<1> SUFFICES ASSUME NEW s \in Statuses \ {"paused", "failed"}, s # "running_draft",
                    "running_draft" \in AllowedTransitions[s]
             PROVE  s = "await_outline_approval"
  BY DEF MayMove
<1>1. \A t \in {"running_context", "running_revision", "running_chat", "running_checklist",
                "running_export", "idle", "draft_ready", "cancelled", "completed"} :
        "running_draft" \notin AllowedTransitions[t]
  BY DEF AllowedTransitions
<1> QED
  BY <1>1 DEF Statuses, RunningStates, SettledStates

\* What an operation enters is earned, and so is where an approval goes back to.
LEMMA EnteredEarned ==
  ASSUME NEW o \in Operations, NEW s \in EarnedStates \cap Statuses,
         MayMove(s, RunningStateOf[o])
  PROVE  /\ RunningStateOf[o] \in EarnedStates
         /\ o = "approve_outline" => "await_outline_approval" \in EarnedStates
<1>1. RunningStateOf[o] \in RunningStates /\ (RunningStateOf[o] = "running_draft" <=> o = "approve_outline")
  BY DEF Operations, Actions, RunningStateOf, RunningStates
<1>2. o = "approve_outline" => s \in {"await_outline_approval", "running_draft"}
  BY <1>1, DraftsBegin DEF EarnedStates
<1>3. o = "approve_outline" => Ran("start_loop")
  BY <1>2 DEF EarnedStates
<1> QED
  BY <1>1, <1>3 DEF EarnedStates, RunningStates, SettledStates, Statuses

LEMMA MilestoneInit == InitialStatuses = {"idle"} => (Init => EarnedInv /\ RanInv)
BY ConstantsAssumption
DEF Init, EarnedInv, RanInv, EarnedStates, Statuses, SettledStates, Live, Holds

LEMMA SubmitEarns ==
  ASSUME MilestoneInv, NEW r \in Requests, NEW k \in AllKinds, NEW o \in Ops \cup {"none"},
         Submit(r, k, o)
  PROVE  EarnedInv' /\ RanInv'
<1> USE DEF MilestoneInv, TypeInv, TypeOK
<1>1. /\ UNCHANGED <<status, performed, apiState, queue, wpc, wtask>> /\ pc[r] = "idle"
      /\ pc' = [pc EXCEPT ![r] = "read"] /\ kind' = [kind EXCEPT ![r] = k]
      /\ op' = [op EXCEPT ![r] = o]
      /\ view' = [view EXCEPT ![r] = [status |-> status, lease |-> lease]]
      /\ prev' = [prev EXCEPT ![r] = IF o = "approve_outline" THEN "await_outline_approval"
                                     ELSE status]
      /\ k \notin {"background", "sync"} => o = "none"
  BY DEF Submit, Goto, rowVars, brokerVars, workerVars, runtimeVars
<1>2. performed[r] = 0 /\ ~Live(r)
  BY <1>1 DEF DeliveryInv, Unperformed
<1>3. EarnedStates \subseteq EarnedStates'
  BY <1>1, <1>2, EarnedStays
<1>4. EarnedInv'
  BY <1>1, <1>3 DEF EarnedInv
<1>5. \A q \in Requests : Live(q)' <=> Live(q)
  BY <1>1 DEF Live, Holds
<1>6. RanInv'
  BY <1>1, <1>2, <1>5 DEF RanInv
<1> QED
  BY <1>4, <1>6

\* A request writes, and remembers, what is earned.
WritesEarned(r) ==
  /\ status' \in EarnedStates /\ apiState' \in EarnedStates
  /\ view'[r].status \in EarnedStates
  /\ prev'[r] \in EarnedStates \/ (op'[r] = "approve_outline" /\ pc'[r] \in {"read", "rejected"})
  /\ op' = op /\ prev' = prev
  /\ \A q \in Requests \ {r} : view'[q] = view[q] /\ pc'[q] = pc[q]

LEMMA WritesSuffice ==
  ASSUME MilestoneInv, NEW r \in Requests, WritesEarned(r), performed' = performed
  PROVE  EarnedInv'
<1>1. EarnedStates \subseteq EarnedStates'
  BY EarnedStays DEF WritesEarned
<1> QED
  BY <1>1 DEF MilestoneInv, EarnedInv, WritesEarned

\* prepare_transition writes what the table let in.
LEMMA PrepareEarns ==
  ASSUME MilestoneInv, NEW r \in Requests, NEW next \in Statuses, NEW label,
         label \notin {"read", "rejected"}, PrepareTransition(r, next, label),
         MayMove(view[r].status, next) => next \in EarnedStates,
         \/ prev[r] \in EarnedStates
         \/ op[r] = "approve_outline" /\ ~MayMove(view[r].status, next)
  PROVE  EarnedInv'
<1> USE DEF MilestoneInv, TypeInv, TypeOK
<1>1. CASE MayMove(view[r].status, next)
  <2>1. /\ status' = next /\ view' = [view EXCEPT ![r].status = next]
        /\ pc' = [pc EXCEPT ![r] = label]
        /\ UNCHANGED <<op, prev, performed, apiState>>
    BY <1>1 DEF PrepareTransition, SaveSession, Goto, runtimeVars
  <2>2. view'[r].status = next /\ \A q \in Requests \ {r} : view'[q] = view[q]
    BY <2>1 DEF Dicts
  <2>3. WritesEarned(r)
    BY <1>1, <2>1, <2>2 DEF EarnedInv, WritesEarned
  <2> QED
    BY <2>1, <2>3, WritesSuffice
<1>2. CASE ~MayMove(view[r].status, next)
  <2>1. /\ UNCHANGED <<status, view, op, prev, performed, apiState>>
        /\ pc' = [pc EXCEPT ![r] = "rejected"]
    BY <1>2 DEF PrepareTransition, Goto, runtimeVars
  <2>2. WritesEarned(r)
    BY <1>2, <2>1 DEF EarnedInv, WritesEarned
  <2> QED
    BY <2>1, <2>2, WritesSuffice
<1> QED
  BY <1>1, <1>2

\* The operations enter what is earned, whether they were asked early or late.
LEMMA EnterEarns ==
  ASSUME MilestoneInv, NEW r \in Requests, op[r] \in Operations,
         NEW label, label \notin {"read", "rejected"},
         PrepareTransition(r, RunningStateOf[op[r]], label)
  PROVE  EarnedInv'
<1>1. view[r].status \in EarnedStates \cap Statuses
  BY DEF MilestoneInv, EarnedInv, TypeInv, TypeOK, Dicts
<1>2. RunningStateOf[op[r]] \in Statuses
  BY OperationStatuses DEF Statuses
<1>3. MayMove(view[r].status, RunningStateOf[op[r]]) =>
        /\ RunningStateOf[op[r]] \in EarnedStates
        /\ op[r] = "approve_outline" => "await_outline_approval" \in EarnedStates
  BY <1>1, EnteredEarned
<1> QED
  BY <1>1, <1>2, <1>3, PrepareEarns DEF MilestoneInv, EarnedInv, RanInv

\* The steps of a background request.
LEMMA BackgroundEarns ==
  ASSUME MilestoneInv, NEW r \in Requests, BackgroundStep(r)
  PROVE  EarnedInv' /\ RanInv'
<1>0. /\ TypeInv /\ DeliveryInv /\ EarnedInv /\ RanInv
      /\ pc \in [Requests -> RequestPCs] /\ kind \in [Requests -> AllKinds \cup {"none"}]
  BY DEF MilestoneInv, TypeInv, TypeOK
<1>1. kind[r] = "background" => op[r] \in Operations
  BY <1>0 DEF TypeInv, OperationsTyped
<1>2. /\ UNCHANGED <<kind, op, prev, performed, apiState, wpc, wtask>>
      /\ pc' = [pc EXCEPT ![r] = pc'[r]]
      /\ queue' = queue \/ (queue' = queue \cup {r} /\ pc[r] = "prepared")
  BY <1>0
  DEF BackgroundStep, EnterEarly, AcquirePlaceholder, EnterLate, Enqueue, EnqueueFails,
      ReleasePlaceholder, AcquireTaskLease, RestoreStatus, PrepareTransition, Goto, brokerVars,
      workerVars, runtimeVars
<1>3. /\ pc'[r] \in {"entered", "placed", "prepared"} => kind[r] = "background"
      /\ pc[r] \notin {"calling", "returned"} /\ pc'[r] \notin {"calling", "returned", "read"}
  BY <1>0
  DEF BackgroundStep, EnterEarly, AcquirePlaceholder, EnterLate, Enqueue, EnqueueFails,
      ReleasePlaceholder, AcquireTaskLease, RestoreStatus, PrepareTransition, Goto, RanInv
<1>4. RanInv'
  <2>1. \A q \in Requests : Live(q)' => Live(q) \/ (q = r /\ pc[r] = "prepared")
    BY <1>2 DEF Live, Holds
  <2> QED
    BY <1>0, <1>2, <1>3, <2>1 DEF RanInv
<1>5. CASE EnterEarly(r)
  BY <1>1, <1>4, <1>5, EnterEarns DEF EnterEarly
<1>6. CASE EnterLate(r)
  <2>1. kind[r] = "background"
    BY <1>0, <1>6 DEF EnterLate, RanInv
  <2> QED
    BY <1>1, <1>4, <1>6, <2>1, EnterEarns DEF EnterLate
<1>7. CASE \/ AcquirePlaceholder(r) \/ Enqueue(r) \/ EnqueueFails(r) \/ ReleasePlaceholder(r)
           \/ AcquireTaskLease(r)
  <2>1. UNCHANGED <<status, view>>
    BY <1>7
    DEF AcquirePlaceholder, Enqueue, EnqueueFails, ReleasePlaceholder, AcquireTaskLease, rowVars
  <2>2. pc[r] = "read" => op[r] # "approve_outline"
    BY <1>7
    DEF AcquirePlaceholder, Enqueue, EnqueueFails, ReleasePlaceholder, AcquireTaskLease,
        EarlyOperations
  <2>3. prev[r] \in EarnedStates
    <3>1. pc[r] # "rejected"
      BY <1>7
      DEF AcquirePlaceholder, Enqueue, EnqueueFails, ReleasePlaceholder, AcquireTaskLease
    <3> QED
      BY <1>0, <2>2, <3>1 DEF EarnedInv
  <2>4. WritesEarned(r)
    BY <1>0, <1>2, <2>1, <2>3 DEF EarnedInv, WritesEarned
  <2> QED
    BY <1>2, <1>4, <2>4, WritesSuffice
<1>8. CASE RestoreStatus(r)
  <2>1. status' = prev[r] /\ view' = view /\ prev[r] \in EarnedStates
    BY <1>0, <1>8 DEF RestoreStatus, SaveSession, EarnedInv
  <2>2. WritesEarned(r)
    BY <1>0, <1>2, <2>1 DEF EarnedInv, WritesEarned
  <2> QED
    BY <1>2, <1>4, <2>2, WritesSuffice
<1> QED
  BY <1>4, <1>5, <1>6, <1>7, <1>8 DEF BackgroundStep

\* The steps of the other requests.
LEMMA DirectEarns ==
  ASSUME MilestoneInv, NEW r \in Requests, DirectStep(r)
  PROVE  EarnedInv' /\ RanInv'
<1>0. /\ TypeInv /\ DeliveryInv /\ EarnedInv /\ RanInv
      /\ pc \in [Requests -> RequestPCs] /\ kind \in [Requests -> AllKinds \cup {"none"}]
      /\ performed \in [Requests -> Nat]
  BY DEF MilestoneInv, TypeInv, TypeOK
<1>1. kind[r] = "sync" => op[r] \in Operations
  BY <1>0 DEF TypeInv, OperationsTyped
<1>2. /\ UNCHANGED <<kind, op, prev, wpc, wtask, queue>>
      /\ pc' = [pc EXCEPT ![r] = pc'[r]]
      /\ pc'[r] \notin {"entered", "placed", "prepared", "read"}
  BY <1>0
  DEF DirectStep, EnterSync, CallRuntime, FinishSync, RuntimeCallFails, CancelRevoke, CancelRelease,
      CancelEnter, CancelRuntime, WebsocketCancel, AnswerRuntime, AnswerSave, PrepareTransition,
      Goto, brokerVars, workerVars
<1>3. /\ pc'[r] = "calling" => kind[r] = "sync"
      /\ pc'[r] = "returned" => pc[r] = "calling"
  BY <1>0
  DEF DirectStep, EnterSync, CallRuntime, FinishSync, RuntimeCallFails, CancelRevoke, CancelRelease,
      CancelEnter, CancelRuntime, WebsocketCancel, AnswerRuntime, AnswerSave, PrepareTransition, Goto
<1>4. /\ CallRuntime(r) \/ performed' = performed
      /\ CallRuntime(r) => performed' = [performed EXCEPT ![r] = @ + 1]
      /\ pc'[r] = "returned" => CallRuntime(r)
  BY <1>0
  DEF DirectStep, EnterSync, CallRuntime, FinishSync, RuntimeCallFails, CancelRevoke, CancelRelease,
      CancelEnter, CancelRuntime, WebsocketCancel, AnswerRuntime, AnswerSave, PrepareTransition,
      Goto, runtimeVars
<1>5. \A q \in Requests : /\ performed[q] > 0 => performed'[q] > 0
                          /\ q = r /\ CallRuntime(r) => performed'[q] > 0
  BY <1>0, <1>4
<1>6. RanInv'
  <2>1. \A q \in Requests : Live(q)' <=> Live(q)
    BY <1>2 DEF Live, Holds
  <2>2. \A w \in Workers : wpc'[w] \in {"check", "append", "save"} => performed'[wtask'[w]] > 0
    <3>1. \A w \in Workers : wpc[w] \in {"check", "append", "save"} => wtask[w] \in Requests
      BY <1>0, ConstantsAssumption DEF TypeInv, TypeOK
    <3> QED
      BY <1>0, <1>2, <1>5, <3>1 DEF RanInv
  <2> QED
    BY <1>0, <1>2, <1>3, <1>4, <1>5, <2>1, <2>2 DEF RanInv
<1>7. CASE EnterSync(r)
  BY <1>1, <1>6, <1>7, EnterEarns DEF EnterSync
<1>8. CASE CancelEnter(r)
  <2>1. "cancelled" \in EarnedStates
    BY DEF EarnedStates, Statuses, SettledStates
  <2>2. prev[r] \in EarnedStates
    BY <1>0, <1>8 DEF CancelEnter, EarnedInv
  <2> QED
    BY <1>6, <1>8, <2>1, <2>2, PrepareEarns DEF CancelEnter, Statuses, SettledStates
<1>9. CASE CallRuntime(r)
  <2>1. /\ UNCHANGED <<status, view>> /\ apiState' = NextStateOf(op[r])
        /\ op[r] \in Operations /\ pc[r] = "calling"
    BY <1>0, <1>1, <1>9 DEF CallRuntime, RanInv, rowVars
  <2>2. EarnedStates \subseteq EarnedStates'
    BY <1>2, <1>5, EarnedStays
  <2>3. \A a : a = ActionOf(op[r]) => Ran(a)'
    BY <1>2, <1>5, <1>9 DEF Ran
  <2>4. apiState' \in EarnedStates'
    <3>1. ActionOf(op[r]) \in Actions
      BY <2>1 DEF Operations, PromptOperations, Actions, ActionOf
    <3> QED
      BY <2>1, <2>3, <3>1, ResultEarned
  <2>5. prev[r] \in EarnedStates
    BY <1>0, <2>1 DEF EarnedInv
  <2> QED
    BY <1>0, <1>2, <1>6, <2>1, <2>2, <2>4, <2>5 DEF EarnedInv
<1>10. CASE \/ FinishSync(r) \/ RuntimeCallFails(r) \/ CancelRevoke(r) \/ CancelRelease(r)
            \/ CancelRuntime(r) \/ WebsocketCancel(r) \/ AnswerRuntime(r) \/ AnswerSave(r)
  <2>1. performed' = performed
    BY <1>4, <1>10
    DEF FinishSync, RuntimeCallFails, CancelRevoke, CancelRelease, CancelRuntime, WebsocketCancel,
        AnswerRuntime, AnswerSave, runtimeVars
  <2>2. prev[r] \in EarnedStates
    <3>1. pc[r] # "rejected" /\ (pc[r] = "read" => kind[r] \notin {"background", "sync"})
      BY <1>10
      DEF FinishSync, RuntimeCallFails, CancelRevoke, CancelRelease, CancelRuntime, WebsocketCancel,
          AnswerRuntime, AnswerSave
    <3> QED
      BY <1>0, <3>1 DEF EarnedInv, RanInv
  <2>3. "cancelled" \in EarnedStates
    BY DEF EarnedStates, Statuses, SettledStates
  <2>4. pc[r] = "returned" => NextStateOf(op[r]) \in EarnedStates
    BY <1>0, <1>1, ResultEarned DEF RanInv, Ran
  <2>5. /\ status' \in {status, "cancelled", view[r].status, NextStateOf(op[r])}
        /\ status' = NextStateOf(op[r]) => pc[r] = "returned" \/ status' \in EarnedStates
        /\ apiState' \in {apiState, "cancelled"}
    BY <1>0, <1>10, <2>3
    DEF FinishSync, RuntimeCallFails, CancelRevoke, CancelRelease, CancelRuntime, WebsocketCancel,
        AnswerRuntime, AnswerSave, SaveSession, EarnedInv, rowVars, runtimeVars
  <2>6. /\ view'[r].status \in {view[r].status, apiState}
        /\ \A q \in Requests \ {r} : view'[q] = view[q]
    <3>1. view \in [Requests -> Dicts]
      BY <1>0 DEF TypeInv, TypeOK
    <3> QED
      BY <1>10, <3>1
      DEF FinishSync, RuntimeCallFails, CancelRevoke, CancelRelease, CancelRuntime, WebsocketCancel,
          AnswerRuntime, AnswerSave, Dicts
  <2>7. WritesEarned(r)
    BY <1>0, <1>2, <2>2, <2>3, <2>4, <2>5, <2>6 DEF EarnedInv, WritesEarned
  <2> QED
    BY <1>6, <2>1, <2>7, WritesSuffice
<1> QED
  BY <1>7, <1>8, <1>9, <1>10 DEF DirectStep

\* The steps of a worker, among them the two that write the row.
LEMMA WorkerEarns ==
  ASSUME MilestoneInv, NEW w \in Workers, WorkerStep(w)
  PROVE  EarnedInv' /\ RanInv'
<1>0. /\ TypeInv /\ DeliveryInv /\ EarnedInv /\ RanInv
      /\ performed \in [Requests -> Nat] /\ wpc \in [Workers -> WorkerPCs]
      /\ wtask \in [Workers -> Requests \cup {NoTask}]
      /\ \A v \in Workers : wpc[v] = "idle" <=> wtask[v] = NoTask
  BY DEF MilestoneInv, TypeInv, TypeOK
<1>1. wpc[w] # "idle" =>
        /\ wtask[w] \in Requests /\ Live(wtask[w])
        /\ op[wtask[w]] \in Operations /\ prev[wtask[w]] \in EarnedStates
  <2> SUFFICES ASSUME wpc[w] # "idle"
               PROVE  /\ wtask[w] \in Requests /\ Live(wtask[w])
                      /\ op[wtask[w]] \in Operations /\ prev[wtask[w]] \in EarnedStates
    OBVIOUS
  <2>1. wtask[w] \in Requests /\ Live(wtask[w])
    BY <1>0 DEF Live, Holds
  <2>2. pc[wtask[w]] \notin {"read", "rejected"} /\ kind[wtask[w]] = "background"
    BY <1>0, <2>1 DEF DeliveryInv, Unperformed, RanInv
  <2> QED
    BY <1>0, <2>1, <2>2 DEF EarnedInv, TypeInv, OperationsTyped
<1>2. /\ UNCHANGED <<requestVars, apiState>>
      /\ performed' = performed \/ (Perform(w) /\ performed' = [performed EXCEPT ![wtask[w]] = @ + 1])
  BY DEF WorkerStep, Receive, DiscardRevoked, Perform, PerformFails, CheckCancelled, AppendAndRecheck,
         SaveResult, SaveFailure, WorkerRelease, runtimeVars, requestVars
<1>3. \A q \in Requests : performed[q] > 0 => performed'[q] > 0
  BY <1>0, <1>2
<1>4. EarnedStates \subseteq EarnedStates'
  BY <1>2, <1>3, EarnedStays DEF requestVars
<1>5. status' \in EarnedStates
  <2>1. CASE SaveResult(w)
    <3>1. Ran(ActionOf(op[wtask[w]]))
      BY <1>0, <1>1, <2>1 DEF SaveResult, RanInv, Ran
    <3> QED
      BY <1>1, <2>1, <3>1, ResultEarned DEF SaveResult, SaveSession
  <2>2. CASE SaveFailure(w)
    BY <1>1, <2>2 DEF SaveFailure, SaveSession
  <2>3. CASE ~SaveResult(w) /\ ~SaveFailure(w)
    BY <1>0, <2>3
    DEF WorkerStep, Receive, DiscardRevoked, Perform, PerformFails, CheckCancelled,
        AppendAndRecheck, WorkerRelease, EarnedInv, rowVars
  <2> QED
    BY <2>1, <2>2, <2>3
<1>6. EarnedInv'
  BY <1>0, <1>2, <1>4, <1>5 DEF EarnedInv, requestVars
<1>7. \A q \in Requests : Live(q)' => Live(q)
  <2>1. /\ queue' \subseteq queue
        /\ \A v \in Workers \ {w} : wpc'[v] = wpc[v] /\ wtask'[v] = wtask[v]
        /\ wpc'[w] # "idle" => \/ wpc[w] # "idle" /\ wtask'[w] = wtask[w]
                               \/ wtask'[w] \in queue
    BY <1>0
    DEF WorkerStep, Receive, DiscardRevoked, Perform, PerformFails, CheckCancelled,
        AppendAndRecheck, SaveResult, SaveFailure, WorkerRelease, GoIdle, WorkerGoto, brokerVars,
        workerVars
  <2> QED
    BY <2>1 DEF Live, Holds
<1>8. \A v \in Workers : wpc'[v] \in {"check", "append", "save"} => performed'[wtask'[v]] > 0
  <2>1. \A v \in Workers : wpc'[v] \in {"check", "append", "save"} =>
          /\ wtask'[v] = wtask[v] /\ wtask[v] \in Requests
          /\ wpc[v] \in {"check", "append", "save"} \/ (v = w /\ Perform(w))
    BY <1>0, ConstantsAssumption
    DEF WorkerStep, Receive, DiscardRevoked, Perform, PerformFails, CheckCancelled,
        AppendAndRecheck, SaveResult, SaveFailure, WorkerRelease, GoIdle, WorkerGoto, brokerVars,
        workerVars
  <2>2. Perform(w) => performed'[wtask[w]] > 0
    BY <1>0, <1>1 DEF Perform
  <2> QED
    BY <1>0, <1>3, <2>1, <2>2 DEF RanInv
<1>9. RanInv'
  BY <1>0, <1>2, <1>3, <1>7, <1>8 DEF RanInv, requestVars
<1> QED
  BY <1>6, <1>9

\* A lost worker, and one that is killed, write nothing.
LEMMA LossEarns ==
  ASSUME MilestoneInv, NEW w \in Workers, LoseWorker(w) \/ TerminateRevoked(w)
  PROVE  EarnedInv' /\ RanInv'
<1>0. /\ EarnedInv /\ RanInv
      /\ wpc \in [Workers -> WorkerPCs] /\ wtask \in [Workers -> Requests \cup {NoTask}]
      /\ \A v \in Workers : wpc[v] = "idle" <=> wtask[v] = NoTask
  BY DEF MilestoneInv, TypeInv, TypeOK
<1>1. /\ UNCHANGED <<rowVars, requestVars, performed, apiState>>
      /\ wpc[w] # "idle" /\ queue' \in {queue, queue \cup {wtask[w]}}
      /\ wpc' = [wpc EXCEPT ![w] = "idle"] /\ wtask' = [wtask EXCEPT ![w] = NoTask]
  BY DEF LoseWorker, TerminateRevoked, GoIdle, WorkerGoto, brokerVars, runtimeVars
<1>2. EarnedStates \subseteq EarnedStates'
  BY <1>1, EarnedStays DEF requestVars
<1>3. \A q \in Requests : Live(q)' => Live(q)
  BY <1>0, <1>1 DEF Live, Holds
<1>4. EarnedInv'
  BY <1>0, <1>1, <1>2 DEF EarnedInv, rowVars, requestVars
<1>5. RanInv'
  BY <1>0, <1>1, <1>3 DEF RanInv, requestVars
<1> QED
  BY <1>4, <1>5

\* As long as the API is not restarted, a session that was created idle shows the
\* outline, a draft or an export only after a prompt that makes one, whatever
\* requests of any kind interleave and whatever workers are lost or killed.
THEOREM MilestonesAreEarned ==
  InitialStatuses = {"idle"} /\ MaxRestarts = 0 => (Spec => []MilestoneEarned)
<1> SUFFICES ASSUME InitialStatuses = {"idle"}, MaxRestarts = 0
             PROVE  Spec => []MilestoneEarned
  OBVIOUS
<1>1. Init => MilestoneInv
  BY InitTypes, InitDelivery, MilestoneInit DEF MilestoneInv
<1>2. MilestoneInv /\ [Next]_vars => MilestoneInv'
  <2> SUFFICES ASSUME MilestoneInv, [Next]_vars PROVE EarnedInv' /\ RanInv'
    BY StepTypes, StepDelivery DEF MilestoneInv
  <2>1. ASSUME NEW r \in Requests, NEW k \in Kinds, NEW o \in Ops \cup {"none"}, Submit(r, k, o)
        PROVE  EarnedInv' /\ RanInv'
    <3>1. k \in AllKinds
      BY ConstantsAssumption
    <3> QED
      BY <2>1, <3>1, SubmitEarns
  <2>2. ASSUME NEW r \in Requests, HandlerStep(r) PROVE EarnedInv' /\ RanInv'
    BY <2>2, BackgroundEarns, DirectEarns DEF HandlerStep
  <2>3. ASSUME NEW w \in Workers, WorkerStep(w) PROVE EarnedInv' /\ RanInv'
    BY <2>3, WorkerEarns
  <2>4. ASSUME NEW w \in Workers, LoseWorker(w) \/ TerminateRevoked(w) PROVE EarnedInv' /\ RanInv'
    BY <2>4, LossEarns
  <2>5. ~RestartApi
    BY DEF RestartApi, MilestoneInv, TypeInv, TypeOK
  <2>6. CASE AllDone \/ UNCHANGED vars
    <3>1. UNCHANGED <<status, apiState, requestVars, performed, queue, wpc, wtask>>
      BY <2>6 DEF AllDone, vars, rowVars, brokerVars, workerVars, runtimeVars
    <3>2. EarnedStates \subseteq EarnedStates'
      BY <3>1, EarnedStays DEF requestVars
    <3>3. \A q \in Requests : Live(q)' <=> Live(q)
      BY <3>1 DEF Live, Holds
    <3>4. EarnedInv'
      BY <3>1, <3>2 DEF MilestoneInv, EarnedInv, requestVars
    <3>5. RanInv'
      BY <3>1, <3>3 DEF MilestoneInv, RanInv, requestVars
    <3> QED
      BY <3>4, <3>5
  <2> QED
    BY <2>1, <2>2, <2>3, <2>4, <2>5, <2>6 DEF Next
<1>3. MilestoneInv => MilestoneEarned
  <2> DEFINE performedActions == {ActionOf(op[r]) : r \in {q \in Requests : performed[q] > 0}}
  <2>1. \A a : Ran(a) => a \in performedActions
    BY DEF Ran
  <2> QED
    BY <2>1 DEF MilestoneInv, EarnedInv, EarnedStates, MilestoneEarned
<1> QED
  BY <1>1, <1>2, <1>3, PTL DEF Spec
=============================================================================
