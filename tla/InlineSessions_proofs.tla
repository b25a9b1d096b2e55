------------------------ MODULE InlineSessions_proofs ------------------------
(***************************************************************************)
(* Proofs about InlineSessions, for any number of requests and restarts:   *)
(* its types; that the runner never keeps an entry nobody answers for, and *)
(* that its check keeps the jobs of a client that awaits its answers       *)
(* apart; that creations are whole; and, for a client that waits until     *)
(* everything is over, that no running status stays, that all prompts go   *)
(* to one conversation and the row names it, that a confirmed cancellation *)
(* is final, and that the session implements SessionLifecycle.             *)
(*                                                                         *)
(* The invariants are stacked: TypeInv, RunnerInv and WaitingInv on the    *)
(* runner, FinishedInv on one request at a time, ConversationInv, ShownInv *)
(* and HeldInv on what the adapter holds, each on top of the one before.   *)
(***************************************************************************)
EXTENDS InlineSessions, FiniteSetTheorems, TLAPS

Inside == {"entered", "free", "prepared", "placed", "submitted"}

\* What TypeOK needs to be inductive: a request that will enter a running
\* status asks for an operation that has one; a request not made has no kind;
\* only background requests go through the runner.
KindsTyped ==
  \A r \in Requests :
    /\ kind[r] \in Prompts => op[r] \in Operations
    /\ pc[r] = "idle" => kind[r] = "none"
    /\ pc[r] \in Inside => IsJob(r)

TypeInv == TypeOK /\ KindsTyped

\* The state every operation enters is a status, and its result a settled one.
LEMMA OperationStatuses ==
  /\ \A o \in Operations : RunningStateOf[o] \in RunningStates
  /\ \A o : NextStateOf(o) \in SettledStates
  /\ "none" \notin Operations
BY DEF Operations, Actions, PromptOperations, RunningStateOf, RunningStates, NextStateOf,
       SettledStates

\* The initial state is well typed.
LEMMA InitTypes == Init => TypeInv
<1> SUFFICES ASSUME Init PROVE TypeInv
  OBVIOUS
<1> USE DEF Init
<1>1. pc \in [Requests -> {"idle"}] /\ run \in [Requests -> {"none"}] /\ queue \in Seq(Requests)
  OBVIOUS
<1>2. view \in [Requests -> [status : RowStatuses, stored : Ids]] /\ conv \in [Requests -> Ids]
  BY DEF RowStatuses, Ids
<1>3. result \in [Requests -> [next : SettledStates, id : Ids]]
  BY DEF SettledStates, Ids
<1>4. entry \in Entries /\ binding \in Ids /\ stored \in Ids /\ held \in SettledStates
  BY DEF Entries, Ids, SettledStates
<1>5. status \in RowStatuses /\ prev \in [Requests -> RowStatuses]
  BY DEF RowStatuses
<1>6. restarts \in 0..MaxRestarts
  BY ConstantsAssumption
<1>7. TypeOK
  BY <1>1, <1>2, <1>3, <1>4, <1>5, <1>6 DEF TypeOK, Calls
<1>8. KindsTyped
  BY DEF KindsTyped, Inside, Prompts
<1> QED
  BY <1>7, <1>8 DEF TypeInv

\* The creation of the session keeps the types.
LEMMA CreationTypes == ASSUME TypeInv, CreationStep PROVE TypeInv'
BY DEF TypeInv, TypeOK, KindsTyped, CreationStep, CreateRow, BuildBundle, CreateRuntime,
   CreateRuntimeFails, DeleteRow, RowStatuses, Statuses, SettledStates, Ids, IsJob,
   rowVars, requestVars, callVars, runnerVars, adapterVars, setupVars

\* A request that begins keeps the types.
LEMMA SubmitTypes ==
  ASSUME TypeInv, NEW r \in Requests, NEW k \in AllKinds,
         NEW o \in Ops \cup {"none"}, Submit(r, k, o)
  PROVE  TypeInv'
<1> USE DEF TypeInv, TypeOK, KindsTyped, Submit, Goto, IsJob, Inside,
   rowVars, callVars, runnerVars, adapterVars, setupVars
<1>1. TypeOK'
  BY ConstantsAssumption DEF RowStatuses, Statuses, SettledStates, AllKinds, Prompts
<1>2. KindsTyped'
  BY ConstantsAssumption DEF AllKinds, Prompts
<1> QED
  BY <1>1, <1>2

\* Asking the table and entering a status keeps the types.
LEMMA PrepareTypes ==
  ASSUME TypeInv, NEW r \in Requests, NEW next \in Statuses,
         NEW label \in {"entered", "prepared", "calling"},
         label # "calling" => IsJob(r), kind[r] # "none",
         PrepareTransition(r, next, label)
  PROVE  /\ status' \in RowStatuses /\ stored' \in Ids
         /\ pc' \in [Requests -> Answered \cup Inside \cup {"idle", "read", "calling"}]
         /\ view' \in [Requests -> [status : RowStatuses, stored : Ids]]
         /\ KindsTyped'
<1>a. next \in RowStatuses /\ view[r].stored \in Ids /\ stored \in Ids /\ status \in RowStatuses
  BY DEF TypeInv, TypeOK, RowStatuses
<1>b. view \in [Requests -> [status : RowStatuses, stored : Ids]]
  BY DEF TypeInv, TypeOK
<1>c. pc \in [Requests -> Answered \cup Inside \cup {"idle", "read", "calling"}]
  BY DEF TypeInv, TypeOK, Inside
<1>1. status' \in RowStatuses /\ stored' \in Ids
  BY <1>a DEF SaveSession, PrepareTransition, rowVars
<1>2. pc' \in [Requests -> Answered \cup Inside \cup {"idle", "read", "calling"}]
  BY <1>c DEF PrepareTransition, Goto, Inside, Answered
<1>3. view' \in [Requests -> [status : RowStatuses, stored : Ids]]
  BY <1>a, <1>b DEF PrepareTransition
<1> USE DEF TypeInv, TypeOK, PrepareTransition, Goto
<1>4. KindsTyped'
  BY DEF KindsTyped, IsJob, Inside
<1> QED
  BY <1>1, <1>2, <1>3, <1>4

\* Every step of a handler keeps the types.
LEMMA HandlerTypes == ASSUME TypeInv, NEW r \in Requests, HandlerStep(r) PROVE TypeInv'
<1> DEFINE PCs == Answered \cup Inside \cup {"idle", "read", "calling"}
<1>0. PCs = Answered \cup {"idle", "read", "entered", "free", "prepared", "placed", "submitted",
                          "calling"}
  BY DEF Inside
<1> USE DEF TypeInv
<1>1. CASE EnterEarly(r)
  <2>1. RunningStateOf[op[r]] \in Statuses /\ IsJob(r) /\ kind[r] # "none"
    BY <1>1, OperationStatuses DEF EnterEarly, Statuses, EarlyOperations, Operations, Actions, IsJob
  <2> QED
    BY <1>0, <1>1, <2>1, PrepareTypes
       DEF EnterEarly, TypeOK, PrepareTransition, callVars, runnerVars, adapterVars, setupVars
<1>2. CASE EnterLate(r)
  <2>1. RunningStateOf[op[r]] \in Statuses /\ IsJob(r) /\ kind[r] # "none"
    BY <1>2, OperationStatuses DEF EnterLate, Statuses, KindsTyped, Inside, IsJob, Prompts
  <2> QED
    BY <1>0, <1>2, <2>1, PrepareTypes
       DEF EnterLate, TypeOK, PrepareTransition, callVars, runnerVars, adapterVars, setupVars
<1>3. CASE EnterSync(r)
  <2>1. RunningStateOf[op[r]] \in Statuses /\ kind[r] # "none"
    BY <1>3, OperationStatuses DEF EnterSync, Statuses, KindsTyped, Prompts
  <2>2. run' \in [Requests -> Calls]
    BY <1>3 DEF EnterSync, SetRun, TypeOK, Calls
  <2> QED
    BY <1>0, <1>3, <2>1, <2>2, PrepareTypes
       DEF EnterSync, TypeOK, PrepareTransition, runnerVars, adapterVars, setupVars
<1>4. CASE EnterCancel(r)
  <2>1. "cancelled" \in Statuses /\ kind[r] # "none"
    BY <1>4 DEF EnterCancel, Statuses, SettledStates
  <2>2. run' \in [Requests -> Calls]
    BY <1>4 DEF EnterCancel, SetRun, TypeOK, Calls
  <2> QED
    BY <1>0, <1>4, <2>1, <2>2, PrepareTypes
       DEF EnterCancel, TypeOK, PrepareTransition, runnerVars, adapterVars, setupVars
<1>5. CASE EnterUnchecked(r)
  BY <1>5 DEF EnterUnchecked, TypeOK, KindsTyped, Goto, SetRun, Calls, Inside, IsJob,
     rowVars, runnerVars, adapterVars, setupVars
<1>6. CASE CheckRunner(r)
  BY <1>6 DEF CheckRunner, TypeOK, KindsTyped, Goto, Inside, IsJob, Answered,
     rowVars, callVars, runnerVars, adapterVars, setupVars
<1>7. CASE PutPlaceholder(r)
  BY <1>7 DEF PutPlaceholder, TypeOK, KindsTyped, Goto, Inside, IsJob, Entries, Placeholder,
     rowVars, callVars, adapterVars, setupVars
<1>8. CASE SubmitJob(r)
  BY <1>8 DEF SubmitJob, TypeOK, KindsTyped, Goto, SetRun, Calls, Inside, IsJob,
     rowVars, adapterVars, setupVars
<1>9. CASE PutFuture(r)
  BY <1>9 DEF PutFuture, TypeOK, KindsTyped, Goto, Inside, IsJob, Entries, JobFuture, Answered,
     rowVars, callVars, adapterVars, setupVars
<1> QED
  BY ONLY HandlerStep(r), <1>1, <1>2, <1>3, <1>4, <1>5, <1>6, <1>7, <1>8, <1>9 DEF HandlerStep

\* Every step of a runtime call keeps the types.
LEMMA RunTypes == ASSUME TypeInv, NEW r \in Requests, RunStep(r) PROVE TypeInv'
<1> USE DEF TypeInv, TypeOK, KindsTyped, SetRun, Calls, IsJob, Return, Ids,
        rowVars, requestVars, runnerVars, adapterVars, setupVars
<1>1. CASE StartJob(r)
  <2>1. queue' \in Seq(Requests)
    BY <1>1 DEF StartJob
  <2> QED
    BY <1>1, <2>1 DEF StartJob
<1>2. CASE EnsureSession(r)
  BY <1>2 DEF EnsureSession
<1>3. CASE OpenConversation(r)
  BY <1>3 DEF OpenConversation
<1>4. CASE SendPrompt(r)
  BY <1>4, OperationStatuses DEF SendPrompt
<1>5. CASE CancelRuntime(r)
  BY <1>5 DEF CancelRuntime, SettledStates
<1>6. CASE AnswerRuntime(r)
  BY <1>6 DEF AnswerRuntime
<1>7. CASE RuntimeRaises(r)
  BY <1>7 DEF RuntimeRaises
<1>8. CASE AppendResult(r)
  BY <1>8 DEF AppendResult, BindRow
<1>9. CASE SaveResult(r)
  BY <1>9 DEF SaveResult, SaveSession, Goto, RowStatuses, Statuses, Answered, Inside
<1>10. CASE RestoreStatus(r)
  BY <1>10 DEF RestoreStatus, SaveSession, Goto, Answered, Inside
<1>11. CASE PopEntry(r)
  BY <1>11 DEF PopEntry, Entries
<1>12. CASE CompleteFuture(r)
  BY <1>12 DEF CompleteFuture
<1> QED
  BY ONLY RunStep(r), <1>1, <1>2, <1>3, <1>4, <1>5, <1>6, <1>7, <1>8, <1>9, <1>10, <1>11, <1>12
     DEF RunStep

\* A restart keeps the types.
LEMMA RestartTypes == ASSUME TypeInv, Restart PROVE TypeInv'
<1> USE DEF TypeInv, TypeOK, Restart
<1>1. status' \in RowStatuses
  BY DEF RowStatuses, Statuses, SettledStates
<1>2. pc' \in [Requests -> Answered \cup {"idle"}] /\ run' \in [Requests -> Calls]
  BY DEF IsAnswered, Answered, Calls
<1>3. entry' \in Entries /\ queue' \in Seq(Requests) /\ held' \in SettledStates /\ binding' \in Ids
  BY DEF Entries, SettledStates, Ids
<1>4. restarts' \in 0..MaxRestarts
  BY ConstantsAssumption
<1>5. TypeOK'
  BY <1>1, <1>2, <1>3, <1>4 DEF Answered
<1>6. KindsTyped'
  BY DEF KindsTyped, IsAnswered, Answered, Inside, IsJob
<1> QED
  BY <1>5, <1>6

\* A step of the system keeps the types.
LEMMA StepTypes == TypeInv /\ [Next]_vars => TypeInv'
<1> SUFFICES ASSUME TypeInv, [Next]_vars PROVE TypeInv'
  OBVIOUS
<1>1. CASE UNCHANGED vars
  BY <1>1 DEF TypeInv, TypeOK, KindsTyped, IsJob, vars, rowVars, requestVars, callVars,
     runnerVars, adapterVars, setupVars
<1> QED
  BY <1>1, CreationTypes, SubmitTypes, HandlerTypes, RunTypes, RestartTypes DEF Next

\* Whatever the clients ask and in whatever order threads and restarts meet,
\* the variables keep their types: the status is one of the enumeration, and
\* _running holds nothing but a placeholder or a future of this session.
THEOREM TypesCorrect == Spec => []TypeOK
<1>1. TypeInv => TypeOK
  BY DEF TypeInv
<1> QED
  BY <1>1, InitTypes, StepTypes, PTL DEF Spec

-----------------------------------------------------------------------------
(* The runner *)

\* Why no entry is left behind: a placeholder in _running belongs to a handler
\* that has not looked at it again, and while it is there its own job has not
\* left; a future in _running is that of a job which has not left either.
EntryInv ==
  \A r \in Requests :
    /\ entry = Placeholder(r) => pc[r] \in {"placed", "submitted"}
    /\ entry = Placeholder(r) /\ pc[r] = "submitted" => JobLive(r)
    /\ entry = JobFuture(r) => JobLive(r)

RunnerInv == TypeInv /\ EntryInv

\* Entries of two requests differ, and so do the two kinds of entry.
LEMMA EntriesDiffer ==
  /\ \A q, r \in Requests : Placeholder(q) = Placeholder(r) => q = r
  /\ \A q, r \in Requests : JobFuture(q) = JobFuture(r) => q = r
  /\ \A q, r \in Requests : Placeholder(q) # JobFuture(r)
  /\ \A r \in Requests : Nothing # Placeholder(r) /\ Nothing # JobFuture(r)
BY ConstantsAssumption DEF Placeholder, JobFuture

\* A job that is already live stays live until its PopEntry, a handler that
\* put its placeholder goes on to replace it: without an entry changing hands
\* nothing else can break EntryInv.
LEMMA SameEntry ==
  ASSUME EntryInv, entry' = entry, kind' = kind,
         \A q \in Requests : pc'[q] = pc[q] \/ pc[q] \notin {"placed", "submitted"},
         \A q \in Requests : pc'[q] = "submitted" => pc[q] = "submitted",
         \A q \in Requests : JobLive(q) => JobLive(q)'
  PROVE  EntryInv'
BY DEF EntryInv, Placeholder, JobFuture

\* A request that begins has no entry.
LEMMA SubmitEntry ==
  ASSUME RunnerInv, NEW r \in Requests, NEW k, NEW o, Submit(r, k, o)
  PROVE  EntryInv'
<1> USE DEF RunnerInv, TypeInv, TypeOK, KindsTyped, Submit, Goto, callVars, runnerVars
<1>1. ~JobLive(r) /\ entry # Placeholder(r) /\ entry # JobFuture(r)
  BY DEF EntryInv, JobLive, IsJob
<1>2. entry' = entry /\ entry' # Placeholder(r)' /\ entry' # JobFuture(r)'
  BY <1>1 DEF Placeholder, JobFuture
<1>3. \A q \in Requests \ {r} : pc'[q] = pc[q] /\ (JobLive(q)' <=> JobLive(q))
  BY DEF JobLive, IsJob
<1> QED
  BY <1>2, <1>3 DEF EntryInv, Placeholder, JobFuture

\* The steps of a handler: it puts its placeholder, starts its job, and turns
\* the placeholder into the future only if both are still there.
LEMMA HandlerEntry ==
  ASSUME RunnerInv, NEW r \in Requests, HandlerStep(r)
  PROVE  EntryInv'
<1> USE DEF RunnerInv, TypeInv, TypeOK, Goto, callVars, runnerVars
<1>1. CASE EnterEarly(r) \/ EnterLate(r) \/ CheckRunner(r)
  BY <1>1, SameEntry
     DEF EnterEarly, EnterLate, CheckRunner, PrepareTransition, JobLive, IsJob
<1>2. CASE EnterSync(r) \/ EnterCancel(r) \/ EnterUnchecked(r)
  <2>1. ~IsJob(r) /\ pc[r] = "read" /\ entry' = entry /\ kind' = kind
    BY <1>2 DEF EnterSync, EnterCancel, EnterUnchecked, PrepareTransition, IsJob
  <2>2. pc' = [pc EXCEPT ![r] = pc'[r]] /\ pc'[r] # "submitted" /\ run' = [run EXCEPT ![r] = run'[r]]
    BY <1>2 DEF EnterSync, EnterCancel, EnterUnchecked, PrepareTransition, SetRun
  <2> QED
    BY <2>1, <2>2, SameEntry DEF JobLive, IsJob
<1>3. CASE PutPlaceholder(r)
  <2>1. \A q \in Requests : entry' = Placeholder(q) => q = r
    BY <1>3, EntriesDiffer DEF PutPlaceholder
  <2>2. \A q \in Requests : entry' # JobFuture(q)
    BY <1>3, EntriesDiffer DEF PutPlaceholder
  <2> QED
    BY <1>3, <2>1, <2>2 DEF EntryInv, PutPlaceholder, Placeholder, JobFuture
<1>4. CASE SubmitJob(r)
  <2>1. IsJob(r) /\ JobLive(r)'
    BY <1>4 DEF SubmitJob, SetRun, JobLive, IsJob, KindsTyped, Inside
  <2>2. \A q \in Requests : JobLive(q) => JobLive(q)'
    BY <1>4, <2>1 DEF SubmitJob, SetRun, JobLive, IsJob
  <2>3. entry' = entry /\ pc' = [pc EXCEPT ![r] = "submitted"]
    BY <1>4 DEF SubmitJob
  <2> QED
    BY <2>1, <2>2, <2>3 DEF EntryInv, Placeholder, JobFuture
<1>5. CASE PutFuture(r)
  <2>1. CASE entry # Placeholder(r)
    BY <1>5, <2>1 DEF PutFuture, EntryInv, JobLive, IsJob, Placeholder, JobFuture
  <2>2. CASE entry = Placeholder(r)
    <3>1. JobLive(r) /\ run[r] # "done"
      BY <1>5, <2>2 DEF PutFuture, EntryInv, JobLive
    <3>2. entry' = JobFuture(r) /\ kind' = kind /\ run' = run
      BY <1>5, <2>2, <3>1 DEF PutFuture
    <3>3. \A q \in Requests : entry' # Placeholder(q) /\ (entry' = JobFuture(q) => q = r)
      BY <3>2, EntriesDiffer
    <3>4. JobLive(r)'
      BY <3>1, <3>2 DEF JobLive, IsJob
    <3> QED
      BY <3>3, <3>4 DEF EntryInv, Placeholder, JobFuture
  <2> QED
    BY <2>1, <2>2
<1> QED
  BY ONLY HandlerStep(r), <1>1, <1>2, <1>3, <1>4, <1>5 DEF HandlerStep

\* The steps of a call: only the last one of a job touches _running, and it
\* leaves nothing there.
LEMMA RunEntry ==
  ASSUME RunnerInv, NEW r \in Requests, RunStep(r)
  PROVE  EntryInv'
<1> USE DEF RunnerInv, TypeInv, TypeOK
<1>1. CASE PopEntry(r)
  BY <1>1, EntriesDiffer DEF PopEntry, EntryInv, Placeholder, JobFuture
<1>2. CASE CompleteFuture(r)
  BY <1>2, SameEntry DEF CompleteFuture, SetRun, JobLive, IsJob, requestVars, runnerVars
<1>3. CASE SaveResult(r) \/ RestoreStatus(r)
  <2>1. pc' = [pc EXCEPT ![r] = pc'[r]] /\ (IsJob(r) => pc' = pc) /\ pc'[r] \in {pc[r], "finished", "error"}
    BY <1>3 DEF SaveResult, RestoreStatus, Goto
  <2>2. entry' = entry /\ kind' = kind /\ run' = [run EXCEPT ![r] = run'[r]] /\ run'[r] \in {"saved", "failed"}
    BY <1>3 DEF SaveResult, RestoreStatus, SetRun, runnerVars
  <2>3. pc[r] \in {"placed", "submitted"} => IsJob(r)
    BY DEF KindsTyped, Inside
  <2> QED
    BY <2>1, <2>2, <2>3, SameEntry DEF JobLive, IsJob
<1>4. CASE \/ StartJob(r) \/ EnsureSession(r) \/ OpenConversation(r) \/ SendPrompt(r)
           \/ CancelRuntime(r) \/ AnswerRuntime(r) \/ RuntimeRaises(r) \/ AppendResult(r)
  <2>1. entry' = entry /\ kind' = kind /\ pc' = pc
    BY <1>4 DEF StartJob, EnsureSession, OpenConversation, SendPrompt, CancelRuntime,
       AnswerRuntime, RuntimeRaises, AppendResult, requestVars, runnerVars
  <2>2. run' = [run EXCEPT ![r] = run'[r]] /\ run'[r] \notin {"none", "popped", "done", "lost"}
    BY <1>4 DEF StartJob, EnsureSession, OpenConversation, SendPrompt, CancelRuntime,
       AnswerRuntime, RuntimeRaises, AppendResult, SetRun, Return
  <2> QED
    BY <2>1, <2>2, SameEntry DEF JobLive, IsJob
<1> QED
  BY ONLY RunStep(r), <1>1, <1>2, <1>3, <1>4 DEF RunStep

\* A step of the system keeps the entry accounted for.
LEMMA StepEntry == RunnerInv /\ [Next]_vars => EntryInv'
<1> SUFFICES ASSUME RunnerInv, [Next]_vars PROVE EntryInv'
  OBVIOUS
<1>1. CASE CreationStep \/ UNCHANGED vars
  <2>1. entry' = entry /\ kind' = kind /\ pc' = pc /\ run' = run
    BY <1>1 DEF CreationStep, CreateRow, BuildBundle, CreateRuntime, CreateRuntimeFails,
       DeleteRow, vars, requestVars, callVars, runnerVars
  <2> QED
    BY <2>1, SameEntry DEF RunnerInv, JobLive, IsJob
<1>2. CASE Restart
  BY <1>2, EntriesDiffer DEF Restart, EntryInv, Placeholder, JobFuture
<1> QED
  BY <1>1, <1>2, SubmitEntry, HandlerEntry, RunEntry DEF RunnerInv, Next

\* _running never keeps an entry that no handler inside submit and no job is
\* about to take out, whatever requests meet: the 409 "A background operation
\* is already running" always ends with the operations that caused it.
THEOREM EntriesEnd == Spec => []EntryMeansWork
<1>1. Init => RunnerInv
  BY InitTypes, EntriesDiffer DEF Init, RunnerInv, EntryInv
<1>2. RunnerInv /\ [Next]_vars => RunnerInv'
  BY StepTypes, StepEntry DEF RunnerInv
<1>3. RunnerInv => EntryMeansWork
  <2> SUFFICES ASSUME RunnerInv, entry # Nothing
               PROVE  \E r \in Requests : \/ entry = Placeholder(r) /\ pc[r] \in {"placed", "submitted"}
                                          \/ entry = JobFuture(r) /\ JobLive(r)
    BY DEF EntryMeansWork
  <2>1. \E r \in Requests : entry = Placeholder(r) \/ entry = JobFuture(r)
    BY DEF RunnerInv, TypeInv, TypeOK, Entries, Placeholder, JobFuture
  <2> QED
    BY <2>1 DEF RunnerInv, EntryInv
<1> QED
  BY <1>1, <1>2, <1>3, PTL DEF Spec

-----------------------------------------------------------------------------
(* Clients that await their answers *)

\* A request that has not been made has no call.
FreshInv == \A r \in Requests : pc[r] = "idle" => run[r] = "none"

\* Why the check is enough for them: as long as a job is live, the entry of
\* _running is its own, and a handler that has passed the check finds no job.
\* (Two handlers at once could both pass it, and the job of one would then take
\* the entry of the other out.)
ApartInv ==
  habit # "anytime" =>
    /\ \A q, r \in Requests : ~IsAnswered(q) /\ ~IsAnswered(r) => q = r
    /\ \A r \in Requests : JobLive(r) => \/ entry = JobFuture(r)
                                         \/ entry = Placeholder(r) /\ pc[r] = "submitted"
    /\ \A r \in Requests : pc[r] \in {"free", "prepared", "placed"} =>
         \A q \in Requests : ~JobLive(q)
    /\ \A r \in Requests : pc[r] = "placed" => entry = Placeholder(r)

WaitingInv == RunnerInv /\ FreshInv /\ ApartInv

\* Calls are only made by requests that have been read.
LEMMA StepFresh == TypeInv /\ FreshInv /\ [Next]_vars => FreshInv'
<1> SUFFICES ASSUME TypeInv, FreshInv, [Next]_vars PROVE FreshInv'
  OBVIOUS
<1> USE DEF TypeInv, TypeOK, FreshInv
<1>1. CASE CreationStep \/ UNCHANGED vars
  <2>1. pc' = pc /\ run' = run
    BY <1>1 DEF CreationStep, CreateRow, BuildBundle, CreateRuntime, CreateRuntimeFails,
       DeleteRow, vars, requestVars, callVars
  <2> QED
    BY <2>1
<1>2. ASSUME NEW r \in Requests, NEW k, NEW o, Submit(r, k, o) PROVE FreshInv'
  BY <1>2 DEF Submit, Goto, callVars
<1>3. ASSUME NEW r \in Requests, HandlerStep(r) PROVE FreshInv'
  <2>1. pc[r] # "idle" /\ pc' = [pc EXCEPT ![r] = pc'[r]] /\ pc'[r] # "idle"
        /\ run' = [run EXCEPT ![r] = run'[r]]
    BY <1>3 DEF HandlerStep, EnterEarly, EnterLate, EnterSync, EnterCancel, EnterUnchecked,
       CheckRunner, PutPlaceholder, SubmitJob, PutFuture, PrepareTransition, Goto, SetRun, callVars
  <2> QED
    BY <2>1
<1>4. ASSUME NEW r \in Requests, RunStep(r) PROVE FreshInv'
  <2>1. run[r] # "none" /\ run' = [run EXCEPT ![r] = run'[r]]
    BY <1>4 DEF RunStep, StartJob, EnsureSession, OpenConversation, SendPrompt, CancelRuntime,
       AnswerRuntime, RuntimeRaises, AppendResult, SaveResult, RestoreStatus, PopEntry,
       CompleteFuture, SetRun, Return
  <2>2. pc' = [pc EXCEPT ![r] = pc'[r]] /\ pc'[r] \in {pc[r], "finished", "error"}
    BY <1>4 DEF RunStep, StartJob, EnsureSession, OpenConversation, SendPrompt, CancelRuntime,
       AnswerRuntime, RuntimeRaises, AppendResult, SaveResult, RestoreStatus, PopEntry,
       CompleteFuture, Goto, requestVars
  <2> QED
    BY <2>1, <2>2
<1>5. CASE Restart
  BY <1>5 DEF Restart, IsAnswered, CallOver
<1> QED
  BY <1>1, <1>2, <1>3, <1>4, <1>5 DEF Next

\* Steps that move only a handler within its request, and no job, change nothing.
LEMMA SameJobs ==
  ASSUME ApartInv, habit' = habit, entry' = entry,
         \A q \in Requests : JobLive(q)' <=> JobLive(q),
         \A q \in Requests : IsAnswered(q) => IsAnswered(q)',
         \A q \in Requests : pc'[q] = pc[q] \/ (pc[q] # "submitted" /\ pc'[q] # "placed"
                                /\ (pc'[q] \in {"free", "prepared"} =>
                                      \A p \in Requests : ~JobLive(p)))
  PROVE  ApartInv'
BY DEF ApartInv, Placeholder, JobFuture

\* A request begins when no other is unanswered.
LEMMA SubmitApart ==
  ASSUME WaitingInv, NEW r \in Requests, NEW k, NEW o, Submit(r, k, o)
  PROVE  ApartInv'
<1> USE DEF WaitingInv, RunnerInv, TypeInv, TypeOK, FreshInv, KindsTyped, Submit, Goto, callVars,
        runnerVars, setupVars
<1>1. \A q \in Requests : JobLive(q)' <=> JobLive(q)
  BY DEF JobLive, IsJob
<1>2. habit # "anytime" => \A q \in Requests : IsAnswered(q)
  BY DEF Waits, Quiet, Habits
<1>3. \A q \in Requests \ {r} : pc'[q] = pc[q]
  OBVIOUS
<1>4. habit' = habit /\ entry' = entry /\ pc'[r] = "read"
  OBVIOUS
<1> QED
  BY <1>1, <1>2, <1>3, <1>4 DEF ApartInv, IsAnswered, Placeholder, JobFuture, Answered

\* The steps of a handler: a job is only submitted when no other is live.
LEMMA HandlerApart ==
  ASSUME WaitingInv, NEW r \in Requests, HandlerStep(r)
  PROVE  ApartInv'
<1> USE DEF WaitingInv, RunnerInv, TypeInv, TypeOK, Goto, callVars, runnerVars, setupVars
<1>1. CASE EnterEarly(r) \/ EnterLate(r)
  <2>1. /\ habit' = habit /\ entry' = entry /\ run' = run /\ kind' = kind
        /\ pc' = [pc EXCEPT ![r] = pc'[r]] /\ ~IsAnswered(r) /\ pc[r] \in {"read", "free"}
        /\ pc'[r] \in {"entered", "prepared", "rejected"} /\ (pc'[r] = "prepared" => pc[r] = "free")
    BY <1>1 DEF EnterEarly, EnterLate, PrepareTransition, IsAnswered, Answered
  <2>2. CASE habit # "anytime"
    BY <2>1, <2>2, SameJobs DEF ApartInv, JobLive, IsJob, IsAnswered
  <2> QED
    BY <2>1, <2>2 DEF ApartInv
<1>2. CASE EnterSync(r) \/ EnterCancel(r) \/ EnterUnchecked(r)
  <2>1. /\ habit' = habit /\ entry' = entry /\ kind' = kind /\ ~IsJob(r)
        /\ pc' = [pc EXCEPT ![r] = pc'[r]] /\ ~IsAnswered(r) /\ pc[r] = "read"
        /\ pc'[r] \in {"calling", "rejected"} /\ run' = [run EXCEPT ![r] = run'[r]]
    BY <1>2 DEF EnterSync, EnterCancel, EnterUnchecked, PrepareTransition, SetRun, IsAnswered,
       Answered, IsJob
  <2> QED
    BY <2>1, SameJobs DEF JobLive, IsJob, IsAnswered
<1>3. CASE CheckRunner(r)
  <2>1. /\ habit' = habit /\ entry' = entry /\ kind' = kind /\ run' = run
        /\ pc' = [pc EXCEPT ![r] = pc'[r]] /\ ~IsAnswered(r) /\ pc[r] \in {"read", "entered"}
        /\ pc'[r] \in {"free", "prepared", "conflict"} /\ (IsRunning => pc'[r] = "conflict")
    BY <1>3 DEF CheckRunner, IsAnswered, Answered
  <2>2. CASE habit # "anytime"
    <3>1. ~IsRunning => \A q \in Requests : ~JobLive(q)
      BY <2>2 DEF ApartInv, IsRunning, JobLive
    <3> QED
      BY <2>1, <3>1, SameJobs DEF JobLive, IsJob, IsAnswered
  <2> QED
    BY <2>1, <2>2 DEF ApartInv
<1>4. CASE PutPlaceholder(r)
  <2>1. /\ habit' = habit /\ entry' = Placeholder(r) /\ kind' = kind /\ run' = run
        /\ pc' = [pc EXCEPT ![r] = "placed"] /\ ~IsAnswered(r) /\ pc[r] = "prepared"
    BY <1>4 DEF PutPlaceholder, IsAnswered, Answered
  <2>2. CASE habit # "anytime"
    <3>1. \A q \in Requests : ~JobLive(q) /\ ~JobLive(q)'
      BY <2>1, <2>2 DEF ApartInv, JobLive, IsJob
    <3>2. \A q \in Requests \ {r} : pc'[q] = pc[q] /\ IsAnswered(q)
      BY <2>1, <2>2 DEF ApartInv
    <3> QED
      BY <2>1, <3>1, <3>2 DEF ApartInv, IsAnswered, Answered, Placeholder
  <2> QED
    BY <2>1, <2>2 DEF ApartInv
<1>5. CASE SubmitJob(r)
  <2>1. /\ habit' = habit /\ entry' = entry /\ kind' = kind /\ run' = [run EXCEPT ![r] = "queued"]
        /\ pc' = [pc EXCEPT ![r] = "submitted"] /\ ~IsAnswered(r) /\ pc[r] = "placed"
    BY <1>5 DEF SubmitJob, SetRun, IsAnswered, Answered
  <2>2. CASE habit # "anytime"
    <3>1. entry = Placeholder(r) /\ \A q \in Requests \ {r} : ~JobLive(q)'
      BY <2>1, <2>2 DEF ApartInv, JobLive, IsJob
    <3>2. \A q \in Requests \ {r} : pc'[q] = pc[q] /\ IsAnswered(q)
      BY <2>1, <2>2 DEF ApartInv
    <3> QED
      BY <2>1, <3>1, <3>2 DEF ApartInv, IsAnswered, Answered, Placeholder
  <2> QED
    BY <2>1, <2>2 DEF ApartInv
<1>6. CASE PutFuture(r)
  <2>1. /\ habit' = habit /\ kind' = kind /\ run' = run
        /\ pc' = [pc EXCEPT ![r] = "accepted"] /\ ~IsAnswered(r) /\ pc[r] = "submitted"
    BY <1>6 DEF PutFuture, IsAnswered, Answered
  <2>2. entry' = entry \/ (entry = Placeholder(r) /\ JobLive(r) /\ entry' = JobFuture(r))
    BY <1>6 DEF PutFuture, EntryInv, JobLive
  <2>3. entry' = entry => entry # Placeholder(r)
    BY <1>6, EntriesDiffer DEF PutFuture
  <2> QED
    BY <2>1, <2>2, <2>3, EntriesDiffer
       DEF ApartInv, JobLive, IsJob, IsAnswered, Answered, Placeholder, JobFuture
<1> QED
  BY ONLY HandlerStep(r), <1>1, <1>2, <1>3, <1>4, <1>5, <1>6 DEF HandlerStep

\* The steps of a call: a job that ends is the one whose entry is there.
LEMMA RunApart ==
  ASSUME WaitingInv, NEW r \in Requests, RunStep(r)
  PROVE  ApartInv'
<1> USE DEF WaitingInv, RunnerInv, TypeInv, TypeOK
<1>1. CASE PopEntry(r)
  <2>1. /\ habit' = habit /\ kind' = kind /\ pc' = pc /\ JobLive(r)
        /\ run' = [run EXCEPT ![r] = "popped"]
    BY <1>1 DEF PopEntry, SetRun, JobLive, requestVars, setupVars
  <2>2. CASE habit # "anytime"
    <3>1. \A q \in Requests : ~JobLive(q)'
      BY <2>1, <2>2, EntriesDiffer DEF ApartInv, JobLive, IsJob
    <3> QED
      BY <2>1, <2>2, <3>1 DEF ApartInv, IsAnswered
  <2> QED
    BY <2>1, <2>2 DEF ApartInv
<1>2. CASE CompleteFuture(r)
  BY <1>2, SameJobs
     DEF CompleteFuture, SetRun, JobLive, IsJob, IsAnswered, requestVars, runnerVars, setupVars
<1>3. CASE SaveResult(r) \/ RestoreStatus(r)
  <2>1. /\ (IsJob(r) => pc' = pc) /\ pc' = [pc EXCEPT ![r] = pc'[r]]
        /\ pc'[r] \in {pc[r], "finished", "error"} /\ (pc[r] = "submitted" => IsJob(r))
    BY <1>3 DEF SaveResult, RestoreStatus, Goto, KindsTyped, Inside
  <2>2. /\ habit' = habit /\ entry' = entry /\ kind' = kind
        /\ run' = [run EXCEPT ![r] = run'[r]] /\ run'[r] \in {"saved", "failed"}
        /\ run[r] \in {"appended", "raised"}
    BY <1>3 DEF SaveResult, RestoreStatus, SetRun, runnerVars, setupVars
  <2> QED
    BY <2>1, <2>2, SameJobs DEF JobLive, IsJob, IsAnswered, Answered
<1>4. CASE \/ StartJob(r) \/ EnsureSession(r) \/ OpenConversation(r) \/ SendPrompt(r)
           \/ CancelRuntime(r) \/ AnswerRuntime(r) \/ RuntimeRaises(r) \/ AppendResult(r)
  <2>1. entry' = entry /\ kind' = kind /\ pc' = pc /\ habit' = habit
    BY <1>4 DEF StartJob, EnsureSession, OpenConversation, SendPrompt, CancelRuntime,
       AnswerRuntime, RuntimeRaises, AppendResult, requestVars, runnerVars, setupVars
  <2>2. /\ run' = [run EXCEPT ![r] = run'[r]] /\ run'[r] \notin {"none", "popped", "done", "lost"}
        /\ run[r] \notin {"none", "popped", "done", "lost"}
    BY <1>4 DEF StartJob, EnsureSession, OpenConversation, SendPrompt, CancelRuntime,
       AnswerRuntime, RuntimeRaises, AppendResult, SetRun, Return
  <2> QED
    BY <2>1, <2>2, SameJobs DEF JobLive, IsJob, IsAnswered
<1> QED
  BY ONLY RunStep(r), <1>1, <1>2, <1>3, <1>4 DEF RunStep

\* A step of the system keeps the jobs of waiting clients apart.
LEMMA StepApart == WaitingInv /\ [Next]_vars => ApartInv'
<1> SUFFICES ASSUME WaitingInv, [Next]_vars PROVE ApartInv'
  OBVIOUS
<1>1. CASE CreationStep \/ UNCHANGED vars
  <2>1. entry' = entry /\ kind' = kind /\ pc' = pc /\ run' = run /\ habit' = habit
    BY <1>1 DEF CreationStep, CreateRow, BuildBundle, CreateRuntime, CreateRuntimeFails,
       DeleteRow, vars, requestVars, callVars, runnerVars, setupVars
  <2> QED
    BY <2>1, SameJobs DEF WaitingInv, JobLive, IsJob, IsAnswered
<1>2. CASE Restart
  <2>1. \A q \in Requests : IsAnswered(q)' /\ ~JobLive(q)' /\ pc'[q] \notin {"free", "prepared", "placed"}
    BY <1>2 DEF Restart, IsAnswered, Answered, JobLive, IsJob, CallOver
  <2> QED
    BY <2>1 DEF ApartInv
<1> QED
  BY <1>1, <1>2, SubmitApart, HandlerApart, RunApart DEF Next

\* For clients that await each answer before the next request, the runner has
\* at most one job of the session at a time, even though the check and the entry
\* that it looks for are separate critical sections of the runner.
THEOREM JobsStayApart == Spec => []JobsApart
<1>1. Init => WaitingInv
  BY InitTypes, EntriesDiffer
     DEF Init, WaitingInv, RunnerInv, EntryInv, FreshInv, ApartInv, JobLive, IsJob, IsAnswered
<1>2. WaitingInv /\ [Next]_vars => WaitingInv'
  BY StepTypes, StepEntry, StepFresh, StepApart DEF WaitingInv, RunnerInv
<1>3. WaitingInv => JobsApart
  BY EntriesDiffer DEF WaitingInv, ApartInv, JobsApart
<1> QED
  BY <1>1, <1>2, <1>3, PTL DEF Spec

-----------------------------------------------------------------------------
(* Where a request is, and what a step of it leaves alone *)

\* A request is over when it is answered and its call, or its job, has ended.
Over(r) == IsAnswered(r) /\ CallOver(r)

\* The runtime call of a request of each kind, before its result is stored.
OwnRuns(k) ==
  CASE k \in Prompts -> {"ensure", "create", "send"}
    [] k \in {"cancel", "ws_cancel"} -> {"cancel"}
    [] k = "answer" -> {"answer"}
    [] k = "none" -> {}
Storing == {"returned", "appended", "raised"}

\* How far the handler of a request and its call are, together.
InStage(r) ==
  \/ kind[r] = "none" /\ pc[r] = "idle" /\ run[r] = "none"
  \/ /\ IsJob(r)
     /\ \/ /\ pc[r] \in {"read", "entered", "free", "prepared", "placed", "conflict",
                         "rejected", "aborted"}
           /\ run[r] = "none"
        \/ /\ pc[r] \in {"submitted", "accepted"}
           /\ run[r] \in OwnRuns(kind[r]) \cup Storing
                           \cup {"queued", "saved", "failed", "popped", "done"}
        \/ pc[r] \in {"accepted", "aborted"} /\ run[r] \in {"lost", "done"}
  \/ /\ kind[r] \in AllKinds \ {"background"}
     /\ \/ pc[r] \in {"read", "rejected", "aborted"} /\ run[r] = "none"
        \/ pc[r] = "calling" /\ run[r] \in OwnRuns(kind[r]) \cup Storing
        \/ pc[r] = "finished" /\ run[r] = "saved"
        \/ pc[r] = "error" /\ run[r] = "failed"
        \/ pc[r] = "aborted" /\ run[r] = "lost"

Staged == \A r \in Requests : InStage(r)

\* A step of request r, of its handler or of its call.
Acts(r) ==
  /\ UNCHANGED <<habit, creation, restarts, bundle, kind, op, prev>>
  /\ ~Over(r)
  /\ \A q \in Requests \ {r} : /\ pc'[q] = pc[q] /\ run'[q] = run[q] /\ view'[q] = view[q]
                               /\ conv'[q] = conv[q] /\ result'[q] = result[q]

LEMMA StepActs ==
  ASSUME TypeInv, NEW r \in Requests, HandlerStep(r) \/ RunStep(r)
  PROVE  Acts(r)
<1> USE DEF TypeInv, TypeOK, Over, IsAnswered, Answered, CallOver, Goto, SetRun, Return, IsJob,
            rowVars, requestVars, callVars, runnerVars, adapterVars, setupVars
<1>1. CASE EnterEarly(r) \/ EnterLate(r) \/ EnterSync(r) \/ EnterCancel(r)
  BY <1>1 DEF EnterEarly, EnterLate, EnterSync, EnterCancel, PrepareTransition, Acts
<1>2. CASE EnterUnchecked(r) \/ CheckRunner(r) \/ PutPlaceholder(r) \/ SubmitJob(r) \/ PutFuture(r)
  BY <1>2 DEF EnterUnchecked, CheckRunner, PutPlaceholder, SubmitJob, PutFuture, Acts
<1>3. CASE StartJob(r) \/ EnsureSession(r) \/ OpenConversation(r) \/ SendPrompt(r)
  BY <1>3 DEF StartJob, EnsureSession, OpenConversation, SendPrompt, Acts
<1>4. CASE CancelRuntime(r) \/ AnswerRuntime(r) \/ RuntimeRaises(r) \/ AppendResult(r)
  BY <1>4 DEF CancelRuntime, AnswerRuntime, RuntimeRaises, AppendResult, Acts
<1>5. CASE SaveResult(r) \/ RestoreStatus(r) \/ PopEntry(r) \/ CompleteFuture(r)
  BY <1>5 DEF SaveResult, RestoreStatus, PopEntry, CompleteFuture, Acts
<1> QED
  BY <1>1, <1>2, <1>3, <1>4, <1>5 DEF HandlerStep, RunStep

\* A step that begins a request, and one that ends all of them.
LEMMA SubmitEffect ==
  ASSUME TypeInv, NEW r \in Requests, NEW k \in AllKinds,
         NEW o \in Ops \cup {"none"}, Submit(r, k, o)
  PROVE  /\ pc[r] = "idle" /\ pc'[r] = "read" /\ kind'[r] = k /\ op'[r] = o
         /\ view'[r] = [status |-> status, stored |-> stored]
         /\ prev'[r] = IF o = "approve_outline" THEN "await_outline_approval" ELSE status
         /\ \A q \in Requests \ {r} : /\ pc'[q] = pc[q] /\ kind'[q] = kind[q] /\ op'[q] = op[q]
                                      /\ view'[q] = view[q] /\ prev'[q] = prev[q]
         /\ UNCHANGED <<rowVars, callVars, runnerVars, adapterVars, setupVars>>
BY DEF Submit, Goto, TypeInv, TypeOK

LEMMA RestartEffect ==
  ASSUME TypeInv, Restart
  PROVE  /\ \A r \in Requests : /\ pc'[r] = IF IsAnswered(r) THEN pc[r] ELSE "aborted"
                                /\ run'[r] = IF CallOver(r) THEN run[r] ELSE "lost"
                                /\ Over(r)'
         /\ UNCHANGED <<habit, stored, kind, op, view, prev, conv, result>>
         /\ status' = IF status \in RunningStates THEN "failed" ELSE status
         /\ bundle' = FALSE /\ binding' = Nothing /\ held' = "idle" /\ conversations' = {}
         /\ restarts' # 0
         /\ creation' = IF CreationOver \/ creation = "none" THEN creation ELSE "aborted"
BY DEF Restart, TypeInv, TypeOK, Over, IsAnswered, Answered, CallOver, IsJob

LEMMA StagedStep == TypeInv /\ Staged /\ [Next]_vars => Staged'
<1> SUFFICES ASSUME TypeInv, Staged, [Next]_vars PROVE Staged'
  OBVIOUS
<1>1. CASE CreationStep \/ UNCHANGED vars
  BY <1>1 DEF CreationStep, CreateRow, BuildBundle, CreateRuntime, CreateRuntimeFails, DeleteRow,
              vars, requestVars, callVars, Staged, InStage, IsJob
<1>2. ASSUME NEW r \in Requests, NEW k \in AllKinds, NEW o \in Ops \cup {"none"},
             Submit(r, k, o)
      PROVE  Staged'
  <2>1. run' = run /\ run[r] = "none"
    BY <1>2, SubmitEffect DEF callVars, Staged, InStage
  <2> QED
    BY <1>2, <2>1, SubmitEffect DEF Staged, InStage, IsJob, AllKinds, Prompts
<1>3. ASSUME NEW r \in Requests, HandlerStep(r) \/ RunStep(r) PROVE Staged'
  <2>1. Acts(r) /\ InStage(r)
    BY <1>3, StepActs DEF Staged
  <2>2. SUFFICES InStage(r)'
    BY <2>1 DEF Acts, Staged, InStage, IsJob
  <2> USE <2>1 DEF InStage, IsJob, OwnRuns, Storing, AllKinds, Prompts, Goto, SetRun, Return,
                   TypeInv, TypeOK, requestVars, callVars
  <2>3. CASE EnterEarly(r) \/ EnterLate(r) \/ EnterSync(r)
    BY <2>3 DEF EnterEarly, EnterLate, EnterSync, PrepareTransition
  <2>4. CASE EnterCancel(r) \/ EnterUnchecked(r)
    BY <2>4 DEF EnterCancel, EnterUnchecked, PrepareTransition
  <2>5. CASE CheckRunner(r) \/ PutPlaceholder(r) \/ SubmitJob(r) \/ PutFuture(r)
    BY <2>5 DEF CheckRunner, PutPlaceholder, SubmitJob, PutFuture
  <2>6. CASE StartJob(r) \/ EnsureSession(r) \/ OpenConversation(r) \/ SendPrompt(r)
    BY <2>6 DEF StartJob, EnsureSession, OpenConversation, SendPrompt
  <2>7. CASE CancelRuntime(r) \/ AnswerRuntime(r) \/ RuntimeRaises(r) \/ AppendResult(r)
    BY <2>7 DEF CancelRuntime, AnswerRuntime, RuntimeRaises, AppendResult
  <2>8. CASE SaveResult(r) \/ RestoreStatus(r) \/ PopEntry(r) \/ CompleteFuture(r)
    BY <2>8 DEF SaveResult, RestoreStatus, PopEntry, CompleteFuture
  <2> QED
    BY <1>3, <2>3, <2>4, <2>5, <2>6, <2>7, <2>8 DEF HandlerStep, RunStep
<1>4. CASE Restart
  BY <1>4, RestartEffect
  DEF Staged, InStage, IsAnswered, Answered, CallOver, IsJob, OwnRuns, Storing, AllKinds, Prompts
<1> QED
  BY <1>1, <1>2, <1>3, <1>4 DEF Next

-----------------------------------------------------------------------------
(* The creation of the session *)

\* What CreationIsWhole needs to be inductive: nobody writes before the creation
\* has been answered, and every status that is written was one of the session.
CreationInv ==
  /\ creation \in {"saved", "built", "undo", "created"} => status # "absent"
  /\ creation = "created" /\ restarts = 0 => bundle
  /\ bundle => creation = "created"
  /\ \A r \in Requests : pc[r] # "idle" => prev[r] # "absent"
  /\ habit # "anytime" =>
       /\ creation \notin {"created", "error", "aborted"} => \A r \in Requests : pc[r] = "idle"
       /\ creation \in {"none", "failed"} => status = "absent"
       /\ creation \in {"saved", "built", "undo"} => status = "idle"
       /\ \A r \in Requests : pc[r] # "idle" => status # "absent"

\* A step of a request leaves the status, or writes one that is there.
LEMMA StatusWritten ==
  ASSUME TypeInv, CreationInv, NEW r \in Requests, Acts(r), InStage(r), HandlerStep(r) \/ RunStep(r)
  PROVE  status' = status \/ status' # "absent"
<1>1. prev[r] # "absent" /\ pc[r] # "idle"
  BY DEF CreationInv, Acts, InStage, Over, IsAnswered, CallOver
<1>2. RunningStateOf[op[r]] # "absent" \/ op[r] \notin Operations
  BY OperationStatuses DEF RunningStates
<1>3. result[r].next # "absent"
  BY DEF TypeInv, TypeOK, SettledStates
<1>4. pc[r] = "free" \/ kind[r] \in Prompts => op[r] \in Operations
  BY DEF TypeInv, KindsTyped, Inside, IsJob, Prompts
<1>5. CASE EnterEarly(r) \/ EnterLate(r) \/ EnterSync(r) \/ EnterCancel(r)
  BY <1>2, <1>4, <1>5
  DEF EnterEarly, EnterLate, EnterSync, EnterCancel, PrepareTransition, SaveSession, IsJob, Prompts,
      rowVars
<1>6. CASE SaveResult(r) \/ RestoreStatus(r)
  BY <1>1, <1>3, <1>6 DEF SaveResult, RestoreStatus, SaveSession, rowVars
<1> QED
  BY <1>5, <1>6
  DEF HandlerStep, RunStep, EnterUnchecked, CheckRunner, PutPlaceholder, SubmitJob, PutFuture,
      StartJob, EnsureSession, OpenConversation, SendPrompt, CancelRuntime, AnswerRuntime,
      RuntimeRaises, AppendResult, BindRow, PopEntry, CompleteFuture, rowVars

LEMMA CreationInvStep == TypeInv /\ Staged /\ CreationInv /\ [Next]_vars => CreationInv'
<1> SUFFICES ASSUME TypeInv, Staged, CreationInv, [Next]_vars PROVE CreationInv'
  OBVIOUS
<1>1. CASE CreationStep
  BY <1>1
  DEF CreationStep, CreateRow, BuildBundle, CreateRuntime, CreateRuntimeFails, DeleteRow,
      CreationInv, rowVars, requestVars, adapterVars
<1>2. ASSUME NEW r \in Requests, NEW k \in AllKinds, NEW o \in Ops \cup {"none"},
             Submit(r, k, o)
      PROVE  CreationInv'
  <2>1. status # "absent" /\ (habit # "anytime" => CreationOver)
    BY <1>2 DEF Submit, Waits, Quiet, Habits, TypeInv, TypeOK
  <2> QED
    BY <1>2, <2>1, SubmitEffect DEF CreationInv, CreationOver, rowVars, adapterVars, setupVars
<1>3. ASSUME NEW r \in Requests, HandlerStep(r) \/ RunStep(r) PROVE CreationInv'
  <2>1. Acts(r) /\ InStage(r) /\ pc[r] # "idle"
    BY <1>3, StepActs DEF Staged, Acts, InStage, Over, IsAnswered, CallOver
  <2>2. status' = status \/ status' # "absent"
    BY <1>3, <2>1, StatusWritten
  <2> QED
    BY <2>1, <2>2 DEF Acts, CreationInv
<1>4. CASE Restart
  BY <1>4, RestartEffect DEF CreationInv, CreationOver, IsAnswered, Answered, RunningStates
<1>5. CASE UNCHANGED vars
  BY <1>5 DEF vars, rowVars, requestVars, adapterVars, setupVars, CreationInv
<1> QED
  BY <1>1, <1>2, <1>3, <1>4, <1>5 DEF Next

LEMMA CreationInvariant == Spec => [](TypeInv /\ Staged /\ CreationInv)
<1>1. Init => TypeInv /\ Staged /\ CreationInv
  BY InitTypes DEF Init, Staged, InStage, CreationInv
<1> QED
  BY <1>1, StepTypes, StagedStep, CreationInvStep, PTL DEF Spec

\* A creation that is answered with a session has left its row and its bundle,
\* until a restart; one that is answered with an error leaves no row, unless a
\* client wrote to the session before it was told of it.
THEOREM CreationsAreWhole == Spec => []CreationIsWhole
<1>1. TypeInv /\ Staged /\ CreationInv => CreationIsWhole
  BY DEF CreationInv, CreationIsWhole
<1> QED
  BY <1>1, CreationInvariant, PTL


-----------------------------------------------------------------------------
(* Clients that wait until everything is over *)

\* At most one request is not over.
OneByOne == habit = "finished" => \A q, r \in Requests : ~Over(q) /\ ~Over(r) => q = r

LEMMA OneByOneStep == TypeInv /\ OneByOne /\ [Next]_vars => OneByOne'
<1> SUFFICES ASSUME TypeInv, OneByOne, [Next]_vars PROVE OneByOne'
  OBVIOUS
<1>1. CASE CreationStep \/ UNCHANGED vars
  BY <1>1
  DEF CreationStep, CreateRow, BuildBundle, CreateRuntime, CreateRuntimeFails, DeleteRow,
      vars, requestVars, callVars, setupVars, OneByOne, Over, IsAnswered, CallOver, IsJob
<1>2. ASSUME NEW r \in Requests, NEW k \in AllKinds, NEW o \in Ops \cup {"none"},
             Submit(r, k, o)
      PROVE  OneByOne'
  <2>1. habit = "finished" => \A q \in Requests : Over(q)
    BY <1>2 DEF Submit, Waits, Quiet, Over
  <2>2. habit' = habit /\ \A q \in Requests \ {r} : Over(q)' <=> Over(q)
    BY <1>2, SubmitEffect DEF setupVars, callVars, Over, IsAnswered, CallOver, IsJob
  <2> QED
    BY <2>1, <2>2 DEF OneByOne
<1>3. ASSUME NEW r \in Requests, HandlerStep(r) \/ RunStep(r) PROVE OneByOne'
  <2>1. Acts(r)
    BY <1>3, StepActs
  <2>2. habit' = habit /\ ~Over(r) /\ \A q \in Requests \ {r} : Over(q)' <=> Over(q)
    BY <2>1 DEF Acts, Over, IsAnswered, CallOver, IsJob
  <2> QED
    BY <2>2 DEF OneByOne
<1>4. CASE Restart
  BY <1>4, RestartEffect DEF OneByOne
<1> QED
  BY <1>1, <1>2, <1>3, <1>4 DEF Next

\* A request that is over neither shows nor is in the middle of anything.
LEMMA OverFacts ==
  ASSUME NEW r \in Requests, InStage(r), Over(r)
  PROVE  /\ ~Shows(r) /\ pc[r] \notin Inside \cup {"read", "calling"}
         /\ run[r] \in {"none", "saved", "failed", "done", "lost"}
BY DEF InStage, Over, IsAnswered, Answered, CallOver, IsJob, Shows, Inside, OwnRuns, Storing,
       AllKinds, Prompts

\* A running status always belongs to a request that is under way, which goes
\* back to a status that is not running; and a request that has read the row is
\* the only one, so what it has read is what is there.
StatusInv ==
  habit = "finished" =>
    /\ \A r \in Requests : ~Over(r) => prev[r] \notin RunningStates
    /\ \A r \in Requests : pc[r] \in {"read", "free"} =>
         /\ view[r].status = status
         /\ prev[r] = IF op[r] = "approve_outline" THEN "await_outline_approval" ELSE status
    /\ status \in RunningStates => \E r \in Requests : Shows(r)

FinishedInv == RunnerInv /\ Staged /\ CreationInv /\ OneByOne /\ StatusInv

\* The runner turns no request of a client away that waits.
LEMMA NoConflict ==
  ASSUME RunnerInv, Staged, OneByOne, habit = "finished", NEW r \in Requests, CheckRunner(r)
  PROVE  ~IsRunning
<1>1. \A q \in Requests \ {r} : Over(q)
  BY StepActs DEF RunnerInv, HandlerStep, Acts, OneByOne
<1>2. run[r] = "none" /\ pc[r] \in {"read", "entered"}
  BY DEF CheckRunner, Staged, InStage, IsJob
<1>3. \A q \in Requests : ~JobLive(q) /\ pc[q] \notin {"placed", "submitted"}
  BY <1>1, <1>2 DEF Over, IsAnswered, Answered, CallOver, JobLive
<1> QED
  BY <1>3 DEF RunnerInv, EntryInv, IsRunning

\* What a step of a waiting client's request does to the row and to whether the
\* request shows: it enters, it leaves, or it changes neither.
Enters(r, next) ==
  /\ pc[r] \in {"read", "free"} /\ ~Shows(r) /\ Shows(r)'
  /\ MayMove(view[r].status, next) /\ status' = next
  /\ pc'[r] \notin {"read", "free"}

\* The status of an operation, or of a cancellation.
EnteredBy(r) == IF kind[r] = "cancel" THEN "cancelled" ELSE RunningStateOf[op[r]]

LEMMA ShowingStep ==
  ASSUME FinishedInv, habit = "finished", NEW r \in Requests, HandlerStep(r) \/ RunStep(r)
  PROVE  \/ /\ kind[r] \in Prompts \cup {"cancel"} /\ (kind[r] # "cancel" => op[r] \in Operations)
            /\ Enters(r, EnteredBy(r))
         \/ /\ Shows(r) /\ ~Shows(r)'
            /\ pc'[r] \notin {"read", "free"}
            /\ \/ SaveResult(r) /\ status' = result[r].next
               \/ RestoreStatus(r) /\ status' = prev[r]
         \/ /\ ~Shows(r) /\ ~Shows(r)' /\ pc'[r] \notin {"read", "free"}
            /\ SaveResult(r) /\ kind[r] \in {"ws_cancel", "answer"} /\ status' = result[r].next
         \/ /\ Shows(r)' <=> Shows(r)
            /\ status' = status
            /\ pc'[r] \in {"read", "free"} => pc[r] \in {"read", "free"} /\ view'[r] = view[r]
<1> USE DEF Shows, InStage, FinishedInv, RunnerInv, Staged
<1>1. /\ InStage(r) /\ kind' = kind /\ ~Over(r)
      /\ pc \in [Requests -> Answered \cup {"idle", "read", "entered", "free", "prepared",
                                            "placed", "submitted", "calling"}]
      /\ run \in [Requests -> Calls] /\ view \in [Requests -> [status : RowStatuses, stored : Ids]]
  BY StepActs DEF Acts, TypeInv, TypeOK
<1>2. CASE EnterEarly(r)
  BY <1>1, <1>2, OperationStatuses
  DEF EnterEarly, PrepareTransition, SaveSession, Goto, Enters, EnteredBy, EarlyOperations,
      Operations, Actions, IsJob, Prompts, rowVars, callVars
<1>3. CASE EnterLate(r)
  <2>1. op[r] \in Operations
    BY <1>3 DEF EnterLate, TypeInv, KindsTyped, Inside, IsJob, Prompts
  <2> QED
    BY <1>1, <1>3, <2>1
    DEF EnterLate, PrepareTransition, SaveSession, Goto, Enters, EnteredBy, IsJob, Prompts,
        AllKinds, rowVars, callVars
<1>4. CASE EnterSync(r)
  <2>1. op[r] \in Operations
    BY <1>4 DEF EnterSync, TypeInv, KindsTyped
  <2> QED
    BY <1>1, <1>4, <2>1
    DEF EnterSync, PrepareTransition, SaveSession, Goto, SetRun, Enters, EnteredBy, IsJob, Prompts,
        AllKinds, rowVars
<1>5. CASE EnterCancel(r)
  BY <1>1, <1>5
  DEF EnterCancel, PrepareTransition, SaveSession, Goto, SetRun, Enters, EnteredBy, IsJob, Prompts,
      AllKinds, rowVars
<1>6. CASE EnterUnchecked(r)
  BY <1>1, <1>6 DEF EnterUnchecked, Goto, SetRun, rowVars, Prompts
<1>7. CASE CheckRunner(r)
  BY <1>1, <1>7, NoConflict DEF CheckRunner, Goto, rowVars, callVars, Prompts, AllKinds, IsJob
<1>8. CASE PutPlaceholder(r) \/ SubmitJob(r) \/ PutFuture(r)
  BY <1>1, <1>8
  DEF PutPlaceholder, SubmitJob, PutFuture, Goto, SetRun, rowVars, callVars, Prompts, AllKinds, IsJob
<1>9. CASE StartJob(r) \/ EnsureSession(r) \/ OpenConversation(r) \/ SendPrompt(r)
  BY <1>1, <1>9
  DEF StartJob, EnsureSession, OpenConversation, SendPrompt, Return, SetRun, rowVars, requestVars,
      OwnRuns, IsJob, Prompts, AllKinds
<1>10. CASE CancelRuntime(r) \/ AnswerRuntime(r) \/ RuntimeRaises(r) \/ AppendResult(r)
  <2>1. /\ status' = status /\ pc' = pc /\ view' = view
    BY <1>10 DEF CancelRuntime, AnswerRuntime, RuntimeRaises, AppendResult, BindRow, rowVars,
                 requestVars
  <2>2. /\ run[r] \in {"create", "send", "cancel", "answer", "returned"}
        /\ run'[r] \in {"returned", "raised", "appended"}
    BY <1>1, <1>10
    DEF CancelRuntime, AnswerRuntime, RuntimeRaises, AppendResult, Return, SetRun
  <2>3. run[r] = "answer" => kind[r] = "answer"
    BY <1>1 DEF OwnRuns, Storing, IsJob, Prompts, AllKinds
  <2> QED
    BY <1>1, <2>1, <2>2, <2>3 DEF Prompts
<1>11. CASE SaveResult(r)
  BY <1>1, <1>11
  DEF SaveResult, SaveSession, Goto, SetRun, OwnRuns, IsJob, Prompts, AllKinds, Storing
<1>12. CASE RestoreStatus(r)
  BY <1>1, <1>12
  DEF RestoreStatus, SaveSession, Goto, SetRun, OwnRuns, IsJob, Prompts, AllKinds, rowVars, Storing
<1>13. CASE PopEntry(r) \/ CompleteFuture(r)
  BY <1>1, <1>13
  DEF PopEntry, CompleteFuture, SetRun, rowVars, requestVars, OwnRuns, IsJob, Prompts, AllKinds, Storing
<1> QED
  BY <1>2, <1>3, <1>4, <1>5, <1>6, <1>7, <1>8, <1>9, <1>10, <1>11, <1>12, <1>13
  DEF HandlerStep, RunStep

\* Only one request is under way; nobody else shows.
LEMMA OthersAreOver ==
  ASSUME TypeInv, Staged, OneByOne, habit = "finished", NEW r \in Requests, Acts(r)
  PROVE  \A q \in Requests \ {r} :
           /\ Over(q) /\ Over(q)' /\ ~Shows(q) /\ ~Shows(q)'
           /\ {pc[q], pc'[q]} \cap (Inside \cup {"read", "calling"}) = {}
           /\ {run[q], run'[q]} \subseteq {"none", "saved", "failed", "done", "lost"}
<1> SUFFICES ASSUME NEW q \in Requests \ {r}
             PROVE  /\ Over(q) /\ Over(q)' /\ ~Shows(q) /\ ~Shows(q)'
                    /\ {pc[q], pc'[q]} \cap (Inside \cup {"read", "calling"}) = {}
                    /\ {run[q], run'[q]} \subseteq {"none", "saved", "failed", "done", "lost"}
  OBVIOUS
<1>1. Over(q) /\ InStage(q)
  BY DEF OneByOne, Acts, Staged
<1>2. pc'[q] = pc[q] /\ run'[q] = run[q] /\ kind' = kind
  BY DEF Acts
<1>3. ~Shows(q) /\ pc[q] \notin Inside \cup {"read", "calling"}
      /\ run[q] \in {"none", "saved", "failed", "done", "lost"}
  BY <1>1, OverFacts
<1> QED
  BY <1>1, <1>2, <1>3 DEF Over, IsAnswered, CallOver, IsJob, Shows

\* Before the creation of the session is over, waiting clients ask for nothing.
LEMMA CreationComesFirst ==
  ASSUME TypeInv, Staged, CreationInv, habit # "anytime", CreationStep
  PROVE  /\ UNCHANGED <<requestVars, callVars, runnerVars, habit, binding, conversations, restarts>>
         /\ \A r \in Requests : /\ pc[r] = "idle" /\ run[r] = "none" /\ kind[r] = "none"
                                /\ Over(r) /\ ~Shows(r) /\ ~Shows(r)'
<1>1. /\ creation \notin {"created", "error", "aborted"}
      /\ UNCHANGED <<requestVars, callVars, runnerVars, habit, binding, conversations, restarts>>
  BY DEF CreationStep, CreateRow, BuildBundle, CreateRuntime, CreateRuntimeFails, DeleteRow,
         adapterVars
<1>2. ASSUME NEW r \in Requests PROVE pc[r] = "idle" /\ run[r] = "none" /\ kind[r] = "none"
  BY <1>1 DEF CreationInv, Staged, InStage, IsJob, AllKinds, Prompts
<1> QED
  BY <1>1, <1>2 DEF requestVars, callVars, Over, IsAnswered, CallOver, Shows, Prompts

\* How long clients wait does not change.
LEMMA HabitIsFixed == TypeInv /\ [Next]_vars => habit' = habit
<1> SUFFICES ASSUME TypeInv, [Next]_vars PROVE habit' = habit
  OBVIOUS
<1>1. CASE CreationStep \/ UNCHANGED vars
  BY <1>1
  DEF CreationStep, CreateRow, BuildBundle, CreateRuntime, CreateRuntimeFails, DeleteRow, setupVars, vars
<1>2. ASSUME NEW r \in Requests, HandlerStep(r) \/ RunStep(r) PROVE habit' = habit
  BY <1>2, StepActs DEF Acts
<1>3. CASE \E r \in Requests, k \in AllKinds, o \in Ops \cup {"none"} : Submit(r, k, o)
  BY <1>3 DEF Submit, setupVars
<1>4. CASE Restart
  BY <1>4 DEF Restart
<1> QED
  BY <1>1, <1>2, <1>3, <1>4 DEF Next

LEMMA StatusStep == FinishedInv /\ [Next]_vars => StatusInv'
<1> SUFFICES ASSUME FinishedInv, [Next]_vars, habit = "finished" PROVE StatusInv'
  BY HabitIsFixed DEF FinishedInv, RunnerInv, StatusInv
<1> USE DEF FinishedInv, RunnerInv
<1>0. (\A r \in Requests : ~Shows(r)) => status \notin RunningStates
  BY DEF StatusInv
<1>1. CASE CreationStep
  <2>1. status' \in {"idle", "absent", status}
    BY <1>1
    DEF CreationStep, CreateRow, BuildBundle, CreateRuntime, CreateRuntimeFails, DeleteRow, rowVars
  <2>2. status' \notin RunningStates
    BY <1>0, <1>1, <2>1, CreationComesFirst DEF RunningStates
  <2>3. \A r \in Requests : Over(r)' /\ pc'[r] = "idle"
    <3>1. \A r \in Requests : Over(r) /\ pc[r] = "idle"
      BY <1>1, CreationComesFirst DEF StatusInv
    <3>2. pc' = pc /\ run' = run /\ kind' = kind
      BY <1>1, CreationComesFirst DEF requestVars, callVars
    <3> QED
      BY <3>1, <3>2 DEF Over, IsAnswered, CallOver, IsJob
  <2> QED
    BY <2>2, <2>3 DEF StatusInv
<1>2. ASSUME NEW r \in Requests, NEW k \in AllKinds, NEW o \in Ops \cup {"none"},
             Submit(r, k, o)
      PROVE  StatusInv'
  <2>1. \A q \in Requests : Over(q) /\ ~Shows(q) /\ pc[q] \notin {"read", "free"}
    BY <1>2, OverFacts DEF Submit, Waits, Quiet, Over, Staged, Inside
  <2>2. status \notin RunningStates /\ "await_outline_approval" \notin RunningStates
    BY <1>0, <2>1 DEF RunningStates
  <2>3. /\ status' = status /\ pc'[r] = "read" /\ op'[r] = o
        /\ view'[r] = [status |-> status, stored |-> stored]
        /\ prev'[r] = IF o = "approve_outline" THEN "await_outline_approval" ELSE status
        /\ \A q \in Requests \ {r} : pc'[q] = pc[q] /\ kind'[q] = kind[q] /\ run'[q] = run[q]
    BY <1>2, SubmitEffect DEF rowVars, callVars
  <2>4. \A q \in Requests \ {r} : Over(q)'
    BY <2>1, <2>3 DEF Over, IsAnswered, CallOver, IsJob
  <2> QED
    BY <2>1, <2>2, <2>3, <2>4 DEF StatusInv
<1>3. ASSUME NEW r \in Requests, HandlerStep(r) \/ RunStep(r) PROVE StatusInv'
  <2>1. Acts(r)
    BY <1>3, StepActs
  <2>2. \A q \in Requests \ {r} :
          Over(q)' /\ ~Shows(q) /\ ~Shows(q)' /\ pc'[q] \notin {"read", "free"}
    BY <2>1, OthersAreOver DEF Inside
  <2>3. prev' = prev /\ op' = op /\ prev[r] \notin RunningStates
    BY <2>1 DEF Acts, StatusInv
  <2>4. status' \in RunningStates => Shows(r)'
    <3>1. result[r].next \notin RunningStates
      BY DEF TypeInv, TypeOK, SettledStates, RunningStates
    <3>2. status \in RunningStates => Shows(r)
      BY <1>0, <2>2
    <3> QED
      BY <1>3, <2>3, <3>1, <3>2, ShowingStep DEF Enters
  <2>5. pc'[r] \in {"read", "free"} =>
          pc[r] \in {"read", "free"} /\ status' = status /\ view'[r] = view[r]
    BY <1>3, ShowingStep DEF Enters
  <2> QED
    BY <2>2, <2>3, <2>4, <2>5 DEF StatusInv
<1>4. CASE Restart
  <2>1. status' \notin RunningStates /\ \A r \in Requests : Over(r)' /\ pc'[r] \notin {"read", "free"}
    BY <1>4, RestartEffect DEF IsAnswered, Answered, RunningStates
  <2> QED
    BY <2>1 DEF StatusInv
<1>5. CASE UNCHANGED vars
  BY <1>5 DEF vars, rowVars, requestVars, callVars, StatusInv, Shows, Over, IsAnswered, CallOver, IsJob
<1> QED
  BY <1>1, <1>2, <1>3, <1>4, <1>5 DEF Next

LEMMA FinishedInit == Init => FinishedInv
<1>1. Init => RunnerInv
  BY InitTypes, EntriesDiffer DEF Init, RunnerInv, EntryInv
<1> QED
  BY <1>1
  DEF Init, FinishedInv, Staged, InStage, CreationInv, OneByOne, StatusInv, Over, IsAnswered,
      CallOver, RunningStates

LEMMA FinishedStep == FinishedInv /\ [Next]_vars => FinishedInv'
BY StepTypes, StepEntry, StagedStep, CreationInvStep, OneByOneStep, StatusStep
DEF FinishedInv, RunnerInv

\* When everything that a waiting client asked for is over, whatever of it
\* failed or was interrupted by restarts, the session shows no running status.
THEOREM NoSessionStaysRunning == Spec => []NoStuckRunning
<1>1. FinishedInv => NoStuckRunning
  BY OverFacts DEF FinishedInv, Staged, StatusInv, NoStuckRunning, Quiet, Over
<1> QED
  BY <1>1, FinishedInit, FinishedStep, PTL DEF Spec


-----------------------------------------------------------------------------
(* The conversation of a waiting client *)

Opened(r) == conv[r] = r

\* Whatever remembers a conversation remembers one that was opened.
Remembered(id) == id = Nothing \/ (id \in Requests /\ conv[id] = id)

\* One conversation is opened for the session: the adapter stays bound to it
\* until a restart takes the bundle away as well, and then none can be opened.
OneOpened ==
  habit = "finished" =>
    /\ \A q, r \in Requests : Opened(q) /\ Opened(r) => q = r
    /\ \A q \in Requests :
         Opened(q) => binding = q \/ (binding = Nothing /\ ~bundle /\ CreationOver)
    /\ \A r \in Requests : run[r] = "create" => binding = Nothing /\ bundle
    /\ \A r \in Requests : run[r] \in {"none", "queued", "ensure", "create"} => ~Opened(r)
    /\ Remembered(binding)
    /\ conversations \subseteq {binding}

\* The row, and every dict and result that it is written from, names it or none.
Recorded ==
  habit = "finished" =>
    /\ Remembered(stored)
    /\ \A r \in Requests : Remembered(view[r].stored) /\ Remembered(result[r].id)
    /\ \A r \in Requests :
         Opened(r) /\ result[r].id = r /\ run[r] \notin {"returned", "lost"} => stored = r

ConversationInv == FinishedInv /\ OneOpened /\ Recorded

LEMMA ConversationInit == Init => OneOpened /\ Recorded
BY ConstantsAssumption DEF Init, OneOpened, Recorded, Opened, Remembered

\* A step that opens no conversation.
LEMMA SameOpened ==
  ASSUME TypeInv, Staged, OneByOne, OneOpened, habit = "finished", NEW r \in Requests, Acts(r),
         binding' = binding, conversations' \subseteq conversations,
         conv'[r] = conv[r] \/ (run[r] = "ensure" /\ conv'[r] = binding),
         run'[r] = "create" => binding = Nothing /\ bundle,
         run'[r] \in {"none", "queued", "ensure", "create"} =>
           run[r] \in {"none", "queued", "ensure", "create"}
  PROVE  OneOpened' /\ \A q \in Requests : Opened(q)' <=> Opened(q)
<1>1. \A q \in Requests : Opened(q)' <=> Opened(q)
  <2>1. \A q \in Requests \ {r} : conv'[q] = conv[q]
    BY DEF Acts
  <2>2. CASE conv'[r] = conv[r]
    BY <2>1, <2>2 DEF Opened
  <2>3. CASE run[r] = "ensure" /\ conv'[r] = binding
    <3>1. conv[r] # r /\ binding # r
      BY <2>3, ConstantsAssumption DEF OneOpened, Opened, Remembered
    <3> QED
      BY <2>1, <2>3, <3>1 DEF Opened
  <2> QED
    BY <2>2, <2>3
<1>2. /\ \A q \in Requests \ {r} : run'[q] = run[q]
      /\ bundle' = bundle /\ creation' = creation
  BY DEF Acts
<1>3. Remembered(binding)'
  BY <1>1 DEF OneOpened, Remembered, Opened
<1> QED
  BY <1>1, <1>2, <1>3 DEF OneOpened, CreationOver

\* What a step other than the opening of the conversation does.
LEMMA OpenedStep ==
  ASSUME FinishedInv, OneOpened, habit = "finished", NEW r \in Requests,
         HandlerStep(r) \/ RunStep(r), ~OpenConversation(r)
  PROVE  OneOpened' /\ \A q \in Requests : Opened(q)' <=> Opened(q)
<1> USE DEF FinishedInv, RunnerInv
<1>1. Acts(r) /\ InStage(r)
  BY StepActs DEF Staged
<1>2. binding' = binding /\ conversations' \subseteq conversations
  BY DEF HandlerStep, RunStep, EnterEarly, EnterLate, EnterSync, EnterCancel, EnterUnchecked,
         CheckRunner, PutPlaceholder, SubmitJob, PutFuture, PrepareTransition, StartJob,
         EnsureSession, SendPrompt, CancelRuntime, AnswerRuntime, RuntimeRaises, AppendResult,
         SaveResult, RestoreStatus, PopEntry, CompleteFuture, adapterVars
<1>3. /\ conv'[r] = conv[r] \/ (run[r] = "ensure" /\ conv'[r] = binding)
      /\ run'[r] = "create" => binding = Nothing /\ bundle
      /\ run'[r] \in {"none", "queued", "ensure", "create"} =>
           run[r] \in {"none", "queued", "ensure", "create"}
  <2> USE DEF TypeInv, TypeOK, SetRun, Return
  <2>1. CASE HandlerStep(r)
    <3>1. conv' = conv /\ run' = [run EXCEPT ![r] = run'[r]]
          /\ run'[r] \in {run[r], "queued", "ensure", "cancel", "answer"}
      BY <2>1
      DEF HandlerStep, EnterEarly, EnterLate, EnterSync, EnterCancel, EnterUnchecked, CheckRunner,
          PutPlaceholder, SubmitJob, PutFuture, PrepareTransition, callVars
    <3>2. run[r] = "none" \/ run' = run
      BY <1>1, <2>1
      DEF HandlerStep, EnterEarly, EnterLate, EnterSync, EnterCancel, EnterUnchecked, CheckRunner,
          PutPlaceholder, SubmitJob, PutFuture, InStage, IsJob, callVars
    <3> QED
      BY <3>1, <3>2 DEF OneOpened
  <2>2. CASE EnsureSession(r)
    BY <2>2 DEF EnsureSession
  <2>3. CASE StartJob(r)
    BY <2>3 DEF StartJob
  <2>4. CASE RunStep(r) /\ ~EnsureSession(r) /\ ~StartJob(r)
    BY <2>4
    DEF RunStep, SendPrompt, CancelRuntime, AnswerRuntime, RuntimeRaises, AppendResult,
        SaveResult, RestoreStatus, PopEntry, CompleteFuture
  <2> QED
    BY <2>1, <2>2, <2>3, <2>4
<1> QED
  BY <1>1, <1>2, <1>3, SameOpened

\* The opening finds that none was opened, and nothing that names one.
LEMMA Opening ==
  ASSUME ConversationInv, habit = "finished", NEW r \in Requests, OpenConversation(r)
  PROVE  OneOpened' /\ Recorded'
<1> USE DEF ConversationInv, FinishedInv, RunnerInv
<1>1. Acts(r)
  BY StepActs DEF RunStep
<1>2. binding = Nothing /\ bundle /\ run[r] = "create" /\ \A q \in Requests : ~Opened(q)
  BY ConstantsAssumption DEF OpenConversation, OneOpened
<1>3. /\ stored = Nothing
      /\ \A q \in Requests : view[q].stored = Nothing /\ result[q].id = Nothing
  BY <1>2 DEF Recorded, Remembered, Opened
<1>4. /\ binding' = r /\ conv'[r] = r /\ run'[r] = "send" /\ conversations' = {r}
      /\ UNCHANGED <<stored, view, result>>
  <2>1. conversations = {}
    BY <1>2, ConstantsAssumption DEF OneOpened, TypeInv, TypeOK
  <2>2. /\ conv' = [conv EXCEPT ![r] = r] /\ run' = [run EXCEPT ![r] = "send"]
        /\ conversations' = conversations \cup {r} /\ binding' = r
        /\ UNCHANGED <<stored, view, result>>
    BY DEF OpenConversation, SetRun, rowVars, requestVars
  <2>3. conv \in [Requests -> Ids] /\ run \in [Requests -> Calls]
    BY DEF TypeInv, TypeOK
  <2> QED
    BY <2>1, <2>2, <2>3
<1>5. \A q \in Requests \ {r} : ~Opened(q)' /\ run'[q] # "create"
  BY <1>1, <1>2, OthersAreOver DEF Acts, Opened
<1>6. OneOpened'
  BY <1>2, <1>4, <1>5 DEF OneOpened, Opened, Remembered
<1>7. Recorded'
  BY <1>3, <1>4, <1>5, ConstantsAssumption DEF Recorded, Opened, Remembered
<1> QED
  BY <1>6, <1>7

\* The row, the dicts and the results go on naming that conversation.
LEMMA RecordedStep ==
  ASSUME ConversationInv, habit = "finished", NEW r \in Requests,
         HandlerStep(r) \/ RunStep(r), ~OpenConversation(r)
  PROVE  Recorded'
<1> USE DEF ConversationInv, FinishedInv, RunnerInv
<1>1. Acts(r) /\ InStage(r)
  BY StepActs DEF Staged
<1>2. \A q \in Requests : Opened(q)' <=> Opened(q)
  BY OpenedStep
<1>3. \A id : Remembered(id) => id = Nothing \/ (id \in Requests /\ Opened(id) /\ Opened(id)')
  BY <1>2 DEF Remembered, Opened
<1>4. stored' \in {stored, view[r].stored, result[r].id}
  BY DEF HandlerStep, RunStep, EnterEarly, EnterLate, EnterSync, EnterCancel, EnterUnchecked,
         CheckRunner, PutPlaceholder, SubmitJob, PutFuture, PrepareTransition, StartJob,
         EnsureSession, SendPrompt, CancelRuntime, AnswerRuntime, RuntimeRaises, AppendResult,
         SaveResult, RestoreStatus, PopEntry, CompleteFuture, SaveSession, BindRow, rowVars
<1>5. stored # Nothing => stored' = stored
  <2>1. stored' = Nothing => stored = Nothing
    BY DEF HandlerStep, RunStep, EnterEarly, EnterLate, EnterSync, EnterCancel, EnterUnchecked,
           CheckRunner, PutPlaceholder, SubmitJob, PutFuture, PrepareTransition, StartJob,
           EnsureSession, SendPrompt, CancelRuntime, AnswerRuntime, RuntimeRaises, AppendResult,
           SaveResult, RestoreStatus, PopEntry, CompleteFuture, SaveSession, BindRow, rowVars
  <2>2. Remembered(stored) /\ Remembered(view[r].stored) /\ Remembered(result[r].id)
    BY DEF Recorded
  <2> QED
    BY <1>3, <1>4, <2>1, <2>2 DEF OneOpened
<1>6. view'[r].stored = view[r].stored
  BY <1>1
  DEF HandlerStep, RunStep, EnterEarly, EnterLate, EnterSync, EnterCancel, EnterUnchecked,
      CheckRunner, PutPlaceholder, SubmitJob, PutFuture, PrepareTransition, StartJob,
      EnsureSession, SendPrompt, CancelRuntime, AnswerRuntime, RuntimeRaises, AppendResult,
      SaveResult, RestoreStatus, PopEntry, CompleteFuture, requestVars, TypeInv, TypeOK
<1>7. \/ result'[r].id = result[r].id
      \/ run'[r] = "returned" /\ (result'[r].id \in {Nothing, binding} \/ (result'[r].id = r /\ Opened(r)))
  BY DEF HandlerStep, RunStep, EnterEarly, EnterLate, EnterSync, EnterCancel, EnterUnchecked,
         CheckRunner, PutPlaceholder, SubmitJob, PutFuture, StartJob,
         EnsureSession, SendPrompt, CancelRuntime, AnswerRuntime, RuntimeRaises, AppendResult,
         SaveResult, RestoreStatus, PopEntry, CompleteFuture, Return, SetRun, callVars, TypeInv,
         TypeOK, Opened
<1>8. \A q \in Requests : Remembered(view[q].stored)' /\ Remembered(result[q].id)'
  <2>1. Remembered(binding) /\ \A q \in Requests : Remembered(view[q].stored) /\ Remembered(result[q].id)
    BY DEF Recorded, OneOpened
  <2>2. \A q \in Requests \ {r} : view'[q] = view[q] /\ result'[q] = result[q]
    BY <1>1 DEF Acts
  <2> QED
    BY <1>3, <1>6, <1>7, <2>1, <2>2 DEF Remembered, Opened
<1>9. Remembered(stored)'
  BY <1>3, <1>4 DEF Recorded, Remembered, Opened
<1>10. ASSUME Opened(r)', result'[r].id = r, run'[r] \notin {"returned", "lost"}
       PROVE  stored' = r
  <2>1. Opened(r) /\ result[r].id = r
    BY <1>2, <1>7, <1>10
  <2>2. CASE run[r] \notin {"returned", "lost"}
    BY <1>5, <2>1, <2>2, ConstantsAssumption DEF Recorded
  <2>3. CASE run[r] = "returned"
    <3>1. AppendResult(r)
      BY <1>1, <1>10, <2>3
      DEF HandlerStep, RunStep, EnterEarly, EnterLate, EnterSync, EnterCancel, EnterUnchecked,
          CheckRunner, PutPlaceholder, SubmitJob, PutFuture, StartJob, EnsureSession, SendPrompt,
          CancelRuntime, AnswerRuntime, RuntimeRaises, SaveResult, RestoreStatus, PopEntry,
          CompleteFuture, InStage, IsJob, callVars
    <3>2. status # "absent"
      BY <1>1, <2>3 DEF CreationInv, InStage
    <3> QED
      BY <2>1, <3>1, <3>2, ConstantsAssumption DEF AppendResult, BindRow
  <2>4. run[r] # "lost"
    BY <1>1
    DEF Acts, InStage, Over, IsAnswered, Answered, CallOver, OwnRuns, Storing, IsJob, AllKinds, Prompts
  <2> QED
    BY <2>2, <2>3, <2>4
<1>11. \A q \in Requests \ {r} :
         Opened(q)' /\ result'[q].id = q /\ run'[q] \notin {"returned", "lost"} => stored' = q
  BY <1>1, <1>2, <1>5, ConstantsAssumption DEF Acts, Recorded
<1> QED
  BY <1>8, <1>9, <1>10, <1>11 DEF Recorded

LEMMA ConversationStep == ConversationInv /\ [Next]_vars => OneOpened' /\ Recorded'
<1> SUFFICES ASSUME ConversationInv, [Next]_vars, habit = "finished" PROVE OneOpened' /\ Recorded'
  BY HabitIsFixed DEF ConversationInv, FinishedInv, RunnerInv, OneOpened, Recorded
<1> USE DEF ConversationInv, FinishedInv, RunnerInv
<1>1. CASE CreationStep
  <2>1. /\ UNCHANGED <<run, conv, view, result, binding, conversations>>
        /\ \A r \in Requests : run[r] = "none"
    BY <1>1, CreationComesFirst DEF requestVars, callVars
  <2>2. \A r \in Requests : ~Opened(r) /\ ~Opened(r)'
    BY <2>1 DEF OneOpened, Opened
  <2>3. stored' \in {stored, Nothing}
    BY <1>1
    DEF CreationStep, CreateRow, BuildBundle, CreateRuntime, CreateRuntimeFails, DeleteRow, rowVars
  <2>4. OneOpened'
    BY <2>1, <2>2 DEF OneOpened, Remembered
  <2>5. Recorded'
    BY <2>1, <2>2, <2>3 DEF Recorded, Remembered
  <2> QED
    BY <2>4, <2>5
<1>2. ASSUME NEW r \in Requests, NEW k \in AllKinds, NEW o \in Ops \cup {"none"},
             Submit(r, k, o)
      PROVE  OneOpened' /\ Recorded'
  <2>1. /\ UNCHANGED <<run, conv, result, binding, bundle, conversations, stored, creation>>
        /\ view'[r].stored = stored
        /\ \A q \in Requests \ {r} : view'[q] = view[q]
    BY <1>2, SubmitEffect DEF rowVars, callVars, adapterVars, setupVars
  <2>2. OneOpened'
    BY <2>1 DEF OneOpened, Remembered, Opened, CreationOver
  <2>3. Recorded'
    BY <2>1 DEF Recorded, Remembered, Opened
  <2> QED
    BY <2>2, <2>3
<1>3. ASSUME NEW r \in Requests, HandlerStep(r) \/ RunStep(r) PROVE OneOpened' /\ Recorded'
  BY <1>3, Opening, OpenedStep, RecordedStep
<1>4. CASE Restart
  <2>1. /\ UNCHANGED <<conv, result, stored, view>>
        /\ bundle' = FALSE /\ binding' = Nothing /\ conversations' = {}
        /\ creation' = IF CreationOver \/ creation = "none" THEN creation ELSE "aborted"
        /\ \A r \in Requests : run'[r] = IF CallOver(r) THEN run[r] ELSE "lost"
    BY <1>4, RestartEffect
  <2>2. \A r \in Requests : Opened(r) => run[r] # "none"
    BY DEF OneOpened
  <2>3. (\E r \in Requests : Opened(r)) => CreationOver'
    <3>1. (\E r \in Requests : pc[r] # "idle") => creation \in {"created", "error", "aborted"}
      BY DEF CreationInv
    <3>2. \A r \in Requests : run[r] # "none" => pc[r] # "idle"
      BY DEF Staged, InStage, AllKinds, Prompts
    <3> QED
      BY <2>1, <2>2, <3>1, <3>2 DEF CreationOver
  <2>4. OneOpened'
    BY <2>1, <2>2, <2>3 DEF OneOpened, Remembered, Opened, CallOver
  <2>5. Recorded'
    BY <2>1 DEF Recorded, Remembered, Opened, CallOver
  <2> QED
    BY <2>4, <2>5
<1>5. CASE UNCHANGED vars
  BY <1>5
  DEF vars, rowVars, requestVars, callVars, adapterVars, setupVars, OneOpened, Recorded, Opened,
      Remembered, CreationOver
<1> QED
  BY <1>1, <1>2, <1>3, <1>4, <1>5 DEF Next

LEMMA ConversationInvariant == Spec => []ConversationInv
<1>1. Init => ConversationInv
  BY FinishedInit, ConversationInit DEF ConversationInv
<1>2. ConversationInv /\ [Next]_vars => ConversationInv'
  BY FinishedStep, ConversationStep DEF ConversationInv
<1> QED
  BY <1>1, <1>2, PTL DEF Spec

\* All the prompts of a waiting client go to one conversation: no second one is
\* ever opened beside it, not even after the first was cancelled, after failures
\* or after restarts.
THEOREM PromptsShareOneConversation == Spec => []OneConversation
<1>1. ConversationInv => OneConversation
  <2> SUFFICES ASSUME OneOpened, habit = "finished"
               PROVE  Cardinality({r \in Requests : conv[r] = r}) <= 1
    BY DEF ConversationInv, OneConversation
  <2>1. CASE \A r \in Requests : conv[r] # r
    <3>1. {r \in Requests : conv[r] = r} = {}
      BY <2>1
    <3> QED
      BY <3>1, FS_EmptySet
  <2>2. ASSUME NEW q \in Requests, conv[q] = q
        PROVE  Cardinality({r \in Requests : conv[r] = r}) <= 1
    <3>1. {r \in Requests : conv[r] = r} = {q}
      BY <2>2 DEF OneOpened, Opened
    <3> QED
      BY <3>1, FS_Singleton
  <2> QED
    BY <2>1, <2>2
<1> QED
  BY <1>1, ConversationInvariant, PTL

\* The row names that conversation once the prompt that opened it has succeeded,
\* although every later handler saves a dict that it read before.
THEOREM ConversationsAreRecorded == Spec => []ConversationRecorded
<1>1. ConversationInv => ConversationRecorded
  BY DEF ConversationInv, Recorded, Opened, ConversationRecorded, Quiet, CallOver
<1> QED
  BY <1>1, ConversationInvariant, PTL

-----------------------------------------------------------------------------
(* What the runtime returns, and a confirmed cancellation *)

\* The runtime has answered, and the answer has not reached the row.
Has(r) == run[r] \in {"returned", "appended"}

ResultsInv ==
  /\ \A r \in Requests : Has(r) =>
       /\ kind[r] \in Prompts => result[r].next = NextStateOf(op[r])
       /\ kind[r] \in {"cancel", "ws_cancel"} => result[r].next = "cancelled"
  /\ habit = "finished" =>
       \A r \in Requests : Has(r) /\ kind[r] \in {"cancel", "ws_cancel"} => conversations = {}

\* Which requests make which call of the runtime.
LEMMA CallsOfKinds ==
  ASSUME NEW r \in Requests, InStage(r)
  PROVE  /\ run[r] \in {"queued", "ensure", "create", "send"} =>
              kind[r] \in Prompts /\ pc[r] \in {"submitted", "accepted", "calling"}
         /\ run[r] = "cancel" => kind[r] \in {"cancel", "ws_cancel"}
         /\ run[r] = "answer" => kind[r] = "answer"
         /\ run[r] \in Storing => kind[r] \in AllKinds /\ pc[r] \in {"submitted", "accepted", "calling"}
BY DEF InStage, OwnRuns, Storing, IsJob, Prompts, AllKinds

\* How a call comes to have an answer, and what a step does to the conversations.
LEMMA ResultStep ==
  ASSUME TypeInv, NEW r \in Requests, HandlerStep(r) \/ RunStep(r), Has(r)'
  PROVE  \/ SendPrompt(r) \/ CancelRuntime(r) \/ AnswerRuntime(r)
         \/ AppendResult(r) /\ Has(r) /\ result'[r] = result[r] /\ conversations' = conversations
         \/ HandlerStep(r) /\ Has(r) /\ result'[r] = result[r] /\ conversations' = conversations
<1> USE DEF TypeInv, TypeOK, Has, SetRun
<1>1. CASE HandlerStep(r)
  BY <1>1
  DEF HandlerStep, EnterEarly, EnterLate, EnterSync, EnterCancel, EnterUnchecked, CheckRunner,
      PutPlaceholder, SubmitJob, PutFuture, PrepareTransition, callVars, adapterVars
<1>2. CASE AppendResult(r)
  BY <1>2 DEF AppendResult, adapterVars
<1>3. CASE StartJob(r) \/ EnsureSession(r) \/ OpenConversation(r) \/ RuntimeRaises(r)
           \/ SaveResult(r) \/ RestoreStatus(r) \/ PopEntry(r) \/ CompleteFuture(r)
  BY <1>3
  DEF StartJob, EnsureSession, OpenConversation, RuntimeRaises, SaveResult, RestoreStatus,
      PopEntry, CompleteFuture
<1> QED
  BY <1>1, <1>2, <1>3 DEF RunStep

LEMMA ResultsStep == ConversationInv /\ ResultsInv /\ [Next]_vars => ResultsInv'
<1> SUFFICES ASSUME ConversationInv, ResultsInv, [Next]_vars PROVE ResultsInv'
  OBVIOUS
<1> USE DEF ConversationInv, FinishedInv, RunnerInv
<1>0. habit' = habit
  BY HabitIsFixed
<1>1. CASE CreationStep \/ UNCHANGED vars
  <2>1. UNCHANGED <<run, kind, op, result, conversations>>
    BY <1>1
    DEF vars, CreationStep, CreateRow, BuildBundle, CreateRuntime, CreateRuntimeFails, DeleteRow,
        requestVars, callVars, adapterVars
  <2> QED
    BY <1>0, <2>1 DEF ResultsInv, Has
<1>2. ASSUME NEW r \in Requests, NEW k \in AllKinds, NEW o \in Ops \cup {"none"},
             Submit(r, k, o)
      PROVE  ResultsInv'
  <2>1. /\ UNCHANGED <<run, result, conversations>> /\ run[r] = "none"
        /\ \A q \in Requests \ {r} : kind'[q] = kind[q] /\ op'[q] = op[q]
    BY <1>2, SubmitEffect DEF Staged, InStage, callVars, adapterVars
  <2> QED
    BY <1>0, <2>1 DEF ResultsInv, Has
<1>3. ASSUME NEW r \in Requests, HandlerStep(r) \/ RunStep(r) PROVE ResultsInv'
  <2>1. Acts(r) /\ InStage(r)
    BY <1>3, StepActs DEF Staged
  <2>2. ASSUME Has(r)'
        PROVE  /\ kind[r] \in Prompts => result'[r].next = NextStateOf(op[r])
               /\ kind[r] \in {"cancel", "ws_cancel"} =>
                    /\ result'[r].next = "cancelled"
                    /\ habit = "finished" => conversations' = {}
    <3>1. CASE SendPrompt(r)
      BY <2>1, <3>1, CallsOfKinds DEF SendPrompt, Return, TypeInv, TypeOK, Prompts
    <3>2. CASE CancelRuntime(r)
      BY <2>1, <3>2, CallsOfKinds DEF CancelRuntime, Return, OneOpened, TypeInv, TypeOK, Prompts
    <3>3. CASE AnswerRuntime(r)
      BY <2>1, <3>3, CallsOfKinds DEF AnswerRuntime, Prompts
    <3>4. CASE Has(r) /\ result'[r] = result[r] /\ conversations' = conversations
      BY <3>4 DEF ResultsInv
    <3> QED
      BY <1>3, <2>2, <3>1, <3>2, <3>3, <3>4, ResultStep
  <2>3. habit = "finished" => \A q \in Requests \ {r} : ~Has(q)'
    BY <2>1, OthersAreOver DEF Has
  <2>4. \A q \in Requests \ {r} : (Has(q)' <=> Has(q)) /\ result'[q] = result[q]
    BY <2>1 DEF Acts, Has
  <2>5. kind' = kind /\ op' = op
    BY <2>1 DEF Acts
  <2> QED
    BY <1>0, <2>2, <2>3, <2>4, <2>5 DEF ResultsInv
<1>4. CASE Restart
  <2>1. /\ UNCHANGED <<kind, op, result>> /\ conversations' = {}
        /\ \A r \in Requests : Has(r)' => Has(r)
    BY <1>4, RestartEffect DEF Has
  <2> QED
    BY <1>0, <2>1 DEF ResultsInv
<1> QED
  BY <1>1, <1>2, <1>3, <1>4 DEF Next

\* After a confirmed cancellation no prompt gets past the table, so nothing ever
\* reaches the runtime but further cancellations and answers to nobody.
CancelInv ==
  habit = "finished" /\ (\E c \in Requests : kind[c] = "cancel" /\ pc[c] = "finished") =>
    /\ status = "cancelled" /\ conversations = {}
    /\ \A r \in Requests : ~Over(r) =>
         /\ kind[r] \in Prompts => pc[r] \in {"read", "free"}
         /\ kind[r] = "cancel" => prev[r] = "cancelled"
         /\ kind[r] = "answer" => ~Has(r)

\* No table of the session leads out of the cancelled status.
LEMMA CancelledIsLast ==
  \A r \in Requests : op[r] \in Operations => ~MayMove("cancelled", RunningStateOf[op[r]])
BY DEF MayMove, AllowedTransitions, Operations, RunningStateOf

LEMMA CancelStep == ConversationInv /\ ResultsInv /\ CancelInv /\ [Next]_vars => CancelInv'
<1> SUFFICES ASSUME ConversationInv, ResultsInv, CancelInv, [Next]_vars, habit = "finished"
             PROVE  CancelInv'
  BY HabitIsFixed DEF ConversationInv, FinishedInv, RunnerInv, CancelInv
<1> USE DEF ConversationInv, FinishedInv, RunnerInv
<1> DEFINE Confirmed == \E c \in Requests : kind[c] = "cancel" /\ pc[c] = "finished"
<1>1. CASE CreationStep
  <2>1. \A c \in Requests : kind'[c] = "none"
    BY <1>1, CreationComesFirst DEF requestVars
  <2> QED
    BY <2>1 DEF CancelInv
<1>2. ASSUME NEW r \in Requests, NEW k \in AllKinds, NEW o \in Ops \cup {"none"},
             Submit(r, k, o)
      PROVE  CancelInv'
  <2>1. \A q \in Requests : Over(q)
    BY <1>2 DEF Submit, Waits, Quiet, Over
  <2>2. /\ UNCHANGED <<status, conversations, run, habit>> /\ run[r] = "none"
        /\ pc[r] = "idle" /\ pc'[r] = "read" /\ kind'[r] = k
        /\ prev'[r] = IF o = "approve_outline" THEN "await_outline_approval" ELSE status
        /\ k \notin Prompts => o = "none"
        /\ \A q \in Requests \ {r} : pc'[q] = pc[q] /\ kind'[q] = kind[q]
    BY <1>2, SubmitEffect DEF Submit, Staged, InStage, rowVars, callVars, adapterVars, setupVars
  <2>3. \A q \in Requests \ {r} : Over(q)'
    BY <2>1, <2>2 DEF Over, IsAnswered, CallOver, IsJob
  <2>4. Confirmed' => Confirmed
    BY <2>2
  <2> QED
    BY <2>2, <2>3, <2>4 DEF CancelInv, Prompts, Has
<1>3. ASSUME NEW r \in Requests, HandlerStep(r) \/ RunStep(r) PROVE CancelInv'
  <2>1. Acts(r) /\ InStage(r) /\ habit' = habit
    BY <1>3, StepActs DEF Staged, Acts
  <2>2. \A q \in Requests \ {r} : Over(q)'
    BY <2>1, OthersAreOver
  <2>3. CASE kind[r] = "cancel" /\ pc'[r] = "finished"
    <3>1. SaveResult(r)
      BY <1>3, <2>1, <2>3
      DEF HandlerStep, RunStep, EnterEarly, EnterLate, EnterSync, EnterCancel, EnterUnchecked,
          CheckRunner, PutPlaceholder, SubmitJob, PutFuture, PrepareTransition, Goto, StartJob,
          EnsureSession, OpenConversation, SendPrompt, CancelRuntime, AnswerRuntime,
          RuntimeRaises, AppendResult, RestoreStatus, PopEntry, CompleteFuture, requestVars,
          TypeInv, TypeOK, Acts, Over, IsAnswered, Answered, CallOver, IsJob, InStage
    <3>2. Has(r) /\ result[r].next = "cancelled" /\ conversations = {}
      BY <2>3, <3>1 DEF SaveResult, Has, ResultsInv
    <3>3. status' = "cancelled" /\ conversations' = {}
      BY <3>1, <3>2 DEF SaveResult, SaveSession, adapterVars
    <3>4. Over(r)'
      BY <2>1, <2>3, <3>1
      DEF SaveResult, SetRun, Goto, Over, IsAnswered, Answered, CallOver, IsJob, Acts, TypeInv, TypeOK
    <3> QED
      BY <2>2, <3>3, <3>4 DEF CancelInv
  <2>4. CASE ~(kind[r] = "cancel" /\ pc'[r] = "finished")
    <3> SUFFICES ASSUME Confirmed' PROVE CancelInv'
      BY DEF CancelInv
    <3>1. Confirmed
      BY <2>1, <2>4 DEF Acts
    <3>2. /\ status = "cancelled" /\ conversations = {}
          /\ kind[r] \in Prompts => pc[r] \in {"read", "free"}
          /\ kind[r] = "cancel" => prev[r] = "cancelled"
          /\ kind[r] = "answer" => ~Has(r)
      BY <2>1, <3>1 DEF CancelInv, Acts
    <3>3. ~OpenConversation(r) /\ ~AnswerRuntime(r)
      BY <2>1, <3>2, CallsOfKinds DEF OpenConversation, AnswerRuntime, OneOpened
    <3>4. conversations' = {}
      BY <1>3, <3>2, <3>3
      DEF HandlerStep, RunStep, EnterEarly, EnterLate, EnterSync, EnterCancel, EnterUnchecked,
          CheckRunner, PutPlaceholder, SubmitJob, PutFuture, PrepareTransition, StartJob,
          EnsureSession, SendPrompt, CancelRuntime, RuntimeRaises, AppendResult, SaveResult,
          RestoreStatus, PopEntry, CompleteFuture, adapterVars
    <3>5. kind[r] \in Prompts => ~(pc[r] \in {"read", "free"} /\ op[r] \in Operations
                                    /\ Enters(r, EnteredBy(r)))
      BY <3>2, CancelledIsLast DEF StatusInv, Enters, EnteredBy, Prompts
    <3>6. status' = "cancelled"
      <4>1. kind[r] \in Prompts => run[r] = "none"
        BY <2>1, <3>2 DEF InStage, IsJob, OwnRuns, Storing, AllKinds, Prompts
      <4>2. run[r] = "raised" /\ Shows(r) => prev[r] = "cancelled"
        BY <2>1, <3>2, <4>1, CallsOfKinds DEF Shows, Storing
      <4>3. SaveResult(r) => kind[r] \in {"cancel", "ws_cancel"} /\ result[r].next = "cancelled"
        <5>1. SaveResult(r) => Has(r) /\ kind[r] \in AllKinds /\ run[r] # "none"
          BY <2>1, CallsOfKinds DEF SaveResult, Has, Storing
        <5>2. SaveResult(r) => kind[r] \in {"cancel", "ws_cancel"}
          BY <3>2, <4>1, <5>1 DEF AllKinds
        <5> QED
          BY <5>1, <5>2 DEF ResultsInv
      <4>4. kind[r] \in Prompts \cup {"cancel"} /\ (kind[r] # "cancel" => op[r] \in Operations)
              /\ Enters(r, EnteredBy(r)) => status' = "cancelled"
        BY <3>5 DEF Enters, EnteredBy
      <4> QED
        BY <1>3, <3>2, <4>2, <4>3, <4>4, ShowingStep DEF RestoreStatus
    <3>7. kind[r] \in Prompts => pc'[r] \in {"read", "free"} \/ Over(r)'
      <4> SUFFICES ASSUME kind[r] \in Prompts PROVE pc'[r] \in {"read", "free"} \/ Over(r)'
        OBVIOUS
      <4>1. pc[r] \in {"read", "free"} /\ run[r] = "none"
        BY <2>1, <3>2 DEF InStage, IsJob, OwnRuns, Storing, AllKinds, Prompts
      <4>2. view[r].status = "cancelled" /\ (pc[r] = "free" => op[r] \in Operations)
            /\ op[r] \in Operations
        BY <3>2, <4>1 DEF StatusInv, TypeInv, KindsTyped
      <4>3. ~MayMove(view[r].status, RunningStateOf[op[r]])
        BY <4>2, CancelledIsLast
      <4>4. CASE EnterEarly(r) \/ EnterLate(r) \/ EnterSync(r)
        BY <4>1, <4>3, <4>4
        DEF EnterEarly, EnterLate, EnterSync, PrepareTransition, Goto, SetRun, callVars, Over,
            IsAnswered, Answered, CallOver, TypeInv, TypeOK
      <4>5. CASE CheckRunner(r)
        BY <4>1, <4>5
        DEF CheckRunner, Goto, callVars, Over, IsAnswered, Answered, CallOver, TypeInv, TypeOK
      <4> QED
        BY <1>3, <4>1, <4>4, <4>5
        DEF HandlerStep, RunStep, EnterCancel, EnterUnchecked, PutPlaceholder, SubmitJob, PutFuture,
            StartJob, EnsureSession, OpenConversation, SendPrompt, CancelRuntime, AnswerRuntime,
            RuntimeRaises, AppendResult, SaveResult, RestoreStatus, PopEntry, CompleteFuture, Prompts
    <3>8. kind[r] = "answer" => ~Has(r)'
      BY <1>3, <2>1, <3>2, <3>3, ResultStep, CallsOfKinds DEF SendPrompt, CancelRuntime, Prompts
    <3> QED
      BY <2>1, <2>2, <3>2, <3>4, <3>6, <3>7, <3>8 DEF CancelInv, Acts
  <2> QED
    BY <2>3, <2>4
<1>4. CASE Restart
  <2>1. /\ status' = IF status \in RunningStates THEN "failed" ELSE status
        /\ kind' = kind /\ conversations' = {} /\ habit' = habit
        /\ \A r \in Requests : Over(r)' /\ (pc'[r] = "finished" => pc[r] = "finished")
    BY <1>4, RestartEffect
  <2>2. Confirmed' => Confirmed
    BY <2>1
  <2> QED
    BY <2>1, <2>2 DEF CancelInv, RunningStates
<1>5. CASE UNCHANGED vars
  BY <1>5
  DEF vars, rowVars, requestVars, callVars, adapterVars, setupVars, CancelInv, Over, IsAnswered,
      CallOver, IsJob, Has
<1> QED
  BY <1>1, <1>2, <1>3, <1>4, <1>5 DEF Next

\* A session whose cancellation was confirmed stays cancelled, and its
\* conversation closed, whatever a waiting client asks for afterwards and however
\* often the API restarts.
THEOREM CancellationsAreFinal == Spec => []CancelIsFinal
<1>1. Init => ConversationInv /\ ResultsInv /\ CancelInv
  BY FinishedInit, ConversationInit DEF ConversationInv, Init, ResultsInv, CancelInv, Has
<1>2. ConversationInv /\ ResultsInv /\ CancelInv /\ [Next]_vars =>
        (ConversationInv /\ ResultsInv /\ CancelInv)'
  BY FinishedStep, ConversationStep, ResultsStep, CancelStep DEF ConversationInv
<1>3. CancelInv => CancelIsFinal
  BY DEF CancelInv, CancelIsFinal
<1> QED
  BY <1>1, <1>2, <1>3, PTL DEF Spec

-----------------------------------------------------------------------------
(* The session of a waiting client implements SessionLifecycle *)

\* The runtime can still be talked to: a conversation is open, or one may be opened.
Talking == binding \in conversations \/ (bundle /\ binding = Nothing)

\* The states that the adapter holds; it never learns that something failed.
HeldStates == {"idle", "await_outline_approval", "draft_ready", "completed", "cancelled"}

\* The state that the adapter holds is the status that is going to be in the row
\* once the request under way has ended, so an answer to a permission request,
\* which writes the held state back, writes what is there already.
HeldInv ==
  habit = "finished" =>
    /\ held \in HeldStates
    /\ \A r \in Requests : Has(r) /\ kind[r] = "answer" => result[r].next = status
    /\ Talking =>
         /\ \A r \in Requests : Has(r) /\ kind[r] # "answer" => held = result[r].next
         /\ \A r \in Requests : Shows(r) /\ ~Has(r) => held = prev[r]
         /\ (\A r \in Requests : ~Shows(r) /\ (Has(r) => kind[r] = "answer")) => held = status

\* Only the operations have one.
OpsTyped == \A r \in Requests : kind[r] \notin Prompts => op[r] = "none"

ShownInv == ConversationInv /\ ResultsInv /\ OpsTyped

\* When the call of a request has an answer, its kind decides whether it shows.
LEMMA WhoShows ==
  ASSUME NEW r \in Requests, InStage(r)
  PROVE  /\ run[r] \in Storing => (Shows(r) <=> kind[r] \in Prompts \cup {"cancel"})
         /\ run[r] \in {"cancel", "answer"} => (Shows(r) <=> kind[r] = "cancel")
         /\ run[r] \in {"create", "send"} => Shows(r) /\ kind[r] \in Prompts
         /\ Shows(r) => kind[r] \in Prompts \cup {"cancel"} /\ pc[r] # "idle"
         /\ pc[r] \in {"read", "free"} => run[r] = "none"
<1>1. Shows(r) => kind[r] \in Prompts \cup {"cancel"} /\ pc[r] # "idle"
  BY DEF Shows, InStage, IsJob, OwnRuns, Storing, AllKinds, Prompts
<1>2. pc[r] \in {"read", "free"} => run[r] = "none"
  BY DEF InStage, IsJob, OwnRuns, Storing, AllKinds, Prompts
<1> QED
  BY <1>1, <1>2, CallsOfKinds DEF Shows, Storing, Prompts

\* What a step of a request does to the adapter and to its answer.
LEMMA AdapterStep ==
  ASSUME TypeInv, NEW r \in Requests, InStage(r), HandlerStep(r) \/ RunStep(r)
  PROVE  \/ OpenConversation(r) \/ SendPrompt(r) \/ CancelRuntime(r) \/ AnswerRuntime(r)
         \/ /\ UNCHANGED <<bundle, binding, held, conversations>>
            /\ result'[r] = result[r]
            /\ Has(r)' => Has(r)
            /\ Has(r) => Has(r)' \/ SaveResult(r)
<1> USE DEF TypeInv, TypeOK, Has, SetRun, adapterVars
<1>1. CASE HandlerStep(r)
  <2>1. /\ UNCHANGED <<bundle, binding, held, conversations, result>>
        /\ run' = [run EXCEPT ![r] = run'[r]] /\ run'[r] \in {run[r], "queued", "ensure", "cancel", "answer"}
    BY <1>1
    DEF HandlerStep, EnterEarly, EnterLate, EnterSync, EnterCancel, EnterUnchecked, CheckRunner,
        PutPlaceholder, SubmitJob, PutFuture, PrepareTransition, callVars
  <2>2. run'[r] # run[r] => pc[r] \in {"read", "placed"}
    BY <1>1
    DEF HandlerStep, EnterEarly, EnterLate, EnterSync, EnterCancel, EnterUnchecked, CheckRunner,
        PutPlaceholder, SubmitJob, PutFuture, callVars
  <2>3. pc[r] \in {"read", "placed"} => run[r] = "none"
    BY DEF InStage, IsJob, OwnRuns, Storing, AllKinds, Prompts
  <2> QED
    BY <2>1, <2>2, <2>3
<1>2. CASE AppendResult(r) \/ SaveResult(r)
  BY <1>2 DEF AppendResult, SaveResult
<1>3. CASE StartJob(r) \/ EnsureSession(r) \/ RuntimeRaises(r) \/ RestoreStatus(r) \/ PopEntry(r)
           \/ CompleteFuture(r)
  BY <1>3 DEF StartJob, EnsureSession, RuntimeRaises, RestoreStatus, PopEntry, CompleteFuture
<1> QED
  BY <1>1, <1>2, <1>3 DEF RunStep

\* The table lets a draft begin where its failure goes back to, or where the
\* adapter has no conversation to send it to any more.
LEMMA DraftsBegin ==
  \A s \in HeldStates : MayMove(s, "running_draft") => s = "await_outline_approval"
<1> SUFFICES ASSUME NEW s \in HeldStates, MayMove(s, "running_draft")
             PROVE  s = "await_outline_approval"
  OBVIOUS
<1>1. "running_draft" \in AllowedTransitions[s] /\ s # "running_draft"
  BY DEF MayMove, HeldStates
<1>2. /\ "running_draft" \notin AllowedTransitions["idle"]
      /\ "running_draft" \notin AllowedTransitions["draft_ready"]
      /\ "running_draft" \notin AllowedTransitions["cancelled"]
      /\ "running_draft" \notin AllowedTransitions["completed"]
  BY DEF AllowedTransitions
<1> QED
  BY <1>1, <1>2 DEF HeldStates

\* Before a request enters, the status is the one that its failure restores.
LEMMA EntersFrom ==
  ASSUME ShownInv, habit = "finished", NEW r \in Requests, Enters(r, EnteredBy(r)),
         kind[r] \in Prompts \cup {"cancel"}, kind[r] # "cancel" => op[r] \in Operations,
         status \notin RunningStates
  PROVE  /\ status \in HeldStates => prev[r] = status
         /\ status \in Statuses /\ MayMove(status, EnteredBy(r))
         /\ prev[r] = IF op[r] = "approve_outline" THEN "await_outline_approval" ELSE status
<1> USE DEF ShownInv, ConversationInv, FinishedInv, RunnerInv
<1>1. /\ view[r].status = status
      /\ prev[r] = IF op[r] = "approve_outline" THEN "await_outline_approval" ELSE status
  BY DEF Enters, StatusInv
<1>2. MayMove(status, EnteredBy(r))
  BY <1>1 DEF Enters
<1>3. status \in Statuses
  <2>1. pc[r] # "idle"
    BY DEF Enters
  <2> QED
    BY <2>1 DEF CreationInv, TypeInv, TypeOK, RowStatuses
<1>4. op[r] = "approve_outline" /\ status \in HeldStates => prev[r] = status
  <2> SUFFICES ASSUME op[r] = "approve_outline", status \in HeldStates PROVE prev[r] = status
    OBVIOUS
  <2>1. EnteredBy(r) = "running_draft"
    BY DEF EnteredBy, OpsTyped, RunningStateOf, Prompts
  <2>2. status = "await_outline_approval"
    BY <1>2, <2>1, DraftsBegin
  <2> QED
    BY <1>1, <2>2
<1> QED
  BY <1>1, <1>2, <1>3, <1>4

LEMMA OpsStep == TypeInv /\ OpsTyped /\ [Next]_vars => OpsTyped'
<1> SUFFICES ASSUME TypeInv, OpsTyped, [Next]_vars PROVE OpsTyped'
  OBVIOUS
<1>1. CASE CreationStep \/ Restart \/ UNCHANGED vars
  BY <1>1
  DEF CreationStep, CreateRow, BuildBundle, CreateRuntime, CreateRuntimeFails, DeleteRow, Restart,
      requestVars, vars, OpsTyped
<1>2. ASSUME NEW r \in Requests, NEW k \in AllKinds, NEW o \in Ops \cup {"none"},
             Submit(r, k, o)
      PROVE  OpsTyped'
  <2>1. k \notin Prompts => o = "none"
    BY <1>2 DEF Submit
  <2> QED
    BY <1>2, <2>1, SubmitEffect, ConstantsAssumption DEF OpsTyped
<1>3. ASSUME NEW r \in Requests, HandlerStep(r) \/ RunStep(r) PROVE OpsTyped'
  BY <1>3, StepActs DEF Acts, OpsTyped
<1> QED
  BY <1>1, <1>2, <1>3 DEF Next

\* Nobody shows, or the request under way and nobody else.
LEMMA ShowingSets ==
  ASSUME ShownInv, habit = "finished", NEW r \in Requests, Acts(r)
  PROVE  /\ Showing = IF Shows(r) THEN {r} ELSE {}
         /\ Showing' = IF Shows(r)' THEN {r} ELSE {}
         /\ Showing = {r} => Shown = r
         /\ Showing' = {r} => Shown' = r
<1> USE DEF ShownInv, ConversationInv, FinishedInv, RunnerInv
<1>1. \A q \in Requests \ {r} : ~Shows(q) /\ ~Shows(q)'
  BY OthersAreOver
<1>2. \A S : S = {r} => (CHOOSE q \in S : TRUE) = r
  OBVIOUS
<1> QED
  BY <1>1, <1>2 DEF Showing, Shown

\* What the adapter holds is kept up by every step of the request under way.
LEMMA HeldByStep ==
  ASSUME ShownInv, HeldInv, habit = "finished", NEW r \in Requests, HandlerStep(r) \/ RunStep(r)
  PROVE  HeldInv'
<1> USE DEF ShownInv, ConversationInv, FinishedInv, RunnerInv
<1>1. Acts(r) /\ InStage(r)
  BY StepActs DEF Staged
<1>2. \A q \in Requests \ {r} : ~Shows(q) /\ ~Shows(q)' /\ ~Has(q) /\ ~Has(q)'
  BY <1>1, OthersAreOver DEF Has
<1>3. UNCHANGED <<habit, kind, op, prev, bundle>>
  BY <1>1 DEF Acts
\* What HeldInv says of the only request that can show or have an answer.
<1> DEFINE
      AnswerIs == Has(r) /\ kind[r] = "answer" => result[r].next = status
      HeldIs   == Talking =>
                    /\ Has(r) /\ kind[r] # "answer" => held = result[r].next
                    /\ Shows(r) /\ ~Has(r) => held = prev[r]
                    /\ ~Shows(r) /\ (Has(r) => kind[r] = "answer") => held = status
<1>4. held \in HeldStates /\ AnswerIs /\ HeldIs
  BY <1>2 DEF HeldInv
<1>5. SUFFICES held' \in HeldStates /\ AnswerIs' /\ HeldIs'
  BY <1>2, <1>3 DEF HeldInv
<1>6. /\ run[r] \in Storing => (Shows(r) <=> kind[r] \in Prompts \cup {"cancel"})
      /\ run[r] \in {"cancel", "answer"} => (Shows(r) <=> kind[r] = "cancel")
      /\ run[r] \in {"create", "send"} => Shows(r) /\ kind[r] \in Prompts
      /\ pc[r] \in {"read", "free"} => run[r] = "none"
  BY <1>1, WhoShows
<1>7. CASE OpenConversation(r)
  <2>1. /\ Shows(r) /\ Shows(r)' /\ ~Has(r) /\ ~Has(r)' /\ held' = held /\ prev' = prev
    BY <1>1, <1>6, <1>7
    DEF OpenConversation, SetRun, Has, Shows, Acts, TypeInv, TypeOK, requestVars
  <2>2. Talking
    BY <1>7 DEF OpenConversation, OneOpened, Talking
  <2> QED
    BY <1>4, <2>1, <2>2
<1>8. CASE SendPrompt(r)
  <2>1. /\ Has(r)' /\ result'[r].next = held' /\ held' \in HeldStates /\ kind[r] # "answer"
    BY <1>6, <1>8
    DEF SendPrompt, Return, SetRun, Has, NextStateOf, HeldStates, Prompts, TypeInv, TypeOK
  <2> QED
    BY <1>3, <2>1
<1>9. CASE CancelRuntime(r)
  <2>1. /\ Has(r)' /\ result'[r].next = held' /\ held' \in HeldStates /\ kind[r] # "answer"
    BY <1>1, <1>9, CallsOfKinds
    DEF CancelRuntime, Return, SetRun, Has, HeldStates, TypeInv, TypeOK
  <2> QED
    BY <1>3, <2>1
<1>10. CASE AnswerRuntime(r)
  <2>1. kind[r] = "answer" /\ ~Shows(r) /\ Talking /\ ~Has(r)
    BY <1>1, <1>6, <1>10, CallsOfKinds DEF AnswerRuntime, Talking, Has
  <2>2. held = status
    BY <1>4, <2>1
  <2>3. /\ UNCHANGED <<status, held>> /\ result'[r].next = held /\ run'[r] = "returned"
        /\ pc' = pc
    BY <1>10 DEF AnswerRuntime, Return, SetRun, rowVars, requestVars, adapterVars, TypeInv, TypeOK
  <2>4. ~Shows(r)'
    BY <1>3, <1>6, <1>10, <2>1, <2>3 DEF AnswerRuntime, Shows, Prompts
  <2> QED
    BY <1>3, <1>4, <2>1, <2>2, <2>3, <2>4
<1>11. CASE /\ UNCHANGED <<bundle, binding, held, conversations>>
            /\ result'[r] = result[r]
            /\ Has(r)' => Has(r)
            /\ Has(r) => Has(r)' \/ SaveResult(r)
  <2>1. Talking' <=> Talking
    BY <1>11 DEF Talking
  <2>2. CASE /\ kind[r] \in Prompts \cup {"cancel"} /\ (kind[r] # "cancel" => op[r] \in Operations)
             /\ Enters(r, EnteredBy(r))
    <3>1. ~Shows(r) /\ Shows(r)' /\ run[r] = "none"
      BY <1>6, <2>2 DEF Enters
    <3>2. status \notin RunningStates
      BY <1>2, <3>1 DEF StatusInv
    <3>3. status \in HeldStates => prev[r] = status
      BY <2>2, <3>2, EntersFrom
    <3>4. ~Has(r) /\ ~Has(r)'
      BY <1>11, <3>1 DEF Has
    <3> QED
      BY <1>3, <1>4, <1>11, <2>1, <3>1, <3>3, <3>4
  <2>3. CASE Shows(r) /\ ~Shows(r)' /\ SaveResult(r) /\ status' = result[r].next
    <3>1. Has(r) /\ kind[r] # "answer" /\ ~Has(r)'
      BY <1>6, <2>3 DEF SaveResult, SetRun, Has, Storing, Prompts, TypeInv, TypeOK
    <3> QED
      BY <1>3, <1>4, <1>11, <2>1, <2>3, <3>1
  <2>4. CASE Shows(r) /\ ~Shows(r)' /\ RestoreStatus(r) /\ status' = prev[r]
    <3>1. ~Has(r) /\ ~Has(r)'
      BY <1>11, <2>4 DEF RestoreStatus, Has
    <3> QED
      BY <1>3, <1>4, <1>11, <2>1, <2>4, <3>1
  <2>5. CASE ~Shows(r) /\ ~Shows(r)' /\ SaveResult(r) /\ status' = result[r].next
    <3>1. Has(r) /\ ~Has(r)'
      BY <2>5 DEF SaveResult, SetRun, Has, TypeInv, TypeOK
    <3> QED
      BY <1>3, <1>4, <1>11, <2>1, <2>5, <3>1
  <2>6. CASE (Shows(r)' <=> Shows(r)) /\ status' = status
    <3>1. CASE SaveResult(r)
      <4>1. ~Shows(r)'
        BY <1>1, <3>1
        DEF SaveResult, SetRun, Goto, Shows, InStage, IsJob, Acts, TypeInv, TypeOK, AllKinds, Prompts
      <4> QED
        BY <2>5, <2>6, <3>1, <4>1 DEF SaveResult, SaveSession
    <3>2. CASE ~SaveResult(r)
      BY <1>3, <1>4, <1>11, <2>1, <2>6, <3>2
    <3> QED
      BY <3>1, <3>2
  <2> QED
    BY <2>2, <2>3, <2>4, <2>5, <2>6, ShowingStep
<1> QED
  BY <1>1, <1>7, <1>8, <1>9, <1>10, <1>11, AdapterStep

LEMMA HeldStep == ShownInv /\ HeldInv /\ [Next]_vars => HeldInv'
<1> SUFFICES ASSUME ShownInv, HeldInv, [Next]_vars, habit = "finished" PROVE HeldInv'
  BY HabitIsFixed DEF ShownInv, ConversationInv, FinishedInv, RunnerInv, HeldInv
<1> USE DEF ShownInv, ConversationInv, FinishedInv, RunnerInv
<1>1. CASE CreationStep
  <2>1. \A r \in Requests : ~Shows(r)' /\ ~Has(r)'
    BY <1>1, CreationComesFirst DEF callVars, Has
  <2>2. CASE CreateRuntime
    <3>1. held' = "idle" /\ status' = "idle"
      BY <2>2 DEF CreateRuntime, CreationInv, rowVars
    <3> QED
      BY <2>1, <3>1 DEF HeldInv, HeldStates
  <2>3. CASE CreationStep /\ ~CreateRuntime
    <3>1. UNCHANGED <<bundle, binding, held, conversations>> /\ creation # "created"
      BY <2>3
      DEF CreationStep, CreateRow, BuildBundle, CreateRuntimeFails, DeleteRow, adapterVars
    <3>2. \A r \in Requests : run[r] = "none"
      BY <1>1, CreationComesFirst
    <3>3. binding \notin conversations
      BY <3>2, ConstantsAssumption DEF OneOpened, Opened, Remembered, TypeInv, TypeOK
    <3>4. ~Talking'
      BY <3>1, <3>3 DEF Talking, CreationInv
    <3> QED
      BY <2>1, <3>1, <3>4 DEF HeldInv
  <2> QED
    BY <1>1, <2>2, <2>3
<1>2. ASSUME NEW r \in Requests, NEW k \in AllKinds, NEW o \in Ops \cup {"none"},
             Submit(r, k, o)
      PROVE  HeldInv'
  <2>1. \A q \in Requests : ~Shows(q) /\ ~Has(q)
    BY <1>2, OverFacts DEF Submit, Waits, Quiet, Over, Staged, Has
  <2>2. /\ UNCHANGED <<status, bundle, binding, held, conversations, run>>
        /\ run[r] = "none" /\ pc'[r] = "read"
        /\ \A q \in Requests \ {r} : pc'[q] = pc[q] /\ kind'[q] = kind[q]
    BY <1>2, SubmitEffect DEF Staged, InStage, rowVars, callVars, adapterVars
  <2>3. \A q \in Requests : ~Shows(q)' /\ ~Has(q)'
    BY <2>1, <2>2 DEF Shows, Has
  <2> QED
    BY <2>1, <2>2, <2>3 DEF HeldInv, Talking
<1>3. ASSUME NEW r \in Requests, HandlerStep(r) \/ RunStep(r) PROVE HeldInv'
  BY <1>3, HeldByStep
<1>4. CASE Restart
  <2>1. /\ bundle' = FALSE /\ binding' = Nothing /\ held' = "idle" /\ conversations' = {}
        /\ \A r \in Requests : run'[r] = IF CallOver(r) THEN run[r] ELSE "lost"
    BY <1>4, RestartEffect
  <2>2. ~Talking' /\ held' \in HeldStates /\ \A r \in Requests : ~Has(r)'
    BY <2>1 DEF Talking, HeldStates, Has, CallOver
  <2> QED
    BY <2>2 DEF HeldInv
<1>5. CASE UNCHANGED vars
  BY <1>5
  DEF vars, rowVars, requestVars, callVars, adapterVars, setupVars, HeldInv, Talking, Has, Shows
<1> QED
  BY <1>1, <1>2, <1>3, <1>4, <1>5 DEF Next

\* The variables of SessionLifecycle, as InlineSessions gives them.
Active == IF Showing = {} THEN "none" ELSE IF kind[Shown] = "cancel" THEN "cancel" ELSE op[Shown]
Origin == IF Showing = {} THEN "none" ELSE prev[Shown]

\* The abstract session has the same statuses and operations.
LEMMA SameStates ==
  /\ Session!Statuses = Statuses /\ Session!RunningStateOf = RunningStateOf
  /\ \A o : Session!NextStateOf(o) = NextStateOf(o)
  /\ \A s, t : Session!MayMove(s, t) <=> MayMove(s, t)
BY DEF Session!Statuses, Session!RunningStates, Session!SettledStates, Session!RunningStateOf,
       Session!Operations, Session!Actions, Session!PromptOperations, Session!NextStateOf,
       Session!ActionOf, Session!MayMove, Session!AllowedTransitions,
       Statuses, RunningStates, SettledStates, RunningStateOf, Operations, Actions,
       PromptOperations, NextStateOf, ActionOf, MayMove, AllowedTransitions

\* A step of a request is one of the session, or is not seen.
LEMMA StepImplements ==
  ASSUME ShownInv, HeldInv, habit = "finished", NEW r \in Requests, HandlerStep(r) \/ RunStep(r)
  PROVE  Session!DisturbedNext \/ UNCHANGED Session!vars
<1> USE DEF ShownInv, ConversationInv, FinishedInv, RunnerInv
<1>1. Acts(r) /\ InStage(r)
  BY StepActs DEF Staged
<1>2. /\ Showing = IF Shows(r) THEN {r} ELSE {}
      /\ Showing' = IF Shows(r)' THEN {r} ELSE {}
      /\ Showing = {r} => Shown = r
      /\ Showing' = {r} => Shown' = r
  BY <1>1, ShowingSets
<1>3. UNCHANGED <<kind, op, prev>>
  BY <1>1 DEF Acts
<1>4. /\ Active = IF Shows(r) THEN IF kind[r] = "cancel" THEN "cancel" ELSE op[r] ELSE "none"
      /\ Origin = IF Shows(r) THEN prev[r] ELSE "none"
      /\ Active' = IF Shows(r)' THEN IF kind[r] = "cancel" THEN "cancel" ELSE op[r] ELSE "none"
      /\ Origin' = IF Shows(r)' THEN prev[r] ELSE "none"
  BY <1>2, <1>3 DEF Active, Origin
<1>5. /\ Shows(r) => kind[r] \in Prompts \cup {"cancel"}
      /\ kind[r] \in Prompts => op[r] \in Operations
      /\ kind[r] \notin Prompts => op[r] = "none"
  BY <1>1, WhoShows DEF TypeInv, KindsTyped, OpsTyped
<1>6. CASE /\ kind[r] \in Prompts \cup {"cancel"} /\ (kind[r] # "cancel" => op[r] \in Operations)
           /\ Enters(r, EnteredBy(r))
  <2>1. ~Shows(r) /\ Shows(r)' /\ status' = EnteredBy(r)
    BY <1>6 DEF Enters
  <2>2. status \notin RunningStates
    BY <1>2, <2>1 DEF StatusInv, Showing
  <2>3. /\ status \in Statuses /\ MayMove(status, EnteredBy(r))
        /\ prev[r] = IF op[r] = "approve_outline" THEN "await_outline_approval" ELSE status
    BY <1>6, <2>2, EntersFrom
  <2>4. CASE kind[r] = "cancel"
    <3>1. Active = "none" /\ Active' = "cancel" /\ Origin' = status /\ status' = "cancelled"
      BY <1>4, <1>5, <2>1, <2>3, <2>4 DEF EnteredBy, Prompts
    <3>2. Session!Cancel
      BY <2>3, <2>4, <3>1, SameStates
      DEF Session!Cancel, Session!BeginIn, Active, Origin, EnteredBy
    <3> QED
      BY <3>2 DEF Session!DisturbedNext
  <2>5. CASE kind[r] # "cancel"
    <3>1. op[r] \in Operations
      BY <1>6, <2>5
    <3>2. Active = "none" /\ Active' = op[r] /\ Origin' = prev[r] /\ status' = RunningStateOf[op[r]]
      BY <1>4, <2>1, <2>5 DEF EnteredBy
    <3>3. Session!Begin(op[r])
      BY <2>3, <2>5, <3>1, <3>2, SameStates
      DEF Session!Begin, Session!BeginIn, Active, Origin, EnteredBy
    <3> QED
      BY <3>1, <3>3 DEF Session!DisturbedNext, Session!Next
  <2> QED
    BY <2>4, <2>5
<1>7. CASE Shows(r) /\ ~Shows(r)' /\ SaveResult(r) /\ status' = result[r].next
  <2>1. Has(r) /\ Active' = "none" /\ Origin' = "none"
    BY <1>4, <1>7 DEF SaveResult, Has
  <2>2. CASE kind[r] = "cancel"
    <3>1. Active = "cancel" /\ status' = "cancelled"
      BY <1>4, <1>7, <2>1, <2>2 DEF ResultsInv
    <3>2. Session!Confirm
      BY <2>1, <3>1 DEF Session!Confirm, Session!End, Active, Origin
    <3> QED
      BY <3>2 DEF Session!DisturbedNext
  <2>3. CASE kind[r] # "cancel"
    <3>1. op[r] \in Operations /\ Active = op[r] /\ status' = NextStateOf(op[r])
      BY <1>4, <1>5, <1>7, <2>1, <2>3 DEF ResultsInv
    <3>2. op[r] # "none"
      BY <3>1, OperationStatuses
    <3>3. Session!Finish
      BY <2>1, <3>1, <3>2, SameStates DEF Session!Finish, Session!End, Active, Origin
    <3> QED
      BY <3>3 DEF Session!DisturbedNext, Session!Next
  <2> QED
    BY <2>2, <2>3
<1>8. CASE Shows(r) /\ ~Shows(r)' /\ RestoreStatus(r) /\ status' = prev[r]
  <2>1. Active' = "none" /\ Origin' = "none" /\ Origin = prev[r] /\ Active # "none"
    BY <1>4, <1>5, <1>8, OperationStatuses
  <2>2. Session!Fail
    BY <1>8, <2>1 DEF Session!Fail, Session!End, Active, Origin
  <2> QED
    BY <2>2 DEF Session!DisturbedNext, Session!Next
<1>9. CASE ~Shows(r) /\ ~Shows(r)' /\ SaveResult(r) /\ kind[r] \in {"ws_cancel", "answer"}
           /\ status' = result[r].next
  <2>1. Has(r) /\ Active = "none" /\ Origin = "none" /\ Active' = "none" /\ Origin' = "none"
    BY <1>4, <1>9 DEF SaveResult, Has
  <2>2. CASE kind[r] = "ws_cancel"
    <3>1. status' = "cancelled"
      BY <1>9, <2>1, <2>2 DEF ResultsInv
    <3>2. Session!CancelUnasked
      BY <2>1, <3>1 DEF Session!CancelUnasked, Active, Origin
    <3> QED
      BY <3>2 DEF Session!DisturbedNext
  <2>3. CASE kind[r] = "answer"
    <3>1. status' = status
      BY <1>9, <2>1, <2>3 DEF HeldInv
    <3> QED
      BY <2>1, <3>1 DEF Session!vars, Active, Origin
  <2> QED
    BY <1>9, <2>2, <2>3
<1>10. CASE (Shows(r)' <=> Shows(r)) /\ status' = status
  BY <1>4, <1>10 DEF Session!vars, Active, Origin
<1> QED
  BY <1>6, <1>7, <1>8, <1>9, <1>10, ShowingStep

\* For clients that wait until everything is over, the session of the inline
\* deployment on the OpenHands adapter is one with one operation at a time, which
\* ends in what the runtime reports, goes back to where it began, or is failed by
\* a restart; its result is written without asking the table or the row.
THEOREM SessionIsImplemented == Spec => ImplementsSession
<1> DEFINE Inv == ShownInv /\ HeldInv
<1>1. Init => Inv
  <2>1. Init => OpsTyped /\ ResultsInv
    BY DEF Init, OpsTyped, ResultsInv, Has
  <2>2. Init => HeldInv
    BY ConstantsAssumption DEF Init, HeldInv, HeldStates, Has, Shows, Talking
  <2> QED
    BY <2>1, <2>2, FinishedInit, ConversationInit DEF ShownInv, ConversationInv
<1>2. Inv /\ [Next]_vars => Inv'
  BY FinishedStep, ConversationStep, ResultsStep, OpsStep, HeldStep
  DEF ShownInv, ConversationInv, FinishedInv, RunnerInv
<1>3. Init => Session!Init
  <2>1. Init => Showing = {}
    BY DEF Init, Showing, Shows
  <2> QED
    BY <2>1 DEF Init, Session!Init
<1>4. Inv /\ [Next]_vars => [habit = "finished" => Session!DisturbedNext \/ UNCHANGED Session!vars]_vars
  <2> SUFFICES ASSUME ShownInv, HeldInv, Next, habit = "finished"
               PROVE  Session!DisturbedNext \/ UNCHANGED Session!vars
    OBVIOUS
  <2> USE DEF ShownInv, ConversationInv, FinishedInv, RunnerInv
  <2>1. CASE CreationStep
    <3>1. Showing = {} /\ Showing' = {}
      BY <2>1, CreationComesFirst DEF Showing
    <3>2. \/ status' = status
          \/ status = "absent" /\ status' = "idle"
          \/ status = "idle" /\ status' = "absent"
      BY <2>1
      DEF CreationStep, CreateRow, BuildBundle, CreateRuntime, CreateRuntimeFails, DeleteRow,
          CreationInv, rowVars
    <3> QED
      BY <3>1, <3>2
      DEF Session!DisturbedNext, Session!Create, Session!Remove, Session!vars
  <2>2. ASSUME NEW r \in Requests, NEW k \in AllKinds, NEW o \in Ops \cup {"none"},
               Submit(r, k, o)
        PROVE  UNCHANGED Session!vars
    <3>1. \A q \in Requests : ~Shows(q)
      BY <2>2, OverFacts DEF Submit, Waits, Quiet, Over, Staged
    <3>2. /\ UNCHANGED <<status, run>> /\ run[r] = "none" /\ pc'[r] = "read"
          /\ \A q \in Requests \ {r} : pc'[q] = pc[q] /\ kind'[q] = kind[q]
      BY <2>2, SubmitEffect DEF Staged, InStage, rowVars, callVars
    <3>3. \A q \in Requests : ~Shows(q)'
      BY <3>1, <3>2 DEF Shows
    <3>4. Showing = {} /\ Showing' = {}
      BY <3>1, <3>3 DEF Showing
    <3> QED
      BY <3>2, <3>4 DEF Session!vars
  <2>3. ASSUME NEW r \in Requests, HandlerStep(r) \/ RunStep(r)
        PROVE  Session!DisturbedNext \/ UNCHANGED Session!vars
    BY <2>3, StepImplements
  <2>4. CASE Restart
    <3>1. status' = IF status \in RunningStates THEN "failed" ELSE status
      BY <2>4, RestartEffect
    <3>2. Showing' = {}
      <4>1. \A r \in Requests : ~Shows(r)'
        BY <2>4, RestartEffect
        DEF Shows, IsAnswered, Answered, CallOver
      <4> QED
        BY <4>1 DEF Showing
    <3>3. CASE Showing = {}
      <4>1. status \notin RunningStates
        BY <3>3 DEF StatusInv, Showing
      <4> QED
        BY <3>1, <3>2, <3>3, <4>1 DEF Session!vars
    <3>4. CASE Showing # {}
      <4>1. Shown \in Requests /\ Shows(Shown)
        BY <3>4 DEF Shown, Showing
      <4>2. kind[Shown] = "cancel" \/ op[Shown] \in Operations
        BY <4>1, WhoShows DEF Staged, TypeInv, KindsTyped
      <4>3. Active # "none" /\ Active' = "none" /\ Origin' = "none"
        BY <3>2, <3>4, <4>2, OperationStatuses DEF Active, Origin
      <4>4. Session!Interrupt
        BY <3>1, <4>3
        DEF Session!Interrupt, Session!End, Session!RunningStates, RunningStates, Active, Origin
      <4> QED
        BY <4>4 DEF Session!DisturbedNext
    <3> QED
      BY <3>3, <3>4
  <2>5. CASE UNCHANGED vars
    BY <2>5 DEF vars, rowVars, requestVars, callVars, Session!vars, Showing, Shown, Shows
  <2> QED
    BY <2>1, <2>2, <2>3, <2>4, <2>5 DEF Next
<1> QED
  BY <1>1, <1>2, <1>3, <1>4, PTL DEF Spec, ImplementsSession

=============================================================================
