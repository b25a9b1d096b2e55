---------------------------- MODULE InlineSessions ----------------------------
(***************************************************************************)
(* One session in the inline deployment (DOCAGENT_QUEUE=inline) on the     *)
(* OpenHands adapter: its creation, the requests about it, the runner      *)
(* that executes background operations on a thread pool of the API         *)
(* process, and the adapter's binding of the session to a conversation.    *)
(*                                                                         *)
(* Unlike CeleryOps there is no lease: what keeps two background           *)
(* operations apart is BackgroundRuntimeRunner._running, a dict in memory, *)
(* and everything but the row is lost when the process restarts.           *)
(*                                                                         *)
(* A request is a number, given in the order in which requests arrive; the *)
(* operation it asks for, the job the runner executes for it and the       *)
(* conversation that this operation may open are known by that number.     *)
(***************************************************************************)
EXTENDS Naturals, Sequences, FiniteSets, SessionStates

CONSTANTS
  Ops,           \* the operations that clients ask for
  MaxRequests,   \* bound on the requests, for each habit of the client
  MaxRestarts,   \* bound on restarts of the API process
  Nothing        \* no entry, no conversation, a key absent from a dict

\* How long the clients wait before the next request: not at all, until the
\* previous ones are answered, or until their background jobs are over as well.
Habits == {"anytime", "answered", "finished"}

Requests == 1..MaxRequests["anytime"] \cup 1..MaxRequests["answered"]
              \cup 1..MaxRequests["finished"]
Prompts  == {"background", "sync", "ws_prompt"}
AllKinds == Prompts \cup {"cancel", "ws_cancel", "answer"}
OnWebsocket == {"ws_prompt", "ws_cancel"}

Placeholder(r) == <<"placeholder", r>>   \* the Future() that submit puts first
JobFuture(r)   == <<"future", r>>        \* the future of the executor
Entries == ({"placeholder", "future"} \X Requests) \cup {Nothing}

ASSUME ConstantsAssumption ==
  /\ Ops \subseteq Operations
  /\ MaxRequests \in [Habits -> Nat]
  /\ MaxRestarts \in Nat
  /\ Nothing \notin Requests
  /\ Nothing \notin {"placeholder", "future"} \X Requests

VARIABLES
  habit,
  creation,                  \* the handler that creates the session
  status, stored,            \* the row: its status, and runtime_session_id
  pc, kind, op, view, prev,  \* per request: its handler, what it asks, its dict of
                             \* the session, the status that a failure restores
  run, conv, result,         \* per request: its runtime call, the conversation it
                             \* addresses, and what the call returned
  entry, queue,              \* the runner: _running[session], jobs not yet started
  bundle, binding, held,     \* the adapter: prompt bundle stored, conversation bound,
  conversations,             \* state held; the client: conversations it knows
  restarts

rowVars     == <<status, stored>>
requestVars == <<pc, kind, op, view, prev>>
callVars    == <<run, conv, result>>
runnerVars  == <<entry, queue>>
adapterVars == <<bundle, binding, held, conversations>>
setupVars   == <<habit, creation, restarts>>
vars == <<rowVars, requestVars, callVars, runnerVars, adapterVars, setupVars>>

Ids == Requests \cup {Nothing}
Answered == {"accepted", "finished", "conflict", "rejected", "error", "aborted"}

IsJob(r) == kind[r] = "background"
\* A handler's call is over with its last write, a job's with its future.
CallOver(r) == \/ run[r] \in {"none", "done", "lost"}
               \/ run[r] \in {"saved", "failed"} /\ ~IsJob(r)
\* A job exists from executor.submit until it has left _running.
JobLive(r) == IsJob(r) /\ run[r] \notin {"none", "popped", "done", "lost"}

-----------------------------------------------------------------------------
(* The row *)

\* Mutant of SaveSession: the column is written even if the dict has no such key.
SaveWholeDict(dict, next) == status' = next /\ stored' = dict.stored

\* save_session with a dict: an absent key leaves its column alone.
SaveSession(dict, next) ==
  /\ status' = next
  /\ stored' = IF dict.stored = Nothing THEN stored ELSE dict.stored

\* bind_runtime_session, for a raw event that names its conversation.
BindRow(id) ==
  /\ stored' = IF status = "absent" \/ id = Nothing THEN stored ELSE id
  /\ UNCHANGED status

-----------------------------------------------------------------------------
(* POST /tasks/{id}/sessions *)

CreateRow ==
  /\ creation = "none"
  /\ creation' = "saved"
  /\ status' = "idle"
  /\ stored' = Nothing
  /\ UNCHANGED <<requestVars, callVars, runnerVars, adapterVars, habit, restarts>>

\* build_prompt_bundle reads the skill and the system prompt from disk.  Only a
\* file that is not found undoes the creation: any other exception leaves the
\* handler, and the row behind (500).
BuildBundle ==
  /\ creation = "saved"
  /\ creation' \in {"built", "undo", "error"}
  /\ UNCHANGED <<rowVars, requestVars, callVars, runnerVars, adapterVars, habit, restarts>>

CreateRuntime ==
  /\ creation = "built"
  /\ creation' = "created"
  /\ bundle' = TRUE
  /\ held' = "idle"
  /\ UNCHANGED <<rowVars, requestVars, callVars, runnerVars, binding, conversations,
                 habit, restarts>>

\* adapter.create_session raises: 502.
CreateRuntimeFails ==
  /\ creation = "built"
  /\ creation' = "undo"
  /\ UNCHANGED <<rowVars, requestVars, callVars, runnerVars, adapterVars, habit, restarts>>

\* Mutant of DeleteRow: the row of the failed creation is left behind.
DeleteNothing ==
  /\ creation = "undo"
  /\ creation' = "failed"
  /\ UNCHANGED <<rowVars, requestVars, callVars, runnerVars, adapterVars, habit, restarts>>

DeleteRow ==
  /\ creation = "undo"
  /\ creation' = "failed"
  /\ status' = "absent"
  /\ stored' = Nothing
  /\ UNCHANGED <<requestVars, callVars, runnerVars, adapterVars, habit, restarts>>

CreationOver == creation \in {"created", "failed", "error", "aborted"}
CreationStep == CreateRow \/ BuildBundle \/ CreateRuntime \/ CreateRuntimeFails \/ DeleteRow

-----------------------------------------------------------------------------
(* The clients, and how a request begins *)

IsAnswered(r) == pc[r] \in Answered \cup {"idle"}
Quiet == CreationOver /\ \A r \in Requests : IsAnswered(r) /\ CallOver(r)

Waits == CASE habit = "anytime"  -> TRUE
           [] habit = "answered" -> CreationOver /\ \A r \in Requests : IsAnswered(r)
           [] habit = "finished" -> Quiet

\* A frame of the websocket is handled on the event loop, runtime call included:
\* until it is done the API takes no other request.
LoopIsFree == \A r \in Requests : kind[r] \in OnWebsocket => IsAnswered(r)

Goto(r, label) == pc' = [pc EXCEPT ![r] = label]
SetRun(r, label) == run' = [run EXCEPT ![r] = label]

\* require_session (404 without a row), and the status a failure goes back to.
Submit(r, k, o) ==
  /\ r \in 1..MaxRequests[habit]
  /\ pc[r] = "idle" /\ \A q \in 1..(r - 1) : pc[q] # "idle"
  /\ Waits /\ LoopIsFree
  /\ status # "absent"
  /\ o = "none" <=> k \notin Prompts
  /\ k = "ws_prompt" => o = "send_message"
  /\ Goto(r, "read")
  /\ kind' = [kind EXCEPT ![r] = k]
  /\ op' = [op EXCEPT ![r] = o]
  /\ view' = [view EXCEPT ![r] = [status |-> status, stored |-> stored]]
  /\ prev' = [prev EXCEPT ![r] = IF o = "approve_outline" THEN "await_outline_approval"
                                 ELSE status]
  /\ UNCHANGED <<rowVars, callVars, runnerVars, adapterVars, setupVars>>

\* Mutant of PrepareTransition: the transition table is not consulted.
PrepareUnchecked(r, next, label) ==
  /\ SaveSession(view[r], next)
  /\ view' = [view EXCEPT ![r].status = next]
  /\ Goto(r, label)
  /\ UNCHANGED <<kind, op, prev, runnerVars, adapterVars, setupVars>>

\* prepare_transition: the table is asked about the dict, not about the row.
PrepareTransition(r, next, label) ==
  /\ IF MayMove(view[r].status, next)
     THEN /\ SaveSession(view[r], next)
          /\ view' = [view EXCEPT ![r].status = next]
          /\ Goto(r, label)
     ELSE /\ Goto(r, "rejected")
          /\ UNCHANGED <<rowVars, view>>
  /\ UNCHANGED <<kind, op, prev, runnerVars, adapterVars, setupVars>>

EnterEarly(r) ==
  /\ pc[r] = "read" /\ IsJob(r) /\ op[r] \in EarlyOperations
  /\ PrepareTransition(r, RunningStateOf[op[r]], "entered")
  /\ UNCHANGED callVars

EnterLate(r) ==
  /\ pc[r] = "free"
  /\ PrepareTransition(r, RunningStateOf[op[r]], "prepared")
  /\ UNCHANGED callVars

\* The operation runs in the handler itself; the runner does not know of it.
EnterSync(r) ==
  /\ pc[r] = "read" /\ kind[r] \in Prompts \ {"background"}
  /\ PrepareTransition(r, RunningStateOf[op[r]], "calling")
  /\ SetRun(r, IF pc'[r] = "calling" THEN "ensure" ELSE run[r])
  /\ UNCHANGED <<conv, result>>

\* cancel_session on REST; an inline session has no task to revoke.
EnterCancel(r) ==
  /\ pc[r] = "read" /\ kind[r] = "cancel"
  /\ PrepareTransition(r, "cancelled", "calling")
  /\ SetRun(r, IF pc'[r] = "calling" THEN "cancel" ELSE run[r])
  /\ UNCHANGED <<conv, result>>

\* session/cancel on the websocket and answer_permission ask no table.
EnterUnchecked(r) ==
  /\ pc[r] = "read" /\ kind[r] \in {"ws_cancel", "answer"}
  /\ Goto(r, "calling")
  /\ SetRun(r, IF kind[r] = "answer" THEN "answer" ELSE "cancel")
  /\ UNCHANGED <<rowVars, kind, op, view, prev, conv, result, runnerVars, adapterVars,
                 setupVars>>

-----------------------------------------------------------------------------
(* BackgroundRuntimeRunner *)

\* Mutant of IsRunning: a job still waiting for a thread does not count.
IsRunningStarted == \E r \in Requests : entry = JobFuture(r) /\ run[r] \notin {"queued", "done"}

\* is_running: an entry whose future is not done; a placeholder never is.
IsRunning == \/ \E r \in Requests : entry = Placeholder(r)
             \/ \E r \in Requests : entry = JobFuture(r) /\ run[r] # "done"

\* 409 if one is running.  An early operation has changed the status by now.
CheckRunner(r) ==
  /\ \/ pc[r] = "entered"
     \/ pc[r] = "read" /\ IsJob(r) /\ op[r] \notin EarlyOperations
  /\ Goto(r, IF IsRunning THEN "conflict" ELSE IF pc[r] = "entered" THEN "prepared" ELSE "free")
  /\ UNCHANGED <<rowVars, kind, op, view, prev, callVars, runnerVars, adapterVars, setupVars>>

PutPlaceholder(r) ==
  /\ pc[r] = "prepared"
  /\ entry' = Placeholder(r)
  /\ Goto(r, "placed")
  /\ UNCHANGED <<rowVars, kind, op, view, prev, callVars, queue, adapterVars, setupVars>>

SubmitJob(r) ==
  /\ pc[r] = "placed"
  /\ queue' = Append(queue, r)
  /\ SetRun(r, "queued")
  /\ Goto(r, "submitted")
  /\ UNCHANGED <<rowVars, kind, op, view, prev, conv, result, entry, adapterVars, setupVars>>

\* Mutant of PutFuture: whatever is in _running is replaced by the future.
PutFutureAnyway(r) ==
  /\ pc[r] = "submitted"
  /\ entry' = IF run[r] = "done" THEN Nothing ELSE JobFuture(r)
  /\ Goto(r, "accepted")
  /\ UNCHANGED <<rowVars, kind, op, view, prev, callVars, queue, adapterVars, setupVars>>

\* Only its own placeholder is replaced: the job may be over, and out, by now.
PutFuture(r) ==
  /\ pc[r] = "submitted"
  /\ entry' = IF entry # Placeholder(r) THEN entry
              ELSE IF run[r] = "done" THEN Nothing ELSE JobFuture(r)
  /\ Goto(r, "accepted")
  /\ UNCHANGED <<rowVars, kind, op, view, prev, callVars, queue, adapterVars, setupVars>>

\* A thread of the pool takes the first job; the sessions share its four threads,
\* so it may be a while.
StartJob(r) ==
  /\ run[r] = "queued"
  /\ queue # <<>> /\ r = Head(queue)
  /\ queue' = Tail(queue)
  /\ SetRun(r, "ensure")
  /\ UNCHANGED <<rowVars, requestVars, conv, result, entry, adapterVars, setupVars>>

\* The finally of the wrapped operation: out goes whatever entry is there.
PopEntry(r) ==
  /\ IsJob(r) /\ run[r] \in {"saved", "failed"}
  /\ entry' = Nothing
  /\ SetRun(r, "popped")
  /\ UNCHANGED <<rowVars, requestVars, conv, result, queue, adapterVars, setupVars>>

\* The executor completes the future after the wrapped operation has returned.
CompleteFuture(r) ==
  /\ run[r] = "popped"
  /\ SetRun(r, "done")
  /\ UNCHANGED <<rowVars, requestVars, conv, result, runnerVars, adapterVars, setupVars>>

-----------------------------------------------------------------------------
(* The OpenHands adapter and its client *)

Return(r, next, id) ==
  /\ result' = [result EXCEPT ![r] = [next |-> next, id |-> id]]
  /\ SetRun(r, "returned")

\* Mutant of EnsureSession: the binding is not looked at.
EnsureFromBundle(r) ==
  /\ run[r] = "ensure"
  /\ SetRun(r, IF bundle THEN "create" ELSE "raised")
  /\ UNCHANGED <<rowVars, requestVars, conv, result, runnerVars, adapterVars, setupVars>>

\* _ensure_runtime_session: the conversation bound to the session, or else one
\* to be opened from the bundle that create_session stored.
EnsureSession(r) ==
  /\ run[r] = "ensure"
  /\ conv' = [conv EXCEPT ![r] = binding]
  /\ SetRun(r, IF binding # Nothing THEN "send" ELSE IF bundle THEN "create" ELSE "raised")
  /\ UNCHANGED <<rowVars, requestVars, result, runnerVars, adapterVars, setupVars>>

\* client.create_session, remote and slow, then the binding.
OpenConversation(r) ==
  /\ run[r] = "create"
  /\ conversations' = conversations \cup {r}
  /\ binding' = r
  /\ conv' = [conv EXCEPT ![r] = r]
  /\ SetRun(r, "send")
  /\ UNCHANGED <<rowVars, requestVars, result, runnerVars, bundle, held, setupVars>>

\* client.send_message; only the event of a creation is returned raw.
SendPrompt(r) ==
  /\ run[r] = "send"
  /\ conv[r] \in conversations
  /\ held' = NextStateOf(op[r])
  /\ Return(r, NextStateOf(op[r]), IF conv[r] = r THEN r ELSE Nothing)
  /\ UNCHANGED <<rowVars, requestVars, conv, runnerVars, bundle, binding, conversations,
                 setupVars>>

\* Mutant of CancelRuntime: the conversation is closed but stays known.
CancelKeeping(r) ==
  /\ run[r] = "cancel"
  /\ binding \in conversations \cup {Nothing}
  /\ held' = "cancelled"
  /\ Return(r, "cancelled", binding)
  /\ UNCHANGED <<rowVars, requestVars, conv, runnerVars, bundle, binding, conversations,
                 setupVars>>

\* adapter.cancel: the client forgets the conversation, the adapter does not.
CancelRuntime(r) ==
  /\ run[r] = "cancel"
  /\ binding \in conversations \cup {Nothing}
  /\ conversations' = conversations \ {binding}
  /\ held' = "cancelled"
  /\ Return(r, "cancelled", binding)
  /\ UNCHANGED <<rowVars, requestVars, conv, runnerVars, bundle, binding, setupVars>>

\* answer_permission reports the state that the adapter holds, idle if none.
AnswerRuntime(r) ==
  /\ run[r] = "answer"
  /\ binding \in conversations
  /\ Return(r, held, binding)
  /\ UNCHANGED <<rowVars, requestVars, conv, runnerVars, adapterVars, setupVars>>

\* Every call may raise: the server is remote, a conversation may be unknown.
RuntimeRaises(r) ==
  /\ run[r] \in {"create", "send", "cancel", "answer"}
  /\ SetRun(r, "raised")
  /\ UNCHANGED <<rowVars, requestVars, conv, result, runnerVars, adapterVars, setupVars>>

-----------------------------------------------------------------------------
(* What a handler or a job does with the answer of the runtime *)

AppendResult(r) ==
  /\ run[r] = "returned"
  /\ BindRow(result[r].id)
  /\ SetRun(r, "appended")
  /\ UNCHANGED <<requestVars, conv, result, runnerVars, adapterVars, setupVars>>

\* set_session_state with result.next_state: neither table nor row is consulted.
SaveResult(r) ==
  /\ run[r] = "appended"
  /\ SaveSession(view[r], result[r].next)
  /\ SetRun(r, "saved")
  /\ IF IsJob(r) THEN UNCHANGED pc ELSE Goto(r, "finished")
  /\ UNCHANGED <<kind, op, view, prev, conv, result, runnerVars, adapterVars, setupVars>>

\* Mutant of RestoreStatus: only the error is reported.
RestoreNothing(r) ==
  /\ run[r] = "raised"
  /\ SetRun(r, "failed")
  /\ IF IsJob(r) THEN UNCHANGED pc ELSE Goto(r, "error")
  /\ UNCHANGED <<rowVars, kind, op, view, prev, conv, result, runnerVars, adapterVars, setupVars>>

\* The except branches go back to the status before the operation or the
\* cancellation; answer_permission and the websocket's cancel restore nothing.
RestoreStatus(r) ==
  /\ run[r] = "raised"
  /\ IF kind[r] \in {"ws_cancel", "answer"} THEN UNCHANGED rowVars
     ELSE SaveSession(view[r], prev[r])
  /\ SetRun(r, "failed")
  /\ IF IsJob(r) THEN UNCHANGED pc ELSE Goto(r, "error")
  /\ UNCHANGED <<kind, op, view, prev, conv, result, runnerVars, adapterVars, setupVars>>

-----------------------------------------------------------------------------
(* The specification *)

\* Memory is lost, and with it handlers, jobs, bundle and binding; then
\* _recover_interrupted_sessions fails a session that was left running.
Restart ==
  /\ restarts < MaxRestarts
  /\ restarts' = restarts + 1
  /\ status' = IF status \in RunningStates THEN "failed" ELSE status
  /\ creation' = IF CreationOver \/ creation = "none" THEN creation ELSE "aborted"
  /\ pc' = [r \in Requests |-> IF IsAnswered(r) THEN pc[r] ELSE "aborted"]
  /\ run' = [r \in Requests |-> IF CallOver(r) THEN run[r] ELSE "lost"]
  /\ entry' = Nothing /\ queue' = <<>>
  /\ bundle' = FALSE /\ binding' = Nothing /\ held' = "idle" /\ conversations' = {}
  /\ UNCHANGED <<habit, stored, kind, op, view, prev, conv, result>>

Init ==
  /\ habit \in Habits
  /\ creation = "none"
  /\ status = "absent" /\ stored = Nothing
  /\ pc = [r \in Requests |-> "idle"]
  /\ kind = [r \in Requests |-> "none"]
  /\ op = [r \in Requests |-> "none"]
  /\ view = [r \in Requests |-> [status |-> "absent", stored |-> Nothing]]
  /\ prev = [r \in Requests |-> "absent"]
  /\ run = [r \in Requests |-> "none"]
  /\ conv = [r \in Requests |-> Nothing]
  /\ result = [r \in Requests |-> [next |-> "idle", id |-> Nothing]]
  /\ entry = Nothing /\ queue = <<>>
  /\ bundle = FALSE /\ binding = Nothing /\ held = "idle" /\ conversations = {}
  /\ restarts = 0

HandlerStep(r) ==
  \/ EnterEarly(r) \/ EnterLate(r) \/ EnterSync(r) \/ EnterCancel(r) \/ EnterUnchecked(r)
  \/ CheckRunner(r) \/ PutPlaceholder(r) \/ SubmitJob(r) \/ PutFuture(r)

RunStep(r) ==
  \/ StartJob(r)
  \/ EnsureSession(r) \/ OpenConversation(r) \/ SendPrompt(r)
  \/ CancelRuntime(r) \/ AnswerRuntime(r) \/ RuntimeRaises(r)
  \/ AppendResult(r) \/ SaveResult(r) \/ RestoreStatus(r)
  \/ PopEntry(r) \/ CompleteFuture(r)

Next ==
  \/ CreationStep
  \/ \E r \in Requests, k \in AllKinds, o \in Ops \cup {"none"} : Submit(r, k, o)
  \/ \E r \in Requests : HandlerStep(r)
  \/ \E r \in Requests : RunStep(r)
  \/ Restart
  \/ Quiet /\ UNCHANGED vars   \* nobody asks for anything more

Spec == Init /\ [][Next]_vars

-----------------------------------------------------------------------------
(* Properties *)

Calls == {"none", "queued", "ensure", "create", "send", "cancel", "answer", "returned",
          "appended", "raised", "saved", "failed", "popped", "done", "lost"}
RowStatuses == Statuses \cup {"absent"}

TypeOK ==
  /\ habit \in Habits
  /\ creation \in {"none", "saved", "built", "undo", "created", "failed", "error", "aborted"}
  /\ status \in RowStatuses /\ stored \in Ids
  /\ pc \in [Requests -> Answered \cup {"idle", "read", "entered", "free", "prepared",
                                        "placed", "submitted", "calling"}]
  /\ kind \in [Requests -> AllKinds \cup {"none"}]
  /\ op \in [Requests -> Operations \cup {"none"}]
  /\ view \in [Requests -> [status : RowStatuses, stored : Ids]]
  /\ prev \in [Requests -> RowStatuses]
  /\ run \in [Requests -> Calls] /\ conv \in [Requests -> Ids]
  /\ result \in [Requests -> [next : SettledStates, id : Ids]]
  /\ entry \in Entries /\ queue \in Seq(Requests)
  /\ bundle \in BOOLEAN /\ binding \in Ids /\ held \in SettledStates
  /\ conversations \subseteq Requests
  /\ restarts \in 0..MaxRestarts

\* An entry of _running always belongs to somebody who is going to remove or
\* replace it: a handler inside submit, or a job that has not left.  However the
\* threads of two requests interleave, the last one out leaves no entry behind,
\* which would answer 409 to every background request until the next restart.
EntryMeansWork ==
  entry # Nothing => \E r \in Requests :
    \/ entry = Placeholder(r) /\ pc[r] \in {"placed", "submitted"}
    \/ entry = JobFuture(r) /\ JobLive(r)

\* The check and the entry keep background operations apart for clients that
\* await each answer before the next request, even while a job is running.
JobsApart ==
  habit # "anytime" => \A q, r \in Requests : JobLive(q) /\ JobLive(r) => q = r

\* Once everything a waiting client asked for is over, whatever of it failed or
\* was interrupted, the session does not show a running status.
NoStuckRunning == habit = "finished" /\ Quiet => status \notin RunningStates

\* All the prompts of a session go to one conversation: what the agent was told
\* before is never lost to a second one opened beside it.
OneConversation ==
  habit = "finished" => Cardinality({r \in Requests : conv[r] = r}) <= 1

\* When the prompt that opened the conversation succeeded, the row names it from
\* then on, although every handler saves a dict it read before that.
ConversationRecorded ==
  habit = "finished" /\ Quiet =>
    \A r \in Requests : conv[r] = r /\ result[r].id = r /\ run[r] # "lost" => stored = r

\* A session whose cancellation was confirmed stays cancelled, and with it its
\* conversation, whatever a waiting client asks for afterwards.
CancelIsFinal ==
  habit = "finished" /\ Quiet /\ (\E r \in Requests : kind[r] = "cancel" /\ pc[r] = "finished")
    => status = "cancelled" /\ conversations = {}

\* A creation is whole: answered with a session, both its row and its bundle are
\* there (until a restart); undone, because a file is missing (422) or the adapter
\* refuses (502), no row is left to be listed.  (An exception that nothing
\* catches, 500, does leave the row.)
CreationIsWhole ==
  /\ creation = "created" /\ restarts = 0 => status # "absent" /\ bundle
  /\ creation = "failed" /\ habit # "anytime" => status = "absent"

\* The request whose operation, or cancellation, shows in the row: it has
\* entered its status, and has not yet written how it ended.
Shows(r) ==
  \/ pc[r] \in {"entered", "prepared", "placed"}
  \/ /\ kind[r] \in Prompts \cup {"cancel"}
     /\ run[r] \in {"queued", "ensure", "create", "send", "cancel", "returned", "appended",
                   "raised"}
Showing == {r \in Requests : Shows(r)}
Shown == CHOOSE r \in Showing : TRUE

Session == INSTANCE SessionLifecycle WITH
  Ops <- Operations, InitialStatuses <- {"absent"},
  active <- IF Showing = {} THEN "none" ELSE IF kind[Shown] = "cancel" THEN "cancel"
            ELSE op[Shown],
  origin <- IF Showing = {} THEN "none" ELSE prev[Shown]

\* The writes of results consult neither the table nor the row, and everything
\* but the row is lost in a restart.  Yet what a waiting client sees is a session
\* with one operation at a time, each of which ends in what the runtime reports,
\* goes back to where it began, or is failed by a restart.
ImplementsSession ==
  /\ Session!Init
  /\ [][habit = "finished" => Session!DisturbedNext \/ UNCHANGED Session!vars]_vars
=============================================================================
