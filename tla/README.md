# doc-mimicry in TLA+

Specifications of doc-mimicry (DocAgent): its session service in both deployments, the
files of a task, the skill packs, and the web page as an editor and a reader of events,
wherever several actors work on the same rows, files or memory. They are checked with TLC
on small instances, and the most important safety properties are proved with TLAPS for
every number of requests, workers, publishers and restarts.

Paths below are relative to the root of the repository; `routes/`, `state.py` and the
other bare names are under `services/api/docagent_api/`.

## 1. The system

A user edits a document (a *task*) in a web workbench and asks an agent to write parts of
it (a *session* of the task). The API stores tasks, sessions and events in a database and
draft files in a workspace directory; a *runtime adapter* runs the prompts, either inside
the API process (inline deployment) or in Celery workers (`DOCAGENT_QUEUE=celery`).

| Component | State it keeps | Operations | Talks to |
|---|---|---|---|
| Session state machine (`session_state.py`) | none; the transition table | `require_transition`, `is_running_state` | every handler |
| Session and lease rows (`state.py`, `db.py`) | `sessions.state`, `sessions.celery_task_id` (the operation lease) | `save_session`, `acquire_operation_lease`, `release_operation_lease`, `mark_stale_operations` | handlers, workers, startup |
| Operation endpoints (`routes/sessions.py`, `routes/_shared.py`) | a dict of the session per request | start-loop, approve-outline, revise, checklist, export, message, cancel, permission answers | rows, broker, adapter |
| Worker task (`worker_tasks.py`, `celery_app.py`) | a dict of the session per task | `run_session` | rows, adapter, broker |
| Startup recovery (`app.py`) | none | `_recover_interrupted_sessions` | rows |
| ACP websocket (`routes/acp_ws.py`) | the client's capabilities | initialize, session/new, session/prompt, session/cancel, replay | rows, adapter, event log |
| Inline runner (`background.py`) | thread pool, `_running` | `submit`, `is_running`, `shutdown` | handlers |
| Runtime adapters (`agent/runtime-adapters/`) | bindings and states by session | `create_session`, `send_prompt`, `cancel`, `answer_permission` | agent server |
| ACP event log and streams (`state.py`, the stream endpoints, `apps/web/src/shell/acp/`, `useTimeline.ts`) | `acp_events` rows; the page's merged list | append, list after, SSE polling, merge by message id | workers, page |
| Drafts and checkpoints (`routes/tasks.py`, `drafts.py`, `packages/workspace/`, `useAutoSave.ts`) | `draft.md`, numbered versions, the unsaved text of the editor | read, autosave, checkpoint | workers write the same file |
| Skill packs (`skill_packs.py`, `routes/skill_packs.py`) | pack and version rows, snapshot directories | create, validate, publish, bootstrap | creator sessions |
| Imports, timeline projection, document types, prompts, file browser, migration | files | pure conversions and reads | |

How they interact: handlers run concurrently in FastAPI's thread pool, each on the dict
it read when it started; every call of `state.py` is one database transaction. A
background request leaves a message in the broker; a worker takes it and works on its own
dict. The page polls the rows and streams the events. Nothing but the database row (and
the conditional UPDATE that acquires a lease) synchronises these actors.

### Behaviours that are hard

* two handlers, or a handler and a worker, between any two transactions of the other;
* dicts read before a decision and written after it (`save_session` writes back the state
  and, if the dict has it, the lease);
* the exchange of the placeholder lease for the task id after `delay()` returned, while
  the worker is already running;
* a cancellation while the task waits, runs, or is about to store its result;
* the status that is restored after a failure (read before the operation began);
* a worker lost before it acknowledges; an API restart while workers keep running;
* an event log read by id while events are being committed, by a client that reconnects;
* files (drafts, snapshots, versions, imports) checked first and written later, and a
  write that truncates before it writes;
* a dict in memory that says which session has a job, updated by handlers and jobs;
* bindings, bundles and conversations in memory, which a restart loses while rows stay;
* a bootstrap that is cut off and begun anew at the next start;
* a page whose local text, cached text and text in flight differ, for the task shown and
  for the one shown before.

### What makes each component correct

* *Lease and workers*: two operations of a session never overlap; the lease is held only
  while there is something to wait for; every accepted prompt is handled, and none is
  repeated unless its worker was lost.
* *Session status*: what the status reports was earned; a running status is left again;
  cancellation is respected; final statuses are final.
* *Event log and page*: the page ends up with every event, each once, in order.
* *Inline runner*: one job at a time, no entry that outlives its work, one conversation
  per session, and a status that comes to rest when the client has waited.
* *Drafts in the workspace*: what an agent replaces was checkpointed; versions are numbered
  without gaps, complete, and never replaced; imports keep their own files.
* *The page as an editor*: what is typed in a task is saved to that task; "saved" means
  stored; a checkpoint holds what the user saw.
* *Skill packs*: published versions are immutable, numbered without gaps or reuse, every
  version row has its snapshot, which passed the validation; a seed gets published.

## 2. The plan

Modules, in the order they are written; each step is a usable project by itself.

| Step | Module | State | What it is for |
|---|---|---|---|
| 1, done | `SessionStates` | – | statuses, the transition table, what each operation enters and ends in |
| 1, done | `CeleryOps` | row, request handlers, broker, workers, adapter memory | every operation of one session in the Celery deployment, with faults |
| 1, done | `SequentialClient` | – (composes `CeleryOps` with a client) | the page as a client; what the lease guarantees it |
| 1, done | `SessionLifecycle` | status, active operation | the abstract promise that `SequentialClient` is shown to implement |
| 2, done | `TimelineView` | event table, stream, fetches, page | the path of an event from a worker to the page |
| 2, done | `SkillPacks` | draft, snapshots, rows, publishers, creators, bootstrap | creating and publishing under concurrency, failure and restart |
| 3, done | `TaskWorkspace` | draft, versions, imports of a task, requests, operations | file steps of requests and agents interleaved; version numbers; imports |
| 3, done | `DraftEditor` | the page's drafts, query cache, autosave hook, saves in flight | what the user typed reaches the right draft and stays there |
| 4, done | `InlineSessions` | row, handlers, `_running`, pool, adapter and conversations | the default deployment without a broker, against the same `SessionLifecycle` |
| 5, done | theorems | – | the safety properties of `TaskWorkspace` and `InlineSessions`; both refinements of `SessionLifecycle`; `MilestoneEarned` of `CeleryOps` |
| 6, done | theorems | – | `DraftEditor` and the safety properties of `TimelineView` |

The abstract specification is `SessionLifecycle`, for both deployments. The order was: the
lease first, because it is the only synchronisation the service has; then the two places
where data is published to readers (events, packs); then the files and the page, which
have no synchronisation at all; then the deployment that is the default but has fewer
actors.

## 3. The modules and the code

### `SessionStates`

`AllowedTransitions` and `MayMove` are `ALLOWED_TRANSITIONS` and `require_transition` of
`session_state.py`. `RunningStateOf` is the status each endpoint passes to
`prepare_transition`; `NextStateOf` is `_next_state_for_prompt_action` of the OpenHands
adapter. An operation is an *action* at its own endpoint, or a prompt of `POST
/sessions/{id}/prompt`, which performs the action its metadata names (`ActionOf`) but
enters `running_chat` whatever that is. `EarlyOperations` are the two endpoints
(`approve_outline`, `revise_selection`) that enter their running status before the lease
is requested.

### `CeleryOps`

One session. A step is one database transaction, one broker call or one runtime call.

| Code | Here |
|---|---|
| `sessions.status`, `sessions.celery_task_id` | `status`, `lease` |
| the dict a handler works on | `view[r]`; `pc[r]` is the point the handler has reached |
| `previous_state_on_failure` | `prev[r]` |
| broker queue; ids the workers know revoked | `queue`, `revoked` |
| a worker, its task, the lease in its dict | `wpc`, `wtask`, `wlease` |
| calls of `send_prompt` that ran | `performed[r]` |
| `OpenHandsRuntimeAdapter._states` of the API process | `apiState` |

Life of a background request: `Submit` (`require_session`), `EnterEarly` or
`AcquirePlaceholder` then `EnterLate` (`prepare_transition`, which checks the dict and
writes the row), `Enqueue` (`run_session.delay`), `ReleasePlaceholder`,
`AcquireTaskLease`. Synchronous operations (`background=false`, `session/prompt`) are
`EnterSync`, `CallRuntime`, `FinishSync`. `cancel_session` is `CancelRevoke`,
`CancelRelease`, `CancelEnter`, `CancelRuntime`, in the order of the code.
A worker does `Receive`, `Perform`, `CheckCancelled`, `AppendAndRecheck`, `SaveResult`,
`WorkerRelease`, or after an exception `SaveFailure`. `SaveSession` writes the lease back
only if the dict has one, as the code does, because `_session_row_to_dict` leaves the key
out when it is null. `RestartApi` is `_recover_interrupted_sessions`; `LoseWorker` is what
`task_acks_late` and `task_reject_on_worker_lost` make of a lost worker.

The runtime adapter is the OpenHands one or the mock one: where they differ (an adapter
without a binding answers a permission, or cancels, in one and raises in the other) both
outcomes are possible. Requests are used once, and a task has the identity of its request.
Prompts, events and results have no content here. Operators marked *Mutant of* are
plausible bugs of the code, which the properties must notice when one of them takes the
place of its original; no specification uses them.

### `SequentialClient`, `SessionLifecycle`

`SubmitNext` lets a user ask only when the earlier requests were answered;
`SubmitPatiently` adds that nothing is sent while the row shows a running status. Both
idealise the page. `ConversationPane.submitOrCancel` awaits its call, but only a second
*cancel* is held back meanwhile, and `AcpComposer` tests an `isRunning` that is as old as
the page's last fetch, so a user who is quick enough sends a second request before the
first is answered, or while an operation runs. What is said of `SequentialClient` is about
users who wait until the page shows the answer; `concurrent_clients` and `all_faults` have
no such client. `SessionLifecycle` is a session with one
operation at a time; `DisturbedSpec` adds its creation, cancellations and restarts, for
`InlineSessions`. The refinement mapping takes the operation whose handler has prepared
it, whose task is queued, or whose worker has not yet stored its result.

### `TimelineView`

`inserted` and `committed` are the rows of `acp_events`: `Insert` allocates the id,
`Commit` makes it visible, and each writer (the API, a worker) appends in order.
`Poll` is a cycle of `stream_acp_events_sse`. The hook `useTimeline` is `SwitchSession`
(the effects and their cleanup), `ReceiveEvent`, `StreamEnds`, `Reconnect`, `Refresh`,
and its requests are `AnswerFetch`, `ApplyFetch`, `FailFetch`: the answer is taken from
the table at one moment and applied to the page at a later one. `AddEvent` is one round of
the loop of `mergeAcpEvents`, `JoinTexts` is the text that `mergeEvent` leaves. The page is
sorted by the code, so it is a set of entries. Texts are sequences of characters.

### `SkillPacks`

One pack, with or without a seed in `doc-types/`. A step is one file-system operation or
transaction of `publish_pack` and `publish_skill_pack_snapshot`. `EditDraft` is
`update_artifact`, an added resource, or the Skill Creator agent; `copy` is the temporary
directory. `published` and `rows` map version numbers to what they hold; a manifest is
identified with the content it lists. The actor `Boot` is `bootstrap_seed_skill_packs`,
which `create_app` runs before it serves requests: `BootPack`, `SeedDraft`, `FinishSeed`
(the copy is seen half done), `BootPublish`, and from there the steps of every publish.
`CheckPack` and `CreatePack` are the two transactions of `create_pack`. The history
variable `cut` remembers only the accidents that the properties exempt.

### `TaskWorkspace`

The files of one task, written by requests (`routes/tasks.py`) and by the operations of
its sessions (the mock adapter, which works in the API process).

| Code | Here |
|---|---|
| `draft/draft.md`, `versions/v*.md`, the Markdown artifact | `draft`, `versions`, `artifact` |
| `inputs/`: originals, Markdown, conversion reports | `source`, `markdown`, `report`, per stem |
| `sessions.status`, `MockRuntimeAdapter._sessions` | `status`, `bound` |
| the operations under way | `run[o]`: the point, what was read (`seen`), what will be written (`text`); a slot `o` is a session and a lane, since operations of one session may overlap |
| a request on the files | `req[r]` |

A text is the set of contributions it contains. `write_text` is two steps, since the file
is truncated first: `TruncateDraft`, `WriteDraft` (`update_draft`), `RunTruncate`,
`RunWrite`. A checkpoint is `CheckRunning`, `NumberVersion`, `CopyVersion`,
`AnnounceVersion`; a request that names a session of another task is refused in the last
one, when its version is already there. An export is `CheckDraft` (400 without a draft)
and `RenderDraft`, which reads the draft again. A message (`Look`, `RunNumber`, `RunCopy`,
`RunRead`, ...) checkpoints and then reads; the revision of a selection reads, checkpoints
and then writes; the draft that follows `approve_outline` replaces whatever is there, as
the mock adapter does. A text import runs in the thread pool (`ChooseStem`, `WriteSource`,
`WriteMarkdown`, `WriteReport`); a file upload is a coroutine that does not wait
(`UploadFile`). `cancel_session` changes the status and leaves the operation writing. `Begin` is one step
from the look at the status to its change (`InlineSessions` and `CeleryOps` have the
steps between); a second operation of the session begins if the table lets it, as from
`running_chat` to `running_chat`.
Context, outline and review files are written by one step of one operation and have no
variable.

### `DraftEditor`

One page, several tasks. `local` is `localDraft` of `AppShell`, `cache` and `fetch` the
query `["draft", task]`, `editor` what `useAutoSave` keeps between renders. `Render` is one
React render with the effects that follow it: `Reset` and `Schedule` are the two effects
of the hook, with their dependencies. `FireTimer`, `DeliverPut`, `AnswerPut` are an
autosave on its way; `CreateCheckpoint`, `AnswerCheckpoint`, `CheckpointPost` are
`createManualCheckpoint`; `SelectTask` renders twice, because the effect that drops the
local draft runs after those of the hook. `AgentStart` and `AgentFinish` write the draft on
the server. *Habits* say what the user and the network may be relied on for, and each
property names those it needs; the runs explore them as initial states. The check and the
write of `update_draft` are one step here, two in `TaskWorkspace`. The error state of the
query has no model.

### `InlineSessions`

One session of the inline deployment, on the OpenHands adapter.

| Code | Here |
|---|---|
| `sessions.status`, `sessions.runtime_session_id` | `status`, `stored` |
| a request: its handler, its dict, `previous_state` | `pc`, `kind`, `op`, `view`, `prev` |
| its runtime call, made by the handler or by a job | `run`, `conv`, `result` |
| `BackgroundRuntimeRunner._running[session_id]`, the pool's queue | `entry`, `queue` |
| `OpenHandsRuntimeAdapter`: bundles, bindings, `_states`; the client's conversations | `bundle`, `binding`, `held`, `conversations` |
| the steps of `create_session` | `creation` |

Requests are numbered in the order they arrive. `submit` is three steps under two
acquisitions of its lock: `PutPlaceholder`, `SubmitJob`, `PutFuture`; the job's `finally`
is `PopEntry`, and the executor completes the future after it (`CompleteFuture`). The
adapter's call is `EnsureSession`, `OpenConversation`, `SendPrompt`, and may raise at each
remote step. A websocket frame is handled on the event loop, so no request is taken
meanwhile (`LoopIsFree`). `Restart` loses everything but the row. The habit of the client
(`anytime`, `answered`, `finished`) says how long it waits before its next request. In
`BuildBundle` a missing file (422) and an adapter that fails (502) remove the row again;
any other exception of `build_prompt_bundle` answers 500 and leaves it (`"error"`), a
session that is idle and has no bundle. `ImplementsSession` maps the request whose
operation, or cancellation, shows in the row to the active operation of
`SessionLifecycle`.

## 4. The runs

`tlc -workers 2 -config X.cfg Module`; every run ends within five minutes.

| Run | Cfg | What it asks |
|---|---|---|
| `impatient_client` | `ImpatientClient` | does the lease keep operations apart for a client that awaits its answers but asks again while one runs? Five actions and a prompt, broker and runtime failures. |
| `patient_client` | `PatientClient` | does the service, seen by a client that sends nothing while the row shows a running status, implement `SessionLifecycle`, settle, and never stay running? |
| `concurrent_clients` | `Concurrent` | is a status that reports progress always earned, with three concurrent requests, stale dicts and failing runtimes? |
| `all_faults` | `AllKinds` | types and deliveries with every kind of request, an API restart, a lost worker, failing broker and runtime |
| `cancel_and_crash` | `CancelCrash` | is an accepted prompt handled, and a cancellation seen in time respected, if a worker is lost? |
| `timeline` | `Timeline` | does the page converge to the table, keep old sessions out, and not repeat text? |
| `skill_packs` | `SkillPacks` | are versions sound, immutable and validated, failures without trace, and is a seed published, with three publishers, two creators and two restarts? |
| `task_workspace` | `TaskWorkspace` | do drafts, versions and imports survive requests and agents that write the same files step by step? |
| `draft_editor` | `DraftEditor` | does the page save what was typed, where it was typed, and say so truthfully? |
| `inline_sessions` | `InlineSessions` | are row, runner and conversation consistent, and does a waiting client see a `SessionLifecycle`, with failures, cancellations and a restart? |
| `lease_leak` | `LeaseLeak` | violation of `ConflictMeansBusy` |
| `cross_task_save` | `CrossTaskSave` | violation of `NoCrossTaskSave` |

**Bounds.** *CeleryOps*: two or three requests and one or two workers. Every hazard above
involves at most two handlers and one worker, or one handler and two workers (a
redelivery); the third request is the one that meets what the first two left behind. One
restart and one loss suffice for a task delivered twice and for a task that outlives the
API. *TimelineView*: two fetches at a time (one stale, one fresh), three disturbances
(away, back, and a failed or manual fetch), and a log with a message in two events, an
event of another writer that may commit late, and a status event, whose arrival triggers a
fetch. *SkillPacks*: three publishers, of which two can choose the same number while the
third arrives after the failure of one; three contents, one invalid and one with warnings;
two restarts, so that a bootstrap is cut off twice, or once before and once after edits
(0.5 million distinct states). *TaskWorkspace*: two requests and two operations of one
session, which may overlap; one restart. Clients that are not patient make three requests
and operations in all (`MCBound`), which is every pair of writers of a file, and a third
(1.0 million). *DraftEditor*: two tasks, two edits, two saves in flight (an old one and a new
one), one checkpoint, one agent run, two changes of task, away and back (4.7 million).
*InlineSessions*: two requests of clients that do not wait, since `submit` of one
interferes with the job of another; three of a client that does, which is enough to open a
conversation, to break it and to ask again; one restart (2.7 million). In all of these
`run_checklist` is left out where a message does the same to the status, and one or a few
prompts stand for those that enter `running_chat` and end elsewhere; the theorems are about
all of them. Symmetry is used
for requests, workers, publishers, creators and tasks in runs without liveness.

**What stops.** Requests are used once, so `CeleryOps` has an explicit stuttering step
`AllDone` when nothing is left to do, and any other stop is reported as deadlock.
`InlineSessions` has one too, when everything asked for is over. `CHECK_DEADLOCK FALSE` in
the runs of `TimelineView` (a page without a session, with all events stored, has nothing
to do), `TaskWorkspace` and `DraftEditor` (requests, edits and switches are bounded, and a
user may simply stop).

**Fairness.** Handlers are threads and workers are processes that keep running: weak
fairness of each handler's and of each worker's steps (a lost worker is replaced by the
container's restart policy). Faults and clients are not fair. In `TimelineView` the stream
generator ends after `max_polls` cycles, the reconnection is a timer, and a request is
answered or fails: weak fairness of these. No fairness of `Poll` or `ReceiveEvent` is
needed, since the fetch of `onerror` alone brings the page up to date. Events that are
never committed need not be shown. `TaskWorkspace`, `DraftEditor` and `InlineSessions` have
no liveness properties: their behaviours are bounded and end, and what should hold at the
end is an invariant of the states in which all is quiet (`NoStuckRunning`,
`SavedIsStored`).

**Limits the properties have, and why**

* `patient_client` leaves out `approve_outline`, `revise_selection` and failures of
  `delay`: with each of them `NoStuckRunning` fails (the running status is written before
  the lease is refused; the placeholder is released but the status is not restored). They
  are under *hazards* in `PROJECT.json`.
* `MilestoneEarned` fails with an API restart (the outline is restored by a rollback that
  began before it), so `concurrent_clients` has none.
* `MilestoneEarned` counts the actions that were performed, at an endpoint or as a prompt.
* `CreationIsWhole` says that a creation answered with 422 or 502 leaves no row; one that
  ends in an uncaught exception (500) does, and is exempt.
* `CancelSuppressesResult` is for one operation and one cancellation; another request that
  read the session earlier may overwrite `cancelled`.
* `ReceiveKeepsText` is for messages with one text: a session of the mock runtime with one
  prompt, and messages of OpenHands that have ids. The mock runtime gives the messages of
  all prompts of a session one id (`{session_id}-mock-message`), so from the second prompt
  on the page shows the joined texts as one entry. When the last event it has of the
  message is received again, the branch of `mergeAcpEvents` for equal sequence numbers puts
  the text of that event in place of the joined one, until the next complete fetch. (A log
  with two texts under one message id makes TLC show it.)
* `NoGhosts` is proved for message ids that belong to one session. The ids of the mock
  runtime contain that of the session; of OpenHands, events without an id share
  `openhands-message`, and such messages of two sessions are merged while entries of the
  old one are still on the page.
* `NoGhosts` exempts `refreshTimeline`, which has no `cancelled` flag.
* `NextVersionFree` and `SeedPublished` exempt a restart between the rename and the row: the
  directory blocks the number for good. `SeedPublished` also exempts a restart in the middle
  of the copy of a seed: the next start takes the part for the whole and may publish it.
  A restart at any other step of the bootstrap is not exempt.
* `PublishedIsValid` needs users who leave the draft alone during a publish: the copy is
  made after the validation.
* In `TaskWorkspace`, `RevisionKeepsText`, `CopiesComplete` and `VersionsKept` are about
  patient clients. For others, a save that was let through lands while an agent works, a
  checkpoint copies a draft that is being rewritten, and two checkpoints get one number.
  `VersionsContiguous` is for all. `ImportsKept` exempts text imports that overlap with
  another import.
* In `DraftEditor`, each property names the habits it needs. Without `ordered`, the older of
  two saves may be the one that stays; without `awaits_draft`, a cached draft is edited and
  what was stored since is lost; without `awaits_checkpoint`, finding 2 happens.
  `SavingIsPending` needs none.
* In `InlineSessions`, `EntryMeansWork` is for all clients and `JobsApart` for those that
  await their answers, since `is_running` and `submit` are separate. The others are for
  clients that also wait for the job: otherwise a result overwrites a cancellation, a
  request refused in the moment before `_running` is cleared leaves a running status
  behind, and two prompts open two conversations.
* `ConversationRecorded` is about prompts that succeed. If the prompt that opened the
  conversation fails, later ones use it but never report it, and the row stays without it.

* No property covers two hazards. After an API restart the recovery fails the running
  session and frees its lease while the worker goes on: the failed session accepts another
  operation, and the old worker still writes its result and, with the lease in its dict,
  the lease over what the new one wrote. `all_faults` contains these behaviours, but nothing
  in the repository says what should hold of them. And a task that is delivered twice while
  its worker lives, because it took longer than `visibility_timeout`, is assumed away.

**Known to fail.** These behaviours were met while modelling. No text of the repository
excludes them, so no run claims that they are errors, but a maintainer should know them.
With two concurrent clients two tasks of one session can be queued, as the lease is free
between the release of the placeholder and the acquisition of the task id. The worker's
last look at the row and its write are two transactions, and a cancellation between them is
overwritten. `session/cancel` on the websocket consults no table and cancels a completed
session, which the REST endpoint refuses (`CancelUnasked` of `SessionLifecycle`). A fetch
that began before a streamed event takes it off the page until the next one. A failed
`approve_outline` leaves `await_outline_approval` behind whatever it began from, also
`failed`, when no outline exists.

### Findings

1. **The lease leaks** (`lease_leak`). A worker can finish and release before the handler
   exchanges the placeholder for the task id; the handler then leases the session to a
   finished task and every later operation gets 409 with nothing running.
2. **A draft crosses tasks** (`cross_task_save`). The answer of the save that precedes a
   manual checkpoint becomes the local draft of whichever task is shown by then. A user who
   changes tasks while it is under way gets the draft of the first task displayed in the
    second, and autosaved there.

## 5. The proofs

`tlapm M.tla` for the seven `*_proofs` modules. The constants are arbitrary, under the
assumption that each component's module names: `ConstantsAssumption` (kinds, operations and
start statuses are among those the code has; `NoLease` is no lease id, `Nothing` is no
request), `PackAssumption` (what is acknowledged is valid, what is valid is a content, a
seed is valid, `Absent` is no content), `WorkspaceAssumption` (requests and sessions are
finitely many, since the number of a version counts files) and `EditorAssumption` (there is
a task; `Nothing` and `Asked` are no texts) and `LogAssumption` (the log is finite and its
events have a session, a family and a text). Nothing is assumed of the numbers of requests,
workers, sessions, restarts, losses, publishers, tasks, edits or saves.

| Theorem | Says | Argument |
|---|---|---|
| `CeleryOps_proofs!TypesCorrect` | `Spec => []TypeOK` | `TypeOK` needs to know that a request about to enter a running status asks for an operation that has one: `OperationsTyped` |
| `PromptsNotRepeated` | `Spec => []PromptNotRepeated` | `DeliveryInv`: a task is in one place, and a delivery that has not run its prompt has a performance to spare (`performed <= losses`), which `LoseWorker` pays for |
| `MilestonesAreEarned` | `InitialStatuses = {"idle"} /\ MaxRestarts = 0 => (Spec => []MilestoneEarned)` | `EarnedInv`: every status that somebody may still write (in the row, a dict, the adapter's memory, or to be restored) is one that the prompts performed so far allow; `running_draft` counts as the outline, since the table lets only the outline in. `RanInv` says whose prompt has been performed |
| `SequentialClient_proofs!OneOperation` | `SequentialSpec => []OneOperationAtATime` | `LeaseInv`: the lease is free while a task is live only in the gap of the handler that sent it, and a client that awaits its answers cannot use that gap |
| `PatientPageNotStuck`, `PatientSessionIsImplemented` | `PatientOps => (PatientSpec => []NoStuckRunning)`, and `ImplementsSession` | `ShowingInv`: while an operation is in flight the row shows its status and the page asks for nothing, so what a handler has read is still there when it enters; each step is then one of `SessionLifecycle` or a stutter |
| `SkillPacks_proofs!TypesCorrect` | `Spec => []TypeOK` | `BootInv`: nobody works on a draft that is not there, and requests wait for the bootstrap |
| `VersionsAreSound` | `Spec => []VersionsSound` | `NumberInv`: the number chosen is at most one above the latest row, exactly that from the rename on, and one actor owns the renamed directory; `NextNumber` counts the rows; `BootInv` says that a pack without a row has no version to forget |
| `PublishedIsImmutable` | `Spec => VersionsImmutable` | same invariant: the directory that is removed belongs to no row |
| `FailuresLeaveNothing` | `Spec => []NextVersionFree` | same invariant; inductive relative to it |
| `SeedIsPublished` | `Spec => []SeedPublished` | `SeedInv`: until there is a version the draft is missing, being copied, or the seed; no number is blocked, by `NextVersionFree` |
| `ValidatedIsPublished` | `Spec => []PublishedIsValid` | `ValidInv`: between validation and copy the draft passes, since neither a careful user nor the bootstrap touches it; afterwards the copy does |
| `InlineSessions_proofs!TypesCorrect` | `Spec => []TypeOK` | needs which request may be at which point: a handler that is about to enter a running status has an operation that has one |
| `EntriesEnd` | `Spec => []EntryMeansWork` | for each request: a placeholder in `_running` is that of a handler inside `submit`, and a future is only put back if its job has not left |
| `JobsStayApart` | `Spec => []JobsApart` | while a job lives and its handler has answered, the job has its entry; the one request that is not answered is the only one that may be past the check |
| `CreationsAreWhole` | `Spec => []CreationIsWhole` | `CreationInv`: nobody writes before the creation is answered, and every status written was one of the session, never that of an absent row |
| `NoSessionStaysRunning` | `Spec => []NoStuckRunning` | `Staged` (which points of handler and call go together), `OneByOne`, and `StatusInv`: a running status belongs to a request that is under way and will go back to one that is not running |
| `PromptsShareOneConversation` | `Spec => []OneConversation` | `OneOpened`: the adapter stays bound to the conversation until a restart takes the bundle too, and without it none can be opened |
| `ConversationsAreRecorded` | `Spec => []ConversationRecorded` | `Recorded`: the row, and every dict and result that it is written from, names that conversation or none |
| `CancellationsAreFinal` | `Spec => []CancelIsFinal` | `CancelInv`: after a confirmed cancellation no prompt gets past the table, and what is still under way can only write `cancelled` |
| `SessionIsImplemented` | `Spec => ImplementsSession` | `HeldInv`: the state the adapter holds is the status the row is going to have, so an answer to a permission request writes back what is there; then one lemma per group of steps |
| `TaskWorkspace_proofs!TypesCorrect` | `Spec => []TypeOK` | `Sighted` (who is about to copy or render has seen a draft), `Owned` (who wrote an input took its stem, so a free stem is left for the next: a pigeonhole argument, `UniqueStemIsFree`) |
| `VersionsAreContiguous` | `Spec => []VersionsContiguous` | `Numbered`: a copy under way has the number of a version that is there, or the next |
| `RevisionsKeepText` | `Spec => []RevisionKeepsText` | `OneAtATime` (for patient clients one request and one operation, which sees the request refused or is seen by it) and `Fresh`: from its first look to its own write the draft stays what the operation read |
| `VersionsAreKept` | `Spec => VersionsKept` | same invariant: a copy under way has a number that is free |
| `CopiesAreComplete` | `Spec => []CopiesComplete` | `Whole`: without a restart the draft is empty only while somebody is writing it |
| `ImportsStayApart` | `Spec => []ImportsKept` | `Kept`: what an import has written so far is its own, since its stem was free when it was taken and nobody else takes it |
| `DraftEditor_proofs!TypesCorrect` | `Spec => []TypeOK` | `Rendered`: what the hook rendered last is what the page shows now; `CheckTyped`: a save made for a checkpoint is that of the checkpoint under way |
| `CheckpointsWaitForSaves` | `Spec => []SavingIsPending` | `PendingInv` says it of autosaves only, since the answer of a checkpoint's save does not end "saving" |
| `TasksStayApart` | `Spec => []SavesStayApart` | `ApartInv`: the same of every place that holds a text: caches, answers, local draft, checkpoint |
| `SavedMeansStored`, `CheckpointsHoldPages`, `OwnEditsStay` | `Spec => []SavedIsStored`, `[]CheckpointHoldsPage`, and `OwnEditsKept` | one invariant, `PatientInv`: saves in flight form a chain in which each holds what the ones before it hold, between what the server has and what the page shows (`SavesOrdered`); queries never bring more than the server has (`CachesOlder`); a page that was not edited shows what is stored (`Untouched`); the hook's baseline is stored (`Baseline`); and text that is neither stored nor in flight was refused (`Saved`) |
| `TimelineView_proofs!TypesCorrect` | `Spec => []TypeOK` | includes that the page has one entry per merge id, through polls, replays and answers. `MergedIn` says what holds of `MergeEvents`, a recursive function over the numbers of the events: whatever adding one event preserves. It is an induction on a set of numbers, from the least number that is not in it |
| `NoGhostsAppear` | `MessagesApart => (Spec => NoGhosts)` | `BelongInv`: every event on its way is of the session shown, so is every fetch of its effects, and a fetch brings what is of its own session; and events of a session merge with entries of that session only |
| `TextsAreKept` | `OneText => (Spec => ReceiveKeepsText)` | `TextInv`: the text of an entry, whatever was joined, is that of one of its events, so the event with the number of the entry overwrites it with itself |

None of these invariants is inductive as it stands: `PromptNotRepeated` says nothing of
tasks that were redelivered but not yet run, `OneOperationAtATime` nothing of the lease,
`VersionsSound` nothing of the numbers that publishers hold, `JobsApart` nothing of
`_running`, `MilestoneEarned` nothing of what stale dicts and rollbacks will write,
`NoStuckRunning` nothing of states that are not quiet, `SavedIsStored` nothing of saves in
flight, `NoGhosts` nothing of events and answers under way. TLC checked each strengthening on a
small instance before it was proved.

**Hypotheses.** Each is that of the run that checks the property. `OneOperation` and
`JobsStayApart` are about clients that await their answers, which the page does not enforce
(section 3); for concurrent clients both are false. `PatientOps` is that the page asks for no operation of `EarlyOperations` and that
`delay` does not raise: an early operation that is refused after the lease has leaked
(finding 1), or a broker that is down, leaves the running status behind. After a restart
the failed session accepts `approve_outline`, whose failure goes "back" to the outline;
hence `MaxRestarts = 0` in `MilestonesAreEarned`. What the theorems of `InlineSessions` and
`TaskWorkspace` and `DraftEditor` need of the client is part of the properties themselves
(`habit`, `patient`, `habits`). `MessagesApart` and `OneText` are about the log, whose
events the runtimes make: a message id is used in one session, and the events of a message
that have a text have the same. The log of `timeline` satisfies both. Both
are needed: see the limits in section 4.

Only model-checked: liveness (`OperationsSettle`, `AcceptedIsHandled`, `PageConverges`) and
`CancelSuppressesResult`, which is a temporal formula under a box.

## 6. Assumptions and what is not modelled

* A task ends within the broker's `visibility_timeout` (3600 s), so it is redelivered only
  when its worker is lost. A longer prompt is listed as a hazard.
* A database transaction succeeds; the exception is the row of a skill pack version.
* A rename onto a directory with files fails; copying a directory sees one version of the
  draft and succeeds. A commit that succeeds but reports failure is not modelled.
* The lost-broadcast outcome of `revoke` is a choice; a pool that cannot kill a running
  task (`--pool=solo`, as in `docker-compose.yml`) is `PoolTerminates = FALSE`.
* In `CeleryOps` a prompt succeeds or fails in the worker. Why it may fail there (the
  conversation of a session lives in the process that opened it, and
  `_ensure_runtime_session` raises in any other) is abstracted by that choice.
* Browsers without `EventSource`, which poll, have no model; nor have the websocket's
  `initialize` and `session/new` with its replay of events.
* Of the skill packs: the rows of resources and of artifact revisions, and the sessions of
  the Skill Creator, which have no status that anything waits for. The files of resources
  are converted by the same code as imports (`TaskWorkspace`).
* Of the page: rendering, layout, tabs, dialogs, the first choice of a task, the state of a
  failed query.
* The conversion of formats, exports, timeline projection, document types, prompts, the
  file browser and the migration are sequential file or data work and are left to tests.
