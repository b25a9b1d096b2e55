---------------------------- MODULE TaskWorkspace ----------------------------
(***************************************************************************)
(* The files of ONE task: its draft, the versions of the draft, the        *)
(* exported artifact and the imported inputs.  They are written by API     *)
(* requests (routes/tasks.py), which run concurrently, and by the runtime  *)
(* operations of the sessions of the task (the mock adapter), which run in *)
(* the API process.  No file is locked.                                    *)
(*                                                                         *)
(* A text is the set of contributions it contains: those of users, named   *)
(* by the request that saved them, and those of operations.  Replacing a   *)
(* file truncates it first, so a text may be found empty.  The inputs all  *)
(* have the same name, and several suffixes.                               *)
(***************************************************************************)
EXTENDS Naturals, FiniteSets, SessionStates

CONSTANTS
  Sessions,      \* sessions of the task
  Lanes,         \* one per operation of a session that may be under way at once
  Requests,      \* API requests on its files
  Kinds,         \* what the requests ask for
  Ops,           \* the operations that are started
  Suffixes, Convertible,   \* of imported files; those converted to Markdown
  MaxOps,        \* bound on the operations of a lane
  MaxRestarts,   \* bound on restarts of the API
  NoFile         \* no file, no suffix, no selection

AllKinds == {"save", "forced_save", "checkpoint", "checkpoint_elsewhere",
             "import_text", "upload", "export"}

Slots == Sessions \X Lanes
SessionOf(o) == o[1]
Marks == Requests \cup (Slots \X (1..MaxOps))
Texts == SUBSET Marks
NoText == {NoFile}                 \* the file does not exist
Stems == 1..Cardinality(Requests)   \* notes, notes-2, notes-3, ...

ASSUME WorkspaceAssumption ==
  /\ Kinds \subseteq AllKinds
  /\ Ops \subseteq Operations
  /\ Convertible \subseteq Suffixes
  /\ MaxOps \in Nat /\ MaxRestarts \in Nat
  /\ NoFile \notin Marks \cup Suffixes
  /\ IsFiniteSet(Requests) /\ IsFiniteSet(Sessions)

VARIABLES
  draft,       \* draft/draft.md
  versions,    \* per version number: versions/v<number>.md
  artifact,    \* the Markdown file in artifacts/
  source, markdown, report,   \* inputs/: per stem (and suffix) whose file it is
  status,      \* per session: the status of its row, "none" without a row
  bound,       \* the sessions that the adapter holds in memory
  run,         \* per slot: the operation under way
  req,         \* per request: where it is and what it works on
  page,        \* the text the user's page last fetched
  patient,     \* whether clients wait for an answer before they ask again
  restarts

inputVars == <<source, markdown, report>>
fileVars  == <<draft, versions, artifact>>
vars == <<fileVars, inputVars, status, bound, run, req, page, patient, restarts>>

Ended == {"done", "refused", "aborted"}
RequestPCs == Ended \cup {"idle", "check", "number", "copy", "announce", "truncate",
                          "write", "stem", "source", "markdown", "report", "upload",
                          "exists", "render"}
RunPCs == {"idle", "look", "number", "copy", "read", "truncate", "write", "export",
           "finish", "fail"}

-----------------------------------------------------------------------------
(* Files *)

\* read_draft and _read_text: a file that is missing reads as empty.
ReadText(text) == IF text = NoText THEN {} ELSE text

\* Mutant of NextVersion: the first version is v000.
NextVersionFromZero == Cardinality(DOMAIN versions)

\* _next_version: one more than the number of version files.
NextVersion == Cardinality(DOMAIN versions) + 1

\* copyfile to versions/, replacing a file of that number.
StoreVersion(n, text) ==
  [m \in DOMAIN versions \cup {n} |-> IF m = n THEN text ELSE versions[m]]

\* Mutant of Occupied: only the source file is looked for.
OccupiedSource(stem, suffix) == source[stem][suffix] # NoFile

\* The condition of the loop in _unique_stem.
Occupied(stem, suffix) ==
  source[stem][suffix] # NoFile \/ markdown[stem] # NoFile \/ report[stem] # NoFile

UniqueStem(suffix) ==
  CHOOSE stem \in Stems : /\ ~Occupied(stem, suffix)
                          /\ \A n \in 1..(stem - 1) : Occupied(n, suffix)

-----------------------------------------------------------------------------
(* Requests *)

SomeRunning == \E s \in Sessions : status[s] \in RunningStates
AllAnswered == \A r \in Requests : req[r].pc \in Ended \cup {"idle"}
Busy(o) == run[o].pc # "idle"
SomeBusy == \E o \in Slots : Busy(o)
Working(s) == \E o \in Slots : SessionOf(o) = s /\ Busy(o)

Step(r, label) == req' = [req EXCEPT ![r].pc = label]

FirstStep(kind) ==
  CASE kind \in {"save", "checkpoint", "checkpoint_elsewhere"} -> "check"
    [] kind = "forced_save" -> "truncate"
    [] kind = "import_text" -> "stem"
    [] kind = "upload"      -> "upload"
    [] kind = "export"      -> "exists"

\* A request: a save carries what the page shows with the user's contribution.
\* Patient clients wait for the last answer, never force, and export when the
\* agent is idle.
Submit(r, kind, suffix) ==
  /\ req[r].pc = "idle"
  /\ kind \in {"import_text", "upload"} <=> suffix # NoFile
  /\ patient => /\ AllAnswered /\ kind # "forced_save"
                /\ kind = "export" => ~SomeBusy
  /\ req' = [req EXCEPT ![r] = [pc |-> FirstStep(kind), kind |-> kind, suffix |-> suffix,
                                num |-> 0,
                                text |-> IF kind \in {"save", "forced_save"}
                                         THEN page \cup {r} ELSE {}]]
  /\ UNCHANGED <<fileVars, inputVars, status, bound, run, page, patient, restarts>>

\* Mutant of CheckRunning: the sessions of the task are not looked at.
CheckNothing(r) ==
  /\ req[r].pc = "check"
  /\ Step(r, IF req[r].kind = "save" THEN "truncate" ELSE "number")
  /\ UNCHANGED <<fileVars, inputVars, status, bound, run, page, patient, restarts>>

\* update_draft and create_draft_checkpoint: 409 while a session is running.
CheckRunning(r) ==
  /\ req[r].pc = "check"
  /\ Step(r, IF SomeRunning THEN "refused"
             ELSE IF req[r].kind = "save" THEN "truncate" ELSE "number")
  /\ UNCHANGED <<fileVars, inputVars, status, bound, run, page, patient, restarts>>

\* write_draft: the file is opened, then written.
TruncateDraft(r) ==
  /\ req[r].pc = "truncate"
  /\ draft' = {}
  /\ Step(r, "write")
  /\ UNCHANGED <<versions, artifact, inputVars, status, bound, run, page, patient, restarts>>

WriteDraft(r) ==
  /\ req[r].pc = "write"
  /\ draft' = req[r].text
  /\ req' = [req EXCEPT ![r].pc = "done", ![r].text = {}]
  /\ UNCHANGED <<versions, artifact, inputVars, status, bound, run, page, patient, restarts>>

\* checkpoint_draft: 400 without a draft, else a number ...
NumberVersion(r) ==
  /\ req[r].pc = "number"
  /\ req' = [req EXCEPT ![r].pc = IF draft = NoText THEN "refused" ELSE "copy",
                        ![r].num = NextVersion]
  /\ UNCHANGED <<fileVars, inputVars, status, bound, run, page, patient, restarts>>

\* ... and a copy of the draft under it.
CopyVersion(r) ==
  /\ req[r].pc = "copy"
  /\ versions' = StoreVersion(req[r].num, draft)
  /\ Step(r, "announce")
  /\ UNCHANGED <<draft, artifact, inputVars, status, bound, run, page, patient, restarts>>

\* _checkpoint_session.
NamesOtherTask(r) == req[r].kind = "checkpoint_elsewhere"

\* The event of the checkpoint.  A request that names a session of another task
\* is refused only here, when the version is there already.
AnnounceVersion(r) ==
  /\ req[r].pc = "announce"
  /\ Step(r, IF NamesOtherTask(r) THEN "refused" ELSE "done")
  /\ UNCHANGED <<fileVars, inputVars, status, bound, run, page, patient, restarts>>

\* Mutant of CheckDraft: nothing asks whether there is a draft.
CheckNoDraft(r) ==
  /\ req[r].pc = "exists"
  /\ Step(r, "render")
  /\ UNCHANGED <<fileVars, inputVars, status, bound, run, page, patient, restarts>>

\* _export_draft_artifact: 400 without a draft.  No session status is looked at.
CheckDraft(r) ==
  /\ req[r].pc = "exists"
  /\ Step(r, IF draft = NoText THEN "refused" ELSE "render")
  /\ UNCHANGED <<fileVars, inputVars, status, bound, run, page, patient, restarts>>

\* export_markdown_to_docx and _pdf: the draft is read and rendered to a file of
\* the request's own, kept in req[r].text.
RenderDraft(r) ==
  /\ req[r].pc = "render"
  /\ req' = [req EXCEPT ![r].pc = "done", ![r].text = ReadText(draft)]
  /\ UNCHANGED <<fileVars, inputVars, status, bound, run, page, patient, restarts>>

\* GET draft: the page shows the current draft.
FetchDraft ==
  /\ page' = ReadText(draft)
  /\ UNCHANGED <<fileVars, inputVars, status, bound, run, req, patient, restarts>>

-----------------------------------------------------------------------------
(* Imports (convert_resource_bytes) *)

\* A text import runs in the thread pool, step by step.
ChooseStem(r) ==
  /\ req[r].pc = "stem"
  /\ req' = [req EXCEPT ![r].pc = "source", ![r].num = UniqueStem(req[r].suffix)]
  /\ UNCHANGED <<fileVars, inputVars, status, bound, run, page, patient, restarts>>

WriteSource(r) ==
  /\ req[r].pc = "source"
  /\ source' = [source EXCEPT ![req[r].num][req[r].suffix] = r]
  /\ Step(r, IF req[r].suffix \in Convertible THEN "markdown" ELSE "report")
  /\ UNCHANGED <<fileVars, markdown, report, status, bound, run, page, patient, restarts>>

WriteMarkdown(r) ==
  /\ req[r].pc = "markdown"
  /\ markdown' = [markdown EXCEPT ![req[r].num] = r]
  /\ Step(r, "report")
  /\ UNCHANGED <<fileVars, source, report, status, bound, run, page, patient, restarts>>

WriteReport(r) ==
  /\ req[r].pc = "report"
  /\ report' = [report EXCEPT ![req[r].num] = r]
  /\ Step(r, "done")
  /\ UNCHANGED <<fileVars, source, markdown, status, bound, run, page, patient, restarts>>

\* A file upload is a coroutine that does not wait after it has read the file:
\* the event loop runs it to its end before another upload.
UploadFile(r) ==
  LET suffix == req[r].suffix
      stem   == UniqueStem(suffix)
  IN /\ req[r].pc = "upload"
     /\ source' = [source EXCEPT ![stem][suffix] = r]
     /\ markdown' = IF suffix \in Convertible THEN [markdown EXCEPT ![stem] = r] ELSE markdown
     /\ report' = [report EXCEPT ![stem] = r]
     /\ req' = [req EXCEPT ![r].pc = "done", ![r].num = stem]
     /\ UNCHANGED <<fileVars, status, bound, run, page, patient, restarts>>

-----------------------------------------------------------------------------
(* Sessions and their operations (MockRuntimeAdapter) *)

Mark(o) == <<o, run[o].count>>
Proceed(o, label) == run' = [run EXCEPT ![o].pc = label]

\* No operation is under way; count operations were started so far.
NoRun(count) == [pc |-> "idle", op |-> "none", prev |-> "idle", selection |-> NoFile,
                 seen |-> {}, text |-> {}, num |-> 0, count |-> count]
GoIdle(o) == run' = [run EXCEPT ![o] = NoRun(@.count)]

\* create_session: the row, then the session of the adapter.
CreateSession(s) ==
  /\ status[s] = "none"
  /\ patient => AllAnswered
  /\ status' = [status EXCEPT ![s] = "idle"]
  /\ bound' = bound \cup {s}
  /\ UNCHANGED <<fileVars, inputVars, run, req, page, patient, restarts>>

\* The adapter dispatches on the action of the prompt.
EntryOf(action) ==
  CASE action = "approve_outline" -> "truncate"
    [] action = "export_markdown" -> "export"
    [] action \in {"send_message", "revise_selection"} -> "look"
    [] OTHER -> "finish"

\* An operation begins if the table allows it; nothing else keeps two operations
\* of one session apart.  The user selects something that the page shows.
\* Patient clients start nothing while anything is under way in the task.
Begin(o, op, selection) ==
  LET s == SessionOf(o) IN
  /\ status[s] # "none" /\ ~Busy(o)
  /\ run[o].count < MaxOps
  /\ MayMove(status[s], RunningStateOf[op])
  /\ patient => AllAnswered /\ ~SomeBusy
  /\ run' = [run EXCEPT ![o] =
       [pc        |-> IF s \in bound THEN EntryOf(ActionOf(op)) ELSE "fail",
        op        |-> op,
        prev      |-> IF op = "approve_outline" THEN "await_outline_approval" ELSE status[s],
        selection |-> selection,
        seen      |-> {},
        text      |-> {<<o, run[o].count + 1>>},
        num       |-> 0,
        count     |-> run[o].count + 1]]
  /\ status' = [status EXCEPT ![s] = RunningStateOf[op]]
  /\ UNCHANGED <<fileVars, inputVars, bound, req, page, patient, restarts>>

\* Mutant of Look: a selection is replaced without a checkpoint.
LookNoCheckpoint(o) ==
  /\ run[o].pc = "look"
  /\ IF draft = NoText
     THEN Proceed(o, IF ActionOf(run[o].op) = "send_message" THEN "truncate" ELSE "fail")
     ELSE run' = [run EXCEPT ![o].pc = "truncate", ![o].seen = draft,
                             ![o].text = draft \cup {Mark(o)}]
  /\ UNCHANGED <<fileVars, inputVars, status, bound, req, page, patient, restarts>>

\* A message revises a draft that is there, else writes the first one.  The
\* revision of a selection needs a draft, and the selected text in it.
Look(o) ==
  /\ run[o].pc = "look"
  /\ \/ /\ ActionOf(run[o].op) = "send_message"
        /\ Proceed(o, IF draft = NoText THEN "truncate" ELSE "number")
     \/ /\ ActionOf(run[o].op) = "revise_selection"
        /\ IF draft = NoText \/ run[o].selection \notin ReadText(draft)
           THEN Proceed(o, "fail")
           ELSE run' = [run EXCEPT ![o].pc = "number", ![o].seen = draft,
                          ![o].text = (draft \ {run[o].selection}) \cup {Mark(o)}]
  /\ UNCHANGED <<fileVars, inputVars, status, bound, req, page, patient, restarts>>

\* The checkpoint before a revision.
RunNumber(o) ==
  /\ run[o].pc = "number"
  /\ run' = [run EXCEPT ![o].pc = "copy", ![o].num = NextVersion]
  /\ UNCHANGED <<fileVars, inputVars, status, bound, req, page, patient, restarts>>

RunCopy(o) ==
  /\ run[o].pc = "copy"
  /\ versions' = StoreVersion(run[o].num, draft)
  /\ Proceed(o, IF ActionOf(run[o].op) = "send_message" THEN "read" ELSE "truncate")
  /\ UNCHANGED <<draft, artifact, inputVars, status, bound, req, page, patient, restarts>>

\* _revise reads the draft after the checkpoint and appends to what it read.
RunRead(o) ==
  /\ run[o].pc = "read"
  /\ run' = [run EXCEPT ![o].pc = "truncate", ![o].seen = draft,
                        ![o].text = draft \cup {Mark(o)}]
  /\ UNCHANGED <<fileVars, inputVars, status, bound, req, page, patient, restarts>>

RunTruncate(o) ==
  /\ run[o].pc = "truncate"
  /\ draft' = {}
  /\ Proceed(o, "write")
  /\ UNCHANGED <<versions, artifact, inputVars, status, bound, req, page, patient, restarts>>

RunWrite(o) ==
  /\ run[o].pc = "write"
  /\ draft' = run[o].text
  /\ Proceed(o, "finish")
  /\ UNCHANGED <<versions, artifact, inputVars, status, bound, req, page, patient, restarts>>

RunExport(o) ==
  /\ run[o].pc = "export"
  /\ artifact' = ReadText(draft)
  /\ Proceed(o, "finish")
  /\ UNCHANGED <<draft, versions, inputVars, status, bound, req, page, patient, restarts>>

\* The state the adapter reports is stored, whatever the status became meanwhile.
RunFinish(o) ==
  /\ run[o].pc = "finish"
  /\ status' = [status EXCEPT ![SessionOf(o)] = NextStateOf(run[o].op)]
  /\ GoIdle(o)
  /\ UNCHANGED <<fileVars, inputVars, bound, req, page, patient, restarts>>

RunFail(o) ==
  /\ run[o].pc = "fail"
  /\ status' = [status EXCEPT ![SessionOf(o)] = run[o].prev]
  /\ GoIdle(o)
  /\ UNCHANGED <<fileVars, inputVars, bound, req, page, patient, restarts>>

\* cancel_session: the status changes, the operation goes on.
CancelSession(s) ==
  /\ s \in bound
  /\ MayMove(status[s], "cancelled")
  /\ patient => AllAnswered /\ ~Working(s)
  /\ status' = [status EXCEPT ![s] = "cancelled"]
  /\ UNCHANGED <<fileVars, inputVars, bound, run, req, page, patient, restarts>>

\* The API process stops between any two steps, and starts again.
Restart ==
  /\ restarts < MaxRestarts
  /\ restarts' = restarts + 1
  /\ bound' = {}
  /\ status' = [s \in Sessions |-> IF status[s] \in RunningStates THEN "failed" ELSE status[s]]
  /\ run' = [o \in Slots |-> NoRun(run[o].count)]
  /\ req' = [r \in Requests |-> IF req[r].pc \in Ended \cup {"idle"} THEN req[r]
                                ELSE [req[r] EXCEPT !.pc = "aborted"]]
  /\ UNCHANGED <<fileVars, inputVars, page, patient>>

-----------------------------------------------------------------------------
(* The specification *)

\* create_task: the directories of the task, no draft, no sessions yet.
Init ==
  /\ draft = NoText
  /\ versions = [n \in {} |-> NoText]
  /\ artifact = NoText
  /\ source = [n \in Stems |-> [x \in Suffixes |-> NoFile]]
  /\ markdown = [n \in Stems |-> NoFile]
  /\ report = [n \in Stems |-> NoFile]
  /\ status = [s \in Sessions |-> "none"]
  /\ bound = {}
  /\ run = [o \in Slots |-> NoRun(0)]
  /\ req = [r \in Requests |-> [pc |-> "idle", kind |-> "none", suffix |-> NoFile,
                                num |-> 0, text |-> {}]]
  /\ page = {}
  /\ patient \in BOOLEAN
  /\ restarts = 0

RequestStep(r) ==
  \/ CheckRunning(r)
  \/ TruncateDraft(r)
  \/ WriteDraft(r)
  \/ NumberVersion(r)
  \/ CopyVersion(r)
  \/ AnnounceVersion(r)
  \/ CheckDraft(r)
  \/ RenderDraft(r)
  \/ ChooseStem(r)
  \/ WriteSource(r)
  \/ WriteMarkdown(r)
  \/ WriteReport(r)
  \/ UploadFile(r)

RunStep(o) ==
  \/ Look(o)
  \/ RunNumber(o)
  \/ RunCopy(o)
  \/ RunRead(o)
  \/ RunTruncate(o)
  \/ RunWrite(o)
  \/ RunExport(o)
  \/ RunFinish(o)
  \/ RunFail(o)

Next ==
  \/ \E r \in Requests, k \in Kinds, x \in Suffixes \cup {NoFile} : Submit(r, k, x)
  \/ \E r \in Requests : RequestStep(r)
  \/ FetchDraft
  \/ \E s \in Sessions : CreateSession(s)
  \/ \E o \in Slots, op \in Ops, m \in page \cup {NoFile} : Begin(o, op, m)
  \/ \E o \in Slots : RunStep(o)
  \/ \E s \in Sessions : CancelSession(s)
  \/ Restart

Spec == Init /\ [][Next]_vars

-----------------------------------------------------------------------------
(* Properties *)

RequestRecords == [pc : RequestPCs, kind : AllKinds \cup {"none"}, suffix : Suffixes \cup {NoFile},
                   num : Nat, text : Texts]
RunRecords == [pc : RunPCs, op : Operations \cup {"none"}, prev : Statuses,
               selection : Marks \cup {NoFile}, seen : Texts, text : Texts,
               num : Nat, count : 0..MaxOps]

TypeOK ==
  /\ {draft, artifact} \subseteq Texts \cup {NoText}
  /\ DOMAIN versions \subseteq Nat /\ \A n \in DOMAIN versions : versions[n] \in Texts
  /\ source \in [Stems -> [Suffixes -> Requests \cup {NoFile}]]
  /\ {markdown, report} \subseteq [Stems -> Requests \cup {NoFile}]
  /\ status \in [Sessions -> Statuses \cup {"none"}]
  /\ bound \subseteq Sessions
  /\ run \in [Slots -> RunRecords]
  /\ req \in [Requests -> RequestRecords]
  /\ page \in Texts
  /\ patient \in BOOLEAN
  /\ restarts \in 0..MaxRestarts

\* Whatever runs at the same time, the version files are v001, v002, ... without
\* a gap: the number of files, which the next number is computed from, is the
\* last number.
VersionsContiguous == DOMAIN versions = 1..Cardinality(DOMAIN versions)

\* "Before meaningful revisions, the current draft should be checkpointed"
\* (workspace-contract.md): when an operation replaces a draft that it revises,
\* nothing was saved since it read that draft, and a version holds it.
\* (For patient clients: a save that was let through before the operation began
\* may land at any time.)
RevisionKeepsText ==
  patient => \A o \in Slots :
    run[o].pc = "truncate" /\ run[o].seen # {} =>
      /\ draft = run[o].seen
      /\ \E n \in DOMAIN versions : versions[n] = run[o].seen

\* Every copy of the draft, a version or an exported document, is of a whole
\* draft, never of one that was being rewritten or was not there, as long as
\* clients are patient and no restart cut a write short.
CopiesComplete ==
  patient /\ restarts = 0 =>
    /\ \A n \in DOMAIN versions : versions[n] # {}
    /\ \A r \in Requests : req[r].kind = "export" /\ req[r].pc = "done" => req[r].text # {}

\* Checkpoints of the user and of the agent share one sequence of numbers, and
\* none replaces another, as long as clients are patient.
VersionsKept ==
  [][patient => \A n \in DOMAIN versions :
       n \in DOMAIN versions' /\ versions'[n] = versions[n]]_vars

\* The files of an import stay its own, also when several files of the same name
\* are uploaded at once, as the composer does.  (Not when text is imported at
\* the same time, which runs in another thread.)
ImportsKept ==
  patient \/ (\A r \in Requests : req[r].kind # "import_text") =>
    \A r \in Requests : req[r].kind \in {"import_text", "upload"} /\ req[r].pc = "done" =>
      /\ source[req[r].num][req[r].suffix] = r
      /\ req[r].suffix \in Convertible => markdown[req[r].num] = r
      /\ report[req[r].num] = r
=============================================================================
