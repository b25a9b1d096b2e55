----------------------------- MODULE DraftEditor -----------------------------
(***************************************************************************)
(* The draft in the web page of one user, who edits several tasks and      *)
(* switches between them: the local draft of AppShell, the cache of draft  *)
(* queries, the autosave hook, manual checkpoints, and what reaches the    *)
(* server, where agents write the same drafts.                             *)
(*                                                                         *)
(* A text is the set of contributions it holds, and whether it ends with a *)
(* newline, which the server adds.  A contribution is named by its task    *)
(* and a number; the user types inside the text.  The check and the write  *)
(* of update_draft are one step here (TaskWorkspace separates them).       *)
(***************************************************************************)
EXTENDS Naturals, Sequences, SequencesExt

CONSTANTS
  Tasks,
  MaxEdits, MaxRuns,   \* bounds on edits of the user and on agent runs
  MaxPuts,             \* bound on the saves in flight
  MaxCheckpoints,      \* bound on manual checkpoints
  MaxSwitches,         \* bound on changes of the task shown
  HabitSets,           \* the sets of habits that are explored
  Nothing,             \* no text: null or undefined
  Asked                \* a GET that the server has not answered

\* What the user and the network may be relied on for.
Habits == {"awaits_checkpoint",  \* does nothing else while a checkpoint is made
           "awaits_draft",       \* types and checkpoints when the draft is up to date
           "awaits_save",        \* changes tasks when everything is saved
           "ordered"}            \* saves are handled and answered in their order

Marks == Tasks \X (1..(MaxEdits + MaxRuns))   \* above MaxEdits: by an agent
UserMarks == Tasks \X (1..MaxEdits)
Texts == [marks : SUBSET Marks, newline : BOOLEAN]
Blank == [marks |-> {}, newline |-> FALSE]

ASSUME EditorAssumption ==
  /\ Tasks # {}
  /\ MaxEdits \in Nat /\ MaxRuns \in Nat /\ MaxPuts \in Nat /\ MaxCheckpoints \in Nat
  /\ MaxSwitches \in Nat
  /\ HabitSets \subseteq SUBSET Habits
  /\ Nothing \notin Texts \cup Tasks /\ Asked \notin Texts \cup {Nothing}

VARIABLES
  server, running,  \* per task: draft/draft.md; whether a session is running
  cache,            \* per task: the data of the query ["draft", task]
  fetch,            \* per task: the GET under way and its answer
  active,           \* the task that is shown
  local,            \* localDraft of AppShell
  seen,             \* activeSessionIsRunning, as the page knows it
  editor,           \* the autosave hook: what it last rendered with, and its state
  puts,             \* the PUTs in flight, of autosaves and of checkpoints
  check,            \* the manual checkpoint under way
  edits, runs, checkpoints, switches,   \* counters
  habits

serverVars == <<server, running>>
queryVars  == <<cache, fetch>>
pageVars   == <<active, local, seen, editor>>
countVars  == <<edits, runs, checkpoints, switches>>
vars == <<serverVars, queryVars, pageVars, puts, check, countVars, habits>>

Has(habit) == habit \in habits

\* write_draft adds the newline at the end.
Normalised(text) == [text EXCEPT !.newline = TRUE]

-----------------------------------------------------------------------------
(* Rendering *)

\* draft and draftAutoSaveEnabled of AppShell, for a task and a local draft.
Shown(task, draft, data) ==
  IF draft # Nothing THEN draft ELSE IF data[task] # Nothing THEN data[task] ELSE Blank
Enabled(task, data, isRunning) == data[task] # Nothing /\ ~isRunning

\* Mutant of Reset: no fallback to the text shown.
ResetToData(e, task, shown, data) ==
  IF data[task] = e.data /\ task = e.task THEN e
  ELSE [e EXCEPT !.lastSaved = data[task], !.saveState = "idle"]

\* Mutant of Reset: the baseline is not replaced when only the task changes.
ResetOnDataOnly(e, task, shown, data) ==
  IF data[task] = e.data THEN e
  ELSE [e EXCEPT !.lastSaved = IF data[task] = Nothing THEN shown ELSE data[task],
                 !.saveState = "idle"]

\* The first effect of useAutoSave, with the dependencies serverMarkdown, taskId.
Reset(e, task, shown, data) ==
  IF data[task] = e.data /\ task = e.task THEN e
  ELSE [e EXCEPT !.lastSaved = IF data[task] = Nothing THEN shown ELSE data[task],
                 !.saveState = "idle"]

\* Mutant of Schedule: a save that was put off is not planned again.
ScheduleOnText(e, task, shown, enabled) ==
  IF shown = e.shown /\ task = e.task /\ enabled = e.enabled THEN e
  ELSE IF enabled /\ shown \notin {e.shown, e.lastSaved}
       THEN [e EXCEPT !.timer = TRUE, !.saveState = "saving"]
       ELSE [e EXCEPT !.timer = FALSE]

\* The second one, with enabled, markdown, taskId: its cleanup stops the timer.
Schedule(e, task, shown, enabled) ==
  IF shown = e.shown /\ task = e.task /\ enabled = e.enabled THEN e
  ELSE IF enabled /\ shown # e.lastSaved
       THEN [e EXCEPT !.timer = TRUE, !.saveState = "saving"]
       ELSE [e EXCEPT !.timer = FALSE]

\* A render of the page and the effects that run after it.
Render(e, task, draft, data, isRunning) ==
  LET shown   == Shown(task, draft, data)
      enabled == Enabled(task, data, isRunning)
      after   == Schedule(Reset(e, task, shown, data), task, shown, enabled)
  IN [after EXCEPT !.task = task, !.shown = shown, !.data = data[task], !.enabled = enabled]

-----------------------------------------------------------------------------
(* The user *)

Idle == check.pc = "idle"
UpToDate == cache[active] # Nothing /\ fetch[active] = Nothing
Unsaved == editor.timer \/ puts # <<>> \/ ~(editor.shown.marks \cap UserMarks
                                            \subseteq server[active].marks)

\* Typing (onDraftChange), also while the draft loads: the page is then blank.
Edit ==
  /\ edits < MaxEdits
  /\ Has("awaits_checkpoint") => Idle
  /\ Has("awaits_draft") => UpToDate
  /\ edits' = edits + 1
  /\ local' = [editor.shown EXCEPT !.marks = @ \cup {<<active, edits + 1>>}]
  /\ editor' = Render(editor, active, local', cache, seen)
  /\ UNCHANGED <<serverVars, queryVars, active, seen, puts, check, runs,
                 checkpoints, switches, habits>>

\* Taking back the last edit, before it is sent.
Undo ==
  /\ editor.timer /\ local # Nothing
  /\ Has("awaits_checkpoint") => Idle
  /\ <<active, edits>> \in local.marks \ server[active].marks
  /\ \A i \in DOMAIN puts : <<active, edits>> \notin puts[i].text.marks
  /\ local' = [local EXCEPT !.marks = @ \ {<<active, edits>>}]
  /\ editor' = Render(editor, active, local', cache, seen)
  /\ UNCHANGED <<serverVars, queryVars, active, seen, puts, check, countVars, habits>>

\* Mutant of SelectTask: the local draft stays.
SelectTaskKeeping(t) ==
  /\ t # active /\ switches < MaxSwitches
  /\ switches' = switches + 1
  /\ Has("awaits_checkpoint") => Idle
  /\ Has("awaits_save") => ~Unsaved
  /\ active' = t
  /\ seen' \in BOOLEAN
  /\ local' = local
  /\ editor' = Render(editor, t, local, cache, seen')
  /\ fetch' = [fetch EXCEPT ![t] = Asked]
  /\ UNCHANGED <<serverVars, cache, puts, check, edits, runs, checkpoints,
                 habits>>

\* selectTask: the page renders once with the local draft of the old task, and
\* again when the effect of AppShell, which runs after those of the hook, has
\* removed it.  The query is sent if there is no data or it is stale; what the
\* page knows of the sessions may be old, too.
SelectTask(t) ==
  /\ t # active /\ switches < MaxSwitches
  /\ switches' = switches + 1
  /\ Has("awaits_checkpoint") => Idle
  /\ Has("awaits_save") => ~Unsaved
  /\ active' = t
  /\ seen' \in BOOLEAN
  /\ local' = Nothing
  /\ editor' = Render(Render(editor, t, local, cache, seen'), t, Nothing, cache, seen')
  /\ \/ fetch' = [fetch EXCEPT ![t] = Asked]
     \/ cache[t] # Nothing /\ ~Has("awaits_draft") /\ UNCHANGED fetch
  /\ UNCHANGED <<serverVars, cache, puts, check, edits, runs, checkpoints, habits>>

-----------------------------------------------------------------------------
(* Queries *)

\* The draft query of the shown task is invalidated, or refetched.
Refetch ==
  /\ fetch' = [fetch EXCEPT ![active] = Asked]
  /\ UNCHANGED <<serverVars, cache, pageVars, puts, check, countVars, habits>>

AnswerFetch(t) ==
  /\ fetch[t] = Asked
  /\ fetch' = [fetch EXCEPT ![t] = server[t]]
  /\ UNCHANGED <<serverVars, cache, pageVars, puts, check, countVars, habits>>

\* The answer goes to the cache of its task, whichever is shown now.
ApplyFetch(t) ==
  /\ fetch[t] \notin {Nothing, Asked}
  /\ cache' = [cache EXCEPT ![t] = fetch[t]]
  /\ fetch' = [fetch EXCEPT ![t] = Nothing]
  /\ editor' = Render(editor, active, local, cache', seen)
  /\ UNCHANGED <<serverVars, active, local, seen, puts, check, countVars, habits>>

\* The sessions of the shown task are fetched.
LearnStatus ==
  /\ seen # running[active]
  /\ seen' = running[active]
  /\ editor' = Render(editor, active, local, cache, seen')
  /\ UNCHANGED <<serverVars, queryVars, active, local, puts, check, countVars, habits>>

-----------------------------------------------------------------------------
(* Autosave *)

Put(t, text, by) == [task |-> t, text |-> text, by |-> by, state |-> "sent"]

\* The timer has run for 800 ms.
FireTimer ==
  /\ editor.timer /\ Len(puts) < MaxPuts
  /\ editor' = [editor EXCEPT !.timer = FALSE]
  /\ puts' = Append(puts, Put(active, editor.shown, "autosave"))
  /\ UNCHANGED <<serverVars, queryVars, active, local, seen, check, countVars, habits>>

\* update_draft: 409 while a session of the task is running.  The network may
\* fail, too.
DeliverPut(i) ==
  LET put == puts[i]
  IN /\ i \in DOMAIN puts /\ put.state = "sent"
     /\ Has("ordered") => \A j \in 1..(i - 1) : puts[j].state # "sent"
     /\ \/ /\ ~running[put.task]
           /\ server' = [server EXCEPT ![put.task] = Normalised(put.text)]
           /\ puts' = [puts EXCEPT ![i].state = "stored"]
        \/ /\ puts' = [puts EXCEPT ![i].state = "refused"]
           /\ UNCHANGED server
     /\ UNCHANGED <<running, queryVars, pageVars, check, countVars, habits>>

Answered(i, by) ==
  /\ i \in DOMAIN puts /\ puts[i].by = by /\ puts[i].state # "sent"
  /\ Has("ordered") => i = 1

\* Mutant of AnswerPut: a refusal is not noticed.
AnswerPutAlways(i) ==
  /\ Answered(i, "autosave")
  /\ puts' = RemoveAt(puts, i)
  /\ editor' = [editor EXCEPT !.lastSaved = Normalised(puts[i].text), !.saveState = "saved"]
  /\ UNCHANGED <<serverVars, queryVars, active, local, seen, check, countVars, habits>>

\* The answer is the new baseline, whatever the page shows by now.  A failure is
\* displayed and not repeated.
AnswerPut(i) ==
  /\ Answered(i, "autosave")
  /\ puts' = RemoveAt(puts, i)
  /\ editor' = IF puts[i].state = "stored"
               THEN [editor EXCEPT !.lastSaved = Normalised(puts[i].text),
                                   !.saveState = "saved"]
               ELSE [editor EXCEPT !.saveState = "error"]
  /\ UNCHANGED <<serverVars, queryVars, active, local, seen, check, countVars, habits>>

-----------------------------------------------------------------------------
(* Manual checkpoints *)

NoCheck == [pc |-> "idle", task |-> Nothing, text |-> Nothing]

\* Mutant of CreateCheckpoint: the text on the page is not saved first.
CheckpointUnsaved ==
  /\ Idle /\ ~seen /\ editor.saveState # "saving"
  /\ checkpoints < MaxCheckpoints
  /\ Has("awaits_draft") => UpToDate
  /\ checkpoints' = checkpoints + 1
  /\ check' = [pc |-> "post", task |-> active, text |-> editor.shown]
  /\ UNCHANGED <<serverVars, queryVars, pageVars, puts, edits, runs, switches, habits>>

\* createManualCheckpoint saves the draft if it is not the last saved one; the
\* slash command always does.
CreateCheckpoint ==
  /\ Idle /\ ~seen /\ editor.saveState # "saving"
  /\ checkpoints < MaxCheckpoints
  /\ Has("awaits_draft") => UpToDate
  /\ checkpoints' = checkpoints + 1
  /\ \/ /\ Len(puts) < MaxPuts
        /\ puts' = Append(puts, Put(active, editor.shown, "checkpoint"))
        /\ check' = [pc |-> "saving", task |-> active, text |-> editor.shown]
     \/ /\ editor.shown = editor.lastSaved
        /\ check' = [pc |-> "post", task |-> active, text |-> editor.shown]
        /\ UNCHANGED puts
  /\ UNCHANGED <<serverVars, queryVars, pageVars, edits, runs, switches, habits>>

\* The answer becomes the local draft, whichever task is shown now.  A failure
\* ends the checkpoint with a message.
AnswerCheckpoint(i) ==
  /\ Answered(i, "checkpoint")
  /\ puts' = RemoveAt(puts, i)
  /\ IF puts[i].state = "stored"
     THEN /\ check' = [check EXCEPT !.pc = "post"]
          /\ local' = Normalised(check.text)
          /\ editor' = Render(editor, active, local', cache, seen)
     ELSE check' = NoCheck /\ UNCHANGED <<local, editor>>
  /\ UNCHANGED <<serverVars, queryVars, active, seen, countVars, habits>>

\* create_draft_checkpoint: 409 while a session is running, else a version with
\* the draft of the server.
CheckpointPost ==
  /\ check.pc = "post"
  /\ check' = NoCheck
  /\ UNCHANGED <<serverVars, queryVars, pageVars, puts, countVars, habits>>

-----------------------------------------------------------------------------
(* Agents *)

AgentStart(t) ==
  /\ ~running[t] /\ runs < MaxRuns
  /\ running' = [running EXCEPT ![t] = TRUE]
  /\ runs' = runs + 1
  /\ UNCHANGED <<server, queryVars, pageVars, puts, check, edits,
                 checkpoints, switches, habits>>

\* The agent revises the draft that is on the server.
AgentFinish(t) ==
  /\ running[t]
  /\ running' = [running EXCEPT ![t] = FALSE]
  /\ server' = [server EXCEPT ![t] = [marks   |-> @.marks \cup {<<t, MaxEdits + runs>>},
                                      newline |-> TRUE]]
  /\ UNCHANGED <<queryVars, pageVars, puts, check, countVars, habits>>

-----------------------------------------------------------------------------
(* The specification *)

Init ==
  /\ server = [t \in Tasks |-> Normalised(Blank)]
  /\ running = [t \in Tasks |-> FALSE]
  /\ cache = [t \in Tasks |-> Nothing]
  /\ active \in Tasks
  /\ fetch = [t \in Tasks |-> IF t = active THEN Asked ELSE Nothing]
  /\ local = Nothing
  /\ seen = FALSE
  /\ editor = [task |-> active, shown |-> Blank, data |-> Nothing, enabled |-> FALSE,
               lastSaved |-> Blank, saveState |-> "idle", timer |-> FALSE]
  /\ puts = <<>>
  /\ check = NoCheck
  /\ edits = 0 /\ runs = 0 /\ checkpoints = 0 /\ switches = 0
  /\ habits \in HabitSets

Next ==
  \/ Edit
  \/ Undo
  \/ \E t \in Tasks : SelectTask(t)
  \/ Refetch
  \/ \E t \in Tasks : AnswerFetch(t)
  \/ \E t \in Tasks : ApplyFetch(t)
  \/ LearnStatus
  \/ FireTimer
  \/ \E i \in 1..MaxPuts : DeliverPut(i)
  \/ \E i \in 1..MaxPuts : AnswerPut(i)
  \/ CreateCheckpoint
  \/ \E i \in 1..MaxPuts : AnswerCheckpoint(i)
  \/ CheckpointPost
  \/ \E t \in Tasks : AgentStart(t)
  \/ \E t \in Tasks : AgentFinish(t)

Spec == Init /\ [][Next]_vars

-----------------------------------------------------------------------------
(* Properties *)

OptionalText == Texts \cup {Nothing}

TypeOK ==
  /\ server \in [Tasks -> Texts]
  /\ running \in [Tasks -> BOOLEAN]
  /\ cache \in [Tasks -> OptionalText]
  /\ fetch \in [Tasks -> OptionalText \cup {Asked}]
  /\ active \in Tasks
  /\ local \in OptionalText
  /\ seen \in BOOLEAN
  /\ editor \in [task : Tasks, shown : Texts, data : OptionalText, enabled : BOOLEAN,
                 lastSaved : Texts, saveState : {"idle", "saving", "saved", "error"},
                 timer : BOOLEAN]
  /\ puts \in Seq([task : Tasks, text : Texts, by : {"autosave", "checkpoint"},
                   state : {"sent", "stored", "refused"}])
  /\ Len(puts) <= MaxPuts
  /\ check \in [pc : {"idle", "saving", "post"}, task : Tasks \cup {Nothing},
                text : OptionalText]
  /\ edits \in 0..MaxEdits /\ runs \in 0..MaxRuns /\ checkpoints \in 0..MaxCheckpoints
  /\ switches \in 0..MaxSwitches
  /\ habits \in SUBSET Habits

OfTask(text, t) == \A m \in text.marks : m[1] = t

\* "does not autosave the previous task draft into a newly selected task"
\* (AppShell.test.tsx): what is sent to a task was typed in that task.
NoCrossTaskSave ==
  /\ \A i \in DOMAIN puts : OfTask(puts[i].text, puts[i].task)
  /\ \A t \in Tasks : OfTask(server[t], t)

\* It is so if the user does not change tasks while a checkpoint is made, however
\* hastily the tasks are changed otherwise.
SavesStayApart == Has("awaits_checkpoint") => NoCrossTaskSave

\* When the toolbar says "saved" and nothing is pending, the page's text is on
\* the server, unless the page must not save because an agent is running.
SavedIsStored ==
  habits = Habits =>
    (editor.saveState = "saved" /\ editor.enabled /\ ~editor.timer /\ puts = <<>> =>
      editor.shown.marks \cap UserMarks \subseteq server[active].marks)

\* A version made by hand holds what the user saw when making it: it is on the
\* server when the version is requested.
CheckpointHoldsPage ==
  habits = Habits /\ check.pc = "post" =>
    check.text.marks \cap UserMarks \subseteq server[check.task].marks

\* What the user typed and the page saved is never taken out of a draft again.
OwnEditsKept ==
  [][habits = Habits =>
       \A t \in Tasks : server[t].marks \cap UserMarks \subseteq server'[t].marks]_vars

\* While the toolbar says "saving", which checkpoints wait for, a save is planned
\* or under way, unless the page has nothing new or an agent is running.
SavingIsPending ==
  editor.saveState = "saving" /\ editor.enabled =>
    \/ editor.timer \/ puts # <<>>
    \/ editor.shown = editor.lastSaved
=============================================================================
