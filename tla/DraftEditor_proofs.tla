-------------------------- MODULE DraftEditor_proofs --------------------------
(***************************************************************************)
(* Proofs about DraftEditor, for any tasks, bounds and sets of habits.     *)
(*                                                                         *)
(* TypeInv gives everything its type, and says that the hook rendered last *)
(* what the page shows.  On it rest three invariants: PendingInv, of any   *)
(* user; ApartInv, of one who waits for checkpoints; and PatientInv, of    *)
(* one with all the habits, whose saves hold ever more of what was typed.  *)
(***************************************************************************)
EXTENDS DraftEditor, SequenceTheorems, TLAPS

\* A save in flight, and what the autosave hook keeps.
PutRecords == [task : Tasks, text : Texts, by : {"autosave", "checkpoint"},
               state : {"sent", "stored", "refused"}]
EditorRecords == [task : Tasks, shown : Texts, data : OptionalText, enabled : BOOLEAN,
                  lastSaved : Texts, saveState : {"idle", "saving", "saved", "error"},
                  timer : BOOLEAN]

\* What TypeOK needs to be inductive: an agent that works has been counted, and
\* the save of a checkpoint is that of the checkpoint under way.
CheckTyped ==
  /\ \A t \in Tasks : running[t] => runs > 0
  /\ check.pc # "idle" => check.task \in Tasks /\ check.text \in Texts
  /\ \A i \in DOMAIN puts :
       puts[i].by = "checkpoint" =>
         /\ check.pc = "saving"
         /\ puts[i].task = check.task /\ puts[i].text = check.text
         /\ \A j \in DOMAIN puts : puts[j].by = "checkpoint" => j = i

\* What the hook has rendered last is what the page shows.
Rendered ==
  /\ editor.task = active /\ editor.data = cache[active]
  /\ editor.shown = Shown(active, local, cache)
  /\ editor.enabled = Enabled(active, cache, seen)

TypeInv == TypeOK /\ CheckTyped /\ Rendered

-----------------------------------------------------------------------------
(* Texts, saves and renders *)

\* Blank texts, normalised texts and those of the page are texts.
LEMMA TextTypes ==
  /\ Blank \in Texts /\ Nothing \notin Texts /\ Asked \notin OptionalText
  /\ \A x \in Texts : Normalised(x) \in Texts
  /\ \A t \in Tasks, d \in OptionalText : \A c \in [Tasks -> OptionalText] :
       Shown(t, d, c) \in Texts
BY EditorAssumption DEF Blank, Texts, Normalised, Shown, OptionalText

\* A save is added at the end.
LEMMA PutAdded ==
  ASSUME NEW s \in Seq(PutRecords), NEW p \in PutRecords
  PROVE  /\ Append(s, p) \in Seq(PutRecords) /\ Len(Append(s, p)) = Len(s) + 1
         /\ DOMAIN Append(s, p) = DOMAIN s \cup {Len(s) + 1}
         /\ DOMAIN s = 1..Len(s) /\ Append(s, p)[Len(s) + 1] = p
         /\ \A i \in DOMAIN s : Append(s, p)[i] = s[i]
BY AppendProperties, LenProperties

\* Where the saves stood before the one at i was answered.
Was(i, j) == IF j < i THEN j ELSE j + 1

LEMMA PutRemoved ==
  ASSUME NEW s \in Seq(PutRecords), NEW i \in DOMAIN s
  PROVE  /\ RemoveAt(s, i) \in Seq(PutRecords) /\ Len(RemoveAt(s, i)) = Len(s) - 1
         /\ DOMAIN RemoveAt(s, i) = 1..(Len(s) - 1) /\ DOMAIN s = 1..Len(s)
         /\ \A j \in DOMAIN RemoveAt(s, i) :
              Was(i, j) \in DOMAIN s \ {i} /\ RemoveAt(s, i)[j] = s[Was(i, j)]
<1> DEFINE a == SubSeq(s, 1, i - 1)
           b == SubSeq(s, i + 1, Len(s))
<1>1. Len(s) \in Nat /\ DOMAIN s = 1..Len(s) /\ i \in 1..Len(s) /\ i \in Int
  BY LenProperties
<1>2. \A j \in 1..Len(s) : s[j] \in PutRecords
  BY ElementOfSeq
<1>3. /\ a \in Seq(PutRecords) /\ Len(a) = i - 1
      /\ \A j \in 1..(i - 1) : a[j] = s[j]
  <2>1. \A j \in 1..(i - 1) : s[j] \in PutRecords
    BY <1>1, <1>2
  <2>2. /\ a \in Seq(PutRecords) /\ Len(a) = IF 1 <= i - 1 THEN (i - 1) - 1 + 1 ELSE 0
        /\ \A j \in 1..((i - 1) - 1 + 1) : a[j] = s[1 + j - 1]
    <3> HIDE DEF a
    <3>1. i - 1 \in Int
      BY <1>1
    <3> QED
      BY <3>1, <2>1, SubSeqProperties DEF a
  <2> QED
    BY <1>1, <2>2
<1>4. /\ b \in Seq(PutRecords) /\ Len(b) = Len(s) - i
      /\ \A j \in 1..(Len(s) - i) : b[j] = s[i + j]
  <2>1. \A j \in (i + 1)..Len(s) : s[j] \in PutRecords
    BY <1>1, <1>2
  <2>2. /\ b \in Seq(PutRecords) /\ Len(b) = IF i + 1 <= Len(s) THEN Len(s) - (i + 1) + 1 ELSE 0
        /\ \A j \in 1..(Len(s) - (i + 1) + 1) : b[j] = s[(i + 1) + j - 1]
    <3> HIDE DEF b
    <3>1. i + 1 \in Int /\ Len(s) \in Int
      BY <1>1
    <3> QED
      BY <3>1, <2>1, SubSeqProperties DEF b
  <2> QED
    BY <1>1, <2>2
<1> HIDE DEF a, b
<1>5. /\ a \o b \in Seq(PutRecords) /\ Len(a \o b) = Len(s) - 1
      /\ \A j \in 1..(Len(s) - 1) : (a \o b)[j] = IF j <= i - 1 THEN a[j] ELSE b[j - (i - 1)]
  <2>1. Len(a) + Len(b) = Len(s) - 1
    BY <1>1, <1>3, <1>4
  <2>2. /\ a \o b \in Seq(PutRecords) /\ Len(a \o b) = Len(a) + Len(b)
        /\ \A j \in 1..(Len(a) + Len(b)) :
             (a \o b)[j] = IF j <= Len(a) THEN a[j] ELSE b[j - Len(a)]
    BY <1>3, <1>4, ConcatProperties
  <2> QED
    BY <1>3, <2>1, <2>2
<1>6. DOMAIN (a \o b) = 1..(Len(s) - 1)
  BY <1>5, LenProperties
<1>7. RemoveAt(s, i) = a \o b
  BY DEF RemoveAt, a, b
<1>8. \A j \in 1..(Len(s) - 1) : Was(i, j) \in (1..Len(s)) \ {i} /\ (a \o b)[j] = s[Was(i, j)]
  <2> SUFFICES ASSUME NEW j \in 1..(Len(s) - 1)
               PROVE  Was(i, j) \in (1..Len(s)) \ {i} /\ (a \o b)[j] = s[Was(i, j)]
    OBVIOUS
  <2>1. CASE j < i
    BY <1>1, <1>3, <1>5, <2>1 DEF Was
  <2>2. CASE ~(j < i)
    <3>1. j - (i - 1) \in 1..(Len(s) - i) /\ i + (j - (i - 1)) = j + 1 /\ ~(j <= i - 1)
      BY <1>1, <2>2
    <3>2. (a \o b)[j] = s[j + 1]
      BY <1>4, <1>5, <3>1
    <3> QED
      BY <1>1, <2>2, <3>2 DEF Was
  <2> QED
    BY <2>1, <2>2
<1> QED
  BY <1>1, <1>5, <1>6, <1>7, <1>8

\* Nothing else is lost, and the order stays.
LEMMA WasFacts ==
  ASSUME NEW n \in Nat, NEW i \in 1..n
  PROVE  /\ \A j, k \in 1..(n - 1) : j < k => Was(i, j) < Was(i, k)
         /\ \A k \in (1..n) \ {i} : \E j \in 1..(n - 1) : Was(i, j) = k
<1>1. \A j, k \in 1..(n - 1) : j < k => Was(i, j) < Was(i, k)
  BY DEF Was
<1>2. ASSUME NEW k \in (1..n) \ {i} PROVE \E j \in 1..(n - 1) : Was(i, j) = k
  <2>1. CASE k < i
    <3>1. k \in 1..(n - 1) /\ Was(i, k) = k
      BY <2>1 DEF Was
    <3> QED
      BY <3>1
  <2>2. CASE ~(k < i)
    <3>1. k - 1 \in 1..(n - 1) /\ Was(i, k - 1) = k
      BY <2>2 DEF Was
    <3> QED
      BY <3>1
  <2> QED
    BY <2>1, <2>2
<1> QED
  BY <1>1, <1>2

\* What a render leaves, whether or not the effects run.
RenderLeaves(e, r, t, d, c, b) ==
  /\ r.task = t /\ r.shown = Shown(t, d, c) /\ r.data = c[t] /\ r.enabled = Enabled(t, c, b)
  /\ r.lastSaved = IF c[t] = e.data /\ t = e.task THEN e.lastSaved
                   ELSE IF c[t] = Nothing THEN r.shown ELSE c[t]
  /\ IF r.shown = e.shown /\ t = e.task /\ r.enabled = e.enabled
     THEN r.timer = e.timer /\ r.saveState \in {e.saveState, "idle"}
     ELSE IF r.enabled /\ r.shown # r.lastSaved THEN r.timer
     ELSE ~r.timer /\ r.saveState \in {e.saveState, "idle"}
  /\ (c[t] = e.data /\ t = e.task) \/ r.saveState = "idle" \/ r.timer

LEMMA RenderFacts ==
  ASSUME NEW e \in EditorRecords, NEW t \in Tasks, NEW d \in OptionalText,
         NEW c \in [Tasks -> OptionalText], NEW b \in BOOLEAN
  PROVE  Render(e, t, d, c, b) \in EditorRecords /\ RenderLeaves(e, Render(e, t, d, c, b), t, d, c, b)
<1> DEFINE x == Shown(t, d, c)
           on == Enabled(t, c, b)
           e1 == Reset(e, t, x, c)
           e2 == Schedule(e1, t, x, on)
<1>1. x \in Texts /\ on \in BOOLEAN /\ c[t] \in OptionalText
  BY TextTypes DEF Enabled
<1> HIDE DEF x, on
<1>2. /\ e1 \in EditorRecords
      /\ e1.task = e.task /\ e1.shown = e.shown /\ e1.data = e.data /\ e1.enabled = e.enabled
      /\ e1.timer = e.timer /\ e1.saveState \in {e.saveState, "idle"}
      /\ e1.lastSaved = IF c[t] = e.data /\ t = e.task THEN e.lastSaved
                         ELSE IF c[t] = Nothing THEN x ELSE c[t]
      /\ (c[t] = e.data /\ t = e.task) \/ e1.saveState = "idle"
  BY <1>1 DEF Reset, EditorRecords, OptionalText
<1> HIDE DEF e1
<1>3. /\ e2 \in EditorRecords /\ e2.lastSaved = e1.lastSaved
      /\ IF x = e.shown /\ t = e.task /\ on = e.enabled
         THEN e2.timer = e.timer /\ e2.saveState = e1.saveState
         ELSE IF on /\ x # e1.lastSaved THEN e2.timer
         ELSE ~e2.timer /\ e2.saveState = e1.saveState
  BY <1>2 DEF Schedule, EditorRecords
<1> HIDE DEF e2
<1>4. Render(e, t, d, c, b) = [e2 EXCEPT !.task = t, !.shown = x, !.data = c[t], !.enabled = on]
  BY DEF Render, e1, e2, x, on
<1>5. LET r == [e2 EXCEPT !.task = t, !.shown = x, !.data = c[t], !.enabled = on]
      IN /\ r \in EditorRecords /\ r.task = t /\ r.shown = x /\ r.data = c[t] /\ r.enabled = on
         /\ r.lastSaved = e2.lastSaved /\ r.timer = e2.timer /\ r.saveState = e2.saveState
  BY <1>1, <1>3 DEF EditorRecords
<1> QED
  BY <1>2, <1>3, <1>4, <1>5 DEF RenderLeaves, x, on

-----------------------------------------------------------------------------
(* Types *)

\* The page renders: with what is shown then, the hook is up to date.
LEMMA PageRenders ==
  ASSUME TypeOK, NEW e \in EditorRecords,
         active' \in Tasks, local' \in OptionalText, seen' \in BOOLEAN,
         cache' \in [Tasks -> OptionalText], editor' = Render(e, active', local', cache', seen')
  PROVE  /\ editor' \in EditorRecords /\ Rendered'
         /\ RenderLeaves(e, editor', active', local', cache', seen')
<1>1. /\ editor' \in EditorRecords
      /\ RenderLeaves(e, editor', active', local', cache', seen')
  BY RenderFacts
<1>2. Rendered'
  BY <1>1 DEF RenderLeaves, Rendered, Shown, Enabled
<1> QED
  BY <1>1, <1>2

\* The types of everything that TypeInv speaks about.
LEMMA TypeFacts ==
  ASSUME TypeInv
  PROVE  /\ server \in [Tasks -> Texts] /\ running \in [Tasks -> BOOLEAN]
         /\ cache \in [Tasks -> OptionalText] /\ fetch \in [Tasks -> OptionalText \cup {Asked}]
         /\ active \in Tasks /\ local \in OptionalText /\ seen \in BOOLEAN
         /\ editor \in EditorRecords /\ editor.shown \in Texts
         /\ puts \in Seq(PutRecords) /\ \A i \in DOMAIN puts : puts[i] \in PutRecords
         /\ DOMAIN puts = 1..Len(puts) /\ Len(puts) \in Nat /\ Len(puts) <= MaxPuts
<1>1. /\ puts \in Seq(PutRecords) /\ Len(puts) <= MaxPuts /\ editor \in EditorRecords
  BY DEF TypeInv, TypeOK, PutRecords, EditorRecords
<1>2. /\ DOMAIN puts = 1..Len(puts) /\ Len(puts) \in Nat
      /\ \A i \in DOMAIN puts : puts[i] \in PutRecords
  BY <1>1, LenProperties, ElementOfSeq
<1>3. editor.shown \in Texts
  BY <1>1 DEF EditorRecords
<1> QED
  BY <1>1, <1>2, <1>3 DEF TypeInv, TypeOK

LEMMA InitTypes == Init => TypeInv
<1> SUFFICES ASSUME Init PROVE TypeInv
  OBVIOUS
<1>1. active \in Tasks /\ cache = [t \in Tasks |-> Nothing] /\ puts = <<>>
  BY DEF Init
<1>2. Blank \in Texts /\ Normalised(Blank) \in Texts
  BY TextTypes
<1>3. Rendered
  BY <1>1 DEF Init, Rendered, Shown, Enabled
<1>4. CheckTyped
  BY <1>1 DEF Init, CheckTyped, NoCheck
<1>5. server \in [Tasks -> Texts] /\ cache \in [Tasks -> OptionalText]
      /\ fetch \in [Tasks -> OptionalText \cup {Asked}] /\ local \in OptionalText
  BY <1>1, <1>2 DEF Init, OptionalText
<1>6. editor \in EditorRecords
  BY <1>1, <1>2 DEF Init, EditorRecords, OptionalText
<1>7. puts \in Seq(PutRecords) /\ Len(puts) <= MaxPuts
  BY <1>1, EditorAssumption
<1>8. check \in [pc : {"idle", "saving", "post"}, task : Tasks \cup {Nothing}, text : OptionalText]
  BY DEF Init, NoCheck, OptionalText
<1>9. /\ running \in [Tasks -> BOOLEAN] /\ seen \in BOOLEAN /\ habits \in SUBSET Habits
      /\ edits \in 0..MaxEdits /\ runs \in 0..MaxRuns /\ checkpoints \in 0..MaxCheckpoints
      /\ switches \in 0..MaxSwitches
  <2>1. running \in [Tasks -> BOOLEAN] /\ seen \in BOOLEAN
    BY DEF Init
  <2>2. habits \in SUBSET Habits
    <3>1. habits \in HabitSets /\ HabitSets \subseteq SUBSET Habits
      BY EditorAssumption DEF Init
    <3> QED
      BY <3>1
  <2>3. /\ edits = 0 /\ runs = 0 /\ checkpoints = 0 /\ switches = 0
        /\ MaxEdits \in Nat /\ MaxRuns \in Nat /\ MaxCheckpoints \in Nat /\ MaxSwitches \in Nat
    BY EditorAssumption DEF Init
  <2> QED
    BY <2>1, <2>2, <2>3
<1>10. TypeOK
  BY <1>1, <1>5, <1>6, <1>7, <1>8, <1>9 DEF TypeOK, PutRecords, EditorRecords
<1> QED
  BY <1>3, <1>4, <1>10 DEF TypeInv

\* The marks that a user and an agent add.
LEMMA MarkTypes ==
  ASSUME TypeInv, NEW t \in Tasks
  PROVE  /\ edits < MaxEdits => <<t, edits + 1>> \in Marks
         /\ running[t] => <<t, MaxEdits + runs>> \in Marks \ UserMarks
BY EditorAssumption DEF TypeInv, TypeOK, CheckTyped, Marks, UserMarks

\* The steps of the user and the queries, which render.
PageStep == Edit \/ Undo \/ (\E t \in Tasks : SelectTask(t)) \/ LearnStatus
            \/ \E t \in Tasks : ApplyFetch(t)

LEMMA PageTypes == TypeInv /\ PageStep => TypeInv'
<1> SUFFICES ASSUME TypeInv, PageStep PROVE TypeInv'
  OBVIOUS
<1>0. /\ editor \in EditorRecords /\ cache \in [Tasks -> OptionalText] /\ active \in Tasks
      /\ local \in OptionalText /\ seen \in BOOLEAN /\ running \in [Tasks -> BOOLEAN]
      /\ fetch \in [Tasks -> OptionalText \cup {Asked}] /\ editor.shown \in Texts
  BY TypeFacts
<1>1. /\ UNCHANGED <<server, running, puts, check, runs, checkpoints, habits>>
      /\ edits' \in 0..MaxEdits /\ switches' \in 0..MaxSwitches
  BY EditorAssumption
  DEF TypeInv, TypeOK, PageStep, Edit, Undo, SelectTask, LearnStatus, ApplyFetch, serverVars,
      queryVars, countVars
<1>2. /\ active' \in Tasks /\ local' \in OptionalText /\ seen' \in BOOLEAN
      /\ cache' \in [Tasks -> OptionalText] /\ fetch' \in [Tasks -> OptionalText \cup {Asked}]
      /\ \E e \in EditorRecords : editor' = Render(e, active', local', cache', seen')
  <2>1. CASE Edit
    <3>1. local' \in Texts
      BY <1>0, <2>1, MarkTypes DEF Edit, Texts
    <3> QED
      BY <1>0, <2>1, <3>1 DEF Edit, queryVars, OptionalText
  <2>2. CASE Undo
    <3>1. local' \in Texts
      BY <1>0, <2>2 DEF Undo, Texts, OptionalText
    <3> QED
      BY <1>0, <2>2, <3>1 DEF Undo, queryVars, OptionalText
  <2>3. ASSUME NEW t \in Tasks, SelectTask(t)
        PROVE  /\ active' \in Tasks /\ local' \in OptionalText /\ seen' \in BOOLEAN
               /\ cache' \in [Tasks -> OptionalText]
               /\ fetch' \in [Tasks -> OptionalText \cup {Asked}]
               /\ \E e \in EditorRecords : editor' = Render(e, active', local', cache', seen')
    <3>1. /\ active' = t /\ local' = Nothing /\ seen' \in BOOLEAN /\ cache' = cache
          /\ editor' = Render(Render(editor, t, local, cache, seen'), t, Nothing, cache, seen')
          /\ fetch' = [fetch EXCEPT ![t] = Asked] \/ fetch' = fetch
      BY <2>3 DEF SelectTask
    <3>2. Render(editor, t, local, cache, seen') \in EditorRecords
      BY <1>0, <3>1, RenderFacts
    <3> QED
      BY <1>0, <3>1, <3>2 DEF OptionalText
  <2>4. CASE LearnStatus
    BY <1>0, <2>4 DEF LearnStatus, queryVars
  <2>5. ASSUME NEW t \in Tasks, ApplyFetch(t)
        PROVE  /\ active' \in Tasks /\ local' \in OptionalText /\ seen' \in BOOLEAN
               /\ cache' \in [Tasks -> OptionalText]
               /\ fetch' \in [Tasks -> OptionalText \cup {Asked}]
               /\ \E e \in EditorRecords : editor' = Render(e, active', local', cache', seen')
    BY <1>0, <2>5 DEF ApplyFetch, OptionalText
  <2> QED
    BY <2>1, <2>2, <2>3, <2>4, <2>5 DEF PageStep
<1>3. editor' \in EditorRecords /\ Rendered'
  BY <1>2, PageRenders DEF TypeInv
<1>4. CheckTyped'
  BY <1>1 DEF TypeInv, CheckTyped
<1>5. TypeOK'
  BY <1>1, <1>2, <1>3 DEF TypeInv, TypeOK, EditorRecords, PutRecords
<1> QED
  BY <1>3, <1>4, <1>5 DEF TypeInv

\* A query is sent or answered, an agent starts or ends.
QuietStep == Refetch \/ (\E t \in Tasks : AnswerFetch(t) \/ AgentStart(t) \/ AgentFinish(t))

LEMMA QuietTypes == TypeInv /\ QuietStep => TypeInv'
<1> SUFFICES ASSUME TypeInv, QuietStep PROVE TypeInv'
  OBVIOUS
<1>1. UNCHANGED <<cache, active, local, seen, editor, puts, check, edits, checkpoints, switches,
                  habits>>
  BY DEF QuietStep, Refetch, AnswerFetch, AgentStart, AgentFinish, serverVars, queryVars, pageVars,
         countVars
<1>2. /\ server' \in [Tasks -> Texts] /\ running' \in [Tasks -> BOOLEAN] /\ runs' \in 0..MaxRuns
      /\ fetch' \in [Tasks -> OptionalText \cup {Asked}]
      /\ \A t \in Tasks : running'[t] => runs' > 0
  <2> USE DEF TypeInv, TypeOK, CheckTyped
  <2>1. CASE Refetch
    BY <2>1 DEF Refetch, serverVars, countVars
  <2>2. ASSUME NEW t \in Tasks, AnswerFetch(t)
        PROVE  /\ server' \in [Tasks -> Texts] /\ running' \in [Tasks -> BOOLEAN]
               /\ runs' \in 0..MaxRuns /\ fetch' \in [Tasks -> OptionalText \cup {Asked}]
               /\ \A q \in Tasks : running'[q] => runs' > 0
    BY <2>2 DEF AnswerFetch, serverVars, countVars, OptionalText
  <2>3. ASSUME NEW t \in Tasks, AgentStart(t)
        PROVE  /\ server' \in [Tasks -> Texts] /\ running' \in [Tasks -> BOOLEAN]
               /\ runs' \in 0..MaxRuns /\ fetch' \in [Tasks -> OptionalText \cup {Asked}]
               /\ \A q \in Tasks : running'[q] => runs' > 0
    BY <2>3, EditorAssumption DEF AgentStart, queryVars
  <2>4. ASSUME NEW t \in Tasks, AgentFinish(t)
        PROVE  /\ server' \in [Tasks -> Texts] /\ running' \in [Tasks -> BOOLEAN]
               /\ runs' \in 0..MaxRuns /\ fetch' \in [Tasks -> OptionalText \cup {Asked}]
               /\ \A q \in Tasks : running'[q] => runs' > 0
    <3>1. <<t, MaxEdits + runs>> \in Marks
      BY <2>4, MarkTypes DEF AgentFinish
    <3>2. [marks |-> server[t].marks \cup {<<t, MaxEdits + runs>>}, newline |-> TRUE] \in Texts
      BY <3>1 DEF Texts
    <3>3. server' \in [Tasks -> Texts]
      BY <2>4, <3>2 DEF AgentFinish
    <3> QED
      BY <2>4, <3>3 DEF AgentFinish, queryVars, countVars
  <2> QED
    BY <2>1, <2>2, <2>3, <2>4 DEF QuietStep
<1>3. CheckTyped'
  BY <1>1, <1>2 DEF TypeInv, CheckTyped
<1>4. Rendered'
  BY <1>1 DEF TypeInv, Rendered, Shown, Enabled
<1>5. TypeOK'
  BY <1>1, <1>2 DEF TypeInv, TypeOK
<1> QED
  BY <1>3, <1>4, <1>5 DEF TypeInv

\* A save is sent, by the timer or for a checkpoint, or a checkpoint is requested.
LEMMA SendTypes ==
  TypeInv /\ (FireTimer \/ CreateCheckpoint \/ CheckpointPost) => TypeInv'
<1> SUFFICES ASSUME TypeInv, FireTimer \/ CreateCheckpoint \/ CheckpointPost PROVE TypeInv'
  OBVIOUS
<1>0. /\ puts \in Seq(PutRecords) /\ editor \in EditorRecords /\ editor.shown \in Texts
      /\ active \in Tasks /\ DOMAIN puts = 1..Len(puts) /\ Len(puts) \in Nat
  BY TypeFacts
<1>1. /\ UNCHANGED <<server, running, cache, fetch, active, local, seen, edits, runs, switches,
                     habits>>
      /\ checkpoints' \in 0..MaxCheckpoints
      /\ editor' \in {editor, [editor EXCEPT !.timer = FALSE]}
  BY EditorAssumption
  DEF TypeInv, TypeOK, FireTimer, CreateCheckpoint, CheckpointPost, serverVars, queryVars, pageVars,
      countVars
<1>2. /\ editor' \in EditorRecords /\ editor'.task = editor.task /\ editor'.data = editor.data
      /\ editor'.shown = editor.shown /\ editor'.enabled = editor.enabled
  BY <1>0, <1>1 DEF EditorRecords
<1>3. Rendered'
  BY <1>1, <1>2 DEF TypeInv, Rendered, Shown, Enabled
<1>4. /\ Put(active, editor.shown, "autosave") \in PutRecords
      /\ Put(active, editor.shown, "checkpoint") \in PutRecords
  BY <1>0 DEF Put, PutRecords
<1>5. /\ puts' \in Seq(PutRecords) /\ Len(puts') <= MaxPuts
      /\ check' \in [pc : {"idle", "saving", "post"}, task : Tasks \cup {Nothing}, text : OptionalText]
      /\ CheckTyped'
  <2>1. CASE FireTimer
    <3>1. puts' = Append(puts, Put(active, editor.shown, "autosave")) /\ check' = check
          /\ Len(puts) < MaxPuts
      BY <2>1 DEF FireTimer
    <3>2. /\ puts' \in Seq(PutRecords) /\ Len(puts') = Len(puts) + 1
          /\ DOMAIN puts' = DOMAIN puts \cup {Len(puts) + 1}
          /\ puts'[Len(puts) + 1].by = "autosave" /\ \A i \in DOMAIN puts : puts'[i] = puts[i]
      BY <1>0, <1>4, <3>1, PutAdded DEF Put
    <3>3. CheckTyped'
      BY <1>1, <3>1, <3>2 DEF TypeInv, CheckTyped
    <3> QED
      BY <1>0, <3>1, <3>2, <3>3, EditorAssumption DEF TypeInv, TypeOK
  <2>2. CASE CreateCheckpoint
    <3>1. Idle /\ \A i \in DOMAIN puts : puts[i].by # "checkpoint"
      BY <2>2 DEF CreateCheckpoint, Idle, TypeInv, CheckTyped
    <3>2. CASE /\ Len(puts) < MaxPuts
               /\ puts' = Append(puts, Put(active, editor.shown, "checkpoint"))
               /\ check' = [pc |-> "saving", task |-> active, text |-> editor.shown]
      <4>1. /\ puts' \in Seq(PutRecords) /\ Len(puts') = Len(puts) + 1
            /\ DOMAIN puts' = DOMAIN puts \cup {Len(puts) + 1}
            /\ puts'[Len(puts) + 1] = Put(active, editor.shown, "checkpoint")
            /\ \A i \in DOMAIN puts : puts'[i] = puts[i]
        BY <1>0, <1>4, <3>2, PutAdded
      <4>2. CheckTyped'
        BY <1>0, <1>1, <3>1, <3>2, <4>1 DEF TypeInv, CheckTyped, Put
      <4> QED
        BY <1>0, <3>2, <4>1, <4>2, EditorAssumption DEF OptionalText
    <3>3. CASE /\ check' = [pc |-> "post", task |-> active, text |-> editor.shown]
               /\ UNCHANGED puts
      <4>1. CheckTyped'
        BY <1>0, <1>1, <3>1, <3>3 DEF TypeInv, CheckTyped
      <4> QED
        BY <1>0, <3>3, <4>1, TypeFacts DEF OptionalText
    <3> QED
      BY <2>2, <3>2, <3>3 DEF CreateCheckpoint
  <2>3. CASE CheckpointPost
    <3>1. check.pc = "post" /\ check' = NoCheck /\ puts' = puts
      BY <2>3 DEF CheckpointPost
    <3>2. CheckTyped'
      BY <1>1, <3>1 DEF TypeInv, CheckTyped, NoCheck
    <3> QED
      BY <3>1, <3>2, TypeFacts DEF NoCheck, OptionalText
  <2> QED
    BY <2>1, <2>2, <2>3
<1>6. TypeOK'
  BY <1>1, <1>2, <1>5 DEF TypeInv, TypeOK, PutRecords, EditorRecords
<1> QED
  BY <1>3, <1>5, <1>6 DEF TypeInv

\* A save is delivered: its state changes, and nothing else of it.
LEMMA PutMarked ==
  ASSUME NEW s \in Seq(PutRecords), NEW i \in DOMAIN s, NEW x \in {"stored", "refused"},
         NEW r, r = [s EXCEPT ![i].state = x]
  PROVE  /\ r \in Seq(PutRecords) /\ Len(r) = Len(s) /\ DOMAIN r = DOMAIN s
         /\ \A j \in DOMAIN s : /\ r[j].task = s[j].task /\ r[j].text = s[j].text
                                /\ r[j].by = s[j].by
                                /\ r[j].state = IF j = i THEN x ELSE s[j].state
<1>1. s[i] \in PutRecords /\ [s[i] EXCEPT !.state = x] \in PutRecords
  <2>1. s[i] \in PutRecords
    BY ElementOfSeq
  <2> QED
    BY <2>1 DEF PutRecords
<1>2. r = [s EXCEPT ![i] = [s[i] EXCEPT !.state = x]]
  OBVIOUS
<1>3. r \in Seq(PutRecords) /\ Len(r) = Len(s)
  BY <1>1, <1>2, ExceptSeq
<1>4. DOMAIN r = DOMAIN s /\ \A j \in DOMAIN s : r[j] = IF j = i THEN [s[i] EXCEPT !.state = x] ELSE s[j]
  BY <1>2
<1>5. /\ [s[i] EXCEPT !.state = x].task = s[i].task /\ [s[i] EXCEPT !.state = x].text = s[i].text
      /\ [s[i] EXCEPT !.state = x].by = s[i].by /\ [s[i] EXCEPT !.state = x].state = x
  BY <1>1 DEF PutRecords
<1> QED
  BY <1>3, <1>4, <1>5

\* A save reaches the server.
LEMMA DeliverTypes == ASSUME TypeInv, NEW i \in 1..MaxPuts, DeliverPut(i) PROVE TypeInv'
<1>0. puts \in Seq(PutRecords) /\ Len(puts) <= MaxPuts /\ \A j \in DOMAIN puts : puts[j] \in PutRecords
  BY TypeFacts
<1>1. /\ UNCHANGED <<running, cache, fetch, active, local, seen, editor, check, edits, runs,
                     checkpoints, switches, habits>>
      /\ i \in DOMAIN puts
      /\ server' \in {server, [server EXCEPT ![puts[i].task] = Normalised(puts[i].text)]}
      /\ \E x \in {"stored", "refused"} : puts' = [puts EXCEPT ![i].state = x]
  BY DEF DeliverPut, queryVars, pageVars, countVars
<1>2. server' \in [Tasks -> Texts]
  <2>1. puts[i].task \in Tasks /\ puts[i].text \in Texts
    BY <1>0, <1>1 DEF PutRecords
  <2> QED
    BY <1>1, <2>1, TextTypes, TypeFacts
<1>3. /\ puts' \in Seq(PutRecords) /\ Len(puts') <= MaxPuts /\ DOMAIN puts' = DOMAIN puts
      /\ \A j \in DOMAIN puts : /\ puts'[j].task = puts[j].task /\ puts'[j].text = puts[j].text
                                /\ puts'[j].by = puts[j].by
  <2>1. PICK x \in {"stored", "refused"} : puts' = [puts EXCEPT ![i].state = x]
    BY <1>1
  <2>2. /\ puts' \in Seq(PutRecords) /\ Len(puts') = Len(puts) /\ DOMAIN puts' = DOMAIN puts
        /\ \A j \in DOMAIN puts : /\ puts'[j].task = puts[j].task /\ puts'[j].text = puts[j].text
                                  /\ puts'[j].by = puts[j].by
    BY <1>0, <1>1, <2>1, PutMarked
  <2> QED
    BY <1>0, <2>2
<1>4. CheckTyped'
  BY <1>1, <1>3 DEF TypeInv, CheckTyped
<1>5. Rendered'
  BY <1>1 DEF TypeInv, Rendered, Shown, Enabled
<1>6. TypeOK'
  BY <1>1, <1>2, <1>3 DEF TypeInv, TypeOK, PutRecords
<1> QED
  BY <1>4, <1>5, <1>6 DEF TypeInv

\* The page gets the answer of an autosave.
LEMMA AnswerTypes == ASSUME TypeInv, NEW i \in 1..MaxPuts, AnswerPut(i) PROVE TypeInv'
<1>0. /\ puts \in Seq(PutRecords) /\ Len(puts) <= MaxPuts /\ Len(puts) \in Nat
      /\ editor \in EditorRecords /\ \A j \in DOMAIN puts : puts[j] \in PutRecords
  BY TypeFacts
<1>1. /\ UNCHANGED <<server, running, cache, fetch, active, local, seen, check, edits, runs,
                     checkpoints, switches, habits>>
      /\ i \in DOMAIN puts /\ puts' = RemoveAt(puts, i)
      /\ editor' \in {[editor EXCEPT !.lastSaved = Normalised(puts[i].text), !.saveState = "saved"],
                      [editor EXCEPT !.saveState = "error"]}
  BY DEF AnswerPut, Answered, serverVars, queryVars, countVars
<1>2. Normalised(puts[i].text) \in Texts
  <2>1. puts[i].text \in Texts
    BY <1>0, <1>1 DEF PutRecords
  <2> QED
    BY <2>1, TextTypes
<1>3. /\ editor' \in EditorRecords /\ editor'.task = editor.task /\ editor'.data = editor.data
      /\ editor'.shown = editor.shown /\ editor'.enabled = editor.enabled
  BY <1>0, <1>1, <1>2 DEF EditorRecords
<1>4. /\ puts' \in Seq(PutRecords) /\ Len(puts') <= MaxPuts
      /\ \A j \in DOMAIN puts' : Was(i, j) \in DOMAIN puts /\ puts'[j] = puts[Was(i, j)]
      /\ \A j, k \in DOMAIN puts' : Was(i, j) = Was(i, k) => j = k
  <2>1. /\ puts' \in Seq(PutRecords) /\ Len(puts') = Len(puts) - 1
        /\ DOMAIN puts' = 1..(Len(puts) - 1)
        /\ \A j \in DOMAIN puts' : Was(i, j) \in DOMAIN puts /\ puts'[j] = puts[Was(i, j)]
    BY <1>0, <1>1, PutRemoved
  <2>2. \A j, k \in DOMAIN puts' : Was(i, j) = Was(i, k) => j = k
    BY <2>1, <1>0 DEF Was
  <2> QED
    BY <1>0, <2>1, <2>2, EditorAssumption
<1>5. CheckTyped'
  BY <1>1, <1>4 DEF TypeInv, CheckTyped
<1>6. Rendered'
  BY <1>1, <1>3 DEF TypeInv, Rendered, Shown, Enabled
<1>7. TypeOK'
  BY <1>1, <1>3, <1>4 DEF TypeInv, TypeOK, PutRecords, EditorRecords
<1> QED
  BY <1>5, <1>6, <1>7 DEF TypeInv

\* The page gets the answer of a checkpoint's save.
LEMMA CheckTypes == ASSUME TypeInv, NEW i \in 1..MaxPuts, AnswerCheckpoint(i) PROVE TypeInv'
<1>0. /\ puts \in Seq(PutRecords) /\ Len(puts) <= MaxPuts /\ Len(puts) \in Nat
      /\ editor \in EditorRecords /\ active \in Tasks /\ seen \in BOOLEAN
      /\ cache \in [Tasks -> OptionalText] /\ local \in OptionalText
  BY TypeFacts
<1>1. /\ UNCHANGED <<server, running, cache, fetch, active, seen, edits, runs, checkpoints, switches,
                     habits>>
      /\ i \in DOMAIN puts /\ puts' = RemoveAt(puts, i) /\ puts[i].by = "checkpoint"
      /\ \/ /\ check' = [check EXCEPT !.pc = "post"]
            /\ local' = Normalised(check.text)
            /\ editor' = Render(editor, active, local', cache, seen)
         \/ check' = NoCheck /\ local' = local /\ editor' = editor
  BY DEF AnswerCheckpoint, Answered, serverVars, queryVars, countVars
<1>2. check.task \in Tasks /\ check.text \in Texts
  BY <1>1 DEF TypeInv, CheckTyped
<1>3. /\ puts' \in Seq(PutRecords) /\ Len(puts') <= MaxPuts
      /\ \A j \in DOMAIN puts' : puts'[j].by # "checkpoint"
  <2>1. /\ puts' \in Seq(PutRecords) /\ Len(puts') = Len(puts) - 1
        /\ \A j \in DOMAIN puts' : Was(i, j) \in DOMAIN puts \ {i} /\ puts'[j] = puts[Was(i, j)]
    BY <1>0, <1>1, PutRemoved
  <2>2. \A k \in DOMAIN puts \ {i} : puts[k].by # "checkpoint"
    BY <1>1 DEF TypeInv, CheckTyped
  <2> QED
    BY <1>0, <2>1, <2>2, EditorAssumption
<1>4. check' \in [pc : {"idle", "saving", "post"}, task : Tasks \cup {Nothing}, text : OptionalText]
  BY <1>1 DEF TypeInv, TypeOK, NoCheck, OptionalText
<1>5. CheckTyped'
  <2>1. check'.pc # "idle" => check'.task \in Tasks /\ check'.text \in Texts
    BY <1>1, <1>2 DEF TypeInv, TypeOK, NoCheck
  <2> QED
    BY <1>1, <1>3, <2>1 DEF TypeInv, CheckTyped
<1>6. local' \in OptionalText /\ editor' \in EditorRecords /\ Rendered'
  <2>1. CASE local' = local /\ editor' = editor
    BY <1>0, <1>1, <2>1 DEF TypeInv, Rendered, Shown, Enabled
  <2>2. CASE local' = Normalised(check.text) /\ editor' = Render(editor, active, local', cache, seen)
    <3>1. local' \in OptionalText
      BY <1>2, <2>2, TextTypes DEF OptionalText
    <3>2. TypeOK
      BY DEF TypeInv
    <3> QED
      BY <1>0, <1>1, <2>2, <3>1, <3>2, PageRenders
  <2> QED
    BY <1>1, <2>1, <2>2
<1>7. TypeOK'
  BY <1>1, <1>3, <1>4, <1>6 DEF TypeInv, TypeOK, PutRecords, EditorRecords
<1> QED
  BY <1>5, <1>6, <1>7 DEF TypeInv

LEMMA StepTypes == TypeInv /\ [Next]_vars => TypeInv'
<1> SUFFICES ASSUME TypeInv, [Next]_vars PROVE TypeInv'
  OBVIOUS
<1>1. CASE UNCHANGED vars
  BY <1>1 DEF vars, serverVars, queryVars, pageVars, countVars, TypeInv, TypeOK, CheckTyped, Rendered,
              Shown, Enabled
<1>2. CASE PageStep
  BY <1>2, PageTypes
<1>3. CASE QuietStep
  BY <1>3, QuietTypes
<1>4. CASE FireTimer \/ CreateCheckpoint \/ CheckpointPost
  BY <1>4, SendTypes
<1>5. ASSUME NEW i \in 1..MaxPuts, DeliverPut(i) \/ AnswerPut(i) \/ AnswerCheckpoint(i) PROVE TypeInv'
  BY <1>5, DeliverTypes, AnswerTypes, CheckTypes
<1> QED
  BY <1>1, <1>2, <1>3, <1>4, <1>5 DEF Next, PageStep, QuietStep

\* Every variable has its type in every reachable state, for any tasks, bounds and
\* habits: what the page, the queries and the server pass around are texts, and the
\* save of a checkpoint is the only one of the checkpoint under way.
THEOREM TypesCorrect == Spec => []TypeOK
<1>1. TypeInv => TypeOK
  BY DEF TypeInv
<1> QED
  BY <1>1, InitTypes, StepTypes, PTL DEF Spec

-----------------------------------------------------------------------------
(* Checkpoints wait for a save that is planned or under way *)

\* A hook that says "saving" has a timer, a save in flight (q), or nothing to save.
Pends(e, q) ==
  e.saveState = "saving" /\ e.enabled => e.timer \/ q \/ e.shown = e.lastSaved
Autosaving == \E i \in DOMAIN puts : puts[i].by = "autosave"

\* SavingIsPending with the saves of the hook only: the answer of a checkpoint's
\* save does not end the state "saving".
PendingInv == Pends(editor, Autosaving)

LEMMA RenderPends ==
  ASSUME NEW e \in EditorRecords, NEW t \in Tasks, NEW d \in OptionalText,
         NEW c \in [Tasks -> OptionalText], NEW b \in BOOLEAN, NEW q \in BOOLEAN, Pends(e, q)
  PROVE  Pends(Render(e, t, d, c, b), q)
BY RenderFacts DEF RenderLeaves, Pends

LEMMA StepPends == TypeInv /\ PendingInv /\ [Next]_vars => PendingInv'
<1> SUFFICES ASSUME TypeInv, PendingInv, [Next]_vars PROVE PendingInv'
  OBVIOUS
<1>0. /\ editor \in EditorRecords /\ cache \in [Tasks -> OptionalText] /\ active \in Tasks
      /\ local \in OptionalText /\ seen \in BOOLEAN /\ editor.shown \in Texts
      /\ puts \in Seq(PutRecords) /\ DOMAIN puts = 1..Len(puts) /\ Len(puts) \in Nat
      /\ Autosaving \in BOOLEAN
  BY TypeFacts DEF Autosaving
<1>1. TypeInv'
  BY StepTypes
<1>2. /\ cache' \in [Tasks -> OptionalText] /\ active' \in Tasks /\ local' \in OptionalText
      /\ seen' \in BOOLEAN
  BY <1>1 DEF TypeInv, TypeOK
<1>3. /\ Put(active, editor.shown, "autosave") \in PutRecords
      /\ Put(active, editor.shown, "checkpoint") \in PutRecords
  BY <1>0 DEF Put, PutRecords
<1>4. CASE editor' = editor /\ puts' = puts
  BY <1>4 DEF PendingInv, Pends, Autosaving
<1>5. ASSUME NEW e \in EditorRecords, Pends(e, Autosaving), Autosaving' = Autosaving,
             editor' = Render(e, active', local', cache', seen')
      PROVE  PendingInv'
  BY <1>0, <1>2, <1>5, RenderPends DEF PendingInv
<1>6. CASE PageStep
  <2>1. puts' = puts /\ Autosaving' = Autosaving
    BY <1>6 DEF PageStep, Edit, Undo, SelectTask, LearnStatus, ApplyFetch, Autosaving
  <2>2. ASSUME NEW t \in Tasks, SelectTask(t) PROVE PendingInv'
    <3>1. /\ active' = t /\ local' = Nothing
          /\ editor' = Render(Render(editor, t, local, cache, seen'), t, Nothing, cache, seen')
          /\ cache' = cache
      BY <2>2 DEF SelectTask
    <3>2. /\ Render(editor, t, local, cache, seen') \in EditorRecords
          /\ Pends(Render(editor, t, local, cache, seen'), Autosaving)
      BY <1>0, <1>2, RenderFacts, RenderPends DEF PendingInv
    <3> QED
      BY <1>5, <2>1, <3>1, <3>2
  <2>3. CASE Edit \/ Undo \/ LearnStatus \/ \E t \in Tasks : ApplyFetch(t)
    <3>1. editor' = Render(editor, active', local', cache', seen')
      BY <2>3 DEF Edit, Undo, LearnStatus, ApplyFetch, queryVars
    <3> QED
      BY <1>0, <1>5, <2>1, <3>1 DEF PendingInv
  <2> QED
    BY <1>6, <2>2, <2>3 DEF PageStep
<1>7. CASE FireTimer
  <2>1. /\ puts' = Append(puts, Put(active, editor.shown, "autosave"))
    BY <1>7 DEF FireTimer
  <2>2. Autosaving'
    BY <1>0, <1>3, <2>1, PutAdded DEF Autosaving, Put
  <2> QED
    BY <2>2 DEF PendingInv, Pends
<1>8. CASE CreateCheckpoint
  <2>1. editor' = editor /\ puts' \in {puts, Append(puts, Put(active, editor.shown, "checkpoint"))}
    BY <1>8 DEF CreateCheckpoint, pageVars
  <2>2. Autosaving => Autosaving'
    BY <1>0, <1>3, <2>1, PutAdded DEF Autosaving
  <2> QED
    BY <2>1, <2>2 DEF PendingInv, Pends
<1>9. ASSUME NEW i \in 1..MaxPuts, DeliverPut(i) PROVE PendingInv'
  <2>1. PICK x \in {"stored", "refused"} : puts' = [puts EXCEPT ![i].state = x]
    BY <1>9 DEF DeliverPut
  <2>2. i \in DOMAIN puts /\ editor' = editor
    BY <1>9 DEF DeliverPut, pageVars
  <2>3. Autosaving' = Autosaving
    BY <1>0, <2>1, <2>2, PutMarked DEF Autosaving
  <2> QED
    BY <2>2, <2>3 DEF PendingInv, Pends
<1>10. ASSUME NEW i \in 1..MaxPuts, AnswerPut(i) PROVE PendingInv'
  <2>1. editor'.saveState # "saving"
    BY <1>0, <1>10 DEF AnswerPut, EditorRecords
  <2> QED
    BY <2>1 DEF PendingInv, Pends
<1>11. ASSUME NEW i \in 1..MaxPuts, AnswerCheckpoint(i) PROVE PendingInv'
  <2>1. /\ i \in DOMAIN puts /\ puts' = RemoveAt(puts, i) /\ puts[i].by = "checkpoint"
        /\ editor' = editor \/ editor' = Render(editor, active', local', cache', seen')
    BY <1>11 DEF AnswerCheckpoint, Answered, queryVars
  <2>2. Autosaving => Autosaving'
    <3> SUFFICES ASSUME NEW k \in DOMAIN puts, puts[k].by = "autosave" PROVE Autosaving'
      BY DEF Autosaving
    <3>1. PICK j \in 1..(Len(puts) - 1) : Was(i, j) = k
      BY <1>0, <2>1, WasFacts
    <3>2. j \in DOMAIN puts' /\ puts'[j] = puts[k]
      BY <1>0, <2>1, <3>1, PutRemoved
    <3> QED
      BY <3>2 DEF Autosaving
  <2>3. Autosaving' => Autosaving
    <3>1. /\ DOMAIN puts' = 1..(Len(puts) - 1)
          /\ \A j \in DOMAIN puts' : Was(i, j) \in DOMAIN puts \ {i} /\ puts'[j] = puts[Was(i, j)]
      BY <1>0, <2>1, PutRemoved
    <3> QED
      BY <3>1 DEF Autosaving
  <2>4. CASE editor' = editor
    BY <2>2, <2>4 DEF PendingInv, Pends
  <2>5. CASE editor' = Render(editor, active', local', cache', seen')
    <3>1. Autosaving' = Autosaving
      BY <1>0, <2>2, <2>3 DEF Autosaving
    <3> QED
      BY <1>0, <1>5, <2>5, <3>1 DEF PendingInv
  <2> QED
    BY <2>1, <2>4, <2>5
<1>12. CASE QuietStep \/ CheckpointPost \/ UNCHANGED vars
  <2>1. editor' = editor /\ puts' = puts
    BY <1>12 DEF QuietStep, Refetch, AnswerFetch, AgentStart, AgentFinish, CheckpointPost, vars, pageVars
  <2> QED
    BY <1>4, <2>1
<1> QED
  BY <1>6, <1>7, <1>8, <1>9, <1>10, <1>11, <1>12 DEF Next, PageStep, QuietStep

\* While the toolbar says "saving", which makes createManualCheckpoint wait, a save
\* is planned or in flight, unless the page is locked or shows what is saved: for any
\* user and any network, nothing waits for a save that never was.
THEOREM CheckpointsWaitForSaves == Spec => []SavingIsPending
<1>1. Init => PendingInv
  BY DEF Init, PendingInv, Pends
<1>2. TypeInv /\ PendingInv => SavingIsPending
  BY TypeFacts DEF PendingInv, Pends, Autosaving, SavingIsPending
<1> QED
  BY <1>1, <1>2, InitTypes, StepTypes, StepPends, PTL DEF Spec

-----------------------------------------------------------------------------
(* What is sent to a task was typed in that task *)

\* NoCrossTaskSave, and the same of every other place that holds a text: the cache
\* and the answers of the queries, the local draft, the checkpoint under way.
Apart ==
  /\ \A i \in DOMAIN puts : OfTask(puts[i].text, puts[i].task)
  /\ \A t \in Tasks : OfTask(server[t], t)
  /\ \A t \in Tasks : cache[t] # Nothing => OfTask(cache[t], t)
  /\ \A t \in Tasks : fetch[t] \notin {Nothing, Asked} => OfTask(fetch[t], t)
  /\ local # Nothing => OfTask(local, active)
  /\ ~Idle => check.task = active /\ OfTask(check.text, active)

ApartInv == Has("awaits_checkpoint") => Apart

LEMMA OfTaskFacts ==
  ASSUME NEW t \in Tasks
  PROVE  /\ OfTask(Blank, t)
         /\ \A x \in Texts : OfTask(x, t) => OfTask(Normalised(x), t)
         /\ \A n : \A x \in Texts : OfTask(x, t) => OfTask([x EXCEPT !.marks = @ \cup {<<t, n>>}], t)
         /\ \A m : \A x \in Texts : OfTask(x, t) => OfTask([x EXCEPT !.marks = @ \ {m}], t)
         /\ \A n : \A x \in Texts : OfTask(x, t) =>
              OfTask([marks |-> x.marks \cup {<<t, n>>}, newline |-> TRUE], t)
BY DEF OfTask, Blank, Normalised, Texts

LEMMA ShownApart == TypeInv /\ Apart => OfTask(editor.shown, active)
BY TypeFacts, OfTaskFacts DEF TypeInv, Rendered, Shown, Apart

\* The habits of a behaviour stay.
LEMMA HabitsStay == [Next]_vars => habits' = habits
<1> SUFFICES ASSUME [Next]_vars PROVE habits' = habits
  OBVIOUS
<1>1. CASE PageStep
  BY <1>1 DEF PageStep, Edit, Undo, SelectTask, LearnStatus, ApplyFetch
<1>2. CASE QuietStep
  BY <1>2 DEF QuietStep, Refetch, AnswerFetch, AgentStart, AgentFinish
<1>3. CASE FireTimer \/ CreateCheckpoint \/ CheckpointPost
  BY <1>3 DEF FireTimer, CreateCheckpoint, CheckpointPost
<1>4. ASSUME NEW i \in 1..MaxPuts, DeliverPut(i) \/ AnswerPut(i) \/ AnswerCheckpoint(i)
      PROVE  habits' = habits
  BY <1>4 DEF DeliverPut, AnswerPut, AnswerCheckpoint
<1>5. CASE UNCHANGED vars
  BY <1>5 DEF vars
<1> QED
  BY <1>1, <1>2, <1>3, <1>4, <1>5 DEF Next, PageStep, QuietStep

LEMMA StepApart == TypeInv /\ ApartInv /\ [Next]_vars => ApartInv'
<1> SUFFICES ASSUME TypeInv, Apart, [Next]_vars, Has("awaits_checkpoint") PROVE Apart'
  BY HabitsStay DEF ApartInv, Has
<1>0. /\ server \in [Tasks -> Texts] /\ cache \in [Tasks -> OptionalText] /\ active \in Tasks
      /\ fetch \in [Tasks -> OptionalText \cup {Asked}] /\ local \in OptionalText
      /\ editor.shown \in Texts /\ puts \in Seq(PutRecords) /\ DOMAIN puts = 1..Len(puts)
      /\ Len(puts) \in Nat /\ \A i \in DOMAIN puts : puts[i] \in PutRecords
  BY TypeFacts
<1>1. OfTask(editor.shown, active)
  BY ShownApart
<1>2. /\ Put(active, editor.shown, "autosave") \in PutRecords
      /\ Put(active, editor.shown, "checkpoint") \in PutRecords
  BY <1>0 DEF Put, PutRecords
<1>3. ASSUME UNCHANGED <<puts, server, cache, fetch, check, active>>,
             local' # Nothing => OfTask(local', active)
      PROVE  Apart'
  BY <1>3 DEF Apart, Idle
<1>4. CASE Edit
  <2>1. local' = [editor.shown EXCEPT !.marks = @ \cup {<<active, edits + 1>>}]
    BY <1>4 DEF Edit
  <2>2. OfTask(local', active)
    BY <1>0, <1>1, <2>1, OfTaskFacts
  <2> QED
    BY <1>3, <1>4, <2>2 DEF Edit, serverVars, queryVars
<1>5. CASE Undo
  <2>1. local' = [local EXCEPT !.marks = @ \ {<<active, edits>>}] /\ local # Nothing
    BY <1>5 DEF Undo
  <2>2. OfTask(local, active) /\ local \in Texts
    BY <1>0, <2>1 DEF Apart, OptionalText
  <2>3. OfTask(local', active)
    BY <1>0, <2>1, <2>2, OfTaskFacts
  <2> QED
    BY <1>3, <1>5, <2>3 DEF Undo, serverVars, queryVars
<1>6. ASSUME NEW t \in Tasks, SelectTask(t) PROVE Apart'
  <2>1. /\ UNCHANGED <<puts, server, cache, check>> /\ Idle /\ local' = Nothing
        /\ fetch' \in {fetch, [fetch EXCEPT ![t] = Asked]}
    BY <1>6 DEF SelectTask, serverVars
  <2> QED
    BY <1>0, <2>1 DEF Apart, Idle
<1>7. CASE LearnStatus
  BY <1>3, <1>7 DEF LearnStatus, Apart, serverVars, queryVars
<1>8. CASE Refetch
  BY <1>0, <1>8 DEF Refetch, Apart, Idle, serverVars, pageVars
<1>9. ASSUME NEW t \in Tasks, AnswerFetch(t) PROVE Apart'
  BY <1>0, <1>9 DEF AnswerFetch, Apart, Idle, serverVars, pageVars
<1>10. ASSUME NEW t \in Tasks, ApplyFetch(t) PROVE Apart'
  BY <1>0, <1>10 DEF ApplyFetch, Apart, Idle, serverVars
<1>11. CASE FireTimer
  <2>1. /\ UNCHANGED <<server, cache, fetch, check, active, local>>
        /\ puts' = Append(puts, Put(active, editor.shown, "autosave"))
    BY <1>11 DEF FireTimer, serverVars, queryVars
  <2>2. \A i \in DOMAIN puts' : OfTask(puts'[i].text, puts'[i].task)
    BY <1>0, <1>1, <1>2, <2>1, PutAdded DEF Apart, Put
  <2> QED
    BY <2>1, <2>2 DEF Apart, Idle
<1>12. CASE CreateCheckpoint
  <2>1. /\ UNCHANGED <<server, cache, fetch, active, local>>
        /\ puts' \in {puts, Append(puts, Put(active, editor.shown, "checkpoint"))}
        /\ check'.task = active /\ check'.text = editor.shown
    BY <1>12 DEF CreateCheckpoint, serverVars, queryVars, pageVars
  <2>2. \A i \in DOMAIN puts' : OfTask(puts'[i].text, puts'[i].task)
    BY <1>0, <1>1, <1>2, <2>1, PutAdded DEF Apart, Put
  <2> QED
    BY <1>1, <2>1, <2>2 DEF Apart, Idle
<1>13. ASSUME NEW i \in 1..MaxPuts, DeliverPut(i) PROVE Apart'
  <2>1. /\ UNCHANGED <<cache, fetch, check, active, local>> /\ i \in DOMAIN puts
        /\ server' \in {server, [server EXCEPT ![puts[i].task] = Normalised(puts[i].text)]}
    BY <1>13 DEF DeliverPut, queryVars, pageVars
  <2>2. PICK x \in {"stored", "refused"} : puts' = [puts EXCEPT ![i].state = x]
    BY <1>13 DEF DeliverPut
  <2>3. \A j \in DOMAIN puts' : OfTask(puts'[j].text, puts'[j].task)
    <3>1. /\ DOMAIN puts' = DOMAIN puts
          /\ \A j \in DOMAIN puts : puts'[j].task = puts[j].task /\ puts'[j].text = puts[j].text
      BY <1>0, <2>1, <2>2, PutMarked
    <3> QED
      BY <3>1 DEF Apart
  <2>4. \A t \in Tasks : OfTask(server'[t], t)
    <3>1. puts[i].task \in Tasks /\ puts[i].text \in Texts
      BY <1>0, <2>1 DEF PutRecords
    <3>2. OfTask(Normalised(puts[i].text), puts[i].task)
      BY <2>1, <3>1, OfTaskFacts DEF Apart
    <3> QED
      BY <1>0, <2>1, <3>1, <3>2 DEF Apart
  <2> QED
    BY <2>1, <2>3, <2>4 DEF Apart, Idle
<1>14. ASSUME NEW i \in 1..MaxPuts, AnswerPut(i) \/ AnswerCheckpoint(i) PROVE Apart'
  <2>1. /\ UNCHANGED <<server, cache, fetch, active>> /\ i \in DOMAIN puts
        /\ puts' = RemoveAt(puts, i)
    BY <1>14 DEF AnswerPut, AnswerCheckpoint, Answered, serverVars, queryVars
  <2>2. \A j \in DOMAIN puts' : OfTask(puts'[j].text, puts'[j].task)
    <3>0. puts \in Seq(PutRecords) /\ i \in DOMAIN puts /\ puts' = RemoveAt(puts, i)
      BY <1>0, <2>1
    <3>1. /\ DOMAIN puts' = 1..(Len(puts) - 1)
          /\ \A j \in DOMAIN puts' : Was(i, j) \in DOMAIN puts \ {i} /\ puts'[j] = puts[Was(i, j)]
      BY <3>0, PutRemoved
    <3> QED
      BY <3>1 DEF Apart
  <2>3. CASE AnswerPut(i)
    BY <2>1, <2>2, <2>3 DEF AnswerPut, Apart, Idle
  <2>4. CASE AnswerCheckpoint(i)
    <3>1. /\ check.task = active /\ OfTask(check.text, active) /\ check.text \in Texts
          /\ check.pc = "saving"
      BY <2>1, <2>4 DEF AnswerCheckpoint, Answered, TypeInv, CheckTyped, Apart, Idle
    <3>2. \/ local' = Normalised(check.text) /\ check' = [check EXCEPT !.pc = "post"]
          \/ local' = local /\ check' = NoCheck
      BY <2>4 DEF AnswerCheckpoint
    <3>3. local' # Nothing => OfTask(local', active)
      BY <1>0, <3>1, <3>2, OfTaskFacts DEF Apart
    <3>4. check'.pc # "idle" => check'.task = active /\ check'.text = check.text
      BY <3>1, <3>2 DEF NoCheck, TypeInv, TypeOK
    <3> QED
      BY <2>1, <2>2, <3>1, <3>3, <3>4 DEF Apart, Idle
  <2> QED
    BY <1>14, <2>3, <2>4
<1>15. CASE CheckpointPost
  BY <1>15 DEF CheckpointPost, NoCheck, Apart, Idle, serverVars, queryVars, pageVars
<1>16. ASSUME NEW t \in Tasks, AgentStart(t) PROVE Apart'
  BY <1>16 DEF AgentStart, Apart, Idle, queryVars, pageVars
<1>17. ASSUME NEW t \in Tasks, AgentFinish(t) PROVE Apart'
  <2>1. /\ UNCHANGED <<puts, cache, fetch, check, active, local>>
        /\ server' = [server EXCEPT ![t] = [marks   |-> server[t].marks \cup {<<t, MaxEdits + runs>>},
                                            newline |-> TRUE]]
    BY <1>17 DEF AgentFinish, queryVars, pageVars
  <2>2. OfTask([marks |-> server[t].marks \cup {<<t, MaxEdits + runs>>}, newline |-> TRUE], t)
    BY <1>0, OfTaskFacts DEF Apart
  <2> QED
    BY <1>0, <2>1, <2>2 DEF Apart, Idle
<1>18. CASE UNCHANGED vars
  BY <1>18 DEF vars, serverVars, queryVars, pageVars, Apart, Idle
<1> QED
  BY <1>4, <1>5, <1>6, <1>7, <1>8, <1>9, <1>10, <1>11, <1>12, <1>13, <1>14, <1>15, <1>16, <1>17,
     <1>18 DEF Next

\* "does not autosave the previous task draft into a newly selected task"
\* (AppShell.test.tsx), for a user who does nothing else while a checkpoint is made:
\* however the tasks are changed, whatever the queries bring and in whichever order
\* saves are handled, what is sent to a task, and what its draft holds, was typed in
\* it or written there by an agent.
THEOREM TasksStayApart == Spec => []SavesStayApart
<1>1. Init => ApartInv
  <2>1. Init => /\ local = Nothing /\ puts = <<>> /\ check.pc = "idle"
                /\ server = [t \in Tasks |-> Normalised(Blank)]
                /\ cache = [t \in Tasks |-> Nothing]
                /\ \A t \in Tasks : fetch[t] \in {Asked, Nothing}
    BY DEF Init, NoCheck
  <2>2. Blank \in Texts
    BY TextTypes
  <2> QED
    BY <2>1, <2>2, OfTaskFacts DEF ApartInv, Apart, Idle
<1>2. ApartInv => SavesStayApart
  BY DEF ApartInv, Apart, SavesStayApart, NoCrossTaskSave
<1> QED
  BY <1>1, <1>2, InitTypes, StepTypes, StepApart, PTL DEF Spec

-----------------------------------------------------------------------------
(* A user who is patient in every respect, and a network that keeps the order *)

\* The user's own contributions to a text, and those on the server for the page.
Mine(text) == text.marks \cap UserMarks
Stored == Mine(server[active])

\* The cache of the shown draft lacks nothing of what the server has from the user.
Current == cache[active] # Nothing /\ Mine(cache[active]) = Stored

\* All saves are of the shown task; each holds what was there when it was sent and
\* what the saves before it hold, and the page holds all that they hold.
SavesOrdered ==
  /\ \A i \in DOMAIN puts :
       /\ puts[i].task = active /\ Mine(puts[i].text) \subseteq Mine(editor.shown)
       /\ puts[i].state = "sent" => Stored \subseteq Mine(puts[i].text)
       /\ puts[i].state = "stored" => Mine(puts[i].text) \subseteq Stored
  /\ \A i, j \in DOMAIN puts : i < j => Mine(puts[i].text) \subseteq Mine(puts[j].text)

\* No query brings something that the server has not.
CachesOlder ==
  \A t \in Tasks :
    /\ cache[t] # Nothing => Mine(cache[t]) \subseteq Mine(server[t])
    /\ fetch[t] \notin {Nothing, Asked} => Mine(fetch[t]) \subseteq Mine(server[t])

\* Before the first edit the page shows the cache, has nothing to save by itself, and
\* its cache is current unless the query is under way and nothing else is.
Untouched ==
  local = Nothing =>
    /\ ~editor.timer /\ \A i \in DOMAIN puts : puts[i].by = "checkpoint"
    /\ fetch[active] \notin {Nothing, Asked} => Mine(fetch[active]) = Stored
    /\ fetch[active] = Nothing \/ puts # <<>> \/ ~Idle => Current
    /\ cache[active] # Nothing => editor.lastSaved = cache[active]

\* After it the local draft holds what the server has.
Edited == local # Nothing => Stored \subseteq Mine(local) /\ cache[active] # Nothing

\* The checkpoint under way is of what the page shows, and saved when requested.
Checking ==
  /\ ~Idle => check.task = active /\ Mine(check.text) = Mine(editor.shown)
  /\ check.pc = "post" => Mine(check.text) \subseteq Stored

\* What the hook takes for saved is on the server.
Baseline == cache[active] # Nothing => Mine(editor.lastSaved) \subseteq Stored

\* When no save is planned, what the page shows is stored, or in a save in flight, or
\* was refused: then the hook does not say "saved".
Saved ==
  editor.enabled /\ ~editor.timer =>
    \/ Mine(editor.shown) \subseteq Stored
    \/ \E i \in DOMAIN puts : /\ puts[i].by = "autosave"
                              /\ Mine(editor.shown) \subseteq Mine(puts[i].text)
    \/ ~Autosaving /\ editor.saveState # "saved"

Patiently == SavesOrdered /\ CachesOlder /\ Untouched /\ Edited /\ Checking /\ Baseline /\ Saved
PatientInv == habits = Habits => Patiently

LEMMA MineFacts ==
  /\ Mine(Blank) = {} /\ \A x \in Texts : Mine(Normalised(x)) = Mine(x)
  /\ \A m : \A x \in Texts : /\ Mine(x) \subseteq Mine([x EXCEPT !.marks = @ \cup {m}])
                            /\ Mine([x EXCEPT !.marks = @ \ {m}]) = Mine(x) \ {m}
  /\ \A x \in Texts, m \in Marks \ UserMarks :
       Mine([marks |-> x.marks \cup {m}, newline |-> TRUE]) = Mine(x)
BY DEF Mine, Blank, Normalised, Texts

\* What the page shows, and what it holds as soon as it may save.
LEMMA ShownFacts ==
  ASSUME TypeInv, Patiently
  PROVE  /\ editor.data = cache[active] /\ editor.task = active
         /\ local # Nothing => editor.shown = local
         /\ local = Nothing /\ cache[active] # Nothing => editor.shown = cache[active]
         /\ editor.enabled => cache[active] # Nothing
         /\ fetch[active] = Nothing \/ puts # <<>> \/ ~Idle \/ local # Nothing =>
              cache[active] # Nothing /\ Stored \subseteq Mine(editor.shown)
         /\ local = Nothing /\ (fetch[active] = Nothing \/ puts # <<>> \/ ~Idle) =>
              Mine(editor.shown) = Stored
<1>1. Rendered
  BY DEF TypeInv
<1> QED
  BY <1>1 DEF Rendered, Shown, Enabled, Patiently, Untouched, Edited, Current

\* A render with the same data of the same task keeps the baseline, and plans a save
\* if the text is new.
LEMMA RenderSaves ==
  ASSUME TypeInv, Patiently, UNCHANGED <<server, active, puts>>, cache'[active] = cache[active],
         RenderLeaves(editor, editor', active, local', cache', seen')
  PROVE  Baseline' /\ Saved' /\ editor'.lastSaved = editor.lastSaved
<1>1. editor.data = cache[active] /\ editor.task = active
  BY ShownFacts
<1>2. editor'.lastSaved = editor.lastSaved
  BY <1>1 DEF RenderLeaves
<1>3. Stored' = Stored /\ Autosaving' = Autosaving
  BY DEF Stored, Autosaving
<1>4. Baseline'
  BY <1>2, <1>3 DEF Patiently, Baseline
<1>5. Saved'
  <2> SUFFICES ASSUME editor'.enabled, ~editor'.timer
               PROVE  \/ Mine(editor'.shown) \subseteq Stored
                      \/ \E i \in DOMAIN puts : /\ puts[i].by = "autosave"
                                                /\ Mine(editor'.shown) \subseteq Mine(puts[i].text)
                      \/ ~Autosaving /\ editor'.saveState # "saved"
    BY <1>3 DEF Saved
  <2>1. CASE editor'.shown = editor.shown /\ editor'.enabled = editor.enabled
    <3>1. ~editor.timer /\ editor.enabled /\ editor'.saveState \in {editor.saveState, "idle"}
      BY <1>1, <2>1 DEF RenderLeaves
    <3> QED
      BY <2>1, <3>1 DEF Patiently, Saved
  <2>2. CASE ~(editor'.shown = editor.shown /\ editor'.enabled = editor.enabled)
    <3>1. editor'.shown = editor'.lastSaved /\ cache[active] # Nothing
      BY <1>1, <2>2 DEF RenderLeaves, Enabled
    <3> QED
      BY <1>2, <3>1 DEF Patiently, Baseline
  <2> QED
    BY <2>1, <2>2
<1> QED
  BY <1>2, <1>4, <1>5

-----------------------------------------------------------------------------
(* The steps of a patient user *)

LEMMA EditKeeps == ASSUME TypeInv, Patiently, habits = Habits, Edit PROVE Patiently'
<1>1. /\ UNCHANGED <<server, cache, fetch, active, seen, puts, check>> /\ Idle
      /\ cache[active] # Nothing /\ fetch[active] = Nothing
      /\ local' = [editor.shown EXCEPT !.marks = @ \cup {<<active, edits + 1>>}]
      /\ editor' = Render(editor, active, local', cache, seen)
  BY DEF Edit, Has, Habits, UpToDate, serverVars, queryVars
<1>2. Mine(editor.shown) \subseteq Mine(local') /\ local' \in Texts /\ local' # Nothing
  <2>1. editor.shown \in Texts /\ <<active, edits + 1>> \in Marks
    BY TypeFacts, MarkTypes DEF Edit
  <2>2. local' \in Texts
    BY <1>1, <2>1 DEF Texts
  <2> QED
    BY <1>1, <2>1, <2>2, MineFacts, TextTypes
<1>3. RenderLeaves(editor, editor', active, local', cache', seen')
  <2>1. /\ editor' = Render(editor, active, local', cache, seen) /\ local' \in OptionalText
        /\ cache' = cache /\ seen' = seen
    BY <1>1, <1>2 DEF OptionalText
  <2> QED
    BY <2>1, TypeFacts, RenderFacts
<1>4. editor'.shown = local'
  BY <1>2, <1>3 DEF RenderLeaves, Shown
<1>5. Stored' = Stored /\ Stored \subseteq Mine(editor.shown)
  BY <1>1, ShownFacts DEF Stored
<1>6. SavesOrdered'
  BY <1>1, <1>2, <1>4, <1>5 DEF Patiently, SavesOrdered
<1>7. CachesOlder' /\ Untouched' /\ Edited'
  BY <1>1, <1>2, <1>5 DEF Patiently, CachesOlder, Untouched, Edited
<1>8. Checking'
  BY <1>1 DEF Checking, Idle
<1> QED
  BY <1>1, <1>3, <1>6, <1>7, <1>8, RenderSaves DEF Patiently

LEMMA UndoKeeps == ASSUME TypeInv, Patiently, habits = Habits, Undo PROVE Patiently'
<1>1. /\ UNCHANGED <<server, cache, fetch, active, seen, puts, check>> /\ Idle /\ local # Nothing
      /\ local' = [local EXCEPT !.marks = @ \ {<<active, edits>>}]
      /\ <<active, edits>> \notin server[active].marks
      /\ \A i \in DOMAIN puts : <<active, edits>> \notin puts[i].text.marks
      /\ editor' = Render(editor, active, local', cache, seen)
  BY DEF Undo, Has, Habits, serverVars, queryVars
<1>2. /\ local \in Texts /\ local' \in Texts /\ local' # Nothing
      /\ Mine(local') = Mine(local) \ {<<active, edits>>}
  <2>1. local \in Texts
    BY <1>1, TypeFacts DEF OptionalText
  <2>2. local' \in Texts
    BY <1>1, <2>1 DEF Texts
  <2> QED
    BY <1>1, <2>1, <2>2, MineFacts, TextTypes
<1>3. RenderLeaves(editor, editor', active, local', cache', seen')
  <2>1. /\ editor' = Render(editor, active, local', cache, seen) /\ local' \in OptionalText
        /\ cache' = cache /\ seen' = seen
    BY <1>1, <1>2 DEF OptionalText
  <2> QED
    BY <2>1, TypeFacts, RenderFacts
<1>4. editor'.shown = local' /\ editor.shown = local
  BY <1>1, <1>2, <1>3, ShownFacts DEF RenderLeaves, Shown
<1>5. /\ Stored' = Stored /\ <<active, edits>> \notin Stored
      /\ \A i \in DOMAIN puts : <<active, edits>> \notin Mine(puts[i].text)
  <2>1. /\ UNCHANGED <<server, active>> /\ <<active, edits>> \notin server[active].marks
        /\ \A i \in DOMAIN puts : <<active, edits>> \notin puts[i].text.marks
    BY <1>1
  <2> QED
    BY <2>1 DEF Stored, Mine
<1>6. SavesOrdered'
  <2>1. UNCHANGED <<server, active, puts>>
    BY <1>1
  <2>2. \A i \in DOMAIN puts : Mine(puts[i].text) \subseteq Mine(editor'.shown)
    BY <1>2, <1>4, <1>5 DEF Patiently, SavesOrdered
  <2> QED
    BY <1>5, <2>1, <2>2 DEF Patiently, SavesOrdered
<1>7. CachesOlder' /\ Untouched' /\ Edited'
  BY <1>1, <1>2, <1>5 DEF Patiently, CachesOlder, Untouched, Edited
<1>8. Checking'
  BY <1>1 DEF Checking, Idle
<1> QED
  BY <1>1, <1>3, <1>6, <1>7, <1>8, RenderSaves DEF Patiently

LEMMA SelectKeeps ==
  ASSUME TypeInv, Patiently, habits = Habits, NEW t \in Tasks, SelectTask(t) PROVE Patiently'
<1> DEFINE e == Render(editor, t, local, cache, seen')
<1>1. /\ UNCHANGED <<server, cache, puts, check>> /\ Idle /\ ~Unsaved /\ t # active
      /\ active' = t /\ local' = Nothing /\ seen' \in BOOLEAN
      /\ editor' = Render(e, t, Nothing, cache, seen')
      /\ fetch' = [fetch EXCEPT ![t] = Asked]
  BY DEF SelectTask, Has, Habits, serverVars
<1>2. /\ puts = <<>> /\ editor.task = active
  BY <1>1, ShownFacts DEF Unsaved
<1>3. e \in EditorRecords /\ RenderLeaves(editor, e, t, local, cache, seen')
  BY <1>1, TypeFacts, RenderFacts
<1> HIDE DEF e
<1>4. RenderLeaves(e, editor', t, Nothing, cache, seen')
  BY <1>1, <1>3, TypeFacts, RenderFacts DEF OptionalText
<1>5. /\ cache[t] # Nothing => editor'.shown = cache[t] /\ editor'.lastSaved = cache[t]
      /\ editor'.enabled => cache[t] # Nothing
      /\ ~editor'.timer
  <2>1. /\ e.task = t /\ e.data = cache[t] /\ e.enabled = Enabled(t, cache, seen')
        /\ cache[t] # Nothing => e.lastSaved = cache[t]
        /\ e.shown = e.lastSaved => ~e.timer
        /\ cache[t] = Nothing => ~e.timer
    BY <1>1, <1>2, <1>3 DEF RenderLeaves, Enabled
  <2>2. /\ editor'.lastSaved = e.lastSaved /\ editor'.enabled = Enabled(t, cache, seen')
        /\ cache[t] # Nothing => editor'.shown = cache[t]
    BY <1>4, <2>1 DEF RenderLeaves, Shown
  <2>3. ~editor'.timer
    BY <1>4, <2>1, <2>2 DEF RenderLeaves, Enabled
  <2> QED
    BY <2>1, <2>2, <2>3 DEF Enabled
<1>6. CachesOlder'
  BY <1>1, TypeFacts DEF Patiently, CachesOlder
<1>7. Stored' = Mine(server[t]) /\ (cache[t] # Nothing => Mine(cache[t]) \subseteq Stored')
  BY <1>1 DEF Patiently, CachesOlder, Stored
<1>8. SavesOrdered' /\ Checking' /\ Edited'
  BY <1>1, <1>2 DEF SavesOrdered, Checking, Edited, Idle
<1>9. Untouched'
  <2>1. fetch'[t] = Asked /\ Asked # Nothing
    BY <1>1, TypeFacts, EditorAssumption
  <2>2. puts' = <<>> /\ Idle' /\ active' = t /\ cache' = cache
    BY <1>1, <1>2 DEF Idle
  <2> QED
    BY <1>5, <2>1, <2>2 DEF Untouched
<1>10. Baseline' /\ Saved'
  BY <1>1, <1>5, <1>7 DEF Baseline, Saved
<1> QED
  BY <1>6, <1>8, <1>9, <1>10 DEF Patiently

\* The page learns whether a session of the task is running.
LEMMA LearnKeeps == ASSUME TypeInv, Patiently, LearnStatus PROVE Patiently'
<1>1. /\ UNCHANGED <<server, cache, fetch, active, local, puts, check>> /\ seen' = running[active]
      /\ editor' = Render(editor, active, local, cache, seen')
  BY DEF LearnStatus, serverVars, queryVars
<1>2. RenderLeaves(editor, editor', active, local, cache, seen')
  BY <1>1, TypeFacts, RenderFacts
<1>3. editor'.shown = editor.shown /\ editor.data = cache[active] /\ editor.task = active
  BY <1>2, ShownFacts DEF RenderLeaves, TypeInv, Rendered
<1>4. Stored' = Stored /\ Current' = Current /\ Idle' = Idle
  BY <1>1 DEF Stored, Current, Idle
<1>5. SavesOrdered' /\ CachesOlder' /\ Edited' /\ Checking'
  BY <1>1, <1>3, <1>4 DEF Patiently, SavesOrdered, CachesOlder, Edited, Checking, Idle
<1>6. editor'.lastSaved = editor.lastSaved /\ Baseline' /\ Saved'
  BY <1>1, <1>2, RenderSaves
<1>7. Untouched'
  <2>1. CASE local = Nothing
    <3>1. cache[active] # Nothing => editor.shown = cache[active] /\ editor.lastSaved = cache[active]
      BY <2>1, ShownFacts DEF Patiently, Untouched
    <3>2. ~editor'.timer
      BY <1>2, <1>3, <1>6, <2>1, <3>1 DEF RenderLeaves, Enabled, Patiently, Untouched
    <3> QED
      BY <1>1, <1>4, <1>6, <3>2 DEF Patiently, Untouched, Idle
  <2>2. CASE local # Nothing
    BY <1>1, <2>2 DEF Untouched
  <2> QED
    BY <2>1, <2>2
<1> QED
  BY <1>5, <1>6, <1>7 DEF Patiently

\* A draft is requested, or the server answers the request.
LEMMA FetchKeeps ==
  ASSUME TypeInv, Patiently, Refetch \/ \E t \in Tasks : AnswerFetch(t) PROVE Patiently'
<1>1. /\ UNCHANGED <<server, cache, active, local, seen, editor, puts, check>>
      /\ \A t \in Tasks : fetch'[t] \in {fetch[t], Asked} \/ (fetch[t] = Asked /\ fetch'[t] = server[t])
  BY TypeFacts DEF Refetch, AnswerFetch, serverVars, pageVars
<1>2. Stored' = Stored /\ Current' = Current /\ Idle' = Idle /\ Autosaving' = Autosaving
  BY <1>1 DEF Stored, Current, Idle, Autosaving
<1>3. SavesOrdered' /\ Edited' /\ Checking' /\ Baseline' /\ Saved'
  BY <1>1, <1>2 DEF Patiently, SavesOrdered, Edited, Checking, Baseline, Saved, Idle
<1>4. CachesOlder'
  BY <1>1 DEF Patiently, CachesOlder
<1>5. Untouched'
  <2>1. fetch'[active] \in {fetch[active], Asked} \/ (fetch[active] = Asked /\ fetch'[active] = server[active])
    BY <1>1, TypeFacts
  <2>2. server[active] # Nothing /\ Asked # Nothing
    BY TypeFacts, TextTypes, EditorAssumption
  <2> QED
    BY <1>1, <1>2, <2>1, <2>2 DEF Patiently, Untouched, Stored
<1> QED
  BY <1>3, <1>4, <1>5 DEF Patiently

\* The answer arrives on the page.
LEMMA ApplyKeeps ==
  ASSUME TypeInv, Patiently, NEW t \in Tasks, ApplyFetch(t) PROVE Patiently'
<1>0. /\ cache \in [Tasks -> OptionalText] /\ fetch \in [Tasks -> OptionalText \cup {Asked}]
      /\ active \in Tasks /\ local \in OptionalText /\ seen \in BOOLEAN /\ editor \in EditorRecords
  BY TypeFacts
<1>1. /\ UNCHANGED <<server, active, local, seen, puts, check>>
      /\ fetch[t] \notin {Nothing, Asked}
      /\ cache' = [cache EXCEPT ![t] = fetch[t]] /\ fetch' = [fetch EXCEPT ![t] = Nothing]
      /\ editor' = Render(editor, active, local, cache', seen)
  BY DEF ApplyFetch, serverVars
<1>2. cache' \in [Tasks -> OptionalText]
  BY <1>0, <1>1
<1>3. RenderLeaves(editor, editor', active, local, cache', seen)
  <2>1. editor' = Render(editor, active, local, cache', seen)
    BY <1>1
  <2> QED
    BY <1>0, <1>2, <2>1, RenderFacts
<1>4. /\ Stored' = Stored /\ Idle' = Idle /\ Autosaving' = Autosaving
      /\ editor.data = cache[active] /\ editor.task = active
  BY <1>1, ShownFacts DEF Stored, Idle, Autosaving
<1>5. CachesOlder'
  BY <1>0, <1>1 DEF Patiently, CachesOlder
<1>6. cache'[active] # cache[active] => t = active
  BY <1>0, <1>1
<1>7. CASE t # active
  <2>1. cache'[active] = cache[active] /\ fetch'[active] = fetch[active]
    BY <1>0, <1>1, <1>7
  <2>2. editor'.shown = editor.shown /\ editor'.enabled = editor.enabled
    BY <1>3, <2>1 DEF RenderLeaves, TypeInv, Rendered, Shown, Enabled
  <2>3. editor'.lastSaved = editor.lastSaved /\ Baseline' /\ Saved'
    BY <1>1, <1>3, <2>1, RenderSaves
  <2>4. SavesOrdered' /\ Edited' /\ Checking'
    BY <1>1, <1>4, <2>1, <2>2 DEF Patiently, SavesOrdered, Edited, Checking, Idle
  <2>5. editor'.timer = editor.timer
    BY <1>3, <1>4, <2>2 DEF RenderLeaves
  <2>6. Untouched'
    BY <1>1, <1>4, <2>1, <2>3, <2>5 DEF Patiently, Untouched, Current
  <2> QED
    BY <1>5, <2>3, <2>4, <2>6 DEF Patiently
<1>8. CASE t = active /\ local = Nothing
  <2>1. cache'[active] = fetch[active] /\ cache'[active] # Nothing /\ fetch'[active] = Nothing
    BY <1>0, <1>1, <1>8
  <2>2. Mine(fetch[active]) = Stored
    BY <1>1, <1>8 DEF Patiently, Untouched
  <2>3. editor'.shown = cache'[active]
    BY <1>3, <1>8, <2>1 DEF RenderLeaves, Shown
  <2>4. editor'.lastSaved = cache'[active]
    <3>1. cache[active] # Nothing => editor.lastSaved = cache[active]
      BY <1>8 DEF Patiently, Untouched
    <3> QED
      BY <1>3, <1>4, <2>1, <3>1 DEF RenderLeaves
  <2>5. ~editor'.timer
    BY <1>3, <1>4, <1>8, <2>3, <2>4 DEF RenderLeaves, Patiently, Untouched
  <2>6. puts # <<>> \/ ~Idle => Mine(editor.shown) = Mine(editor'.shown)
    BY <1>8, <2>1, <2>2, <2>3, ShownFacts
  <2>7. SavesOrdered' /\ Checking'
    <3>1. SavesOrdered'
      <4>1. CASE puts = <<>>
        BY <1>1, <4>1 DEF SavesOrdered
      <4>2. CASE puts # <<>>
        BY <1>1, <1>4, <2>6, <4>2 DEF Patiently, SavesOrdered
      <4> QED
        BY <4>1, <4>2
    <3>2. Checking'
      BY <1>1, <1>4, <2>6 DEF Patiently, Checking, Idle
    <3> QED
      BY <3>1, <3>2
  <2>8. Untouched' /\ Edited' /\ Baseline' /\ Saved'
    BY <1>1, <1>4, <1>8, <2>1, <2>2, <2>3, <2>4, <2>5
    DEF Patiently, Untouched, Edited, Baseline, Saved, Current
  <2> QED
    BY <1>5, <2>7, <2>8 DEF Patiently
<1>9. CASE t = active /\ local # Nothing
  <2>1. /\ cache'[active] = fetch[active] /\ cache'[active] # Nothing /\ cache[active] # Nothing
        /\ Mine(cache'[active]) \subseteq Stored
    BY <1>0, <1>1, <1>9 DEF Patiently, Edited, CachesOlder, Stored
  <2>2. editor'.shown = local /\ editor.shown = local /\ editor'.enabled = editor.enabled
    BY <1>3, <1>9, <2>1, ShownFacts DEF RenderLeaves, Shown, Enabled, TypeInv, Rendered
  <2>3. editor'.timer = editor.timer /\ editor'.saveState \in {editor.saveState, "idle"}
    BY <1>3, <1>4, <2>2 DEF RenderLeaves
  <2>4. editor'.lastSaved \in {editor.lastSaved, cache'[active]}
    BY <1>3, <2>1 DEF RenderLeaves
  <2>5. Baseline'
    BY <1>1, <1>4, <2>1, <2>4 DEF Patiently, Baseline
  <2>6. Saved'
    BY <1>1, <1>4, <2>2, <2>3 DEF Patiently, Saved
  <2>7. SavesOrdered' /\ Untouched' /\ Edited' /\ Checking'
    BY <1>1, <1>4, <1>9, <2>1, <2>2
    DEF Patiently, SavesOrdered, Untouched, Edited, Checking, Idle
  <2> QED
    BY <1>5, <2>5, <2>6, <2>7 DEF Patiently
<1> QED
  BY <1>7, <1>8, <1>9

\* An agent adds to a draft, and takes nothing of the user's out.
LEMMA AgentKeeps ==
  ASSUME TypeInv, Patiently, NEW t \in Tasks, AgentStart(t) \/ AgentFinish(t) PROVE Patiently'
<1>1. UNCHANGED <<cache, fetch, active, local, seen, editor, puts, check>>
  BY DEF AgentStart, AgentFinish, queryVars, pageVars
<1>2. \A q \in Tasks : Mine(server'[q]) = Mine(server[q])
  <2>1. CASE AgentStart(t)
    BY <2>1 DEF AgentStart
  <2>2. CASE AgentFinish(t)
    <3>1. server' = [server EXCEPT ![t] = [marks   |-> server[t].marks \cup {<<t, MaxEdits + runs>>},
                                          newline |-> TRUE]]
      BY <2>2 DEF AgentFinish
    <3>2. <<t, MaxEdits + runs>> \in Marks \ UserMarks
      BY <2>2, MarkTypes DEF AgentFinish
    <3>3. Mine([marks |-> server[t].marks \cup {<<t, MaxEdits + runs>>}, newline |-> TRUE])
            = Mine(server[t])
      BY <3>2, TypeFacts, MineFacts
    <3> QED
      BY <3>1, <3>3, TypeFacts
  <2> QED
    BY <2>1, <2>2
<1>3. Stored' = Stored /\ Current' = Current /\ Idle' = Idle /\ Autosaving' = Autosaving
  BY <1>1, <1>2, TypeFacts DEF Stored, Current, Idle, Autosaving
<1>4. SavesOrdered' /\ Untouched' /\ Edited' /\ Checking' /\ Baseline' /\ Saved'
  BY <1>1, <1>3 DEF Patiently, SavesOrdered, Untouched, Edited, Checking, Baseline, Saved, Idle
<1>5. CachesOlder'
  BY <1>1, <1>2 DEF Patiently, CachesOlder
<1> QED
  BY <1>4, <1>5 DEF Patiently

\* The timer sends what the page shows.
LEMMA TimerKeeps == ASSUME TypeInv, Patiently, FireTimer PROVE Patiently'
<1> DEFINE new == Len(puts) + 1
<1>0. puts \in Seq(PutRecords) /\ DOMAIN puts = 1..Len(puts) /\ Len(puts) \in Nat
  BY TypeFacts
<1>1. /\ UNCHANGED <<server, cache, fetch, active, local, seen, check>> /\ editor.timer
      /\ editor' = [editor EXCEPT !.timer = FALSE]
      /\ puts' = Append(puts, Put(active, editor.shown, "autosave"))
  BY DEF FireTimer, serverVars, queryVars
<1>2. /\ editor'.shown = editor.shown /\ editor'.lastSaved = editor.lastSaved
  BY <1>1, TypeFacts DEF EditorRecords
<1>3. local # Nothing /\ editor.shown = local /\ Stored \subseteq Mine(editor.shown)
  BY <1>1, ShownFacts DEF Patiently, Untouched
<1>4. /\ DOMAIN puts' = DOMAIN puts \cup {new} /\ \A i \in DOMAIN puts : puts'[i] = puts[i] /\ i < new
      /\ puts'[new].task = active /\ puts'[new].text = editor.shown
      /\ puts'[new].by = "autosave" /\ puts'[new].state = "sent"
  <2>1. Put(active, editor.shown, "autosave") \in PutRecords
    BY TypeFacts DEF Put, PutRecords
  <2> QED
    BY <1>0, <1>1, <2>1, PutAdded DEF Put
<1> HIDE DEF new
<1>5. Stored' = Stored /\ Idle' = Idle
  BY <1>1 DEF Stored, Idle
<1>6. SavesOrdered'
  <2>1. \A i \in DOMAIN puts' :
          /\ puts'[i].task = active /\ Mine(puts'[i].text) \subseteq Mine(editor.shown)
          /\ puts'[i].state = "sent" => Stored \subseteq Mine(puts'[i].text)
          /\ puts'[i].state = "stored" => Mine(puts'[i].text) \subseteq Stored
    BY <1>3, <1>4 DEF Patiently, SavesOrdered
  <2>2. ASSUME NEW i \in DOMAIN puts', NEW j \in DOMAIN puts', i < j
        PROVE  Mine(puts'[i].text) \subseteq Mine(puts'[j].text)
    <3>1. i \in DOMAIN puts
      BY <1>0, <1>4, <2>2 DEF new
    <3> QED
      BY <1>4, <2>1, <2>2, <3>1 DEF Patiently, SavesOrdered
  <2> QED
    BY <1>1, <1>2, <1>5, <2>1, <2>2 DEF SavesOrdered
<1>7. CachesOlder' /\ Untouched' /\ Edited' /\ Checking' /\ Baseline'
  BY <1>1, <1>2, <1>3, <1>5
  DEF Patiently, CachesOlder, Untouched, Edited, Checking, Baseline, Idle
<1>8. Saved'
  BY <1>2, <1>4 DEF Saved
<1> QED
  BY <1>6, <1>7, <1>8 DEF Patiently

\* A checkpoint is made of what the page shows: it is stored, or its save is sent.
LEMMA CreateKeeps == ASSUME TypeInv, Patiently, habits = Habits, CreateCheckpoint PROVE Patiently'
<1> DEFINE new == Len(puts) + 1
<1>0. puts \in Seq(PutRecords) /\ DOMAIN puts = 1..Len(puts) /\ Len(puts) \in Nat
  BY TypeFacts
<1>1. /\ UNCHANGED <<server, cache, fetch, active, local, seen, editor>> /\ Idle
      /\ cache[active] # Nothing /\ fetch[active] = Nothing
      /\ check'.task = active /\ check'.text = editor.shown
  BY DEF CreateCheckpoint, Has, Habits, UpToDate, serverVars, queryVars, pageVars
<1>2. Stored' = Stored /\ Current' = Current /\ Stored \subseteq Mine(editor.shown)
  BY <1>1, ShownFacts DEF Stored, Current
<1>3. local = Nothing => Current
  BY <1>1 DEF Patiently, Untouched
<1>4. CachesOlder' /\ Edited' /\ Baseline'
  BY <1>1, <1>2 DEF Patiently, CachesOlder, Edited, Baseline
<1>5. CASE /\ puts' = Append(puts, Put(active, editor.shown, "checkpoint")) /\ check'.pc = "saving"
  <2>1. /\ DOMAIN puts' = DOMAIN puts \cup {new} /\ \A i \in DOMAIN puts : puts'[i] = puts[i] /\ i < new
        /\ puts'[new].task = active /\ puts'[new].text = editor.shown
        /\ puts'[new].by = "checkpoint" /\ puts'[new].state = "sent"
    <3>1. Put(active, editor.shown, "checkpoint") \in PutRecords
      BY TypeFacts DEF Put, PutRecords
    <3> QED
      BY <1>0, <1>5, <3>1, PutAdded DEF Put
  <2> HIDE DEF new
  <2>2. SavesOrdered'
    <3>1. \A i \in DOMAIN puts' :
            /\ puts'[i].task = active /\ Mine(puts'[i].text) \subseteq Mine(editor.shown)
            /\ puts'[i].state = "sent" => Stored \subseteq Mine(puts'[i].text)
            /\ puts'[i].state = "stored" => Mine(puts'[i].text) \subseteq Stored
      BY <1>2, <2>1 DEF Patiently, SavesOrdered
    <3>2. ASSUME NEW i \in DOMAIN puts', NEW j \in DOMAIN puts', i < j
          PROVE  Mine(puts'[i].text) \subseteq Mine(puts'[j].text)
      <4>1. i \in DOMAIN puts
        BY <1>0, <2>1, <3>2 DEF new
      <4> QED
        BY <2>1, <3>1, <3>2, <4>1 DEF Patiently, SavesOrdered
    <3> QED
      BY <1>1, <1>2, <3>1, <3>2 DEF SavesOrdered
  <2>3. Untouched' /\ Checking'
    BY <1>1, <1>2, <1>3, <1>5, <2>1 DEF Patiently, Untouched, Checking
  <2>4. Autosaving' = Autosaving
    BY <2>1 DEF Autosaving
  <2>5. Saved'
    BY <1>1, <1>2, <2>1, <2>4 DEF Patiently, Saved
  <2> QED
    BY <1>4, <2>2, <2>3, <2>5 DEF Patiently
<1>6. CASE editor.shown = editor.lastSaved /\ check'.pc = "post" /\ UNCHANGED puts
  <2>1. Mine(editor.shown) \subseteq Stored
    BY <1>1, <1>6 DEF Patiently, Baseline
  <2>2. Autosaving' = Autosaving
    BY <1>6 DEF Autosaving
  <2> QED
    BY <1>1, <1>2, <1>3, <1>4, <1>6, <2>1, <2>2
    DEF Patiently, SavesOrdered, Untouched, Checking, Saved
<1> QED
  BY <1>5, <1>6 DEF CreateCheckpoint

LEMMA PostKeeps == ASSUME TypeInv, Patiently, CheckpointPost PROVE Patiently'
<1>1. /\ UNCHANGED <<server, cache, fetch, active, local, seen, editor, puts>> /\ Idle' /\ ~Idle
      /\ check'.pc = "idle"
  BY DEF CheckpointPost, NoCheck, Idle, serverVars, queryVars, pageVars
<1>2. Stored' = Stored /\ Current' = Current /\ Autosaving' = Autosaving
  BY <1>1 DEF Stored, Current, Autosaving
<1> QED
  BY <1>1, <1>2
  DEF Patiently, SavesOrdered, CachesOlder, Untouched, Edited, Checking, Baseline, Saved

-----------------------------------------------------------------------------
(* Saves of a patient user: handled and answered in their order *)

\* A save that is handled adds to what the server has from the user.
LEMMA DeliverAdds ==
  ASSUME TypeInv, Patiently, NEW i \in 1..MaxPuts, DeliverPut(i)
  PROVE  /\ UNCHANGED <<cache, fetch, active, local, seen, editor, check>> /\ i \in DOMAIN puts
         /\ Stored \subseteq Stored'
         /\ \A t \in Tasks : t # active => server'[t] = server[t]
         /\ \/ Stored' = Stored /\ puts' = [puts EXCEPT ![i].state = "refused"]
            \/ Stored' = Mine(puts[i].text) /\ puts' = [puts EXCEPT ![i].state = "stored"]
<1>1. /\ UNCHANGED <<cache, fetch, active, local, seen, editor, check>> /\ i \in DOMAIN puts
      /\ puts[i].state = "sent"
      /\ \/ /\ puts' = [puts EXCEPT ![i].state = "stored"]
            /\ server' = [server EXCEPT ![puts[i].task] = Normalised(puts[i].text)]
         \/ puts' = [puts EXCEPT ![i].state = "refused"] /\ server' = server
  BY DEF DeliverPut, queryVars, pageVars
<1>2. CASE server' = server /\ puts' = [puts EXCEPT ![i].state = "refused"]
  BY <1>1, <1>2 DEF Stored
<1>3. CASE /\ puts' = [puts EXCEPT ![i].state = "stored"]
           /\ server' = [server EXCEPT ![puts[i].task] = Normalised(puts[i].text)]
  <2>1. puts[i].text \in Texts
    BY <1>1, TypeFacts DEF PutRecords
  <2>2. puts[i].task = active /\ Stored \subseteq Mine(puts[i].text)
    BY <1>1 DEF Patiently, SavesOrdered
  <2>3. server'[active] = Normalised(puts[i].text) /\ \A t \in Tasks : t # active => server'[t] = server[t]
    BY <1>3, <2>2, TypeFacts
  <2>4. Stored' = Mine(puts[i].text)
    BY <1>1, <2>1, <2>3, MineFacts DEF Stored
  <2> QED
    BY <1>1, <1>3, <2>2, <2>3, <2>4
<1> QED
  BY <1>1, <1>2, <1>3

LEMMA DeliverKeeps ==
  ASSUME TypeInv, Patiently, habits = Habits, NEW i \in 1..MaxPuts, DeliverPut(i) PROVE Patiently'
<1>1. /\ UNCHANGED <<cache, fetch, active, local, seen, editor, check>> /\ i \in DOMAIN puts
      /\ Stored \subseteq Stored' /\ \A t \in Tasks : t # active => server'[t] = server[t]
  BY DeliverAdds
<1>2. /\ DOMAIN puts' = DOMAIN puts
      /\ \A j \in DOMAIN puts : /\ puts'[j].task = puts[j].task /\ puts'[j].text = puts[j].text
                                /\ puts'[j].by = puts[j].by
  <2>1. PICK x \in {"stored", "refused"} : puts' = [puts EXCEPT ![i].state = x]
    BY DEF DeliverPut
  <2> QED
    BY <1>1, <2>1, TypeFacts, PutMarked
<1>3. \/ Stored' = Stored /\ \A j \in DOMAIN puts : puts'[j].state \in {puts[j].state, "refused"}
      \/ /\ Stored' = Mine(puts[i].text) /\ puts'[i].state = "stored"
         /\ \A j \in DOMAIN puts : j # i => puts'[j].state = puts[j].state
  <2>1. CASE Stored' = Stored /\ puts' = [puts EXCEPT ![i].state = "refused"]
    <3>1. \A j \in DOMAIN puts : puts'[j].state = IF j = i THEN "refused" ELSE puts[j].state
      BY <1>1, <2>1, TypeFacts, PutMarked
    <3> QED
      BY <2>1, <3>1
  <2>2. CASE Stored' = Mine(puts[i].text) /\ puts' = [puts EXCEPT ![i].state = "stored"]
    <3>1. \A j \in DOMAIN puts : puts'[j].state = IF j = i THEN "stored" ELSE puts[j].state
      BY <1>1, <2>2, TypeFacts, PutMarked
    <3> QED
      BY <1>1, <2>2, <3>1
  <2> QED
    BY <2>1, <2>2, DeliverAdds
<1>4. Stored' \subseteq Mine(editor.shown)
  <2>1. puts # <<>>
    BY <1>1
  <2>2. Stored \subseteq Mine(editor.shown)
    BY <2>1, ShownFacts
  <2>3. Mine(puts[i].text) \subseteq Mine(editor.shown)
    BY <1>1 DEF Patiently, SavesOrdered
  <2> QED
    BY <1>3, <2>2, <2>3
<1>5. Idle' = Idle /\ Autosaving' = Autosaving
  BY <1>1, <1>2 DEF Idle, Autosaving
<1>6. SavesOrdered'
  <2>1. \A j \in DOMAIN puts : puts'[j].state = "sent" => Stored' \subseteq Mine(puts[j].text)
    <3>1. CASE Stored' = Stored /\ \A j \in DOMAIN puts : puts'[j].state \in {puts[j].state, "refused"}
      BY <3>1 DEF Patiently, SavesOrdered
    <3>2. CASE /\ Stored' = Mine(puts[i].text) /\ puts'[i].state = "stored"
               /\ \A j \in DOMAIN puts : j # i => puts'[j].state = puts[j].state
      <4>1. ASSUME NEW j \in DOMAIN puts, puts'[j].state = "sent" PROVE i < j
        <5>1. j # i /\ puts[j].state = "sent"
          BY <3>2, <4>1
        <5>2. \A k \in 1..(i - 1) : puts[k].state # "sent"
          BY DEF DeliverPut, Has, Habits
        <5>3. DOMAIN puts = 1..Len(puts) /\ Len(puts) \in Nat
          BY TypeFacts
        <5> QED
          BY <1>1, <5>1, <5>2, <5>3
      <4> QED
        BY <1>1, <3>2, <4>1 DEF Patiently, SavesOrdered
    <3> QED
      BY <1>3, <3>1, <3>2
  <2>2. \A j \in DOMAIN puts : puts'[j].state = "stored" => Mine(puts[j].text) \subseteq Stored'
    BY <1>1, <1>3 DEF Patiently, SavesOrdered
  <2> QED
    BY <1>1, <1>2, <2>1, <2>2 DEF Patiently, SavesOrdered
<1>7. CachesOlder'
  BY <1>1, TypeFacts DEF Patiently, CachesOlder, Stored
<1>8. Untouched'
  <2>1. local = Nothing => Stored' = Stored
    <3>1. puts # <<>>
      BY <1>1, TypeFacts
    <3> QED
      BY <1>1, <1>4, <3>1, ShownFacts
  <2>2. puts' # <<>> /\ puts # <<>>
    BY <1>1, <1>2
  <2> QED
    BY <1>1, <1>2, <1>5, <2>1, <2>2 DEF Patiently, Untouched, Current
<1>9. Edited' /\ Checking' /\ Baseline' /\ Saved'
  <2>1. Edited'
    BY <1>1, <1>4, ShownFacts DEF Patiently, Edited
  <2>2. Checking' /\ Baseline'
    BY <1>1, <1>5 DEF Patiently, Checking, Baseline, Idle
  <2>3. Saved'
    BY <1>1, <1>2, <1>5 DEF Patiently, Saved
  <2> QED
    BY <2>1, <2>2, <2>3
<1> QED
  BY <1>6, <1>7, <1>8, <1>9 DEF Patiently

\* The first save is answered: those that are left keep their order.
LEMMA RestOrdered ==
  ASSUME TypeInv, Patiently, NEW i \in DOMAIN puts, puts' = RemoveAt(puts, i),
         UNCHANGED <<server, active>>, Mine(editor'.shown) = Mine(editor.shown)
  PROVE  /\ SavesOrdered' /\ Stored' = Stored
         /\ \A j \in DOMAIN puts' : \E k \in DOMAIN puts \ {i} : puts'[j] = puts[k]
         /\ \A k \in DOMAIN puts \ {i} : \E j \in DOMAIN puts' : puts'[j] = puts[k]
<1>0. puts \in Seq(PutRecords) /\ DOMAIN puts = 1..Len(puts) /\ Len(puts) \in Nat
  BY TypeFacts
<1>1. /\ DOMAIN puts' = 1..(Len(puts) - 1)
      /\ \A j \in DOMAIN puts' : Was(i, j) \in DOMAIN puts \ {i} /\ puts'[j] = puts[Was(i, j)]
  <2> DEFINE r == RemoveAt(puts, i)
  <2>1. /\ DOMAIN r = 1..(Len(puts) - 1)
        /\ \A j \in DOMAIN r : Was(i, j) \in DOMAIN puts \ {i} /\ r[j] = puts[Was(i, j)]
    BY <1>0, PutRemoved
  <2>2. puts' = r
    OBVIOUS
  <2> HIDE DEF r
  <2> QED
    BY <2>1, <2>2
<1>2. \A j, k \in DOMAIN puts' : j < k => Was(i, j) < Was(i, k)
  BY <1>0, <1>1, WasFacts
<1>3. \A k \in DOMAIN puts \ {i} : \E j \in DOMAIN puts' : Was(i, j) = k
  <2>1. Len(puts) \in Nat /\ i \in 1..Len(puts)
    BY <1>0
  <2>2. \A k \in (1..Len(puts)) \ {i} : \E j \in 1..(Len(puts) - 1) : Was(i, j) = k
    BY <2>1, WasFacts
  <2> QED
    BY <1>0, <1>1, <2>2
<1>4. Stored' = Stored
  BY DEF Stored
<1>5. SavesOrdered'
  <2>1. \A j \in DOMAIN puts' :
          /\ puts'[j].task = active /\ Mine(puts'[j].text) \subseteq Mine(editor'.shown)
          /\ puts'[j].state = "sent" => Stored \subseteq Mine(puts'[j].text)
          /\ puts'[j].state = "stored" => Mine(puts'[j].text) \subseteq Stored
    BY <1>1 DEF Patiently, SavesOrdered
  <2>2. ASSUME NEW j \in DOMAIN puts', NEW k \in DOMAIN puts', j < k
        PROVE  Mine(puts'[j].text) \subseteq Mine(puts'[k].text)
    <3>1. /\ Was(i, j) \in DOMAIN puts /\ Was(i, k) \in DOMAIN puts /\ Was(i, j) < Was(i, k)
          /\ puts'[j] = puts[Was(i, j)] /\ puts'[k] = puts[Was(i, k)]
      BY <1>1, <1>2, <2>2
    <3> QED
      BY <3>1 DEF Patiently, SavesOrdered
  <2> QED
    BY <1>4, <2>1, <2>2 DEF SavesOrdered
<1> QED
  BY <1>1, <1>3, <1>4, <1>5

LEMMA AnswerKeeps ==
  ASSUME TypeInv, Patiently, habits = Habits, NEW i \in 1..MaxPuts, AnswerPut(i) PROVE Patiently'
<1>1. /\ UNCHANGED <<server, cache, fetch, active, local, seen, check>> /\ 1 \in DOMAIN puts
      /\ puts' = RemoveAt(puts, 1) /\ puts[1].by = "autosave" /\ puts[1].state # "sent" /\ i = 1
  BY DEF AnswerPut, Answered, Has, Habits, serverVars, queryVars
<1>2. /\ editor'.shown = editor.shown /\ editor'.timer = editor.timer
      /\ editor'.enabled = editor.enabled
      /\ \/ /\ puts[1].state = "stored" /\ editor'.lastSaved = Normalised(puts[1].text)
         \/ /\ puts[1].state = "refused" /\ editor'.lastSaved = editor.lastSaved
            /\ editor'.saveState = "error"
  <2>1. puts[1].state \in {"sent", "stored", "refused"}
    BY <1>1, TypeFacts DEF PutRecords
  <2>2. \/ /\ puts[1].state = "stored"
           /\ editor' = [editor EXCEPT !.lastSaved = Normalised(puts[1].text), !.saveState = "saved"]
        \/ /\ puts[1].state # "stored" /\ editor' = [editor EXCEPT !.saveState = "error"]
    BY <1>1 DEF AnswerPut
  <2> QED
    BY <1>1, <2>1, <2>2, TypeFacts DEF EditorRecords
<1>3. local # Nothing
  BY <1>1 DEF Patiently, Untouched
<1>4. /\ SavesOrdered' /\ Stored' = Stored
      /\ \A j \in DOMAIN puts' : \E k \in DOMAIN puts \ {1} : puts'[j] = puts[k]
      /\ \A k \in DOMAIN puts \ {1} : \E j \in DOMAIN puts' : puts'[j] = puts[k]
  BY <1>1, <1>2, RestOrdered
<1>5. CachesOlder' /\ Untouched' /\ Edited' /\ Checking'
  BY <1>1, <1>2, <1>3, <1>4 DEF Patiently, CachesOlder, Untouched, Edited, Checking, Idle
<1>6. puts[1].state = "stored" =>
        Mine(Normalised(puts[1].text)) = Mine(puts[1].text) /\ Mine(puts[1].text) \subseteq Stored
  <2>1. puts[1].text \in Texts
    BY <1>1, TypeFacts DEF PutRecords
  <2> QED
    BY <1>1, <2>1, MineFacts DEF Patiently, SavesOrdered
<1>7. Baseline'
  BY <1>1, <1>2, <1>4, <1>6 DEF Patiently, Baseline
<1>8. Saved'
  <2> SUFFICES ASSUME editor.enabled, ~editor.timer
               PROVE  \/ Mine(editor.shown) \subseteq Stored
                      \/ \E j \in DOMAIN puts' : /\ puts'[j].by = "autosave"
                                                 /\ Mine(editor.shown) \subseteq Mine(puts'[j].text)
                      \/ ~Autosaving' /\ editor'.saveState # "saved"
    BY <1>2, <1>4 DEF Saved
  <2>1. ASSUME NEW k \in DOMAIN puts \ {1}, puts[k].by = "autosave",
               Mine(editor.shown) \subseteq Mine(puts[k].text)
        PROVE  \E j \in DOMAIN puts' : /\ puts'[j].by = "autosave"
                                      /\ Mine(editor.shown) \subseteq Mine(puts'[j].text)
    BY <1>4, <2>1
  <2>2. CASE Mine(editor.shown) \subseteq Mine(puts[1].text)
    <3>1. CASE puts[1].state = "stored"
      BY <1>6, <2>2, <3>1
    <3>2. CASE editor'.saveState = "error" /\ ~Autosaving'
      BY <3>2
    <3>3. CASE Autosaving'
      <4>1. PICK j \in DOMAIN puts' : puts'[j].by = "autosave"
        BY <3>3 DEF Autosaving
      <4>2. PICK k \in DOMAIN puts \ {1} : puts'[j] = puts[k]
        BY <1>4
      <4>3. 1 < k
        BY <4>2, TypeFacts
      <4>4. Mine(puts[1].text) \subseteq Mine(puts[k].text)
        BY <1>1, <4>3 DEF Patiently, SavesOrdered
      <4> QED
        BY <2>2, <4>1, <4>2, <4>4
    <3> QED
      BY <1>2, <3>1, <3>2, <3>3
  <2>3. Autosaving
    BY <1>1 DEF Autosaving
  <2>4. \/ Mine(editor.shown) \subseteq Stored
        \/ \E k \in DOMAIN puts : /\ puts[k].by = "autosave"
                                  /\ Mine(editor.shown) \subseteq Mine(puts[k].text)
    BY <2>3 DEF Patiently, Saved
  <2> QED
    BY <2>1, <2>2, <2>4
<1> QED
  BY <1>4, <1>5, <1>7, <1>8 DEF Patiently

LEMMA CheckKeeps ==
  ASSUME TypeInv, Patiently, habits = Habits, NEW i \in 1..MaxPuts, AnswerCheckpoint(i)
  PROVE  Patiently'
<1>1. /\ UNCHANGED <<server, cache, fetch, active, seen>> /\ 1 \in DOMAIN puts
      /\ puts' = RemoveAt(puts, 1) /\ puts[1].by = "checkpoint" /\ i = 1
      /\ \/ /\ puts[1].state = "stored" /\ check' = [check EXCEPT !.pc = "post"]
            /\ local' = Normalised(check.text) /\ editor' = Render(editor, active, local', cache, seen)
         \/ check' = NoCheck /\ local' = local /\ editor' = editor
  BY DEF AnswerCheckpoint, Answered, Has, Habits, serverVars, queryVars
<1>2. /\ ~Idle /\ check.pc = "saving" /\ check.task = active /\ check.text \in Texts
      /\ puts[1].text = check.text /\ Mine(check.text) = Mine(editor.shown)
      /\ puts # <<>> /\ \A k \in DOMAIN puts : puts[k].by = "checkpoint" => k = 1
  BY <1>1 DEF TypeInv, CheckTyped, Patiently, Checking, Idle
<1>3. /\ cache[active] # Nothing /\ Stored \subseteq Mine(editor.shown)
      /\ local = Nothing => Current
  BY <1>2, ShownFacts DEF Patiently, Untouched
<1>4. CachesOlder'
  BY <1>1 DEF Patiently, CachesOlder
<1>5. CASE /\ puts[1].state = "stored" /\ check' = [check EXCEPT !.pc = "post"]
           /\ local' = Normalised(check.text) /\ editor' = Render(editor, active, local', cache, seen)
  <2>1. local' \in Texts /\ local' # Nothing /\ Mine(local') = Mine(check.text)
    BY <1>2, <1>5, MineFacts, TextTypes
  <2>2. RenderLeaves(editor, editor', active, local', cache, seen)
    <3>1. local' \in OptionalText /\ editor' = Render(editor, active, local', cache, seen)
      BY <1>5, <2>1 DEF OptionalText
    <3> QED
      BY <3>1, TypeFacts, RenderFacts
  <2>3. editor'.shown = local' /\ Mine(editor'.shown) = Mine(editor.shown)
    BY <1>2, <2>1, <2>2 DEF RenderLeaves, Shown
  <2>4. SavesOrdered' /\ Stored' = Stored
    BY <1>1, <2>3, RestOrdered
  <2>5. Mine(check.text) \subseteq Stored
    BY <1>1, <1>2, <1>5 DEF Patiently, SavesOrdered
  <2>6. check'.task = active /\ check'.text = check.text
    BY <1>2, <1>5 DEF TypeInv, TypeOK
  <2>7. Untouched' /\ Edited' /\ Checking' /\ Saved'
    BY <1>1, <1>2, <1>3, <2>1, <2>3, <2>4, <2>5, <2>6 DEF Untouched, Edited, Checking, Saved
  <2>8. Baseline'
    <3>1. editor'.lastSaved = editor.lastSaved
      BY <2>2, ShownFacts DEF RenderLeaves
    <3> QED
      BY <1>1, <2>4, <3>1 DEF Patiently, Baseline
  <2> QED
    BY <1>4, <2>4, <2>7, <2>8 DEF Patiently
<1>6. CASE check' = NoCheck /\ local' = local /\ editor' = editor
  <2>1. /\ SavesOrdered' /\ Stored' = Stored
        /\ \A j \in DOMAIN puts' : \E k \in DOMAIN puts \ {1} : puts'[j] = puts[k]
        /\ \A k \in DOMAIN puts \ {1} : \E j \in DOMAIN puts' : puts'[j] = puts[k]
    BY <1>1, <1>6, RestOrdered
  <2>2. check'.pc = "idle" /\ Idle'
    BY <1>6 DEF NoCheck, Idle
  <2>3. Current' = Current
    BY <1>1, <2>1 DEF Current
  <2>4. Untouched' /\ Edited' /\ Checking' /\ Baseline'
    BY <1>1, <1>3, <1>6, <2>1, <2>2, <2>3 DEF Patiently, Untouched, Edited, Checking, Baseline
  <2>5. Saved'
    <3> SUFFICES ASSUME editor.enabled, ~editor.timer
                 PROVE  \/ Mine(editor.shown) \subseteq Stored
                        \/ \E j \in DOMAIN puts' : /\ puts'[j].by = "autosave"
                                                   /\ Mine(editor.shown) \subseteq Mine(puts'[j].text)
                        \/ ~Autosaving' /\ editor.saveState # "saved"
      BY <1>6, <2>1 DEF Saved
    <3>1. Autosaving' => Autosaving
      BY <2>1 DEF Autosaving
    <3>2. ASSUME NEW k \in DOMAIN puts, puts[k].by = "autosave",
                 Mine(editor.shown) \subseteq Mine(puts[k].text)
          PROVE  \E j \in DOMAIN puts' : /\ puts'[j].by = "autosave"
                                        /\ Mine(editor.shown) \subseteq Mine(puts'[j].text)
      BY <1>1, <2>1, <3>2
    <3> QED
      BY <3>1, <3>2 DEF Patiently, Saved
  <2> QED
    BY <1>4, <2>1, <2>4, <2>5 DEF Patiently
<1> QED
  BY <1>1, <1>5, <1>6

LEMMA InitPatient == Init => PatientInv
<1> SUFFICES ASSUME Init PROVE Patiently
  BY DEF PatientInv
<1>1. /\ puts = <<>> /\ local = Nothing /\ active \in Tasks /\ check.pc = "idle"
      /\ fetch[active] = Asked /\ ~editor.timer /\ ~editor.enabled
      /\ \A t \in Tasks : cache[t] = Nothing /\ fetch[t] \in {Nothing, Asked}
  BY DEF Init, NoCheck
<1>2. Asked # Nothing
  BY EditorAssumption
<1> QED
  BY <1>1, <1>2
  DEF Patiently, SavesOrdered, CachesOlder, Untouched, Edited, Checking, Baseline, Saved, Idle

LEMMA StepPatient == TypeInv /\ PatientInv /\ [Next]_vars => PatientInv'
<1> SUFFICES ASSUME TypeInv, Patiently, [Next]_vars, habits = Habits PROVE Patiently'
  BY HabitsStay DEF PatientInv
<1>1. CASE UNCHANGED vars
  BY <1>1 DEF vars, serverVars, queryVars, pageVars, Patiently, SavesOrdered, CachesOlder, Untouched,
              Edited, Checking, Baseline, Saved, Stored, Current, Idle, Autosaving
<1>2. CASE Edit \/ Undo \/ LearnStatus \/ \E t \in Tasks : SelectTask(t)
  BY <1>2, EditKeeps, UndoKeeps, LearnKeeps, SelectKeeps
<1>3. CASE Refetch \/ \E t \in Tasks : AnswerFetch(t) \/ ApplyFetch(t)
  BY <1>3, FetchKeeps, ApplyKeeps
<1>4. CASE FireTimer \/ CreateCheckpoint \/ CheckpointPost
  BY <1>4, TimerKeeps, CreateKeeps, PostKeeps
<1>5. ASSUME NEW i \in 1..MaxPuts, DeliverPut(i) \/ AnswerPut(i) \/ AnswerCheckpoint(i)
      PROVE  Patiently'
  BY <1>5, DeliverKeeps, AnswerKeeps, CheckKeeps
<1>6. CASE \E t \in Tasks : AgentStart(t) \/ AgentFinish(t)
  BY <1>6, AgentKeeps
<1> QED
  BY <1>1, <1>2, <1>3, <1>4, <1>5, <1>6 DEF Next

\* The toolbar's "saved" is true: with nothing pending, what the user contributed to
\* the text on the page is on the server, whatever agents added meanwhile and however
\* many tasks, saves and checkpoints there are.  The user is patient and the network
\* keeps the order.
THEOREM SavedMeansStored == Spec => []SavedIsStored
<1>1. PatientInv => SavedIsStored
  <2> SUFFICES ASSUME Patiently, editor.saveState = "saved", editor.enabled, ~editor.timer, puts = <<>>
               PROVE  editor.shown.marks \cap UserMarks \subseteq server[active].marks
    BY DEF PatientInv, SavedIsStored
  <2>1. Mine(editor.shown) \subseteq Stored
    BY DEF Patiently, Saved
  <2> QED
    BY <2>1 DEF Mine, Stored
<1> QED
  BY <1>1, InitTypes, StepTypes, InitPatient, StepPatient, PTL DEF Spec

\* A version made by hand holds what the user saw: when createManualCheckpoint asks
\* for it, the user's part of that text is on the server.
THEOREM CheckpointsHoldPages == Spec => []CheckpointHoldsPage
<1>1. PatientInv => CheckpointHoldsPage
  BY DEF PatientInv, Patiently, Checking, CheckpointHoldsPage, Mine, Stored, Idle
<1> QED
  BY <1>1, InitTypes, StepTypes, InitPatient, StepPatient, PTL DEF Spec

\* No save, of the hook or of a checkpoint, and no agent takes out of a draft what
\* the user typed and saved: a later save holds everything an earlier one held.
THEOREM OwnEditsStay == Spec => OwnEditsKept
<1> DEFINE Kept == habits = Habits =>
                     \A t \in Tasks : server[t].marks \cap UserMarks \subseteq server'[t].marks
<1>1. TypeInv /\ PatientInv /\ [Next]_vars => Kept
  <2> SUFFICES ASSUME TypeInv, Patiently, [Next]_vars, NEW t \in Tasks
               PROVE  Mine(server[t]) \subseteq server'[t].marks
    BY DEF PatientInv, Mine
  <2>1. CASE UNCHANGED server
    BY <2>1 DEF Mine
  <2>2. ASSUME NEW i \in 1..MaxPuts, DeliverPut(i) PROVE Mine(server[t]) \subseteq server'[t].marks
    BY <2>2, DeliverAdds DEF Stored, Mine
  <2>3. ASSUME NEW q \in Tasks, AgentFinish(q) PROVE Mine(server[t]) \subseteq server'[t].marks
    <3>1. server' = [server EXCEPT ![q] = [marks   |-> server[q].marks \cup {<<q, MaxEdits + runs>>},
                                          newline |-> TRUE]]
      BY <2>3 DEF AgentFinish
    <3> QED
      BY <3>1, TypeFacts DEF Mine
  <2>4. CASE PageStep \/ Refetch \/ \E q \in Tasks : AnswerFetch(q) \/ AgentStart(q)
    BY <2>1, <2>4 DEF PageStep, Edit, Undo, SelectTask, LearnStatus, ApplyFetch, Refetch, AnswerFetch,
                      AgentStart, serverVars
  <2>5. CASE FireTimer \/ CreateCheckpoint \/ CheckpointPost \/ UNCHANGED vars
    BY <2>1, <2>5 DEF FireTimer, CreateCheckpoint, CheckpointPost, vars, serverVars
  <2>6. ASSUME NEW i \in 1..MaxPuts, AnswerPut(i) \/ AnswerCheckpoint(i)
        PROVE  Mine(server[t]) \subseteq server'[t].marks
    BY <2>1, <2>6 DEF AnswerPut, AnswerCheckpoint, serverVars
  <2> QED
    BY <2>2, <2>3, <2>4, <2>5, <2>6 DEF Next, PageStep
<1>2. TypeInv /\ PatientInv /\ [Next]_vars => [Kept]_vars
  BY <1>1
<1> HIDE DEF Kept
<1>3. Spec => [][Kept]_vars
  BY <1>2, InitTypes, StepTypes, InitPatient, StepPatient, PTL DEF Spec
<1> QED
  BY <1>3 DEF OwnEditsKept, Kept

=============================================================================
