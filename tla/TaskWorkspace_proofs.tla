------------------------- MODULE TaskWorkspace_proofs -------------------------
(***************************************************************************)
(* Proofs about TaskWorkspace, for any number of sessions, requests,       *)
(* operations and restarts.                                                *)
(***************************************************************************)
EXTENDS TaskWorkspace, TLAPS, FiniteSetTheorems, WellFoundedInduction

Active(r) == req[r].pc \notin Ended \cup {"idle"}

-----------------------------------------------------------------------------
(* Types *)

\* What TypeOK needs to be inductive: an operation under way has a name and a
\* number, and whoever is about to copy or to render the draft has seen one.
Sighted ==
  /\ \A o \in Slots : Busy(o) => run[o].op \in Operations /\ run[o].count \in 1..MaxOps
  /\ \A o \in Slots : run[o].pc \in {"number", "copy", "read"} => draft # NoText
  /\ \A r \in Requests : req[r].pc \in {"copy", "render"} => draft # NoText

\* The version files are numbered without a gap, and a copy under way has the
\* number of one of them or the next.
LastVersion == Cardinality(DOMAIN versions)

Numbered ==
  /\ LastVersion \in Nat /\ DOMAIN versions = 1..LastVersion
  /\ \A r \in Requests : req[r].pc = "copy" => req[r].num \in 1..(LastVersion + 1)
  /\ \A o \in Slots : run[o].pc = "copy" => run[o].num \in 1..(LastVersion + 1)

\* Whoever wrote an input took its stem and keeps that number.
Holders(n) ==
  {q \in Requests : req[q].num = n /\ req[q].pc \in {"markdown", "report"} \cup Ended}

Owned ==
  /\ \A n \in Stems : /\ \A x \in Suffixes : source[n][x] \in Holders(n) \cup {NoFile}
                      /\ {markdown[n], report[n]} \subseteq Holders(n) \cup {NoFile}
  /\ \A r \in Requests : req[r].pc \in {"source", "markdown", "report"} => req[r].num \in Stems
  /\ \A r \in Requests : req[r].pc \in {"stem", "upload", "source", "markdown", "report"} =>
       req[r].suffix \in Suffixes

TypeInv == TypeOK /\ Sighted /\ Numbered /\ Owned

\* The state every operation enters is a status, and its result a settled one.
LEMMA OperationStatuses ==
  /\ \A op \in Operations : RunningStateOf[op] \in RunningStates
  /\ \A op : NextStateOf(op) \in SettledStates
BY DEF Operations, Actions, PromptOperations, RunningStateOf, RunningStates, NextStateOf,
       SettledStates

\* Every slot is one of a session.
LEMMA SlotSession == \A o \in Slots : SessionOf(o) \in Sessions
BY DEF Slots, SessionOf

\* A missing file is no text; reading a file gives a text.
LEMMA NoTextIsNoText ==
  /\ NoText \notin Texts
  /\ {} \in Texts
  /\ \A t \in Texts \cup {NoText} : ReadText(t) \in Texts
BY WorkspaceAssumption DEF NoText, Texts, ReadText

\* A copy under one of these numbers leaves no gap.
LEMMA StoreKeepsNumbers ==
  ASSUME Numbered, NEW n \in 1..(LastVersion + 1), NEW t, versions' = StoreVersion(n, t)
  PROVE  /\ LastVersion' \in Nat /\ DOMAIN versions' = 1..LastVersion'
         /\ LastVersion' = IF n = LastVersion + 1 THEN n ELSE LastVersion
<1> DEFINE m == IF n = LastVersion + 1 THEN n ELSE LastVersion
<1>1. m \in Nat /\ DOMAIN versions' = 1..m
  BY DEF Numbered, StoreVersion
<1>2. Cardinality(1..m) = m
  BY <1>1, FS_Interval
<1> QED
  BY <1>1, <1>2 DEF LastVersion

\* Among some natural numbers there is a least.
LEMMA LeastNumber ==
  ASSUME NEW S \in SUBSET Nat, S # {}
  PROVE  \E m \in S : \A n \in Nat : n < m => n \notin S
<1> DEFINE Less == {p \in Nat \X Nat : p[1] < p[2]}
<1>1. IsWellFoundedOn(Less, Nat)
  BY NatLessThanWellFounded DEF OpToRel
<1>2. PICK m \in S : \A n \in S : <<n, m>> \notin Less
  BY <1>1, WFMin
<1> QED
  BY <1>2

\* The loop of _unique_stem ends within the stems: each one occupied is held by
\* a request of its own, other than the one that looks for a stem.
LEMMA UniqueStemIsFree ==
  ASSUME TypeOK, Owned, NEW r \in Requests, req[r].pc \in {"stem", "upload"}, NEW x \in Suffixes
  PROVE  UniqueStem(x) \in Stems /\ ~Occupied(UniqueStem(x), x)
<1> DEFINE others == Requests \ {r}
           free   == {n \in Stems : ~Occupied(n, x)}
           holder == [n \in Stems |-> CHOOSE q \in others : q \in Holders(n)]
<1>1. /\ IsFiniteSet(Requests) /\ Cardinality(Requests) \in Nat
      /\ IsFiniteSet(others) /\ Cardinality(others) = Cardinality(Requests) - 1
  BY WorkspaceAssumption, FS_CardinalityType, FS_RemoveElement
<1>2. IsFiniteSet(Stems) /\ Cardinality(Stems) = Cardinality(Requests)
  BY <1>1, FS_Interval DEF Stems
<1>3. ASSUME NEW n \in Stems, Occupied(n, x) PROVE holder[n] \in others /\ holder[n] \in Holders(n)
  <2>1. r \notin Holders(n)
    BY DEF Holders, Ended
  <2>2. \E q \in others : q \in Holders(n)
    BY <1>3, <2>1 DEF Occupied, Owned, Holders
  <2> QED
    BY <2>2
<1>4. free # {}
  <2>1. SUFFICES ASSUME free = {} PROVE FALSE
    OBVIOUS
  <2>2. \A n \in Stems : holder[n] \in others /\ holder[n] \in Holders(n)
    BY <1>3, <2>1
  <2>3. holder \in [Stems -> others]
    BY <2>2
  <2>4. Cardinality(others) < Cardinality(Stems)
    BY <1>1, <1>2
  <2>5. PICK n, m \in Stems : n # m /\ holder[n] = holder[m]
    <3> HIDE DEF others, holder
    <3> QED
      BY <1>1, <1>2, <2>3, <2>4, FS_PigeonHole
  <2> QED
    BY <2>2, <2>5 DEF Holders
<1>5. PICK stem \in free : \A n \in Nat : n < stem => n \notin free
  <2>1. free \in SUBSET Nat
    BY <1>1 DEF Stems
  <2> HIDE DEF free
  <2> QED
    BY <2>1, <1>4, LeastNumber
<1>6. \A n \in 1..(stem - 1) : Occupied(n, x)
  BY <1>1, <1>5 DEF Stems
<1> QED
  BY <1>5, <1>6 DEF UniqueStem

\* A version that is stored, or not, leaves the versions numbered texts.
LEMMA VersionTypes ==
  ASSUME TypeInv,
         \/ versions' = versions
         \/ \E n \in 1..(LastVersion + 1) :
              draft # NoText /\ versions' = StoreVersion(n, draft)
  PROVE  /\ LastVersion' \in Nat /\ DOMAIN versions' = 1..LastVersion' /\ LastVersion <= LastVersion'
         /\ \A m \in DOMAIN versions' : versions'[m] \in Texts
<1>1. LastVersion \in Nat /\ DOMAIN versions = 1..LastVersion
      /\ \A m \in DOMAIN versions : versions[m] \in Texts
  BY DEF TypeInv, Numbered, TypeOK
<1>2. CASE versions' = versions
  BY <1>1, <1>2 DEF LastVersion
<1>3. ASSUME NEW n \in 1..(LastVersion + 1), draft # NoText, versions' = StoreVersion(n, draft)
      PROVE  /\ LastVersion' \in Nat /\ DOMAIN versions' = 1..LastVersion'
             /\ LastVersion <= LastVersion'
             /\ \A m \in DOMAIN versions' : versions'[m] \in Texts
  <2>1. draft \in Texts
    BY <1>3 DEF TypeInv, TypeOK
  <2>2. \A m \in DOMAIN versions' : versions'[m] \in Texts
    BY <1>1, <1>3, <2>1 DEF StoreVersion
  <2> QED
    BY <1>1, <1>3, <2>2, StoreKeepsNumbers DEF TypeInv
<1> QED
  BY <1>2, <1>3

LEMMA InitTypes == Init => TypeInv
<1> SUFFICES ASSUME Init PROVE TypeInv
  OBVIOUS
<1> USE WorkspaceAssumption DEF Init
<1>1. run \in [Slots -> RunRecords] /\ \A o \in Slots : ~Busy(o) /\ run[o].pc = "idle"
  BY DEF RunRecords, NoRun, RunPCs, Statuses, SettledStates, Texts, Busy
<1>2. req \in [Requests -> RequestRecords] /\ \A r \in Requests : req[r].pc = "idle"
  BY DEF RequestRecords, RequestPCs, Texts
<1>3. /\ {draft, artifact} \subseteq Texts \cup {NoText}
      /\ DOMAIN versions \subseteq Nat /\ \A n \in DOMAIN versions : versions[n] \in Texts
      /\ page \in Texts
  BY DEF Texts
<1>4. source \in [Stems -> [Suffixes -> Requests \cup {NoFile}]]
      /\ {markdown, report} \subseteq [Stems -> Requests \cup {NoFile}]
  OBVIOUS
<1>5. status \in [Sessions -> Statuses \cup {"none"}] /\ restarts \in 0..MaxRestarts
  OBVIOUS
<1>6. Sighted
  BY <1>1, <1>2 DEF Sighted
<1>8. Owned
  BY <1>2 DEF Owned
<1>7. Numbered
  <2>1. DOMAIN versions = {} /\ 1..0 = {}
    OBVIOUS
  <2> QED
    BY <2>1, <1>1, <1>2, FS_EmptySet DEF Numbered, LastVersion
<1> QED
  BY <1>1, <1>2, <1>3, <1>4, <1>5, <1>6, <1>7, <1>8 DEF TypeInv, TypeOK

-----------------------------------------------------------------------------
(* The steps of requests *)

\* Request r goes to l with the number n and the text t; the others stay.
Moves(r, l, n, t) ==
  /\ req' \in [Requests -> RequestRecords]
  /\ req'[r].pc = l /\ req'[r].num = n /\ req'[r].text = t
  /\ req'[r].kind = req[r].kind /\ req'[r].suffix = req[r].suffix
  /\ \A q \in Requests \ {r} : req'[q] = req[q]

StepNum(r, label, n) == req' = [req EXCEPT ![r].pc = label, ![r].num = n]
StepText(r, label, t) == req' = [req EXCEPT ![r].pc = label, ![r].text = t]

LEMMA RequestMoves ==
  ASSUME req \in [Requests -> RequestRecords], NEW r \in Requests, NEW l \in RequestPCs
  PROVE  /\ Step(r, l) => Moves(r, l, req[r].num, req[r].text)
         /\ \A n \in Nat : StepNum(r, l, n) => Moves(r, l, n, req[r].text)
         /\ \A t \in Texts : StepText(r, l, t) => Moves(r, l, req[r].num, t)
<1>0. req[r] \in RequestRecords
  OBVIOUS
<1>1. Step(r, l) => Moves(r, l, req[r].num, req[r].text)
  BY DEF RequestRecords, Step, Moves
<1>2. ASSUME NEW n \in Nat, StepNum(r, l, n) PROVE Moves(r, l, n, req[r].text)
  <2>1. /\ req'[r] = [req[r] EXCEPT !.pc = l, !.num = n]
        /\ \A q \in Requests \ {r} : req'[q] = req[q]
    BY <1>2 DEF StepNum
  <2>2. req'[r] \in RequestRecords
    BY <1>0, <2>1 DEF RequestRecords
  <2>3. /\ req'[r].pc = l /\ req'[r].num = n /\ req'[r].text = req[r].text
        /\ req'[r].kind = req[r].kind /\ req'[r].suffix = req[r].suffix
    BY <1>0, <2>1 DEF RequestRecords
  <2>4. req' \in [Requests -> RequestRecords]
    BY <1>2, <2>1, <2>2 DEF StepNum
  <2> QED
    BY <2>1, <2>3, <2>4 DEF Moves
<1>3. ASSUME NEW t \in Texts, StepText(r, l, t) PROVE Moves(r, l, req[r].num, t)
  <2>1. /\ req'[r] = [req[r] EXCEPT !.pc = l, !.text = t]
        /\ \A q \in Requests \ {r} : req'[q] = req[q]
    BY <1>3 DEF StepText
  <2>2. req'[r] \in RequestRecords
    BY <1>0, <2>1 DEF RequestRecords
  <2>3. /\ req'[r].pc = l /\ req'[r].num = req[r].num /\ req'[r].text = t
        /\ req'[r].kind = req[r].kind /\ req'[r].suffix = req[r].suffix
    BY <1>0, <2>1 DEF RequestRecords
  <2>4. req' \in [Requests -> RequestRecords]
    BY <1>3, <2>1, <2>2 DEF StepText
  <2> QED
    BY <2>1, <2>3, <2>4 DEF Moves
<1> QED
  BY <1>1, <1>2, <1>3

\* What each step of request r makes of it.
LEMMA RequestEffects ==
  ASSUME TypeInv, NEW r \in Requests
  PROVE
    LET Goes(l) == Moves(r, l, req[r].num, req[r].text)
    IN /\ CheckRunning(r) =>
            \/ Goes("refused")
            \/ ~SomeRunning /\ req[r].kind = "save" /\ Goes("truncate")
            \/ ~SomeRunning /\ req[r].kind # "save" /\ Goes("number")
       /\ TruncateDraft(r) => Goes("write")
       /\ WriteDraft(r) => Moves(r, "done", req[r].num, {})
       /\ NumberVersion(r) =>
            \/ Moves(r, "refused", NextVersion, req[r].text)
            \/ draft # NoText /\ Moves(r, "copy", NextVersion, req[r].text)
       /\ CopyVersion(r) => Goes("announce")
       /\ AnnounceVersion(r) => Goes("refused") \/ Goes("done")
       /\ CheckDraft(r) => Goes("refused") \/ (draft # NoText /\ Goes("render"))
       /\ RenderDraft(r) => Moves(r, "done", req[r].num, ReadText(draft))
       /\ ChooseStem(r) => Moves(r, "source", UniqueStem(req[r].suffix), req[r].text)
       /\ WriteSource(r) => \/ req[r].suffix \in Convertible /\ Goes("markdown")
                            \/ req[r].suffix \notin Convertible /\ Goes("report")
       /\ WriteMarkdown(r) => Goes("report")
       /\ WriteReport(r) => Goes("done")
       /\ UploadFile(r) => Moves(r, "done", UniqueStem(req[r].suffix), req[r].text)
<1> DEFINE Goes(l) == Moves(r, l, req[r].num, req[r].text)
<1>0. /\ req \in [Requests -> RequestRecords] /\ draft \in Texts \cup {NoText}
      /\ \A l \in RequestPCs : Step(r, l) => Goes(l)
  BY RequestMoves DEF TypeInv, TypeOK
<1>1. {"refused", "truncate", "number", "write", "copy", "announce", "done", "render", "source",
       "markdown", "report"} \subseteq RequestPCs
  BY DEF RequestPCs, Ended
<1> HIDE DEF Goes
<1>2. CheckRunning(r) => \/ Goes("refused")
                         \/ ~SomeRunning /\ req[r].kind = "save" /\ Goes("truncate")
                         \/ ~SomeRunning /\ req[r].kind # "save" /\ Goes("number")
  BY <1>0, <1>1 DEF CheckRunning
<1>3. /\ TruncateDraft(r) => Goes("write")
      /\ CopyVersion(r) => Goes("announce")
      /\ AnnounceVersion(r) => Goes("refused") \/ Goes("done")
      /\ CheckDraft(r) => Goes("refused") \/ (draft # NoText /\ Goes("render"))
  BY <1>0, <1>1 DEF TruncateDraft, CopyVersion, AnnounceVersion, CheckDraft
<1>4. WriteDraft(r) => Moves(r, "done", req[r].num, {})
  <2>1. WriteDraft(r) => StepText(r, "done", {})
    BY DEF WriteDraft, StepText
  <2> QED
    BY <1>0, <1>1, <2>1, RequestMoves, NoTextIsNoText
<1>5. NumberVersion(r) => \/ Moves(r, "refused", NextVersion, req[r].text)
                          \/ draft # NoText /\ Moves(r, "copy", NextVersion, req[r].text)
  <2>1. NumberVersion(r) => \/ StepNum(r, "refused", NextVersion)
                            \/ draft # NoText /\ StepNum(r, "copy", NextVersion)
    BY DEF NumberVersion, StepNum
  <2>2. NextVersion \in Nat
    BY DEF LastVersion, NextVersion, Numbered, TypeInv
  <2> QED
    BY <1>0, <1>1, <2>1, <2>2, RequestMoves
<1>6. RenderDraft(r) => Moves(r, "done", req[r].num, ReadText(draft))
  <2>1. RenderDraft(r) => StepText(r, "done", ReadText(draft))
    BY DEF RenderDraft, StepText
  <2> QED
    BY <1>0, <1>1, <2>1, RequestMoves, NoTextIsNoText
<1>7. ASSUME ChooseStem(r) \/ UploadFile(r)
      PROVE  Moves(r, IF ChooseStem(r) THEN "source" ELSE "done",
                   UniqueStem(req[r].suffix), req[r].text)
  <2>1. StepNum(r, IF ChooseStem(r) THEN "source" ELSE "done", UniqueStem(req[r].suffix))
    BY <1>7 DEF ChooseStem, UploadFile, StepNum
  <2>2. req[r].pc \in {"stem", "upload"} /\ req[r].suffix \in Suffixes
    BY <1>7 DEF ChooseStem, UploadFile, TypeInv, Owned
  <2>3. UniqueStem(req[r].suffix) \in Nat
    BY <2>2, UniqueStemIsFree DEF TypeInv, Stems
  <2> QED
    BY <1>0, <1>1, <2>1, <2>3, RequestMoves
<1>8. ~(ChooseStem(r) /\ UploadFile(r))
  BY DEF ChooseStem, UploadFile
<1>9. /\ WriteSource(r) => \/ req[r].suffix \in Convertible /\ Goes("markdown")
                           \/ req[r].suffix \notin Convertible /\ Goes("report")
      /\ WriteMarkdown(r) => Goes("report")
      /\ WriteReport(r) => Goes("done")
  BY <1>0, <1>1 DEF WriteSource, WriteMarkdown, WriteReport
<1> QED
  BY <1>2, <1>3, <1>4, <1>5, <1>6, <1>7, <1>8, <1>9 DEF Goes

DraftPCs == {"check", "truncate", "write", "number", "copy", "announce", "exists", "render"}

DraftStep(r) ==
  \/ CheckRunning(r) \/ TruncateDraft(r) \/ WriteDraft(r) \/ NumberVersion(r)
  \/ CopyVersion(r) \/ AnnounceVersion(r) \/ CheckDraft(r) \/ RenderDraft(r)

ImportStep(r) ==
  \/ ChooseStem(r) \/ WriteSource(r) \/ WriteMarkdown(r) \/ WriteReport(r) \/ UploadFile(r)

\* What a step of a request on the draft may do.
DraftMove(r, l, n, t) ==
  /\ Moves(r, l, n, t)
  /\ req[r].pc \in DraftPCs
  /\ l = "render" => draft # NoText
  /\ l = "copy" => draft # NoText /\ n = LastVersion + 1
  /\ draft' = draft \/ draft' \in Texts
  /\ \/ versions' = versions
     \/ req[r].pc = "copy" /\ draft # NoText /\ versions' = StoreVersion(req[r].num, draft)
  /\ UNCHANGED <<artifact, inputVars, status, bound, run, page, patient, restarts>>

LEMMA DraftMoves ==
  ASSUME TypeInv, NEW r \in Requests, DraftStep(r)
  PROVE  \E l \in DraftPCs \cup Ended, n \in Nat, t \in Texts : DraftMove(r, l, n, t)
<1>0. /\ req[r].num \in Nat /\ req[r].text \in Texts /\ draft \in Texts \cup {NoText}
      /\ LastVersion + 1 = NextVersion /\ NextVersion \in Nat
      /\ {} \in Texts /\ ReadText(draft) \in Texts
  BY NoTextIsNoText
  DEF TypeInv, TypeOK, RequestRecords, LastVersion, NextVersion, Numbered
<1>1. /\ req[r].pc \in DraftPCs
      /\ UNCHANGED <<artifact, inputVars, status, bound, run, page, patient, restarts>>
  BY DEF DraftStep, CheckRunning, TruncateDraft, WriteDraft, NumberVersion, CopyVersion,
         AnnounceVersion, CheckDraft, RenderDraft, fileVars, DraftPCs
<1>2. /\ draft' \in {draft, {}, req[r].text}
      /\ \/ versions' = versions
         \/ req[r].pc = "copy" /\ draft # NoText /\ versions' = StoreVersion(req[r].num, draft)
  BY DEF DraftStep, CheckRunning, TruncateDraft, WriteDraft, NumberVersion, CopyVersion,
         AnnounceVersion, CheckDraft, RenderDraft, fileVars, TypeInv, Sighted
<1>3. PICK l \in DraftPCs \cup Ended, n \in {req[r].num, NextVersion},
           t \in {req[r].text, {}, ReadText(draft)} :
        /\ Moves(r, l, n, t)
        /\ l = "render" => draft # NoText
        /\ l = "copy" => draft # NoText /\ n = NextVersion
  BY RequestEffects DEF DraftStep, DraftPCs, Ended
<1>4. DraftMove(r, l, n, t)
  BY <1>0, <1>1, <1>2, <1>3 DEF DraftMove
<1> QED
  BY <1>0, <1>3, <1>4

\* A step of a request on the draft keeps the types.
LEMMA DraftTypes == ASSUME TypeInv, NEW r \in Requests, DraftStep(r) PROVE TypeInv'
<1>1. PICK l \in DraftPCs \cup Ended, n \in Nat, t \in Texts : DraftMove(r, l, n, t)
  BY DraftMoves
<1> USE <1>1 DEF DraftMove, inputVars
<1>2. /\ LastVersion' \in Nat /\ DOMAIN versions' = 1..LastVersion' /\ LastVersion <= LastVersion'
      /\ \A m \in DOMAIN versions' : versions'[m] \in Texts
  <2>1. req[r].pc = "copy" => req[r].num \in 1..(LastVersion + 1)
    BY DEF TypeInv, Numbered
  <2> QED
    BY <2>1, VersionTypes
<1>3. TypeOK'
  BY <1>2 DEF TypeInv, TypeOK, Moves
<1>4. Sighted'
  BY NoTextIsNoText DEF TypeInv, Sighted, Moves, Busy
<1>5. Numbered'
  BY <1>2 DEF TypeInv, Numbered, Moves
<1>6. Owned'
  <2>1. \A m : Holders(m) \subseteq Holders(m)'
    BY DEF Holders, Moves, DraftPCs, Ended
  <2>2. l \notin {"stem", "upload", "source", "markdown", "report"}
    BY DEF DraftPCs, Ended
  <2> QED
    BY <2>1, <2>2 DEF TypeInv, Owned, Moves
<1> QED
  BY <1>3, <1>4, <1>5, <1>6 DEF TypeInv

\* A request that begins keeps the types.
LEMMA SubmitTypes ==
  ASSUME TypeInv, NEW r \in Requests, NEW k \in Kinds, NEW x \in Suffixes \cup {NoFile},
         Submit(r, k, x)
  PROVE  TypeInv'
<1>1. /\ FirstStep(k) \in RequestPCs \ ({"copy", "render", "source", "markdown", "report"} \cup Ended)
      /\ FirstStep(k) \in {"stem", "upload"} <=> k \in {"import_text", "upload"}
      /\ k \in AllKinds
  BY WorkspaceAssumption DEF FirstStep, AllKinds, RequestPCs, Ended
<1>2. page \cup {r} \in Texts /\ {} \in Texts
  BY DEF TypeInv, TypeOK, Texts, Marks
<1>3. /\ UNCHANGED <<draft, versions, artifact, source, markdown, report, status, bound, run, page,
                     patient, restarts>>
      /\ req[r].pc = "idle" /\ (k \in {"import_text", "upload"} <=> x # NoFile)
  BY DEF Submit, fileVars, inputVars
<1>4. /\ req' \in [Requests -> RequestRecords]
      /\ req'[r].pc = FirstStep(k) /\ req'[r].suffix = x
      /\ \A q \in Requests \ {r} : req'[q] = req[q]
  BY <1>1, <1>2 DEF Submit, RequestRecords, TypeInv, TypeOK
<1>5. TypeOK'
  BY <1>3, <1>4 DEF TypeInv, TypeOK
<1>6. Sighted' /\ Numbered'
  BY <1>1, <1>3, <1>4 DEF TypeInv, Sighted, Numbered, LastVersion, Busy
<1>7. Owned'
  <2>1. \A m : Holders(m) \subseteq Holders(m)'
    BY <1>3, <1>4 DEF Holders, Ended
  <2> QED
    BY <1>1, <1>3, <1>4, <2>1 DEF TypeInv, Owned
<1> QED
  BY <1>5, <1>6, <1>7 DEF TypeInv

\* What a step of an import may do: it moves through the stages, and writes at
\* its stem, which is free when it is chosen.
ImportPCs == {"stem", "source", "markdown", "report", "upload"}
Imported == {"markdown", "report"} \cup Ended

ImportMove(r, l, n) ==
  /\ Moves(r, l, n, req[r].text)
  /\ req[r].pc \in ImportPCs /\ l \in {"source", "markdown", "report", "done"} /\ n \in Stems
  /\ req[r].pc \in {"stem", "upload"} => ~Occupied(n, req[r].suffix)
  /\ req[r].pc \notin {"stem", "upload"} => n = req[r].num /\ l \in Imported
  /\ \/ source' = source
     \/ source' = [source EXCEPT ![n][req[r].suffix] = r] /\ l \in Imported
  /\ \/ markdown' = markdown
     \/ markdown' = [markdown EXCEPT ![n] = r] /\ l \in Imported
  /\ \/ report' = report
     \/ report' = [report EXCEPT ![n] = r] /\ l \in Imported
  /\ UNCHANGED <<fileVars, status, bound, run, page, patient, restarts>>

LEMMA ImportMoves ==
  ASSUME TypeInv, NEW r \in Requests, ImportStep(r)
  PROVE  \E l \in {"source", "markdown", "report", "done"}, n \in Stems : ImportMove(r, l, n)
<1> DEFINE x == req[r].suffix
<1>1. CASE ChooseStem(r) \/ UploadFile(r)
  <2>1. req[r].pc \in {"stem", "upload"} /\ x \in Suffixes
    BY <1>1 DEF ChooseStem, UploadFile, TypeInv, Owned
  <2>2. UniqueStem(x) \in Stems /\ ~Occupied(UniqueStem(x), x)
    BY <2>1, UniqueStemIsFree DEF TypeInv
  <2>3. PICK l \in {"source", "done"} :
          Moves(r, l, UniqueStem(x), req[r].text) /\ (ChooseStem(r) \/ l = "done")
    BY <1>1, RequestEffects
  <2>4. ImportMove(r, l, UniqueStem(x))
    BY <1>1, <2>1, <2>2, <2>3
    DEF ImportMove, ImportPCs, Imported, Ended, ChooseStem, UploadFile, inputVars
  <2> QED
    BY <2>2, <2>4
<1>2. CASE WriteSource(r) \/ WriteMarkdown(r) \/ WriteReport(r)
  <2>1. req[r].pc \in {"source", "markdown", "report"} /\ req[r].num \in Stems
    BY <1>2 DEF WriteSource, WriteMarkdown, WriteReport, TypeInv, Owned
  <2>2. PICK l \in {"markdown", "report", "done"} : Moves(r, l, req[r].num, req[r].text)
    BY <1>2, RequestEffects
  <2>3. ImportMove(r, l, req[r].num)
    BY <1>2, <2>1, <2>2
    DEF ImportMove, ImportPCs, Imported, Ended, WriteSource, WriteMarkdown, WriteReport
  <2> QED
    BY <2>1, <2>3
<1> QED
  BY <1>1, <1>2 DEF ImportStep

\* A step of an import keeps the types.
LEMMA ImportTypes == ASSUME TypeInv, NEW r \in Requests, ImportStep(r) PROVE TypeInv'
<1>1. PICK l \in {"source", "markdown", "report", "done"}, stem \in Stems : ImportMove(r, l, stem)
  BY ImportMoves
<1>2. /\ Moves(r, l, stem, req[r].text)
      /\ UNCHANGED <<draft, versions, artifact, status, bound, run, page, patient, restarts>>
  BY <1>1 DEF ImportMove, fileVars
<1>3. /\ source' \in [Stems -> [Suffixes -> Requests \cup {NoFile}]]
      /\ {markdown, report}' \subseteq [Stems -> Requests \cup {NoFile}]
  <2>1. ASSUME source' = [source EXCEPT ![stem][req[r].suffix] = r]
        PROVE  source' \in [Stems -> [Suffixes -> Requests \cup {NoFile}]]
    <3>1. source' = [source EXCEPT ![stem] = [source[stem] EXCEPT ![req[r].suffix] = r]]
      BY <2>1
    <3>2. [source[stem] EXCEPT ![req[r].suffix] = r] \in [Suffixes -> Requests \cup {NoFile}]
      BY DEF TypeInv, TypeOK
    <3> QED
      BY <3>1, <3>2 DEF TypeInv, TypeOK
  <2>2. /\ markdown' \in [Stems -> Requests \cup {NoFile}]
        /\ report' \in [Stems -> Requests \cup {NoFile}]
    BY <1>1 DEF ImportMove, TypeInv, TypeOK
  <2> QED
    BY <1>1, <2>1, <2>2 DEF ImportMove, TypeInv, TypeOK
<1>4. TypeOK'
  BY <1>2, <1>3 DEF Moves, TypeInv, TypeOK
<1>5. Sighted' /\ Numbered'
  BY <1>2 DEF Moves, TypeInv, Sighted, Numbered, LastVersion, Busy
<1>6. Owned'
  <2>1. \A m : Holders(m) \subseteq Holders(m)'
    BY <1>1, <1>2 DEF Holders, Moves, ImportMove, ImportPCs, Imported, Ended
  <2>2. l \in Imported => r \in Holders(stem)'
    BY <1>2 DEF Holders, Moves, Imported
  <2>3. ASSUME NEW m \in Stems
        PROVE  /\ \A x \in Suffixes : source'[m][x] \in {source[m][x]} \cup Holders(m)'
               /\ markdown'[m] \in {markdown[m]} \cup Holders(m)'
               /\ report'[m] \in {report[m]} \cup Holders(m)'
    <3>1. markdown'[m] = markdown[m] \/ (markdown'[m] = r /\ m = stem /\ l \in Imported)
      BY <1>1 DEF ImportMove, TypeInv, TypeOK
    <3>2. report'[m] = report[m] \/ (report'[m] = r /\ m = stem /\ l \in Imported)
      BY <1>1 DEF ImportMove, TypeInv, TypeOK
    <3>3. ASSUME NEW x \in Suffixes
          PROVE  source'[m][x] = source[m][x] \/ (source'[m][x] = r /\ m = stem /\ l \in Imported)
      BY <1>1 DEF ImportMove, TypeInv, TypeOK
    <3> QED
      BY <2>2, <3>1, <3>2, <3>3
  <2>4. l \in {"source", "markdown", "report"} => stem \in Stems /\ req[r].suffix \in Suffixes
    BY <1>1 DEF ImportMove, ImportPCs, TypeInv, Owned
  <2>5. \A q \in Requests :
          /\ req'[q].pc \in {"source", "markdown", "report"} => req'[q].num \in Stems
          /\ req'[q].pc \in {"stem", "upload", "source", "markdown", "report"} =>
               req'[q].suffix \in Suffixes
    BY <1>2, <2>4 DEF Moves, TypeInv, Owned
  <2>6. \A m \in Stems : /\ \A x \in Suffixes : source[m][x] \in Holders(m) \cup {NoFile}
                         /\ {markdown[m], report[m]} \subseteq Holders(m) \cup {NoFile}
    BY DEF TypeInv, Owned
  <2> QED
    BY <2>1, <2>3, <2>5, <2>6 DEF Owned
<1> QED
  BY <1>4, <1>5, <1>6 DEF TypeInv

-----------------------------------------------------------------------------
(* The steps of operations *)

\* The operation of slot o goes to l with these values; the others stay.
RunMoves(o, l, n, seen, text) ==
  /\ run' \in [Slots -> RunRecords]
  /\ run'[o].pc = l /\ run'[o].num = n /\ run'[o].seen = seen /\ run'[o].text = text
  /\ run'[o].op = run[o].op /\ run'[o].count = run[o].count
  /\ \A q \in Slots \ {o} : run'[q] = run[q]

ProceedNum(o, label, n) == run' = [run EXCEPT ![o].pc = label, ![o].num = n]
ProceedSeen(o, label, seen, text) ==
  run' = [run EXCEPT ![o].pc = label, ![o].seen = seen, ![o].text = text]

LEMMA OperationMoves ==
  ASSUME run \in [Slots -> RunRecords], NEW o \in Slots, NEW l \in RunPCs
  PROVE  /\ Proceed(o, l) => RunMoves(o, l, run[o].num, run[o].seen, run[o].text)
         /\ \A n \in Nat : ProceedNum(o, l, n) => RunMoves(o, l, n, run[o].seen, run[o].text)
         /\ \A seen, text \in Texts :
              ProceedSeen(o, l, seen, text) => RunMoves(o, l, run[o].num, seen, text)
<1>0. run[o] \in RunRecords
  OBVIOUS
<1>1. Proceed(o, l) => RunMoves(o, l, run[o].num, run[o].seen, run[o].text)
  BY DEF RunRecords, Proceed, RunMoves
<1>2. ASSUME NEW n \in Nat, ProceedNum(o, l, n) PROVE RunMoves(o, l, n, run[o].seen, run[o].text)
  <2>1. /\ run'[o] = [run[o] EXCEPT !.pc = l, !.num = n]
        /\ \A q \in Slots \ {o} : run'[q] = run[q]
    BY <1>2 DEF ProceedNum
  <2>2. /\ run'[o] \in RunRecords
        /\ run'[o].pc = l /\ run'[o].num = n /\ run'[o].seen = run[o].seen
        /\ run'[o].text = run[o].text /\ run'[o].op = run[o].op /\ run'[o].count = run[o].count
    BY <1>0, <2>1 DEF RunRecords
  <2>3. run' \in [Slots -> RunRecords]
    BY <1>2, <2>1, <2>2 DEF ProceedNum
  <2> QED
    BY <2>1, <2>2, <2>3 DEF RunMoves
<1>3. ASSUME NEW seen \in Texts, NEW text \in Texts, ProceedSeen(o, l, seen, text)
      PROVE  RunMoves(o, l, run[o].num, seen, text)
  <2>1. /\ run'[o] = [run[o] EXCEPT !.pc = l, !.seen = seen, !.text = text]
        /\ \A q \in Slots \ {o} : run'[q] = run[q]
    BY <1>3 DEF ProceedSeen
  <2>2. /\ run'[o] \in RunRecords
        /\ run'[o].pc = l /\ run'[o].num = run[o].num /\ run'[o].seen = seen
        /\ run'[o].text = text /\ run'[o].op = run[o].op /\ run'[o].count = run[o].count
    BY <1>0, <2>1 DEF RunRecords
  <2>3. run' \in [Slots -> RunRecords]
    BY <1>3, <2>1, <2>2 DEF ProceedSeen
  <2> QED
    BY <2>1, <2>2, <2>3 DEF RunMoves
<1> QED
  BY <1>1, <1>2, <1>3

\* The draft with the selected text replaced.
Revised(o) == (draft \ {run[o].selection}) \cup {Mark(o)}

\* What each step of the operation of slot o makes of it.
LEMMA OperationEffects ==
  ASSUME TypeInv, NEW o \in Slots
  PROVE
    LET Goes(l) == RunMoves(o, l, run[o].num, run[o].seen, run[o].text)
    IN /\ Look(o) =>
            \/ draft = NoText /\ Goes("truncate")
            \/ draft # NoText /\ ActionOf(run[o].op) = "send_message" /\ Goes("number")
            \/ Goes("fail")
            \/ /\ draft \in Texts /\ Revised(o) \in Texts
               /\ RunMoves(o, "number", run[o].num, draft, Revised(o))
       /\ RunNumber(o) => RunMoves(o, "copy", NextVersion, run[o].seen, run[o].text)
       /\ RunCopy(o) => \/ ActionOf(run[o].op) = "send_message" /\ Goes("read")
                        \/ ActionOf(run[o].op) # "send_message" /\ Goes("truncate")
       /\ RunRead(o) => /\ draft \in Texts /\ draft \cup {Mark(o)} \in Texts
                        /\ RunMoves(o, "truncate", run[o].num, draft, draft \cup {Mark(o)})
       /\ RunTruncate(o) => Goes("write")
       /\ RunWrite(o) \/ RunExport(o) => Goes("finish")
<1> DEFINE Goes(l) == RunMoves(o, l, run[o].num, run[o].seen, run[o].text)
<1>0. /\ run \in [Slots -> RunRecords] /\ draft \in Texts \cup {NoText}
      /\ \A l \in RunPCs : Proceed(o, l) => Goes(l)
      /\ {"truncate", "number", "fail", "copy", "read", "write", "finish"} \subseteq RunPCs
  BY OperationMoves DEF TypeInv, TypeOK, RunPCs
<1>1. Look(o) \/ RunRead(o) => Mark(o) \in Marks
  BY DEF Look, RunRead, Busy, TypeInv, Sighted, Mark, Marks
<1> HIDE DEF Goes
<1>2. Look(o) => \/ draft = NoText /\ Goes("truncate")
                 \/ draft # NoText /\ ActionOf(run[o].op) = "send_message" /\ Goes("number")
                 \/ Goes("fail")
                 \/ /\ draft \in Texts /\ Revised(o) \in Texts
                    /\ RunMoves(o, "number", run[o].num, draft, Revised(o))
  <2>1. Look(o) => \/ draft = NoText /\ Proceed(o, "truncate")
                   \/ draft # NoText /\ ActionOf(run[o].op) = "send_message" /\ Proceed(o, "number")
                   \/ Proceed(o, "fail")
                   \/ draft # NoText /\ ProceedSeen(o, "number", draft, Revised(o))
    BY DEF Look, ProceedSeen, Revised
  <2>2. Look(o) /\ draft # NoText => draft \in Texts /\ Revised(o) \in Texts
    BY <1>0, <1>1 DEF Revised, Texts
  <2> QED
    BY <1>0, <2>1, <2>2, OperationMoves
<1>3. RunNumber(o) => RunMoves(o, "copy", NextVersion, run[o].seen, run[o].text)
  <2>1. RunNumber(o) => ProceedNum(o, "copy", NextVersion)
    BY DEF RunNumber, ProceedNum
  <2>2. NextVersion \in Nat
    BY DEF LastVersion, NextVersion, Numbered, TypeInv
  <2> QED
    BY <1>0, <2>1, <2>2, OperationMoves
<1>4. RunRead(o) => /\ draft \in Texts /\ draft \cup {Mark(o)} \in Texts
                    /\ RunMoves(o, "truncate", run[o].num, draft, draft \cup {Mark(o)})
  <2>1. RunRead(o) => ProceedSeen(o, "truncate", draft, draft \cup {Mark(o)})
    BY DEF RunRead, ProceedSeen
  <2>2. RunRead(o) => draft \in Texts /\ draft \cup {Mark(o)} \in Texts
    BY <1>0, <1>1 DEF RunRead, TypeInv, Sighted, Texts
  <2> QED
    BY <1>0, <2>1, <2>2, OperationMoves
<1>5. /\ RunCopy(o) => \/ ActionOf(run[o].op) = "send_message" /\ Goes("read")
                       \/ ActionOf(run[o].op) # "send_message" /\ Goes("truncate")
      /\ RunTruncate(o) => Goes("write")
      /\ RunWrite(o) \/ RunExport(o) => Goes("finish")
  BY <1>0 DEF RunCopy, RunTruncate, RunWrite, RunExport
<1> QED
  BY <1>2, <1>3, <1>4, <1>5 DEF Goes

WorkStep(o) ==
  \/ Look(o) \/ RunNumber(o) \/ RunCopy(o) \/ RunRead(o)
  \/ RunTruncate(o) \/ RunWrite(o) \/ RunExport(o)

\* What a step of an operation on the files may do.
WorkMove(o, l, n, seen, text) ==
  /\ RunMoves(o, l, n, seen, text)
  /\ Busy(o)
  /\ l \in {"number", "copy", "read"} => draft # NoText
  /\ l = "copy" => n = LastVersion + 1
  /\ draft' = draft \/ draft' \in Texts
  /\ artifact' = artifact \/ artifact' \in Texts
  /\ \/ versions' = versions
     \/ run[o].pc = "copy" /\ draft # NoText /\ versions' = StoreVersion(run[o].num, draft)
  /\ UNCHANGED <<inputVars, status, bound, req, page, patient, restarts>>

WorkPCs == RunPCs \ {"idle"}

LEMMA WorkMoves ==
  ASSUME TypeInv, NEW o \in Slots, WorkStep(o)
  PROVE  \E l \in WorkPCs, n \in Nat, seen, text \in Texts : WorkMove(o, l, n, seen, text)
<1>0. /\ run[o].num \in Nat /\ run[o].seen \in Texts /\ run[o].text \in Texts
      /\ LastVersion + 1 = NextVersion /\ NextVersion \in Nat
      /\ draft \in Texts \cup {NoText} /\ {} \in Texts /\ ReadText(draft) \in Texts
  BY NoTextIsNoText
  DEF TypeInv, TypeOK, RunRecords, LastVersion, NextVersion, Numbered
<1>1. /\ Busy(o)
      /\ UNCHANGED <<inputVars, status, bound, req, page, patient, restarts>>
  BY DEF WorkStep, Look, RunNumber, RunCopy, RunRead, RunTruncate, RunWrite, RunExport,
         Busy, fileVars
<1>2. /\ draft' \in {draft, {}, run[o].text}
      /\ artifact' \in {artifact, ReadText(draft)}
      /\ \/ versions' = versions
         \/ run[o].pc = "copy" /\ draft # NoText /\ versions' = StoreVersion(run[o].num, draft)
  BY DEF WorkStep, Look, RunNumber, RunCopy, RunRead, RunTruncate, RunWrite, RunExport,
         fileVars, TypeInv, Sighted
<1>3. PICK l \in WorkPCs, n \in {run[o].num, NextVersion}, seen, text \in Texts :
        /\ RunMoves(o, l, n, seen, text)
        /\ l \in {"number", "copy", "read"} => draft # NoText
        /\ l = "copy" => n = NextVersion
  <2>1. {"truncate", "number", "fail", "copy", "read", "write", "finish"} \subseteq WorkPCs
    BY DEF WorkPCs, RunPCs
  <2>2. RunNumber(o) \/ RunCopy(o) => draft # NoText
    BY DEF RunNumber, RunCopy, TypeInv, Sighted
  <2>3. \A a \in Texts : a # NoText
    BY NoTextIsNoText
  <2> QED
    BY <1>0, <2>1, <2>2, <2>3, OperationEffects DEF WorkStep
<1>4. WorkMove(o, l, n, seen, text)
  BY <1>0, <1>1, <1>2, <1>3 DEF WorkMove
<1> QED
  BY <1>0, <1>3, <1>4

\* A step of an operation on the files keeps the types.
LEMMA WorkTypes == ASSUME TypeInv, NEW o \in Slots, WorkStep(o) PROVE TypeInv'
<1>1. PICK l \in WorkPCs, n \in Nat, seen \in Texts, text \in Texts :
        WorkMove(o, l, n, seen, text)
  BY WorkMoves
<1> USE <1>1 DEF WorkMove, inputVars
<1>2. /\ LastVersion' \in Nat /\ DOMAIN versions' = 1..LastVersion' /\ LastVersion <= LastVersion'
      /\ \A m \in DOMAIN versions' : versions'[m] \in Texts
  <2>1. run[o].pc = "copy" => run[o].num \in 1..(LastVersion + 1)
    BY DEF TypeInv, Numbered
  <2> QED
    BY <2>1, VersionTypes
<1>3. TypeOK'
  BY <1>2 DEF TypeInv, TypeOK, RunMoves
<1>4. Sighted'
  BY NoTextIsNoText DEF TypeInv, Sighted, RunMoves, Busy
<1>5. Numbered'
  BY <1>2 DEF TypeInv, Numbered, RunMoves
<1>6. Owned'
  BY DEF TypeInv, Owned, Holders
<1> QED
  BY <1>3, <1>4, <1>5, <1>6 DEF TypeInv

\* An operation that ends, a session that begins or is cancelled, and a page
\* that is fetched, keep the types.
LEMMA SessionTypes ==
  ASSUME TypeInv,
         \/ \E o \in Slots : RunFinish(o) \/ RunFail(o)
         \/ \E s \in Sessions : CreateSession(s) \/ CancelSession(s)
         \/ FetchDraft
  PROVE  TypeInv'
<1>1. UNCHANGED <<draft, versions, artifact, source, markdown, report, req, patient, restarts>>
  BY DEF RunFinish, RunFail, CreateSession, CancelSession, FetchDraft, fileVars, inputVars
<1>2. page' \in Texts /\ bound' \subseteq Sessions
  BY NoTextIsNoText
  DEF RunFinish, RunFail, CreateSession, CancelSession, FetchDraft, TypeInv, TypeOK
<1>3. status' \in [Sessions -> Statuses \cup {"none"}]
  BY OperationStatuses
  DEF RunFinish, RunFail, CreateSession, CancelSession, FetchDraft, TypeInv, TypeOK, RunRecords,
      Statuses, SettledStates
<1>4. /\ run' \in [Slots -> RunRecords]
      /\ \A o \in Slots : run'[o] = run[o] \/ run'[o].pc = "idle"
  <2>1. CASE run' = run
    BY <2>1 DEF TypeInv, TypeOK
  <2>2. ASSUME NEW o \in Slots, GoIdle(o)
        PROVE  /\ run' \in [Slots -> RunRecords]
               /\ \A q \in Slots : run'[q] = run[q] \/ run'[q].pc = "idle"
    <3>1. /\ run' = [run EXCEPT ![o] = NoRun(run[o].count)]
          /\ run \in [Slots -> RunRecords] /\ run[o].count \in 0..MaxOps
      BY <2>2 DEF GoIdle, TypeInv, TypeOK, RunRecords
    <3>2. NoRun(run[o].count) \in RunRecords /\ NoRun(run[o].count).pc = "idle"
      BY <3>1, NoTextIsNoText DEF NoRun, RunRecords, RunPCs, Statuses, SettledStates
    <3> QED
      BY <3>1, <3>2
  <2> QED
    BY <2>1, <2>2 DEF RunFinish, RunFail, CreateSession, CancelSession, FetchDraft
<1>5. TypeOK'
  BY <1>1, <1>2, <1>3, <1>4 DEF TypeInv, TypeOK
<1>6. Sighted' /\ Numbered'
  BY <1>1, <1>4 DEF TypeInv, Sighted, Numbered, LastVersion, Busy
<1>7. Owned'
  BY <1>1 DEF TypeInv, Owned, Holders
<1> QED
  BY <1>5, <1>6, <1>7 DEF TypeInv

\* An operation that begins keeps the types.
LEMMA BeginTypes ==
  ASSUME TypeInv, NEW o \in Slots, NEW op \in Ops, NEW m \in page \cup {NoFile}, Begin(o, op, m)
  PROVE  TypeInv'
<1>1. /\ UNCHANGED <<draft, versions, artifact, source, markdown, report, bound, req, page,
                     patient, restarts>>
      /\ ~Busy(o) /\ run[o].count < MaxOps /\ status[SessionOf(o)] # "none"
      /\ status' = [status EXCEPT ![SessionOf(o)] = RunningStateOf[op]]
  BY DEF Begin, fileVars, inputVars
<1>2. /\ op \in Operations /\ RunningStateOf[op] \in Statuses
      /\ run[o].count + 1 \in 1..MaxOps /\ status[SessionOf(o)] \in Statuses
  BY <1>1, WorkspaceAssumption, OperationStatuses, SlotSession
  DEF TypeInv, TypeOK, RunRecords, Statuses
<1>3. <<o, run[o].count + 1>> \in Marks /\ page \subseteq Marks
  BY <1>2 DEF Marks, TypeInv, TypeOK, Texts
<1>4. /\ run' \in [Slots -> RunRecords]
      /\ run'[o].pc \notin {"number", "copy", "read"}
      /\ run'[o].op \in Operations /\ run'[o].count \in 1..MaxOps
      /\ \A q \in Slots \ {o} : run'[q] = run[q]
  <2>1. PICK l \in {"fail", "truncate", "export", "look", "finish"},
             prev \in {"await_outline_approval", status[SessionOf(o)]} :
          run' = [run EXCEPT ![o] =
                    [pc |-> l, op |-> op, prev |-> prev, selection |-> m, seen |-> {},
                     text |-> {<<o, run[o].count + 1>>}, num |-> 0, count |-> run[o].count + 1]]
    BY DEF Begin, EntryOf
  <2>2. [pc |-> l, op |-> op, prev |-> prev, selection |-> m, seen |-> {},
         text |-> {<<o, run[o].count + 1>>}, num |-> 0, count |-> run[o].count + 1] \in RunRecords
    BY <1>2, <1>3, WorkspaceAssumption DEF RunRecords, RunPCs, Texts, Statuses, SettledStates
  <2> QED
    BY <1>2, <2>1, <2>2 DEF TypeInv, TypeOK
<1>5. TypeOK'
  BY <1>1, <1>2, <1>4 DEF TypeInv, TypeOK
<1>6. Sighted' /\ Numbered'
  BY <1>1, <1>4 DEF TypeInv, Sighted, Numbered, LastVersion, Busy
<1>7. Owned'
  BY <1>1 DEF TypeInv, Owned, Holders
<1> QED
  BY <1>5, <1>6, <1>7 DEF TypeInv

\* A restart leaves every request and every operation ended, the files as they are.
LEMMA RestartEnds ==
  ASSUME TypeInv, Restart
  PROVE  /\ run' \in [Slots -> RunRecords] /\ \A o \in Slots : run'[o].pc = "idle"
         /\ req' \in [Requests -> RequestRecords]
         /\ \A r \in Requests :
              /\ req'[r].pc \in Ended \cup {"idle"}
              /\ req[r].pc \in Ended \cup {"idle"} => req'[r] = req[r]
              /\ req[r].pc \notin Ended \cup {"idle"} => req'[r].pc = "aborted"
              /\ req'[r].num = req[r].num /\ req'[r].kind = req[r].kind
              /\ req'[r].suffix = req[r].suffix /\ req'[r].text = req[r].text
         /\ UNCHANGED <<fileVars, inputVars, page, patient>>
<1>1. run' \in [Slots -> RunRecords] /\ \A o \in Slots : run'[o].pc = "idle"
  BY NoTextIsNoText
  DEF Restart, TypeInv, TypeOK, RunRecords, NoRun, RunPCs, Statuses, SettledStates
<1>2. req \in [Requests -> RequestRecords]
      /\ req' = [r \in Requests |-> IF req[r].pc \in Ended \cup {"idle"} THEN req[r]
                                    ELSE [req[r] EXCEPT !.pc = "aborted"]]
  BY DEF Restart, TypeInv, TypeOK
<1>3. ASSUME NEW r \in Requests
      PROVE  /\ req'[r] \in RequestRecords
             /\ req'[r].pc \in Ended \cup {"idle"}
             /\ req[r].pc \in Ended \cup {"idle"} => req'[r] = req[r]
             /\ req[r].pc \notin Ended \cup {"idle"} => req'[r].pc = "aborted"
             /\ req'[r].num = req[r].num /\ req'[r].kind = req[r].kind
             /\ req'[r].suffix = req[r].suffix /\ req'[r].text = req[r].text
  <2>1. CASE req[r].pc \in Ended \cup {"idle"}
    BY <1>2, <2>1
  <2>2. CASE req[r].pc \notin Ended \cup {"idle"}
    <3>1. req'[r] = [req[r] EXCEPT !.pc = "aborted"] /\ req[r] \in RequestRecords
      BY <1>2, <2>2
    <3> QED
      BY <2>2, <3>1 DEF RequestRecords, RequestPCs, Ended
  <2> QED
    BY <2>1, <2>2
<1>4. req' \in [Requests -> RequestRecords]
  BY <1>2, <1>3
<1> QED
  BY <1>1, <1>3, <1>4 DEF Restart

LEMMA RestartTypes == ASSUME TypeInv, Restart PROVE TypeInv'
<1>1. /\ UNCHANGED <<draft, versions, artifact, source, markdown, report, page, patient>>
      /\ bound' = {} /\ restarts < MaxRestarts /\ restarts' = restarts + 1
      /\ status' = [s \in Sessions |-> IF status[s] \in RunningStates THEN "failed" ELSE status[s]]
  BY DEF Restart, fileVars, inputVars
<1>2. restarts' \in 0..MaxRestarts
  BY <1>1, WorkspaceAssumption DEF TypeInv, TypeOK
<1>3. TypeOK'
  BY <1>1, <1>2, RestartEnds DEF TypeInv, TypeOK, Statuses, SettledStates
<1>4. Sighted' /\ Numbered'
  BY <1>1, RestartEnds DEF TypeInv, Sighted, Numbered, LastVersion, Busy, Ended
<1>5. Owned'
  <2>1. \A m : Holders(m) \subseteq Holders(m)'
    BY RestartEnds DEF Holders, Ended
  <2> QED
    BY <1>1, <2>1, RestartEnds DEF TypeInv, Owned, Ended
<1> QED
  BY <1>3, <1>4, <1>5 DEF TypeInv

LEMMA TypeStep == TypeInv /\ [Next]_vars => TypeInv'
<1> SUFFICES ASSUME TypeInv, [Next]_vars PROVE TypeInv'
  OBVIOUS
<1>1. CASE \E r \in Requests, k \in Kinds, x \in Suffixes \cup {NoFile} : Submit(r, k, x)
  BY <1>1, SubmitTypes
<1>2. ASSUME NEW r \in Requests, RequestStep(r) PROVE TypeInv'
  <2>1. DraftStep(r) \/ ImportStep(r)
    BY <1>2 DEF RequestStep, DraftStep, ImportStep
  <2> QED
    BY <2>1, DraftTypes, ImportTypes
<1>3. CASE \E o \in Slots, op \in Ops, m \in page \cup {NoFile} : Begin(o, op, m)
  BY <1>3, BeginTypes
<1>4. ASSUME NEW o \in Slots, RunStep(o) PROVE TypeInv'
  <2>1. WorkStep(o) \/ RunFinish(o) \/ RunFail(o)
    BY <1>4 DEF RunStep, WorkStep
  <2> QED
    BY <2>1, WorkTypes, SessionTypes
<1>5. CASE FetchDraft \/ \E s \in Sessions : CreateSession(s) \/ CancelSession(s)
  BY <1>5, SessionTypes
<1>6. CASE Restart
  BY <1>6, RestartTypes
<1>7. CASE UNCHANGED vars
  BY <1>7 DEF vars, fileVars, inputVars, TypeInv, TypeOK, Sighted, Numbered, Owned, LastVersion,
              Holders, Busy
<1> QED
  BY <1>1, <1>2, <1>3, <1>4, <1>5, <1>6, <1>7 DEF Next

\* Type correctness, for any number of sessions, requests, files, operations and
\* restarts: among other things, the loop of _unique_stem ends, whatever imports
\* run at the same time, and no operation copies a draft that is not there.
THEOREM TypesCorrect == Spec => []TypeOK
<1>1. TypeInv => TypeOK
  BY DEF TypeInv
<1> QED
  BY <1>1, InitTypes, TypeStep, PTL DEF Spec

LEMMA TypesInvariant == Spec => []TypeInv
BY InitTypes, TypeStep, PTL DEF Spec

\* The version files are v001, v002, ... without a gap, whatever runs at the
\* same time: a copy takes a number that is one of theirs or the next one, and
\* versions are never removed.
THEOREM VersionsAreContiguous == Spec => []VersionsContiguous
<1>1. TypeInv => VersionsContiguous
  BY DEF TypeInv, Numbered, LastVersion, VersionsContiguous
<1> QED
  BY <1>1, TypesInvariant, PTL

-----------------------------------------------------------------------------
(* Patient clients: one thing at a time *)

\* Where a request of each kind may be.
PCsOf(kind) ==
  CASE kind = "none"        -> {"idle"}
    [] kind = "save"        -> {"check", "truncate", "write"} \cup Ended
    [] kind = "forced_save" -> {"truncate", "write"} \cup Ended
    [] kind \in {"checkpoint", "checkpoint_elsewhere"} ->
         {"check", "number", "copy", "announce"} \cup Ended
    [] kind = "import_text" -> {"stem", "source", "markdown", "report"} \cup Ended
    [] kind = "upload"      -> {"upload"} \cup Ended
    [] kind = "export"      -> {"exists", "render"} \cup Ended

Staged == \A r \in Requests : req[r].pc \in PCsOf(req[r].kind)

\* With patient clients at most one request and one operation are under way; an
\* operation shows in the status of its session, so a request beside it is an
\* import, or one that is about to be refused.
OneAtATime ==
  patient =>
    /\ \A r, q \in Requests : Active(r) /\ Active(q) => r = q
    /\ \A o, q \in Slots : Busy(o) /\ Busy(q) => o = q
    /\ \A o \in Slots : Busy(o) => status[SessionOf(o)] \in RunningStates
    /\ \A o \in Slots, r \in Requests :
         Busy(o) /\ Active(r) => req[r].pc \in {"check"} \cup ImportPCs

LEMMA StagedInit == Init => Staged
BY DEF Init, Staged, PCsOf

LEMMA StagedStep == TypeInv /\ Staged /\ [Next]_vars => Staged'
<1> SUFFICES ASSUME TypeInv, Staged, [Next]_vars PROVE Staged'
  OBVIOUS
<1>1. ASSUME NEW r \in Requests, NEW k \in Kinds, NEW x \in Suffixes \cup {NoFile}, Submit(r, k, x)
      PROVE  Staged'
  <2>1. /\ req'[r].pc = FirstStep(k) /\ req'[r].kind = k
        /\ \A q \in Requests \ {r} : req'[q] = req[q]
    BY <1>1 DEF Submit, TypeInv, TypeOK
  <2>2. FirstStep(k) \in PCsOf(k)
    BY WorkspaceAssumption DEF AllKinds, FirstStep, PCsOf
  <2> QED
    BY <2>1, <2>2 DEF Staged
<1>2. ASSUME NEW r \in Requests, RequestStep(r) PROVE Staged'
  <2>1. req[r].pc \in PCsOf(req[r].kind) /\ req[r].kind \in AllKinds \cup {"none"}
    BY DEF Staged, TypeInv, TypeOK, RequestRecords
  <2>2. PICK l, n, t : l \in RequestPCs /\ Moves(r, l, n, t) /\ l \in PCsOf(req[r].kind)
    <3> USE <2>1 DEF AllKinds, PCsOf, Ended, RequestPCs
    <3>1. CASE CheckRunning(r)
      BY <3>1, RequestEffects DEF CheckRunning
    <3>2. CASE TruncateDraft(r) \/ WriteDraft(r)
      BY <3>2, RequestEffects DEF TruncateDraft, WriteDraft
    <3>3. CASE NumberVersion(r) \/ CopyVersion(r) \/ AnnounceVersion(r)
      BY <3>3, RequestEffects DEF NumberVersion, CopyVersion, AnnounceVersion
    <3>4. CASE CheckDraft(r) \/ RenderDraft(r)
      BY <3>4, RequestEffects DEF CheckDraft, RenderDraft
    <3>5. CASE ImportStep(r)
      BY <3>5, RequestEffects
      DEF ImportStep, ChooseStem, WriteSource, WriteMarkdown, WriteReport, UploadFile
    <3> QED
      BY <1>2, <3>1, <3>2, <3>3, <3>4, <3>5 DEF RequestStep, ImportStep
  <2> QED
    BY <2>2 DEF Staged, Moves
<1>3. CASE Restart
  <2>1. \A r \in Requests : req[r].kind \in AllKinds \cup {"none"}
    BY DEF TypeInv, TypeOK, RequestRecords
  <2> QED
    BY <1>3, <2>1, RestartEnds DEF Staged, PCsOf, AllKinds, Ended
<1>4. CASE \/ \E o \in Slots, op \in Ops, m \in page \cup {NoFile} : Begin(o, op, m)
           \/ \E o \in Slots : RunStep(o)
           \/ \E s \in Sessions : CreateSession(s) \/ CancelSession(s)
           \/ FetchDraft \/ UNCHANGED vars
  BY <1>4 DEF Begin, RunStep, Look, RunNumber, RunCopy, RunRead, RunTruncate, RunWrite, RunExport,
              RunFinish, RunFail, CreateSession, CancelSession, FetchDraft, vars, Staged
<1> QED
  BY <1>1, <1>2, <1>3, <1>4 DEF Next

\* Whether clients are patient does not change.
LEMMA PatienceIsFixed == TypeInv /\ [Next]_vars => patient' = patient
<1> SUFFICES ASSUME TypeInv, [Next]_vars PROVE patient' = patient
  OBVIOUS
<1>1. ASSUME NEW r \in Requests, RequestStep(r) PROVE patient' = patient
  BY <1>1, DraftMoves, ImportMoves
  DEF RequestStep, DraftStep, ImportStep, DraftMove, ImportMove
<1>2. ASSUME NEW o \in Slots, RunStep(o) PROVE patient' = patient
  BY <1>2, WorkMoves DEF RunStep, WorkStep, WorkMove, RunFinish, RunFail
<1>3. CASE FetchDraft \/ Restart \/ UNCHANGED vars
  BY <1>3 DEF FetchDraft, Restart, vars
<1> QED
  BY <1>1, <1>2, <1>3 DEF Next, Submit, CreateSession, Begin, CancelSession

LEMMA OneAtATimeInit == Init => OneAtATime
BY DEF Init, OneAtATime, Active, Busy, NoRun

LEMMA OneAtATimeStep == TypeInv /\ Staged /\ OneAtATime /\ [Next]_vars => OneAtATime'
<1> SUFFICES ASSUME TypeInv, OneAtATime, [Next]_vars, patient PROVE OneAtATime'
  BY PatienceIsFixed DEF OneAtATime
<1> USE DEF OneAtATime, Active, Busy
<1>1. ASSUME NEW r \in Requests, NEW k \in Kinds, NEW x \in Suffixes \cup {NoFile}, Submit(r, k, x)
      PROVE  OneAtATime'
  <2>1. /\ UNCHANGED <<run, status, patient>> /\ AllAnswered /\ k # "forced_save"
        /\ k = "export" => ~SomeBusy
        /\ req'[r].pc = FirstStep(k) /\ \A q \in Requests \ {r} : req'[q] = req[q]
    BY <1>1 DEF Submit, TypeInv, TypeOK
  <2>2. k \notin {"forced_save", "export"} => FirstStep(k) \in {"check"} \cup ImportPCs
    BY WorkspaceAssumption DEF AllKinds, FirstStep, ImportPCs
  <2> QED
    BY <2>1, <2>2 DEF AllAnswered, SomeBusy
<1>2. ASSUME NEW r \in Requests, DraftStep(r) PROVE OneAtATime'
  <2>1. PICK l \in DraftPCs \cup Ended, n \in Nat, t \in Texts : DraftMove(r, l, n, t)
    BY <1>2, DraftMoves
  <2>2. (\E o \in Slots : Busy(o)) => l = "refused"
    <3>1. SUFFICES ASSUME NEW o \in Slots, Busy(o) PROVE l = "refused"
      OBVIOUS
    <3>2. req[r].pc = "check" /\ SomeRunning
      BY <1>2, <2>1, <3>1, SlotSession DEF DraftMove, DraftPCs, ImportPCs, Ended, SomeRunning
    <3>3. CheckRunning(r)
      BY <1>2, <3>2 DEF DraftStep, TruncateDraft, WriteDraft, NumberVersion, CopyVersion,
                        AnnounceVersion, CheckDraft, RenderDraft
    <3> QED
      BY <2>1, <3>2, <3>3, RequestEffects DEF DraftMove, Moves
  <2> QED
    BY <2>1, <2>2 DEF DraftMove, Moves, DraftPCs, Ended
<1>3. ASSUME NEW r \in Requests, ImportStep(r) PROVE OneAtATime'
  <2>1. PICK l \in {"source", "markdown", "report", "done"}, n \in Stems : ImportMove(r, l, n)
    BY <1>3, ImportMoves
  <2> QED
    BY <2>1 DEF ImportMove, Moves, ImportPCs, Ended
<1>4. ASSUME NEW o \in Slots, NEW op \in Ops, NEW m \in page \cup {NoFile}, Begin(o, op, m)
      PROVE  OneAtATime'
  <2>1. /\ UNCHANGED <<req, patient>> /\ AllAnswered /\ ~SomeBusy
        /\ status'[SessionOf(o)] = RunningStateOf[op]
        /\ \A q \in Slots \ {o} : run'[q] = run[q]
    BY <1>4, SlotSession DEF Begin, TypeInv, TypeOK
  <2>2. RunningStateOf[op] \in RunningStates
    BY WorkspaceAssumption, OperationStatuses
  <2> QED
    BY <2>1, <2>2 DEF AllAnswered, SomeBusy
<1>5. ASSUME NEW o \in Slots, WorkStep(o) PROVE OneAtATime'
  <2>1. PICK l \in WorkPCs, n \in Nat, seen \in Texts, text \in Texts : WorkMove(o, l, n, seen, text)
    BY <1>5, WorkMoves
  <2> QED
    BY <2>1 DEF WorkMove, RunMoves
<1>6. ASSUME NEW o \in Slots, RunFinish(o) \/ RunFail(o) PROVE OneAtATime'
  <2>1. /\ UNCHANGED <<req, patient>> /\ Busy(o) /\ run'[o].pc = "idle"
        /\ \A q \in Slots \ {o} : run'[q] = run[q]
    <3>1. run' = [run EXCEPT ![o] = NoRun(run[o].count)] /\ NoRun(run[o].count).pc = "idle"
      BY <1>6 DEF RunFinish, RunFail, GoIdle, NoRun
    <3> QED
      BY <1>6, <3>1 DEF RunFinish, RunFail, TypeInv, TypeOK
  <2> QED
    BY <2>1
<1>7. ASSUME NEW s \in Sessions, CreateSession(s) \/ CancelSession(s) PROVE OneAtATime'
  <2>1. /\ UNCHANGED <<req, run, patient>>
        /\ \A o \in Slots : SessionOf(o) = s => ~Busy(o)
        /\ \A q \in Sessions \ {s} : status'[q] = status[q]
    BY <1>7 DEF CreateSession, CancelSession, Working, TypeInv, TypeOK, RunningStates
  <2> QED
    BY <2>1, SlotSession
<1>8. CASE Restart
  BY <1>8, RestartEnds
<1>9. CASE FetchDraft \/ UNCHANGED vars
  BY <1>9 DEF FetchDraft, vars
<1> QED
  BY <1>1, <1>2, <1>3, <1>4, <1>5, <1>6, <1>7, <1>8, <1>9
  DEF Next, RequestStep, DraftStep, ImportStep, RunStep, WorkStep

-----------------------------------------------------------------------------
(* Versions of patient clients *)

\* Some version holds the text.
InVersions(text) == \E n \in DOMAIN versions : versions[n] = text

\* What RevisionKeepsText needs to be inductive: a copy under way has the next
\* number, and the draft stays what the operation has read, from its first look
\* to its own write.
Fresh ==
  patient =>
    /\ \A r \in Requests : req[r].pc = "copy" => req[r].num = LastVersion + 1
    /\ \A o \in Slots :
         /\ run[o].pc = "copy" => run[o].num = LastVersion + 1
         /\ run[o].pc = "look" => run[o].seen = {}
         /\ run[o].pc \in {"number", "copy"} /\ ActionOf(run[o].op) # "send_message" => run[o].seen = draft
         /\ run[o].pc = "read" => InVersions(draft)
         /\ run[o].pc = "truncate" /\ run[o].seen # {} => draft = run[o].seen /\ InVersions(draft)

PatientInv == TypeInv /\ Staged /\ OneAtATime /\ Fresh

LEMMA FreshInit == Init => Fresh
BY DEF Init, Fresh, NoRun

LEMMA FreshStep == PatientInv /\ [Next]_vars => Fresh'
<1> SUFFICES ASSUME PatientInv, [Next]_vars, patient PROVE Fresh'
  BY PatienceIsFixed DEF PatientInv, Fresh
<1> USE DEF PatientInv
<1>1. ASSUME NEW r \in Requests, NEW k \in Kinds, NEW x \in Suffixes \cup {NoFile}, Submit(r, k, x)
      PROVE  Fresh'
  <2>1. /\ UNCHANGED <<run, draft, versions, patient>>
        /\ req'[r].pc = FirstStep(k) /\ \A q \in Requests \ {r} : req'[q] = req[q]
    BY <1>1 DEF Submit, fileVars, TypeInv, TypeOK
  <2>2. FirstStep(k) # "copy"
    BY WorkspaceAssumption DEF AllKinds, FirstStep
  <2> QED
    BY <2>1, <2>2 DEF Fresh, LastVersion, InVersions
<1>2. ASSUME NEW r \in Requests, DraftStep(r) PROVE Fresh'
  <2>1. PICK l \in DraftPCs \cup Ended, n \in Nat, t \in Texts : DraftMove(r, l, n, t)
    BY <1>2, DraftMoves
  <2>2. CASE draft' = draft /\ versions' = versions
    BY <2>1, <2>2 DEF DraftMove, Moves, Fresh, LastVersion, InVersions
  <2>3. CASE req[r].pc # "check"
    <3>1. \A o \in Slots : run'[o].pc = "idle"
      BY <2>1, <2>3 DEF DraftMove, DraftPCs, OneAtATime, Active, Busy, ImportPCs, Ended
    <3>2. \A q \in Requests \ {r} : req'[q].pc # "copy"
      BY <2>1 DEF DraftMove, Moves, DraftPCs, OneAtATime, Active, Ended
    <3>3. l = "copy" => n = LastVersion' + 1
      <4>1. NumberVersion(r) \/ l # "copy"
        BY <1>2, <2>1, RequestEffects DEF DraftStep, DraftMove, Moves
      <4>2. NumberVersion(r) => versions' = versions
        BY DEF NumberVersion, fileVars
      <4> QED
        BY <2>1, <4>1, <4>2 DEF DraftMove, LastVersion
    <3> QED
      BY <2>1, <3>1, <3>2, <3>3 DEF DraftMove, Moves, Fresh
  <2>4. req[r].pc = "check" => draft' = draft /\ versions' = versions
    BY <1>2 DEF DraftStep, CheckRunning, TruncateDraft, WriteDraft, NumberVersion, CopyVersion,
                AnnounceVersion, CheckDraft, RenderDraft, fileVars
  <2> QED
    BY <2>2, <2>3, <2>4
<1>3. ASSUME NEW r \in Requests, ImportStep(r) PROVE Fresh'
  <2>1. PICK l \in {"source", "markdown", "report", "done"}, n \in Stems : ImportMove(r, l, n)
    BY <1>3, ImportMoves
  <2> QED
    BY <2>1 DEF ImportMove, Moves, fileVars, Fresh, LastVersion, InVersions
<1>4. ASSUME NEW o \in Slots, NEW op \in Ops, NEW m \in page \cup {NoFile}, Begin(o, op, m)
      PROVE  Fresh'
  <2>1. /\ UNCHANGED <<draft, versions, req, patient>> /\ ~SomeBusy
        /\ run'[o].pc \notin {"number", "copy", "read"} /\ run'[o].seen = {}
        /\ \A q \in Slots \ {o} : run'[q] = run[q]
    BY <1>4 DEF Begin, EntryOf, fileVars, TypeInv, TypeOK
  <2> QED
    BY <2>1 DEF SomeBusy, Busy, Fresh, LastVersion
<1>5. ASSUME NEW o \in Slots, WorkStep(o) PROVE Fresh'
  <2>1. PICK l \in WorkPCs, n \in Nat, seen \in Texts, text \in Texts : WorkMove(o, l, n, seen, text)
    BY <1>5, WorkMoves
  <2>2. /\ UNCHANGED <<req, patient>> /\ \A q \in Slots \ {o} : run'[q].pc = "idle"
        /\ \A r \in Requests : req'[r].pc # "copy"
    BY <2>1 DEF WorkMove, RunMoves, OneAtATime, Active, Busy, ImportPCs, Ended
  <2>3. SUFFICES
          /\ run'[o].pc = "copy" => run'[o].num = LastVersion' + 1
          /\ run'[o].pc = "look" => run'[o].seen = {}
          /\ run'[o].pc \in {"number", "copy"} /\ ActionOf(run'[o].op) # "send_message" =>
               run'[o].seen = draft'
          /\ run'[o].pc = "read" => InVersions(draft)'
          /\ run'[o].pc = "truncate" /\ run'[o].seen # {} =>
               draft' = run'[o].seen /\ InVersions(draft)'
    BY <2>2 DEF Fresh
  <2>4. CASE Look(o)
    BY <2>4, OperationEffects DEF Look, Fresh, fileVars, RunMoves
  <2>5. CASE RunNumber(o)
    BY <2>5, OperationEffects DEF RunNumber, Fresh, fileVars, RunMoves, LastVersion, NextVersion
  <2>6. CASE RunCopy(o)
    <3>1. draft' = draft /\ run[o].num \in DOMAIN versions' /\ versions'[run[o].num] = draft
      BY <2>6 DEF RunCopy, StoreVersion
    <3>2. InVersions(draft)'
      BY <3>1 DEF InVersions
    <3> QED
      BY <2>6, <3>1, <3>2, OperationEffects DEF RunCopy, Fresh, RunMoves
  <2>7. CASE RunRead(o)
    BY <2>7, OperationEffects DEF RunRead, Fresh, fileVars, RunMoves, InVersions
  <2>8. CASE RunTruncate(o) \/ RunWrite(o) \/ RunExport(o)
    BY <2>8, OperationEffects DEF RunMoves
  <2> QED
    BY <1>5, <2>4, <2>5, <2>6, <2>7, <2>8 DEF WorkStep
<1>6. ASSUME NEW o \in Slots, RunFinish(o) \/ RunFail(o) PROVE Fresh'
  <2>1. /\ UNCHANGED <<draft, versions, req, patient>> /\ run'[o].pc = "idle"
        /\ \A q \in Slots \ {o} : run'[q] = run[q]
    <3>1. run' = [run EXCEPT ![o] = NoRun(run[o].count)] /\ NoRun(run[o].count).pc = "idle"
      BY <1>6 DEF RunFinish, RunFail, GoIdle, NoRun
    <3> QED
      BY <1>6, <3>1 DEF RunFinish, RunFail, fileVars, TypeInv, TypeOK
  <2> QED
    BY <2>1 DEF Fresh, LastVersion, InVersions
<1>7. CASE Restart
  BY <1>7, RestartEnds DEF Fresh, Ended
<1>8. CASE FetchDraft \/ UNCHANGED vars \/ \E s \in Sessions : CreateSession(s) \/ CancelSession(s)
  BY <1>8 DEF FetchDraft, vars, CreateSession, CancelSession, fileVars, Fresh, LastVersion, InVersions
<1> QED
  BY <1>1, <1>2, <1>3, <1>4, <1>5, <1>6, <1>7, <1>8
  DEF Next, RequestStep, DraftStep, ImportStep, RunStep, WorkStep

LEMMA PatientInvariant == Spec => []PatientInv
<1>1. Init => PatientInv
  BY InitTypes, StagedInit, OneAtATimeInit, FreshInit DEF PatientInv
<1>2. PatientInv /\ [Next]_vars => PatientInv'
  BY TypeStep, StagedStep, OneAtATimeStep, FreshStep DEF PatientInv
<1> QED
  BY <1>1, <1>2, PTL DEF Spec

\* "Before meaningful revisions, the current draft should be checkpointed": with
\* patient clients, whatever the sessions and the requests of the task, when an
\* operation is about to replace a draft that it revises, the draft is still the
\* one that it read, and a version holds it.
THEOREM RevisionsKeepText == Spec => []RevisionKeepsText
<1>1. PatientInv => RevisionKeepsText
  BY DEF PatientInv, Fresh, InVersions, RevisionKeepsText
<1> QED
  BY <1>1, PatientInvariant, PTL

\* With patient clients no checkpoint, of the user or of the agent, replaces
\* another: whoever is about to copy has a number that no file has.
THEOREM VersionsAreKept == Spec => VersionsKept
<1> DEFINE Keeps == patient => \A n \in DOMAIN versions :
                      n \in DOMAIN versions' /\ versions'[n] = versions[n]
<1>1. ASSUME PatientInv, [Next]_vars PROVE Keeps
  <2> SUFFICES ASSUME patient PROVE Keeps
    OBVIOUS
  <2>1. LastVersion + 1 \notin DOMAIN versions
    BY <1>1 DEF PatientInv, TypeInv, Numbered
  <2>2. \A t : versions' = StoreVersion(LastVersion + 1, t) => Keeps
    BY <2>1 DEF StoreVersion
  <2>3. versions' = versions \/ \E t : versions' = StoreVersion(LastVersion + 1, t)
    <3>1. ASSUME NEW r \in Requests, RequestStep(r)
          PROVE  versions' = versions \/ \E t : versions' = StoreVersion(LastVersion + 1, t)
      BY <1>1, <3>1, DraftMoves, ImportMoves
      DEF PatientInv, Fresh, RequestStep, DraftStep, ImportStep, DraftMove, ImportMove, fileVars
    <3>2. ASSUME NEW o \in Slots, RunStep(o)
          PROVE  versions' = versions \/ \E t : versions' = StoreVersion(LastVersion + 1, t)
      BY <1>1, <3>2, WorkMoves
      DEF PatientInv, Fresh, RunStep, WorkStep, WorkMove, RunFinish, RunFail, fileVars
    <3>3. CASE FetchDraft \/ Restart \/ UNCHANGED vars
      BY <3>3 DEF FetchDraft, Restart, vars, fileVars
    <3> QED
      BY <1>1, <3>1, <3>2, <3>3
      DEF Next, Submit, CreateSession, Begin, CancelSession, fileVars
  <2> QED
    BY <2>2, <2>3
<1>2. PatientInv /\ [Next]_vars => [Keeps]_vars
  BY <1>1
<1> QED
  BY <1>2, PatientInvariant, PTL DEF Spec, VersionsKept

-----------------------------------------------------------------------------
(* Copies of the draft *)

\* What is about to be written is not empty, and the draft is empty only while
\* somebody writes it (unless a restart cut the write short).
Writing == \/ \E r \in Requests : req[r].pc = "write"
           \/ \E o \in Slots : run[o].pc = "write"

Whole ==
  /\ \A o \in Slots : Busy(o) => run[o].text # {}
  /\ \A r \in Requests :
       req[r].kind \in {"save", "forced_save"} /\ Active(r) => req[r].text # {}
  /\ patient /\ restarts = 0 /\ draft = {} => Writing
  /\ CopiesComplete

WholeInv == PatientInv /\ Whole

LEMMA WholeInit == Init => Whole
BY DEF Init, Whole, CopiesComplete, Active, Busy, NoRun, NoText

\* Nothing but the request that is at work here writes, and no operation.
LEMMA NobodyElseWrites ==
  ASSUME PatientInv, patient, NEW r \in Requests, req[r].pc \in DraftPCs \ {"check", "write"}
  PROVE  ~Writing
BY DEF PatientInv, OneAtATime, Writing, Active, Busy, DraftPCs, ImportPCs, Ended

LEMMA WholeStep == WholeInv /\ [Next]_vars => Whole'
<1> SUFFICES ASSUME WholeInv, [Next]_vars PROVE Whole'
  OBVIOUS
<1> USE DEF WholeInv, PatientInv, Busy
<1>0. restarts \in Nat /\ restarts' \in Nat /\ (restarts' = 0 => restarts = 0)
      /\ patient' = patient
  <2>1. TypeOK /\ TypeOK'
    BY TypeStep DEF TypeInv
  <2>2. restarts' = restarts \/ Restart
    BY PatienceIsFixed, DraftMoves, ImportMoves, WorkMoves
    DEF Next, vars, Submit, RequestStep, DraftStep, ImportStep, DraftMove, ImportMove, FetchDraft,
        CreateSession, Begin, RunStep, WorkStep, WorkMove, RunFinish, RunFail, CancelSession
  <2> QED
    BY <2>1, <2>2, PatienceIsFixed DEF TypeOK, Restart
<1>1. ASSUME NEW r \in Requests, NEW k \in Kinds, NEW x \in Suffixes \cup {NoFile}, Submit(r, k, x)
      PROVE  Whole'
  <2>1. /\ UNCHANGED <<run, draft, versions>> /\ req[r].pc = "idle"
        /\ req'[r].pc = FirstStep(k) /\ req'[r].kind = k
        /\ k \in {"save", "forced_save"} => req'[r].text # {}
        /\ \A q \in Requests \ {r} : req'[q] = req[q]
    BY <1>1 DEF Submit, fileVars, TypeInv, TypeOK
  <2>2. FirstStep(k) \notin Ended
    BY WorkspaceAssumption DEF AllKinds, FirstStep, Ended
  <2> QED
    BY <1>0, <2>1, <2>2 DEF Whole, CopiesComplete, Writing, Active, Ended
<1>2. ASSUME NEW r \in Requests, DraftStep(r) PROVE Whole'
  <2>1. PICK l \in DraftPCs \cup Ended, n \in Nat, t \in Texts : DraftMove(r, l, n, t)
    BY <1>2, DraftMoves
  <2>2. /\ run' = run /\ Moves(r, l, n, t)
        /\ req[r].kind \in {"save", "forced_save"} => t = req[r].text \/ l = "done"
    BY <1>2, <2>1, RequestEffects
    DEF DraftMove, DraftStep, Moves, Staged, PCsOf, RenderDraft, Ended
  <2>3. \A q \in Requests :
          req'[q].kind \in {"save", "forced_save"} /\ Active(q)' => req'[q].text # {}
    BY <2>1, <2>2 DEF DraftMove, Moves, Whole, Active, DraftPCs, Ended
  <2>4. ASSUME patient, restarts = 0, draft' = {} PROVE Writing'
    <3>1. CASE TruncateDraft(r)
      BY <2>2, <3>1, RequestEffects DEF Moves, Writing
    <3>2. CASE WriteDraft(r)
      BY <2>4, <3>2 DEF WriteDraft, Staged, PCsOf, Whole, Active, Ended,
                        TypeInv, TypeOK, RequestRecords, AllKinds
    <3>3. CASE ~TruncateDraft(r) /\ ~WriteDraft(r)
      <4>1. draft' = draft /\ req[r].pc # "write"
        BY <1>2, <3>3 DEF DraftStep, CheckRunning, NumberVersion, CopyVersion, AnnounceVersion,
                          CheckDraft, RenderDraft, fileVars
      <4> QED
        BY <2>2, <2>4, <4>1 DEF Whole, Writing, Moves
    <3> QED
      BY <3>1, <3>2, <3>3
  <2>5. ASSUME patient, restarts = 0 PROVE \A m \in DOMAIN versions' : versions'[m] # {}
    <3>1. versions' = versions \/ (req[r].pc = "copy" /\ versions' = StoreVersion(req[r].num, draft))
      BY <2>1 DEF DraftMove
    <3>2. req[r].pc = "copy" => draft # {}
      BY <2>5, NobodyElseWrites DEF Whole, DraftPCs
    <3> QED
      BY <2>5, <3>1, <3>2 DEF Whole, CopiesComplete, StoreVersion
  <2>6. ASSUME patient, restarts = 0, req[r].kind = "export", l = "done" PROVE t # {}
    <3>1. RenderDraft(r)
      BY <1>2, <2>1, <2>2, <2>6, RequestEffects
      DEF DraftMove, DraftStep, Moves, Staged, PCsOf, Ended, WriteDraft, AnnounceVersion,
          CheckRunning, TruncateDraft, NumberVersion, CopyVersion, CheckDraft
    <3>2. draft # NoText /\ draft # {} /\ req[r].pc = "render"
      BY <2>6, <3>1, NobodyElseWrites DEF RenderDraft, TypeInv, Sighted, Whole, DraftPCs
    <3> QED
      BY <2>2, <3>1, <3>2, RequestEffects DEF Moves, ReadText
  <2> QED
    BY <1>0, <2>2, <2>3, <2>4, <2>5, <2>6 DEF Whole, CopiesComplete, Moves
<1>3. ASSUME NEW r \in Requests, ImportStep(r) PROVE Whole'
  <2>1. PICK l \in {"source", "markdown", "report", "done"}, n \in Stems : ImportMove(r, l, n)
    BY <1>3, ImportMoves
  <2>2. req[r].kind \in {"import_text", "upload"}
    BY <2>1 DEF ImportMove, ImportPCs, Staged, PCsOf, Ended, TypeInv, TypeOK, RequestRecords, AllKinds
  <2> QED
    BY <1>0, <2>1, <2>2
    DEF ImportMove, Moves, fileVars, Whole, CopiesComplete, Writing, Active, ImportPCs
<1>4. ASSUME NEW o \in Slots, NEW op \in Ops, NEW m \in page \cup {NoFile}, Begin(o, op, m)
      PROVE  Whole'
  <2>1. /\ UNCHANGED <<draft, versions, req>> /\ ~Busy(o) /\ run'[o].text # {}
        /\ \A q \in Slots \ {o} : run'[q] = run[q]
    BY <1>4 DEF Begin, fileVars, TypeInv, TypeOK
  <2> QED
    BY <1>0, <2>1 DEF Whole, CopiesComplete, Writing, Active
<1>5. ASSUME NEW o \in Slots, WorkStep(o) PROVE Whole'
  <2>1. PICK l \in WorkPCs, n \in Nat, seen \in Texts, text \in Texts : WorkMove(o, l, n, seen, text)
    BY <1>5, WorkMoves
  <2>2. req' = req /\ run'[o].text # {} /\ \A q \in Slots \ {o} : run'[q] = run[q]
    <3>1. run[o].text # {} /\ Revised(o) # {} /\ draft \cup {Mark(o)} # {}
      BY <2>1 DEF Whole, WorkMove, Revised
    <3> QED
      BY <1>5, <2>1, <3>1, OperationEffects DEF WorkStep, WorkMove, RunMoves
  <2>3. ASSUME patient, restarts = 0, draft' = {} PROVE Writing'
    <3>1. CASE RunTruncate(o)
      BY <3>1, OperationEffects DEF RunMoves, Writing
    <3>2. CASE RunWrite(o)
      BY <2>3, <3>2 DEF RunWrite, Whole
    <3>3. CASE ~RunTruncate(o) /\ ~RunWrite(o)
      <4>1. draft' = draft /\ run[o].pc # "write"
        BY <1>5, <3>3 DEF WorkStep, Look, RunNumber, RunCopy, RunRead, RunExport, fileVars
      <4> QED
        BY <2>2, <2>3, <4>1 DEF Whole, Writing
    <3> QED
      BY <3>1, <3>2, <3>3
  <2>4. ASSUME patient, restarts = 0 PROVE \A m \in DOMAIN versions' : versions'[m] # {}
    <3>1. versions' = versions \/ (run[o].pc = "copy" /\ versions' = StoreVersion(run[o].num, draft))
      BY <2>1 DEF WorkMove
    <3>2. run[o].pc = "copy" => draft # {}
      BY <2>4 DEF Whole, Writing, OneAtATime, Active, ImportPCs, Ended
    <3> QED
      BY <2>4, <3>1, <3>2 DEF Whole, CopiesComplete, StoreVersion
  <2> QED
    BY <1>0, <2>2, <2>3, <2>4 DEF Whole, CopiesComplete, Active
<1>6. ASSUME NEW o \in Slots, RunFinish(o) \/ RunFail(o) PROVE Whole'
  <2>1. /\ UNCHANGED <<draft, versions, req>> /\ run'[o].pc = "idle" /\ run[o].pc # "write"
        /\ \A q \in Slots \ {o} : run'[q] = run[q]
    <3>1. run' = [run EXCEPT ![o] = NoRun(run[o].count)] /\ NoRun(run[o].count).pc = "idle"
      BY <1>6 DEF RunFinish, RunFail, GoIdle, NoRun
    <3> QED
      BY <1>6, <3>1 DEF RunFinish, RunFail, fileVars, TypeInv, TypeOK
  <2> QED
    BY <1>0, <2>1 DEF Whole, CopiesComplete, Writing, Active
<1>7. CASE Restart
  <2>1. restarts' # 0
    BY <1>7, <1>0 DEF Restart
  <2> QED
    BY <1>7, <2>1, RestartEnds DEF Whole, CopiesComplete, Active
<1>8. CASE FetchDraft \/ UNCHANGED vars \/ \E s \in Sessions : CreateSession(s) \/ CancelSession(s)
  BY <1>8, <1>0
  DEF FetchDraft, vars, CreateSession, CancelSession, fileVars, Whole, CopiesComplete, Writing, Active
<1> QED
  BY <1>1, <1>2, <1>3, <1>4, <1>5, <1>6, <1>7, <1>8
  DEF Next, RequestStep, DraftStep, ImportStep, RunStep, WorkStep

\* Every version and every exported document is of a whole draft, as long as
\* clients are patient and no restart cut a write short.
THEOREM CopiesAreComplete == Spec => []CopiesComplete
<1>1. Init => WholeInv
  BY InitTypes, StagedInit, OneAtATimeInit, FreshInit, WholeInit DEF WholeInv, PatientInv
<1>2. WholeInv /\ [Next]_vars => WholeInv'
  BY TypeStep, StagedStep, OneAtATimeStep, FreshStep, WholeStep DEF WholeInv, PatientInv
<1>3. WholeInv => CopiesComplete
  BY DEF WholeInv, Whole
<1> QED
  BY <1>1, <1>2, <1>3, PTL DEF Spec

-----------------------------------------------------------------------------
(* Imports *)

\* No two imports that write step by step run at the same time.
Serial == patient \/ \A r \in Requests : req[r].kind # "import_text"

\* An import under way has found its stem free, and holds what it wrote there.
Kept ==
  Serial =>
    \A r \in Requests :
      /\ req[r].pc \in {"source", "markdown", "report"} => report[req[r].num] = NoFile
      /\ req[r].pc \in {"markdown", "report"} => source[req[r].num][req[r].suffix] = r
      /\ req[r].pc = "report" /\ req[r].suffix \in Convertible => markdown[req[r].num] = r
      /\ req[r].kind \in {"import_text", "upload"} /\ req[r].pc = "done" =>
           req[r].num \in Stems /\ req[r].suffix \in Suffixes

KeptInv == TypeInv /\ Staged /\ OneAtATime /\ Kept /\ ImportsKept

LEMMA KeptInit == Init => Kept /\ ImportsKept
BY DEF Init, Kept, ImportsKept

\* Requests that are not imports, and operations, leave the inputs alone.
LEMMA KeptFrame ==
  ASSUME KeptInv, UNCHANGED <<inputVars, patient>>,
         \A r \in Requests :
           \/ req'[r] = req[r]
           \/ /\ req'[r].pc \notin {"source", "markdown", "report"}
              /\ req'[r].kind \in {"import_text", "upload"} => req'[r].pc # "done"
              /\ req[r].kind \in {"none", req'[r].kind}
  PROVE  Kept' /\ ImportsKept'
<1>1. Serial' => Serial
  BY DEF Serial
<1>2. Kept'
  BY <1>1 DEF KeptInv, Kept, inputVars
<1>3. ImportsKept'
  BY <1>1 DEF KeptInv, ImportsKept, Serial, inputVars
<1> QED
  BY <1>2, <1>3

\* A step of an import writes at a stem where no import that is done has files.
LEMMA KeptImport == ASSUME KeptInv, NEW r \in Requests, ImportStep(r) PROVE Kept' /\ ImportsKept'
<1> USE DEF KeptInv
<1>1. PICK l \in {"source", "markdown", "report", "done"}, n \in Stems : ImportMove(r, l, n)
  BY ImportMoves
<1>2. /\ Moves(r, l, n, req[r].text) /\ patient' = patient
      /\ req[r].pc \in ImportPCs /\ req[r].suffix \in Suffixes
  BY <1>1 DEF ImportMove, TypeInv, Owned, ImportPCs
<1> SUFFICES ASSUME Serial PROVE Kept' /\ ImportsKept'
  <2>1. Serial' => Serial
    BY <1>2 DEF Serial, Moves
  <2> QED
    BY <2>1 DEF Kept, ImportsKept, Serial
<1>3. \A q \in Requests \ {r} : req[q].pc \notin {"source", "markdown", "report"}
  <2>1. SUFFICES ASSUME NEW q \in Requests \ {r}, req[q].pc \in {"source", "markdown", "report"}
                 PROVE  FALSE
    OBVIOUS
  <2>2. req[q].kind = "import_text"
    BY <2>1 DEF Staged, PCsOf, Ended, TypeInv, TypeOK, RequestRecords, AllKinds
  <2> QED
    BY <1>2, <2>1, <2>2 DEF Serial, OneAtATime, Active, ImportPCs, Ended
<1>4. report[n] = NoFile
  BY <1>1, <1>2 DEF ImportMove, ImportPCs, Occupied, Kept
<1>5. NoFile \notin Requests
  BY WorkspaceAssumption DEF Marks
<1>6. ASSUME NEW q \in Requests, q # r,
             req[q].kind \in {"import_text", "upload"}, req[q].pc = "done"
      PROVE  /\ source'[req[q].num][req[q].suffix] = q
             /\ req[q].suffix \in Convertible => markdown'[req[q].num] = q
             /\ report'[req[q].num] = q
             /\ req[q].num \in Stems /\ req[q].suffix \in Suffixes
  <2>1. /\ source[req[q].num][req[q].suffix] = q
        /\ req[q].suffix \in Convertible => markdown[req[q].num] = q
        /\ report[req[q].num] = q
        /\ req[q].num \in Stems /\ req[q].suffix \in Suffixes
    BY <1>6 DEF Kept, ImportsKept, Serial
  <2>2. req[q].num # n
    BY <1>4, <1>5, <2>1
  <2> QED
    BY <1>1, <2>1, <2>2 DEF ImportMove, TypeInv, TypeOK
<1>7. /\ l \in {"source", "markdown", "report"} => report'[n] = NoFile
      /\ l \in {"markdown", "report", "done"} => source'[n][req[r].suffix] = r
      /\ l \in {"report", "done"} /\ req[r].suffix \in Convertible => markdown'[n] = r
      /\ l = "done" => report'[n] = r
  <2>0. /\ source \in [Stems -> [Suffixes -> Requests \cup {NoFile}]]
        /\ markdown \in [Stems -> Requests \cup {NoFile}]
        /\ report \in [Stems -> Requests \cup {NoFile}]
    BY DEF TypeInv, TypeOK
  <2>1. CASE ChooseStem(r)
    <3>1. l = "source" /\ report' = report
      BY <1>2, <2>1, RequestEffects DEF Moves, ChooseStem, inputVars
    <3> QED
      BY <1>4, <3>1
  <2>2. CASE UploadFile(r)
    <3>1. l = "done" /\ n = UniqueStem(req[r].suffix)
      BY <1>2, <2>2, RequestEffects DEF Moves
    <3> QED
      BY <1>2, <2>0, <2>2, <3>1 DEF UploadFile
  <2>3. CASE WriteSource(r)
    <3>1. /\ n = req[r].num /\ l \in {"markdown", "report"}
          /\ l = "report" => req[r].suffix \notin Convertible
      BY <1>2, <2>3, RequestEffects DEF Moves
    <3> QED
      BY <1>2, <1>4, <2>0, <2>3, <3>1 DEF WriteSource
  <2>4. CASE WriteMarkdown(r)
    <3>1. n = req[r].num /\ l = "report"
      BY <1>2, <2>4, RequestEffects DEF Moves
    <3> QED
      BY <1>4, <2>0, <2>4, <3>1 DEF WriteMarkdown, Kept
  <2>5. CASE WriteReport(r)
    <3>1. n = req[r].num /\ l = "done"
      BY <1>2, <2>5, RequestEffects DEF Moves
    <3> QED
      BY <2>0, <2>5, <3>1 DEF WriteReport, Kept
  <2> QED
    BY <2>1, <2>2, <2>3, <2>4, <2>5 DEF ImportStep
<1>8. /\ req'[r].pc = l /\ req'[r].num = n /\ req'[r].suffix = req[r].suffix
      /\ \A q \in Requests \ {r} : req'[q] = req[q]
  BY <1>2 DEF Moves
<1>9. Kept'
  BY <1>2, <1>3, <1>6, <1>7, <1>8 DEF Kept
<1>10. ImportsKept'
  BY <1>6, <1>7, <1>8 DEF ImportsKept
<1> QED
  BY <1>9, <1>10

LEMMA KeptStep == KeptInv /\ [Next]_vars => Kept' /\ ImportsKept'
<1> SUFFICES ASSUME KeptInv, [Next]_vars PROVE Kept' /\ ImportsKept'
  OBVIOUS
<1>1. ASSUME NEW r \in Requests, NEW k \in Kinds, NEW x \in Suffixes \cup {NoFile}, Submit(r, k, x)
      PROVE  Kept' /\ ImportsKept'
  <2>1. /\ UNCHANGED <<inputVars, patient>> /\ req[r].pc = "idle"
        /\ req'[r].pc = FirstStep(k) /\ \A q \in Requests \ {r} : req'[q] = req[q]
    BY <1>1 DEF Submit, KeptInv, TypeInv, TypeOK
  <2>2. FirstStep(k) \notin {"source", "markdown", "report", "done"}
    BY WorkspaceAssumption DEF AllKinds, FirstStep
  <2>3. req[r].kind = "none"
    BY <2>1 DEF KeptInv, Staged, PCsOf, Ended, TypeInv, TypeOK, RequestRecords, AllKinds
  <2> QED
    BY <2>1, <2>2, <2>3, KeptFrame
<1>2. ASSUME NEW r \in Requests, DraftStep(r) PROVE Kept' /\ ImportsKept'
  <2>1. PICK l \in DraftPCs \cup Ended, n \in Nat, t \in Texts : DraftMove(r, l, n, t)
    BY <1>2, DraftMoves DEF KeptInv
  <2>2. req[r].kind \notin {"import_text", "upload"}
    BY <2>1 DEF DraftMove, DraftPCs, KeptInv, Staged, PCsOf, Ended
  <2> QED
    BY <2>1, <2>2, KeptFrame DEF DraftMove, Moves, DraftPCs, Ended
<1>3. ASSUME NEW r \in Requests, ImportStep(r) PROVE Kept' /\ ImportsKept'
  BY <1>3, KeptImport
<1>4. CASE Restart
  <2>1. UNCHANGED <<inputVars, patient>>
    BY <1>4 DEF Restart
  <2> QED
    BY <1>4, <2>1, RestartEnds, KeptFrame DEF KeptInv, Ended
<1>5. ASSUME NEW o \in Slots, WorkStep(o) PROVE Kept' /\ ImportsKept'
  BY <1>5, WorkMoves, KeptFrame DEF WorkMove, KeptInv
<1>6. CASE \/ \E o \in Slots, op \in Ops, m \in page \cup {NoFile} : Begin(o, op, m)
           \/ \E o \in Slots : RunFinish(o) \/ RunFail(o)
           \/ \E s \in Sessions : CreateSession(s) \/ CancelSession(s)
           \/ FetchDraft \/ UNCHANGED vars
  BY <1>6, KeptFrame
  DEF Begin, RunFinish, RunFail, CreateSession, CancelSession, FetchDraft, vars
<1> QED
  BY <1>1, <1>2, <1>3, <1>4, <1>5, <1>6
  DEF Next, RequestStep, DraftStep, ImportStep, RunStep, WorkStep

\* The source, the Markdown and the report of an import stay its own: uploads of
\* the same name, however many, never share a stem, and neither do the text
\* imports of patient clients.
THEOREM ImportsStayApart == Spec => []ImportsKept
<1>1. Init => KeptInv
  BY InitTypes, StagedInit, OneAtATimeInit, KeptInit DEF KeptInv
<1>2. KeptInv /\ [Next]_vars => KeptInv'
  BY TypeStep, StagedStep, OneAtATimeStep, KeptStep DEF KeptInv
<1>3. KeptInv => ImportsKept
  BY DEF KeptInv
<1> QED
  BY <1>1, <1>2, <1>3, PTL DEF Spec

=============================================================================
