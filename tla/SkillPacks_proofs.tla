--------------------------- MODULE SkillPacks_proofs ---------------------------
(***************************************************************************)
(* What publishing guarantees for any number of requests and versions.     *)
(* The inductive invariant says which number an actor holds: never more    *)
(* than one above the latest row, and from the rename on exactly that one, *)
(* by one actor at a time; and that requests wait for the bootstrap.       *)
(***************************************************************************)
EXTENDS SkillPacks, FiniteSetTheorems, TLAPS

Numbered(p) == pc[p] \in {"chosen", "copied", "installed", "undoing"}
AtRest(p) == pc[p] \in Ended \cup {"idle"}

NumberInv ==
  /\ \A p \in Actors : Numbered(p) => version[p] \in 1..(latest + 1) \cap Versions
  /\ \A p \in Actors : pc[p] \in {"copied", "installed", "undoing"} => copy[p] \in Contents
  /\ \A p \in Actors : Owns(p) => /\ version[p] = latest + 1
                                   /\ published[version[p]] = copy[p]
  /\ \A p, q \in Actors : Owns(p) /\ Owns(q) => p = q

\* The bootstrap comes first, and nobody works on a pack or a draft that is not
\* there.
BootInv ==
  /\ pc[Boot] # "idle"
  /\ pc[Boot] # "done" => seed # Absent
  /\ \A p \in Publishers : pc[p] \notin BootPCs
  /\ ~Up => \A p \in Publishers : AtRest(p)
  /\ ~known => /\ latest = 0
               /\ pc[Boot] \in Ended \cup {"boot"}
               /\ \A p \in Publishers : AtRest(p)
  /\ \A p \in Actors : pc[p] \in {"validated", "chosen"} => draft \in Contents

Inv == TypeOK /\ VersionsSound /\ NumberInv /\ BootInv

\* The rows counted by _next_version are the versions up to the latest.
LEMMA NextNumber ==
  ASSUME TypeOK, VersionsSound
  PROVE  Cardinality({v \in Versions : rows[v] # Absent}) = latest
<1>1. {v \in Versions : rows[v] # Absent} = 1..latest
  BY PackAssumption DEF TypeOK, VersionsSound, Versions
<1>2. latest \in Nat
  BY PackAssumption DEF TypeOK
<1>3. Cardinality(1..latest) = latest
  BY <1>2, FS_Interval
<1> QED BY <1>1, <1>3

LEMMA InitInv == Init => Inv
<1> SUFFICES ASSUME Init PROVE Inv
  OBVIOUS
<1> USE PackAssumption DEF Init, PCs, BootPCs, Ended, Versions, Actors
<1>1. TypeOK
  <2>1. pc \in [Actors -> PCs \cup BootPCs]
    BY SMT
  <2>2. version \in [Actors -> 0..MaxVersions] /\ copy \in [Actors -> Contents \cup {Absent}]
    OBVIOUS
  <2>3. latest \in 0..MaxVersions /\ restarts \in 0..MaxRestarts
    OBVIOUS
  <2> QED BY <2>1, <2>2, <2>3 DEF TypeOK
<1>2. VersionsSound
  BY DEF VersionsSound
<1>3. \A p \in Actors : ~Numbered(p) /\ ~Owns(p) /\ pc[p] \notin {"validated", "chosen"}
  BY DEF Numbered, Owns
<1>4. NumberInv
  BY <1>3 DEF NumberInv, Numbered
<1>5. \A p \in Publishers : pc[p] = "idle"
  OBVIOUS
<1>6. pc[Boot] = IF seed = Absent THEN "done" ELSE "boot"
  OBVIOUS
<1>7. BootInv
  BY <1>3, <1>5, <1>6 DEF BootInv, AtRest, Up
<1> QED BY <1>1, <1>2, <1>4, <1>7 DEF Inv

\* Steps that leave the directories and the rows of the versions alone.
LEMMA QuietSteps ==
  ASSUME Inv, NEW p \in Actors,
         (p \in Publishers /\ Validate(p)) \/ ChooseVersion(p) \/ CopyDraft(p) \/ SaveFails(p)
  PROVE  Inv'
<1>0. Cardinality({v \in Versions : rows[v] # Absent}) = latest
  BY NextNumber DEF Inv
<1>2. CASE ChooseVersion(p)
  <2>1. /\ version' = [version EXCEPT ![p] = latest + 1] /\ latest + 1 \in Versions
        /\ pc[p] = "validated" /\ pc' = [pc EXCEPT ![p] = "chosen"]
        /\ UNCHANGED <<setupVars, packVars, draft, storeVars, copy, cut>>
    BY <1>0, <1>2 DEF ChooseVersion, Goto
  <2> USE DEF Inv, TypeOK, Numbered, Owns, PCs, Ended, Versions, storeVars, setupVars, packVars
  <2>2. TypeOK' /\ VersionsSound'
    BY <2>1, PackAssumption DEF VersionsSound
  <2>3. NumberInv'
    BY <2>1, PackAssumption DEF NumberInv
  <2>4. BootInv'
    BY <2>1, PackAssumption DEF BootInv, AtRest, BootPCs, Actors, Up
  <2> QED BY <2>2, <2>3, <2>4
<1> USE PackAssumption DEF Inv, TypeOK, Numbered, Owns, PCs, Ended,
        Versions, Goto, storeVars, setupVars, packVars
<1>1. CASE p \in Publishers /\ Validate(p)
  <2>1. TypeOK' /\ VersionsSound' /\ NumberInv'
    BY <1>1 DEF Validate, WarningsAcknowledged, VersionsSound, NumberInv
  <2>2. BootInv'
    BY <1>1 DEF Validate, WarningsAcknowledged, BootInv, AtRest, BootPCs, Actors, Up
  <2> QED BY <2>1, <2>2
<1>3. CASE CopyDraft(p)
  <2>0. pc[p] = "chosen" /\ draft \in Contents
    BY <1>3 DEF CopyDraft, BootInv
  <2>1. CASE published[version[p]] = Absent
    <3>1. /\ copy' = [copy EXCEPT ![p] = draft] /\ pc' = [pc EXCEPT ![p] = "copied"]
          /\ UNCHANGED <<setupVars, packVars, draft, published, rows, latest, version, cut>>
      BY <1>3, <2>1 DEF CopyDraft
    <3>3. TypeOK' /\ VersionsSound'
      BY <3>1, <2>0 DEF VersionsSound
    <3>4. NumberInv'
      BY <3>1, <2>0 DEF NumberInv
    <3>5. BootInv'
      BY <3>1, <2>0 DEF BootInv, AtRest, BootPCs, Actors, Up
    <3> QED BY <3>3, <3>4, <3>5
  <2>2. CASE published[version[p]] # Absent
    <3>0. /\ pc' = [pc EXCEPT ![p] = "refused"]
          /\ UNCHANGED <<setupVars, packVars, draft, storeVars, version, copy, cut>>
      BY <1>3, <2>2 DEF CopyDraft
    <3>1. TypeOK' /\ VersionsSound'
      BY <3>0 DEF VersionsSound
    <3>2. NumberInv'
      BY <3>0, <2>0 DEF NumberInv
    <3>3. BootInv'
      BY <3>0, <2>0 DEF BootInv, AtRest, BootPCs, Actors, Up
    <3> QED BY <3>1, <3>2, <3>3
  <2> QED BY <2>1, <2>2
<1>4. CASE SaveFails(p)
  <2>1. TypeOK' /\ VersionsSound' /\ NumberInv'
    BY <1>4 DEF SaveFails, VersionsSound, NumberInv
  <2>2. BootInv'
    BY <1>4 DEF SaveFails, BootInv, AtRest, BootPCs, Actors, Up
  <2> QED BY <2>1, <2>2
<1> QED BY <1>1, <1>2, <1>3, <1>4

LEMMA StoreSteps ==
  ASSUME Inv, NEW p \in Actors,
         InstallSnapshot(p) \/ SaveVersion(p) \/ RemoveSnapshot(p)
  PROVE  Inv'
<1> USE PackAssumption DEF Inv, TypeOK, Numbered, Owns, PCs, Ended,
        Versions, Goto, setupVars, packVars
<1>0. BootInv'
  <2>1. /\ pc[p] \in {"copied", "installed", "undoing"}
        /\ pc' \in {[pc EXCEPT ![p] = l] : l \in {"installed", "refused", "done"}}
        /\ UNCHANGED <<setupVars, packVars, draft>>
    BY DEF InstallSnapshot, SaveVersion, RemoveSnapshot
  <2>2. known
    BY <2>1 DEF BootInv, AtRest, Actors
  <2> QED BY <2>1, <2>2 DEF BootInv, AtRest, BootPCs, Actors, Up
<1>1. CASE InstallSnapshot(p)
  <2>1. CASE published[version[p]] = Absent
    <3>1. version[p] = latest + 1
      BY <1>1, <2>1 DEF InstallSnapshot, VersionsSound, NumberInv
    <3>2. \A q \in Actors : ~Owns(q)
      BY <1>1, <2>1, <3>1 DEF InstallSnapshot, NumberInv
    <3>3. TypeOK'
      BY <1>1, <2>1 DEF InstallSnapshot, NumberInv
    <3>4. VersionsSound'
      BY <1>1, <2>1, <3>1 DEF InstallSnapshot, VersionsSound
    <3>5. NumberInv'
      BY <1>1, <2>1, <3>1, <3>2 DEF InstallSnapshot, NumberInv
    <3> QED BY <3>3, <3>4, <3>5, <1>0
  <2>2. CASE published[version[p]] # Absent
    BY <1>1, <2>2, <1>0 DEF InstallSnapshot, VersionsSound, NumberInv
  <2> QED BY <2>1, <2>2
<1>2. CASE SaveVersion(p)
  <2>1. /\ version[p] = latest + 1 /\ version[p] \in Versions
        /\ rows' = [rows EXCEPT ![version[p]] = copy[p]]
        /\ latest' = latest + 1
    BY <1>2 DEF SaveVersion, VersionsSound, NumberInv
  <2>2. \A q \in Actors : q # p => ~Owns(q)
    BY <1>2 DEF SaveVersion, NumberInv
  <2>3. TypeOK' /\ VersionsSound'
    BY <1>2, <2>1 DEF SaveVersion, VersionsSound, NumberInv
  <2>4. NumberInv'
    BY <1>2, <2>1, <2>2 DEF SaveVersion, NumberInv
  <2> QED BY <2>3, <2>4, <1>0
<1>3. CASE RemoveSnapshot(p)
  BY <1>3, <1>0 DEF RemoveSnapshot, VersionsSound, NumberInv
<1> QED BY <1>1, <1>2, <1>3

\* Steps on the row of the pack and on its draft.
LEMMA PackSteps ==
  ASSUME Inv, \/ \E c \in Creators : CheckPack(c) \/ CreatePack(c)
              \/ \E c \in Contents : EditDraft(c)
              \/ BootStep
  PROVE  Inv'
<1> USE PackAssumption DEF Inv, TypeOK, Numbered, Owns, PCs, Ended, Versions, Goto, storeVars,
        setupVars, packVars, requestVars, Actors
<1>1. CASE \E c \in Creators : CheckPack(c)
  BY <1>1 DEF CheckPack, VersionsSound, NumberInv, BootInv, AtRest, Up
<1>2. CASE \E c \in Creators : CreatePack(c)
  <2>1. known' = TRUE /\ latest' = latest
    BY <1>2 DEF CreatePack, SavePack, BootInv
  <2> QED BY <1>2, <2>1 DEF CreatePack, VersionsSound, NumberInv, BootInv, AtRest, Up
<1>3. CASE \E c \in Contents : EditDraft(c)
  BY <1>3 DEF EditDraft, VersionsSound, NumberInv, BootInv, AtRest, Up
<1>4. CASE BootPack
  <2>1. known' = TRUE /\ latest' = latest
    BY <1>4 DEF BootPack, SavePack, BootInv
  <2>2. TypeOK' /\ VersionsSound' /\ NumberInv'
    BY <1>4, <2>1 DEF BootPack, VersionsSound, NumberInv, BootPCs
  <2>3. BootInv'
    BY <1>4, <2>1 DEF BootPack, BootInv, AtRest, BootPCs, Up
  <2> QED BY <2>2, <2>3
<1>5. CASE SeedDraft
  <2>1. TypeOK' /\ VersionsSound' /\ NumberInv'
    BY <1>5 DEF SeedDraft, VersionsSound, NumberInv, BootPCs
  <2>2. BootInv'
    BY <1>5 DEF SeedDraft, BootInv, AtRest, BootPCs, Up
  <2> QED BY <2>1, <2>2
<1>6. CASE FinishSeed
  <2>1. seed \in Contents
    BY <1>6 DEF FinishSeed, BootInv
  <2>2. TypeOK' /\ VersionsSound' /\ NumberInv'
    BY <1>6, <2>1 DEF FinishSeed, VersionsSound, NumberInv, BootPCs
  <2>3. BootInv'
    BY <1>6, <2>1 DEF FinishSeed, BootInv, AtRest, BootPCs, Up
  <2> QED BY <2>2, <2>3
<1>7. CASE BootPublish
  <2>1. TypeOK' /\ VersionsSound' /\ NumberInv'
    BY <1>7 DEF BootPublish, HasNoErrors, VersionsSound, NumberInv, BootPCs
  <2>2. BootInv'
    BY <1>7 DEF BootPublish, HasNoErrors, BootInv, AtRest, BootPCs, Up
  <2> QED BY <2>1, <2>2
<1> QED BY <1>1, <1>2, <1>3, <1>4, <1>5, <1>6, <1>7 DEF BootStep

LEMMA RestartStep == ASSUME Inv, Restart PROVE Inv'
<1> USE PackAssumption DEF Inv, TypeOK, Restart, Owns, PCs, Ended, Versions, storeVars, setupVars,
        packVars, Actors
<1>1. \A p \in Actors : ~Numbered(p)' /\ ~Owns(p)'
  BY DEF Numbered
<1>2. TypeOK' /\ VersionsSound'
  BY DEF VersionsSound, BootPCs
<1>3. NumberInv'
  BY <1>1 DEF NumberInv, Numbered
<1>4. BootInv'
  BY DEF BootInv, AtRest, BootPCs, Up
<1> QED BY <1>2, <1>3, <1>4

LEMMA StepInv == Inv /\ [Next]_vars => Inv'
<1> SUFFICES ASSUME Inv, [Next]_vars PROVE Inv'
  OBVIOUS
<1>1. CASE \/ \E c \in Creators : CheckPack(c) \/ CreatePack(c)
           \/ \E c \in Contents : EditDraft(c)
           \/ BootStep
  BY <1>1, PackSteps
<1>2. CASE \E p \in Actors : Publish(p)
  BY <1>2, QuietSteps, StoreSteps DEF Publish
<1>3. CASE \E p \in Publishers : Validate(p)
  BY <1>3, QuietSteps DEF Actors
<1>4. CASE Restart
  BY <1>4, RestartStep
<1>5. CASE UNCHANGED vars
  BY <1>5 DEF vars, Inv, TypeOK, VersionsSound, NumberInv, BootInv, Numbered, AtRest, Owns, Up,
     storeVars, requestVars, setupVars, packVars
<1> QED BY <1>1, <1>2, <1>3, <1>4, <1>5 DEF Next

LEMMA Invariance == Spec => []Inv
<1> QED BY InitInv, StepInv, PTL DEF Spec

\* However requests, creations, bootstraps and restarts interleave, every variable
\* keeps its type: no number above the bound, no version of a missing draft.
THEOREM TypesCorrect == Spec => []TypeOK
<1>1. Inv => TypeOK
  BY DEF Inv
<1> QED BY <1>1, Invariance, PTL

\* Whatever requests interleave, fail or are cut off by a restart, the version
\* rows are numbered without a gap and each has the directory its manifest lists.
THEOREM VersionsAreSound == Spec => []VersionsSound
<1>1. Inv => VersionsSound
  BY DEF Inv
<1> QED BY <1>1, Invariance, PTL

\* No step changes the row or the directory of a version that has a row.
THEOREM PublishedIsImmutable == Spec => VersionsImmutable
<1>1. ASSUME Inv, [Next]_vars, NEW v \in Versions, rows[v] # Absent
      PROVE  rows'[v] = rows[v] /\ published'[v] = published[v]
  <2> USE <1>1, PackAssumption DEF Inv, TypeOK, VersionsSound, NumberInv, Numbered, Owns, Versions
  <2>1. CASE UNCHANGED <<published, rows>>
    BY <2>1
  <2>2. ASSUME NEW p \in Actors, Publish(p)
        PROVE  rows'[v] = rows[v] /\ published'[v] = published[v]
    <3>1. CASE ChooseVersion(p) \/ CopyDraft(p) \/ SaveFails(p)
      BY <3>1 DEF ChooseVersion, CopyDraft, SaveFails, storeVars
    <3>2. CASE InstallSnapshot(p)
      BY <3>2 DEF InstallSnapshot
    <3>3. CASE SaveVersion(p)
      BY <3>3 DEF SaveVersion
    <3>4. CASE RemoveSnapshot(p)
      BY <3>4 DEF RemoveSnapshot
    <3> QED BY <2>2, <3>1, <3>2, <3>3, <3>4 DEF Publish
  <2>3. (\E p \in Actors : Publish(p)) \/ UNCHANGED <<published, rows>>
    BY DEF Next, CheckPack, CreatePack, EditDraft, BootStep, BootPack, SeedDraft, FinishSeed,
       BootPublish, HasNoErrors, Validate, WarningsAcknowledged, Restart, storeVars, vars
  <2> QED BY <2>1, <2>2, <2>3
<1>2. Inv /\ [Next]_vars => [\A v \in Versions : rows[v] # Absent =>
                               rows'[v] = rows[v] /\ published'[v] = published[v]]_vars
  BY <1>1
<1> QED BY <1>2, Invariance, PTL DEF Spec, VersionsImmutable

-----------------------------------------------------------------------------
(* Failures and restarts *)

\* As long as no restart fell between a rename and its row, a version number above
\* the latest is taken only by an actor that is about to store or to undo it.
LEMMA NextVersionStep ==
  ASSUME Inv, NextVersionFree, [Next]_vars
  PROVE  NextVersionFree'
<1> USE DEF Inv, TypeOK, NextVersionFree, Owns
<1>1. ASSUME NEW p \in Actors, Publish(p)
      PROVE  NextVersionFree'
  <2>1. ASSUME NEW v \in Versions, v > latest', published'[v] # Absent, "renamed" \notin cut'
        PROVE  \E q \in Actors : Owns(q)' /\ version'[q] = v
    <3>1. CASE ChooseVersion(p) \/ CopyDraft(p)
      <4>1. ~Owns(p) /\ UNCHANGED <<storeVars, cut>>
        BY <3>1 DEF ChooseVersion, CopyDraft
      <4>2. PICK q \in Actors : Owns(q) /\ version[q] = v
        BY <2>1, <4>1 DEF storeVars
      <4>3. pc'[q] = pc[q] /\ version'[q] = version[q]
        BY <3>1, <4>1, <4>2 DEF ChooseVersion, CopyDraft, Goto
      <4> QED BY <4>2, <4>3
    <3>2. CASE InstallSnapshot(p)
      BY <2>1, <3>2 DEF InstallSnapshot, Goto
    <3>3. CASE SaveVersion(p)
      <4>1. pc[p] = "installed" /\ version[p] = latest + 1 /\ version[p] \in Versions
        BY <3>3 DEF SaveVersion, NumberInv, Numbered
      <4>2. rows[version[p]] = Absent
        BY <4>1 DEF VersionsSound
      <4>3. latest' = latest + 1 /\ UNCHANGED <<published, cut>>
        BY <3>3, <4>1, <4>2 DEF SaveVersion
      <4>4. v > latest + 1 /\ published[v] # Absent /\ "renamed" \notin cut
        BY <2>1, <4>3
      <4>5. PICK q \in Actors : Owns(q) /\ version[q] = v
        BY <4>4, PackAssumption DEF Versions
      <4>6. version[q] = latest + 1
        BY <4>5 DEF NumberInv
      <4> QED BY <4>4, <4>5, <4>6, PackAssumption DEF Versions
    <3>4. CASE SaveFails(p)
      BY <2>1, <3>4 DEF SaveFails, Goto, storeVars
    <3>5. CASE RemoveSnapshot(p)
      BY <2>1, <3>5 DEF RemoveSnapshot, Goto
    <3> QED BY <1>1, <3>1, <3>2, <3>3, <3>4, <3>5 DEF Publish
  <2> QED BY <2>1
<1>2. CASE \/ \E c \in Creators : CheckPack(c)
           \/ \E c \in Contents : EditDraft(c)
           \/ UNCHANGED vars
  BY <1>2 DEF CheckPack, EditDraft, vars, storeVars, requestVars
<1>3. CASE (\E c \in Creators : CreatePack(c)) \/ BootPack
  <2>1. latest' = latest
    BY <1>3 DEF CreatePack, BootPack, SavePack, BootInv
  <2>2. UNCHANGED <<published, version, cut>>
    BY <1>3 DEF CreatePack, BootPack, requestVars
  <2>3. \A q \in Actors : Owns(q) => Owns(q)'
    BY <1>3 DEF CreatePack, BootPack, requestVars, Goto
  <2> QED BY <2>1, <2>2, <2>3
<1>4. CASE SeedDraft \/ FinishSeed \/ BootPublish
  <2>1. UNCHANGED <<published, latest, version, cut>>
    BY <1>4 DEF SeedDraft, FinishSeed, BootPublish, HasNoErrors, storeVars
  <2>2. \A q \in Actors : Owns(q) => Owns(q)'
    BY <1>4 DEF SeedDraft, FinishSeed, BootPublish, HasNoErrors, Goto
  <2> QED BY <2>1, <2>2
<1>5. CASE \E p \in Publishers : Validate(p)
  <2>1. UNCHANGED <<published, latest, version, cut>>
    BY <1>5 DEF Validate, WarningsAcknowledged, storeVars
  <2>2. \A q \in Actors : Owns(q) => Owns(q)'
    BY <1>5 DEF Validate, WarningsAcknowledged, Goto, Actors
  <2> QED BY <2>1, <2>2
<1>6. CASE Restart
  BY <1>6 DEF Restart, storeVars
<1> QED BY <1>1, <1>2, <1>3, <1>4, <1>5, <1>6 DEF Next, BootStep

LEMMA NextVersionInvariance == Spec => []NextVersionFree
<1>1. Init => NextVersionFree
  BY DEF Init, NextVersionFree, Versions
<1> QED BY <1>1, NextVersionStep, Invariance, PTL DEF Spec

\* A failed publish leaves no directory behind that would block the next ones.
THEOREM FailuresLeaveNothing == Spec => []NextVersionFree
BY NextVersionInvariance

\* What a restart of an interrupted bootstrap finds, as long as nothing was cut at
\* one of the two points it cannot recover from.
SeedInv ==
  seed # Absent /\ cut = {} =>
    /\ latest = 0 =>
         /\ ~Up
         /\ pc[Boot] \in {"boot", "known"} => draft \in {Absent, seed}
         /\ pc[Boot] \in {"seeded", "validated", "chosen", "copied", "installed"} => draft = seed
         /\ pc[Boot] \in {"copied", "installed"} => copy[Boot] = seed
         /\ pc[Boot] # "undoing"
    /\ latest # 0 => rows[1] = seed

LEMMA SeedPublishStep ==
  ASSUME Inv, NextVersionFree, SeedInv, NEW p \in Actors, Publish(p)
  PROVE  SeedInv'
<1> SUFFICES ASSUME (seed # Absent /\ cut = {})' PROVE SeedInv'
  BY DEF SeedInv
<1> USE PackAssumption DEF Inv, TypeOK, Actors, setupVars, packVars, storeVars, Ended, Up
<1>1. seed # Absent
  BY DEF Publish, ChooseVersion, CopyDraft, InstallSnapshot, SaveVersion, SaveFails, RemoveSnapshot
<1>2. cut = {}
  BY DEF Publish, ChooseVersion, CopyDraft, InstallSnapshot, SaveVersion, SaveFails, RemoveSnapshot
<1>3. CASE latest # 0
  <2>1. rows[1] = seed /\ 1 \in Versions
    BY <1>1, <1>2, <1>3 DEF SeedInv, Versions
  <2>2. latest' # 0 /\ rows'[1] = rows[1]
    <3>1. CASE SaveVersion(p)
      BY <3>1, <1>3, <2>1 DEF SaveVersion, NumberInv, Numbered, Owns, VersionsSound, Versions
    <3>2. CASE ~SaveVersion(p)
      BY <3>2, <1>3 DEF Publish, ChooseVersion, CopyDraft, InstallSnapshot, SaveFails, RemoveSnapshot
    <3> QED BY <3>1, <3>2
  <2> QED BY <2>1, <2>2, <1>1, <1>2 DEF SeedInv, Publish, ChooseVersion, CopyDraft,
             InstallSnapshot, SaveVersion, SaveFails, RemoveSnapshot
<1>4. CASE latest = 0
  <2>1. ~Up
    BY <1>1, <1>2, <1>4 DEF SeedInv
  <2>2. p = Boot
    BY <2>1 DEF BootInv, AtRest, Publish, ChooseVersion, CopyDraft, InstallSnapshot, SaveVersion,
       SaveFails, RemoveSnapshot
  <2>3. pc[p] \in {"chosen", "copied"} => published[version[p]] = Absent
    <3> SUFFICES ASSUME pc[p] \in {"chosen", "copied"}, published[version[p]] # Absent
                 PROVE  FALSE
      OBVIOUS
    <3>1. version[p] \in Versions /\ version[p] > latest
      BY <1>4 DEF NumberInv, Numbered, Versions
    <3>2. PICK q \in Actors : Owns(q)
      BY <3>1, <1>2 DEF NextVersionFree
    <3>3. q \in Publishers
      BY <3>2, <2>2 DEF Owns
    <3> QED BY <3>2, <3>3, <2>1 DEF BootInv, AtRest, Owns
  <2>4. CASE ChooseVersion(p)
    BY <2>4, <2>2, <1>1, <1>2, <1>4 DEF SeedInv, ChooseVersion, Goto
  <2>5. CASE CopyDraft(p)
    BY <2>5, <2>2, <2>3, <1>1, <1>2, <1>4 DEF SeedInv, CopyDraft, Goto
  <2>6. CASE InstallSnapshot(p)
    BY <2>6, <2>2, <2>3, <1>1, <1>2, <1>4 DEF SeedInv, InstallSnapshot, Goto
  <2>7. CASE SaveVersion(p)
    <3>1. version[p] = 1 /\ 1 \in Versions /\ copy[p] = seed
      BY <2>7, <2>2, <1>1, <1>2, <1>4 DEF SeedInv, SaveVersion, NumberInv, Owns, Versions
    <3>2. rows[1] = Absent
      BY <3>1, <1>4 DEF VersionsSound, Versions
    <3>3. rows'[1] = seed /\ latest' = 1
      BY <2>7, <3>1, <3>2 DEF SaveVersion
    <3> QED BY <2>7, <3>3 DEF SeedInv, SaveVersion
  <2>8. CASE SaveFails(p)
    BY <2>8, <2>2 DEF SaveFails
  <2>9. CASE RemoveSnapshot(p)
    BY <2>9, <2>2, <1>1, <1>2, <1>4 DEF SeedInv, RemoveSnapshot
  <2> QED BY <2>4, <2>5, <2>6, <2>7, <2>8, <2>9 DEF Publish
<1> QED BY <1>3, <1>4

LEMMA SeedStep ==
  ASSUME Inv, NextVersionFree, SeedInv, [Next]_vars
  PROVE  SeedInv'
<1> USE PackAssumption DEF Inv, TypeOK, Actors, setupVars, packVars, storeVars, requestVars,
        Ended, Up, Goto
<1>1. CASE \E p \in Actors : Publish(p)
  BY <1>1, SeedPublishStep
<1>2. CASE \E c \in Creators : CheckPack(c)
  BY <1>2 DEF CheckPack, SeedInv
<1>3. CASE (\E c \in Creators : CreatePack(c)) \/ BootPack
  <2>1. latest' = latest /\ UNCHANGED <<seed, draft, rows, copy, cut>>
    BY <1>3 DEF CreatePack, BootPack, SavePack, BootInv
  <2>2. CASE \E c \in Creators : CreatePack(c)
    BY <2>1, <2>2 DEF CreatePack, SeedInv
  <2>3. CASE BootPack
    BY <2>1, <2>3 DEF BootPack, SeedInv
  <2> QED BY <1>3, <2>2, <2>3
<1>4. CASE \E c \in Contents : EditDraft(c)
  BY <1>4 DEF EditDraft, SeedInv
<1>5. CASE SeedDraft
  BY <1>5 DEF SeedDraft, SeedInv
<1>6. CASE FinishSeed
  BY <1>6 DEF FinishSeed, SeedInv
<1>7. CASE BootPublish
  BY <1>7 DEF BootPublish, HasNoErrors, SeedInv
<1>8. CASE \E p \in Publishers : Validate(p)
  BY <1>8 DEF Validate, WarningsAcknowledged, SeedInv
<1>9. CASE Restart
  <2> SUFFICES ASSUME seed # Absent, cut = {}, pc[Boot] # "copying", ~Owns(Boot) PROVE SeedInv'
    BY <1>9 DEF Restart, SeedInv
  <2>1. pc'[Boot] = "boot" /\ UNCHANGED <<seed, draft, rows, latest>>
    BY <1>9 DEF Restart
  <2>2. latest = 0 => draft \in {Absent, seed}
    BY DEF SeedInv, BootInv, PCs, BootPCs, Owns
  <2> QED BY <2>1, <2>2 DEF SeedInv
<1>10. CASE UNCHANGED vars
  BY <1>10 DEF vars, SeedInv
<1> QED BY <1>1, <1>2, <1>3, <1>4, <1>5, <1>6, <1>7, <1>8, <1>9, <1>10 DEF Next, BootStep

\* Whenever the API serves requests, the first version of a seeded pack is the
\* whole seed, however often its bootstrap was interrupted and begun anew, if not
\* in the middle of the copy or between the rename and the row.
THEOREM SeedIsPublished == Spec => []SeedPublished
<1>1. Init => SeedInv
  BY PackAssumption DEF Init, SeedInv, Actors, Up, Ended
<1>2. Inv /\ SeedInv => SeedPublished
  BY PackAssumption DEF Inv, TypeOK, SeedInv, SeedPublished
<1> QED BY <1>1, <1>2, SeedStep, NextVersionInvariance, Invariance, PTL DEF Spec

-----------------------------------------------------------------------------
(* Validation *)

Passes(c) == c \in Valid /\ (seed = Absent => c \in Acknowledged)

ValidInv ==
  careful =>
    /\ \A p \in Actors : pc[p] \in {"validated", "chosen"} => Passes(draft)
    /\ \A p \in Actors : pc[p] \in {"copied", "installed"} => Passes(copy[p])
    /\ \A v \in 1..latest : Passes(rows[v])

LEMMA ValidStep ==
  ASSUME Inv, ValidInv, [Next]_vars
  PROVE  ValidInv'
<1> USE PackAssumption DEF Inv, TypeOK, Actors, setupVars, packVars, storeVars, requestVars, Goto
<1>1. ASSUME NEW p \in Actors, SaveVersion(p) PROVE ValidInv'
  <2>1. /\ version[p] = latest + 1 /\ version[p] \in Versions
        /\ rows[version[p]] = Absent
    BY <1>1 DEF SaveVersion, NumberInv, Numbered, Owns, VersionsSound, Versions
  <2>2. /\ rows' = [rows EXCEPT ![latest + 1] = copy[p]] /\ latest' = latest + 1
        /\ pc[p] = "installed" /\ pc' = [pc EXCEPT ![p] = "done"]
        /\ UNCHANGED <<seed, careful, draft, copy>>
    BY <1>1, <2>1 DEF SaveVersion
  <2>3. ASSUME careful, NEW v \in 1..(latest + 1) PROVE Passes(rows'[v])
    <3>1. CASE v = latest + 1
      BY <2>1, <2>2, <2>3, <3>1 DEF ValidInv, Versions
    <3>2. CASE v \in 1..latest
      BY <2>2, <2>3, <3>2 DEF ValidInv, Versions
    <3> QED BY <2>3, <3>1, <3>2
  <2> QED BY <2>2, <2>3 DEF ValidInv, Passes
<1>2. ASSUME NEW p \in Actors,
             ChooseVersion(p) \/ InstallSnapshot(p) \/ SaveFails(p) \/ RemoveSnapshot(p)
      PROVE  ValidInv'
  BY <1>2 DEF ChooseVersion, InstallSnapshot, SaveFails, RemoveSnapshot, ValidInv, Passes
<1>3. ASSUME NEW p \in Actors, CopyDraft(p) PROVE ValidInv'
  BY <1>3 DEF CopyDraft, ValidInv, Passes
<1>4. CASE \E c \in Creators : CheckPack(c)
  BY <1>4 DEF CheckPack, ValidInv, Passes
<1>5. CASE (\E c \in Creators : CreatePack(c)) \/ BootPack
  <2>1. latest' = latest /\ UNCHANGED <<seed, careful, draft, rows, copy>>
    BY <1>5 DEF CreatePack, BootPack, SavePack, BootInv
  <2>2. pc' = pc \/ pc' = [pc EXCEPT ![Boot] = "known"]
    BY <1>5 DEF CreatePack, BootPack
  <2> QED BY <2>1, <2>2 DEF ValidInv, Passes
<1>6. CASE \E c \in Contents : EditDraft(c)
  <2>1. careful => \A p \in Actors : pc[p] \notin {"validated", "chosen"}
    BY <1>6 DEF EditDraft, Ended, Up
  <2> QED BY <1>6, <2>1 DEF EditDraft, ValidInv, Passes
<1>7. CASE SeedDraft \/ FinishSeed
  <2>1. \A p \in Actors : pc[p] \notin {"validated", "chosen"}
    BY <1>7 DEF SeedDraft, FinishSeed, BootInv, AtRest, Up, Ended
  <2> QED BY <1>7, <2>1 DEF SeedDraft, FinishSeed, ValidInv, Passes
<1>8. CASE BootPublish
  <2>1. seed # Absent
    BY <1>8 DEF BootPublish, HasNoErrors, BootInv
  <2>2. HasNoErrors(draft) => Passes(draft)
    BY <2>1 DEF Passes, HasNoErrors
  <2> QED BY <1>8, <2>2 DEF BootPublish, HasNoErrors, ValidInv, Passes
<1>9. CASE \E p \in Publishers : Validate(p)
  BY <1>9 DEF Validate, WarningsAcknowledged, ValidInv, Passes
<1>10. CASE Restart
  BY <1>10 DEF Restart, ValidInv, Passes, Ended
<1>11. CASE UNCHANGED vars
  BY <1>11 DEF vars, ValidInv, Passes
<1> QED BY <1>1, <1>2, <1>3, <1>4, <1>5, <1>6, <1>7, <1>8, <1>9, <1>10, <1>11
       DEF Next, BootStep, Publish

\* If the draft is left alone during a publish, what is published is what was
\* validated, also when publishers overlap, fail, or are cut off by a restart.
THEOREM ValidatedIsPublished == Spec => []PublishedIsValid
<1>1. Init => ValidInv
  BY PackAssumption DEF Init, ValidInv, Actors
<1>2. ValidInv => PublishedIsValid
  BY DEF ValidInv, PublishedIsValid, Passes
<1> QED BY <1>1, <1>2, ValidStep, Invariance, PTL DEF Spec
=============================================================================
