------------------------------ MODULE SkillPacks ------------------------------
(***************************************************************************)
(* ONE skill pack (skill_packs.py and routes/skill_packs.py): how it comes *)
(* into being, is edited and is published.  A pack is created by a request *)
(* or, if the repository has a seed of that name, when the API starts.     *)
(*                                                                         *)
(* A publish validates the draft, picks the next version number from the   *)
(* rows, copies the draft to a temporary directory, renames it to          *)
(* published/<version>, and stores the row of the version.  Nothing locks  *)
(* the pack: requests interleave between any two of these steps, the draft *)
(* is edited meanwhile, and the API may restart.                           *)
(***************************************************************************)
EXTENDS Naturals, FiniteSets

CONSTANTS
  Publishers,     \* requests to publish
  Creators,       \* requests to create the pack
  Boot,           \* the start of the API, which publishes the seed
  Contents,       \* what a draft may hold
  Valid,          \* the contents that pass validation ...
  Acknowledged,   \* ... with no warning that users would not acknowledge
  Seeds,          \* the seeds explored, Absent for a pack without a seed
  SeedParts,      \* what a draft holds while a seed is copied to it
  Absent,         \* no directory, no row
  MaxVersions,    \* bound on version numbers
  MaxRestarts     \* bound on restarts of the API process

ASSUME PackAssumption ==
  /\ Boot \notin Publishers
  /\ Acknowledged \subseteq Valid /\ Valid \subseteq Contents
  /\ Seeds \subseteq Valid \cup {Absent}
  /\ SeedParts \subseteq Contents
  /\ Absent \notin Contents
  /\ MaxVersions \in Nat \ {0} /\ MaxRestarts \in Nat

Actors == Publishers \cup {Boot}
Versions == 1..MaxVersions

VARIABLES
  seed,                  \* the directory of the pack in doc-types/
  careful,               \* whether users leave the draft alone during a publish
  known, checked,        \* the row of the pack; creators that found it missing
  draft,                 \* the draft directory
  published,             \* per version: the snapshot directory
  rows, latest,          \* per version: the manifest in its row; the pack's latest version
  pc, version, copy,     \* per actor: where it is, its number, its temporary copy
  restarts,
  cut                    \* history: what was cut off or failed on the way

packVars    == <<known, checked>>
storeVars   == <<published, rows, latest>>
requestVars == <<pc, version, copy>>
setupVars   == <<seed, careful, restarts>>
vars == <<setupVars, packVars, draft, storeVars, requestVars, cut>>

Ended == {"done", "refused", "aborted"}
PCs == Ended \cup {"idle", "validated", "chosen", "copied", "installed", "undoing"}
BootPCs == {"boot", "known", "copying", "seeded"}

Goto(p, label) == pc' = [pc EXCEPT ![p] = label]

\* create_app serves no request before it has bootstrapped the packs.
Up == pc[Boot] \in Ended

-----------------------------------------------------------------------------
(* The pack and its draft *)

\* create_pack: 409 if the pack is there, else its row; two requests may both
\* find it missing.
CheckPack(c) ==
  /\ Up /\ ~known
  /\ checked' = checked \cup {c}
  /\ UNCHANGED <<setupVars, known, draft, storeVars, requestVars, cut>>

\* Mutant of SavePack: the row is written without its latest version.
SavePackAnew == known' = TRUE /\ latest' = 0

\* save_skill_pack: a dict without latest_version_id leaves that column alone.
SavePack == known' = TRUE /\ latest' = IF known THEN latest ELSE 0

CreatePack(c) ==
  /\ c \in checked
  /\ checked' = checked \ {c}
  /\ SavePack
  /\ UNCHANGED <<setupVars, draft, published, rows, requestVars, cut>>

\* update_artifact, added resources and the Skill Creator agent, at any time; a
\* careful user waits while a publish is under way.
EditDraft(c) ==
  /\ Up /\ known
  /\ careful => \A p \in Publishers : pc[p] \in Ended \cup {"idle"}
  /\ draft' = c
  /\ UNCHANGED <<setupVars, packVars, storeVars, requestVars, cut>>

-----------------------------------------------------------------------------
(* bootstrap_seed_skill_packs *)

BootPack ==
  /\ pc[Boot] = "boot"
  /\ SavePack
  /\ Goto(Boot, "known")
  /\ UNCHANGED <<setupVars, checked, draft, published, rows, version, copy, cut>>

\* Mutant of SeedDraft: only a fresh copy is published.
SeedDraftOnce ==
  /\ pc[Boot] = "known"
  /\ IF draft = Absent
     THEN draft' \in SeedParts /\ Goto(Boot, "copying")
     ELSE Goto(Boot, "done") /\ UNCHANGED draft
  /\ UNCHANGED <<setupVars, packVars, storeVars, version, copy, cut>>

\* The seed is copied file by file, unless there is a draft directory.
SeedDraft ==
  /\ pc[Boot] = "known"
  /\ IF draft = Absent
     THEN draft' \in SeedParts /\ Goto(Boot, "copying")
     ELSE Goto(Boot, "seeded") /\ UNCHANGED draft
  /\ UNCHANGED <<setupVars, packVars, storeVars, version, copy, cut>>

FinishSeed ==
  /\ pc[Boot] = "copying"
  /\ draft' = seed
  /\ Goto(Boot, "seeded")
  /\ UNCHANGED <<setupVars, packVars, storeVars, version, copy, cut>>

\* validate_skill_pack_draft: it reports no errors; its warnings, of which copies
\* from a resource are one, are those that users acknowledge.
HasNoErrors(c) == c \in Valid
WarningsAcknowledged(c) == c \in Acknowledged

\* A pack without a version has its draft published as "Seed version", if it is
\* valid; nobody looks at the warnings.
BootPublish ==
  /\ pc[Boot] = "seeded"
  /\ Goto(Boot, IF latest # 0 THEN "done" ELSE IF HasNoErrors(draft) THEN "validated" ELSE "refused")
  /\ UNCHANGED <<setupVars, packVars, draft, storeVars, version, copy, cut>>

-----------------------------------------------------------------------------
(* publish_pack and publish_skill_pack_snapshot *)

\* Mutant of Validate: warnings are not asked about.
ValidateLoosely(p) ==
  /\ Up /\ known /\ pc[p] = "idle"
  /\ Goto(p, IF HasNoErrors(draft) THEN "validated" ELSE "refused")
  /\ UNCHANGED <<setupVars, packVars, draft, storeVars, version, copy, cut>>

\* validate_skill_pack_draft and the check of the acknowledged warnings.
Validate(p) ==
  /\ Up /\ known /\ pc[p] = "idle"
  /\ Goto(p, IF WarningsAcknowledged(draft) THEN "validated" ELSE "refused")
  /\ UNCHANGED <<setupVars, packVars, draft, storeVars, version, copy, cut>>

\* _next_version: one more than the number of rows.
ChooseVersion(p) ==
  LET next == Cardinality({v \in Versions : rows[v] # Absent}) + 1
  IN /\ pc[p] = "validated"
     /\ next \in Versions
     /\ version' = [version EXCEPT ![p] = next]
     /\ Goto(p, "chosen")
     /\ UNCHANGED <<setupVars, packVars, draft, storeVars, copy, cut>>

\* FileExistsError if the version has a directory, else copytree.
CopyDraft(p) ==
  /\ pc[p] = "chosen"
  /\ IF published[version[p]] = Absent
     THEN copy' = [copy EXCEPT ![p] = draft] /\ Goto(p, "copied")
     ELSE Goto(p, "refused") /\ UNCHANGED copy
  /\ UNCHANGED <<setupVars, packVars, draft, storeVars, version, cut>>

\* Mutants of InstallSnapshot: the rename replaces a directory that exists; the
\* cleanup of a failed rename forgets that the directory is not its own.
InstallReplacing(p) ==
  /\ pc[p] = "copied"
  /\ published' = [published EXCEPT ![version[p]] = copy[p]]
  /\ Goto(p, "installed")
  /\ UNCHANGED <<setupVars, packVars, draft, rows, latest, version, copy, cut>>

InstallOrUndo(p) ==
  /\ pc[p] = "copied"
  /\ IF published[version[p]] = Absent
     THEN /\ published' = [published EXCEPT ![version[p]] = copy[p]]
          /\ Goto(p, "installed")
     ELSE Goto(p, "undoing") /\ UNCHANGED published
  /\ UNCHANGED <<setupVars, packVars, draft, rows, latest, version, copy, cut>>

\* The second look and the rename, which fails on a directory with files; a
\* request whose rename failed removes only its temporary copy.
InstallSnapshot(p) ==
  /\ pc[p] = "copied"
  /\ IF published[version[p]] = Absent
     THEN /\ published' = [published EXCEPT ![version[p]] = copy[p]]
          /\ Goto(p, "installed")
     ELSE Goto(p, "refused") /\ UNCHANGED published
  /\ UNCHANGED <<setupVars, packVars, draft, rows, latest, version, copy, cut>>

\* save_skill_pack_version: an existing row is left alone.
SaveVersion(p) ==
  /\ pc[p] = "installed"
  /\ IF rows[version[p]] = Absent
     THEN /\ rows' = [rows EXCEPT ![version[p]] = copy[p]]
          /\ latest' = version[p]
     ELSE UNCHANGED <<rows, latest>>
  /\ Goto(p, "done")
  /\ UNCHANGED <<setupVars, packVars, draft, published, version, copy, cut>>

\* Mutant of SaveFails: the renamed directory is not removed.
SaveFailsForGood(p) ==
  /\ pc[p] = "installed"
  /\ Goto(p, "refused")
  /\ cut' = IF p = Boot THEN cut \cup {"unsaved"} ELSE cut
  /\ UNCHANGED <<setupVars, packVars, draft, storeVars, version, copy>>

\* The row cannot be stored: the request removes the directory it renamed.
SaveFails(p) ==
  /\ pc[p] = "installed"
  /\ Goto(p, "undoing")
  /\ cut' = IF p = Boot THEN cut \cup {"unsaved"} ELSE cut
  /\ UNCHANGED <<setupVars, packVars, draft, storeVars, version, copy>>

\* Mutant of RemoveSnapshot: the undo also takes the version back from the pack.
RemoveAndStepBack(p) ==
  /\ pc[p] = "undoing"
  /\ published' = [published EXCEPT ![version[p]] = Absent]
  /\ latest' = latest - 1
  /\ Goto(p, "refused")
  /\ UNCHANGED <<setupVars, packVars, draft, rows, version, copy, cut>>

RemoveSnapshot(p) ==
  /\ pc[p] = "undoing"
  /\ published' = [published EXCEPT ![version[p]] = Absent]
  /\ Goto(p, "refused")
  /\ UNCHANGED <<setupVars, packVars, draft, rows, latest, version, copy, cut>>

\* The API process restarts: requests end where they are, the bootstrap begins
\* anew.  A restart is harmless except at two points.
Owns(p) == pc[p] \in {"installed", "undoing"}

Restart ==
  /\ restarts < MaxRestarts
  /\ restarts' = restarts + 1
  /\ pc' = [p \in Actors |-> IF p = Boot THEN IF seed = Absent THEN "done" ELSE "boot"
                             ELSE IF pc[p] \in Ended \cup {"idle"} THEN pc[p] ELSE "aborted"]
  /\ checked' = {}
  /\ cut' = cut \cup (IF \E p \in Actors : Owns(p) THEN {"renamed"} ELSE {})
                 \cup (IF pc[Boot] = "copying" THEN {"copying"} ELSE {})
  /\ UNCHANGED <<seed, careful, known, draft, storeVars, version, copy>>

-----------------------------------------------------------------------------
(* The specification *)

Init ==
  /\ seed \in Seeds
  /\ careful \in BOOLEAN
  /\ known = FALSE /\ checked = {}
  /\ draft = Absent
  /\ published = [v \in Versions |-> Absent]
  /\ rows = [v \in Versions |-> Absent]
  /\ latest = 0
  /\ pc = [p \in Actors |-> IF p # Boot THEN "idle" ELSE IF seed = Absent THEN "done" ELSE "boot"]
  /\ version = [p \in Actors |-> 0]
  /\ copy = [p \in Actors |-> Absent]
  /\ restarts = 0
  /\ cut = {}

BootStep == BootPack \/ SeedDraft \/ FinishSeed \/ BootPublish

Publish(p) ==
  \/ ChooseVersion(p)
  \/ CopyDraft(p)
  \/ InstallSnapshot(p)
  \/ SaveVersion(p)
  \/ SaveFails(p)
  \/ RemoveSnapshot(p)

Next ==
  \/ \E c \in Creators : CheckPack(c) \/ CreatePack(c)
  \/ \E c \in Contents : EditDraft(c)
  \/ BootStep
  \/ \E p \in Publishers : Validate(p)
  \/ \E p \in Actors : Publish(p)
  \/ Restart

Spec == Init /\ [][Next]_vars

-----------------------------------------------------------------------------
(* Properties *)

TypeOK ==
  /\ seed \in Seeds
  /\ careful \in BOOLEAN /\ known \in BOOLEAN
  /\ checked \subseteq Creators
  /\ draft \in Contents \cup {Absent}
  /\ published \in [Versions -> Contents \cup {Absent}]
  /\ rows \in [Versions -> Contents \cup {Absent}]
  /\ latest \in 0..MaxVersions
  /\ pc \in [Actors -> PCs \cup BootPCs]
  /\ version \in [Actors -> 0..MaxVersions]
  /\ copy \in [Actors -> Contents \cup {Absent}]
  /\ restarts \in 0..MaxRestarts
  /\ cut \subseteq {"renamed", "copying", "unsaved"}

\* However requests, creations and bootstraps interleave, the rows are the
\* versions 1 to latest without a gap, and each has its directory, holding what
\* the manifest in the row lists: a task bound to a version can always read it.
VersionsSound ==
  \A v \in Versions : /\ rows[v] # Absent <=> v <= latest
                      /\ rows[v] # Absent => published[v] = rows[v]

\* "published snapshots are immutable" (README.md): neither the row nor the
\* directory of a version changes once the row exists.
VersionsImmutable ==
  [][\A v \in Versions : rows[v] # Absent =>
       rows'[v] = rows[v] /\ published'[v] = published[v]]_vars

\* A failed publish leaves nothing behind that would refuse the next one,
\* unless the process stopped between the rename and the row.
NextVersionFree ==
  "renamed" \notin cut =>
    \A v \in Versions : v > latest /\ published[v] # Absent
                          => \E p \in Actors : Owns(p) /\ version[p] = v

\* Once the API is up, version 1 of a seeded pack is the whole seed, also when
\* earlier starts were cut short, except in the middle of the copy, which is
\* then taken for the draft, or between the rename and the row.
SeedPublished ==
  Up /\ seed # Absent /\ cut = {} => latest >= 1 /\ rows[1] = seed

\* If nobody edits during a publish, the draft that is copied is the one that
\* was validated: every version passes the validation, and what users publish
\* has no warning that they did not acknowledge.
PublishedIsValid ==
  careful => \A v \in 1..latest :
    /\ rows[v] \in Valid
    /\ seed = Absent => rows[v] \in Acknowledged
=============================================================================
