SPECIFICATION Spec
CONSTANTS
  Sessions = {s1}
  Lanes = {a, b}
  Requests = {r1, r2}
  Kinds = {"save", "forced_save", "checkpoint", "checkpoint_elsewhere", "import_text", "upload", "export"}
  Ops <- MCOps
  Suffixes = {".md", ".pdf"}
  Convertible = {".md"}
  MaxOps = 1
  MaxRestarts = 1
  NoFile = NoFile
CHECK_DEADLOCK FALSE
CONSTRAINT MCBound
SYMMETRY MCSymmetry
INVARIANTS TypeOK VersionsContiguous RevisionKeepsText CopiesComplete ImportsKept
PROPERTIES VersionsKept
