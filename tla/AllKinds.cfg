SPECIFICATION Spec
CONSTANTS
  Requests = {r1, r2}
  Workers = {w1, w2}
  Kinds <- MCKinds
  Ops <- MCOperations
  InitialStatuses = {"idle"}
  EnqueueMayFail = TRUE
  RuntimeMayFail = TRUE
  PoolTerminates = TRUE
  MaxRestarts = 1
  MaxWorkerLosses = 1
  NoLease = NoLease
  NoTask = NoTask
SYMMETRY MCSymmetry
INVARIANTS TypeOK PromptNotRepeated
