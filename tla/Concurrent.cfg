SPECIFICATION Spec
CONSTANTS
  Requests = {r1, r2, r3}
  Workers = {w1}
  Kinds = {"background", "answer"}
  Ops <- MCFirstOperations
  InitialStatuses = {"idle"}
  EnqueueMayFail = FALSE
  RuntimeMayFail = TRUE
  PoolTerminates = FALSE
  MaxRestarts = 0
  MaxWorkerLosses = 0
  NoLease = NoLease
  NoTask = NoTask
SYMMETRY MCSymmetry
INVARIANTS MilestoneEarned
