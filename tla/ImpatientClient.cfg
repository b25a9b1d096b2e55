SPECIFICATION SequentialSpec
CONSTANTS
  Requests = {r1, r2, r3}
  Workers = {w1, w2}
  Kinds = {"background"}
  Ops <- MCOperations
  InitialStatuses <- MCStarts
  EnqueueMayFail = TRUE
  RuntimeMayFail = TRUE
  PoolTerminates = FALSE
  MaxRestarts = 0
  MaxWorkerLosses = 0
  NoLease = NoLease
  NoTask = NoTask
SYMMETRY MCSymmetry
INVARIANTS OneOperationAtATime
