SPECIFICATION FairPatientSpec
CONSTANTS
  Requests = {r1, r2, r3}
  Workers = {w1}
  Kinds = {"background"}
  Ops <- MCLateOperations
  InitialStatuses <- MCStarts
  EnqueueMayFail = FALSE
  RuntimeMayFail = TRUE
  PoolTerminates = FALSE
  MaxRestarts = 0
  MaxWorkerLosses = 0
  NoLease = NoLease
  NoTask = NoTask
INVARIANTS NoStuckRunning
PROPERTIES ImplementsSession OperationsSettle
