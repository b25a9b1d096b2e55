SPECIFICATION FairSpec
CONSTANTS
  Requests = {r1, r2}
  Workers = {w1, w2}
  Kinds = {"background", "cancel"}
  Ops = {"send_message"}
  InitialStatuses = {"draft_ready"}
  EnqueueMayFail = TRUE
  RuntimeMayFail = FALSE
  PoolTerminates = TRUE
  MaxRestarts = 0
  MaxWorkerLosses = 1
  NoLease = NoLease
  NoTask = NoTask
PROPERTIES AcceptedIsHandled CancelSuppressesResult
