SPECIFICATION SequentialSpec
CONSTANTS
  Requests = {r1, r2}
  Workers = {w1}
  Kinds = {"background"}
  Ops = {"start_loop", "send_message"}
  InitialStatuses = {"idle"}
  EnqueueMayFail = FALSE
  RuntimeMayFail = FALSE
  PoolTerminates = FALSE
  MaxRestarts = 0
  MaxWorkerLosses = 0
  NoLease = NoLease
  NoTask = NoTask
PROPERTIES ConflictMeansBusy
