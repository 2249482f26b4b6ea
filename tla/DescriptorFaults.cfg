SPECIFICATION Spec
CONSTANTS
  t1 = t1
  t2 = t2
  t3 = t3
  TaskId = {t1, t2, t3}
  NoReq = NoReq
  NoTask = NoTask
  NumSources = 2
  MaxRetries = 1
  Timely = FALSE
  FaultKinds = {"crash", "http", "poll", "api", "task", "redelivery"}
  MaxFaults = 2
  MaxUserOps = 1
CHECK_DEADLOCK FALSE
INVARIANTS IInv ReadyMeansProcessed NeverAsleepUnready
PROPERTIES ReadyIsKept
