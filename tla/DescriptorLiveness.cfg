SPECIFICATION FairSpec
CONSTANTS
  t1 = t1
  t2 = t2
  t3 = t3
  t4 = t4
  t5 = t5
  t6 = t6
  TaskId = {t1, t2, t3, t4, t5, t6}
  NoReq = NoReq
  NoTask = NoTask
  NumSources = 1
  MaxRetries = 2
  Timely = TRUE
  FaultKinds = {"http", "poll", "task", "expire"}
  MaxFaults = 1
  MaxUserOps = 2
CHECK_DEADLOCK FALSE
INVARIANTS BoundedDuplication DeletionNotForgotten
PROPERTIES RecordedTaskKept EventuallyReady EventuallyCleaned
