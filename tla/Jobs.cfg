SPECIFICATION JobsLiveSpec
CONSTANTS
  j1 = j1
  j2 = j2
  j3 = j3
  v1 = v1
  v2 = v2
  Jobs = {j1, j2, j3}
  Workers = {v1, v2}
  QueueSize = 1
  Pages <- SomePages
INVARIANTS JobsTypeOK RowTellsTruth
PROPERTIES AcceptedJobsEnd WorkersStop
CHECK_DEADLOCK FALSE
