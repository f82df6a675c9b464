SPECIFICATION LiveSpec
CONSTANTS
  i1 = i1  i2 = i2  c1 = c1
  Instances = {i1, i2}
  Callers = {c1}
  Workers = {1, 2}
  PoolCap = 1
  Nobody = Nobody
  MaxInserts = 2
  MaxCallbacks = 1
  MaxMishaps = 1
INVARIANT OneWorkerPerInstance
INVARIANT QuietAfterStop
PROPERTY NotBeforeTheHandlers
PROPERTY EveryContinuationIsTaken
PROPERTY RecoverTakesWhatLapsed
PROPERTY RunsWithWorkAreAnswered
CHECK_DEADLOCK FALSE
