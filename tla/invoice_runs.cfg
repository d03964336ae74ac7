SPECIFICATION FairSpec
CONSTANTS
  Id = {t1, t2, t3, t4, t5, t6, t7}
  NoId = NoId
  Slot = {s1, s2}
  MaxRetries = 1
  Lossy = FALSE
  Faults = FALSE
  Flaky = TRUE
  NewTask <- FirstTask
  RetryCap = 0
  MsgCap = 0
  Api = {"create", "start", "cancel", "compensate"}
  Reserve <- RunLeft
CHECK_DEADLOCK FALSE
INVARIANTS
  OneHandler
  RunNotForked
  CompensationsBounded
  CompleteMeansOver
PROPERTIES
  RunSettles
  CompensationFollows
