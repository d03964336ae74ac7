SPECIFICATION DeploymentSpec
CONSTANTS
  Id = {t1, t2}
  NoId = NoId
  s1 = s1
  s2 = s2
  i1 = i1
  i2 = i2
  Slot = {s1, s2}
  Instance = {i1, i2}
  Home <- OneEach
  MaxRetries = 2
  Lossy = TRUE
  Faults = TRUE
  Flaky = TRUE
  NewTask <- FlakyPdf
  RetryCap = 1
  MsgCap = 1
  Api = {"create", "retry"}
  Reserve <- OneLeft
CHECK_DEADLOCK FALSE
INVARIANTS
  DeploymentTypeOK
  NamesExist
  SuccessorsRunnable
  StrandedOnlyWhenStruck
  RunsStopOnlyWhenStruck
  LatestResultPassedOn
  UncompensatedOnlyWhenStruck
