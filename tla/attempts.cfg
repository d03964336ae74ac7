SPECIFICATION FairSpec
CONSTANTS
  Id = {t1}
  NoId = NoId
  Slot = {s1, s2, s3}
  MaxRetries = 2
  Lossy = FALSE
  Faults = FALSE
  Flaky = TRUE
  NewTask <- HttpTask
  RetryCap = 3
  MsgCap = 2
  Api = {"create", "retry", "requeue", "cancel"}
  Reserve <- NoneLeft
CHECK_DEADLOCK FALSE
INVARIANTS
  TypeOK
  FailedIsExhausted
  CompletedHasProduct
  ProcessingHasOwner
  PendingIsCarried
PROPERTIES
  ImplementsLedger
  ProcessingEnds
