SPECIFICATION AdminSpec
CONSTANTS
  Id = {t1, t2}
  NoId = NoId
  Slot = {}
  MaxRetries = 3
  Lossy = FALSE
  Faults = TRUE
  Wf = {w1, w2}
  NoWf = NoWf
  Admin = {a1, a2}
  Active = {TRUE}
  SeedWf = {"failed", "running"}
  SeedType = {"fetch_orders"}
  SeedIndex = {2, 3}
  MaxStrikes = 1
SYMMETRY AdminSymmetry
CHECK_DEADLOCK FALSE
INVARIANTS
  AdminTypeOK
  RunningHasTask
  NoOrphans
  SeedsOnlyWhenGone
  ClearedWhatWasThere
