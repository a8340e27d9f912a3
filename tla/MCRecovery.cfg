\* One GitHub request with blocked rows queued again.
SPECIFICATION Spec
CONSTANTS
  w1 = w1
  w2 = w2
  g1 = g1
  Worker = {w1, w2}
  Service = {"brain"}
  ServiceOf <- TwoBrains
  Priority = {0}
  MaxTasks = 6
  PhaseFlow <- ShortFlow
  ReworkLimit = 1
  FailureEvent = {"git_push_failed", "repository_prepare_failed"}
  MaxRequests = 1
  PlainTasks = FALSE
  BareRows = FALSE
  BlockedRecovery = TRUE
CHECK_DEADLOCK FALSE
SYMMETRY BrainSymmetry
INVARIANTS
  OnlyNewestUnfinished
  RootMirrorsChain
  PhaseRunOnce
PROPERTY DecidedStaysDecided
