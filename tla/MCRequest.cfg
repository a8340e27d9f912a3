\* One GitHub request on the real flow and rework limit, with a person looking at it.
SPECIFICATION PageSpec
CONSTANTS
  w1 = w1
  w2 = w2
  g1 = g1
  Worker = {w1, w2, g1}
  Service = {"brain", "guardian"}
  ServiceOf <- WithGuardian
  Priority = {0}
  MaxTasks = 13
  PhaseFlow <- FullFlow
  ReworkLimit = 3
  FailureEvent = {"git_push_failed", "repository_prepare_failed"}
  MaxRequests = 1
  PlainTasks = FALSE
  BareRows = FALSE
  BlockedRecovery = FALSE
CHECK_DEADLOCK FALSE
INVARIANT PageAgrees
PROPERTIES
  HandOver
  RequestSettles
