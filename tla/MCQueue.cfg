\* Requests with and without repository, and rows without payload, on two
\* services; a rejected audit cannot go on from phase 4 of this flow.
SPECIFICATION FairSpec
CONSTANTS
  w1 = w1
  w2 = w2
  g1 = g1
  Worker = {w1, g1}
  Service = {"brain", "guardian"}
  ServiceOf <- OneOfEach
  Priority = {0, 1}
  MaxTasks = 8
  PhaseFlow <- NoReworkFlow
  ReworkLimit = 1
  FailureEvent = {"git_push_failed"}
  MaxRequests = 2
  PlainTasks = TRUE
  BareRows = TRUE
  BlockedRecovery = FALSE
CHECK_DEADLOCK FALSE
INVARIANT RunningRootExplained
PROPERTY ZombiesRequeued
