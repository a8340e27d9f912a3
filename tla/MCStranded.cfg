\* What an LLM failure leaves behind.
SPECIFICATION Spec
CONSTANTS
  w1 = w1
  w2 = w2
  g1 = g1
  Worker = {w1, w2}
  Service = {"brain"}
  ServiceOf <- TwoBrains
  Priority = {0}
  MaxTasks = 4
  PhaseFlow <- ShortFlow
  ReworkLimit = 0
  FailureEvent = {"git_push_failed"}
  MaxRequests = 1
  PlainTasks = FALSE
  BareRows = FALSE
  BlockedRecovery = FALSE
CHECK_DEADLOCK FALSE
INVARIANT NoStrandedRoot
