\* Two GitHub requests at once on a short flow with one round of rework.
SPECIFICATION Spec
CONSTANTS
  w1 = w1
  w2 = w2
  g1 = g1
  Worker = {w1, w2}
  Service = {"brain"}
  ServiceOf <- TwoBrains
  Priority = {0}
  MaxTasks = 12
  PhaseFlow <- ShortFlow
  ReworkLimit = 1
  FailureEvent = {"git_push_failed"}
  MaxRequests = 2
  PlainTasks = FALSE
  BareRows = FALSE
  BlockedRecovery = FALSE
CHECK_DEADLOCK FALSE
SYMMETRY BrainSymmetry
INVARIANTS
  LeaseExclusive
  ChainOrder
  ApprovalGate
PROPERTIES
  OnlyAllowedTransitions
  ImplementsLifecycle
