SPECIFICATION Spec
CONSTANTS
  w1 = w1
  w2 = w2
  a1 = a1
  a2 = a2
  Worker = {w1}
  Approver = {a1, a2}
  Nobody = Nobody
  Flow <- ShortFlow
  MaxRework = 1
  Fragile = {a1, a2}
  Outside = {"push_main"}
  MaxFaults = 2
CHECK_DEADLOCK FALSE
SYMMETRY ApproverSymmetry
INVARIANT RecordedWorkOnRemote
INVARIANT PushIsFastForward
INVARIANT MergedIsAudited
INVARIANT SucceededMeansMerged
INVARIANT MergedOnce
PROPERTY BranchKeptUntilMerged
PROPERTY StepsOfLifecycle
