SPECIFICATION FairSpec
CONSTANTS
  w1 = w1
  w2 = w2
  a1 = a1
  a2 = a2
  Worker = {w1}
  Approver = {a1}
  Nobody = Nobody
  Flow <- ShortFlow
  MaxRework = 0
  Fragile = {}
  Outside = {}
  MaxFaults = 0
CHECK_DEADLOCK FALSE
PROPERTY LeftoverBranchRemoved
