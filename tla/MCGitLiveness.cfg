SPECIFICATION FairSpec
CONSTANTS
  w1 = w1
  w2 = w2
  a1 = a1
  a2 = a2
  Worker = {w1}
  Approver = {a1}
  Nobody = Nobody
  Flow <- ShortFlow
  MaxRework = 1
  Fragile = {w1, a1}
  Outside = {"push_main", "push_work", "drop_main"}
  MaxFaults = 1
CHECK_DEADLOCK FALSE
PROPERTY ApprovalDecides
PROPERTY PhasesEnd
