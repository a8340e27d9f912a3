SPECIFICATION Spec
CONSTANTS
  c1 = c1
  c2 = c2
  t1 = t1
  t2 = t2
  p1 = p1
  p2 = p2
  p3 = p3
  Caller = {c1, c2}
  Task = {t1, t2}
  Port = {p1, p2, p3}
  PortCount = 1
  MaxAttempts = 2
  Nobody = Nobody
SYMMETRY DindSymmetry
INVARIANT NothingLeftBehind
INVARIANT BoundPortsReserved
PROPERTY OnlyOwnRemoved
