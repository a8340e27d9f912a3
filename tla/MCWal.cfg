SPECIFICATION Spec
CONSTANTS
  s1 = s1
  s2 = s2
  e1 = e1
  e2 = e2
  Service = {s1, s2}
  Record = {e1, e2}
  NoService = NoService
  MaxPending = 4
SYMMETRY WalSymmetry
INVARIANT SavedUntilLogged
INVARIANT KeptUntilLogged
INVARIANT InsertedOnce
PROPERTY ReplayDrains
