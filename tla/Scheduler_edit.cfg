SPECIFICATION Spec
CONSTANTS
  j1 = j1
  k1 = k1
  e1 = e1
  Jobs = {j1}
  Crons = {1, 2}
  NextFire <- Periodic
  Manuals = {k1}
  Editors = {e1}
  MaxTime = 2
  MaxRevision = 2
  MaxFaults = 0
  Hazards = {}
INVARIANTS
  NeverALostWrite
CHECK_DEADLOCK FALSE
