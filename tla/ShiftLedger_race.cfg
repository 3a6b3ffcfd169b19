SPECIFICATION Spec
CONSTANTS
  Shift = {s1, s2}
  Serial = {g1}
  User = {}
  Stamp = {d1}
  Caller = {c1, c2}
  Claims = {"lunch"}
  Gap = 1
  Keep = 1
  MaxTime = 2
  None = None
SYMMETRY Symmetry
INVARIANTS TypeOK OneRowPerClockIn ClosedHonestly
PROPERTIES HistoryFixed
