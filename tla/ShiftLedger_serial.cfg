SPECIFICATION SerialisedSpec
CONSTANTS
  Shift = {s1, s2}
  Serial = {g1}
  User = {u1}
  Stamp = {}
  Caller = {c1, c2}
  Claims = {}
  Gap = 1
  Keep = 1
  MaxTime = 2
  None = None
SYMMETRY Symmetry
INVARIANTS NoOverlap
PROPERTIES KeepsPromise
