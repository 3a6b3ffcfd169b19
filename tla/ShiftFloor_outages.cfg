SPECIFICATION OutagesSpec
CONSTANTS
  Shift = {s1, s2, s3}
  Glasses = g
  None = None
  Gap = 1
  Keep = 1
  MaxTime = 2
  MaxSock = 3
  MaxQueued = 3
  MaxReplay = 3
  Faults = {"drop", "switch", "status"}
SYMMETRY Symmetry
INVARIANTS TypeOK BeatsReachTheirShift FloorOneOpenPerGlasses
PROPERTIES BufferKept FloorOneShiftPerOuting
