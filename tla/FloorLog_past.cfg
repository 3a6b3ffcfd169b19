SPECIFICATION LogSpec
CONSTANTS
  Person = {p1, p2}
  Serial = {g1}
  Call = {c1}
  Stamp = {d1}
  MaxDay = 1
  Sale = {1}
  MaxActs = 1
  MaxTogether = 1
  None = None
CHECK_DEADLOCK FALSE
PROPERTIES PastNumbersStand
