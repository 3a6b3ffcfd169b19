SPECIFICATION FairSpec
CONSTANTS
  None = None
  MaxTurns = 2
  MaxConn = 1
  MaxBytes = 9
  MaxWire = 1
  MaxStops = 1
  Faults = {}
CHECK_DEADLOCK FALSE
PROPERTY MicCapHolds
