SPECIFICATION FairSpec
CONSTANTS
  None = None
  MaxTurns = 2
  MaxConn = 2
  MaxBytes = 2
  MaxWire = 1
  MaxStops = 1
  Faults = {"drop", "no_mic"}
CHECK_DEADLOCK FALSE
INVARIANTS TypeOK OneAnswerPerTurn
PROPERTIES SessionsEnd ThinkingEnds
