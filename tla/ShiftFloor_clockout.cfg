SPECIFICATION Spec
CONSTANTS
  Shift = {s1, s2}
  Glasses = g
  None = None
  Gap = 1
  Keep = 1
  MaxTime = 0
  MaxSock = 2
  MaxQueued = 2
  MaxReplay = 2
  Faults = {"drop", "pagehide"}
PROPERTIES ClockOutDelivered
