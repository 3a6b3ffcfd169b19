SPECIFICATION FairSpec
CONSTANTS
  Shift = {s1, s2}
  Glasses = g
  None = None
  Gap = 1
  Keep = 1
  MaxTime = 2
  MaxSock = 2
  MaxQueued = 2
  MaxReplay = 2
  Faults = {"kill", "pagehide", "slow_store", "unreachable", "lost_answer", "status", "offline_launch"}
PROPERTIES EveryStartAnswered StaleIsClosed
