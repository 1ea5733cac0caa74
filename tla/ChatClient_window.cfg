SPECIFICATION FairSpec
CONSTANTS
  MaxSessions = 2
  MaxTexts = 1
  MaxTurns = 3
  MaxCalls = 2
  MaxFaults = 1
INVARIANTS TypeOK RestIsCoherent SentOnce
PROPERTIES BusyEnds
CHECK_DEADLOCK FALSE
