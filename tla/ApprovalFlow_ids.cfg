SPECIFICATION Spec
CONSTANTS
  t1 = t1
  t2 = t2
  t3 = t3
  NoTrace = NoTrace
  Traces <- Three
  ApproveRoutes = {"form", "api"}
  Paths = {"pipeline", "direct"}
  Tools <- MCTools
  Allowed <- MCAllowed
  Queries <- MCQueries
  CallOf <- ThreeCalls
  RateLimit = 2
  MaxCache = 1
  MaxRestarts = 1
  MaxFaults = 1
INVARIANTS TypeOK DuplicateWasExecuted PendingStaysOpen LimitIsKept
PROPERTIES ImplementsHumanGate
