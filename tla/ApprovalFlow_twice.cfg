\* A restart between the tool call and the save, then a retry on the trace endpoint.
SPECIFICATION Spec
CONSTANTS
  t1 = t1
  t2 = t2
  t3 = t3
  NoTrace = NoTrace
  Traces <- Two
  ApproveRoutes = {"form", "trace"}
  Paths = {"pipeline"}
  Tools <- MCTools
  Allowed <- MCAllowed
  Queries <- MCQueries
  CallOf <- SameCall
  RateLimit = 2
  MaxCache = 1
  MaxRestarts = 1
  MaxFaults = 0
INVARIANT AtMostOnce
