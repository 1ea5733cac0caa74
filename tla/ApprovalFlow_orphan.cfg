\* A request of the DIRECT_LLM or WEBSEARCH_LLM path has no queue row; the trace endpoint executes it.
SPECIFICATION Spec
CONSTANTS
  t1 = t1
  t2 = t2
  t3 = t3
  NoTrace = NoTrace
  Traces <- Two
  ApproveRoutes = {"trace"}
  Paths = {"pipeline", "direct", "web"}
  Tools <- MCTools
  Allowed <- MCAllowed
  Queries <- MCQueries
  CallOf <- SameCall
  RateLimit = 2
  MaxCache = 1
  MaxRestarts = 0
  MaxFaults = 0
INVARIANT GatedExecution
