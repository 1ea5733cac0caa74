\* The trace endpoint beside the others, with restarts and failed writes, for
\* requests of the PIPELINE path.
SPECIFICATION FairSpec
CONSTANTS
  t1 = t1
  t2 = t2
  t3 = t3
  NoTrace = NoTrace
  Traces <- Two
  ApproveRoutes = {"form", "api", "trace"}
  Paths = {"pipeline"}
  Tools <- MCTools
  Allowed <- MCAllowed
  Queries <- MCQueries
  CallOf <- SameCall
  RateLimit = 2
  MaxCache = 1
  MaxRestarts = 2
  MaxFaults = 2
INVARIANTS CallsFollowDecisions RepeatsAreExcused PendingIsBacked AwaitingIsListed CacheMatchesStore
PROPERTIES DecidedIsSettled
