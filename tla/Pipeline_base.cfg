SPECIFICATION FairSpec
CONSTANTS
  c1 = c1
  c2 = c2
  c3 = c3
  w1 = w1
  UserQuery = UserQuery
  Chunks <- MCFewChunks
  WebChunks <- MCWebChunks
  Matters <- MCMatters
  MatterOf <- MCMatterOf
  KindOf <- MCKindOf
  Policy = "flag_in_answer"
  ClassifierReplies = {"clean", "suspicious", "blocked", "unparsable", "failed", "raised"}
  AuditMayFail = TRUE
INVARIANTS TypeOK CitedIsCleared BlockedTextStaysOut EndIsValidated AuditJustifiesRequest TraceTellsRisk TraceTellsPath SuspiciousIsFlagged
PROPERTIES FollowsGraph RunEnds ImplementsGuardedAnswer
CHECK_DEADLOCK FALSE
