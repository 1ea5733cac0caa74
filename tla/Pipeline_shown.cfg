SPECIFICATION Spec
CONSTANTS
  c1 = c1
  c2 = c2
  c3 = c3
  w1 = w1
  UserQuery = UserQuery
  Chunks <- MCChunks
  WebChunks <- MCWebChunks
  Matters <- MCMatters
  MatterOf <- MCMatterOf
  KindOf <- MCKindOf
  Policy = "pass_through"
  ClassifierReplies = {"clean", "suspicious", "blocked", "unparsable", "failed"}
  AuditMayFail = FALSE
INVARIANTS ShownIsValidated
CHECK_DEADLOCK FALSE
