SPECIFICATION Spec
CONSTANTS
  u1 = u1
  u2 = u2
  s1 = s1
  d1 = d1
  d2 = d2
  q1 = q1
  q2 = q2
  q3 = q3
  Users = {u1}
  Matters = {"m"}
  Sessions = {s1}
  Auditors = {}
  DefaultUser = DefaultUser
  Docs = {}
  MatterOf <- MCMatterOf
  Texts = {"ask"}
  Normal <- MCNormal
  Queries = {q1, q2}
  Nobody = Nobody
INVARIANT DeletedStaysDeleted
