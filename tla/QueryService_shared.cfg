SPECIFICATION Spec
CONSTANTS
  u1 = u1
  u2 = u2
  s1 = s1
  d1 = d1
  d2 = d2
  q1 = q1
  q2 = q2
  q3 = q3
  Users = {u1, u2}
  Matters = {"m"}
  Sessions = {s1}
  Auditors = {u2}
  DefaultUser = DefaultUser
  Docs = {d1}
  MatterOf <- MCMatterOf
  Texts = {"ask", "ASK"}
  Normal <- MCNormal
  Queries = {q1, q2}
  Nobody = Nobody
INVARIANTS TypeOK AnswersAreAuthorized TurnsStayTogether RunIsRecorded
PROPERTIES ImplementsAnswerService
SYMMETRY Interchangeable
