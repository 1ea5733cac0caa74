SPECIFICATION FairSpec
CONSTANTS
  Demo = Demo
  Accounts = {Demo, Other}
  None = None
  Tabs = {1, 2}
  MaxCalls = 2
  MaxTurns = 2
INVARIANTS TypeOK ProfileIsOwn SignedInAtRest
PROPERTIES NewTokenIsAccepted TabsComeToRest
