SPECIFICATION Spec
CONSTANTS
  c1 = c1
  c2 = c2
  Caller <- TwoCallers
  MaxCalls = 2
CHECK_DEADLOCK FALSE
INVARIANTS
  ArgumentFollowsHeader
