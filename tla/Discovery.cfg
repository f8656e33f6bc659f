SPECIFICATION FairSpec
CONSTANTS
  me = me
  peer = peer
  b1 = b1
  Node = {me, peer}
  Oid = {b1}
  Me = me
INVARIANTS
  TypeOK
  FoundNodesHeldBlock
PROPERTIES
  OnlyItselfWithdraws
  EventuallyFound
