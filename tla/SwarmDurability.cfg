SPECIFICATION DSpec
CONSTANTS
  n1 = n1
  n2 = n2
  o1 = o1
  live = live
  Node <- MCNode
  Oid <- MCOid
  Time <- MCTime
  Content <- MCContent
  Writable <- FromInfo
  Discovered = {}
  BatchSize = 2
  MaxSeq = 1
INVARIANTS
  CursorPersistedLast
