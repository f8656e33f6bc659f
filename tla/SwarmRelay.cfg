SPECIFICATION LateStartsSpec
CONSTANTS
  n1 = n1
  n2 = n2
  n3 = n3
  o1 = o1
  o2 = o2
  live = live
  Node <- Nodes3
  Oid <- Oids1
  Time <- Times1
  Content <- OneContent
  Writable <- FromInfo
  Discovered = {}
  BatchSize = 1
  MaxSeq = 1
PROPERTIES
  Converges
