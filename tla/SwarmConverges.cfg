SPECIFICATION OneRestartsSpec
CONSTANTS
  n1 = n1
  n2 = n2
  n3 = n3
  o1 = o1
  o2 = o2
  live = live
  Node <- Nodes2
  Oid <- Oids1
  Time <- Times2
  Content <- OneContent
  Writable <- FromInfo
  Discovered <- Oids1
  BatchSize = 1
  MaxSeq = 2
PROPERTIES
  Converges
