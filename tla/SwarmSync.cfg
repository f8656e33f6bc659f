SPECIFICATION EmptyHeardSpec
CONSTANTS
  n1 = n1
  n2 = n2
  n3 = n3
  o1 = o1
  o2 = o2
  live = live
  Node <- Nodes2
  Oid <- Oids2
  Time <- Times2
  Content <- OneContent
  Writable <- OneRewritten
  Discovered <- Oids1
  BatchSize = 2
  MaxSeq = 2
CONSTRAINT JournalsFit
SYMMETRY Symmetry2
INVARIANTS
  TypeOK
  IndexesWellFormed
  SeqFollowsJournal
  CursorCovered
  FlightsCovered
  SyncedNodesAgree
PROPERTIES
  IndexesGrow
  ImplementsReplicatedIndex
  OnlyCommandsWrite
