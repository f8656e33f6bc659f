SPECIFICATION Spec
CONSTANTS
  o1 = o1
  o2 = o2
  live = live
  deleted = deleted
  Oid <- MCOid
  Time <- MCTime
  Content <- MCContent
  MaxSeq = 4
  PowerLoss = TRUE
  Base = 2
  Width = 3
SYMMETRY MCSymmetry
INVARIANTS
  TypeOK
  JournalIsTheIndex
  FreshnessGrows
  SeqIsLastKey
  ShortBatchIsLast
  ScansFollowNumbers
PROPERTIES
  FlushedJournalIsStable
