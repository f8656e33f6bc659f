SPECIFICATION Spec
CONSTANTS
  o1 = o1
  o2 = o2
  live = live
  deleted = deleted
  Oid <- MCOid
  Time <- MCTime
  Content <- MCContent
  MaxSeq = 3
  PowerLoss = FALSE
  Base = 2
  Width = 3
INVARIANTS
  AppliedOnlyIfNewer
