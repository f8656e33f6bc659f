SPECIFICATION Spec
CONSTANTS
  c1 = c1
  c2 = c2
  i1 = i1
  i2 = i2
  i3 = i3
  i4 = i4
  HashLen = 2
  Caller <- MCCaller
  Block <- MCBlock
  Stray <- MCStray
  Inode <- MCInode
  Pieces = 2
SYMMETRY MCSymmetry
INVARIANTS
  TypeOK
  FilesWhole
  AcknowledgedStays
  GetIsWhole
  EnumerateIsComplete
