------------------------------ MODULE MCFlatFS ------------------------------
(***************************************************************************)
(* Model-checking instance of FlatFS: two goroutines on two blocks, one of *)
(* type OidTypeRawBlock and one of OidTypeObject, in two pieces each.  In  *)
(* the directory of the first are two files that are no blocks: one name   *)
(* has a byte of padding that is not zero and ends with a line end, the    *)
(* other is not base32.                                                    *)
(***************************************************************************)
EXTENDS FlatFS, TLC

CONSTANTS c1, c2, i1, i2, i3, i4

MCCaller == {c1, c2}
MCHash == <<1, 2>>
RawBlock == Encode(8, MCHash)
Object == Encode(112, MCHash)
MCBlock == {RawBlock, Object}
MCStray ==
  { [dir |-> Shard(RawBlock), name |-> Append(EncodeToString(<<8, 0, 1>> \o MCHash), 32)],
    [dir |-> Shard(RawBlock), name |-> Append(RawBlock.s, 99)] }
MCInode == {i1, i2, i3, i4}
MCSymmetry == Permutations(MCCaller) \cup Permutations(MCInode)
=============================================================================
