---------------------------- MODULE MCBlockIndex ----------------------------
(***************************************************************************)
(* Model-checking instance of BlockIndex: two blocks, two update times and *)
(* two contents, so that a block can be written twice at the same second,  *)
(* and both in order and out of order.                                     *)
(***************************************************************************)
EXTENDS IndexKeys, TLC

CONSTANTS o1, o2, live, deleted

MCOid == {o1, o2}
MCTime == 1 .. 2
MCContent == {live, deleted}
MCSymmetry == Permutations(MCOid) \cup Permutations(MCContent)
=============================================================================
