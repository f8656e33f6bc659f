---------------------------- MODULE MCDiscovery ----------------------------
(***************************************************************************)
(* Model checking of Discovery: the node that looks for a block and one    *)
(* other node.  Each of them also answers itself.                          *)
(***************************************************************************)
EXTENDS Discovery

CONSTANTS me, peer, b1
=============================================================================
