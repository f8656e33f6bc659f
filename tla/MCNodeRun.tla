----------------------------- MODULE MCNodeRun ------------------------------
(***************************************************************************)
(* Model-checking instance of NodeRun.  One connection is enough: what two *)
(* have to do with each other is only that Serve accepts both.             *)
(***************************************************************************)
EXTENDS NodeRun

CONSTANTS k1

MCConn == {k1}
=============================================================================
