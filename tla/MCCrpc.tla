------------------------------- MODULE MCCrpc -------------------------------
(***************************************************************************)
(* Model-checking instance of Crpc: two goroutines that share one client.  *)
(***************************************************************************)
EXTENDS Crpc

CONSTANTS c1, c2

TwoCallers == {c1, c2}
=============================================================================
