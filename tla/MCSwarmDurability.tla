------------------------- MODULE MCSwarmDurability --------------------------
(***************************************************************************)
(* Two nodes, one block written at two times, machines that can stop.      *)
(***************************************************************************)
EXTENDS SwarmDurability

CONSTANTS n1, n2, o1, live

MCNode == {n1, n2}
MCOid == {o1}
MCTime == 1 .. 2
MCContent == {live}
FromInfo == { md \in Metadata : md.sub }
=============================================================================
