-------------------------- MODULE ReplicatedIndex --------------------------
(***************************************************************************)
(* What a swarm promises of its block metadata, with no journal, message   *)
(* or process in sight: every node has a view of the blocks; metadata      *)
(* enters the swarm at one node, spreads unchanged to others, and never    *)
(* replaces metadata of the same block that is fresher.                    *)
(***************************************************************************)
EXTENDS IndexOps

CONSTANTS
  Node,
  Writable   \* the metadata the program can originate

VARIABLES
  written,   \* the metadata some node has originated
  view       \* view[n]: node n's metadata of the blocks it knows

avars == <<written, view>>

AInit ==
  /\ written = {}
  /\ view = [n \in Node |-> [o \in {} |-> o]]

\* Nothing fresher than md is in node n's view.
NotFresher(n, md) ==
  md.oid \in DOMAIN view[n] => view[n][md.oid].time <= md.time

Adopt(n, md) ==
  /\ NotFresher(n, md)
  /\ view' = [view EXCEPT ![n] = SetKey(view[n], md.oid, md)]

\* New metadata is written at node n.
Write(n, md) ==
  /\ Adopt(n, md)
  /\ written' = written \cup {md}

\* Node n learns of metadata that was written before, there or elsewhere.
Learn(n, md) ==
  /\ md \in written
  /\ Adopt(n, md)
  /\ UNCHANGED written

ANext ==
  \E n \in Node :
    \/ \E md \in Writable : Write(n, Encode(md))
    \/ \E md \in written : Learn(n, md)

ASpec == AInit /\ [][ANext]_avars
=============================================================================
