---------------------------- MODULE MCSwarmSync -----------------------------
(***************************************************************************)
(* Model-checking instances of SwarmSync.  The content of a block is fixed *)
(* by its update time, as for the one command that originates metadata.    *)
(***************************************************************************)
EXTENDS SwarmSync, TLC

CONSTANTS n1, n2, n3, o1, o2, live

Nodes2 == {n1, n2}
Nodes3 == {n1, n2, n3}
Oids2 == {o1, o2}
Oids1 == {o1}
Times1 == {1}
Times2 == 1 .. 2
OneContent == {live}

\* time.Now() always carries a fraction of a second.
FromInfo == { md \in Metadata : md.sub }

\* One block is written twice, the other only once.
OneRewritten == { md \in FromInfo : md.oid = o2 => md.time = 1 }

\* Bound of the safety run: no state beyond one with more than four journal
\* records ever put, over both nodes, is expanded.
MaxRecords == 4
JournalsFit == LastKey(index[n1]) + LastKey(index[n2]) <= MaxRecords

\* The nodes of N have run once, announced their empty journals and stopped.  From
\* here the nodes can do whatever they can from Init: emptyAnns only enables steps.
EmptyHeard(N) ==
  /\ up = {}
  /\ index = [n \in Node |-> EmptyIndex]
  /\ known = [n \in Node |-> [p \in Node |-> 0]]
  /\ announced = [n \in Node |-> 0]
  /\ emptyAnns = N
  /\ blockAnns = {}
  /\ sync = [n \in Node |-> NoSync]

EmptyHeardSpec == EmptyHeard(Node) /\ [][Next]_vars

\* The liveness runs bound the stops.  Convergence asks for a time from which no
\* process stops, so what matters of the stops is the state they leave behind.
StaysUp(N) == N \cap up \subseteq up'

\* n1 stays up once it is started; n2 is stopped and started at any point.
OneRestartsSpec == EmptyHeard({n2}) /\ [][Next /\ StaysUp({n1})]_vars /\ Fairness

\* Nodes start late, in any order, and stay up.  Cursors that cannot be read are
\* left to the runs with two nodes.
LateStarts == StaysUp(Node) /\ \A n, p \in Node : ~ GetFails(n, p)

LateStartsSpec == EmptyHeard(Node) /\ [][Next /\ LateStarts]_vars /\ Fairness

Symmetry2 == Permutations(Nodes2)
=============================================================================
