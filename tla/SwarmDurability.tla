-------------------------- MODULE SwarmDurability ---------------------------
(***************************************************************************)
(* SwarmSync on machines that can stop.  A node keeps its block index and  *)
(* its node index in two LevelDB databases and asks neither to sync its    *)
(* writes, so each comes back with some prefix of its writes and the two   *)
(* prefixes have nothing to do with each other.                            *)
(***************************************************************************)
EXTENDS SwarmSync, Sequences

VARIABLE past  \* past[n]: the contents n's node index has had, in their order

dvars == <<vars, past>>

DInit == Init /\ past = [n \in Node |-> <<known[n]>>]

\* The machine of node n stops; both databases lose what was not written back.
MachineStop(n) ==
  /\ up' = up \ {n}
  /\ \E k \in {0} \cup DOMAIN index[n].bySeq :
       index' = [index EXCEPT ![n] = CutJournal(@, k)]
  /\ \E k \in DOMAIN past[n] :
       /\ known' = [known EXCEPT ![n] = past[n][k]]
       /\ past' = [past EXCEPT ![n] = SubSeq(@, 1, k)]
  /\ sync' = Disconnect(n)
  /\ UNCHANGED <<announced, emptyAnns, blockAnns>>

DNext ==
  \/ /\ Next
     /\ past' = [n \in Node |->
          IF known'[n] = known[n] THEN past[n] ELSE Append(past[n], known'[n])]
  \/ \E n \in Node : MachineStop(n)

DSpec == DInit /\ [][DNext]_dvars

\* docs/concepts.md:102: the cursor for a peer moves if and only if the metadata
\* received up to it was updated and persisted on disk.  So whatever the cursor
\* claims is in the block index when the machine comes back.
CursorPersistedLast ==
  \A n, p \in Node : n # p => CoversUpTo(index[n], index[p], known[n][p])
=============================================================================
