----------------------------- MODULE BlockIndex -----------------------------
(***************************************************************************)
(* One node's block index over the life of the processes that open it:     *)
(* datastore/leveldb/blockindex.go on top of a LevelDB database whose      *)
(* writes are not synced (the write options are nil).                      *)
(*                                                                         *)
(* Every method holds l.mu from start to end, so the methods never         *)
(* interleave; but the process, or the machine, can stop between the       *)
(* database write of Put and the assignment to l.seq that follows it.      *)
(***************************************************************************)
EXTENDS IndexOps

CONSTANTS
  MaxSeq,     \* bound of the model: Put is not called on a longer journal
  PowerLoss   \* TRUE when the machine can stop, not only the process

ASSUME MaxSeqAssumption == MaxSeq \in Nat
ASSUME PowerLossAssumption == PowerLoss \in BOOLEAN

VARIABLES
  index,    \* what the database holds and BlockIndex.seq
  open,     \* a process has the database open
  writing,  \* the sequence number Put has written but not yet kept, or 0
  flushed   \* the journal prefix the operating system has put on the disk

vars == <<index, open, writing, flushed>>

Init ==
  /\ index = EmptyIndex
  /\ open = FALSE
  /\ writing = 0
  /\ flushed = 0

-----------------------------------------------------------------------------

\* NewBlockIndex: one process at a time, LevelDB locks its directory.
Open ==
  /\ ~ open
  /\ index' = Recover(index)
  /\ open' = TRUE
  /\ UNCHANGED <<writing, flushed>>

\* Put up to and including db.Write; the lock stays taken.
PutWrite(md) ==
  /\ open
  /\ writing = 0
  /\ index.seq < MaxSeq
  /\ ~ Skips(index, md)
  /\ LET e == NewEntry(index, md) IN
       /\ index' = WriteBatch(index, e)
       /\ writing' = e.seq
  /\ UNCHANGED <<open, flushed>>

\* The rest of Put.
PutKeepSeq ==
  /\ open
  /\ writing # 0
  /\ index' = [index EXCEPT !.seq = writing]
  /\ writing' = 0
  /\ UNCHANGED <<open, flushed>>

\* Mutant: Vacuum does what its comment says.
VacuumObsolete ==
  /\ open
  /\ writing = 0
  /\ index' = [index EXCEPT !.bySeq =
       [s \in { t \in DOMAIN index.bySeq : \E o \in DOMAIN index.byOid : index.byOid[o].seq = t }
          |-> index.bySeq[s]]]
  /\ UNCHANGED <<open, writing, flushed>>

\* Vacuum takes the lock and does nothing.
Vacuum ==
  /\ open
  /\ writing = 0
  /\ UNCHANGED vars

\* The process exits or is killed; what it wrote stays with the system.
Stop ==
  /\ open
  /\ open' = FALSE
  /\ index' = [index EXCEPT !.seq = 0]
  /\ writing' = 0
  /\ UNCHANGED flushed

-----------------------------------------------------------------------------

\* The operating system writes back some of LevelDB's log.
WriteBack ==
  /\ PowerLoss
  /\ \E k \in DOMAIN index.bySeq :
       /\ flushed < k
       /\ flushed' = k
  /\ UNCHANGED <<index, open, writing>>

\* The machine stops: LevelDB's log is cut somewhere after what was flushed.
MachineStop ==
  /\ PowerLoss
  /\ \E k \in {0} \cup DOMAIN index.bySeq :
       /\ flushed <= k
       /\ index' = CutJournal(index, k)
       /\ flushed' = k
  /\ open' = FALSE
  /\ writing' = 0

Next ==
  \/ Open
  \/ \E md \in Metadata : PutWrite(md)
  \/ PutKeepSeq
  \/ Vacuum
  \/ Stop
  \/ WriteBack
  \/ MachineStop

Spec == Init /\ [][Next]_vars

-----------------------------------------------------------------------------

\* The database holds decoded metadata under well-typed keys.
TypeOK ==
  /\ IndexType(index)
  /\ open \in BOOLEAN
  /\ writing \in Nat
  /\ flushed \in Nat

\* The two kinds of keys describe one history: the journal has no hole, each
\* record carries the key it is under (so GetByOid and GetBySeq never report
\* ErrCorrupted), and a block's OID record is the last of its journal records,
\* whatever stopped between the batch and the assignment to seq.
JournalIsTheIndex == DenseJournal(index) /\ JournalReplays(index)

\* Put's order of the freshness checks makes the update times of a block grow
\* along the journal: no later record replaces a fresher one.
FreshnessGrows == JournalFreshens(index)

\* While no Put is between its two halves, the sequence in memory is the last
\* journal key, so that the next Put cannot overwrite a record.
SeqIsLastKey == open /\ writing = 0 => index.seq = LastKey(index)

\* What a syncing peer concludes from a batch shorter than it asked for
\* (swarm/node/node.go: "this was the last batch") is true of the journal:
\* there is nothing at or after the end of the range.
ShortBatchIsLast ==
  \A start \in 1 .. MaxSeq + 1, size \in 1 .. MaxSeq :
    Cardinality(EnumerateBySeq(index, start, start + size)) < size
      => \A s \in DOMAIN index.bySeq : s < start + size

\* A record that is on the disk is never rewritten and never disappears, even
\* over a crash between the two halves of Put: a peer's cursor stays valid.
FlushedJournalIsStable ==
  [][\A s \in 1 .. flushed :
       /\ s \in DOMAIN index'.bySeq
       /\ index'.bySeq[s] = index.bySeq[s]]_vars

\* docs/concepts.md:81, "a monotonically increasing counter of all operations":
\* no step takes back an operation that Put has counted.
CounterNeverGoesBack ==
  [][\A s \in 1 .. index.seq : s \in DOMAIN index'.bySeq]_vars

\* docs/concepts.md:106-108: a change to the tracked metadata of a block is
\* applied only if it is actually different and its update time is newer.
AppliedOnlyIfNewer ==
  \A s, t \in DOMAIN index.bySeq :
    /\ s < t
    /\ index.bySeq[s].md.oid = index.bySeq[t].md.oid
    /\ index.bySeq[s].md # index.bySeq[t].md
    => index.bySeq[s].md.time < index.bySeq[t].md.time
=============================================================================
