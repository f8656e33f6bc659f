------------------------------ MODULE IndexOps ------------------------------
(***************************************************************************)
(* Block metadata and the block index as values: what one node's LevelDB   *)
(* block index holds and what each operation of datastore/leveldb/         *)
(* blockindex.go computes from it.  BlockIndex.tla wraps these operators   *)
(* in the life of one process; SwarmSync.tla gives every node an index.    *)
(*                                                                         *)
(* An index is a record                                                    *)
(*   byOid  the "OID..." keys: a function from the stored OIDs to entries  *)
(*   bySeq  the "SEQ..." keys: a function from the stored sequence numbers *)
(*          to entries, i.e. the journal                                   *)
(*   seq    BlockIndex.seq, which is in memory only                        *)
(***************************************************************************)
EXTENDS Naturals, FiniteSets

CONSTANTS
  Oid,      \* block identifiers
  Time,     \* UpdateTime, in whole seconds
  Content   \* the rest of the metadata: Length and IsDeleted

ASSUME TimeAssumption == Time \subseteq Nat

(***************************************************************************)
(* sub tells an UpdateTime straight from time.Now(), which carries a       *)
(* fraction of a second and a monotonic reading, from one that was decoded *)
(* from CBOR, whose default encoding of time is whole seconds.             *)
(***************************************************************************)
Metadata == [oid : Oid, time : Time, sub : BOOLEAN, content : Content]

\* What a metadata record is after cbor.Marshal and cbor.Unmarshal.
Encode(md) == [oid |-> md.oid, time |-> md.time, sub |-> FALSE, content |-> md.content]

StoredMetadata == { md \in Metadata : ~ md.sub }

Entry == [seq : Nat, md : StoredMetadata]

EmptyIndex == [byOid |-> [o \in {} |-> o], bySeq |-> [s \in {} |-> s], seq |-> 0]

-----------------------------------------------------------------------------

\* A key-value write: f with key k set to v.
SetKey(f, k, v) == [x \in DOMAIN f \cup {k} |-> IF x = k THEN v ELSE f[x]]

\* The greatest key of the journal, 0 for an empty one.
LastKey(ix) ==
  IF DOMAIN ix.bySeq = {} THEN 0
  ELSE CHOOSE s \in DOMAIN ix.bySeq : \A t \in DOMAIN ix.bySeq : t <= s

\* Mutant: the sequence is recovered by counting the indexed blocks.
RecoverByCount(ix) ==
  [byOid |-> ix.byOid, bySeq |-> ix.bySeq, seq |-> Cardinality(DOMAIN ix.byOid)]

\* NewBlockIndex: the sequence restarts from the last journal key.
Recover(ix) == [byOid |-> ix.byOid, bySeq |-> ix.bySeq, seq |-> LastKey(ix)]

-----------------------------------------------------------------------------

IsMetadataEqual(a, b) == a = b

\* time.Time.After for an a that was decoded (no fraction of a second).
After(a, b) == a.time > b.time

\* Mutant: Put does not compare the update times.
SkipsEqualOnly(ix, md) ==
  /\ md.oid \in DOMAIN ix.byOid
  /\ IsMetadataEqual(ix.byOid[md.oid].md, md)

\* Put leaves the index alone: the stored metadata is equal or more fresh.
Skips(ix, md) ==
  /\ md.oid \in DOMAIN ix.byOid
  /\ \/ IsMetadataEqual(ix.byOid[md.oid].md, md)
     \/ After(ix.byOid[md.oid].md, md)

\* Mutant: the entry keeps the writer's in-memory metadata.
NewEntryUnencoded(ix, md) == [seq |-> ix.seq + 1, md |-> md]

\* The entry that Put stores under both keys.
NewEntry(ix, md) == [seq |-> ix.seq + 1, md |-> Encode(md)]

\* Mutant: the journal record is written before the index record is merged.
WriteJournalOnly(ix, e) ==
  [byOid |-> IF e.md.oid \in DOMAIN ix.byOid THEN ix.byOid
             ELSE SetKey(ix.byOid, e.md.oid, e),
   bySeq |-> SetKey(ix.bySeq, e.seq, e),
   seq   |-> ix.seq]

\* The atomic LevelDB batch: OID -> entry and SEQ -> entry.
WriteBatch(ix, e) ==
  [byOid |-> SetKey(ix.byOid, e.md.oid, e),
   bySeq |-> SetKey(ix.bySeq, e.seq, e),
   seq   |-> ix.seq]

\* The whole of Put when the database accepts the write.
Put(ix, md) ==
  IF Skips(ix, md) THEN ix
  ELSE LET e == NewEntry(ix, md)
           w == WriteBatch(ix, e)
       IN  [byOid |-> w.byOid, bySeq |-> w.bySeq, seq |-> e.seq]

-----------------------------------------------------------------------------

\* The tracked entry of a block that is in the index.
GetByOid(ix, o) == ix.byOid[o]

\* Mutant: the range leaves out its first key.
EnumerateAfter(ix, start, end) ==
  { ix.bySeq[s] : s \in { t \in DOMAIN ix.bySeq : start < t /\ t < end } }

\* The journal entries with start <= seq < end; LevelDB's Limit is exclusive.
EnumerateBySeq(ix, start, end) ==
  { ix.bySeq[s] : s \in { t \in DOMAIN ix.bySeq : start <= t /\ t < end } }

-----------------------------------------------------------------------------

\* What is left when LevelDB's log is cut after the batch of journal key k:
\* the batches are in journal order, and no process has the database open.
CutJournal(ix, k) ==
  LET journal == [s \in { t \in DOMAIN ix.bySeq : t <= k } |-> ix.bySeq[s]]
      oids == { journal[s].md.oid : s \in DOMAIN journal }
  IN  [ byOid |-> [o \in oids |->
          journal[CHOOSE s \in DOMAIN journal :
            /\ journal[s].md.oid = o
            /\ \A t \in DOMAIN journal : journal[t].md.oid = o => t <= s]],
        bySeq |-> journal,
        seq   |-> 0 ]

-----------------------------------------------------------------------------

\* The index holds metadata of md's block that is at least as fresh as md.
Covers(ix, md) ==
  /\ md.oid \in DOMAIN ix.byOid
  /\ ix.byOid[md.oid].md.time >= md.time

\* The journal's keys have no hole and each entry carries its own key.
DenseJournal(ix) ==
  /\ LastKey(ix) \in Nat
  /\ DOMAIN ix.bySeq = 1 .. LastKey(ix)
  /\ \A s \in DOMAIN ix.bySeq : ix.bySeq[s].seq = s

\* Replaying the journal in order gives the index: the two kinds of keys agree.
JournalReplays(ix) ==
  /\ \A o \in DOMAIN ix.byOid :
       /\ ix.byOid[o].seq \in DOMAIN ix.bySeq
       /\ ix.bySeq[ix.byOid[o].seq] = ix.byOid[o]
       /\ ix.byOid[o].md.oid = o
  /\ \A s \in DOMAIN ix.bySeq :
       LET o == ix.bySeq[s].md.oid IN
         /\ o \in DOMAIN ix.byOid
         /\ s <= ix.byOid[o].seq

\* A block's entries only ever get fresher along the journal.
JournalFreshens(ix) ==
  \A s, t \in DOMAIN ix.bySeq :
    s <= t /\ ix.bySeq[s].md.oid = ix.bySeq[t].md.oid
      => ix.bySeq[s].md.time <= ix.bySeq[t].md.time

WellFormed(ix) == DenseJournal(ix) /\ JournalReplays(ix) /\ JournalFreshens(ix)

\* From a to b the journal is only extended and no block's metadata gets older.
Grows(a, b) ==
  /\ \A s \in DOMAIN a.bySeq :
       /\ s \in DOMAIN b.bySeq
       /\ b.bySeq[s] = a.bySeq[s]
  /\ \A o \in DOMAIN a.byOid :
       /\ o \in DOMAIN b.byOid
       /\ b.byOid[o].md.time >= a.byOid[o].md.time

\* a holds all that b's journal holds up to sequence number k, or fresher.
CoversUpTo(a, b, k) ==
  \A s \in DOMAIN b.bySeq : s <= k => Covers(a, b.bySeq[s].md)

\* The entries are records of ix's journal after k, and none is left out that
\* comes before one of them.
FollowsInJournal(ix, k, entries) ==
  \A e \in entries :
    /\ e.seq \in DOMAIN ix.bySeq
    /\ ix.bySeq[e.seq] = e
    /\ k < e.seq
    /\ \A s \in DOMAIN ix.bySeq : k < s /\ s <= e.seq => ix.bySeq[s] \in entries

\* The values an index can take.
IndexType(ix) ==
  /\ ix = [byOid |-> ix.byOid, bySeq |-> ix.bySeq, seq |-> ix.seq]
  /\ ix.byOid = [o \in DOMAIN ix.byOid |-> ix.byOid[o]]
  /\ ix.bySeq = [s \in DOMAIN ix.bySeq |-> ix.bySeq[s]]
  /\ DOMAIN ix.byOid \subseteq Oid
  /\ DOMAIN ix.bySeq \subseteq Nat \ {0}
  /\ \A o \in DOMAIN ix.byOid : ix.byOid[o] \in Entry
  /\ \A s \in DOMAIN ix.bySeq : ix.bySeq[s] \in Entry
  /\ ix.seq \in Nat
=============================================================================
