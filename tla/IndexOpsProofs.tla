--------------------------- MODULE IndexOpsProofs ---------------------------
(***************************************************************************)
(* What the operations on one index preserve, for every set of blocks,     *)
(* times and contents: the lemmas that the proofs about BlockIndex and     *)
(* SwarmSync rest on.                                                      *)
(***************************************************************************)
EXTENDS IndexOps, FiniteSetTheorems, TLAPS

\* A set of numbers up to k has a greatest element.
LEMMA GreatestElement ==
  ASSUME NEW k \in Nat, NEW S, S \subseteq 0 .. k, S # {}
  PROVE  \E s \in S : \A t \in S : t <= s
<1> DEFINE T == { k - s : s \in S }
           Less == OpToRel(<, Nat)
<1>1. T \subseteq Nat /\ T # {}
  <2>1. \A s \in S : k - s \in Nat
    OBVIOUS
  <2>2. \E s : s \in S
    OBVIOUS
  <2> HIDE DEF Less
  <2> QED
    BY <2>1, <2>2
<1>2. IsWellFoundedOn(Less, Nat)
  BY NatLessThanWellFounded
<1>3. \A x, y \in Nat : y < x => <<y, x>> \in Less
  BY DEF OpToRel
<1> HIDE DEF Less, T
<1>4. PICK x \in T : \A y \in T : ~ (<<y, x>> \in Less)
  BY <1>1, <1>2, WFMin
<1>5. PICK s \in S : x = k - s
  BY DEF T
<1>6. ASSUME NEW t \in S
      PROVE  t <= s
  <2>1. k - t \in T /\ k - t \in Nat /\ x \in Nat
    BY <1>1 DEF T
  <2>2. ~ (k - t < x)
    BY <2>1, <1>3, <1>4
  <2> QED
    BY <2>2, <1>5
<1> QED
  BY <1>6

\* A journal without holes ends at its number of keys, so LastKey is defined.
LEMMA LastKeyOfInterval ==
  ASSUME NEW ix, NEW k \in Nat, DOMAIN ix.bySeq = 1 .. k
  PROVE  LastKey(ix) = k
<1>1. CASE k = 0
  <2>1. DOMAIN ix.bySeq = {}
    BY <1>1
  <2> QED
    BY <2>1, <1>1 DEF LastKey
<1>2. CASE k # 0
  <2> DEFINE IsLast(s) == s \in DOMAIN ix.bySeq /\ \A t \in DOMAIN ix.bySeq : t <= s
  <2>1. IsLast(k)
    BY <1>2
  <2>2. ASSUME NEW s, IsLast(s)
        PROVE  s = k
    <3>1. s \in 1 .. k
      BY <2>2
    <3>2. k <= s
      BY <1>2, <2>2
    <3> QED
      BY <3>1, <3>2
  <2>3. DOMAIN ix.bySeq # {}
    BY <2>1
  <2>4. LastKey(ix) = CHOOSE s \in DOMAIN ix.bySeq : \A t \in DOMAIN ix.bySeq : t <= s
    BY <2>3 DEF LastKey
  <2>5. IsLast(LastKey(ix))
    BY <2>1, <2>4
  <2> QED
    BY <2>2, <2>5
<1> QED
  BY <1>1, <1>2

\* LastKey and the shape of an index do not depend on the sequence in memory.
LEMMA SameKeys ==
  ASSUME NEW a, NEW b, a.byOid = b.byOid, a.bySeq = b.bySeq
  PROVE  /\ LastKey(a) = LastKey(b)
         /\ WellFormed(a) <=> WellFormed(b)
<1>1. LastKey(a) = LastKey(b)
  BY DEF LastKey
<1> QED
  BY <1>1 DEF WellFormed, DenseJournal, JournalReplays, JournalFreshens

\* The empty index is well formed.
LEMMA EmptyIndexWellFormed ==
  IndexType(EmptyIndex) /\ WellFormed(EmptyIndex) /\ LastKey(EmptyIndex) = 0
<1> DEFINE ix == EmptyIndex
<1>1. DOMAIN ix.byOid = {} /\ DOMAIN ix.bySeq = {} /\ ix.seq = 0
  BY DEF EmptyIndex
<1>2. LastKey(ix) = 0
  BY <1>1 DEF LastKey
<1>3. IndexType(ix)
  BY <1>1 DEF EmptyIndex, IndexType
<1> HIDE DEF ix
<1>4. WellFormed(ix)
  BY <1>1, <1>2 DEF WellFormed, DenseJournal, JournalReplays, JournalFreshens
<1> QED
  BY <1>2, <1>3, <1>4 DEF ix

\* CBOR keeps the block, the second and the content.
LEMMA EncodeType ==
  ASSUME NEW md \in Metadata
  PROVE  /\ Encode(md) \in StoredMetadata
         /\ Encode(md).oid = md.oid
         /\ Encode(md).time = md.time
         /\ md.oid \in Oid
         /\ md.time \in Nat
BY TimeAssumption DEF Metadata, StoredMetadata, Encode

\* What the batch of Put does to the keys: a new journal record at the end, and
\* the same record for its block.
LEMMA WriteBatchKeys ==
  ASSUME NEW ix, NEW e
  PROVE  LET w == WriteBatch(ix, e) IN
         /\ w = [byOid |-> w.byOid, bySeq |-> w.bySeq, seq |-> w.seq]
         /\ w.seq = ix.seq
         /\ w.byOid = [o \in DOMAIN w.byOid |-> w.byOid[o]]
         /\ w.bySeq = [s \in DOMAIN w.bySeq |-> w.bySeq[s]]
         /\ DOMAIN w.byOid = DOMAIN ix.byOid \cup {e.md.oid}
         /\ DOMAIN w.bySeq = DOMAIN ix.bySeq \cup {e.seq}
         /\ w.byOid[e.md.oid] = e
         /\ w.bySeq[e.seq] = e
         /\ \A o \in DOMAIN ix.byOid : o # e.md.oid => w.byOid[o] = ix.byOid[o]
         /\ \A s \in DOMAIN ix.bySeq : s # e.seq => w.bySeq[s] = ix.bySeq[s]
BY DEF WriteBatch, SetKey

\* The keys of a typed index hold entries.
LEMMA IndexTypeFacts ==
  ASSUME NEW ix, IndexType(ix)
  PROVE  /\ \A o \in DOMAIN ix.byOid :
              /\ o \in Oid
              /\ ix.byOid[o].seq \in Nat
              /\ ix.byOid[o].md \in StoredMetadata
              /\ ix.byOid[o].md.oid \in Oid
              /\ ix.byOid[o].md.time \in Nat
         /\ \A s \in DOMAIN ix.bySeq :
              /\ s \in Nat
              /\ s # 0
              /\ ix.bySeq[s].seq \in Nat
              /\ ix.bySeq[s].md \in StoredMetadata
              /\ ix.bySeq[s].md.oid \in Oid
              /\ ix.bySeq[s].md.time \in Nat
         /\ ix.seq \in Nat
<1>1. \A e \in Entry :
        /\ e.seq \in Nat
        /\ e.md \in StoredMetadata
        /\ e.md.oid \in Oid
        /\ e.md.time \in Nat
  BY TimeAssumption DEF Entry, StoredMetadata, Metadata
<1> QED
  BY <1>1 DEF IndexType

\* The half of Put up to the database write, on an index whose sequence in
\* memory is the last journal key: the keys stay in agreement, the journal
\* grows by one record, and nothing gets older.
LEMMA WriteBatchPreserves ==
  ASSUME NEW ix, IndexType(ix), WellFormed(ix), ix.seq = LastKey(ix),
         NEW md \in Metadata, ~ Skips(ix, md),
         NEW e, e = NewEntry(ix, md),
         NEW w, w = WriteBatch(ix, e)
  PROVE  /\ IndexType(w)
         /\ WellFormed(w)
         /\ LastKey(w) = e.seq
         /\ e.seq = ix.seq + 1
         /\ Grows(ix, w)
         /\ Covers(w, md)
<1> DEFINE o == md.oid
           k == LastKey(ix)
<1>1. /\ k \in Nat
      /\ DOMAIN ix.bySeq = 1 .. k
      /\ \A s \in DOMAIN ix.bySeq : ix.bySeq[s].seq = s
  BY DEF WellFormed, DenseJournal
<1>2. /\ e \in Entry
      /\ e.seq = k + 1
      /\ e.md \in StoredMetadata
      /\ e.md.oid = o
      /\ e.md.time = md.time
      /\ o \in Oid
      /\ md.time \in Nat
  BY <1>1, EncodeType DEF NewEntry, Entry
<1>3. /\ w = [byOid |-> w.byOid, bySeq |-> w.bySeq, seq |-> w.seq]
      /\ w.seq = ix.seq
      /\ w.byOid = [q \in DOMAIN w.byOid |-> w.byOid[q]]
      /\ w.bySeq = [s \in DOMAIN w.bySeq |-> w.bySeq[s]]
      /\ DOMAIN w.byOid = DOMAIN ix.byOid \cup {o}
      /\ DOMAIN w.bySeq = DOMAIN ix.bySeq \cup {e.seq}
      /\ w.byOid[o] = e
      /\ w.bySeq[e.seq] = e
      /\ \A q \in DOMAIN ix.byOid : q # o => w.byOid[q] = ix.byOid[q]
      /\ \A s \in DOMAIN ix.bySeq : s # e.seq => w.bySeq[s] = ix.bySeq[s]
  BY <1>2, WriteBatchKeys
<1> HIDE DEF k, o
<1>4. DOMAIN w.bySeq = 1 .. (k + 1)
  BY <1>1, <1>2, <1>3
<1>5. LastKey(w) = k + 1
  BY <1>1, <1>4, LastKeyOfInterval
<1>6. \A s \in DOMAIN ix.bySeq : s # e.seq /\ s <= k /\ w.bySeq[s] = ix.bySeq[s]
  BY <1>1, <1>2, <1>3
<1>7. IndexType(w)
  BY <1>1, <1>2, <1>3, <1>6 DEF IndexType
<1>8. o \in DOMAIN ix.byOid => ix.byOid[o].md.time <= md.time
  BY <1>2, IndexTypeFacts DEF Skips, After, o
<1>9. DenseJournal(w)
  BY <1>1, <1>2, <1>3, <1>4, <1>5, <1>6 DEF DenseJournal
<1>10. JournalReplays(w)
  <2>1. \A q \in DOMAIN ix.byOid :
          /\ ix.byOid[q].seq \in DOMAIN ix.bySeq
          /\ ix.bySeq[ix.byOid[q].seq] = ix.byOid[q]
          /\ ix.byOid[q].md.oid = q
    BY DEF WellFormed, JournalReplays
  <2>2. \A s \in DOMAIN ix.bySeq :
          /\ ix.bySeq[s].md.oid \in DOMAIN ix.byOid
          /\ s <= ix.byOid[ix.bySeq[s].md.oid].seq
    BY DEF WellFormed, JournalReplays
  <2>3. ASSUME NEW q \in DOMAIN w.byOid
        PROVE  /\ w.byOid[q].seq \in DOMAIN w.bySeq
               /\ w.bySeq[w.byOid[q].seq] = w.byOid[q]
               /\ w.byOid[q].md.oid = q
    <3>1. CASE q = o
      BY <3>1, <1>2, <1>3
    <3>2. CASE q # o
      BY <3>2, <2>1, <1>3, <1>6
    <3> QED
      BY <3>1, <3>2
  <2>4. ASSUME NEW s \in DOMAIN w.bySeq
        PROVE  /\ w.bySeq[s].md.oid \in DOMAIN w.byOid
               /\ s <= w.byOid[w.bySeq[s].md.oid].seq
    <3>1. CASE s = e.seq
      BY <3>1, <1>1, <1>2, <1>3
    <3>2. CASE s \in DOMAIN ix.bySeq /\ ix.bySeq[s].md.oid = o
      BY <3>2, <1>1, <1>2, <1>3, <1>6
    <3>3. CASE s \in DOMAIN ix.bySeq /\ ix.bySeq[s].md.oid # o
      BY <3>3, <2>2, <1>3, <1>6
    <3> QED
      BY <3>1, <3>2, <3>3, <1>3
  <2> QED
    BY <2>3, <2>4 DEF JournalReplays
<1>11. JournalFreshens(w)
  <2> SUFFICES ASSUME NEW s \in DOMAIN w.bySeq, NEW t \in DOMAIN w.bySeq,
                      s <= t, w.bySeq[s].md.oid = w.bySeq[t].md.oid
               PROVE  w.bySeq[s].md.time <= w.bySeq[t].md.time
    BY DEF JournalFreshens
  <2>1. CASE t \in DOMAIN ix.bySeq
    <3>1. s \in DOMAIN ix.bySeq
      BY <2>1, <1>1, <1>2, <1>3
    <3> QED
      BY <2>1, <3>1, <1>6 DEF WellFormed, JournalFreshens
  <2>2. CASE t = e.seq /\ s = e.seq
    BY <2>2, <1>2, <1>3
  <2>3. CASE t = e.seq /\ s \in DOMAIN ix.bySeq
    <3> DEFINE last == ix.byOid[o].seq
    <3>1. w.bySeq[s] = ix.bySeq[s] /\ ix.bySeq[s].md.oid = o
      BY <2>3, <1>2, <1>3, <1>6
    <3>2. /\ o \in DOMAIN ix.byOid
          /\ s <= last
          /\ last \in DOMAIN ix.bySeq
          /\ ix.bySeq[last] = ix.byOid[o]
          /\ ix.bySeq[last].md.oid = o
      BY <2>3, <3>1 DEF WellFormed, JournalReplays
    <3> HIDE DEF last
    <3>3. ix.bySeq[s].md.time <= ix.bySeq[last].md.time
      BY <2>3, <3>1, <3>2 DEF WellFormed, JournalFreshens
    <3>4. ix.bySeq[last].md.time <= md.time
      BY <3>2, <1>8
    <3>5. /\ ix.bySeq[s].md.time \in Nat
          /\ ix.bySeq[last].md.time \in Nat
      BY <2>3, <3>2, IndexTypeFacts
    <3> QED
      BY <2>3, <3>1, <3>3, <3>4, <3>5, <1>2, <1>3
  <2> QED
    BY <2>1, <2>2, <2>3, <1>3
<1>12. Grows(ix, w)
  <2>1. \A q \in DOMAIN ix.byOid : ix.byOid[q].md.time \in Nat
    BY IndexTypeFacts
  <2>2. ASSUME NEW q \in DOMAIN ix.byOid
        PROVE  q \in DOMAIN w.byOid /\ w.byOid[q].md.time >= ix.byOid[q].md.time
    <3>1. CASE q = o
      BY <3>1, <2>1, <1>2, <1>3, <1>8
    <3>2. CASE q # o
      BY <3>2, <2>1, <1>3
    <3> QED
      BY <3>1, <3>2
  <2> QED
    BY <2>2, <1>3, <1>6 DEF Grows
<1>13. Covers(w, md)
  BY <1>2, <1>3 DEF Covers, o
<1> QED
  BY <1>1, <1>2, <1>5, <1>7, <1>9, <1>10, <1>11, <1>12, <1>13 DEF WellFormed, k

\* An index grows into itself, and into any index with the same keys.
LEMMA GrowsReflexive ==
  ASSUME NEW a, NEW b, IndexType(a), a.byOid = b.byOid, a.bySeq = b.bySeq
  PROVE  Grows(a, b)
<1>1. \A o \in DOMAIN a.byOid : a.byOid[o].md.time \in Nat
  BY IndexTypeFacts
<1> QED
  BY <1>1 DEF Grows

\* All of Put: the lemma above with the sequence in memory brought up to date.
LEMMA PutPreserves ==
  ASSUME NEW ix, IndexType(ix), WellFormed(ix), ix.seq = LastKey(ix),
         NEW md \in Metadata,
         NEW new, new = Put(ix, md)
  PROVE  /\ IndexType(new)
         /\ WellFormed(new)
         /\ new.seq = LastKey(new)
         /\ Grows(ix, new)
         /\ Covers(new, md)
<1>1. CASE Skips(ix, md)
  <2>1. new = ix
    BY <1>1 DEF Put
  <2>2. md.oid \in DOMAIN ix.byOid /\ ix.byOid[md.oid].md.time >= md.time
    BY <1>1, EncodeType, IndexTypeFacts DEF Skips, IsMetadataEqual, After
  <2> QED
    BY <2>1, <2>2, GrowsReflexive DEF Covers
<1>2. CASE ~ Skips(ix, md)
  <2> DEFINE e == NewEntry(ix, md)
             w == WriteBatch(ix, e)
  <2>1. new = [byOid |-> w.byOid, bySeq |-> w.bySeq, seq |-> e.seq]
    BY <1>2 DEF Put
  <2>2. /\ IndexType(w)
        /\ WellFormed(w)
        /\ LastKey(w) = e.seq
        /\ e.seq = ix.seq + 1
        /\ Grows(ix, w)
        /\ Covers(w, md)
    BY <1>2, WriteBatchPreserves
  <2> HIDE DEF w, e
  <2>3. new.byOid = w.byOid /\ new.bySeq = w.bySeq /\ new.seq = e.seq
    BY <2>1
  <2>4. e.seq \in Nat
    BY <2>2 DEF IndexType
  <2>5. IndexType(new)
    BY <2>1, <2>2, <2>3, <2>4 DEF IndexType
  <2>6. WellFormed(new) /\ LastKey(new) = LastKey(w)
    BY <2>2, <2>3, SameKeys
  <2>7. Grows(ix, new) /\ Covers(new, md)
    BY <2>2, <2>3 DEF Grows, Covers
  <2> QED
    BY <2>2, <2>3, <2>5, <2>6, <2>7
<1> QED
  BY <1>1, <1>2

\* Opening a well-formed index brings the sequence back to the last journal key.
LEMMA RecoverPreserves ==
  ASSUME NEW ix, IndexType(ix), WellFormed(ix),
         NEW new, new = Recover(ix)
  PROVE  /\ IndexType(new)
         /\ WellFormed(new)
         /\ new.seq = LastKey(new)
         /\ Grows(ix, new)
         /\ LastKey(new) = LastKey(ix)
<1>1. /\ new = [byOid |-> ix.byOid, bySeq |-> ix.bySeq, seq |-> LastKey(ix)]
      /\ new.byOid = ix.byOid
      /\ new.bySeq = ix.bySeq
      /\ new.seq = LastKey(ix)
  BY DEF Recover
<1>2. WellFormed(new) /\ LastKey(new) = LastKey(ix)
  BY <1>1, SameKeys
<1>3. LastKey(ix) \in Nat
  BY DEF WellFormed, DenseJournal
<1>4. IndexType(new)
  BY <1>1, <1>3 DEF IndexType
<1> QED
  BY <1>1, <1>2, <1>4, GrowsReflexive

\* An assignment to the sequence in memory leaves everything else as it was.
LEMMA SetSeqPreserves ==
  ASSUME NEW ix, IndexType(ix), WellFormed(ix), NEW k \in Nat,
         NEW new, new = [ix EXCEPT !.seq = k]
  PROVE  /\ IndexType(new)
         /\ WellFormed(new)
         /\ new.seq = k
         /\ new.byOid = ix.byOid
         /\ new.bySeq = ix.bySeq
         /\ LastKey(new) = LastKey(ix)
         /\ Grows(ix, new)
<1>1. ix = [byOid |-> ix.byOid, bySeq |-> ix.bySeq, seq |-> ix.seq]
  BY DEF IndexType
<1>2. /\ new = [byOid |-> ix.byOid, bySeq |-> ix.bySeq, seq |-> k]
      /\ new.byOid = ix.byOid
      /\ new.bySeq = ix.bySeq
      /\ new.seq = k
  BY <1>1
<1>3. WellFormed(new) /\ LastKey(new) = LastKey(ix)
  BY <1>2, SameKeys
<1>4. IndexType(new)
  BY <1>2 DEF IndexType
<1> QED
  BY <1>2, <1>3, <1>4, GrowsReflexive

\* Growing is transitive.
LEMMA GrowsTransitive ==
  ASSUME NEW a, NEW b, NEW c, IndexType(a), IndexType(b), IndexType(c),
         Grows(a, b), Grows(b, c)
  PROVE  Grows(a, c)
<1>1. /\ \A o \in DOMAIN a.byOid : a.byOid[o].md.time \in Nat
      /\ \A o \in DOMAIN b.byOid : b.byOid[o].md.time \in Nat
      /\ \A o \in DOMAIN c.byOid : c.byOid[o].md.time \in Nat
  BY IndexTypeFacts
<1> QED
  BY <1>1 DEF Grows

\* What an index covers it keeps covering as it grows.
LEMMA CoversGrows ==
  ASSUME NEW a, NEW b, IndexType(a), IndexType(b), Grows(a, b),
         NEW md, md.time \in Nat, Covers(a, md)
  PROVE  Covers(b, md)
<1>1. /\ \A o \in DOMAIN a.byOid : a.byOid[o].md.time \in Nat
      /\ \A o \in DOMAIN b.byOid : b.byOid[o].md.time \in Nat
  BY IndexTypeFacts
<1> QED
  BY <1>1 DEF Covers, Grows

\* A journal that grows ends no earlier, and up to its old end it is the same.
LEMMA LastKeyGrows ==
  ASSUME NEW a, NEW b, WellFormed(a), WellFormed(b), Grows(a, b)
  PROVE  /\ LastKey(a) \in Nat
         /\ LastKey(b) \in Nat
         /\ LastKey(a) <= LastKey(b)
         /\ \A s \in DOMAIN b.bySeq :
              s <= LastKey(a) => s \in DOMAIN a.bySeq /\ b.bySeq[s] = a.bySeq[s]
<1>1. /\ LastKey(a) \in Nat
      /\ LastKey(b) \in Nat
      /\ DOMAIN a.bySeq = 1 .. LastKey(a)
      /\ DOMAIN b.bySeq = 1 .. LastKey(b)
  BY DEF WellFormed, DenseJournal
<1>2. DOMAIN a.bySeq \subseteq DOMAIN b.bySeq
  BY DEF Grows
<1>3. LastKey(a) <= LastKey(b)
  BY <1>1, <1>2
<1> QED
  BY <1>1, <1>3 DEF Grows

\* EnumerateBySeq returns the journal's own entries, all of the range.
LEMMA EnumerateFacts ==
  ASSUME NEW ix, IndexType(ix), WellFormed(ix),
         NEW start \in Nat, NEW end \in Nat
  PROVE  LET batch == EnumerateBySeq(ix, start, end) IN
         /\ \A e \in batch :
              /\ e \in Entry
              /\ e.seq \in DOMAIN ix.bySeq
              /\ ix.bySeq[e.seq] = e
              /\ start <= e.seq
              /\ e.seq < end
         /\ \A s \in DOMAIN ix.bySeq : start <= s /\ s < end => ix.bySeq[s] \in batch
<1>1. \A s \in DOMAIN ix.bySeq : ix.bySeq[s].seq = s /\ ix.bySeq[s] \in Entry
  BY DEF WellFormed, DenseJournal, IndexType
<1> QED
  BY <1>1 DEF EnumerateBySeq

\* Coverage of a peer's journal survives growth on both sides.
LEMMA CoversUpToGrows ==
  ASSUME NEW a, NEW a2, NEW b, NEW b2,
         IndexType(a), IndexType(a2), Grows(a, a2),
         IndexType(b), WellFormed(b), WellFormed(b2), Grows(b, b2),
         NEW k \in Nat, k <= LastKey(b), CoversUpTo(a, b, k)
  PROVE  k <= LastKey(b2) /\ CoversUpTo(a2, b2, k)
<1>1. /\ LastKey(b) \in Nat
      /\ LastKey(b2) \in Nat
      /\ LastKey(b) <= LastKey(b2)
      /\ DOMAIN b2.bySeq = 1 .. LastKey(b2)
      /\ \A s \in DOMAIN b2.bySeq :
           s <= LastKey(b) => s \in DOMAIN b.bySeq /\ b2.bySeq[s] = b.bySeq[s]
  BY LastKeyGrows DEF WellFormed, DenseJournal
<1>2. ASSUME NEW s \in DOMAIN b2.bySeq, s <= k
      PROVE  Covers(a2, b2.bySeq[s].md)
  <2>1. s \in DOMAIN b.bySeq /\ b2.bySeq[s] = b.bySeq[s]
    BY <1>1, <1>2
  <2>2. Covers(a, b.bySeq[s].md) /\ b.bySeq[s].md.time \in Nat
    BY <1>2, <2>1, IndexTypeFacts DEF CoversUpTo
  <2> QED
    BY <2>1, <2>2, CoversGrows
<1> QED
  BY <1>1, <1>2 DEF CoversUpTo

\* So do the entries of a batch: the records they were are still there.
LEMMA FollowsGrows ==
  ASSUME NEW b, NEW b2, IndexType(b), WellFormed(b), WellFormed(b2), Grows(b, b2),
         NEW k \in Nat, NEW entries, FollowsInJournal(b, k, entries)
  PROVE  FollowsInJournal(b2, k, entries)
<1>1. /\ LastKey(b) \in Nat
      /\ DOMAIN b.bySeq = 1 .. LastKey(b)
      /\ LastKey(b2) \in Nat
      /\ DOMAIN b2.bySeq = 1 .. LastKey(b2)
      /\ \A s \in DOMAIN b2.bySeq :
           s <= LastKey(b) => s \in DOMAIN b.bySeq /\ b2.bySeq[s] = b.bySeq[s]
  BY LastKeyGrows DEF WellFormed, DenseJournal
<1> SUFFICES ASSUME NEW e \in entries
             PROVE  /\ e.seq \in DOMAIN b2.bySeq
                    /\ b2.bySeq[e.seq] = e
                    /\ k < e.seq
                    /\ \A s \in DOMAIN b2.bySeq :
                         k < s /\ s <= e.seq => b2.bySeq[s] \in entries
  BY DEF FollowsInJournal
<1>2. /\ e.seq \in DOMAIN b.bySeq
      /\ b.bySeq[e.seq] = e
      /\ k < e.seq
      /\ \A s \in DOMAIN b.bySeq : k < s /\ s <= e.seq => b.bySeq[s] \in entries
  BY DEF FollowsInJournal
<1>3. e.seq \in DOMAIN b2.bySeq /\ b2.bySeq[e.seq] = e
  BY <1>2 DEF Grows
<1>4. ASSUME NEW s \in DOMAIN b2.bySeq, k < s, s <= e.seq
      PROVE  b2.bySeq[s] \in entries
  <2>1. s <= LastKey(b)
    BY <1>1, <1>2, <1>4
  <2>2. s \in DOMAIN b.bySeq /\ b2.bySeq[s] = b.bySeq[s]
    BY <1>1, <2>1
  <2> QED
    BY <1>2, <1>4, <2>2
<1> QED
  BY <1>2, <1>3, <1>4

\* Metadata that was decoded once is not changed by another encoding.
LEMMA EncodeStored ==
  ASSUME NEW md \in StoredMetadata
  PROVE  md \in Metadata /\ Encode(md) = md
BY DEF StoredMetadata, Metadata, Encode

\* The only metadata Put can add to the journal is the metadata it is given.
LEMMA PutAdds ==
  ASSUME NEW ix, IndexType(ix), WellFormed(ix), ix.seq = LastKey(ix),
         NEW md \in Metadata,
         NEW s \in DOMAIN Put(ix, md).bySeq
  PROVE  \/ s \in DOMAIN ix.bySeq /\ Put(ix, md).bySeq[s] = ix.bySeq[s]
         \/ Put(ix, md).bySeq[s].md = Encode(md)
<1> DEFINE e == NewEntry(ix, md)
           w == WriteBatch(ix, e)
<1>1. CASE Skips(ix, md)
  BY <1>1 DEF Put
<1>2. CASE ~ Skips(ix, md)
  <2>1. Put(ix, md).bySeq = w.bySeq
    BY <1>2 DEF Put
  <2>2. e.md = Encode(md)
    BY DEF NewEntry
  <2> HIDE DEF w, e
  <2>3. /\ DOMAIN w.bySeq = DOMAIN ix.bySeq \cup {e.seq}
        /\ w.bySeq[e.seq] = e
        /\ \A t \in DOMAIN ix.bySeq : t # e.seq => w.bySeq[t] = ix.bySeq[t]
    BY DEF w, WriteBatch, SetKey
  <2> QED
    BY <2>1, <2>2, <2>3
<1> QED
  BY <1>1, <1>2
=============================================================================
