-------------------------- MODULE SwarmSyncProofs ---------------------------
(***************************************************************************)
(* Theorems about SwarmSync, for every set of nodes, blocks, times and     *)
(* contents, every batch size and every set of writable metadata.          *)
(*                                                                         *)
(* The proof that IInv is inductive first shows what one step does to the  *)
(* indexes (StepIndexes): each stays well formed and only grows.  What the *)
(* cursors and the flights claim of other nodes' journals then survives    *)
(* every step that does not touch the claim (Carried), and the steps of a  *)
(* flight are left to prove one by one.                                    *)
(*                                                                         *)
(* The last part shows that SwarmSync implements ReplicatedIndex, and that *)
(* in it metadata is written by commands alone.  The abstract state is     *)
(* made of two things that one index gives: the metadata it tracks and the *)
(* metadata it has journalled.  StepChanges says what a step of the swarm  *)
(* does to them: nothing, or one Put at one node, of what a command writes *)
(* or of what is written already.                                          *)
(***************************************************************************)
EXTENDS SwarmSync, IndexOpsProofs

\* The inductive invariant.
IInv ==
  /\ TypeOK
  /\ IndexesWellFormed
  /\ SeqFollowsJournal
  /\ CursorCovered
  /\ FlightsCovered

\* Every writable metadata is stored as what some journal entry may hold.
LEMMA StoredWritableType ==
  /\ StoredWritable \subseteq StoredMetadata
  /\ \A md \in Writable : md \in Metadata /\ Encode(md) \in StoredWritable
  /\ \A md \in StoredWritable : md \in Metadata /\ Encode(md) = md
BY WritableAssumption, EncodeType, EncodeStored DEF StoredWritable

\* The three kinds of flight, told apart by their phase.
LEMMA SyncCases ==
  ASSUME NEW sy, SyncType(sy)
  PROVE  /\ sy.phase \in {"idle", "request", "apply"}
         /\ sy.phase = "idle" => sy = NoSync
         /\ sy.phase # "idle" => Flight(sy)
         /\ sy.phase = "request" => sy = Request(sy.peer, sy.conn, sy.maxSeen)
         /\ sy.phase = "apply" =>
              /\ sy = Applying(sy.peer, sy.conn, sy.maxSeen, sy.rest, sy.last)
              /\ \A e \in sy.rest : e \in Entry
              /\ sy.last \in BOOLEAN
<1>1. NoSync.phase = "idle"
  BY DEF NoSync
<1>2. \A p, c, s : Request(p, c, s).phase = "request"
  BY DEF Request
<1>3. \A p, c, s, r, l : Applying(p, c, s, r, l).phase = "apply"
  BY DEF Applying
<1>4. CASE sy = NoSync
  BY <1>1, <1>4
<1>5. CASE sy = Request(sy.peer, sy.conn, sy.maxSeen) /\ Flight(sy)
  <2>1. sy.phase = "request"
    BY <1>2, <1>5
  <2> QED
    BY <1>5, <2>1
<1>6. CASE /\ sy = Applying(sy.peer, sy.conn, sy.maxSeen, sy.rest, sy.last)
           /\ Flight(sy)
           /\ \A e \in sy.rest : e \in Entry
           /\ sy.last \in BOOLEAN
  <2>1. sy.phase = "apply"
    BY <1>3, <1>6
  <2> QED
    BY <1>6, <2>1
<1> QED
  BY <1>4, <1>5, <1>6 DEF SyncType

\* The flights that the actions build are of their type.
LEMMA NoSyncBuilt == SyncType(NoSync) /\ NoSync.phase = "idle"
BY DEF SyncType, NoSync

\* A flight that is about to call PeerSync is of the type of flights.
LEMMA RequestBuilt ==
  ASSUME NEW p \in Node, NEW c \in BOOLEAN, NEW s \in Nat,
         NEW sy, sy = Request(p, c, s)
  PROVE  /\ SyncType(sy)
         /\ sy.phase = "request"
         /\ sy.peer = p
         /\ sy.maxSeen = s
BY DEF SyncType, Request, Flight

\* A flight that puts a batch is of the type of flights.
LEMMA ApplyingBuilt ==
  ASSUME NEW p \in Node, NEW c \in BOOLEAN, NEW s \in Nat, NEW r, NEW l \in BOOLEAN,
         \A e \in r : e \in Entry,
         NEW sy, sy = Applying(p, c, s, r, l)
  PROVE  /\ SyncType(sy)
         /\ sy.phase = "apply"
         /\ sy.peer = p
         /\ sy.maxSeen = s
         /\ sy.rest = r
BY DEF SyncType, Applying, Flight

\* A flight that loses its connection is otherwise what it was.
LEMMA DropConnection ==
  ASSUME NEW sy, SyncType(sy), sy.phase # "idle",
         NEW lost \in BOOLEAN, NEW new, new = [sy EXCEPT !.conn = lost]
  PROVE  /\ SyncType(new)
         /\ new.phase = sy.phase
         /\ new.peer = sy.peer
         /\ new.maxSeen = sy.maxSeen
         /\ sy.phase = "apply" => new.rest = sy.rest
<1>1. CASE sy.phase = "request"
  <2>1. PICK p \in Node, c \in BOOLEAN, s \in Nat : sy = Request(p, c, s)
    BY <1>1, SyncCases DEF Flight
  <2>2. new = Request(p, lost, s)
    BY <2>1 DEF Request
  <2>3. SyncType(new) /\ new.phase = "request" /\ new.peer = p /\ new.maxSeen = s
    BY <2>1, <2>2, RequestBuilt
  <2>4. sy.phase = "request" /\ sy.peer = p /\ sy.maxSeen = s
    BY <2>1, RequestBuilt
  <2> QED
    BY <2>3, <2>4
<1>2. CASE sy.phase = "apply"
  <2>1. PICK p, c, s, l, r :
          /\ p \in Node /\ c \in BOOLEAN /\ s \in Nat /\ l \in BOOLEAN
          /\ sy = Applying(p, c, s, r, l)
          /\ \A e \in r : e \in Entry
    BY <1>2, SyncCases DEF Flight
  <2>2. new = Applying(p, lost, s, r, l)
    BY <2>1 DEF Applying
  <2>3. /\ SyncType(new)
        /\ new.phase = "apply"
        /\ new.peer = p
        /\ new.maxSeen = s
        /\ new.rest = r
    BY <2>1, <2>2, ApplyingBuilt
  <2>4. sy.phase = "apply" /\ sy.peer = p /\ sy.maxSeen = s /\ sy.rest = r
    BY <2>1, ApplyingBuilt
  <2> QED
    BY <2>3, <2>4
<1> QED
  BY <1>1, <1>2, SyncCases

-----------------------------------------------------------------------------

\* The state right after Init.
LEMMA InitInv == Init => IInv
<1> SUFFICES ASSUME Init
             PROVE  IInv
  OBVIOUS
<1>1. \A n \in Node : index[n] = EmptyIndex /\ sync[n] = NoSync
  BY DEF Init
<1>2. \A n \in Node : /\ IndexType(index[n])
                      /\ WellFormed(index[n])
                      /\ LastKey(index[n]) = 0
                      /\ index[n].seq = 0
                      /\ DOMAIN index[n].bySeq = {}
  BY <1>1, EmptyIndexWellFormed DEF EmptyIndex
<1>3. TypeOK
  BY <1>1, <1>2, NoSyncBuilt DEF Init, TypeOK
<1>4. IndexesWellFormed /\ SeqFollowsJournal
  BY <1>2 DEF Init, IndexesWellFormed, SeqFollowsJournal
<1>5. CursorCovered
  BY <1>2 DEF Init, CursorCovered, CoversUpTo
<1>6. FlightsCovered
  BY <1>1, NoSyncBuilt DEF FlightsCovered, Idle
<1> QED
  BY <1>3, <1>4, <1>5, <1>6 DEF IInv

-----------------------------------------------------------------------------
(* What one step does to the indexes. *)

FromWritable(ix) == \A s \in DOMAIN ix.bySeq : ix.bySeq[s].md \in StoredWritable

\* The index of n after the step, on its own and compared with before.
IndexStepOK(n) ==
  /\ IndexType(index'[n])
  /\ WellFormed(index'[n])
  /\ FromWritable(index'[n])
  /\ Grows(index[n], index'[n])
  /\ index'[n].seq = IF n \in up' THEN LastKey(index'[n]) ELSE 0

IndexStep ==
  /\ index' = [n \in Node |-> index'[n]]
  /\ \A n \in Node : IndexStepOK(n)

\* What the inductive invariant says of one node's index.
LEMMA OldIndexes ==
  ASSUME IInv, NEW n \in Node
  PROVE  /\ index = [m \in Node |-> index[m]]
         /\ IndexType(index[n])
         /\ WellFormed(index[n])
         /\ FromWritable(index[n])
         /\ index[n].seq = IF n \in up THEN LastKey(index[n]) ELSE 0
         /\ LastKey(index[n]) \in Nat
         /\ DOMAIN index[n].bySeq = 1 .. LastKey(index[n])
BY DEF IInv, TypeOK, IndexesWellFormed, SeqFollowsJournal, FromWritable,
       WellFormed, DenseJournal

\* A step that touches one index at most is judged by that index alone.
LEMMA OneIndex ==
  ASSUME IInv, NEW n \in Node, NEW new,
         index' = [index EXCEPT ![n] = new],
         \A m \in Node : m # n => (m \in up' <=> m \in up),
         IndexType(new), WellFormed(new), FromWritable(new), Grows(index[n], new),
         new.seq = IF n \in up' THEN LastKey(new) ELSE 0
  PROVE  IndexStep
<1>1. index = [m \in Node |-> index[m]]
  BY OldIndexes
<1>2. /\ index' = [m \in Node |-> index'[m]]
      /\ index'[n] = new
      /\ \A m \in Node : m # n => index'[m] = index[m]
  BY <1>1
<1>3. ASSUME NEW m \in Node, m # n
      PROVE  IndexStepOK(m)
  <2>1. Grows(index[m], index[m])
    BY OldIndexes, GrowsReflexive
  <2> QED
    BY <2>1, <1>2, <1>3, OldIndexes DEF IndexStepOK
<1>4. IndexStepOK(n)
  BY <1>2 DEF IndexStepOK
<1> QED
  BY <1>2, <1>3, <1>4 DEF IndexStep

\* A step that leaves the indexes and the processes alone.
LEMMA NoIndex ==
  ASSUME IInv, index' = index, up' = up
  PROVE  IndexStep
<1>1. ASSUME NEW m \in Node
      PROVE  IndexStepOK(m)
  <2>1. Grows(index[m], index[m])
    BY OldIndexes, GrowsReflexive
  <2> QED
    BY <2>1, OldIndexes DEF IndexStepOK
<1> QED
  BY <1>1 DEF IndexStep, IInv, TypeOK

\* Putting metadata that some command wrote into an open index.
LEMMA PutWritable ==
  ASSUME NEW ix, IndexType(ix), WellFormed(ix), FromWritable(ix),
         ix.seq = LastKey(ix),
         NEW md \in Metadata, Encode(md) \in StoredWritable,
         NEW new, new = Put(ix, md)
  PROVE  /\ IndexType(new)
         /\ WellFormed(new)
         /\ FromWritable(new)
         /\ Grows(ix, new)
         /\ Covers(new, md)
         /\ new.seq = LastKey(new)
<1>1. FromWritable(new)
  BY PutAdds DEF FromWritable
<1> QED
  BY <1>1, PutPreserves

\* The same for the running process of a node.
LEMMA PutStep ==
  ASSUME IInv, NEW n \in Node, n \in up, up' = up,
         NEW md \in StoredWritable,
         index' = [index EXCEPT ![n] = Put(index[n], md)]
  PROVE  IndexStep /\ Covers(index'[n], md)
<1>1. md \in Metadata /\ Encode(md) \in StoredWritable
  BY StoredWritableType
<1> DEFINE new == Put(index[n], md)
<1>2. /\ IndexType(new)
      /\ WellFormed(new)
      /\ FromWritable(new)
      /\ Grows(index[n], new)
      /\ Covers(new, md)
      /\ new.seq = LastKey(new)
  BY <1>1, OldIndexes, PutWritable
<1>3. index'[n] = new
  BY OldIndexes
<1> HIDE DEF new
<1>4. IndexStep
  BY <1>2, OneIndex DEF new
<1> QED
  BY <1>2, <1>3, <1>4

\* The info command, run on the index of a node that is down: open and Put.
LEMMA RunInfoIndexes ==
  ASSUME IInv, NEW n \in Node, NEW md \in Writable, RunInfo(n, md)
  PROVE  IndexStep
<1> DEFINE opened == Recover(index[n])
           put == Put(opened, md)
           new == [put EXCEPT !.seq = 0]
<1>1. index' = [index EXCEPT ![n] = new] /\ n \notin up /\ up' = up
  BY DEF RunInfo
<1>2. /\ IndexType(opened)
      /\ WellFormed(opened)
      /\ opened.seq = LastKey(opened)
      /\ Grows(index[n], opened)
      /\ FromWritable(opened)
  <2>1. opened.bySeq = index[n].bySeq
    BY DEF Recover
  <2> HIDE DEF opened
  <2>2. FromWritable(opened)
    BY <2>1, OldIndexes DEF FromWritable
  <2> QED
    BY <2>2, OldIndexes, RecoverPreserves DEF opened
<1> HIDE DEF opened
<1>3. /\ IndexType(put)
      /\ WellFormed(put)
      /\ FromWritable(put)
      /\ Grows(opened, put)
  BY <1>2, StoredWritableType, PutWritable
<1> HIDE DEF put
<1>4. /\ IndexType(new)
      /\ WellFormed(new)
      /\ new.seq = 0
      /\ new.bySeq = put.bySeq
      /\ Grows(put, new)
  BY <1>3, SetSeqPreserves
<1> HIDE DEF new
<1>5. FromWritable(new)
  BY <1>3, <1>4 DEF FromWritable
<1>6. Grows(index[n], new)
  <2>1. Grows(index[n], put)
    BY <1>2, <1>3, OldIndexes, GrowsTransitive
  <2> QED
    BY <2>1, <1>3, <1>4, OldIndexes, GrowsTransitive
<1> QED
  BY <1>1, <1>4, <1>5, <1>6, OneIndex

\* A process start only reads the sequence back from the journal.
LEMMA StartIndexes ==
  ASSUME IInv, NEW n \in Node, Start(n)
  PROVE  IndexStep
<1> DEFINE new == Recover(index[n])
<1>1. index' = [index EXCEPT ![n] = new] /\ up' = up \cup {n}
  BY DEF Start
<1>2. new.bySeq = index[n].bySeq
  BY DEF Recover
<1> HIDE DEF new
<1>3. FromWritable(new)
  BY <1>2, OldIndexes DEF FromWritable
<1>4. /\ IndexType(new)
      /\ WellFormed(new)
      /\ new.seq = LastKey(new)
      /\ Grows(index[n], new)
  BY OldIndexes, RecoverPreserves DEF new
<1> QED
  BY <1>1, <1>3, <1>4, OneIndex

\* The end of a process only forgets the sequence in memory.
LEMMA StopIndexes ==
  ASSUME IInv, NEW n \in Node, Stop(n)
  PROVE  IndexStep
<1> DEFINE new == [index[n] EXCEPT !.seq = 0]
<1>1. index' = [index EXCEPT ![n] = new] /\ up' = up \ {n}
  BY DEF Stop
<1>2. /\ IndexType(new)
      /\ WellFormed(new)
      /\ new.seq = 0
      /\ new.bySeq = index[n].bySeq
      /\ Grows(index[n], new)
  BY OldIndexes, SetSeqPreserves
<1> HIDE DEF new
<1>3. FromWritable(new)
  BY <1>2, OldIndexes DEF FromWritable
<1> QED
  BY <1>1, <1>2, <1>3, OneIndex

\* A block announcement is one Put of metadata that some command wrote.
LEMMA UpdateIndexes ==
  ASSUME IInv, NEW n \in Node, NEW m \in blockAnns, UpdateBlockAvailability(n, m)
  PROVE  IndexStep
<1>1. m.block \in StoredWritable
  BY DEF IInv, TypeOK
<1> QED
  BY <1>1, PutStep DEF UpdateBlockAvailability

\* What the invariant says of a flight.
LEMMA FlightFacts ==
  ASSUME IInv, NEW n \in Node, ~ Idle(n)
  PROVE  /\ SyncType(sync[n])
         /\ FlightCovered(n)
         /\ n \in up
         /\ sync[n].peer \in Node
         /\ sync[n].peer # n
         /\ sync[n].conn \in BOOLEAN
         /\ sync[n].maxSeen \in Nat
         /\ sync[n].maxSeen <= LastKey(index[sync[n].peer])
         /\ InBatch(n) =>
              /\ FollowsInJournal(index[sync[n].peer], sync[n].maxSeen, sync[n].rest)
              /\ \A e \in sync[n].rest : e \in Entry /\ e.md \in StoredWritable
<1>1. SyncType(sync[n]) /\ FlightCovered(n)
  BY DEF IInv, TypeOK, FlightsCovered
<1>2. Flight(sync[n])
  BY <1>1, SyncCases DEF Idle
<1>3. ASSUME InBatch(n), NEW e \in sync[n].rest
      PROVE  e \in Entry /\ e.md \in StoredWritable
  <2>1. e \in Entry
    BY <1>1, <1>3, SyncCases DEF InBatch
  <2>2. /\ e.seq \in DOMAIN index[sync[n].peer].bySeq
        /\ index[sync[n].peer].bySeq[e.seq] = e
    BY <1>1, <1>3 DEF FlightCovered, FollowsInJournal
  <2> QED
    BY <2>1, <2>2, <1>2, OldIndexes DEF FromWritable, Flight
<1> QED
  BY <1>1, <1>2, <1>3 DEF Flight, FlightCovered

\* An entry of a batch is one Put of metadata from the peer's journal.
LEMMA PutEntryIndexes ==
  ASSUME IInv, NEW n \in Node, PutEntry(n)
  PROVE  IndexStep
<1>1. InBatch(n) /\ ~ Idle(n)
  BY DEF PutEntry, InBatch, Idle
<1>2. PICK e \in sync[n].rest : index' = [index EXCEPT ![n] = Put(index[n], e.md)]
  BY DEF PutEntry
<1>3. n \in up /\ up' = up /\ e.md \in StoredWritable
  BY <1>1, FlightFacts DEF PutEntry
<1> QED
  BY <1>2, <1>3, PutStep

\* No step of any node breaks an index, rewrites a record or goes back in time.
LEMMA StepIndexes == IInv /\ [Next]_vars => IndexStep
<1> SUFFICES ASSUME IInv, [Next]_vars
             PROVE  IndexStep
  OBVIOUS
<1>1. CASE UNCHANGED vars
  BY <1>1, NoIndex DEF vars
<1>2. ASSUME NEW n \in Node, NEW md \in Writable, RunInfo(n, md)
      PROVE  IndexStep
  BY <1>2, RunInfoIndexes
<1>3. ASSUME NEW n \in Node, Start(n)
      PROVE  IndexStep
  BY <1>3, StartIndexes
<1>4. ASSUME NEW n \in Node, Stop(n)
      PROVE  IndexStep
  BY <1>4, StopIndexes
<1>5. ASSUME NEW n \in Node, NEW m \in blockAnns, UpdateBlockAvailability(n, m)
      PROVE  IndexStep
  BY <1>5, UpdateIndexes
<1>6. ASSUME NEW n \in Node, PutEntry(n)
      PROVE  IndexStep
  BY <1>6, PutEntryIndexes
<1>7. ASSUME NEW n \in Node,
             \/ PublishPeerAnnouncement(n)
             \/ \E o \in Discovered : AnnounceBlock(n, o)
             \/ \E p \in Node : StartSync(n, p) \/ StoreAnnounced(n, p)
             \/ PeerSync(n)
             \/ StoreCursor(n)
             \/ FailSync(n)
      PROVE  IndexStep
  <2>1. index' = index /\ up' = up
    BY <1>7 DEF PublishPeerAnnouncement, AnnounceBlock, StartSync, SyncFrom,
                StoreAnnounced, PeerSync, StoreCursor, FailSync
  <2> QED
    BY <2>1, NoIndex
<1> QED
  BY <1>1, <1>2, <1>3, <1>4, <1>5, <1>6, <1>7 DEF Next

-----------------------------------------------------------------------------
(* What one step leaves of the claims about other nodes' journals. *)

\* Whatever the indexes do, what a cursor or a flight claims stays claimed: the
\* claiming index only gets fresher and the peer's journal keeps its records.
LEMMA Carried ==
  ASSUME IInv, IndexStep, NEW n \in Node, NEW p \in Node,
         NEW k \in Nat, k <= LastKey(index[p]), CoversUpTo(index[n], index[p], k)
  PROVE  k <= LastKey(index'[p]) /\ CoversUpTo(index'[n], index'[p], k)
<1>1. IndexStepOK(n) /\ IndexStepOK(p)
  BY DEF IndexStep
<1> QED
  BY <1>1, OldIndexes, CoversUpToGrows DEF IndexStepOK

\* A stored cursor is a number.
LEMMA CursorType ==
  ASSUME IInv, NEW n \in Node, NEW p \in Node
  PROVE  known[n][p] \in Nat
BY DEF IInv, TypeOK

\* Cursors that a step does not write stay covered.
LEMMA CursorsCarried ==
  ASSUME IInv, IndexStep, known' = known
  PROVE  CursorCovered'
<1> SUFFICES ASSUME NEW n \in Node, NEW p \in Node, n # p
             PROVE  /\ known'[n][p] <= LastKey(index'[p])
                    /\ CoversUpTo(index'[n], index'[p], known'[n][p])
  BY DEF CursorCovered
<1>1. /\ known[n][p] <= LastKey(index[p])
      /\ CoversUpTo(index[n], index[p], known[n][p])
  BY DEF IInv, CursorCovered
<1> QED
  BY <1>1, CursorType, Carried

\* A flight that a step does not advance stays covered.
LEMMA FlightCarried ==
  ASSUME IInv, IndexStep, NEW n \in Node, ~ Idle(n), n \in up',
         sync'[n].phase = sync[n].phase,
         sync'[n].peer = sync[n].peer,
         sync'[n].maxSeen = sync[n].maxSeen,
         InBatch(n) => sync'[n].rest = sync[n].rest
  PROVE  FlightCovered(n)'
<1> DEFINE p == sync[n].peer
           k == sync[n].maxSeen
<1>1. /\ p \in Node
      /\ p # n
      /\ k \in Nat
      /\ k <= LastKey(index[p])
      /\ CoversUpTo(index[n], index[p], k)
      /\ InBatch(n) => FollowsInJournal(index[p], k, sync[n].rest)
  BY FlightFacts DEF FlightCovered
<1> HIDE DEF p, k
<1>2. k <= LastKey(index'[p]) /\ CoversUpTo(index'[n], index'[p], k)
  BY <1>1, Carried
<1>3. InBatch(n) => FollowsInJournal(index'[p], k, sync[n].rest)
  <2>1. IndexStepOK(p)
    BY <1>1 DEF IndexStep
  <2> QED
    BY <2>1, <1>1, OldIndexes, FollowsGrows DEF IndexStepOK
<1>4. sync'[n].peer = p /\ sync'[n].maxSeen = k
  BY DEF p, k
<1> QED
  BY <1>1, <1>2, <1>3, <1>4 DEF FlightCovered, InBatch

-----------------------------------------------------------------------------
(* The inductive step, one action at a time. *)

\* The part of the type invariant that is not about the indexes.
RestTyped ==
  /\ up \subseteq Node
  /\ known \in [Node -> [Node -> Nat]]
  /\ announced \in [Node -> Nat]
  /\ emptyAnns \subseteq Node
  /\ \A m \in blockAnns : m \in [node : Node, block : StoredWritable]
  /\ sync = [n \in Node |-> sync[n]]
  /\ \A n \in Node : SyncType(sync[n])

\* TypeOK without the indexes, which IndexStep takes care of.
LEMMA TypeParts ==
  /\ TypeOK => RestTyped
  /\ IndexStep /\ RestTyped' => TypeOK' /\ IndexesWellFormed' /\ SeqFollowsJournal'
<1>1. TypeOK => RestTyped
  BY DEF TypeOK, RestTyped
<1>2. ASSUME IndexStep, RestTyped'
      PROVE  TypeOK' /\ IndexesWellFormed' /\ SeqFollowsJournal'
  BY <1>2 DEF IndexStep, IndexStepOK, FromWritable, RestTyped, TypeOK,
              IndexesWellFormed, SeqFollowsJournal
<1> QED
  BY <1>1, <1>2

\* It is enough to look at the cursors, the flights and the other types.
LEMMA InvParts ==
  ASSUME IndexStep, RestTyped', CursorCovered', FlightsCovered'
  PROVE  IInv'
BY TypeParts DEF IInv

\* A claim of nothing is always covered.
LEMMA NothingCovered ==
  ASSUME IInv, NEW n \in Node, NEW p \in Node
  PROVE  0 <= LastKey(index[p]) /\ CoversUpTo(index[n], index[p], 0)
BY OldIndexes DEF CoversUpTo

\* Flights that a step does not touch stay covered, when it stops no process.
LEMMA FlightsStay ==
  ASSUME IInv, IndexStep, sync' = sync, up \subseteq up'
  PROVE  FlightsCovered'
<1>1. ASSUME NEW n \in Node, ~ Idle(n)'
      PROVE  FlightCovered(n)'
  <2>1. ~ Idle(n) /\ n \in up'
    BY <1>1, FlightFacts DEF Idle
  <2> QED
    BY <2>1, FlightCarried
<1> QED
  BY <1>1 DEF FlightsCovered

\* Steps outside of every flight that stop no process.
LEMMA QuietStep ==
  ASSUME IInv, IndexStep, known' = known, sync' = sync, up \subseteq up'
  PROVE  CursorCovered' /\ FlightsCovered'
BY CursorsCarried, FlightsStay

\* Steps of the flight of one node.
LEMMA FlightStep ==
  ASSUME IInv, IndexStep, up' = up,
         NEW n \in Node, NEW new, SyncType(new),
         sync' = [sync EXCEPT ![n] = new],
         new.phase # "idle" => FlightCovered(n)'
  PROVE  /\ FlightsCovered'
         /\ sync' = [m \in Node |-> sync'[m]]
         /\ \A m \in Node : SyncType(sync'[m])
<1>1. sync = [m \in Node |-> sync[m]] /\ \A m \in Node : SyncType(sync[m])
  BY DEF IInv, TypeOK
<1>2. /\ sync' = [m \in Node |-> sync'[m]]
      /\ sync'[n] = new
      /\ \A m \in Node : m # n => sync'[m] = sync[m]
  BY <1>1
<1>3. ASSUME NEW m \in Node, ~ Idle(m)'
      PROVE  FlightCovered(m)'
  <2>1. CASE m = n
    BY <2>1, <1>2, <1>3 DEF Idle
  <2>2. CASE m # n
    <3>1. ~ Idle(m) /\ m \in up'
      BY <2>2, <1>2, <1>3, FlightFacts DEF Idle
    <3> QED
      BY <3>1, <2>2, <1>2, FlightCarried
  <2> QED
    BY <2>1, <2>2
<1> QED
  BY <1>1, <1>2, <1>3 DEF FlightsCovered

\* The steps that touch neither cursors nor flights: the claims are carried over.
LEMMA QuietSteps ==
  ASSUME IInv, IndexStep, NEW n \in Node,
         \/ \E md \in Writable : RunInfo(n, md)
         \/ Start(n)
         \/ PublishPeerAnnouncement(n)
         \/ \E o \in Discovered : AnnounceBlock(n, o)
         \/ \E m \in blockAnns : UpdateBlockAvailability(n, m)
  PROVE  IInv'
<1>1. RestTyped
  BY TypeParts DEF IInv
<1>2. known' = known /\ sync' = sync /\ up \subseteq up' /\ up' \subseteq Node
  BY <1>1 DEF RunInfo, Start, PublishPeerAnnouncement, AnnounceBlock,
              UpdateBlockAvailability, RestTyped
<1>3. announced' \in [Node -> Nat] /\ emptyAnns' \subseteq Node
  <2>1. CASE PublishPeerAnnouncement(n)
    <3>1. index[n].seq \in Nat
      BY OldIndexes DEF IndexType
    <3> QED
      BY <2>1, <3>1, <1>1 DEF PublishPeerAnnouncement, RestTyped
  <2>2. CASE announced' = announced /\ emptyAnns' = emptyAnns
    BY <2>2, <1>1 DEF RestTyped
  <2> QED
    BY <2>1, <2>2 DEF RunInfo, Start, AnnounceBlock, UpdateBlockAvailability
<1>4. \A m \in blockAnns' : m \in [node : Node, block : StoredWritable]
  <2>1. ASSUME NEW o \in Discovered, AnnounceBlock(n, o)
        PROVE  [node |-> n, block |-> index[n].byOid[o].md]
                 \in [node : Node, block : StoredWritable]
    <3>1. index[n].byOid[o].md \in StoredWritable
      BY <2>1, OldIndexes DEF AnnounceBlock, WellFormed, JournalReplays, FromWritable
    <3> QED
      BY <3>1
  <2>2. CASE \E o \in Discovered : AnnounceBlock(n, o)
    BY <2>1, <2>2, <1>1 DEF AnnounceBlock, GetByOid, RestTyped
  <2>3. CASE blockAnns' = blockAnns
    BY <2>3, <1>1 DEF RestTyped
  <2> QED
    BY <2>2, <2>3 DEF RunInfo, Start, PublishPeerAnnouncement, UpdateBlockAvailability
<1>5. RestTyped'
  BY <1>1, <1>2, <1>3, <1>4 DEF RestTyped
<1> QED
  BY <1>2, <1>5, QuietStep, InvParts

\* The end of a process drops its flight and cuts the connections of others.
LEMMA StopStep ==
  ASSUME IInv, IndexStep, NEW n \in Node, Stop(n)
  PROVE  IInv'
<1>1. RestTyped
  BY TypeParts DEF IInv
<1>2. /\ sync' = [m \in Node |-> sync'[m]]
      /\ sync'[n] = NoSync
      /\ \A m \in Node : m # n =>
           sync'[m] = IF ~ Idle(m) /\ sync[m].peer = n
                      THEN [sync[m] EXCEPT !.conn = FALSE] ELSE sync[m]
  BY DEF Stop, Disconnect
<1>3. ASSUME NEW m \in Node, m # n, ~ Idle(m), sync[m].peer = n
      PROVE  /\ SyncType(sync'[m])
             /\ sync'[m].phase = sync[m].phase
             /\ sync'[m].peer = sync[m].peer
             /\ sync'[m].maxSeen = sync[m].maxSeen
             /\ InBatch(m) => sync'[m].rest = sync[m].rest
  <2>1. sync'[m] = [sync[m] EXCEPT !.conn = FALSE]
    BY <1>2, <1>3
  <2>2. SyncType(sync[m]) /\ sync[m].phase # "idle"
    BY <1>3, FlightFacts DEF Idle
  <2>3. PICK lost \in BOOLEAN : sync'[m] = [sync[m] EXCEPT !.conn = lost]
    BY <2>1
  <2> QED
    BY <2>2, <2>3, DropConnection DEF InBatch
<1>4. up' = up \ {n} /\ known' = known /\ announced' = announced
      /\ emptyAnns' = emptyAnns /\ blockAnns' = blockAnns
  BY DEF Stop
<1>5. RestTyped'
  <2>1. \A m \in Node : SyncType(sync'[m])
    BY <1>1, <1>2, <1>3, NoSyncBuilt DEF RestTyped
  <2> QED
    BY <2>1, <1>1, <1>2, <1>4 DEF RestTyped
<1>6. ASSUME NEW m \in Node, ~ Idle(m)'
      PROVE  FlightCovered(m)'
  <2>1. m # n /\ ~ Idle(m)
    <3>1. m # n
      BY <1>2, <1>6, NoSyncBuilt DEF Idle
    <3> QED
      BY <3>1, <1>2, <1>3, <1>6 DEF Idle
  <2>2. m \in up'
    BY <2>1, <1>4, FlightFacts
  <2>3. /\ sync'[m].phase = sync[m].phase
        /\ sync'[m].peer = sync[m].peer
        /\ sync'[m].maxSeen = sync[m].maxSeen
        /\ InBatch(m) => sync'[m].rest = sync[m].rest
    BY <2>1, <1>2, <1>3
  <2> QED
    BY <2>1, <2>2, <2>3, <1>4, FlightCarried
<1> QED
  BY <1>4, <1>5, <1>6, CursorsCarried, InvParts DEF FlightsCovered

\* A flight starts at the stored cursor, which claims no more than was put, or
\* at 0, which claims nothing.
LEMMA StartSyncStep ==
  ASSUME IInv, IndexStep, NEW n \in Node, NEW p \in Node, StartSync(n, p)
  PROVE  IInv'
<1>1. RestTyped
  BY TypeParts DEF IInv
<1>2. /\ n \in up
      /\ p # n
      /\ up' = up
      /\ index' = index
      /\ known' = known
      /\ announced' = announced
      /\ emptyAnns' = emptyAnns
      /\ blockAnns' = blockAnns
  BY DEF StartSync, SyncFrom, Hears
<1>3. PICK seen \in NodeIndexGet(n, p), c \in BOOLEAN :
        sync' = [sync EXCEPT ![n] = Request(p, c, seen)]
  <2> DEFINE dialled == p \in up
  <2>1. PICK seen \in NodeIndexGet(n, p) :
          sync' = [sync EXCEPT ![n] = Request(p, dialled, seen)]
    BY DEF StartSync, SyncFrom
  <2>2. dialled \in BOOLEAN
    OBVIOUS
  <2> HIDE DEF dialled
  <2> QED
    BY <2>1, <2>2
<1>4. /\ seen \in Nat
      /\ seen <= LastKey(index[p])
      /\ CoversUpTo(index[n], index[p], seen)
  <2>1. CASE seen = known[n][p]
    BY <2>1, <1>2, CursorType DEF IInv, CursorCovered
  <2>2. CASE seen = 0
    BY <2>2, NothingCovered
  <2> QED
    BY <2>1, <2>2, <1>3 DEF NodeIndexGet
<1> DEFINE new == Request(p, c, seen)
<1>5. SyncType(new) /\ new.phase = "request" /\ new.peer = p /\ new.maxSeen = seen
  BY <1>3, <1>4, RequestBuilt
<1> HIDE DEF new
<1>6. sync' = [sync EXCEPT ![n] = new] /\ sync'[n] = new
  BY <1>1, <1>3 DEF RestTyped, new
<1>7. FlightCovered(n)'
  BY <1>2, <1>4, <1>5, <1>6 DEF FlightCovered, InBatch
<1>8. /\ FlightsCovered'
      /\ sync' = [m \in Node |-> sync'[m]]
      /\ \A m \in Node : SyncType(sync'[m])
  BY <1>2, <1>5, <1>6, <1>7, FlightStep
<1>9. RestTyped'
  BY <1>1, <1>2, <1>8 DEF RestTyped
<1> QED
  BY <1>2, <1>8, <1>9, CursorsCarried, InvParts

\* An announcement that is stored over a cursor sets it back to 0.
LEMMA StoreAnnouncedStep ==
  ASSUME IInv, IndexStep, NEW n \in Node, NEW p \in Node, StoreAnnounced(n, p)
  PROVE  IInv'
<1>1. RestTyped
  BY TypeParts DEF IInv
<1>2. /\ up' = up
      /\ index' = index
      /\ announced' = announced
      /\ emptyAnns' = emptyAnns
      /\ blockAnns' = blockAnns
      /\ sync' = sync
      /\ known' = [known EXCEPT ![n][p] = 0]
  BY DEF StoreAnnounced, NodeIndexPut
<1>3. /\ known' \in [Node -> [Node -> Nat]]
      /\ \A m, q \in Node : known'[m][q] = known[m][q] \/ known'[m][q] = 0
  BY <1>1, <1>2 DEF RestTyped
<1>4. CursorCovered'
  <2> SUFFICES ASSUME NEW m \in Node, NEW q \in Node, m # q
               PROVE  /\ known'[m][q] <= LastKey(index'[q])
                      /\ CoversUpTo(index'[m], index'[q], known'[m][q])
    BY DEF CursorCovered
  <2>1. CASE known'[m][q] = known[m][q]
    BY <2>1, <1>2 DEF IInv, CursorCovered
  <2>2. CASE known'[m][q] = 0
    BY <2>2, <1>2, NothingCovered
  <2> QED
    BY <2>1, <2>2, <1>3
<1>5. FlightsCovered'
  BY <1>2, FlightsStay
<1>6. RestTyped'
  BY <1>1, <1>2, <1>3 DEF RestTyped
<1> QED
  BY <1>4, <1>5, <1>6, InvParts

\* A flight that fails leaves the cursor of its last whole batch.
LEMMA FailSyncStep ==
  ASSUME IInv, IndexStep, NEW n \in Node, FailSync(n)
  PROVE  IInv'
<1>1. RestTyped
  BY TypeParts DEF IInv
<1>2. /\ up' = up
      /\ known' = known
      /\ announced' = announced
      /\ emptyAnns' = emptyAnns
      /\ blockAnns' = blockAnns
      /\ sync' = [sync EXCEPT ![n] = NoSync]
  BY DEF FailSync
<1>3. /\ FlightsCovered'
      /\ sync' = [m \in Node |-> sync'[m]]
      /\ \A m \in Node : SyncType(sync'[m])
  BY <1>2, NoSyncBuilt, FlightStep
<1>4. RestTyped'
  BY <1>1, <1>2, <1>3 DEF RestTyped
<1> QED
  BY <1>2, <1>3, <1>4, CursorsCarried, InvParts

\* The batch that comes back follows maxSeen in the peer's journal.
LEMMA PeerSyncStep ==
  ASSUME IInv, IndexStep, NEW n \in Node, PeerSync(n)
  PROVE  IInv'
<1> DEFINE p == sync[n].peer
           k == sync[n].maxSeen
           batch == Fetch(p, k)
<1>1. RestTyped
  BY TypeParts DEF IInv
<1>2. /\ up' = up
      /\ index' = index
      /\ known' = known
      /\ announced' = announced
      /\ emptyAnns' = emptyAnns
      /\ blockAnns' = blockAnns
      /\ ~ Idle(n)
  BY DEF PeerSync, Requesting, Idle
<1>3. p \in Node /\ k \in Nat /\ FlightCovered(n)
  BY <1>2, FlightFacts
<1>4. PICK t \in BOOLEAN, l \in BOOLEAN :
        sync' = [sync EXCEPT ![n] = IF batch = {} THEN NoSync
                                    ELSE Applying(p, t, k, batch, l)]
  <2> DEFINE working == TRUE
             short == Cardinality(batch) < BatchSize
  <2>1. sync' = [sync EXCEPT ![n] = IF batch = {} THEN NoSync
                                    ELSE Applying(p, working, k, batch, short)]
    BY DEF PeerSync
  <2>2. working \in BOOLEAN /\ short \in BOOLEAN
    OBVIOUS
  <2> HIDE DEF working, short, batch, p, k
  <2> QED
    BY <2>1, <2>2
<1>5. /\ \A e \in batch :
           /\ e \in Entry
           /\ e.seq \in DOMAIN index[p].bySeq
           /\ index[p].bySeq[e.seq] = e
           /\ k + 1 <= e.seq
           /\ e.seq < k + 1 + BatchSize
      /\ \A s \in DOMAIN index[p].bySeq :
           k + 1 <= s /\ s < k + 1 + BatchSize => index[p].bySeq[s] \in batch
  <2>1. k + 1 \in Nat /\ k + 1 + BatchSize \in Nat
    BY <1>3, BatchSizeAssumption
  <2> QED
    BY <2>1, <1>3, OldIndexes, EnumerateFacts DEF Fetch
<1> HIDE DEF p, k, batch
<1>6. FollowsInJournal(index[p], k, batch)
  <2> SUFFICES ASSUME NEW e \in batch
               PROVE  /\ e.seq \in DOMAIN index[p].bySeq
                      /\ index[p].bySeq[e.seq] = e
                      /\ k < e.seq
                      /\ \A s \in DOMAIN index[p].bySeq :
                           k < s /\ s <= e.seq => index[p].bySeq[s] \in batch
    BY DEF FollowsInJournal
  <2>1. \A s \in DOMAIN index[p].bySeq : s \in Nat
    BY <1>3, OldIndexes
  <2>2. e.seq \in Nat
    BY <2>1, <1>5
  <2>3. \A s \in DOMAIN index[p].bySeq :
          k < s /\ s <= e.seq => k + 1 <= s /\ s < k + 1 + BatchSize
    BY <2>1, <2>2, <1>3, <1>5, BatchSizeAssumption
  <2> QED
    BY <2>2, <2>3, <1>3, <1>5
<1>7. CASE batch = {}
  <2>1. sync' = [sync EXCEPT ![n] = NoSync]
    BY <1>4, <1>7
  <2>2. /\ FlightsCovered'
        /\ sync' = [m \in Node |-> sync'[m]]
        /\ \A m \in Node : SyncType(sync'[m])
    BY <2>1, <1>2, NoSyncBuilt, FlightStep
  <2>3. RestTyped'
    BY <2>2, <1>1, <1>2 DEF RestTyped
  <2> QED
    BY <2>2, <2>3, <1>2, CursorsCarried, InvParts
<1>8. CASE batch # {}
  <2> DEFINE new == Applying(p, t, k, batch, l)
  <2>1. /\ SyncType(new)
        /\ new.phase = "apply"
        /\ new.peer = p
        /\ new.maxSeen = k
        /\ new.rest = batch
    BY <1>3, <1>4, <1>5, ApplyingBuilt
  <2>2. sync' = [sync EXCEPT ![n] = new]
    BY <1>4, <1>8
  <2> HIDE DEF new
  <2>3. sync'[n] = new
    BY <2>2, <1>1 DEF RestTyped
  <2>4. FlightCovered(n)'
    BY <2>1, <2>3, <1>2, <1>3, <1>6 DEF FlightCovered, InBatch, p, k
  <2>5. /\ FlightsCovered'
        /\ sync' = [m \in Node |-> sync'[m]]
        /\ \A m \in Node : SyncType(sync'[m])
    BY <2>1, <2>2, <2>4, <1>2, FlightStep
  <2>6. RestTyped'
    BY <2>5, <1>1, <1>2 DEF RestTyped
  <2> QED
    BY <2>5, <2>6, <1>2, CursorsCarried, InvParts
<1> QED
  BY <1>7, <1>8

\* Taking the first of the entries that follow k brings k up to that entry.
LEMMA FirstFollows ==
  ASSUME NEW b, IndexType(b), WellFormed(b), NEW k \in Nat,
         NEW entries, FollowsInJournal(b, k, entries),
         NEW e \in entries, \A f \in entries : e.seq <= f.seq
  PROVE  /\ e.seq \in Nat
         /\ k < e.seq
         /\ e.seq <= LastKey(b)
         /\ b.bySeq[e.seq] = e
         /\ \A s \in DOMAIN b.bySeq : s <= e.seq => s <= k \/ s = e.seq
         /\ FollowsInJournal(b, e.seq, entries \ {e})
<1>1. /\ LastKey(b) \in Nat
      /\ DOMAIN b.bySeq = 1 .. LastKey(b)
      /\ \A s \in DOMAIN b.bySeq : b.bySeq[s].seq = s
  BY DEF WellFormed, DenseJournal
<1>2. \A f \in entries :
        /\ f.seq \in DOMAIN b.bySeq
        /\ b.bySeq[f.seq] = f
        /\ k < f.seq
        /\ \A s \in DOMAIN b.bySeq : k < s /\ s <= f.seq => b.bySeq[s] \in entries
  BY DEF FollowsInJournal
<1>3. e.seq \in Nat /\ k < e.seq /\ e.seq <= LastKey(b) /\ b.bySeq[e.seq] = e
  BY <1>1, <1>2
<1>4. ASSUME NEW s \in DOMAIN b.bySeq, s <= e.seq, ~ (s <= k)
      PROVE  s = e.seq
  <2>1. s \in Nat /\ b.bySeq[s] \in entries /\ b.bySeq[s].seq = s
    BY <1>1, <1>2, <1>4
  <2> QED
    BY <2>1, <1>3, <1>4
<1>5. FollowsInJournal(b, e.seq, entries \ {e})
  <2> SUFFICES ASSUME NEW f \in entries \ {e}
               PROVE  /\ f.seq \in DOMAIN b.bySeq
                      /\ b.bySeq[f.seq] = f
                      /\ e.seq < f.seq
                      /\ \A s \in DOMAIN b.bySeq :
                           e.seq < s /\ s <= f.seq => b.bySeq[s] \in entries \ {e}
    BY DEF FollowsInJournal
  <2>1. f.seq \in DOMAIN b.bySeq /\ f.seq \in Nat /\ b.bySeq[f.seq] = f
    BY <1>1, <1>2
  <2>2. f.seq # e.seq
    BY <2>1, <1>3
  <2>3. e.seq < f.seq
    BY <2>1, <2>2, <1>3
  <2>4. ASSUME NEW s \in DOMAIN b.bySeq, e.seq < s, s <= f.seq
        PROVE  b.bySeq[s] \in entries \ {e}
    <3>1. s \in Nat /\ k < s /\ b.bySeq[s].seq = s
      BY <2>4, <1>1, <1>3
    <3>2. b.bySeq[s] \in entries
      BY <2>4, <3>1, <1>2
    <3>3. b.bySeq[s] # e
      BY <2>4, <3>1, <1>3
    <3> QED
      BY <3>2, <3>3
  <2> QED
    BY <2>1, <2>3, <2>4
<1> QED
  BY <1>3, <1>4, <1>5

\* The lowest entry is put and maxSeen moves over it, with no hole in between.
LEMMA PutEntryStep ==
  ASSUME IInv, IndexStep, NEW n \in Node, PutEntry(n)
  PROVE  IInv'
<1> DEFINE p == sync[n].peer
           k == sync[n].maxSeen
           rest == sync[n].rest
<1>1. RestTyped
  BY TypeParts DEF IInv
<1>2. /\ up' = up
      /\ known' = known
      /\ announced' = announced
      /\ emptyAnns' = emptyAnns
      /\ blockAnns' = blockAnns
      /\ InBatch(n)
      /\ ~ Idle(n)
  BY DEF PutEntry, InBatch, Idle
<1>3. PICK e \in rest :
        /\ \A f \in rest : e.seq <= f.seq
        /\ index' = [index EXCEPT ![n] = Put(index[n], e.md)]
        /\ sync' = [sync EXCEPT ![n] = AfterPut(sync[n], e)]
  BY DEF PutEntry
<1>4. /\ p \in Node
      /\ p # n
      /\ n \in up
      /\ k \in Nat
      /\ k <= LastKey(index[p])
      /\ CoversUpTo(index[n], index[p], k)
      /\ FollowsInJournal(index[p], k, rest)
      /\ \A f \in rest : f \in Entry /\ f.md \in StoredWritable
      /\ SyncType(sync[n])
  BY <1>2, FlightFacts DEF FlightCovered
<1>5. PICK c \in BOOLEAN, l \in BOOLEAN : sync[n] = Applying(p, c, k, rest, l)
  BY <1>2, <1>4, FlightFacts, SyncCases DEF InBatch
<1> HIDE DEF p, k, rest
<1>6. /\ e.seq \in Nat
      /\ k < e.seq
      /\ e.seq <= LastKey(index[p])
      /\ index[p].bySeq[e.seq] = e
      /\ \A s \in DOMAIN index[p].bySeq : s <= e.seq => s <= k \/ s = e.seq
      /\ FollowsInJournal(index[p], e.seq, rest \ {e})
  BY <1>3, <1>4, OldIndexes, FirstFollows
<1> DEFINE new == Applying(p, c, e.seq, rest \ {e}, l)
<1>7. /\ SyncType(new)
      /\ new.phase = "apply"
      /\ new.peer = p
      /\ new.maxSeen = e.seq
      /\ new.rest = rest \ {e}
  BY <1>4, <1>5, <1>6, ApplyingBuilt
<1>8. sync' = [sync EXCEPT ![n] = new]
  <2>1. (IF e.seq > k THEN e.seq ELSE k) = e.seq
    BY <1>4, <1>6
  <2>2. sync[n].conn = c /\ sync[n].last = l
    BY <1>5 DEF Applying
  <2>3. AfterPut(sync[n], e) = new
    BY <2>1, <2>2 DEF AfterPut, p, k, rest
  <2> QED
    BY <2>3, <1>3
<1> HIDE DEF new
<1>9. sync'[n] = new
  BY <1>8, <1>1 DEF RestTyped
<1>10. /\ index'[p] = index[p]
       /\ Covers(index'[n], e.md)
  <2>1. e.md \in StoredWritable
    BY <1>3, <1>4
  <2>2. Covers(index'[n], e.md)
    BY <2>1, <1>2, <1>3, <1>4, PutStep
  <2>3. index'[p] = index[p]
    BY <1>3, <1>4, OldIndexes
  <2> QED
    BY <2>2, <2>3
<1>11. CoversUpTo(index'[n], index'[p], e.seq)
  <2>1. CoversUpTo(index'[n], index'[p], k)
    BY <1>4, Carried
  <2>2. ASSUME NEW s \in DOMAIN index'[p].bySeq, s <= e.seq
        PROVE  Covers(index'[n], index'[p].bySeq[s].md)
    BY <2>1, <2>2, <1>6, <1>10 DEF CoversUpTo
  <2> QED
    BY <2>2 DEF CoversUpTo
<1>12. FlightCovered(n)'
  BY <1>2, <1>4, <1>6, <1>7, <1>9, <1>10, <1>11 DEF FlightCovered, InBatch
<1>13. /\ FlightsCovered'
       /\ sync' = [m \in Node |-> sync'[m]]
       /\ \A m \in Node : SyncType(sync'[m])
  BY <1>2, <1>7, <1>8, <1>12, FlightStep
<1>14. RestTyped'
  BY <1>1, <1>2, <1>13 DEF RestTyped
<1> QED
  BY <1>2, <1>13, <1>14, CursorsCarried, InvParts

\* With the whole batch put, maxSeen is what the cursor may be set to.
LEMMA StoreCursorStep ==
  ASSUME IInv, IndexStep, NEW n \in Node, StoreCursor(n)
  PROVE  IInv'
<1> DEFINE p == sync[n].peer
           k == sync[n].maxSeen
<1>1. RestTyped
  BY TypeParts DEF IInv
<1>2. /\ up' = up
      /\ index' = index
      /\ announced' = announced
      /\ emptyAnns' = emptyAnns
      /\ blockAnns' = blockAnns
      /\ known' = [known EXCEPT ![n][p] = k]
      /\ InBatch(n)
      /\ ~ Idle(n)
  BY DEF StoreCursor, NodeIndexPut, InBatch, Idle
<1>3. /\ p \in Node
      /\ p # n
      /\ n \in up
      /\ k \in Nat
      /\ k <= LastKey(index[p])
      /\ CoversUpTo(index[n], index[p], k)
      /\ sync[n].conn \in BOOLEAN
  BY <1>2, FlightFacts DEF FlightCovered
<1>4. sync' = [sync EXCEPT ![n] = IF sync[n].last THEN NoSync
                                  ELSE Request(p, sync[n].conn, k)]
  BY DEF StoreCursor
<1> HIDE DEF p, k
<1>5. /\ known' \in [Node -> [Node -> Nat]]
      /\ known'[n][p] = k
      /\ \A q \in Node : q # p => known'[n][q] = known[n][q]
      /\ \A m \in Node : m # n => known'[m] = known[m]
  BY <1>1, <1>2, <1>3 DEF RestTyped
<1>6. CursorCovered'
  <2> SUFFICES ASSUME NEW m \in Node, NEW q \in Node, m # q
               PROVE  /\ known'[m][q] <= LastKey(index'[q])
                      /\ CoversUpTo(index'[m], index'[q], known'[m][q])
    BY DEF CursorCovered
  <2>1. CASE m = n /\ q = p
    BY <2>1, <1>2, <1>3, <1>5
  <2>2. CASE m # n \/ q # p
    <3>1. known'[m][q] = known[m][q]
      BY <2>2, <1>5
    <3> QED
      BY <3>1, <1>2 DEF IInv, CursorCovered
  <2> QED
    BY <2>1, <2>2
<1>7. /\ FlightsCovered'
      /\ sync' = [m \in Node |-> sync'[m]]
      /\ \A m \in Node : SyncType(sync'[m])
  <2>1. CASE sync[n].last
    <3>1. sync' = [sync EXCEPT ![n] = NoSync]
      BY <2>1, <1>4
    <3> QED
      BY <3>1, <1>2, <1>5, NoSyncBuilt, FlightStep
  <2>2. CASE ~ sync[n].last
    <3> DEFINE new == Request(p, sync[n].conn, k)
    <3>1. SyncType(new) /\ new.phase = "request" /\ new.peer = p /\ new.maxSeen = k
      BY <1>3, RequestBuilt
    <3>2. sync' = [sync EXCEPT ![n] = new]
      BY <2>2, <1>4
    <3> HIDE DEF new
    <3>3. sync'[n] = new
      BY <3>2, <1>1 DEF RestTyped
    <3>4. FlightCovered(n)'
      BY <3>1, <3>3, <1>2, <1>3, <1>5 DEF FlightCovered, InBatch
    <3> QED
      BY <3>1, <3>2, <3>4, <1>2, <1>5, FlightStep
  <2> QED
    BY <2>1, <2>2
<1>8. RestTyped'
  BY <1>1, <1>2, <1>5, <1>7 DEF RestTyped
<1> QED
  BY <1>6, <1>7, <1>8, InvParts

\* Every step preserves the inductive invariant.
LEMMA NextInv == IInv /\ [Next]_vars => IInv'
<1> SUFFICES ASSUME IInv, [Next]_vars
             PROVE  IInv'
  OBVIOUS
<1>0. IndexStep
  BY StepIndexes
<1>1. CASE UNCHANGED vars
  <2>1. RestTyped'
    BY <1>1, TypeParts DEF IInv, vars, RestTyped
  <2> QED
    BY <2>1, <1>0, <1>1, QuietStep, InvParts DEF vars
<1>2. ASSUME NEW n \in Node,
             \/ \E md \in Writable : RunInfo(n, md)
             \/ Start(n)
             \/ PublishPeerAnnouncement(n)
             \/ \E o \in Discovered : AnnounceBlock(n, o)
             \/ \E m \in blockAnns : UpdateBlockAvailability(n, m)
      PROVE  IInv'
  BY <1>0, <1>2, QuietSteps
<1>3. ASSUME NEW n \in Node, Stop(n)
      PROVE  IInv'
  BY <1>0, <1>3, StopStep
<1>4. ASSUME NEW n \in Node, NEW p \in Node, StartSync(n, p)
      PROVE  IInv'
  BY <1>0, <1>4, StartSyncStep
<1>9. ASSUME NEW n \in Node, NEW p \in Node, StoreAnnounced(n, p)
      PROVE  IInv'
  BY <1>0, <1>9, StoreAnnouncedStep
<1>5. ASSUME NEW n \in Node, PeerSync(n)
      PROVE  IInv'
  BY <1>0, <1>5, PeerSyncStep
<1>6. ASSUME NEW n \in Node, PutEntry(n)
      PROVE  IInv'
  BY <1>0, <1>6, PutEntryStep
<1>7. ASSUME NEW n \in Node, StoreCursor(n)
      PROVE  IInv'
  BY <1>0, <1>7, StoreCursorStep
<1>8. ASSUME NEW n \in Node, FailSync(n)
      PROVE  IInv'
  BY <1>0, <1>8, FailSyncStep
<1> QED
  BY <1>1, <1>2, <1>3, <1>4, <1>5, <1>6, <1>7, <1>8, <1>9 DEF Next

-----------------------------------------------------------------------------
(* The theorems. *)

\* Every reachable state of the swarm satisfies the inductive invariant.
THEOREM Invariance == Spec => []IInv
BY InitInv, NextInv, PTL DEF Spec

\* The values of the swarm's state are of their types: indexes, announcements
\* and flights only ever hold metadata that some command wrote, as decoded.
THEOREM TypeCorrect == Spec => []TypeOK
<1>1. IInv => TypeOK
  BY DEF IInv
<1> QED
  BY <1>1, Invariance, PTL

\* In every node's index the journal has no hole, gives the OID keys when
\* replayed, and never goes back in update time: whatever is put by commands,
\* syncs and block announcements, and wherever processes stop.
THEOREM WellFormedCorrect == Spec => []IndexesWellFormed
<1>1. IInv => IndexesWellFormed
  BY DEF IInv
<1> QED
  BY <1>1, Invariance, PTL

\* The sequence number in a running node's memory is its last journal key, so
\* the number it announces is one that PeerSync can serve.
THEOREM SeqCorrect == Spec => []SeqFollowsJournal
<1>1. IInv => SeqFollowsJournal
  BY DEF IInv
<1> QED
  BY <1>1, Invariance, PTL

\* The cursor a node has stored for a peer never runs ahead of what it put:
\* it has all that the peer journalled up to the cursor, or fresher.
THEOREM CursorCorrect == Spec => []CursorCovered
<1>1. IInv => CursorCovered
  BY DEF IInv
<1> QED
  BY <1>1, Invariance, PTL

\* A flight can fail between any two of its steps without a loss: it has put
\* everything up to maxSeen, and its batch goes on from there without a hole.
THEOREM FlightsCorrect == Spec => []FlightsCovered
<1>1. IInv => FlightsCovered
  BY DEF IInv
<1> QED
  BY <1>1, Invariance, PTL

\* No step rewrites a journal record or returns to older metadata of a block.
THEOREM GrowthCorrect == Spec => IndexesGrow
<1>1. IInv /\ [Next]_vars => [\A n \in Node : Grows(index[n], index'[n])]_vars
  BY StepIndexes DEF IndexStep, IndexStepOK
<1> QED
  BY <1>1, Invariance, PTL DEF Spec, IndexesGrow

\* A node whose cursor is at the end of p's journal has each block of p, with
\* metadata that is at least as fresh.
LEMMA CaughtUpCovers ==
  ASSUME IInv, NEW n \in Node, NEW p \in Node, n # p, CaughtUp(n, p),
         NEW o \in DOMAIN index[p].byOid
  PROVE  /\ o \in DOMAIN index[n].byOid
         /\ index[n].byOid[o].md.time >= index[p].byOid[o].md.time
<1> DEFINE e == index[p].byOid[o]
<1>1. e.seq \in DOMAIN index[p].bySeq /\ index[p].bySeq[e.seq] = e /\ e.md.oid = o
  BY OldIndexes DEF WellFormed, JournalReplays
<1>2. e.seq <= known[n][p]
  BY <1>1, OldIndexes DEF CaughtUp
<1>3. CoversUpTo(index[n], index[p], known[n][p])
  BY DEF IInv, CursorCovered
<1>4. Covers(index[n], e.md)
  <2> HIDE DEF e
  <2> QED
    BY <1>1, <1>2, <1>3 DEF CoversUpTo
<1> QED
  BY <1>1, <1>4 DEF Covers

\* What an index tracks of a block was written by a command.
LEMMA TrackedMetadata ==
  ASSUME IInv, NEW n \in Node, NEW o \in DOMAIN index[n].byOid
  PROVE  /\ index[n].byOid[o].md \in StoredWritable
         /\ index[n].byOid[o].md \in StoredMetadata
         /\ index[n].byOid[o].md.oid = o
<1> DEFINE e == index[n].byOid[o]
<1>1. e.seq \in DOMAIN index[n].bySeq /\ index[n].bySeq[e.seq] = e /\ e.md.oid = o
  BY OldIndexes DEF WellFormed, JournalReplays
<1>2. e.md \in StoredWritable
  <2> HIDE DEF e
  <2> QED
    BY <1>1, OldIndexes DEF FromWritable
<1> QED
  BY <1>1, <1>2, StoredWritableType

\* Without ties, stored metadata is determined by its block and update time.
LEMMA NoTies ==
  ASSUME TieFree, NEW a \in StoredWritable, NEW b \in StoredWritable,
         a.oid = b.oid, a.time = b.time
  PROVE  a = b
<1>1. PICK x \in Writable : a = Encode(x)
  BY DEF StoredWritable
<1>2. PICK y \in Writable : b = Encode(y)
  BY DEF StoredWritable
<1>3. x.oid = y.oid /\ x.time = y.time
  BY <1>1, <1>2 DEF Encode
<1>4. x.content = y.content
  BY <1>3 DEF TieFree
<1> QED
  BY <1>1, <1>2, <1>3, <1>4 DEF Encode

\* Two nodes whose cursors have reached the end of each other's journal hold
\* the same metadata of the same blocks, unless two contents were written for
\* one block and second.
THEOREM AgreementCorrect == Spec => []SyncedNodesAgree
<1>1. IInv => SyncedNodesAgree
  <2> SUFFICES ASSUME IInv, TieFree, NEW n \in Node, NEW p \in Node, n # p,
                      CaughtUp(n, p), CaughtUp(p, n)
               PROVE  View(n) = View(p)
    BY DEF SyncedNodesAgree
  <2>1. DOMAIN index[n].byOid = DOMAIN index[p].byOid
    BY CaughtUpCovers
  <2>2. ASSUME NEW o \in DOMAIN index[n].byOid
        PROVE  index[n].byOid[o].md = index[p].byOid[o].md
    <3> DEFINE a == index[n].byOid[o].md
               b == index[p].byOid[o].md
    <3>1. /\ a \in StoredWritable /\ a \in StoredMetadata /\ a.oid = o
          /\ b \in StoredWritable /\ b \in StoredMetadata /\ b.oid = o
      BY <2>1, TrackedMetadata
    <3>2. a.time >= b.time /\ b.time >= a.time
      BY <2>1, CaughtUpCovers
    <3> HIDE DEF a, b
    <3>3. a.time \in Nat /\ b.time \in Nat
      BY <3>1, TimeAssumption DEF StoredMetadata, Metadata
    <3>4. a.time = b.time
      BY <3>2, <3>3
    <3>5. a = b
      BY <3>1, <3>4, NoTies
    <3> QED
      BY <3>5 DEF a, b
  <2> QED
    BY <2>1, <2>2 DEF View
<1> QED
  BY <1>1, Invariance, PTL

-----------------------------------------------------------------------------
(* The refinement of ReplicatedIndex *)

\* The metadata that one index tracks, and all it has journalled.
Tracked(ix) == [o \in DOMAIN ix.byOid |-> ix.byOid[o].md]
Journalled(ix) == { ix.bySeq[s].md : s \in DOMAIN ix.bySeq }

\* What travels in block announcements is in somebody's journal.
Heard == \A m \in blockAnns : m.block \in Written

\* From index a to index b, metadata md is put, and it is not older.
PutInto(a, b, md) ==
  /\ Tracked(b) = SetKey(Tracked(a), md.oid, Encode(md))
  /\ Journalled(b) = Journalled(a) \cup {Encode(md)}
  /\ md.oid \in DOMAIN Tracked(a) => Tracked(a)[md.oid].time <= md.time

SameMetadata(a, b) == Tracked(b) = Tracked(a) /\ Journalled(b) = Journalled(a)

Quiet == \A n \in Node : SameMetadata(index[n], index'[n])

PutAt(n, md) ==
  /\ PutInto(index[n], index'[n], md)
  /\ \A m \in Node : m # n => index'[m] = index[m]

-----------------------------------------------------------------------------
(* One index *)

\* Put changes nothing or puts.
LEMMA PutChanges ==
  ASSUME NEW ix, IndexType(ix), WellFormed(ix), ix.seq = LastKey(ix),
         NEW md \in Metadata
  PROVE  \/ SameMetadata(ix, Put(ix, md))
         \/ PutInto(ix, Put(ix, md), md)
<1> DEFINE new == Put(ix, md)
<1>1. CASE Skips(ix, md)
  BY <1>1 DEF Put, SameMetadata
<1>2. CASE ~ Skips(ix, md)
  <2> DEFINE e == NewEntry(ix, md)
             w == WriteBatch(ix, e)
  <2>1. new.byOid = w.byOid /\ new.bySeq = w.bySeq
    BY <1>2 DEF Put
  <2>2. e.md = Encode(md) /\ Encode(md).oid = md.oid /\ e.seq = ix.seq + 1
    BY EncodeType DEF NewEntry
  <2>3. e.seq \notin DOMAIN ix.bySeq
    <3>1. LastKey(ix) \in Nat /\ DOMAIN ix.bySeq = 1 .. LastKey(ix)
      BY DEF WellFormed, DenseJournal
    <3> HIDE DEF e
    <3> QED
      BY <2>2, <3>1
  <2>4. md.oid \in DOMAIN ix.byOid => ix.byOid[md.oid].md.time <= md.time
    BY <1>2, EncodeType, IndexTypeFacts DEF Skips, After
  <2> HIDE DEF e, w
  <2>5. /\ DOMAIN w.byOid = DOMAIN ix.byOid \cup {md.oid}
        /\ DOMAIN w.bySeq = DOMAIN ix.bySeq \cup {e.seq}
        /\ w.byOid[md.oid] = e
        /\ w.bySeq[e.seq] = e
        /\ \A o \in DOMAIN ix.byOid : o # md.oid => w.byOid[o] = ix.byOid[o]
        /\ \A s \in DOMAIN ix.bySeq : s # e.seq => w.bySeq[s] = ix.bySeq[s]
    <3>1. e.md.oid = md.oid
      BY <2>2
    <3> QED
      BY <3>1 DEF w, WriteBatch, SetKey
  <2> HIDE DEF new
  <2>6. Tracked(new) = SetKey(Tracked(ix), md.oid, Encode(md))
    BY <2>1, <2>2, <2>5 DEF Tracked, SetKey
  <2>7. Journalled(new) = Journalled(ix) \cup {Encode(md)}
    BY <2>1, <2>2, <2>3, <2>5 DEF Journalled
  <2> QED
    BY <2>4, <2>6, <2>7 DEF PutInto, Tracked, new
<1> QED
  BY <1>1, <1>2

\* The metadata of an index does not depend on the sequence in memory.
LEMMA MetadataOfKeys ==
  ASSUME NEW a, NEW b, a.byOid = b.byOid, a.bySeq = b.bySeq
  PROVE  Tracked(a) = Tracked(b) /\ Journalled(a) = Journalled(b)
BY DEF Tracked, Journalled

-----------------------------------------------------------------------------
(* One step *)

\* The abstract state, as what the indexes track and have journalled.
LEMMA WrittenFacts ==
  ASSUME IInv
  PROVE  /\ Written = UNION { Journalled(index[n]) : n \in Node }
         /\ \A n \in Node : View(n) = Tracked(index[n])
         /\ Written \subseteq StoredWritable
         /\ \A n \in Node : \A o \in DOMAIN index[n].byOid :
              index[n].byOid[o].md \in Written
<1>1. Written = UNION { Journalled(index[n]) : n \in Node }
  BY DEF Written, Journalled
<1>2. \A n \in Node : View(n) = Tracked(index[n])
  BY DEF View, Tracked
<1>3. Written \subseteq StoredWritable
  BY OldIndexes DEF Written, FromWritable
<1>4. ASSUME NEW n \in Node, NEW o \in DOMAIN index[n].byOid
      PROVE  index[n].byOid[o].md \in Written
  <2> DEFINE e == index[n].byOid[o]
  <2>1. e.seq \in DOMAIN index[n].bySeq /\ index[n].bySeq[e.seq] = e
    BY OldIndexes DEF WellFormed, JournalReplays
  <2> HIDE DEF e
  <2>2. e.md \in Written
    BY <2>1 DEF Written
  <2> QED
    BY <2>2 DEF e
<1> QED
  BY <1>1, <1>2, <1>3, <1>4

\* A Put of written metadata at a running node.
LEMMA LearnChanges ==
  ASSUME IInv, NEW n \in Node, n \in up, NEW md \in Written,
         index' = [index EXCEPT ![n] = Put(index[n], md)]
  PROVE  Quiet \/ PutAt(n, md)
<1>1. md \in Metadata
  BY WrittenFacts, StoredWritableType
<1>2. \/ SameMetadata(index[n], Put(index[n], md))
      \/ PutInto(index[n], Put(index[n], md), md)
  BY <1>1, OldIndexes, PutChanges
<1>3. /\ index'[n] = Put(index[n], md)
      /\ \A m \in Node : m # n => index'[m] = index[m]
  BY OldIndexes
<1>4. \A m \in Node : m # n => SameMetadata(index[m], index'[m])
  BY <1>3 DEF SameMetadata
<1> QED
  BY <1>2, <1>3, <1>4 DEF Quiet, PutAt

\* The info command writes its metadata, or finds it there.
LEMMA RunInfoChanges ==
  ASSUME IInv, NEW n \in Node, NEW md \in Writable, RunInfo(n, md)
  PROVE  Quiet \/ PutAt(n, md)
<1> DEFINE opened == Recover(index[n])
           put == Put(opened, md)
           new == [put EXCEPT !.seq = 0]
<1>1. index' = [index EXCEPT ![n] = new]
  BY DEF RunInfo
<1>2. /\ IndexType(opened)
      /\ WellFormed(opened)
      /\ opened.seq = LastKey(opened)
  BY OldIndexes, RecoverPreserves
<1>3. opened.byOid = index[n].byOid /\ opened.bySeq = index[n].bySeq
  BY DEF Recover
<1> HIDE DEF opened
<1>4. md \in Metadata
  BY StoredWritableType
<1>5. IndexType(put) /\ WellFormed(put)
  BY <1>2, <1>4, PutPreserves
<1>6. SameMetadata(opened, put) \/ PutInto(opened, put, md)
  BY <1>2, <1>4, PutChanges
<1> HIDE DEF put
<1>7. new.byOid = put.byOid /\ new.bySeq = put.bySeq
  BY <1>5, SetSeqPreserves
<1> HIDE DEF new
<1>8. /\ Tracked(opened) = Tracked(index[n])
      /\ Journalled(opened) = Journalled(index[n])
      /\ Tracked(new) = Tracked(put)
      /\ Journalled(new) = Journalled(put)
  BY <1>3, <1>7, MetadataOfKeys
<1>9. SameMetadata(index[n], new) \/ PutInto(index[n], new, md)
  BY <1>6, <1>8 DEF SameMetadata, PutInto
<1>10. /\ index'[n] = new
       /\ \A m \in Node : m # n => index'[m] = index[m]
  BY <1>1, OldIndexes
<1>11. \A m \in Node : m # n => SameMetadata(index[m], index'[m])
  BY <1>10 DEF SameMetadata
<1> QED
  BY <1>9, <1>10, <1>11 DEF Quiet, PutAt

\* Opening and closing an index leaves its metadata as it is.
LEMMA OpenCloseQuiet ==
  ASSUME IInv, NEW n \in Node, Start(n) \/ Stop(n)
  PROVE  Quiet
<1> DEFINE opened == Recover(index[n])
           closed == [index[n] EXCEPT !.seq = 0]
<1>1. opened.byOid = index[n].byOid /\ opened.bySeq = index[n].bySeq
  BY DEF Recover
<1>2. closed.byOid = index[n].byOid /\ closed.bySeq = index[n].bySeq
  BY OldIndexes, SetSeqPreserves
<1>3. index' = [index EXCEPT ![n] = opened] \/ index' = [index EXCEPT ![n] = closed]
  BY DEF Start, Stop
<1> HIDE DEF opened, closed
<1>4. /\ index'[n] = opened \/ index'[n] = closed
      /\ \A m \in Node : m # n => index'[m] = index[m]
  BY <1>3, OldIndexes
<1>5. SameMetadata(index[n], index'[n])
  BY <1>1, <1>2, <1>4, MetadataOfKeys DEF SameMetadata
<1>6. \A m \in Node : m # n => SameMetadata(index[m], index'[m])
  BY <1>4 DEF SameMetadata
<1> QED
  BY <1>5, <1>6 DEF Quiet

\* Every step of the swarm leaves the metadata alone, or puts at one node what a
\* command writes there, or what is written somewhere.
LEMMA StepChanges ==
  ASSUME IInv, Heard, [Next]_vars
  PROVE  \/ Quiet
         \/ \E n \in Node, md \in Writable : RunInfo(n, md) /\ PutAt(n, md)
         \/ \E n \in Node, md \in Written : PutAt(n, md)
<1>1. ASSUME index' = index
      PROVE  Quiet
  BY <1>1 DEF Quiet, SameMetadata
<1>2. ASSUME NEW n \in Node, NEW md \in Writable, RunInfo(n, md)
      PROVE  Quiet \/ (RunInfo(n, md) /\ PutAt(n, md))
  BY <1>2, RunInfoChanges
<1>3. ASSUME NEW n \in Node, Start(n) \/ Stop(n)
      PROVE  Quiet
  BY <1>3, OpenCloseQuiet
<1>4. ASSUME NEW n \in Node, NEW m \in blockAnns, UpdateBlockAvailability(n, m)
      PROVE  Quiet \/ \E md \in Written : PutAt(n, md)
  <2>1. m.block \in Written
    BY DEF Heard
  <2>2. n \in up /\ index' = [index EXCEPT ![n] = Put(index[n], m.block)]
    BY <1>4 DEF UpdateBlockAvailability
  <2> QED
    BY <2>1, <2>2, LearnChanges
<1>5. ASSUME NEW n \in Node, PutEntry(n)
      PROVE  Quiet \/ \E md \in Written : PutAt(n, md)
  <2>1. InBatch(n) /\ ~ Idle(n)
    BY <1>5 DEF PutEntry, InBatch, Idle
  <2>2. PICK e \in sync[n].rest : index' = [index EXCEPT ![n] = Put(index[n], e.md)]
    BY <1>5 DEF PutEntry
  <2>3. n \in up /\ sync[n].peer \in Node
    BY <2>1, FlightFacts
  <2>4. /\ e.seq \in DOMAIN index[sync[n].peer].bySeq
        /\ index[sync[n].peer].bySeq[e.seq] = e
    BY <2>1, FlightFacts DEF FollowsInJournal
  <2>5. e.md \in Written
    BY <2>3, <2>4 DEF Written
  <2> QED
    BY <2>2, <2>3, <2>5, LearnChanges
<1>6. ASSUME NEW n \in Node,
             \/ PublishPeerAnnouncement(n)
             \/ \E o \in Discovered : AnnounceBlock(n, o)
             \/ \E p \in Node : StartSync(n, p) \/ StoreAnnounced(n, p)
             \/ PeerSync(n)
             \/ StoreCursor(n)
             \/ FailSync(n)
      PROVE  index' = index
  BY <1>6 DEF PublishPeerAnnouncement, AnnounceBlock, StartSync, SyncFrom,
              StoreAnnounced, PeerSync, StoreCursor, FailSync
<1>7. CASE UNCHANGED vars
  BY <1>1, <1>7 DEF vars
<1> QED
  BY <1>1, <1>2, <1>3, <1>4, <1>5, <1>6, <1>7 DEF Next

\* What these do to all that is written.
LEMMA WrittenChanges ==
  /\ Quiet => Written' = Written
  /\ \A n \in Node : \A md : PutAt(n, md) => Written' = Written \cup {Encode(md)}
<1>1. /\ Written = UNION { Journalled(index[n]) : n \in Node }
      /\ Written' = UNION { Journalled(index'[n]) : n \in Node }
  BY DEF Written, Journalled
<1>2. ASSUME Quiet
      PROVE  Written' = Written
  BY <1>1, <1>2 DEF Quiet, SameMetadata
<1>3. ASSUME NEW n \in Node, NEW md, PutAt(n, md)
      PROVE  Written' = Written \cup {Encode(md)}
  <2>1. Journalled(index'[n]) = Journalled(index[n]) \cup {Encode(md)}
    BY <1>3 DEF PutAt, PutInto
  <2>2. \A m \in Node : m # n => Journalled(index'[m]) = Journalled(index[m])
    BY <1>3 DEF PutAt
  <2> QED
    BY <1>1, <2>1, <2>2
<1> QED
  BY <1>2, <1>3

\* Putting what is written already writes nothing.
LEMMA LearnWritesNothing ==
  ASSUME IInv, NEW md \in Written
  PROVE  Encode(md) = md /\ Written \cup {Encode(md)} = Written
<1>1. Encode(md) = md
  BY WrittenFacts, StoredWritableType
<1> QED
  BY <1>1

\* Nothing that is written is ever lost.
LEMMA WrittenGrows ==
  ASSUME IInv, Heard, [Next]_vars
  PROVE  Written \subseteq Written'
BY StepChanges, WrittenChanges

\* A block is announced with metadata that is in the index of the node.
LEMMA HeardStep ==
  ASSUME IInv, Heard, [Next]_vars
  PROVE  Heard'
<1> SUFFICES ASSUME NEW m \in blockAnns'
             PROVE  m.block \in Written'
  BY DEF Heard
<1>1. CASE m \in blockAnns
  BY <1>1, WrittenGrows DEF Heard
<1>2. CASE m \notin blockAnns
  <2>1. PICK n \in Node, o \in Discovered : AnnounceBlock(n, o)
    BY <1>2 DEF Next, vars, RunInfo, Start, Stop, PublishPeerAnnouncement,
                UpdateBlockAvailability, StartSync, SyncFrom, StoreAnnounced, PeerSync, PutEntry,
                StoreCursor, FailSync
  <2>2. m.block = index[n].byOid[o].md /\ o \in DOMAIN index[n].byOid
    BY <1>2, <2>1 DEF AnnounceBlock, GetByOid
  <2> QED
    BY <2>2, WrittenFacts, WrittenGrows
<1> QED
  BY <1>1, <1>2

\* The invariant of the refinement.
LEMMA HeardCorrect == Spec => [](IInv /\ Heard)
<1>1. Init => Heard
  BY DEF Init, Heard
<1>2. IInv /\ Heard /\ [Next]_vars => Heard'
  BY HeardStep
<1> QED
  BY <1>1, <1>2, Invariance, PTL DEF Spec

-----------------------------------------------------------------------------

\* Metadata comes from commands alone: whatever a node journals in any other
\* step was in some journal before, as it is.
THEOREM WriteCorrect == Spec => OnlyCommandsWrite
<1>1. ASSUME IInv, Heard, [Next]_vars, Written' # Written
      PROVE  \E n \in Node, md \in Writable :
               RunInfo(n, md) /\ Written' = Written \cup {Encode(md)}
  BY <1>1, StepChanges, WrittenChanges, LearnWritesNothing
<1>2. IInv /\ Heard /\ [Next]_vars =>
        [Written' # Written =>
           \E n \in Node, md \in Writable :
             RunInfo(n, md) /\ Written' = Written \cup {Encode(md)}]_vars
  BY <1>1
<1> QED
  BY <1>2, HeardCorrect, PTL DEF Spec, OnlyCommandsWrite

-----------------------------------------------------------------------------
(* The refinement *)

Views == [n \in Node |-> View(n)]

\* Before any command has run, nothing is written and nobody knows a block.
LEMMA RefinesInit == Init => RI!AInit
<1> SUFFICES ASSUME Init
             PROVE  RI!AInit
  OBVIOUS
<1>1. \A n \in Node : index[n] = EmptyIndex
  BY DEF Init
<1>2. Written = {}
  BY <1>1 DEF Written, EmptyIndex
<1>3. \A n \in Node : View(n) = [o \in {} |-> o]
  BY <1>1 DEF View, EmptyIndex
<1> QED
  BY <1>2, <1>3 DEF RI!AInit

\* A Put at one node is, for its view, that metadata is adopted.
LEMMA PutAdopts ==
  ASSUME IInv, NEW n \in Node, NEW md \in Metadata, PutAt(n, md)
  PROVE  RI!Adopt(n, Encode(md))
<1>1. Encode(md).oid = md.oid /\ Encode(md).time = md.time
  BY EncodeType
<1>2. \A m \in Node : View(m) = Tracked(index[m]) /\ View(m)' = Tracked(index'[m])
  BY DEF View, Tracked
<1>3. RI!NotFresher(n, Encode(md))
  BY <1>1, <1>2 DEF PutAt, PutInto, RI!NotFresher
<1>4. View(n)' = SetKey(View(n), Encode(md).oid, Encode(md))
  BY <1>1, <1>2 DEF PutAt, PutInto
<1>5. \A m \in Node : m # n => View(m)' = View(m)
  BY <1>2 DEF PutAt
<1>6. Views' = [Views EXCEPT ![n] = SetKey(Views[n], Encode(md).oid, Encode(md))]
  BY <1>4, <1>5 DEF Views
<1> QED
  BY <1>3, <1>6 DEF RI!Adopt, RI!SetKey, SetKey, Views

\* Every step of the swarm writes, spreads metadata or is not seen.
LEMMA RefinesNext ==
  ASSUME IInv, Heard, [Next]_vars
  PROVE  [RI!ANext]_(RI!avars)
<1>1. ASSUME Quiet
      PROVE  UNCHANGED RI!avars
  <2>1. \A n \in Node : View(n)' = View(n)
    BY <1>1 DEF Quiet, SameMetadata, View, Tracked
  <2> QED
    BY <1>1, <2>1, WrittenChanges DEF RI!avars
<1>2. ASSUME NEW n \in Node, NEW md \in Writable, PutAt(n, md)
      PROVE  RI!ANext
  <2>1. md \in Metadata
    BY StoredWritableType
  <2>2. RI!Write(n, Encode(md))
    BY <1>2, <2>1, PutAdopts, WrittenChanges DEF RI!Write
  <2> QED
    BY <2>2 DEF RI!ANext, RI!Encode, Encode
<1>3. ASSUME NEW n \in Node, NEW md \in Written, PutAt(n, md)
      PROVE  RI!ANext
  <2>1. md \in Metadata /\ Encode(md) = md
    BY WrittenFacts, StoredWritableType
  <2>2. Written' = Written
    BY <1>3, WrittenChanges, LearnWritesNothing
  <2>3. RI!Learn(n, md)
    BY <1>3, <2>1, <2>2, PutAdopts DEF RI!Learn
  <2> QED
    BY <2>3 DEF RI!ANext
<1> QED
  BY <1>1, <1>2, <1>3, StepChanges

\* The replication protocol does what ReplicatedIndex promises: metadata is
\* written, spreads unchanged, and never replaces fresher metadata of its block.
THEOREM Refinement == Spec => ImplementsReplicatedIndex
<1>1. Init => RI!AInit
  BY RefinesInit
<1>2. IInv /\ Heard /\ [Next]_vars => [RI!ANext]_(RI!avars)
  BY RefinesNext
<1> QED
  BY <1>1, <1>2, HeardCorrect, PTL DEF Spec, ImplementsReplicatedIndex, RI!ASpec
=============================================================================
