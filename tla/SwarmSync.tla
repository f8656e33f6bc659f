----------------------------- MODULE SwarmSync -----------------------------
(***************************************************************************)
(* The replication of block metadata between nodes: swarm/node/node.go     *)
(* with its PubSub and RPC handlers, on the block and node indexes of      *)
(* datastore/leveldb.                                                      *)
(*                                                                         *)
(* A node announces its sequence number by multicast.  A node that hears   *)
(* of a number above its cursor for the announcing peer asks the peer for  *)
(* its journal from the cursor on, batch by batch, puts every entry in its *)
(* own index, and then moves the cursor, which the node index keeps on     *)
(* disk.  Block announcements carry metadata of single blocks outside of   *)
(* that protocol.                                                          *)
(*                                                                         *)
(* Announcements are datagrams: they can be lost, repeated, delayed and    *)
(* reordered, also because every handler runs in a goroutine of its own.   *)
(* So a handler takes any message ever sent, at any time or never.  Of the *)
(* numbers in the peer announcements of a node, two things are kept: the   *)
(* greatest, since it is above a cursor if any of them is, and whether 0   *)
(* is one, since no other can be stored with an effect.                    *)
(***************************************************************************)
EXTENDS IndexOps

CONSTANTS
  Node,
  Writable,    \* the metadata a local command can put
  Discovered,  \* the blocks some node asks the swarm for
  BatchSize,   \* BlockIndexSyncBatchSize, 100 in the code
  MaxSeq       \* bound of the model: no command runs on a longer journal

ASSUME WritableAssumption == Writable \subseteq Metadata
ASSUME DiscoveredAssumption == Discovered \subseteq Oid
ASSUME BatchSizeAssumption == BatchSize \in Nat \ {0}
ASSUME SwarmMaxSeqAssumption == MaxSeq \in Nat

VARIABLES
  up,         \* the nodes whose process runs
  index,      \* index[n]: block index of n
  known,      \* known[n][p]: n's node index, the SequenceNumber stored for p
  announced,  \* announced[p]: the greatest number in a PeerAnnouncement of p
  emptyAnns,  \* the nodes that have announced the number 0
  blockAnns,  \* the BlockAnnouncement messages sent: node and metadata
  sync        \* sync[n]: the one flight of n's singleflight group

vars == <<up, index, known, announced, emptyAnns, blockAnns, sync>>

\* No syncBlockIndexAndUpdateMetadata is in flight.
NoSync == [phase |-> "idle"]

\* About to call PeerSync; conn: the connection to the peer works.
Request(p, conn, maxSeen) ==
  [phase |-> "request", peer |-> p, conn |-> conn, maxSeen |-> maxSeen]

\* rest: entries of the batch still to put; last: it was a short batch.
Applying(p, conn, maxSeen, rest, last) ==
  [phase |-> "apply", peer |-> p, conn |-> conn, maxSeen |-> maxSeen,
   rest |-> rest, last |-> last]

Idle(n) == sync[n].phase = "idle"
Requesting(n) == sync[n].phase = "request"
InBatch(n) == sync[n].phase = "apply"

Init ==
  /\ up = {}
  /\ index = [n \in Node |-> EmptyIndex]
  /\ known = [n \in Node |-> [p \in Node |-> 0]]
  /\ announced = [n \in Node |-> 0]
  /\ emptyAnns = {}
  /\ blockAnns = {}
  /\ sync = [n \in Node |-> NoSync]

-----------------------------------------------------------------------------
(* Processes *)

\* The info command: it opens the index of a node that does not run, since
\* LevelDB locks its directory, puts metadata stamped with time.Now() and exits.
RunInfo(n, md) ==
  /\ n \notin up
  /\ LastKey(index[n]) < MaxSeq
  /\ index' = [index EXCEPT ![n] = [Put(Recover(@), md) EXCEPT !.seq = 0]]
  /\ UNCHANGED <<up, known, announced, emptyAnns, blockAnns, sync>>

\* Mutant: the sequence is not read back from the journal.
StartWithoutScan(n) ==
  /\ n \notin up
  /\ up' = up \cup {n}
  /\ UNCHANGED <<index, known, announced, emptyAnns, blockAnns, sync>>

\* RunTest: the node's process starts and opens the indexes.
Start(n) ==
  /\ n \notin up
  /\ up' = up \cup {n}
  /\ index' = [index EXCEPT ![n] = Recover(@)]
  /\ UNCHANGED <<known, announced, emptyAnns, blockAnns, sync>>

\* The flights once n's process has gone: n's own ends, those that sync with n
\* lose their connection.
Disconnect(n) ==
  [m \in Node |->
     IF m = n THEN NoSync
     ELSE IF ~ Idle(m) /\ sync[m].peer = n THEN [sync[m] EXCEPT !.conn = FALSE]
     ELSE sync[m]]

\* The process ends, at any point of its sync; what is in LevelDB stays.
Stop(n) ==
  /\ n \in up
  /\ up' = up \ {n}
  /\ index' = [index EXCEPT ![n].seq = 0]
  /\ sync' = Disconnect(n)
  /\ UNCHANGED <<known, announced, emptyAnns, blockAnns>>

-----------------------------------------------------------------------------
(* Announcements *)

\* publishPeerAnnouncement, at every tick.
PublishPeerAnnouncement(n) ==
  /\ n \in up
  /\ announced' = [announced EXCEPT ![n] = IF index[n].seq > @ THEN index[n].seq ELSE @]
  /\ emptyAnns' = IF index[n].seq = 0 THEN emptyAnns \cup {n} ELSE emptyAnns
  /\ UNCHANGED <<up, index, known, blockAnns, sync>>

\* processBlockDiscoveryMessage: n answers with the metadata it has, if any.
AnnounceBlock(n, o) ==
  /\ n \in up
  /\ o \in DOMAIN index[n].byOid
  /\ blockAnns' = blockAnns \cup {[node |-> n, block |-> GetByOid(index[n], o).md]}
  /\ UNCHANGED <<up, index, known, announced, emptyAnns, sync>>

\* updateBlockAvailability: metadata announced by another node is put at once,
\* also while a sync is in flight.
UpdateBlockAvailability(n, m) ==
  /\ n \in up
  /\ m.node # n
  /\ index' = [index EXCEPT ![n] = Put(@, m.block)]
  /\ UNCHANGED <<up, known, announced, emptyAnns, blockAnns, sync>>

-----------------------------------------------------------------------------
(* syncBlockIndexAndUpdateMetadata *)

\* What the flight makes of NodeIndex.Get: the number stored for p, which is 0
\* for a peer without a record.  Get may also fail, on the disk or because the
\* record cannot be decoded, and that is taken for a peer never seen.
NodeIndexGet(n, p) == {known[n][p], 0}

\* NodeIndex.Put of p's metadata with sequence number k.
NodeIndexPut(n, p, k) == known' = [known EXCEPT ![n][p] = k]

\* Mutant: the number is compared with the announcement off by one.
NeedsMoreThanOne(p, seen) == seen + 1 < announced[p]

\* An announcement is ahead of the number seen.
NeedsSync(p, seen) == seen < announced[p]

\* An announcement of another node is handled.  A call made during a flight
\* only waits for its end.
Hears(n, p) == n \in up /\ p # n /\ Idle(n)

\* A flight that has read the number seen dials.  The dial of a node that is
\* down takes its time before it fails.
SyncFrom(n, p, seen) ==
  /\ Hears(n, p)
  /\ NeedsSync(p, seen)
  /\ sync' = [sync EXCEPT ![n] = Request(p, p \in up, seen)]
  /\ UNCHANGED <<up, index, known, announced, emptyAnns, blockAnns>>

StartSync(n, p) == \E seen \in NodeIndexGet(n, p) : SyncFrom(n, p, seen)

\* An announcement that equals the number seen is stored as it is.  When the
\* number is that of the cursor nothing changes; but Get may have failed, and an
\* old announcement of an empty journal is then stored over the cursor.  (The
\* function returns with an error when the number seen is ahead.)
StoreAnnounced(n, p) ==
  /\ Hears(n, p)
  /\ p \in emptyAnns
  /\ NodeIndexPut(n, p, 0)
  /\ UNCHANGED <<up, index, announced, emptyAnns, blockAnns, sync>>

\* Mutant: the request starts one past the first entry that is not known.
FetchSkipsOne(p, maxSeen) ==
  EnumerateBySeq(index[p], maxSeen + 2, maxSeen + 2 + BatchSize)

\* Server.PeerSync at p for the request that n sends.
Fetch(p, maxSeen) ==
  EnumerateBySeq(index[p], maxSeen + 1, maxSeen + 1 + BatchSize)

\* The call of PeerSync returns.
PeerSync(n) ==
  /\ Requesting(n)
  /\ sync[n].conn
  /\ LET batch == Fetch(sync[n].peer, sync[n].maxSeen) IN
       sync' = [sync EXCEPT ![n] =
         IF batch = {} THEN NoSync
         ELSE Applying(sync[n].peer, TRUE, sync[n].maxSeen, batch,
                       Cardinality(batch) < BatchSize)]
  /\ UNCHANGED <<up, index, known, announced, emptyAnns, blockAnns>>

\* The flight sy once the entry e of its batch is put.
AfterPut(sy, e) ==
  Applying(sy.peer, sy.conn, IF e.seq > sy.maxSeen THEN e.seq ELSE sy.maxSeen,
           sy.rest \ {e}, sy.last)

\* Mutant: the entries of a batch are taken in any order.
PutAnyEntry(n) ==
  /\ InBatch(n)
  /\ \E e \in sync[n].rest :
       /\ index' = [index EXCEPT ![n] = Put(@, e.md)]
       /\ sync' = [sync EXCEPT ![n] = AfterPut(@, e)]
  /\ UNCHANGED <<up, known, announced, emptyAnns, blockAnns>>

\* Mutant: an entry is put with the time of the sync.
PutEntryRestamped(n) ==
  /\ InBatch(n)
  /\ \E e \in sync[n].rest, now \in Time :
       /\ \A f \in sync[n].rest : e.seq <= f.seq
       /\ index' = [index EXCEPT ![n] = Put(@, [e.md EXCEPT !.time = now])]
       /\ sync' = [sync EXCEPT ![n] = AfterPut(@, e)]
  /\ UNCHANGED <<up, known, announced, emptyAnns, blockAnns>>

\* One turn of the loop over the entries, which are in journal order.
PutEntry(n) ==
  /\ InBatch(n)
  /\ \E e \in sync[n].rest :
       /\ \A f \in sync[n].rest : e.seq <= f.seq
       /\ index' = [index EXCEPT ![n] = Put(@, e.md)]
       /\ sync' = [sync EXCEPT ![n] = AfterPut(@, e)]
  /\ UNCHANGED <<up, known, announced, emptyAnns, blockAnns>>

\* Mutant: the cursor is stored while entries of the batch are still to be put.
StoreCursorEarly(n) ==
  /\ InBatch(n)
  /\ NodeIndexPut(n, sync[n].peer, sync[n].maxSeen + Cardinality(sync[n].rest))
  /\ sync' = [sync EXCEPT ![n] =
       IF sync[n].rest # {} THEN @
       ELSE IF sync[n].last THEN NoSync
       ELSE Request(sync[n].peer, sync[n].conn, sync[n].maxSeen)]
  /\ UNCHANGED <<up, index, announced, emptyAnns, blockAnns>>

\* The whole batch is put: the node index stores the cursor; a short batch
\* was the last one.
StoreCursor(n) ==
  /\ InBatch(n)
  /\ sync[n].rest = {}
  /\ NodeIndexPut(n, sync[n].peer, sync[n].maxSeen)
  /\ sync' = [sync EXCEPT ![n] =
       IF sync[n].last THEN NoSync
       ELSE Request(sync[n].peer, sync[n].conn, sync[n].maxSeen)]
  /\ UNCHANGED <<up, index, announced, emptyAnns, blockAnns>>

\* Dial, the call, its five seconds, or a write to an index fails: the flight
\* ends with the entries put so far and the cursor of the last whole batch.
FailSync(n) ==
  /\ ~ Idle(n)
  /\ sync' = [sync EXCEPT ![n] = NoSync]
  /\ UNCHANGED <<up, index, known, announced, emptyAnns, blockAnns>>

Next ==
  \E n \in Node :
    \/ \E md \in Writable : RunInfo(n, md)
    \/ Start(n)
    \/ Stop(n)
    \/ PublishPeerAnnouncement(n)
    \/ \E o \in Discovered : AnnounceBlock(n, o)
    \/ \E m \in blockAnns : UpdateBlockAvailability(n, m)
    \/ \E p \in Node : StartSync(n, p) \/ StoreAnnounced(n, p)
    \/ PeerSync(n)
    \/ PutEntry(n)
    \/ StoreCursor(n)
    \/ FailSync(n)

Spec == Init /\ [][Next]_vars

(***************************************************************************)
(* Fairness.  The ticker of publishPeerAnnouncement fires as long as the   *)
(* process runs.  A flight is a goroutine that nothing blocks for ever:    *)
(* its steps are taken while they stay possible, and it does not outlive   *)
(* a connection that is gone.  Syncing from the cursor is strongly fair:   *)
(* flights to other peers disable it again and again, and of the           *)
(* announcements sent over and over some one arrives when no flight is on. *)
(***************************************************************************)
LoseConnection(n) == Requesting(n) /\ ~ sync[n].conn /\ FailSync(n)

Fairness ==
  \A n \in Node :
    /\ WF_vars(PublishPeerAnnouncement(n))
    /\ WF_vars(PeerSync(n))
    /\ WF_vars(PutEntry(n))
    /\ WF_vars(StoreCursor(n))
    /\ WF_vars(LoseConnection(n))
    /\ \A p \in Node : SF_vars(SyncFrom(n, p, known[n][p]))

FairSpec == Spec /\ Fairness

-----------------------------------------------------------------------------
(* Properties *)

StoredWritable == { Encode(md) : md \in Writable }

Flight(sy) == sy.peer \in Node /\ sy.conn \in BOOLEAN /\ sy.maxSeen \in Nat

SyncType(sy) ==
  \/ sy = NoSync
  \/ sy = Request(sy.peer, sy.conn, sy.maxSeen) /\ Flight(sy)
  \/ /\ sy = Applying(sy.peer, sy.conn, sy.maxSeen, sy.rest, sy.last)
     /\ Flight(sy)
     /\ \A e \in sy.rest : e \in Entry
     /\ sy.last \in BOOLEAN

\* Every index holds decoded metadata of blocks under well-typed keys, and only
\* what some command wrote; every message and every flight is of its type.
TypeOK ==
  /\ up \subseteq Node
  /\ index = [n \in Node |-> index[n]]
  /\ \A n \in Node :
       /\ IndexType(index[n])
       /\ \A s \in DOMAIN index[n].bySeq : index[n].bySeq[s].md \in StoredWritable
  /\ known \in [Node -> [Node -> Nat]]
  /\ announced \in [Node -> Nat]
  /\ emptyAnns \subseteq Node
  /\ \A m \in blockAnns : m \in [node : Node, block : StoredWritable]
  /\ sync = [n \in Node |-> sync[n]]
  /\ \A n \in Node : SyncType(sync[n])

\* Over stops between any two steps, concurrent block announcements and stale
\* announcements, each index keeps the two kinds of keys in agreement and the
\* update times of a block growing.
IndexesWellFormed == \A n \in Node : WellFormed(index[n])

\* What a node announces, and numbers the next Put from, is its last journal
\* key, after whatever sequence of commands, starts and stops.
SeqFollowsJournal ==
  \A n \in Node : index[n].seq = IF n \in up THEN LastKey(index[n]) ELSE 0

\* No step of any node rewrites a journal record that a peer may have fetched,
\* or goes back to older metadata of a block.
IndexesGrow == [][\A n \in Node : Grows(index[n], index'[n])]_vars

\* The cursor stored for a peer never claims more than was put: whatever the
\* peer journalled up to the cursor, this node has it or something fresher.
\* If it failed, those entries would never be asked for again.
CursorCovered ==
  \A n, p \in Node :
    n # p => /\ known[n][p] <= LastKey(index[p])
             /\ CoversUpTo(index[n], index[p], known[n][p])

\* A flight has put all of the peer's journal up to maxSeen, and what is left of
\* its batch are the peer's next records without a hole.  So maxSeen is what
\* the cursor may be set to at any time, and a failed flight loses nothing, also
\* when the flight could not read the cursor and began again at 0.
FlightCovered(n) ==
  LET p == sync[n].peer
      k == sync[n].maxSeen
  IN  /\ n \in up
      /\ p # n
      /\ k <= LastKey(index[p])
      /\ CoversUpTo(index[n], index[p], k)
      /\ InBatch(n) => FollowsInJournal(index[p], k, sync[n].rest)

FlightsCovered == \A n \in Node : ~ Idle(n) => FlightCovered(n)

\* Put has no way to order two different contents of one block and second.
TieFree ==
  \A a, b \in Writable : a.oid = b.oid /\ a.time = b.time => a.content = b.content

View(n) == [o \in DOMAIN index[n].byOid |-> index[n].byOid[o].md]

CaughtUp(n, p) == known[n][p] = LastKey(index[p])

\* Two nodes whose cursors have reached the end of each other's journal hold
\* the same metadata of the same blocks, however it got there.
SyncedNodesAgree ==
  TieFree => \A n, p \in Node :
    n # p /\ CaughtUp(n, p) /\ CaughtUp(p, n) => View(n) = View(p)

Written == UNION { { index[n].bySeq[s].md : s \in DOMAIN index[n].bySeq } : n \in Node }

\* Metadata comes from commands alone: however it travels, in journals, batches
\* or block announcements, over stops and retries, no node journals any that
\* was not written as it is at some node before.
OnlyCommandsWrite ==
  [][Written' # Written =>
       \E n \in Node, md \in Writable :
         RunInfo(n, md) /\ Written' = Written \cup {Encode(md)}]_vars

RI == INSTANCE ReplicatedIndex WITH
        written <- Written, view <- [n \in Node |-> View(n)]

\* Whatever the swarm does, it writes, spreads and never unwrites metadata.
ImplementsReplicatedIndex == RI!ASpec

\* A cursor is there and cannot be read.
GetFails(n, p) == known[n][p] # 0 /\ (SyncFrom(n, p, 0) \/ known'[n][p] = 0)

\* A flight ends, and not since its connection is lost.  (An empty batch ends a
\* flight as a failure does.)
SyncFails(n) == FailSync(n) /\ ~ LoseConnection(n) /\ ~ PeerSync(n)

\* Every process runs from some time on, and from then on every cursor can be
\* read and no flight fails but for a lost connection.
Stable ==
  /\ <>[](up = Node)
  /\ <>[][\A n \in Node : ~ SyncFails(n) /\ \A p \in Node : ~ GetFails(n, p)]_vars

AllCaughtUp ==
  \A n, p \in Node : n # p => CaughtUp(n, p) /\ View(n) = View(p)

\* Announcing and syncing bring a swarm that stays up to agreement, and there
\* they come to rest: entries are not sent back and forth for ever.
Converges == Stable => <>[]AllCaughtUp
=============================================================================
