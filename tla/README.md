# A TLA+ development of juren

juren is a small cluster of nodes that store content-addressed blocks. Every
node keeps an index of block metadata with a journal, the nodes replicate these
indexes to each other by multicast announcements and RPC, and they find out who
has a block by multicast questions and answers.

The modules here are translated from the Go code under `src/`. They are model
checked with TLC on small instances. With TLAPS every safety property of every
passing run is proved: of the index, of the replication of metadata, of discovery, of
an RPC connection, of the block store and of the node's life cycle, for any number of
nodes, blocks, callers and connections. Liveness is checked by TLC alone.
`PROJECT.json` maps every definition to the lines it stands for.

Contents: [parts of the system](#the-parts-of-the-system),
[modules](#the-modules), [correspondence](#how-the-models-correspond-to-the-code),
[runs](#the-runs), [fairness](#fairness), [proofs](#the-proofs),
[findings](#where-the-code-and-its-documents-differ),
[what is left out](#what-is-not-modelled), [plan](#plan).

## The parts of the system

| Part | Source | State | Operations |
|---|---|---|---|
| Block index | `datastore/leveldb/blockindex.go`, `leveldb.go`; `datamodel/block` | LevelDB keys `OID<oid>` and `SEQ<seq>`, both to an entry (sequence number, metadata); `seq` in memory | `NewBlockIndex`, `Put`, `GetByOid`, `GetBySeq`, `Has`, `EnumerateBySeq`, `Enumerate`, `GetSeq`, `Vacuum` (empty) |
| Node index | `datastore/leveldb/nodeindex.go`; `datamodel/node` | LevelDB keys `NOD<oid>`: addresses, last seen, and the sequence number up to which that peer's journal was fetched (the *cursor*) | `Get`, `Put`, `Enumerate` |
| Journal synchronisation | `swarm/node/node.go`, `server.go`, `swarm/client`, `swarm/protocol` | one singleflight group; a flight's locals: the peer, the connection, `maxSeenBlockSeq`, the batch | `publishPeerAnnouncement`, `syncBlockIndexAndUpdateMetadata`, `Server.PeerSync`, `updateBlockAvailability` |
| Block discovery | `swarm/node/node.go`, `blockavailability.go` | the tracker: block to (node to `Has`), in memory | `DiscoverBlock`, `processBlockDiscoveryMessage`, `updateBlockAvailability`, `Update`, `WhoHas` |
| RPC | `net/crpc` | client: `seq`, `pending`, `closing`, `shutdown`; server: one goroutine per connection; the two byte streams | `Call`, `Go`, `send`, `input`, `Close`, `serveConn`, `Serve` |
| Multicast PubSub | `net/mpubsub`, `swarm/node/pubsub.go` | two UDP sockets | `Publish`, `Listen`; every handler starts a goroutine |
| Node life cycle | `Node.Run`, `helper/timer`, `commands/test.go` | an errgroup of listener, RPC server and ticker | `New`, `Run`, `RunWithTicker` |
| Commands | `commands/`, `main.go` | none | `info` puts one metadata record; `test` runs a node; the others are empty |
| Block store | `datastore/flatfs` | one file per block in shard directories; nothing in memory, no lock | `Put`, `Get`, `Has`, `Delete`, `Enumerate`; the node calls only `Has` so far |
| OIDs | `oid` | none | `Encode`, `UnmarshalBinary`, `FromString`, the base32 text, JSON, `Random` |
| Configuration, objects | `config`, `datamodel/object`, `keyvalue` | one file; types | reading and writing the file |

How they interact. A ticker publishes the node's sequence number in a
`PeerAnnouncement`. A node that hears one (also its own) starts a goroutine that
enters the singleflight group; the one that gets in reads the cursor of the peer,
dials the peer's RPC address if the announced number is above it, calls
`PeerSync` for batches of 100 journal entries, puts every entry in its block
index, which may append to its *own* journal, and writes the cursor after every
batch. A `BlockDiscoveryMessage` is answered with a `BlockAnnouncement` that
carries the metadata of the block and whether the block itself is stored; its
receivers tell their tracker and put the metadata in their block index, outside
of any flight. The `info` command opens the same LevelDB directories as the node,
which LevelDB allows to one process at a time.

What is hard about it, and what makes each part correct:

- **Block index.** The two kinds of keys and the counter in memory describe one
  history. `Put` writes the database first and the counter after; a process may
  stop in between, and since writes are not synced a machine may come back with a
  shorter journal. Correct means: the journal is dense and replays to the index,
  a block's update times grow along it, no number a peer may have seen is given
  out twice while no data was lost, and a short batch means the end of the journal
  (the sync protocol stops at a short batch).
- **Journal synchronisation.** Announcements are lost, repeated and reordered, a
  flight can fail between any two steps, both processes can stop and start, the
  peer's journal grows under the flight, block announcements put the same blocks
  at the same time, and announcements that arrive during a flight are dropped.
  Correct means: the stored cursor never claims an entry that was not put, since
  such an entry would never be asked for again; nobody goes back to older
  metadata; nodes that have read each other's journals agree; and a swarm that
  stays up reaches agreement and comes to rest instead of sending entries around
  for ever.
- **Discovery.** Answers are late, lost and out of order, stores change after
  they were looked at, the timeout races with the answer. Correct means: only
  nodes that had the block are named, what was learned is undone only by the node
  it is about, and a node that keeps the block is found in the end.
- **RPC.** Callers, `input`, `Close` and the timeout of `Call` interleave, and the
  client writes to the stream without a lock. Correct means: a call that succeeds
  has its own reply, every call returns, and the response stream stays in step.
- **Life cycle.** Five kinds of goroutines see one cancellation, in any order, and
  nothing wakes the accept loop but the closing of its listener, nor a connection
  but its client. Correct means: `Run` returns once its context is done, with an
  error that has its cause outside of the group; a shutdown is never taken for a
  broken listener; no client can keep a node from ending.
- **Block store.** Goroutines meet only in the file system: `Put` empties a file
  and writes it in place, readers have it open meanwhile, `Delete` takes its name
  away, and the process can be killed between two writes. Correct means: Puts of
  one block leave it whole unless one of them failed, what was acknowledged stays
  until it is deleted, and a list is complete or there is none.

## The modules

| Module | What it is |
|---|---|
| `IndexOps` | the block index as a value: entries, `Put`, `Recover`, `EnumerateBySeq`, and what "well formed", "grows", "covers" mean |
| `BlockIndex` | one node's index over processes and machines that stop; EXTENDS `IndexOps` |
| `IndexKeys` | the journal under its text keys, and the two scans over them; EXTENDS `BlockIndex` |
| `ReplicatedIndex` | abstract specification: metadata is written somewhere, spreads, and never replaces fresher metadata |
| `SwarmSync` | the replication protocol between nodes; EXTENDS `IndexOps`, refines `ReplicatedIndex` |
| `SwarmDurability` | `SwarmSync` on machines that lose unsynced writes |
| `Discovery` | looking for the nodes that have a block |
| `Crpc` | one RPC connection: callers, `input`, `serveConn`, `Close`, cancellation, a cut connection |
| `NodeRun` | the goroutines of a running node and how they end: the errgroup of `Run`, `Listen`, `Serve` with its back-off, the ticker, the connections |
| `Oids` | object identifiers: their bytes, their base32 text, and back |
| `FlatFS` | the block store: goroutines that put, get, delete and list files step by step; EXTENDS `Oids` |
| `MCBlockIndex`, `MCSwarmSync`, `MCSwarmDurability`, `MCDiscovery`, `MCCrpc`, `MCNodeRun`, `MCFlatFS` | instances for TLC |
| `Recursion` | induction over the natural numbers, and that a recursion over them defines a function |
| `IndexOpsProofs`, `BlockIndexProofs` (with `IndexKeys`), `SwarmSyncProofs`, `DiscoveryProofs`, `CrpcProofs`, `NodeRunProofs`, `FlatFSProofs` (with `Oids`) | lemmas and theorems |

`SwarmSync` and `BlockIndex` share `IndexOps`, so that what is proved of the
operators serves both. `BlockIndex` has `Put` in two steps, because what it is
about is stopping in the middle; `SwarmSync` has it in one, because the mutex of
the index makes it one for everybody who looks, and `BlockIndex` shows that
stopping in the middle leaves the same index as stopping after it. `Crpc` and
`NodeRun` look at `serveConn` from two sides: `Crpc` has one connection in full and
lets the context be cancelled at any time; `NodeRun` has all connections, what
cancels the context and what follows, and of a request only that it comes.

Definitions named "Mutant" in their comment are not part of any specification.
Each is a plausible mistake in the code next to it, and replacing the definition
by it must break the property `PROJECT.json` pairs it with. They are there to show
that the properties can fail.

## How the models correspond to the code

**Metadata.** A record of OID, update time, and `content`, which stands for
`Length` and `IsDeleted`. `sub` tells a time fresh from `time.Now()` from one that
went through CBOR: the default encoding of `fxamacker/cbor` writes whole seconds.
`Encode` drops it. `IsMetadataEqual` compares everything, `After` the times. A
time that was decoded is never after one of the same second with a fraction, so
`After` on seconds is exact for the stored time on its left.

**Index.** `byOid` and `bySeq` are the two kinds of keys, as functions. `LastKey`
is the last key of an iterator over the journal; keys are 16 hexadecimal digits, so
their order as text is that of the numbers. `CutJournal` is what LevelDB has after
its log was cut: `Put` writes one batch per entry, so what is left is the state
after a prefix of the batches. LevelDB is used with nil write options, which means
that writes are not synced: they survive the process and not the machine.

**Journal keys.** `IndexOps` finds the last key and ranges of keys by their
numbers. The code does it with iterators over text. `IndexKeys` writes a sequence
number with `Width` digits of base `Base`, orders keys as LevelDB does, byte by
byte, and runs the scans of `NewBlockIndex` and `EnumerateBySeq` over them;
`ScansFollowNumbers` says that both ways agree in every state of the index. A digit
is what is left of the number after the digits behind it (`Shifted`), modulo the
base. `WidthAssumption` says that the numbers of the model fit the width, as a
`uint64` fits 16 hexadecimal digits. The mutant formats numbers without a width.

**Swarm.** `announced[p]` keeps only the greatest number in an announcement of
`p`. The number matters only in the guard of a flight (`NeedsSync`), which
the greatest passes if any does; stale, repeated and lost announcements are the
steps where no flight starts. A flight does not end at the announced number: it
ends at a short or an empty batch, as in the code. The code takes every error of
`NodeIndex.Get` for a peer never seen, not only that the peer has no record. So
`NodeIndexGet` is the stored number or 0: a flight may begin again below the stored
cursor, and then its first batch sets the cursor back. When the number read and the
announced one are equal, the code stores the announced one (`StoreAnnounced`). If the
number was read that changes nothing; if it was not, both are 0 and the cursor is
lost, which takes an announcement of an empty journal (`emptyAnns`) that is still
about. When the number read is ahead the code returns with an error. `conn` of a
flight says that the peer's process has not ended since the dial. `RunInfo` needs
the node stopped because LevelDB locks the directory. The code writes one fixed
OID with a fixed content; `Writable` lets commands write more blocks, and the
`MC` instances keep the content a function of the block and the second, as in the
code. `Discovered` are the blocks somebody asks for (`commands/test.go` asks for a
fixed one).

**Discovery.** Trackers do not read each other, so the module follows the tracker
and the lookups of one node, `Me`, while all nodes answer. `answers` holds the
announcements from the moment a handler has read its index and store until `Me`
handles them: a slow handler and a slow datagram look the same to `Me`. Several
calls for one block poll the same tracker and are one element of `waiting`.
Which files a store has changes at any time: no code calls `FlatFS.Put` or
`Delete` yet, so this is the environment's doing.

**Block store.** An action is one call into the file system: making the directory,
opening a file (which creates or empties it), writing or reading one piece,
removing a name, reading a directory. `link` is the directory entries and `data`
the files; a file that is open stays the same file when its name is gone, so a
`Delete` between two writes, and a new `Put` after it, lead to two files. The data
of a block follows from its OID, so a file is a sequence of piece numbers, with 0
for a hole. Failed calls and kills come between any two steps; a kill loses
nothing that was written (a machine that fails could). `torn`, `acked` and the
fields `kept`, `clean`, `always`, `ever` of an operation are history that the
properties refer to. The files are named, and names are read back, by `Oids`, bit
by bit as base32 does it; the stray files of the instance have a name that is not
base32 and a name with a padding byte that is not zero, and `Enumerate` must leave
out both. Go's base32 drops line ends wherever they are in a text (`Stripped`), so a
name that is the text of an OID but for a line end reads as that OID.
`BlockAssumption` says that blocks have OIDs that `Encode` makes (`IsOid`),
`StrayAssumption` that a stray file is one whose name is not the text of any OID
(`IsOidText`), line ends or not: one that is, with whatever it holds, is a block to
this code.

**Life cycle.** `member` is where each member of the errgroup is, `Return` what the
group does with the first error. The goroutine that closes the listener and those
of the connections are not members, so `Run` returns without them. `AcceptTimesOut`
and `AcceptBreaks` are errors that the listener has of itself, `AcceptClosed` that of
a listener that was closed. `Serve` looks at the context in a step of its own
(`ServeStops` if it is done, `ServeRetries` or `ServeGivesUp` if not), and its error
reaches the group in another (`ServeReturns`). In between anybody may cancel, and
other members may return. So when the listener breaks and the caller cancels, `Run`
may return either error, and `RunReturnsACause` says no more than that each of them
has its cause: an accept error comes from a listener that broke while the context was
not done, and a cancellation was asked for. The read deadline of `Listen` is why a
read always ends. `broken`, `failures` and `late` are history: whether the listener broke
before the context was done, how many accepts failed in a row, and what was read from a
connection after the end.

**RPC.** A value on the stream is one CBOR value: its kind, the sequence number of
the request it belongs to and whether it carries an error. Everything a goroutine
does under the client's mutex is one action; writes, which happen outside of it,
are actions of their own, header and argument apart. Taking a value off the stream
is one action with what is done with it. A call that `send` refuses returns
`ErrShutdown` and changes nothing, so it is not a step.

## The runs

| Run | Question | Result |
|---|---|---|
| `block_index` | is one node's index consistent over puts, openings, stops inside `Put`, losses of unsynced writes, and do scans over text keys find what numbers say? | yes |
| `index_newer_rule` | is a change applied only if its time is newer? | no |
| `index_counter` | is the sequence number a monotonic counter of all operations? | no |
| `swarm_safety` | are cursors, flights and indexes right, do synced nodes agree, does metadata come from commands only, is the abstract specification implemented? | yes |
| `swarm_converges` | do two nodes agree and come to rest, after stops, failures and cursors that could not be read? | yes |
| `swarm_relay` | and three nodes, with one flight each for all peers? | yes |
| `swarm_persisted` | is what a cursor claims on the disk? | no |
| `discovery` | are only nodes that had the block named, and a node that keeps it found in the end? | yes |
| `crpc` | does every call get its own reply or an error, and return? | yes |
| `crpc_frames` | is a request header followed by its own argument? | no, with two callers |
| `flatfs` | are blocks whole, kept and listed under concurrent calls, failures and kills? | yes |
| `node_run` | does a node that is cancelled or breaks end, with the right error, whatever clients do? | yes |

Every bound is a CONSTANT of a cfg or a set in an `MC` module:

- `block_index`: two blocks, two seconds, two contents, four journal entries. Four
  entries hold a block written twice, another one between, and one more after a
  loss; two contents at one second are the tie that `Put` cannot order. Symmetric in
  blocks and contents. Keys have three binary digits (`Base`, `Width`), so that the
  numbers 1 to 4 need one, two and three of them. 8,876 states.
- `swarm_safety`: two nodes, two blocks, `BatchSize` 2 and a bound `MaxSeq` on the
  journal that a command will extend (what a sync appends is not bounded by it,
  and need not be: everything put comes from finitely many writes). Three metadata
  records make batches that are full, short and empty, an entry superseded while
  it is fetched, and echoes of a node's own entries. `MaxRecords`, in a constraint,
  stops at four journal records over both nodes: two writes, and both carried to
  the other side, or a write superseded under a flight. The run begins where every
  node has already announced an empty journal (`EmptyHeard`, a state that a start, a
  tick and a stop of each node lead to): such an announcement only ever enables a step,
  so all that the nodes can do from `Init` they can do from there. 425,976 states; the
  theorems begin with `Init` and have no such bounds.
- `swarm_converges`: two nodes and one block that both write at two times, batches
  of one entry: the shortest setting in which two journals chase each other. 283,012
  states.
- `swarm_relay`: three nodes, so that an announcement comes while a flight to
  another peer is on, and metadata reaches a node by way of another. 11,343 states.

  These two bound the stops in their specification: in the first one node stays up
  once it is started and the other stops and starts at any point, in the second
  nodes start late, in any order. Convergence is about behaviours in which the stops
  cease, so what matters of a stop is the state it leaves: cursors and journals cut
  anywhere in a flight, and a peer that begins again with both. `swarm_safety` has
  all stops. The second also leaves out cursors that cannot be read, which the first
  has. In the first the node that restarts has announced an empty journal at the start,
  in the second all have (`EmptyHeard`, as above).
- `swarm_persisted`: the counterexample needs one write and one sync. `past` keeps the
  contents the node index has had, and a machine comes back with any of them.
- `discovery`: the asking node, one other, one block. Blocks have separate entries
  in the tracker, and a second other node would do to the tracker what the first
  does. About 47 thousand states.
- `crpc`: two goroutines and two calls (`MaxCalls`), one or both from one goroutine,
  which is what interleaves two requests or a late reply with the next call.
  `CHECK_DEADLOCK FALSE` here: a connection that has ended does nothing more.
- `flatfs`: two goroutines, two blocks of different types (hence two shards), two
  pieces per block, two stray files, and four files, more than can be linked and
  open at once. Two pieces are needed for a file that is cut, or has a hole, or is
  read while it is written. Symmetric in goroutines and files. 180,864 states.
- `node_run`: one connection, since connections share nothing but `Serve`; two
  requests on it, one of which can come after the end; delays of 5 and 10 that
  reach a limit of 12 at the third of three failed accepts. `CHECK_DEADLOCK FALSE`:
  a node that has ended does nothing more. 50,656 states.

`Vacuum` is an action that changes nothing, because the method does nothing. Its
mutant does what its comment announces and breaks `ShortBatchIsLast`.

## Fairness

- *Swarm.* The ticker and the goroutine of a flight are weakly fair: nothing blocks
  them for ever. That includes the dial, which the model lets take any time as long
  as it fails in the end. Starting a flight at the stored cursor (`SyncFrom`) is
  strongly fair per pair of nodes: a flight to another peer disables it again and
  again, and announcements come at every tick, so that of the infinitely many that
  come some one finds no flight on.
  `Converges` has the premise `Stable`: from some time on all processes run, every
  cursor can be read, and no flight fails but for a lost connection (a flight that
  ends with an empty batch has not failed, though it looks the same in the state).
  The code retries for ever but promises nothing if the database refuses every read
  or write.
- *Discovery.* Handlers and the lookup's timeout are weakly fair. Receiving a
  message is strongly fair: it may be lost any number of times, not always. That the
  node asks again and again is a premise of `EventuallyFound`, not fairness.
- *RPC.* The goroutines are weakly fair and registered methods return. Reading from
  a connection that is gone fails in the end, since Go's `net` enables TCP
  keep-alive. `Timeout` is not fair: calls return without it.
- *Life cycle.* A goroutine that can go on does: a read of `Listen` ends at its
  deadline of 100 ms, sleeps and methods end, `Accept` fails once its listener is
  closed, and a read fails once the client has closed. `TickerDone` is strongly fair
  because `select` picks at random when a tick and the end are both ready. Nothing is
  assumed of clients, and nothing of `Accept` while the listener is open.

## The proofs

All theorems hold for every value of the constants under the assumptions the
modules name. The weightiest are that `Time` are natural numbers, writable metadata is
metadata, the batch size and the number of pieces are positive, sequence numbers fit
the width of a key, the length of an OID is one that base32 writes without padding
(`HashLenAssumption`, as for the 35 bytes of the code), and what blocks and stray
files are named (above).

`Recursion` makes the proofs about digits, powers and delays possible. The induction
theorems of the library take a predicate as a parameter, which the provers cannot
instantiate; `Induction` takes the *set* of the numbers that have a property, and
follows from the least number outside of it. `Recursion` builds a function from its
recursive definition out of approximations that agree, for any step.

`IndexOpsProofs` has the facts about the operators: `Put` of any metadata, opening,
and changing the counter keep an index well formed and only extend it
(`PutPreserves`, `RecoverPreserves`, `SetSeqPreserves`), what `EnumerateBySeq`
returns, and that "covers" and "follows in the journal" survive growth.

`BlockIndexProofs` proves all seven properties of run `block_index`. The inductive
invariant `IInv` adds to type and well-formedness how the counter in memory, the
number being written and the last key are related in and out of `Put` (`SeqInv`):
without it the next entry could land on a key that is taken, and density could not
be carried over a step.

`ScansCorrect` proves the scans for every base and every width. With `Shifted`, a
number is put together again from its leading part and a digit (`KeyFacts`), so equal
first digits mean equal leading parts (`SamePart`) and reading a key back gives the
number (`SeqOfKey`). Two keys differ first at some digit; there the leading parts
differ the same way, and greater numbers have no smaller leading parts
(`ShiftedOrder`), so the order of keys is the order of numbers (`KeyOrder`). That the
journal never grows past the numbers that fit (`JournalFits`) is invariant because
`Put` numbers its record from the counter in memory, which `SeqInv` ties to the last
key.

`SwarmSyncProofs` proves seven properties of run `swarm_safety`. None of the
cursor properties is inductive alone. What `StoreCursor` writes is right because of
what the flight put, so `CursorCovered` needs `FlightsCovered`; what a flight may
put is right because the rest of its batch follows in the peer's journal, which
needs that journal to be dense (`IndexesWellFormed`), which needs every node to
number from its last key (`SeqFollowsJournal`). `IInv` is their conjunction. The
argument goes in two halves. `StepIndexes`: whatever step is taken, each index stays
well formed and only grows. `Carried`: a claim "n has p's journal up to k" survives
when the indexes grow. So only the steps of a flight itself are left, one lemma
each. A flight that could not read its cursor begins at 0, where there is nothing to
cover (`NothingCovered`), so the invariant does not compare `maxSeen` with the stored
cursor. `AgreementCorrect` follows from the invariant without another step: of two
nodes with cursors at each other's ends, each covers the other's entries, so times
are equal, and `TieFree` makes contents equal.

The last part of `SwarmSyncProofs` proves the other two. What a flight carries and what a block
announcement brings was journalled somewhere as it is (`Heard`), and journals keep
what they had (from `IndexesGrow`), so every `Put` of a flight or an announcement
writes metadata that some node already journals, and only commands write new
metadata (`OnlyCommandsWrite`). `StepChanges` says that a step either leaves all
indexes alone, up to what opening does to the counter, or is one `Put` at one node;
mapped to `ReplicatedIndex`, the first is a stutter and the second a write, a
spreading, or a stutter when `Put` does nothing. With that and the initial states,
`SwarmSync` implements `ReplicatedIndex` for any number of nodes and blocks.

`DiscoveryProofs` proves all safety properties of run `discovery`. `HeldInv` follows
a claim "n has the block" from the moment a handler reads its store through the
message and the tracker to the result of a lookup; `TrackerInv` says what restarts
do to the tracker.

`CrpcProofs` proves all safety properties of run `crpc`, for any number of callers
and calls. `MemoryInv` strengthens `NeverForgotten` to hold from the registration of
a call on, and needs that sequence numbers belong to one caller each (`CallerInv`).
The rest follows a request. It is *whole* once its argument is on the stream. From
then on it is in one place at a time, between the ends or with the server, and its
call is pending (`WholeInv`), although the headers and arguments of concurrent
callers interleave: an argument is taken only behind its own header, or the server
hangs up (`RequestInv`). Headers without an error and replies come in pairs on the
way back (`ResponseInv`), so the reply that ends a call carries the call's number.

`NodeRunProofs` proves all safety properties of run `node_run`, for any number of
connections and all delays. `CauseInv` ties the group's error, and an error of
`Accept` from its first moment on, to what the caller and the listener did;
`LateInv` ties the number of late
requests to where in its loop a connection is. `DelayCorrect` is by induction over the
failures in a row: the delay that `Serve` doubles and cuts at each step (`NextDelay`)
is the first one doubled as often and cut once, since doubling past the limit stays
past it (`DelayStep`).

`FlatFSProofs` proves all properties of run `flatfs`, for any number of goroutines,
blocks and pieces. `FilesWhole` is not inductive: that a file is being
written says nothing of what its writer has done when it returns. `FilesInv` says that
every piece in a file is in its place or a hole, and that a file which is neither whole
nor torn has a writer who found it empty and whose pieces are all still there, since
other writers put the same in the same places. `ReadInv` follows a reader that nobody
disturbed, and `AckInv` the directory entry of a block from the opening of its file
on. Most steps do nothing with a file but let go of it; they are *calm*, and
`CalmStep` is proved once for all of them.

`FullInv` adds to that the types and the lists. A shard directory is there as soon as
a file in it is named (`LinksInv`), and a call of `Enumerate` holds between two shards
that every block that was there all the time is in its list or in a shard it still has
to read, and that nothing is in the list that never was (`Fits`). What it finds in a
shard are texts, so `EnumerateIsComplete` needs that the text of an OID reads back as
that OID and that no stray name reads as one (`FromStringFacts`): bit `i` of a text is
bit `i` of the bytes (`EncodedBits`), and the numbers that are made of eight bits in a
row are the bytes again (`DecodeEncoded`).

Model-checked only: the liveness properties (`Converges`, `EventuallyFound`,
`CallReturns`, `ShutdownCompletes`, `ClosedConnectionsEnd`), since fairness and
`ENABLED` are beyond the prover. The four runs that show a disagreement with a
document are counterexamples, and have nothing to prove.

## Where the code and its documents differ

Shown by a run:

1. `docs/concepts.md:106-108` wants a newer time for a change to be applied; `Put`
   (`blockindex.go:134`) also applies a different record of the same second. The
   one that arrives last stays, so nodes can differ for good. `SyncedNodesAgree`
   therefore has the premise `TieFree`.
2. `docs/concepts.md:81` calls the sequence number a monotonically increasing
   counter. After a power loss it goes back and gives numbers out again, and peers
   with a cursor beyond them never fetch what gets those numbers.
3. `docs/concepts.md:102` moves the cursor only after the metadata is persisted on
   disk. The two databases are not synced and can lose writes independently.
4. `server.go:246` takes the value after a header for its argument. Two goroutines
   on one client can interleave their requests; both calls then fail. Nodes use a
   client from one goroutine at a time.
5. `client.go:110` says that a response without a pending call "usually means that
   WriteRequest partially failed, and call was already removed". There are no such
   responses: what was not written whole is not answered, also when another caller's
   values follow it. Here the property that passes (`ResponsesExpected`, proved as
   `ResponsesCorrect`) is what disagrees with the comment.

By reading alone, listed in `PROJECT.json`: what `Put` does with older metadata,
the exclusive end of `EnumerateBySeq`, when the cursor reaches the announced
number, that a node without metadata does not answer a discovery message, that
`DiscoverBlock` always asks first, `Vacuum`, `PeerSyncRequest.NodeID`, `FlatFS.Delete`
of a block that does not exist, `FlatFS.Get` that returns what a cut file holds as
the block without an error, and the shards of the block store: the four characters
that choose a shard encode the type and padding of an OID and nothing of its hash,
so all blocks of a type share one directory.

## What is not modelled

- A machine that fails under the block store: `FlatFS` has kills of the process,
  which lose nothing that was written.
- `Register` and `suitableMethods` (reflection, once at the start), `Addr`, and
  `main.go` with its flags.
- The goroutines that wait in the singleflight group. They end with the flight and
  do nothing else: the announcement that such a goroutine carries is dropped, which
  is a lost announcement in `SwarmSync`. What they cost is memory, which is not
  modelled, and neither is what a long flight keeps per batch.
- Records of the block index that cannot be decoded, which `Put` replaces.
- A flight's five-second timeout and the end of a dial are "the flight fails".
- Addresses, `LastSeen`, capabilities and usage in the node index: nothing
  decides by them except the dial.
- The bytes of CBOR values, the size of datagrams, logging. Outside of `FlatFS` an OID
  is a model value; `Random` and the JSON methods of OIDs are left out.
- `config` reads and writes one file at the start; `datamodel/object` and `keyvalue`
  are types without an implementation.
- `BlockGet` and `BlockPut` return "unsupported"; `init`, `serve` and `publish`
  are empty.
- In the swarm models 64-bit sequence numbers do not overflow: that takes 2^64 puts.

## Plan

Done: every component that keeps state has its module, and every safety property that
a passing run checks, the action properties and the refinement among them, is a
theorem. What is left, in this order:

1. `SwarmDurability`: which of the theorems of `SwarmSync` hold on machines that lose
   unsynced writes, with the cursor and the metadata that it claims lost apart.
2. The steps of the liveness arguments that are safety: that a flight which goes on
   makes its cursor greater, and that journals stop growing once all metadata is known.
3. When the node begins to call `FlatFS.Put` and `Delete`: `Discovery` over `FlatFS`
   in place of the environment's set of files.
