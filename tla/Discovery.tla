----------------------------- MODULE Discovery -----------------------------
(***************************************************************************)
(* Finding the nodes that have a block: Node.DiscoverBlock, the            *)
(* BlockAvailabilityTracker it polls, and the handlers of the two messages *)
(* in between (swarm/node/node.go and blockavailability.go).               *)
(*                                                                         *)
(* DiscoverBlock multicasts the wanted OID and polls the tracker until it  *)
(* names a node or the lookup times out.  Every node that hears the        *)
(* message and has metadata of the block multicasts whether it has the     *)
(* block itself; the answers go to the tracker of whoever hears them.      *)
(* Trackers do not depend on each other, so the module follows the one of  *)
(* the node Me.  Datagrams are lost, delayed and reordered.                *)
(***************************************************************************)
CONSTANTS
  Node,
  Oid,
  Me      \* the node whose tracker and lookups are followed

ASSUME MeAssumption == Me \in Node

VARIABLES
  up,       \* the nodes whose process runs
  holds,    \* holds[n]: the blocks whose file is in the block store of n
  held,     \* held[n]: the blocks that were in holds[n] at some time
  indexed,  \* indexed[n]: the blocks n has metadata of
  asks,     \* asks[n]: the blocks of the discovery messages on their way to n
  answers,  \* the announcements on their way to Me
  tracker,  \* tracker[o]: what Me was told, a function from some nodes to Has
  waiting,  \* the blocks that a call of DiscoverBlock at Me waits for
  found     \* found[o]: the nodes that the last call for o returned

vars == <<up, holds, held, indexed, asks, answers, tracker, waiting, found>>

stores == <<holds, held, indexed>>

Answer == [node : Node, block : Oid, has : BOOLEAN]

\* NewBlockAvailabilityTracker.
EmptyTracker == [o \in Oid |-> [n \in {} |-> TRUE]]

\* Block stores and indexes are on disk and may hold anything.
Init ==
  /\ up = {}
  /\ holds \in [Node -> SUBSET Oid]
  /\ held = holds
  /\ indexed \in [Node -> SUBSET Oid]
  /\ asks = [n \in Node |-> {}]
  /\ answers = {}
  /\ tracker = EmptyTracker
  /\ waiting = {}
  /\ found = [o \in Oid |-> {}]

-----------------------------------------------------------------------------
(* The tracker *)

\* The nodes that last said they have o.
WhoHas(o) == { n \in DOMAIN tracker[o] : tracker[o][n] }

\* Mutant: what was heard first stays.
UpdateOnce(a) ==
  tracker' = [tracker EXCEPT ![a.block] =
    [n \in DOMAIN @ \cup {a.node} |-> IF n \in DOMAIN @ THEN @[n] ELSE a.has]]

\* Mutant: an unavailable block is forgotten with all its nodes.
UpdateForgets(a) ==
  tracker' = [tracker EXCEPT ![a.block] =
    IF a.has THEN [n \in DOMAIN @ \cup {a.node} |-> IF n = a.node THEN TRUE ELSE @[n]]
    ELSE EmptyTracker[a.block]]

\* Update, under the tracker's lock; nobody subscribes.
Update(a) ==
  tracker' = [tracker EXCEPT ![a.block] =
    [n \in DOMAIN @ \cup {a.node} |-> IF n = a.node THEN a.has ELSE @[n]]]

-----------------------------------------------------------------------------
(* Environment *)

\* A file comes to or goes from a block store.
StoreChanges(n, o) ==
  /\ holds' = [holds EXCEPT ![n] = IF o \in @ THEN @ \ {o} ELSE @ \cup {o}]
  /\ held' = [held EXCEPT ![n] = @ \cup {o}]
  /\ UNCHANGED <<up, indexed, asks, answers, tracker, waiting, found>>

\* Metadata of o comes to n's index by a sync or a command.
Learn(n, o) ==
  /\ indexed' = [indexed EXCEPT ![n] = @ \cup {o}]
  /\ UNCHANGED <<up, holds, held, asks, answers, tracker, waiting, found>>

\* A datagram to n does not arrive, or Listen cannot read or decode it.
Lose(n) ==
  /\ \/ \E o \in asks[n] : asks' = [asks EXCEPT ![n] = @ \ {o}] /\ UNCHANGED answers
     \/ n = Me /\ (\E a \in answers : answers' = answers \ {a}) /\ UNCHANGED asks
  /\ UNCHANGED <<up, stores, tracker, waiting, found>>

\* A process starts; New gives it an empty tracker and registers the handlers.
Start(n) ==
  /\ n \notin up
  /\ up' = up \cup {n}
  /\ UNCHANGED <<stores, asks, answers, tracker, waiting, found>>

\* Mutant: what the tracker knows is there in the next process.
StopKeepsTracker(n) ==
  /\ n \in up
  /\ up' = up \ {n}
  /\ waiting' = IF n = Me THEN {} ELSE waiting
  /\ UNCHANGED <<stores, asks, answers, tracker, found>>

\* A process ends; its tracker and lookups are gone.
Stop(n) ==
  /\ n \in up
  /\ up' = up \ {n}
  /\ IF n = Me THEN tracker' = EmptyTracker /\ waiting' = {}
     ELSE UNCHANGED <<tracker, waiting>>
  /\ UNCHANGED <<stores, asks, answers, found>>

-----------------------------------------------------------------------------
(* DiscoverBlock *)

\* The message goes to every node, to this one too.
DiscoverBlock(o) ==
  /\ Me \in up
  /\ o \notin waiting
  /\ asks' = [n \in Node |-> asks[n] \cup {o}]
  /\ waiting' = waiting \cup {o}
  /\ UNCHANGED <<up, stores, answers, tracker, found>>

\* The message cannot be sent: the call returns an error.
PublishFails(o) ==
  /\ Me \in up
  /\ found' = [found EXCEPT ![o] = {}]
  /\ UNCHANGED <<up, stores, asks, answers, tracker, waiting>>

Return(o) ==
  /\ o \in waiting
  /\ waiting' = waiting \ {o}
  /\ found' = [found EXCEPT ![o] = WhoHas(o)]
  /\ UNCHANGED <<up, stores, asks, answers, tracker>>

\* A poll, every ten milliseconds, finds a node.
Poll(o) == WhoHas(o) # {} /\ Return(o)

\* The lookup's time is up, or its context is cancelled, perhaps while a poll
\* is due too: what the tracker names now is returned along with the error.
TimeOut(o) == Return(o)

-----------------------------------------------------------------------------
(* The handlers *)

\* Mutant: a node that has metadata of a block is taken to have the block.
AnswerFromIndex(n, o) ==
  /\ n \in up
  /\ o \in asks[n]
  /\ asks' = [asks EXCEPT ![n] = @ \ {o}]
  /\ answers' = IF o \in indexed[n]
                THEN answers \cup {[node |-> n, block |-> o, has |-> TRUE]}
                ELSE answers
  /\ UNCHANGED <<up, stores, tracker, waiting, found>>

\* processBlockDiscoveryMessage.  Without metadata it returns without an
\* answer.  That the store may change between Has and Publish shows nowhere
\* else than in the delay of the answer.
ProcessBlockDiscoveryMessage(n, o) ==
  /\ n \in up
  /\ o \in asks[n]
  /\ asks' = [asks EXCEPT ![n] = @ \ {o}]
  /\ answers' = IF o \in indexed[n]
                THEN answers \cup {[node |-> n, block |-> o, has |-> o \in holds[n]]}
                ELSE answers
  /\ UNCHANGED <<up, stores, tracker, waiting, found>>

\* updateBlockAvailability: the tracker is told, and the metadata of another
\* node's announcement goes to the index.
UpdateBlockAvailability(a) ==
  /\ Me \in up
  /\ a \in answers
  /\ answers' = answers \ {a}
  /\ Update(a)
  /\ indexed' = IF a.node = Me THEN indexed
                ELSE [indexed EXCEPT ![Me] = @ \cup {a.block}]
  /\ UNCHANGED <<up, holds, held, asks, waiting, found>>

Next ==
  \/ \E n \in Node, o \in Oid : StoreChanges(n, o) \/ Learn(n, o)
  \/ \E n \in Node : Lose(n) \/ Start(n) \/ Stop(n)
  \/ \E o \in Oid : DiscoverBlock(o) \/ PublishFails(o) \/ Poll(o) \/ TimeOut(o)
  \/ \E n \in Node, o \in Oid : ProcessBlockDiscoveryMessage(n, o)
  \/ \E a \in answers : UpdateBlockAvailability(a)

Spec == Init /\ [][Next]_vars

(***************************************************************************)
(* Fairness.  The handlers are goroutines that nothing blocks, and a call  *)
(* has its timeout.  Of the datagrams sent over and over, some arrive:     *)
(* receiving them is strongly fair.                                        *)
(***************************************************************************)
Fairness ==
  /\ \A o \in Oid : WF_vars(TimeOut(o))
  /\ \A n \in Node, o \in Oid : SF_vars(ProcessBlockDiscoveryMessage(n, o))
  /\ \A a \in Answer : SF_vars(UpdateBlockAvailability(a))

FairSpec == Spec /\ Fairness

-----------------------------------------------------------------------------
(* Properties *)

\* All state is of its type, and nothing of the tracker and the lookups
\* outlives its process.
TypeOK ==
  /\ up \subseteq Node
  /\ holds \in [Node -> SUBSET Oid]
  /\ held \in [Node -> SUBSET Oid]
  /\ indexed \in [Node -> SUBSET Oid]
  /\ asks \in [Node -> SUBSET Oid]
  /\ answers \subseteq Answer
  /\ \A o \in Oid : \E S \in SUBSET Node : tracker[o] \in [S -> BOOLEAN]
  /\ waiting \subseteq Oid
  /\ found \in [Oid -> SUBSET Node]
  /\ Me \notin up => tracker = EmptyTracker /\ waiting = {}

\* A node that DiscoverBlock returned had the block in its store at some time,
\* however late, reordered or outdated the answers are.
FoundNodesHeldBlock ==
  \A o \in Oid : \A n \in found[o] \cup WhoHas(o) : o \in held[n]

\* As long as this process runs, a node is dropped from the nodes that have a
\* block only by its own word: an answer of another node, a timeout or a
\* second lookup does not undo what was learned.
OnlyItselfWithdraws ==
  [][\A o \in Oid : \A n \in WhoHas(o) \ WhoHas(o)' :
       \/ Me \notin up'
       \/ [node |-> n, block |-> o, has |-> FALSE] \in answers]_vars

\* Node n stays up with the block and its metadata, Me stays up too, asks again
\* and again and can send.
Findable(n, o) ==
  /\ <>[](Me \in up /\ n \in up /\ o \in holds[n] /\ o \in indexed[n])
  /\ []<>(o \in waiting)
  /\ <>[][~ PublishFails(o)]_vars

\* Then from some time on every lookup returns n: stale answers that say
\* otherwise are overtaken, and timeouts do not hide it.
EventuallyFound ==
  \A n \in Node, o \in Oid : Findable(n, o) => <>[](n \in found[o])
=============================================================================
