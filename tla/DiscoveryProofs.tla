-------------------------- MODULE DiscoveryProofs --------------------------
(***************************************************************************)
(* Theorems about Discovery, for any sets of nodes and blocks.             *)
(***************************************************************************)
EXTENDS Discovery, TLAPS

\* The tracker has an entry for every block, each a function from some nodes.
TrackerInv ==
  /\ DOMAIN tracker = Oid
  /\ \A o \in Oid : /\ DOMAIN tracker[o] \subseteq Node
                    /\ \A n \in DOMAIN tracker[o] : tracker[o][n] \in BOOLEAN
                    /\ tracker[o] = [n \in DOMAIN tracker[o] |-> tracker[o][n]]
  /\ Me \notin up => tracker = EmptyTracker /\ waiting = {}

\* Everything that is said of a block, on the wire, in the tracker and in a
\* result, was so at some time.
HeldInv ==
  /\ \A n \in Node : holds[n] \subseteq held[n]
  /\ \A a \in answers : a.has => a.block \in held[a.node]
  /\ \A o \in Oid : \A n \in WhoHas(o) : o \in held[n]
  /\ \A o \in Oid : \A n \in found[o] : o \in held[n]

\* The variables that hold no more than sets and functions.
PlainTypes ==
  /\ up \subseteq Node
  /\ holds \in [Node -> SUBSET Oid]
  /\ held \in [Node -> SUBSET Oid]
  /\ indexed \in [Node -> SUBSET Oid]
  /\ asks \in [Node -> SUBSET Oid]
  /\ answers \subseteq Answer
  /\ waiting \subseteq Oid
  /\ found \in [Oid -> SUBSET Node]

\* The inductive invariant.
IInv == PlainTypes /\ TrackerInv /\ HeldInv

\* A tracker that knows of no block.
LEMMA EmptyTrackerFacts ==
  /\ DOMAIN EmptyTracker = Oid
  /\ \A o \in Oid : DOMAIN EmptyTracker[o] = {}
  /\ \A o \in Oid : EmptyTracker[o] = [n \in DOMAIN EmptyTracker[o] |-> EmptyTracker[o][n]]
BY DEF EmptyTracker

\* Who has a block is a set of nodes.
LEMMA WhoHasNodes ==
  ASSUME TrackerInv, NEW o \in Oid
  PROVE  WhoHas(o) \subseteq Node
BY DEF TrackerInv, WhoHas

\* It satisfies the invariant, as no call is under way.
LEMMA InitInv == Init => IInv
<1> SUFFICES ASSUME Init
             PROVE  IInv
  OBVIOUS
<1>1. PlainTypes
  BY DEF Init, PlainTypes
<1>2. TrackerInv
  BY EmptyTrackerFacts DEF Init, TrackerInv
<1>3. HeldInv
  BY EmptyTrackerFacts DEF Init, HeldInv, WhoHas
<1> QED
  BY <1>1, <1>2, <1>3 DEF IInv

\* Steps that leave tracker, answers and lookups alone and only add to held.
LEMMA StoreStep ==
  ASSUME IInv,
         \/ \E n \in Node, o \in Oid : StoreChanges(n, o) \/ Learn(n, o)
         \/ \E n \in Node : Lose(n) \/ Start(n)
         \/ \E o \in Oid : DiscoverBlock(o)
  PROVE  IInv'
<1> USE DEF IInv
<1>1. ASSUME NEW n \in Node, NEW o \in Oid, StoreChanges(n, o)
      PROVE  IInv'
  <2>1. PlainTypes'
    BY <1>1 DEF StoreChanges, PlainTypes
  <2>2. TrackerInv'
    BY <1>1 DEF StoreChanges, TrackerInv
  <2>3. \A m \in Node : held[m] \subseteq held'[m] /\ holds'[m] \subseteq held'[m]
    BY <1>1 DEF StoreChanges, PlainTypes, HeldInv
  <2>4. HeldInv'
    BY <1>1, <2>3, WhoHasNodes DEF StoreChanges, HeldInv, WhoHas, PlainTypes, Answer
  <2> QED
    BY <2>1, <2>2, <2>4
<1>2. ASSUME NEW n \in Node, NEW o \in Oid, Learn(n, o)
      PROVE  IInv'
  BY <1>2 DEF Learn, PlainTypes, TrackerInv, HeldInv, WhoHas
<1>3. ASSUME NEW n \in Node, Lose(n)
      PROVE  IInv'
  BY <1>3 DEF Lose, stores, PlainTypes, TrackerInv, HeldInv, WhoHas
<1>4. ASSUME NEW n \in Node, Start(n)
      PROVE  IInv'
  BY <1>4 DEF Start, stores, PlainTypes, TrackerInv, HeldInv, WhoHas
<1>5. ASSUME NEW o \in Oid, DiscoverBlock(o)
      PROVE  IInv'
  BY <1>5 DEF DiscoverBlock, stores, PlainTypes, TrackerInv, HeldInv, WhoHas
<1> QED
  BY <1>1, <1>2, <1>3, <1>4, <1>5

\* The end of a process.
LEMMA StopStep ==
  ASSUME IInv, NEW n \in Node, Stop(n)
  PROVE  IInv'
<1>1. PlainTypes'
  BY DEF IInv, Stop, stores, PlainTypes
<1>2. TrackerInv'
  BY EmptyTrackerFacts DEF IInv, Stop, TrackerInv
<1>3. HeldInv'
  <2>1. \A o \in Oid : WhoHas(o)' \subseteq WhoHas(o)
    BY EmptyTrackerFacts DEF Stop, WhoHas
  <2> QED
    BY <2>1 DEF IInv, Stop, stores, HeldInv
<1> QED
  BY <1>1, <1>2, <1>3 DEF IInv

\* The ends of a lookup.
LEMMA LookupStep ==
  ASSUME IInv, NEW o \in Oid, PublishFails(o) \/ Poll(o) \/ TimeOut(o)
  PROVE  IInv'
<1>1. /\ UNCHANGED <<up, stores, asks, answers, tracker>>
      /\ waiting' \subseteq waiting
      /\ \/ found' = [found EXCEPT ![o] = {}]
         \/ found' = [found EXCEPT ![o] = WhoHas(o)]
  BY DEF PublishFails, Poll, TimeOut, Return
<1>2. TrackerInv'
  BY <1>1 DEF IInv, TrackerInv
<1>3. PlainTypes'
  BY <1>1, WhoHasNodes DEF IInv, PlainTypes, stores
<1>4. HeldInv'
  BY <1>1 DEF IInv, PlainTypes, HeldInv, WhoHas, stores
<1> QED
  BY <1>2, <1>3, <1>4 DEF IInv

\* An answer says what is in the store.
LEMMA AnswerStep ==
  ASSUME IInv, NEW n \in Node, NEW o \in Oid, ProcessBlockDiscoveryMessage(n, o)
  PROVE  IInv'
<1> DEFINE answer == [node |-> n, block |-> o, has |-> o \in holds[n]]
<1>1. answers' \subseteq answers \cup {answer} /\ answer \in Answer
  BY DEF ProcessBlockDiscoveryMessage, Answer
<1>2. answer.has => answer.block \in held[answer.node]
  BY DEF IInv, HeldInv
<1>3. PlainTypes'
  BY <1>1 DEF IInv, PlainTypes, ProcessBlockDiscoveryMessage, stores
<1>4. TrackerInv'
  BY DEF IInv, TrackerInv, ProcessBlockDiscoveryMessage
<1>5. HeldInv'
  BY <1>1, <1>2 DEF IInv, HeldInv, WhoHas, ProcessBlockDiscoveryMessage, stores
<1> QED
  BY <1>3, <1>4, <1>5 DEF IInv

\* What Update does: the entry of one node, and nothing else, is replaced.
LEMMA UpdateFacts ==
  ASSUME IInv, NEW a \in Answer, Update(a)
  PROVE  /\ DOMAIN tracker' = Oid
         /\ DOMAIN tracker'[a.block] = DOMAIN tracker[a.block] \cup {a.node}
         /\ tracker'[a.block][a.node] = a.has
         /\ \A n \in DOMAIN tracker[a.block] \ {a.node} :
              tracker'[a.block][n] = tracker[a.block][n]
         /\ tracker'[a.block] =
              [n \in DOMAIN tracker'[a.block] |-> tracker'[a.block][n]]
         /\ \A o \in Oid \ {a.block} : tracker'[o] = tracker[o]
<1> DEFINE entry == [n \in DOMAIN tracker[a.block] \cup {a.node} |->
                       IF n = a.node THEN a.has ELSE tracker[a.block][n]]
<1>1. tracker' = [tracker EXCEPT ![a.block] = entry]
  BY DEF Update
<1>2. a.block \in Oid /\ DOMAIN tracker = Oid
  BY DEF Answer, IInv, TrackerInv
<1>3. tracker'[a.block] = entry
  BY <1>1, <1>2
<1> HIDE DEF entry
<1>4. /\ DOMAIN tracker' = Oid
      /\ \A o \in Oid \ {a.block} : tracker'[o] = tracker[o]
  BY <1>1, <1>2
<1>5. /\ DOMAIN entry = DOMAIN tracker[a.block] \cup {a.node}
      /\ entry[a.node] = a.has
      /\ \A n \in DOMAIN tracker[a.block] \ {a.node} : entry[n] = tracker[a.block][n]
      /\ entry = [n \in DOMAIN entry |-> entry[n]]
  BY DEF entry
<1> QED
  BY <1>3, <1>4, <1>5

\* Whether another node has a block, or this node another block, stays known.
LEMMA UpdateKeeps ==
  ASSUME IInv, NEW a \in Answer, Update(a), NEW o \in Oid, NEW n,
         ~ (o = a.block /\ n = a.node)
  PROVE  n \in WhoHas(o)' <=> n \in WhoHas(o)
<1>1. CASE o # a.block
  <2>1. tracker'[o] = tracker[o]
    BY <1>1, UpdateFacts
  <2> QED
    BY <2>1 DEF WhoHas
<1>2. CASE o = a.block
  <2>1. n # a.node
    BY <1>2
  <2>2. n \in DOMAIN tracker'[o] <=> n \in DOMAIN tracker[o]
    <3>1. DOMAIN tracker'[a.block] = DOMAIN tracker[a.block] \cup {a.node}
      BY UpdateFacts
    <3> QED
      BY <1>2, <2>1, <3>1, Zenon
  <2>3. n \in DOMAIN tracker[o] => tracker'[o][n] = tracker[o][n]
    BY <1>2, <2>1, UpdateFacts
  <2> QED
    BY <2>2, <2>3 DEF WhoHas
<1> QED
  BY <1>1, <1>2

\* An announcement is told to the tracker.
LEMMA UpdateStep ==
  ASSUME IInv, NEW a \in answers, UpdateBlockAvailability(a)
  PROVE  IInv'
<1>1. a \in Answer
  BY DEF IInv, PlainTypes
<1>2. /\ a.node \in Node /\ a.block \in Oid /\ a.has \in BOOLEAN
      /\ Me \in up /\ up' = up /\ answers' = answers \ {a}
      /\ UNCHANGED <<holds, held, asks, waiting, found>>
      /\ Update(a)
  BY <1>1 DEF Answer, UpdateBlockAvailability
<1>3. PlainTypes'
  BY <1>2, MeAssumption DEF IInv, PlainTypes, UpdateBlockAvailability
<1>4. TrackerInv'
  <2>1. ASSUME NEW o \in Oid
        PROVE  /\ DOMAIN tracker'[o] \subseteq Node
               /\ \A n \in DOMAIN tracker'[o] : tracker'[o][n] \in BOOLEAN
               /\ tracker'[o] = [n \in DOMAIN tracker'[o] |-> tracker'[o][n]]
    <3>1. CASE o = a.block
      <4>1. /\ DOMAIN tracker'[o] = DOMAIN tracker[o] \cup {a.node}
            /\ tracker'[o][a.node] = a.has
            /\ \A n \in DOMAIN tracker[o] \ {a.node} : tracker'[o][n] = tracker[o][n]
            /\ tracker'[o] = [n \in DOMAIN tracker'[o] |-> tracker'[o][n]]
        BY <1>1, <1>2, <3>1, UpdateFacts
      <4>2. /\ DOMAIN tracker[o] \subseteq Node
            /\ \A n \in DOMAIN tracker[o] : tracker[o][n] \in BOOLEAN
        BY DEF IInv, TrackerInv
      <4> QED
        BY <1>2, <4>1, <4>2
    <3>2. CASE o # a.block
      <4>1. tracker'[o] = tracker[o]
        BY <1>1, <1>2, <3>2, UpdateFacts
      <4> QED
        BY <4>1 DEF IInv, TrackerInv
    <3> QED
      BY <3>1, <3>2
  <2>2. DOMAIN tracker' = Oid
    BY <1>1, <1>2, UpdateFacts
  <2> QED
    BY <1>2, <2>1, <2>2 DEF TrackerInv
<1>5. HeldInv'
  <2>1. ASSUME NEW o \in Oid, NEW n \in WhoHas(o)'
        PROVE  o \in held'[n]
    <3>1. n \in DOMAIN tracker'[o] /\ tracker'[o][n]
      BY <2>1 DEF WhoHas
    <3>2. CASE o = a.block /\ n = a.node
      BY <1>1, <1>2, <3>1, <3>2, UpdateFacts DEF IInv, HeldInv
    <3>3. CASE ~ (o = a.block /\ n = a.node)
      <4>1. n \in WhoHas(o)
        BY <1>1, <1>2, <2>1, <3>3, UpdateKeeps
      <4> QED
        BY <1>2, <4>1 DEF IInv, HeldInv
    <3> QED
      BY <3>2, <3>3
  <2> QED
    BY <1>2, <2>1 DEF IInv, HeldInv
<1> QED
  BY <1>3, <1>4, <1>5 DEF IInv

\* Every step preserves the inductive invariant.
LEMMA NextInv == IInv /\ [Next]_vars => IInv'
<1> SUFFICES ASSUME IInv, [Next]_vars
             PROVE  IInv'
  OBVIOUS
<1>1. CASE Next
  BY <1>1, StoreStep, StopStep, LookupStep, AnswerStep, UpdateStep DEF Next
<1>2. CASE UNCHANGED vars
  BY <1>2 DEF vars, IInv, PlainTypes, TrackerInv, HeldInv, WhoHas
<1> QED
  BY <1>1, <1>2

\* The inductive invariant holds of every behaviour.
LEMMA InvCorrect == Spec => []IInv
BY InitInv, NextInv, PTL DEF Spec

-----------------------------------------------------------------------------

\* All state of discovery is of its type, and the tracker is empty while its
\* process is down.
THEOREM TypeCorrect == Spec => []TypeOK
<1>1. IInv => TypeOK
  <2> SUFFICES ASSUME IInv
               PROVE  TypeOK
    OBVIOUS
  <2>1. ASSUME NEW o \in Oid
        PROVE  \E S \in SUBSET Node : tracker[o] \in [S -> BOOLEAN]
    <3>1. DOMAIN tracker[o] \in SUBSET Node
      BY DEF IInv, TrackerInv
    <3>2. tracker[o] \in [DOMAIN tracker[o] -> BOOLEAN]
      BY DEF IInv, TrackerInv
    <3> QED
      BY <3>1, <3>2
  <2> QED
    BY <2>1 DEF IInv, PlainTypes, TrackerInv, TypeOK
<1> QED
  BY <1>1, InvCorrect, PTL

\* A node that a lookup returned, or that the tracker names, had the block at
\* some time.
THEOREM FoundCorrect == Spec => []FoundNodesHeldBlock
<1>1. IInv => FoundNodesHeldBlock
  BY DEF IInv, HeldInv, FoundNodesHeldBlock
<1> QED
  BY <1>1, InvCorrect, PTL

\* A step of the running process that drops a node from those that have a block
\* has that node's own word in hand.
LEMMA WithdrawStep ==
  ASSUME IInv, [Next]_vars, NEW o \in Oid, NEW n \in WhoHas(o) \ WhoHas(o)', Me \in up'
  PROVE  [node |-> n, block |-> o, has |-> FALSE] \in answers
<1>1. ASSUME tracker' = tracker
      PROVE  FALSE
  BY <1>1 DEF WhoHas
<1>2. ASSUME NEW a \in answers, UpdateBlockAvailability(a)
      PROVE  a = [node |-> n, block |-> o, has |-> FALSE]
  <2>1. a \in Answer /\ Update(a)
    BY <1>2 DEF IInv, PlainTypes, UpdateBlockAvailability
  <2>2. a = [node |-> a.node, block |-> a.block, has |-> a.has] /\ a.has \in BOOLEAN
    BY <2>1 DEF Answer
  <2>3. o = a.block /\ n = a.node
    BY <2>1, UpdateKeeps
  <2>4. ~ a.has
    BY <2>1, <2>3, UpdateFacts DEF WhoHas
  <2> QED
    BY <2>2, <2>3, <2>4
<1>3. ASSUME NEW m \in Node, Stop(m)
      PROVE  tracker' = tracker
  BY <1>3 DEF Stop
<1>4. \/ tracker' = tracker
      \/ \E a \in answers : UpdateBlockAvailability(a)
      \/ \E m \in Node : Stop(m)
  BY DEF Next, vars, StoreChanges, Learn, Lose, Start, DiscoverBlock, PublishFails,
         Poll, TimeOut, Return, ProcessBlockDiscoveryMessage
<1> QED
  BY <1>1, <1>2, <1>3, <1>4

\* While the process runs, only a node's own word takes it off the list of those
\* that have a block.
THEOREM WithdrawCorrect == Spec => OnlyItselfWithdraws
<1>1. IInv /\ [Next]_vars =>
        [\A o \in Oid : \A n \in WhoHas(o) \ WhoHas(o)' :
           \/ Me \notin up'
           \/ [node |-> n, block |-> o, has |-> FALSE] \in answers]_vars
  BY WithdrawStep
<1> QED
  BY <1>1, InvCorrect, PTL DEF Spec, OnlyItselfWithdraws
=============================================================================
