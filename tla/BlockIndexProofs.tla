-------------------------- MODULE BlockIndexProofs --------------------------
(***************************************************************************)
(* Theorems about BlockIndex, for every set of blocks, times and contents, *)
(* every journal length, with and without machines that stop; and about    *)
(* IndexKeys, for every base of the digits and every width of the keys     *)
(* that the sequence numbers fit.                                          *)
(***************************************************************************)
EXTENDS IndexKeys, IndexOpsProofs, Recursion

\* While Put is between its halves, the key it has written is the last one;
\* otherwise the sequence in memory is; what is flushed is in the journal.
SeqInv ==
  /\ open /\ writing = 0 => index.seq = LastKey(index)
  /\ writing # 0 => open /\ writing = LastKey(index) /\ writing = index.seq + 1
  /\ flushed <= LastKey(index)

\* The inductive invariant.
IInv == TypeOK /\ WellFormed(index) /\ SeqInv

\* An empty database satisfies it.
LEMMA InitInv == Init => IInv
<1> SUFFICES ASSUME Init
             PROVE  IInv
  OBVIOUS
<1>1. IndexType(index) /\ WellFormed(index) /\ LastKey(index) = 0
  BY EmptyIndexWellFormed DEF Init
<1>2. open = FALSE /\ writing = 0 /\ flushed = 0
  BY DEF Init
<1>3. TypeOK
  BY <1>1, <1>2 DEF TypeOK
<1>4. SeqInv
  BY <1>1, <1>2 DEF SeqInv
<1> QED
  BY <1>1, <1>3, <1>4 DEF IInv

\* Cutting the log leaves a well-formed index that ends where the cut is.
LEMMA CutPreserves ==
  ASSUME NEW ix, IndexType(ix), WellFormed(ix),
         NEW k \in {0} \cup DOMAIN ix.bySeq,
         NEW new, new = CutJournal(ix, k)
  PROVE  /\ IndexType(new)
         /\ WellFormed(new)
         /\ LastKey(new) = k
         /\ \A s \in DOMAIN ix.bySeq :
              s <= k => s \in DOMAIN new.bySeq /\ new.bySeq[s] = ix.bySeq[s]
<1> DEFINE journal == [s \in { t \in DOMAIN ix.bySeq : t <= k } |-> ix.bySeq[s]]
           oids == { journal[s].md.oid : s \in DOMAIN journal }
           IsLatest(o, s) ==
             /\ s \in DOMAIN journal
             /\ journal[s].md.oid = o
             /\ \A t \in DOMAIN journal : journal[t].md.oid = o => t <= s
           latest(o) == CHOOSE s \in DOMAIN journal :
             /\ journal[s].md.oid = o
             /\ \A t \in DOMAIN journal : journal[t].md.oid = o => t <= s
<1>1. /\ LastKey(ix) \in Nat
      /\ DOMAIN ix.bySeq = 1 .. LastKey(ix)
      /\ \A s \in DOMAIN ix.bySeq : ix.bySeq[s].seq = s
  BY DEF WellFormed, DenseJournal
<1>2. k \in Nat /\ DOMAIN journal = 1 .. k
  BY <1>1
<1>3. \A s \in DOMAIN journal : s \in DOMAIN ix.bySeq /\ journal[s] = ix.bySeq[s]
  OBVIOUS
<1>4. new = [byOid |-> [o \in oids |-> journal[latest(o)]], bySeq |-> journal, seq |-> 0]
  BY DEF CutJournal
<1> HIDE DEF journal
<1>5. /\ new.bySeq = journal
      /\ new.seq = 0
      /\ new.byOid = [o \in oids |-> journal[latest(o)]]
      /\ DOMAIN new.byOid = oids
      /\ new = [byOid |-> new.byOid, bySeq |-> new.bySeq, seq |-> new.seq]
  BY <1>4
<1>6. LastKey(new) = k
  BY <1>2, <1>5, LastKeyOfInterval
<1>7. ASSUME NEW o \in oids
      PROVE  IsLatest(o, latest(o))
  <2> DEFINE S == { s \in DOMAIN journal : journal[s].md.oid = o }
  <2>1. S \subseteq 0 .. k /\ S # {}
    BY <1>2
  <2>2. PICK s \in S : \A t \in S : t <= s
    BY <2>1, <1>2, GreatestElement
  <2>3. IsLatest(o, s)
    BY <2>2
  <2> QED
    BY <2>3
<1> HIDE DEF latest
<1>8. \A o \in oids : new.byOid[o] = journal[latest(o)]
  BY <1>5
<1>9. \A s \in DOMAIN journal :
        /\ journal[s] \in Entry
        /\ journal[s].seq = s
        /\ journal[s].md.oid \in Oid
  BY <1>1, <1>3, IndexTypeFacts DEF IndexType
<1>10. IndexType(new)
  <2>1. oids \subseteq Oid
    BY <1>9
  <2>2. \A o \in oids : new.byOid[o] \in Entry
    BY <1>7, <1>8, <1>9
  <2>3. new.bySeq = [s \in DOMAIN new.bySeq |-> new.bySeq[s]]
    BY <1>5 DEF journal
  <2>4. new.byOid = [o \in DOMAIN new.byOid |-> new.byOid[o]]
    BY <1>5
  <2> HIDE DEF oids
  <2> QED
    BY <2>1, <2>2, <2>3, <2>4, <1>2, <1>5, <1>9 DEF IndexType
<1>11. DenseJournal(new)
  BY <1>2, <1>5, <1>6, <1>9 DEF DenseJournal
<1>12. JournalReplays(new)
  <2>1. ASSUME NEW o \in oids
        PROVE  /\ new.byOid[o].seq \in DOMAIN journal
               /\ journal[new.byOid[o].seq] = new.byOid[o]
               /\ new.byOid[o].md.oid = o
    BY <1>7, <1>8, <1>9
  <2>2. ASSUME NEW s \in DOMAIN journal
        PROVE  /\ journal[s].md.oid \in oids
               /\ s <= new.byOid[journal[s].md.oid].seq
    <3>1. journal[s].md.oid \in oids
      OBVIOUS
    <3> QED
      BY <3>1, <1>7, <1>8, <1>9
  <2> HIDE DEF oids
  <2> QED
    BY <2>1, <2>2, <1>5 DEF JournalReplays
<1>13. JournalFreshens(new)
  BY <1>3, <1>5 DEF JournalFreshens, WellFormed
<1>14. \A s \in DOMAIN ix.bySeq :
         s <= k => s \in DOMAIN new.bySeq /\ new.bySeq[s] = ix.bySeq[s]
  BY <1>5 DEF journal
<1> QED
  BY <1>6, <1>10, <1>11, <1>12, <1>13, <1>14 DEF WellFormed

-----------------------------------------------------------------------------

\* Every step preserves the inductive invariant.
LEMMA NextInv == IInv /\ [Next]_vars => IInv'
<1> SUFFICES ASSUME IInv, [Next]_vars
             PROVE  IInv'
  OBVIOUS
<1> USE DEF IInv
<1>0. LastKey(index) \in Nat /\ index.seq \in Nat
  BY DEF WellFormed, DenseJournal, TypeOK, IndexType
<1>1. CASE Open
  <2>1. index' = Recover(index)
    BY <1>1 DEF Open
  <2>2. /\ IndexType(index')
        /\ WellFormed(index')
        /\ index'.seq = LastKey(index')
        /\ LastKey(index') = LastKey(index)
    BY <2>1, RecoverPreserves DEF TypeOK
  <2> QED
    BY <1>1, <2>2 DEF Open, TypeOK, SeqInv
<1>2. ASSUME NEW md \in Metadata, PutWrite(md)
      PROVE  IInv'
  <2> DEFINE e == NewEntry(index, md)
  <2>1. /\ index.seq = LastKey(index)
        /\ ~ Skips(index, md)
        /\ index' = WriteBatch(index, e)
        /\ writing' = e.seq
        /\ open /\ open'
        /\ flushed' = flushed
    BY <1>2 DEF PutWrite, SeqInv
  <2>2. index'.seq = index.seq
    BY <2>1, WriteBatchKeys
  <2> HIDE DEF e
  <2>3. /\ IndexType(index')
        /\ WellFormed(index')
        /\ LastKey(index') = e.seq
        /\ e.seq = index.seq + 1
    BY <2>1, WriteBatchPreserves DEF TypeOK, e
  <2>4. TypeOK'
    BY <2>1, <2>3, <1>0 DEF TypeOK
  <2>5. SeqInv'
    BY <2>1, <2>2, <2>3, <1>0 DEF SeqInv, TypeOK
  <2> QED
    BY <2>3, <2>4, <2>5
<1>3. CASE PutKeepSeq
  <2>1. /\ index' = [index EXCEPT !.seq = writing]
        /\ writing \in Nat
        /\ writing = LastKey(index)
    BY <1>3 DEF PutKeepSeq, TypeOK, SeqInv
  <2>2. /\ IndexType(index')
        /\ WellFormed(index')
        /\ index'.seq = writing
        /\ LastKey(index') = LastKey(index)
    BY <2>1, SetSeqPreserves DEF TypeOK
  <2> QED
    BY <1>3, <2>1, <2>2 DEF PutKeepSeq, TypeOK, SeqInv
<1>4. CASE Stop
  <2>1. /\ IndexType(index')
        /\ WellFormed(index')
        /\ LastKey(index') = LastKey(index)
    BY <1>4, SetSeqPreserves DEF TypeOK, Stop
  <2> QED
    BY <1>4, <2>1 DEF Stop, TypeOK, SeqInv
<1>5. CASE WriteBack
  <2>1. DOMAIN index.bySeq = 1 .. LastKey(index)
    BY DEF WellFormed, DenseJournal
  <2>2. flushed' \in Nat /\ flushed' <= LastKey(index)
    BY <1>5, <2>1, <1>0 DEF WriteBack
  <2> QED
    BY <1>5, <2>2 DEF WriteBack, TypeOK, SeqInv
<1>6. CASE MachineStop
  <2>1. PICK k \in {0} \cup DOMAIN index.bySeq :
          index' = CutJournal(index, k) /\ flushed' = k
    BY <1>6 DEF MachineStop
  <2>2. k \in Nat
    BY <2>1, <1>0 DEF WellFormed, DenseJournal
  <2>3. /\ IndexType(index')
        /\ WellFormed(index')
        /\ LastKey(index') = k
    BY <2>1, CutPreserves DEF TypeOK
  <2>4. open' = FALSE /\ writing' = 0
    BY <1>6 DEF MachineStop
  <2>5. TypeOK'
    BY <2>1, <2>2, <2>3, <2>4 DEF TypeOK
  <2>6. SeqInv'
    BY <2>1, <2>2, <2>3, <2>4 DEF SeqInv
  <2> QED
    BY <2>3, <2>5, <2>6
<1>7. CASE UNCHANGED vars
  BY <1>7 DEF vars, TypeOK, SeqInv
<1>8. CASE Vacuum
  BY <1>7, <1>8 DEF Vacuum
<1> QED
  BY <1>1, <1>2, <1>3, <1>4, <1>5, <1>6, <1>7, <1>8 DEF Next

\* The inductive invariant holds of every behaviour.
THEOREM Invariance == Spec => []IInv
BY InitInv, NextInv, PTL DEF Spec

\* The database only ever holds decoded metadata under well-typed keys.
THEOREM TypeCorrect == Spec => []TypeOK
<1>1. IInv => TypeOK
  BY DEF IInv
<1> QED
  BY <1>1, Invariance, PTL

\* The OID records are the last journal records of their blocks in every
\* reachable state, between the two halves of Put and after any stop.
THEOREM JournalCorrect == Spec => []JournalIsTheIndex
<1>1. IInv => JournalIsTheIndex
  BY DEF IInv, WellFormed, JournalIsTheIndex
<1> QED
  BY <1>1, Invariance, PTL

\* No journal ever records an older change of a block after a fresher one.
THEOREM FreshnessCorrect == Spec => []FreshnessGrows
<1>1. IInv => FreshnessGrows
  BY DEF IInv, WellFormed, FreshnessGrows
<1> QED
  BY <1>1, Invariance, PTL

\* The sequence in memory agrees with the journal whenever Put can start.
THEOREM SeqCorrect == Spec => []SeqIsLastKey
<1>1. IInv => SeqIsLastKey
  BY DEF IInv, SeqInv, SeqIsLastKey
<1> QED
  BY <1>1, Invariance, PTL

-----------------------------------------------------------------------------

\* In a journal without holes, a range with fewer entries than numbers
\* reaches past the last key.
LEMMA ShortRange ==
  ASSUME NEW ix, WellFormed(ix), NEW start \in Nat \ {0}, NEW size \in Nat \ {0},
         Cardinality(EnumerateBySeq(ix, start, start + size)) < size,
         NEW s \in DOMAIN ix.bySeq
  PROVE  s < start + size
<1> DEFINE I == start .. (start + size - 1)
           batch == EnumerateBySeq(ix, start, start + size)
           f == [t \in I |-> ix.bySeq[t]]
<1>1. /\ LastKey(ix) \in Nat
      /\ DOMAIN ix.bySeq = 1 .. LastKey(ix)
      /\ \A t \in DOMAIN ix.bySeq : ix.bySeq[t].seq = t
  BY DEF WellFormed, DenseJournal
<1>2. SUFFICES ASSUME start + size <= s
               PROVE  FALSE
  BY <1>1
<1>3. I \subseteq DOMAIN ix.bySeq
  BY <1>1, <1>2
<1>4. batch = { ix.bySeq[t] : t \in I }
  BY <1>1, <1>3 DEF EnumerateBySeq
<1>5. f \in Bijection(I, batch)
  <2> HIDE DEF batch
  <2>1. f \in [I -> batch]
    BY <1>4
  <2>2. \A a, b \in I : f[a] = f[b] => a = b
    BY <1>1, <1>3
  <2>3. \A t \in batch : \E a \in I : f[a] = t
    BY <1>4
  <2> QED
    BY <2>1, <2>2, <2>3 DEF Bijection, Injection, Surjection, IsInjective
<1>6. IsFiniteSet(I) /\ Cardinality(I) = size
  BY FS_Interval
<1>7. Cardinality(batch) = Cardinality(I)
  <2>1. ExistsBijection(I, batch)
    BY <1>5 DEF ExistsBijection
  <2> QED
    BY <2>1, <1>6, FS_Bijection
<1> QED
  BY <1>6, <1>7

\* A batch shorter than asked for is the end of the journal.
THEOREM ShortBatchCorrect == Spec => []ShortBatchIsLast
<1>1. IInv => ShortBatchIsLast
  <2> SUFFICES ASSUME IInv,
                      NEW start \in 1 .. MaxSeq + 1, NEW size \in 1 .. MaxSeq,
                      Cardinality(EnumerateBySeq(index, start, start + size)) < size,
                      NEW s \in DOMAIN index.bySeq
               PROVE  s < start + size
    BY DEF ShortBatchIsLast
  <2>1. start \in Nat \ {0} /\ size \in Nat \ {0}
    BY MaxSeqAssumption
  <2>2. WellFormed(index)
    BY DEF IInv
  <2> QED
    BY <2>1, <2>2, ShortRange
<1> QED
  BY <1>1, Invariance, PTL

\* What is flushed stays where it is, whatever stops: the action property.
THEOREM FlushedCorrect == Spec => FlushedJournalIsStable
<1> DEFINE Stable == \A s \in 1 .. flushed :
                       /\ s \in DOMAIN index'.bySeq
                       /\ index'.bySeq[s] = index.bySeq[s]
<1>1. IInv /\ [Next]_vars => [Stable]_vars
  <2> SUFFICES ASSUME IInv, Next
               PROVE  Stable
    OBVIOUS
  <2>1. /\ LastKey(index) \in Nat
        /\ DOMAIN index.bySeq = 1 .. LastKey(index)
        /\ flushed \in Nat
        /\ flushed <= LastKey(index)
    BY DEF IInv, WellFormed, DenseJournal, TypeOK, SeqInv
  <2>2. \A s \in 1 .. flushed : s \in DOMAIN index.bySeq
    BY <2>1
  <2>3. SUFFICES ASSUME index'.bySeq # index.bySeq
                 PROVE  Stable
    BY <2>2
  <2>4. ASSUME NEW md \in Metadata, PutWrite(md)
        PROVE  Stable
    <3>1. Grows(index, index')
      BY <2>4, WriteBatchPreserves DEF PutWrite, IInv, TypeOK, SeqInv
    <3> QED
      BY <3>1, <2>2 DEF Grows
  <2>5. CASE MachineStop
    <3>1. PICK k \in {0} \cup DOMAIN index.bySeq :
            index' = CutJournal(index, k) /\ flushed <= k
      BY <2>5 DEF MachineStop
    <3>2. \A s \in DOMAIN index.bySeq :
            s <= k => s \in DOMAIN index'.bySeq /\ index'.bySeq[s] = index.bySeq[s]
      BY <3>1, CutPreserves DEF IInv, TypeOK
    <3>3. k \in Nat
      BY <3>1, <2>1
    <3>4. ASSUME NEW s \in 1 .. flushed
          PROVE  s <= k
      BY <3>1, <3>3, <2>1
    <3> QED
      BY <3>2, <3>4, <2>2
  <2>6. CASE Open \/ PutKeepSeq \/ Stop \/ WriteBack \/ Vacuum
    <3>1. index = [byOid |-> index.byOid, bySeq |-> index.bySeq, seq |-> index.seq]
      BY DEF IInv, TypeOK, IndexType
    <3>2. index'.bySeq = index.bySeq
      BY <2>6, <3>1 DEF Open, Recover, PutKeepSeq, Stop, WriteBack, Vacuum, vars
    <3> QED
      BY <3>2, <2>3
  <2> QED
    BY <2>4, <2>5, <2>6 DEF Next
<1> QED
  BY <1>1, Invariance, PTL DEF Spec, FlushedJournalIsStable

-----------------------------------------------------------------------------
(* Keys and numbers *)

\* Division by the base: what is taken apart can be put together again, and the
\* order of the quotients is that of the numbers.
LEMMA DivisionFacts ==
  ASSUME NEW n \in Nat
  PROVE  /\ n \div Base \in Nat /\ n % Base \in 0 .. Base - 1
         /\ (n \div Base) * Base + (n % Base) = n
<1>1. n \div Base \in Nat
  BY BaseAssumption
<1>2. n % Base \in 0 .. Base - 1
  BY BaseAssumption
<1>3. n = (n \div Base) * Base + (n % Base)
  BY BaseAssumption
<1> QED
  BY <1>1, <1>2, <1>3

\* A smaller number has no greater quotient.
LEMMA DivisionOrder ==
  ASSUME NEW m \in Nat, NEW n \in Nat, m < n
  PROVE  m \div Base <= n \div Base
<1>1. PICK p, q, r, s : /\ p = m \div Base /\ q = n \div Base /\ r = m % Base /\ s = n % Base
                        /\ p \in Nat /\ q \in Nat /\ r \in 0 .. Base - 1 /\ s \in 0 .. Base - 1
                        /\ p * Base + r = m /\ q * Base + s = n
  BY DivisionFacts
<1>2. Base \in Nat
  BY BaseAssumption
<1>3. SUFFICES ASSUME q < p
               PROVE  FALSE
  BY <1>1
<1>4. PICK d \in Nat : p = q + 1 + d
  <2>1. p - q - 1 \in Nat /\ p = q + 1 + (p - q - 1)
    BY <1>1, <1>3
  <2> QED
    BY <2>1
<1>5. p * Base = q * Base + Base + d * Base
  BY <1>1, <1>2, <1>4
<1>6. d * Base \in Nat /\ q * Base \in Nat /\ p * Base \in Nat
  BY <1>1, <1>2
<1> QED
  BY <1>1, <1>2, <1>5, <1>6

\* What one more place leaves of a number is its quotient by the base.
LEMMA ShiftedFacts ==
  ASSUME NEW s \in Nat
  PROVE  /\ Shifted(s)[0] = s
         /\ \A i \in Nat : Shifted(s)[i] \in Nat /\ Shifted(s)[i + 1] = Shifted(s)[i] \div Base
<1>1. PICK step : step = [n \in Nat |-> [x \in Nat |-> x \div Base]]
  OBVIOUS
<1>2. step \in [Nat -> [Nat -> Nat]]
  BY <1>1, DivisionFacts
<1>3. PICK f \in [Nat -> Nat] : Recursive(f, s, step)
  BY <1>2, Recursion
<1>4. f = [i \in Nat |-> IF i = 0 THEN s ELSE f[i - 1] \div Base]
  <2>1. \A i \in Nat : f[i] = IF i = 0 THEN s ELSE f[i - 1] \div Base
    <3> SUFFICES ASSUME NEW i \in Nat
                 PROVE  f[i] = IF i = 0 THEN s ELSE f[i - 1] \div Base
      OBVIOUS
    <3>1. f[i] = IF i = 0 THEN s ELSE step[i][f[i - 1]]
      BY <1>3 DEF Recursive
    <3>2. i # 0 => f[i - 1] \in Nat
      OBVIOUS
    <3> QED
      BY <1>1, <3>1, <3>2
  <2> QED
    BY <2>1
<1>5. PICK g : g = Shifted(s)
  OBVIOUS
<1>6. g = [i \in Nat |-> IF i = 0 THEN s ELSE g[i - 1] \div Base]
  <2> DEFINE Body(h) == [i \in Nat |-> IF i = 0 THEN s ELSE h[i - 1] \div Base]
             h0 == CHOOSE h : h = Body(h)
  <2>1. g = h0
    BY <1>5 DEF Shifted
  <2>2. f = Body(f)
    BY <1>4
  <2>3. h0 = Body(h0)
    BY <2>2
  <2> HIDE DEF h0
  <2> QED
    BY <2>1, <2>3
<1>7. \A i \in Nat : g[i] \in Nat
  <2> DEFINE Num == { i \in Nat : g[i] \in Nat }
  <2>1. 0 \in Num
    BY <1>6
  <2>2. ASSUME NEW i \in Nat, i \in Num
        PROVE  i + 1 \in Num
    <3>1. g[i + 1] = g[i] \div Base
      BY <1>6
    <3> QED
      BY <2>2, <3>1, DivisionFacts
  <2>3. \A i \in Nat : i \in Num
    <3> HIDE DEF Num
    <3> QED
      BY <2>1, <2>2, Induction
  <2> QED
    BY <2>3
<1>8. g[0] = s /\ \A i \in Nat : g[i + 1] = g[i] \div Base
  BY <1>6
<1> QED
  BY <1>5, <1>7, <1>8

\* A greater number has no smaller leading part.
LEMMA ShiftedOrder ==
  ASSUME NEW s \in Nat, NEW t \in Nat, s <= t
  PROVE  \A i \in Nat : Shifted(s)[i] <= Shifted(t)[i]
<1> DEFINE Ordered == { i \in Nat : Shifted(s)[i] <= Shifted(t)[i] }
<1>1. 0 \in Ordered
  BY ShiftedFacts
<1>2. ASSUME NEW i \in Nat, i \in Ordered
      PROVE  i + 1 \in Ordered
  <2>1. PICK m, n : m = Shifted(s)[i] /\ n = Shifted(t)[i]
    OBVIOUS
  <2>2. m \in Nat /\ n \in Nat /\ m <= n
    BY <1>2, <2>1, ShiftedFacts
  <2>3. Shifted(s)[i + 1] = m \div Base /\ Shifted(t)[i + 1] = n \div Base
    BY <2>1, ShiftedFacts
  <2>4. m \div Base <= n \div Base
    <3>1. CASE m = n
      BY <2>2, <3>1, DivisionFacts
    <3>2. CASE m < n
      BY <2>2, <3>2, DivisionOrder
    <3> QED
      BY <2>2, <3>1, <3>2
  <2> QED
    BY <2>3, <2>4
<1> HIDE DEF Ordered
<1>3. \A i \in Nat : i \in Ordered
  BY <1>1, <1>2, Induction
<1> QED
  BY <1>3 DEF Ordered

\* Every number of the model fits the width.
LEMMA NumberFits ==
  ASSUME NEW s \in 0 .. MaxSeq + 1
  PROVE  s \in Nat /\ Shifted(s)[Width] = 0
<1>1. Width \in Nat /\ MaxSeq + 1 \in Nat /\ s \in Nat /\ s <= MaxSeq + 1
  BY WidthAssumption, MaxSeqAssumption
<1>2. Shifted(s)[Width] <= Shifted(MaxSeq + 1)[Width]
  BY <1>1, ShiftedOrder
<1>3. Shifted(s)[Width] \in Nat
  BY <1>1, ShiftedFacts
<1> QED
  BY <1>1, <1>2, <1>3, WidthAssumption

\* A key has one digit for each place, and with the part of the number in front
\* of a place it makes the part that ends there.
LEMMA KeyFacts ==
  ASSUME NEW s \in Nat
  PROVE  /\ DOMAIN KeyFromSeq(s) = 1 .. Width /\ Len(KeyFromSeq(s)) = Width
         /\ \A k \in 1 .. Width :
              /\ KeyFromSeq(s)[k] \in 0 .. Base - 1
              /\ Shifted(s)[Width - k] =
                   Shifted(s)[Width - (k - 1)] * Base + KeyFromSeq(s)[k]
<1>1. DOMAIN KeyFromSeq(s) = 1 .. Width /\ Len(KeyFromSeq(s)) = Width
  BY WidthAssumption DEF KeyFromSeq
<1>2. ASSUME NEW k \in 1 .. Width
      PROVE  /\ KeyFromSeq(s)[k] \in 0 .. Base - 1
             /\ Shifted(s)[Width - k] =
                  Shifted(s)[Width - (k - 1)] * Base + KeyFromSeq(s)[k]
  <2>1. PICK i \in Nat : i = Width - k /\ i + 1 = Width - (k - 1)
    BY WidthAssumption
  <2>2. PICK n : n = Shifted(s)[i] /\ n \in Nat
    BY ShiftedFacts
  <2>3. Shifted(s)[i + 1] = n \div Base
    BY <2>2, ShiftedFacts
  <2>4. KeyFromSeq(s)[k] = n % Base
    BY <2>1, <2>2 DEF KeyFromSeq, DigitAt
  <2>5. n % Base \in 0 .. Base - 1 /\ n = (n \div Base) * Base + (n % Base)
    BY <2>2, DivisionFacts
  <2> QED
    BY <2>1, <2>2, <2>3, <2>4, <2>5, Zenon
<1> QED
  BY <1>1, <1>2

\* seqFromKey undoes keyFromSeq.
LEMMA SeqOfKey ==
  ASSUME NEW s \in 0 .. MaxSeq + 1
  PROVE  SeqFromKey(KeyFromSeq(s)) = s
<1>1. PICK key : key = KeyFromSeq(s)
  OBVIOUS
<1>2. Width \in Nat /\ Len(key) = Width /\ s \in Nat /\ Shifted(s)[Width] = 0
  BY <1>1, WidthAssumption, KeyFacts, NumberFits
<1>3. PICK part : part = [k \in 0 .. Width |-> Shifted(s)[Width - k]]
  OBVIOUS
<1>4. part[0] = 0 /\ part[Width] = s
  BY <1>2, <1>3, ShiftedFacts
<1>5. ASSUME NEW k \in 1 .. Width
      PROVE  part[k] = part[k - 1] * Base + key[k]
  <2>1. part[k] = Shifted(s)[Width - k] /\ part[k - 1] = Shifted(s)[Width - (k - 1)]
    BY <1>2, <1>3
  <2>2. Shifted(s)[Width - k] = Shifted(s)[Width - (k - 1)] * Base + key[k]
    BY <1>1, <1>2, KeyFacts, Zenon
  <2> QED
    BY <2>1, <2>2, Zenon
<1> DEFINE Body(f) == [k \in 0 .. Len(key) |->
                         IF k = 0 THEN 0 ELSE f[k - 1] * Base + key[k]]
           value == CHOOSE f : f = Body(f)
<1>6. part = Body(part)
  <2>1. \A k \in 0 .. Width : part[k] = IF k = 0 THEN 0 ELSE part[k - 1] * Base + key[k]
    BY <1>2, <1>4, <1>5
  <2> QED
    BY <1>2, <1>3, <2>1
<1>7. value = Body(value)
  BY <1>6
<1>8. SeqFromKey(key) = value[Width]
  BY <1>2 DEF SeqFromKey
<1> HIDE DEF value
<1>9. value[0] = 0 /\ \A k \in 1 .. Width : value[k] = value[k - 1] * Base + key[k]
  BY <1>2, <1>7
<1>10. \A k \in 0 .. Width : value[k] = part[k]
  <2> DEFINE Equal == { k \in Nat : k <= Width => value[k] = part[k] }
  <2>1. 0 \in Equal
    BY <1>4, <1>9
  <2>2. ASSUME NEW k \in Nat, k \in Equal
        PROVE  k + 1 \in Equal
    <3>1. SUFFICES ASSUME k + 1 <= Width
                   PROVE  value[k + 1] = part[k + 1]
      OBVIOUS
    <3>2. k + 1 \in 1 .. Width /\ (k + 1) - 1 = k /\ value[k] = part[k]
      BY <1>2, <2>2, <3>1
    <3> QED
      BY <1>5, <1>9, <3>2
  <2> HIDE DEF Equal
  <2>3. \A k \in Nat : k \in Equal
    BY <2>1, <2>2, Induction
  <2> QED
    BY <1>2, <2>3 DEF Equal
<1> QED
  BY <1>1, <1>2, <1>4, <1>8, <1>10

\* The first digits of a key are those of the part of the number that they make.
LEMMA SamePart ==
  ASSUME NEW s \in Nat, NEW t \in Nat, Shifted(s)[Width] = 0, Shifted(t)[Width] = 0,
         NEW n \in 0 .. Width, \A j \in 1 .. n : KeyFromSeq(s)[j] = KeyFromSeq(t)[j]
  PROVE  Shifted(s)[Width - n] = Shifted(t)[Width - n]
<1> DEFINE Same == { k \in Nat : k <= n => Shifted(s)[Width - k] = Shifted(t)[Width - k] }
<1>1. Width \in Nat
  BY WidthAssumption
<1>2. 0 \in Same
  BY <1>1
<1>3. ASSUME NEW k \in Nat, k \in Same
      PROVE  k + 1 \in Same
  <2>1. SUFFICES ASSUME k + 1 <= n
                 PROVE  Shifted(s)[Width - (k + 1)] = Shifted(t)[Width - (k + 1)]
    OBVIOUS
  <2>2. PICK i : i = k + 1 /\ i \in 1 .. Width /\ i \in 1 .. n /\ i - 1 = k
    BY <1>1, <2>1
  <2>3. /\ Shifted(s)[Width - i] = Shifted(s)[Width - (i - 1)] * Base + KeyFromSeq(s)[i]
        /\ Shifted(t)[Width - i] = Shifted(t)[Width - (i - 1)] * Base + KeyFromSeq(t)[i]
    BY <2>2, KeyFacts, Zenon
  <2>4. Shifted(s)[Width - k] = Shifted(t)[Width - k]
    BY <1>3, <2>1, <2>2
  <2>5. KeyFromSeq(s)[i] = KeyFromSeq(t)[i]
    BY <2>2
  <2> QED
    BY <2>2, <2>3, <2>4, <2>5, Zenon
<1> HIDE DEF Same
<1>4. \A k \in Nat : k \in Same
  BY <1>2, <1>3, Induction
<1> QED
  BY <1>1, <1>4 DEF Same

\* A key that comes before another is that of a smaller number: at the first digit
\* where they differ, so do the parts of the numbers that end there.
LEMMA BeforeIsLess ==
  ASSUME NEW s \in 0 .. MaxSeq + 1, NEW t \in 0 .. MaxSeq + 1,
         KeyBefore(KeyFromSeq(s), KeyFromSeq(t))
  PROVE  s < t
<1>1. PICK a, b : a = KeyFromSeq(s) /\ b = KeyFromSeq(t)
  OBVIOUS
<1>2. /\ Width \in Nat /\ s \in Nat /\ t \in Nat
      /\ Shifted(s)[Width] = 0 /\ Shifted(t)[Width] = 0
      /\ DOMAIN a = 1 .. Width /\ DOMAIN b = 1 .. Width /\ Len(a) = Width /\ Len(b) = Width
  BY <1>1, WidthAssumption, NumberFits, KeyFacts
<1>3. PICK i \in 1 .. Width : a[i] < b[i] /\ \A j \in 1 .. i - 1 : a[j] = b[j]
  BY <1>1, <1>2 DEF KeyBefore
<1>4. PICK p, q, r : /\ p = Shifted(s)[Width - (i - 1)] /\ q = Shifted(s)[Width - i]
                     /\ r = Shifted(t)[Width - i]
  OBVIOUS
<1>5. p = Shifted(t)[Width - (i - 1)]
  <2>1. i - 1 \in 0 .. Width
    BY <1>2
  <2> QED
    BY <1>1, <1>2, <1>3, <1>4, <2>1, SamePart, Zenon
<1>6. q = p * Base + a[i] /\ r = p * Base + b[i]
  BY <1>1, <1>2, <1>4, <1>5, KeyFacts, Zenon
<1>7. a[i] \in Nat /\ b[i] \in Nat
  <2>1. a[i] \in 0 .. Base - 1 /\ b[i] \in 0 .. Base - 1
    BY <1>1, <1>2, KeyFacts, Zenon
  <2> QED
    BY <2>1, BaseAssumption
<1>8. p \in Nat /\ q \in Nat /\ r \in Nat
  <2>1. Width - i \in Nat /\ Width - (i - 1) \in Nat
    BY <1>2
  <2> QED
    BY <1>2, <1>4, <2>1, ShiftedFacts, Zenon
<1>9. q < r
  <2>1. PICK m : m = p * Base /\ m \in Nat
    BY <1>8, BaseAssumption
  <2> QED
    BY <1>3, <1>6, <1>7, <2>1
<1>10. SUFFICES ASSUME t <= s
                PROVE  FALSE
  BY <1>2
<1>11. r <= q
  <2>1. Width - i \in Nat
    BY <1>2
  <2> QED
    BY <1>2, <1>4, <1>10, <2>1, ShiftedOrder, Zenon
<1> QED
  BY <1>8, <1>9, <1>11

\* The order of the keys is the order of the numbers.
LEMMA KeyOrder ==
  ASSUME NEW s \in 0 .. MaxSeq + 1, NEW t \in 0 .. MaxSeq + 1
  PROVE  KeyBefore(KeyFromSeq(s), KeyFromSeq(t)) <=> s < t
<1>1. SUFFICES ASSUME s < t, ~ KeyBefore(KeyFromSeq(s), KeyFromSeq(t))
               PROVE  FALSE
  BY BeforeIsLess
<1>2. PICK a, b : a = KeyFromSeq(s) /\ b = KeyFromSeq(t)
  OBVIOUS
<1>3. /\ Width \in Nat /\ s \in Nat /\ t \in Nat
      /\ Shifted(s)[Width] = 0 /\ Shifted(t)[Width] = 0
      /\ DOMAIN a = 1 .. Width /\ DOMAIN b = 1 .. Width
  BY <1>2, WidthAssumption, NumberFits, KeyFacts
<1>4. ~ KeyBefore(a, b) /\ ~ KeyBefore(b, a)
  <2>1. ~ (t < s)
    BY <1>1, <1>3
  <2> QED
    BY <1>1, <1>2, <2>1, BeforeIsLess
<1>5. \A k \in 1 .. Width : a[k] \in Nat /\ b[k] \in Nat
  <2>1. \A k \in 1 .. Width : a[k] \in 0 .. Base - 1 /\ b[k] \in 0 .. Base - 1
    BY <1>2, <1>3, KeyFacts, Zenon
  <2> QED
    BY <2>1, BaseAssumption
<1> DEFINE Same == { k \in Nat : k <= Width => \A j \in 1 .. k : a[j] = b[j] }
<1>6. 0 \in Same
  OBVIOUS
<1>7. ASSUME NEW k \in Nat, k \in Same
      PROVE  k + 1 \in Same
  <2>1. SUFFICES ASSUME k + 1 <= Width
                 PROVE  a[k + 1] = b[k + 1]
    BY <1>3, <1>7
  <2>2. PICK i : i = k + 1 /\ i \in 1 .. Width /\ \A j \in 1 .. i - 1 : a[j] = b[j]
    BY <1>3, <1>7, <2>1
  <2>3. ~ (a[i] < b[i]) /\ ~ (b[i] < a[i])
    BY <1>3, <1>4, <2>2 DEF KeyBefore
  <2> QED
    BY <1>5, <2>2, <2>3
<1> HIDE DEF Same
<1>8. \A k \in Nat : k \in Same
  BY <1>6, <1>7, Induction
<1>9. \A j \in 1 .. Width : a[j] = b[j]
  BY <1>3, <1>8 DEF Same
<1>10. Shifted(s)[Width - Width] = Shifted(t)[Width - Width]
  <2>1. Width \in 0 .. Width
    BY <1>3
  <2> QED
    BY <1>2, <1>3, <1>9, <2>1, SamePart, Zenon
<1>11. Shifted(s)[0] = s /\ Shifted(t)[0] = t
  BY <1>3, ShiftedFacts
<1> QED
  BY <1>1, <1>3, <1>10, <1>11

-----------------------------------------------------------------------------
(* The scans *)

\* The keys of a journal without holes, and what is found under them.
LEMMA JournalFacts ==
  ASSUME NEW ix, DenseJournal(ix), LastKey(ix) <= MaxSeq
  PROVE  /\ LastKey(ix) \in 0 .. MaxSeq
         /\ JournalKeys(ix) = { KeyFromSeq(s) : s \in 1 .. LastKey(ix) }
         /\ \A s \in 1 .. LastKey(ix) :
              s \in 0 .. MaxSeq + 1 /\ RecordAt(ix, KeyFromSeq(s)) = ix.bySeq[s]
<1>1. LastKey(ix) \in Nat /\ DOMAIN ix.bySeq = 1 .. LastKey(ix) /\ MaxSeq \in Nat
  BY MaxSeqAssumption DEF DenseJournal
<1>2. \A s \in 1 .. LastKey(ix) : s \in 0 .. MaxSeq + 1
  BY <1>1
<1>3. ASSUME NEW s \in 1 .. LastKey(ix)
      PROVE  RecordAt(ix, KeyFromSeq(s)) = ix.bySeq[s]
  <2>1. PICK t : t = CHOOSE u \in DOMAIN ix.bySeq : KeyFromSeq(u) = KeyFromSeq(s)
    OBVIOUS
  <2>2. t \in 1 .. LastKey(ix) /\ KeyFromSeq(t) = KeyFromSeq(s)
    BY <1>1, <2>1
  <2>3. t = s
    BY <1>2, <2>2, SeqOfKey
  <2> QED
    BY <2>1, <2>3 DEF RecordAt
<1> QED
  BY <1>1, <1>2, <1>3 DEF JournalKeys

\* The last key of the scan is that of the last number.
LEMMA LastScan ==
  ASSUME NEW ix, DenseJournal(ix), LastKey(ix) <= MaxSeq
  PROVE  ScanLast(ix) = LastKey(ix)
<1>1. PICK n : n = LastKey(ix)
  OBVIOUS
<1>2. /\ n \in 0 .. MaxSeq /\ JournalKeys(ix) = { KeyFromSeq(s) : s \in 1 .. n }
      /\ \A s \in 1 .. n : s \in 0 .. MaxSeq + 1
  BY <1>1, JournalFacts
<1>3. CASE n = 0
  <2>1. JournalKeys(ix) = {}
    BY <1>2, <1>3
  <2> QED
    BY <1>1, <1>3, <2>1 DEF ScanLast
<1>4. CASE n # 0
  <2>1. n \in 1 .. n /\ KeyFromSeq(n) \in JournalKeys(ix)
    BY <1>2, <1>4
  <2>2. \A other \in JournalKeys(ix) : ~ KeyBefore(KeyFromSeq(n), other)
    <3>1. \A s \in 1 .. n : ~ (n < s)
      BY <1>2
    <3> QED
      BY <1>2, <2>1, <3>1, KeyOrder
  <2>3. PICK k : k = CHOOSE key \in JournalKeys(ix) :
                       \A other \in JournalKeys(ix) : ~ KeyBefore(key, other)
    OBVIOUS
  <2>4. k \in JournalKeys(ix) /\ \A other \in JournalKeys(ix) : ~ KeyBefore(k, other)
    BY <2>1, <2>2, <2>3
  <2>5. PICK s \in 1 .. n : k = KeyFromSeq(s)
    BY <1>2, <2>4
  <2>6. ~ (s < n)
    BY <1>2, <2>1, <2>4, <2>5, KeyOrder
  <2>7. s = n
    BY <1>2, <2>5, <2>6
  <2>8. SeqFromKey(k) = n
    BY <1>2, <2>5, <2>7, SeqOfKey
  <2> QED
    BY <1>1, <2>1, <2>3, <2>8 DEF ScanLast
<1> QED
  BY <1>3, <1>4

\* A scan between two keys finds the records of the numbers between them.
LEMMA RangeScan ==
  ASSUME NEW ix, DenseJournal(ix), LastKey(ix) <= MaxSeq,
         NEW start \in 1 .. MaxSeq + 1, NEW end \in 1 .. MaxSeq + 1
  PROVE  ScanRange(ix, start, end) = EnumerateBySeq(ix, start, end)
<1>1. PICK n : n = LastKey(ix)
  OBVIOUS
<1>2. /\ n \in Nat /\ JournalKeys(ix) = { KeyFromSeq(s) : s \in 1 .. n }
      /\ DOMAIN ix.bySeq = 1 .. n
      /\ \A s \in 1 .. n :
           s \in 0 .. MaxSeq + 1 /\ RecordAt(ix, KeyFromSeq(s)) = ix.bySeq[s]
  BY <1>1, JournalFacts DEF DenseJournal
<1>3. start \in 0 .. MaxSeq + 1 /\ end \in 0 .. MaxSeq + 1
  BY MaxSeqAssumption
<1> DEFINE Keys == { key \in JournalKeys(ix) : ~ KeyBefore(key, KeyFromSeq(start))
                                               /\ KeyBefore(key, KeyFromSeq(end)) }
           Numbers == { t \in DOMAIN ix.bySeq : start <= t /\ t < end }
<1>4. \A s \in 1 .. n : KeyFromSeq(s) \in Keys <=> s \in Numbers
  <2> SUFFICES ASSUME NEW s \in 1 .. n
               PROVE  KeyFromSeq(s) \in Keys <=> s \in Numbers
    OBVIOUS
  <2>1. /\ KeyBefore(KeyFromSeq(s), KeyFromSeq(start)) <=> s < start
        /\ KeyBefore(KeyFromSeq(s), KeyFromSeq(end)) <=> s < end
    BY <1>2, <1>3, KeyOrder
  <2>2. ~ (s < start) <=> start <= s
    OBVIOUS
  <2> QED
    BY <1>2, <2>1, <2>2
<1>5. Keys \subseteq { KeyFromSeq(s) : s \in 1 .. n } /\ Numbers \subseteq 1 .. n
  BY <1>2
<1>6. ScanRange(ix, start, end) = { RecordAt(ix, k) : k \in Keys }
  BY DEF ScanRange
<1>7. EnumerateBySeq(ix, start, end) = { ix.bySeq[s] : s \in Numbers }
  BY DEF EnumerateBySeq
<1> HIDE DEF Keys, Numbers
<1> QED
  BY <1>2, <1>4, <1>5, <1>6, <1>7

\* Put is not called on a journal of MaxSeq records.
JournalFits == LastKey(index) <= MaxSeq

\* No step makes the journal longer than that: Put is the only one that adds a
\* record, and it numbers the record from the sequence in memory.
LEMMA FitsNext == IInv /\ JournalFits /\ [Next]_vars => JournalFits'
<1> SUFFICES ASSUME IInv, JournalFits, [Next]_vars
             PROVE  JournalFits'
  OBVIOUS
<1>0. /\ LastKey(index) \in Nat /\ index.seq \in Nat /\ MaxSeq \in Nat
      /\ IndexType(index) /\ WellFormed(index)
      /\ DOMAIN index.bySeq = 1 .. LastKey(index)
  BY MaxSeqAssumption DEF IInv, WellFormed, DenseJournal, TypeOK, IndexType
<1>1. CASE Open
  <2>1. LastKey(index') = LastKey(index)
    BY <1>0, <1>1, RecoverPreserves DEF Open
  <2> QED
    BY <2>1 DEF JournalFits
<1>2. ASSUME NEW md \in Metadata, PutWrite(md)
      PROVE  JournalFits'
  <2>1. /\ index.seq = LastKey(index) /\ index.seq < MaxSeq /\ ~ Skips(index, md)
        /\ index' = WriteBatch(index, NewEntry(index, md))
    BY <1>2 DEF PutWrite, IInv, SeqInv
  <2>2. PICK e : e = NewEntry(index, md)
    OBVIOUS
  <2>3. LastKey(index') = e.seq /\ e.seq = index.seq + 1
    BY <1>0, <2>1, <2>2, WriteBatchPreserves
  <2> QED
    BY <1>0, <2>1, <2>3 DEF JournalFits
<1>3. CASE PutKeepSeq
  <2>1. LastKey(index') = LastKey(index)
    BY <1>0, <1>3, SetSeqPreserves DEF PutKeepSeq, IInv, TypeOK
  <2> QED
    BY <2>1 DEF JournalFits
<1>4. CASE Stop
  <2>1. LastKey(index') = LastKey(index)
    BY <1>0, <1>4, SetSeqPreserves DEF Stop
  <2> QED
    BY <2>1 DEF JournalFits
<1>5. CASE WriteBack
  BY <1>5 DEF WriteBack, JournalFits
<1>6. CASE MachineStop
  <2>1. PICK k \in {0} \cup DOMAIN index.bySeq : index' = CutJournal(index, k)
    BY <1>6 DEF MachineStop
  <2>2. LastKey(index') = k
    BY <1>0, <2>1, CutPreserves
  <2>3. k <= LastKey(index) /\ k \in Nat
    BY <1>0, <2>1
  <2> QED
    BY <1>0, <2>2, <2>3 DEF JournalFits
<1>7. CASE UNCHANGED vars
  BY <1>7 DEF vars, JournalFits
<1>8. CASE Vacuum
  BY <1>7, <1>8 DEF Vacuum
<1> QED
  BY <1>1, <1>2, <1>3, <1>4, <1>5, <1>6, <1>7, <1>8 DEF Next

\* Whatever the base of the digits and the width of a key, a restart finds the last
\* sequence number and a range of keys is a range of numbers, as long as the width
\* holds the numbers.
THEOREM ScansCorrect == Spec => []ScansFollowNumbers
<1>1. Init => JournalFits
  <2> SUFFICES ASSUME Init
               PROVE  JournalFits
    OBVIOUS
  <2>1. LastKey(index) = 0
    BY EmptyIndexWellFormed DEF Init
  <2> QED
    BY <2>1, MaxSeqAssumption DEF JournalFits
<1>2. IInv /\ JournalFits => ScansFollowNumbers
  <2> SUFFICES ASSUME IInv, JournalFits
               PROVE  ScansFollowNumbers
    OBVIOUS
  <2>1. DenseJournal(index) /\ LastKey(index) <= MaxSeq
    BY DEF IInv, WellFormed, JournalFits
  <2>2. ScanLast(index) = LastKey(index)
    BY <2>1, LastScan
  <2>3. \A start, end \in 1 .. MaxSeq + 1 :
          ScanRange(index, start, end) = EnumerateBySeq(index, start, end)
    BY <2>1, RangeScan
  <2> QED
    BY <2>2, <2>3 DEF ScansFollowNumbers
<1> QED
  BY <1>1, <1>2, FitsNext, Invariance, PTL DEF Spec
=============================================================================
