---------------------------- MODULE FlatFSProofs ----------------------------
(***************************************************************************)
(* Theorems about FlatFS, for any number of goroutines, blocks and pieces. *)
(*                                                                         *)
(* A file that no Put of which was cut short is whole, or one of those who *)
(* write it has found it empty and since written all up to where it is,    *)
(* and the others only write what belongs there.  That is IInv, and what   *)
(* files hold follows from it.  The types and the lists of Enumerate need  *)
(* more: FullInv, and that the text of an OID parses to that OID, which is *)
(* shown bit by bit.                                                       *)
(***************************************************************************)
EXTENDS FlatFS, Integers, SequenceTheorems, TLAPS

Uses(c) == IsWriting(c) \/ IsReading(c)

\* What a goroutine is doing has the fields that it should have.
Shape(r) ==
  /\ r.kind = "write" =>
       /\ r = Writing(r.oid, r.file, r.next, r.kept)
       /\ r.next \in 1 .. Pieces + 1 /\ r.kept \in BOOLEAN
  /\ r.kind = "read" =>
       r = Reading(r.oid, r.file, r.got, r.clean) /\ r.clean \in BOOLEAN
  /\ r.kind = "list" => r = Listing(r.todo, r.list, r.always, r.ever)

OpsInv ==
  /\ op = [c \in Caller |-> op[c]]
  /\ \A c \in Caller : Shape(op[c])

\* Files that have a name or are open are known.
KnownInv ==
  /\ \A o \in DOMAIN link : link[o] \in DOMAIN data
  /\ \A c \in Caller : Uses(c) => op[c].file \in DOMAIN data

\* Every piece of f is in its place, or there is a hole.
Right(f) ==
  /\ f \in Seq(Nat)
  /\ Len(f) <= Pieces
  /\ \A k \in 1 .. Len(f) : f[k] = 0 \/ f[k] = k

\* What c has written since it opened the file is there.
Progress(c, f) ==
  \A k \in 1 .. op[c].next - 1 : k <= Len(f) /\ f[k] = k

FilesInv ==
  /\ \A i \in DOMAIN data : Right(data[i])
  /\ \A i \in DOMAIN data : i \notin torn =>
       data[i] = Whole \/ \E c \in Caller :
         IsWriting(c) /\ op[c].file = i /\ Progress(c, data[i])

\* A reader that was not disturbed has a whole file before it.
ReadInv ==
  \A c \in Caller :
    /\ IsReading(c) /\ op[c].clean =>
         /\ data[op[c].file] = Whole
         /\ \E n \in 0 .. Pieces : op[c].got = [k \in 1 .. n |-> k]
    /\ op[c].kind = "got" /\ op[c].clean => op[c].got = Whole

\* The block of a Put that will count as acknowledged is there from the opening of
\* its file on.
AckInv ==
  /\ acked \subseteq DOMAIN link
  /\ \A c \in Caller : IsWriting(c) /\ op[c].kept => op[c].oid \in DOMAIN link

\* The inductive invariant.
IInv == OpsInv /\ KnownInv /\ FilesInv /\ ReadInv /\ AckInv

-----------------------------------------------------------------------------
(* Operations and files *)

\* What Enumerate does, and what uses no file, has its shape.
LEMMA ListingFacts ==
  ASSUME NEW todo, NEW list, NEW always, NEW ever, NEW r, r = Listing(todo, list, always, ever)
  PROVE  Shape(r) /\ r.kind = "list"
BY DEF Shape, Listing

\* The records of the calls that have no file.
LEMMA OtherFacts ==
  /\ Shape(NoOp) /\ NoOp.kind = "none"
  /\ \A o : Shape(Opening(o)) /\ Opening(o).kind = "open"
  /\ \A list, always, ever :
       Shape(Listed(list, always, ever)) /\ Listed(list, always, ever).kind = "listed"
BY DEF Shape, NoOp, Opening, Listed

\* What a step of the file system leaves: the files that have a name or are open.
LEMMA FileSystemFacts ==
  ASSUME NEW l, NEW d, NEW ops, NEW t, FileSystem(l, d, ops, t)
  PROVE  /\ link' = l /\ op' = ops
         /\ \A i : i \in DOMAIN data' <=>
              \/ \E o \in DOMAIN l : i = l[o]
              \/ \E c \in Caller : ops[c].kind \in {"write", "read"} /\ i = ops[c].file
         /\ \A i \in DOMAIN data' : data'[i] = d[i]
         /\ torn' = t \cap DOMAIN data'
<1>1. DOMAIN data' = InUse(l, ops) /\ \A i \in DOMAIN data' : data'[i] = d[i]
  BY DEF FileSystem, F!Restrict
<1> QED
  BY <1>1 DEF FileSystem, InUse

\* A step after which c does what it did, or nothing with a file, or has only lost
\* a claim.
Calm(c) ==
  \/ op'[c] = op[c]
  \/ op'[c].kind \notin {"write", "read", "got"} /\ Shape(op'[c])
  \/ IsWriting(c) /\ op'[c] = Writing(op[c].oid, op[c].file, op[c].next, FALSE)
  \/ IsReading(c) /\ op'[c] = Reading(op[c].oid, op[c].file, op[c].got, FALSE)

\* What that means.
LEMMA CalmFacts ==
  ASSUME OpsInv, NEW c \in Caller, Calm(c)
  PROVE  /\ Shape(op'[c])
         /\ IsWriting(c)' =>
              /\ IsWriting(c)
              /\ op'[c].oid = op[c].oid /\ op'[c].file = op[c].file
              /\ op'[c].next = op[c].next
              /\ op'[c].kept => op[c].kept
         /\ IsReading(c)' =>
              /\ IsReading(c)
              /\ op'[c].file = op[c].file /\ op'[c].got = op[c].got
              /\ op'[c].clean => op[c].clean
         /\ op'[c].kind = "got" => op'[c] = op[c]
<1>1. CASE op'[c] = op[c]
  BY <1>1 DEF OpsInv, IsWriting, IsReading
<1>2. CASE op'[c].kind \notin {"write", "read", "got"} /\ Shape(op'[c])
  BY <1>2 DEF IsWriting, IsReading
<1>3. CASE IsWriting(c) /\ op'[c] = Writing(op[c].oid, op[c].file, op[c].next, FALSE)
  <2>1. op[c].next \in 1 .. Pieces + 1
    <3>1. PICK r : r = op[c] /\ Shape(r) /\ r.kind = "write"
      BY <1>3 DEF OpsInv, IsWriting
    <3> QED
      BY <3>1 DEF Shape
  <2>2. PICK o, i, next : /\ next \in 1 .. Pieces + 1
                          /\ o = op[c].oid /\ i = op[c].file /\ next = op[c].next
                          /\ op'[c] = Writing(o, i, next, FALSE)
    BY <1>3, <2>1
  <2>3. /\ Shape(op'[c])
        /\ op'[c].kind = "write" /\ op'[c].oid = o /\ op'[c].file = i
        /\ op'[c].next = next /\ op'[c].kept = FALSE
    BY <2>2 DEF Writing, Shape
  <2> QED
    BY <1>3, <2>2, <2>3 DEF IsWriting, IsReading
<1>4. CASE IsReading(c) /\ op'[c] = Reading(op[c].oid, op[c].file, op[c].got, FALSE)
  <2>1. PICK o, i, got : /\ o = op[c].oid /\ i = op[c].file /\ got = op[c].got
                         /\ op'[c] = Reading(o, i, got, FALSE)
    BY <1>4
  <2>2. /\ Shape(op'[c])
        /\ op'[c].kind = "read" /\ op'[c].file = i /\ op'[c].got = got
        /\ op'[c].clean = FALSE
    BY <2>1 DEF Reading, Shape
  <2> QED
    BY <1>4, <2>1, <2>2 DEF IsWriting, IsReading
<1> QED
  BY <1>1, <1>2, <1>3, <1>4 DEF Calm

\* A calm step keeps the invariant when every writer that leaves a file leaves it
\* torn, or whole, or out of reach.
LEMMA CalmStep ==
  ASSUME OpsInv, KnownInv, FilesInv, ReadInv,
         op' = [c \in Caller |-> op'[c]],
         \A c \in Caller : Calm(c),
         \A o \in DOMAIN link' : link'[o] \in DOMAIN data',
         \A c \in Caller : Uses(c)' => op'[c].file \in DOMAIN data',
         \A i \in DOMAIN data' : i \in DOMAIN data /\ data'[i] = data[i],
         \A i \in DOMAIN data' : i \in torn => i \in torn',
         \A c \in Caller : IsWriting(c) /\ ~ IsWriting(c)' =>
           LET i == op[c].file IN
             i \in DOMAIN data' => i \in torn' \/ data[i] = Whole \/ ~ Progress(c, data[i])
  PROVE  OpsInv' /\ KnownInv' /\ FilesInv' /\ ReadInv'
<1>1. \A c \in Caller :
        /\ Shape(op'[c])
        /\ IsWriting(c)' =>
             /\ IsWriting(c)
             /\ op'[c].file = op[c].file
             /\ op'[c].next = op[c].next
        /\ IsReading(c)' =>
             /\ IsReading(c)
             /\ op'[c].file = op[c].file /\ op'[c].got = op[c].got
             /\ op'[c].clean => op[c].clean
        /\ op'[c].kind = "got" => op'[c] = op[c]
  BY CalmFacts
<1>2. OpsInv' /\ KnownInv'
  BY <1>1 DEF OpsInv, KnownInv
<1>3. FilesInv'
  <2>1. \A i \in DOMAIN data' : Right(data'[i])
    BY DEF FilesInv
  <2>2. ASSUME NEW i \in DOMAIN data', i \notin torn', data'[i] # Whole
        PROVE  \E c \in Caller : IsWriting(c)' /\ op'[c].file = i /\ Progress(c, data[i])'
    <3>1. PICK c \in Caller : IsWriting(c) /\ op[c].file = i /\ Progress(c, data[i])
      BY <2>2 DEF FilesInv
    <3>2. IsWriting(c)'
      BY <2>2, <3>1
    <3>3. op'[c].file = op[c].file /\ op'[c].next = op[c].next /\ data'[i] = data[i]
      BY <1>1, <3>2
    <3> QED
      BY <3>1, <3>2, <3>3 DEF Progress
  <2> QED
    BY <2>1, <2>2 DEF FilesInv, Right
<1>4. ReadInv'
  <2> SUFFICES ASSUME NEW c \in Caller
               PROVE  /\ IsReading(c)' /\ op'[c].clean =>
                           /\ data'[op'[c].file] = Whole
                           /\ \E n \in 0 .. Pieces : op'[c].got = [k \in 1 .. n |-> k]
                      /\ op'[c].kind = "got" /\ op'[c].clean => op'[c].got = Whole
    BY DEF ReadInv, Whole
  <2>1. ASSUME IsReading(c)', op'[c].clean
        PROVE  /\ data'[op'[c].file] = Whole
               /\ \E n \in 0 .. Pieces : op'[c].got = [k \in 1 .. n |-> k]
    <3>1. IsReading(c) /\ op'[c].file = op[c].file /\ op'[c].got = op[c].got /\ op[c].clean
      BY <1>1, <2>1
    <3>2. op'[c].file \in DOMAIN data'
      BY <2>1 DEF Uses
    <3>3. data'[op'[c].file] = data[op[c].file]
      BY <3>1, <3>2
    <3> QED
      BY <3>1, <3>3 DEF ReadInv
  <2>2. ASSUME op'[c].kind = "got", op'[c].clean
        PROVE  op'[c].got = Whole
    BY <1>1, <2>2 DEF ReadInv
  <2> QED
    BY <2>1, <2>2
<1> QED
  BY <1>2, <1>3, <1>4

\* What the EXCEPTs of the module make of what a goroutine is doing.
LEMMA ExceptFacts ==
  ASSUME NEW r, Shape(r)
  PROVE  /\ r.kind = "write" => \A x :
              /\ [r EXCEPT !.kept = x] = Writing(r.oid, r.file, r.next, x)
              /\ [r EXCEPT !.next = x] = Writing(r.oid, r.file, x, r.kept)
         /\ r.kind = "read" => \A x :
              /\ [r EXCEPT !.clean = x] = Reading(r.oid, r.file, r.got, x)
              /\ [r EXCEPT !.got = x] = Reading(r.oid, r.file, x, r.clean)
         /\ r.kind = "list" => \A x :
              /\ [r EXCEPT !.always = x] = Listing(r.todo, r.list, x, r.ever)
              /\ [r EXCEPT !.ever = x] = Listing(r.todo, r.list, r.always, x)
<1>1. CASE r.kind = "write"
  <2>1. r = Writing(r.oid, r.file, r.next, r.kept)
    BY <1>1 DEF Shape
  <2> QED
    BY <1>1, <2>1 DEF Writing
<1>2. CASE r.kind = "read"
  <2>1. r = Reading(r.oid, r.file, r.got, r.clean)
    BY <1>2 DEF Shape
  <2> QED
    BY <1>2, <2>1 DEF Reading
<1>3. CASE r.kind = "list"
  <2>1. r = Listing(r.todo, r.list, r.always, r.ever)
    BY <1>3 DEF Shape
  <2>2. ASSUME NEW x
        PROVE  /\ [r EXCEPT !.always = x] = Listing(r.todo, r.list, x, r.ever)
               /\ [r EXCEPT !.ever = x] = Listing(r.todo, r.list, r.always, x)
    BY <2>1 DEF Listing
  <2> QED
    BY <1>3, <2>2
<1> QED
  BY <1>1, <1>2, <1>3

\* A calm step that lets go of names and handles only.
LEMMA CalmFileSystem ==
  ASSUME OpsInv, KnownInv, FilesInv, ReadInv,
         NEW l, NEW ops, NEW t, FileSystem(l, data, ops, t),
         \A o \in DOMAIN l : o \in DOMAIN link /\ l[o] = link[o],
         ops = [c \in Caller |-> ops[c]],
         \A c \in Caller : Calm(c),
         \A i \in torn : i \in t,
         \A c \in Caller : IsWriting(c) /\ ~ IsWriting(c)' =>
           LET i == op[c].file IN i \in t \/ data[i] = Whole \/ ~ Progress(c, data[i])
  PROVE  OpsInv' /\ KnownInv' /\ FilesInv' /\ ReadInv'
<1>1. /\ link' = l /\ op' = ops
      /\ \A i : i \in DOMAIN data' <=>
           \/ \E o \in DOMAIN l : i = l[o]
           \/ \E c \in Caller : ops[c].kind \in {"write", "read"} /\ i = ops[c].file
      /\ \A i \in DOMAIN data' : data'[i] = data[i]
      /\ torn' = t \cap DOMAIN data'
  BY FileSystemFacts
<1>2. \A c \in Caller : Uses(c)' => Uses(c) /\ op'[c].file = op[c].file
  BY CalmFacts DEF Uses
<1>3. \A c \in Caller : ops[c].kind \in {"write", "read"} <=> Uses(c)'
  BY <1>1 DEF Uses, IsWriting, IsReading
<1>4. \A i \in DOMAIN data' : i \in DOMAIN data
  BY <1>1, <1>2, <1>3 DEF KnownInv
<1>5. \A o \in DOMAIN link' : link'[o] \in DOMAIN data'
  BY <1>1
<1>6. \A c \in Caller : Uses(c)' => op'[c].file \in DOMAIN data'
  BY <1>1, <1>3
<1>7. \A i \in DOMAIN data' : (i \in torn => i \in torn') /\ (i \in t => i \in torn')
  BY <1>1
<1>8. op' = [c \in Caller |-> op'[c]]
  BY <1>1
<1> QED
  BY <1>1, <1>4, <1>5, <1>6, <1>7, <1>8, CalmStep

\* A calm step of one goroutine that leaves the files alone.
LEMMA CalmAlone ==
  ASSUME IInv, NEW c \in Caller, ~ IsWriting(c), NEW r, Shape(r),
         r.kind \notin {"write", "read", "got"},
         op' = [op EXCEPT ![c] = r],
         UNCHANGED <<link, data, torn, acked>>
  PROVE  IInv'
<1>1. \A d \in Caller : op'[d] = IF d = c THEN r ELSE op[d]
  BY DEF IInv, OpsInv
<1>2. op' = [d \in Caller |-> op'[d]]
  BY DEF IInv, OpsInv
<1>3. \A d \in Caller : Calm(d)
  BY <1>1 DEF Calm
<1>4. \A d \in Caller : /\ Uses(d)' => Uses(d) /\ op'[d].file = op[d].file
                        /\ IsWriting(d)' <=> IsWriting(d)
                        /\ IsWriting(d)' => op'[d] = op[d]
  BY <1>1 DEF Uses, IsWriting, IsReading
<1>5. OpsInv' /\ KnownInv' /\ FilesInv' /\ ReadInv'
  BY <1>2, <1>3, <1>4, CalmStep DEF IInv, KnownInv
<1>6. AckInv'
  BY <1>4 DEF IInv, AckInv
<1> QED
  BY <1>5, <1>6 DEF IInv

-----------------------------------------------------------------------------
(* The steps *)

\* Put makes the directory of its block.
LEMMA PutEnsureDirStep ==
  ASSUME IInv, NEW c \in Caller, NEW o \in Block, PutEnsureDir(c, o)
  PROVE  IInv'
<1>1. PICK r : r = Opening(o)
  OBVIOUS
<1>2. Shape(r) /\ r.kind \notin {"write", "read", "got"}
  BY <1>1, OtherFacts
<1>3. ~ IsWriting(c) /\ op' = [op EXCEPT ![c] = r] /\ UNCHANGED <<link, data, torn, acked>>
  BY <1>1 DEF PutEnsureDir, Free, IsWriting
<1> QED
  BY <1>2, <1>3, CalmAlone

\* Enumerate goes on, or ends with its list.
LEMMA EndOrGoOnFacts ==
  ASSUME NEW todo, NEW list, NEW always, NEW ever, NEW r,
         r = EndOrGoOn(Listing(todo, list, always, ever))
  PROVE  Shape(r) /\ r.kind \notin {"write", "read", "got"}
<1>1. PICK e : e = Listing(todo, list, always, ever)
  OBVIOUS
<1>2. Shape(e) /\ e.kind = "list"
  BY <1>1, ListingFacts
<1>3. r = e \/ r = Listed(e.list, e.always, e.ever)
  BY <1>1 DEF EndOrGoOn
<1> QED
  BY <1>2, <1>3, OtherFacts

\* The steps of Enumerate touch no file.
LEMMA EnumerateSteps ==
  ASSUME IInv, NEW c \in Caller, EnumerateBase(c) \/ EnumerateShard(c) \/ EnumerateFails(c)
  PROVE  IInv'
<1>1. ~ IsWriting(c) /\ UNCHANGED <<link, data, torn, acked>>
  BY DEF EnumerateBase, EnumerateShard, EnumerateFails, Free, IsListing, IsWriting
<1>2. \E r : /\ op' = [op EXCEPT ![c] = r]
             /\ Shape(r) /\ r.kind \notin {"write", "read", "got"}
  <2>1. CASE EnumerateBase(c)
    <3>1. PICK r : r = EndOrGoOn(Listing(dirs, {}, DOMAIN link, DOMAIN link))
      OBVIOUS
    <3>2. op' = [op EXCEPT ![c] = r]
      BY <2>1, <3>1 DEF EnumerateBase
    <3> QED
      BY <3>1, <3>2, EndOrGoOnFacts
  <2>2. CASE EnumerateShard(c)
    <3>1. PICK d \in op[c].todo :
            op' = [op EXCEPT ![c] =
              EndOrGoOn(Listing(op[c].todo \ {d}, op[c].list \cup Parsed(Names(d)),
                                op[c].always, op[c].ever))]
      BY <2>2 DEF EnumerateShard
    <3>2. PICK r : r = EndOrGoOn(Listing(op[c].todo \ {d}, op[c].list \cup Parsed(Names(d)),
                                         op[c].always, op[c].ever))
      OBVIOUS
    <3>3. op' = [op EXCEPT ![c] = r]
      BY <3>1, <3>2
    <3> QED
      BY <3>2, <3>3, EndOrGoOnFacts
  <2>3. CASE EnumerateFails(c)
    BY <2>3, OtherFacts DEF EnumerateFails
  <2> QED
    BY <2>1, <2>2, <2>3
<1> QED
  BY <1>1, <1>2, CalmAlone

\* A writer that has written all has a whole file before it.
LEMMA ProgressWhole ==
  ASSUME NEW c, NEW f, Right(f), Progress(c, f), op[c].next \in 1 .. Pieces + 1,
         op[c].next > Pieces
  PROVE  f = Whole
<1>1. Pieces \in Nat \ {0} /\ op[c].next = Pieces + 1
  BY PiecesAssumption
<1>2. \A k \in 1 .. Pieces : k <= Len(f) /\ f[k] = k
  BY <1>1 DEF Progress
<1>3. f \in Seq(Nat) /\ Len(f) = Pieces
  BY <1>1, <1>2 DEF Right
<1> QED
  BY <1>1, <1>2, <1>3 DEF Whole

\* The end of an operation of c that has one of these forms: the file system forgets
\* what only c had open.
LEMMA EndStep ==
  ASSUME IInv, NEW c \in Caller, NEW t, \A i \in torn : i \in t,
         FileSystem(link, data, [op EXCEPT ![c] = NoOp], t),
         IsWriting(c) => op[c].file \in t \/ op[c].next > Pieces,
         acked' \subseteq DOMAIN link
  PROVE  IInv'
<1>1. PICK ops : ops = [op EXCEPT ![c] = NoOp]
  OBVIOUS
<1>2. FileSystem(link, data, ops, t)
  BY <1>1
<1>3. link' = link /\ op' = ops
  BY <1>2, FileSystemFacts
<1>4. \A d \in Caller : op'[d] = IF d = c THEN NoOp ELSE op[d]
  BY <1>1, <1>3 DEF IInv, OpsInv
<1>5. ops = [d \in Caller |-> ops[d]]
  BY <1>1 DEF IInv, OpsInv
<1>6. \A d \in Caller : Calm(d)
  BY <1>4, OtherFacts DEF Calm
<1>7. ASSUME NEW d \in Caller, IsWriting(d), ~ IsWriting(d)',
             op[d].file \notin t, Progress(d, data[op[d].file])
      PROVE  data[op[d].file] = Whole
  <2>1. d = c
    BY <1>4, <1>7 DEF IsWriting
  <2>2. Right(data[op[d].file])
    BY <1>7 DEF IInv, KnownInv, FilesInv, Uses
  <2>3. op[d].next \in 1 .. Pieces + 1
    BY <1>7 DEF IInv, OpsInv, Shape, IsWriting
  <2> QED
    BY <1>7, <2>1, <2>2, <2>3, ProgressWhole
<1>8. OpsInv' /\ KnownInv' /\ FilesInv' /\ ReadInv'
  BY <1>2, <1>5, <1>6, <1>7, CalmFileSystem DEF IInv
<1>9. AckInv'
  <2>1. \A d \in Caller : IsWriting(d)' => IsWriting(d) /\ op'[d] = op[d]
    BY <1>4, OtherFacts DEF IsWriting
  <2> QED
    BY <1>3, <2>1 DEF IInv, AckInv
<1> QED
  BY <1>8, <1>9 DEF IInv

\* A call that ends leaves the files as they are.
LEMMA EndSteps ==
  ASSUME IInv, NEW c \in Caller, PutReturn(c) \/ PutFails(c) \/ GetFails(c)
  PROVE  IInv'
<1>1. CASE PutReturn(c)
  <2>1. acked' \subseteq DOMAIN link
    BY <1>1 DEF PutReturn, IInv, AckInv
  <2> QED
    BY <1>1, <2>1, EndStep DEF PutReturn
<1>2. CASE PutFails(c)
  <2>1. PICK t : t = IF IsWriting(c) THEN torn \cup {op[c].file} ELSE torn
    OBVIOUS
  <2>2. FileSystem(link, data, [op EXCEPT ![c] = NoOp], t) /\ acked' = acked
    BY <1>2, <2>1 DEF PutFails
  <2>3. acked' \subseteq DOMAIN link
    BY <2>2 DEF IInv, AckInv
  <2> QED
    BY <2>1, <2>2, <2>3, EndStep
<1>3. CASE GetFails(c)
  <2>1. acked' \subseteq DOMAIN link /\ ~ IsWriting(c)
    BY <1>3 DEF GetFails, IInv, AckInv, IsWriting, IsReading
  <2> QED
    BY <1>3, <2>1, EndStep DEF GetFails
<1> QED
  BY <1>1, <1>2, <1>3

\* Files whose Put is killed are torn.
LEMMA KillStep ==
  ASSUME IInv, Kill
  PROVE  IInv'
<1>1. PICK ops, t : /\ ops = [c \in Caller |-> NoOp]
                    /\ t = torn \cup { op[c].file : c \in { d \in Caller : IsWriting(d) } }
                    /\ FileSystem(link, data, ops, t)
  BY DEF Kill
<1>2. link' = link /\ op' = ops /\ acked' = acked
  BY <1>1, FileSystemFacts DEF Kill
<1>3. \A c \in Caller : op'[c] = NoOp
  BY <1>1, <1>2
<1>4. \A c \in Caller : Calm(c)
  BY <1>3, OtherFacts DEF Calm
<1>5. ops = [c \in Caller |-> ops[c]]
  BY <1>1
<1>6. \A i \in torn : i \in t
  BY <1>1
<1>7. \A c \in Caller : IsWriting(c) => op[c].file \in t
  BY <1>1
<1>8. OpsInv' /\ KnownInv' /\ FilesInv' /\ ReadInv'
  BY <1>1, <1>4, <1>5, <1>6, <1>7, CalmFileSystem DEF IInv
<1>9. AckInv'
  BY <1>2, <1>3, OtherFacts DEF IInv, AckInv, IsWriting
<1> QED
  BY <1>8, <1>9 DEF IInv

\* Delete: the Puts of the block that are under way will not be acknowledged.
LEMMA DeleteStep ==
  ASSUME IInv, NEW c \in Caller, NEW o \in Block, Delete(c, o)
  PROVE  IInv'
<1>1. PICK l, ops : /\ l = F!Restrict(link, DOMAIN link \ {o})
                    /\ ops = [OpsOnDelete(o) EXCEPT ![c] = NoOp]
                    /\ FileSystem(l, data, ops, torn)
  BY DEF Delete
<1>2. link' = l /\ op' = ops /\ acked' = acked \ {o} /\ ~ IsWriting(c)
  BY <1>1, FileSystemFacts DEF Delete, Free, IsWriting
<1>3. DOMAIN l = DOMAIN link \ {o} /\ \A x \in DOMAIN l : l[x] = link[x]
  BY <1>1 DEF F!Restrict
<1>4. /\ ops = [d \in Caller |-> ops[d]]
      /\ \A d \in Caller : ops[d] = IF d = c THEN NoOp ELSE OpsOnDelete(o)[d]
  <2>1. PICK f : f = OpsOnDelete(o)
    OBVIOUS
  <2>2. f = [d \in Caller |-> f[d]]
    BY <2>1 DEF OpsOnDelete
  <2>3. ops = [f EXCEPT ![c] = NoOp]
    BY <1>1, <2>1
  <2> QED
    BY <2>1, <2>2, <2>3
<1>5. ASSUME NEW d \in Caller
      PROVE  /\ Calm(d)
             /\ IsWriting(d) => IsWriting(d)'
             /\ IsWriting(d)' /\ op'[d].kept =>
                  IsWriting(d) /\ op[d].kept /\ op'[d].oid = op[d].oid /\ op[d].oid # o
  <2>1. Shape(op[d])
    BY DEF IInv, OpsInv
  <2>2. CASE d = c
    BY <1>2, <1>4, <2>2, OtherFacts DEF Calm, IsWriting
  <2>3. CASE d # c /\ op[d].kind = "write" /\ op[d].oid = o
    <3>1. op'[d] = [op[d] EXCEPT !.kept = FALSE]
      BY <1>2, <1>4, <2>3 DEF OpsOnDelete, IsListing
    <3>2. op'[d] = Writing(op[d].oid, op[d].file, op[d].next, FALSE)
      BY <2>1, <2>3, <3>1, ExceptFacts
    <3>3. op'[d].kind = "write" /\ op'[d].kept = FALSE
      BY <3>2 DEF Writing
    <3> QED
      BY <2>3, <3>2, <3>3 DEF Calm, IsWriting
  <2>4. CASE d # c /\ op[d].kind = "list"
    <3>1. op'[d] = [op[d] EXCEPT !.always = @ \ {o}]
      BY <1>2, <1>4, <2>4 DEF OpsOnDelete, IsListing
    <3>2. op'[d] = Listing(op[d].todo, op[d].list, op[d].always \ {o}, op[d].ever)
      BY <2>1, <2>4, <3>1, ExceptFacts
    <3>3. Shape(op'[d]) /\ op'[d].kind = "list"
      BY <3>2, ListingFacts
    <3> QED
      BY <2>4, <3>3 DEF Calm, IsWriting
  <2>5. CASE d # c /\ ~ (op[d].kind = "write" /\ op[d].oid = o) /\ op[d].kind # "list"
    <3>1. op'[d] = op[d]
      BY <1>2, <1>4, <2>5 DEF OpsOnDelete, IsListing
    <3> QED
      BY <2>5, <3>1 DEF Calm, IsWriting
  <2> QED
    BY <2>2, <2>3, <2>4, <2>5
<1>6. OpsInv' /\ KnownInv' /\ FilesInv' /\ ReadInv'
  BY <1>1, <1>3, <1>4, <1>5, CalmFileSystem DEF IInv
<1>7. AckInv'
  BY <1>2, <1>3, <1>5 DEF IInv, AckInv
<1> QED
  BY <1>6, <1>7 DEF IInv

\* WriteAt keeps what is there and puts piece n in its place.
LEMMA WriteAtFacts ==
  ASSUME NEW f, Right(f), NEW n \in 1 .. Pieces
  PROVE  /\ Right(WriteAt(f, n))
         /\ n <= Len(WriteAt(f, n)) /\ WriteAt(f, n)[n] = n
         /\ \A k \in 1 .. Len(f) : f[k] = k => k <= Len(WriteAt(f, n)) /\ WriteAt(f, n)[k] = k
         /\ f = Whole => WriteAt(f, n) = Whole
<1>1. Pieces \in Nat \ {0} /\ n \in Nat /\ f \in Seq(Nat) /\ Len(f) \in Nat /\ Len(f) <= Pieces
  BY PiecesAssumption DEF Right
<1>2. PICK m \in 1 .. Pieces : m = IF n > Len(f) THEN n ELSE Len(f)
  BY <1>1
<1>3. PICK g : g = WriteAt(f, n)
  OBVIOUS
<1>4. g = [k \in 1 .. m |-> IF k = n THEN n ELSE IF k <= Len(f) THEN f[k] ELSE 0]
  BY <1>2, <1>3 DEF WriteAt
<1>5. \A k \in 1 .. Len(f) : f[k] \in Nat
  BY <1>1
<1>6. \A k \in 1 .. m : (IF k = n THEN n ELSE IF k <= Len(f) THEN f[k] ELSE 0) \in Nat
  BY <1>1, <1>2, <1>5
<1>7. g \in Seq(Nat) /\ Len(g) = m
  BY <1>1, <1>2, <1>4, <1>6
<1>8. \A k \in 1 .. m : g[k] = 0 \/ g[k] = k
  BY <1>1, <1>2, <1>4 DEF Right
<1>9. Right(g)
  BY <1>2, <1>7, <1>8 DEF Right
<1>10. n <= Len(g) /\ g[n] = n
  BY <1>1, <1>2, <1>4, <1>7
<1>11. ASSUME NEW k \in 1 .. Len(f), f[k] = k
       PROVE  k <= Len(g) /\ g[k] = k
  BY <1>1, <1>2, <1>4, <1>7, <1>11
<1>12. ASSUME f = Whole
       PROVE  g = Whole
  <2>1. Len(f) = Pieces /\ \A k \in 1 .. Pieces : f[k] = k
    BY <1>1, <1>12 DEF Whole
  <2>2. m = Pieces /\ \A k \in 1 .. Pieces : g[k] = k
    BY <1>1, <1>2, <1>4, <2>1
  <2> QED
    BY <1>4, <2>2 DEF Whole
<1> QED
  BY <1>3, <1>9, <1>10, <1>11, <1>12

\* A step of one reader.
LEMMA ReaderStep ==
  ASSUME IInv, NEW c \in Caller, ~ IsWriting(c),
         NEW r, Shape(r), r.kind \in {"read", "got"},
         op' = [op EXCEPT ![c] = r], link' = link, acked' = acked,
         \A i \in DOMAIN data' : i \in DOMAIN data /\ data'[i] = data[i],
         \A i \in DOMAIN data' : i \in torn => i \in torn',
         \A o \in DOMAIN link : link[o] \in DOMAIN data',
         \A d \in Caller \ {c} : Uses(d) => op[d].file \in DOMAIN data',
         r.kind = "read" => r.file \in DOMAIN data',
         r.kind = "read" /\ r.clean =>
           /\ data[r.file] = Whole
           /\ \E n \in 0 .. Pieces : r.got = [k \in 1 .. n |-> k],
         r.kind = "got" /\ r.clean => r.got = Whole
  PROVE  IInv'
<1>1. /\ op' = [d \in Caller |-> op'[d]]
      /\ op'[c] = r
      /\ \A d \in Caller \ {c} : op'[d] = op[d]
  BY DEF IInv, OpsInv
<1>2. /\ ~ IsWriting(c)'
      /\ \A d \in Caller \ {c} :
           /\ IsWriting(d)' <=> IsWriting(d)
           /\ IsReading(d)' <=> IsReading(d)
           /\ Uses(d)' <=> Uses(d)
  BY <1>1 DEF IsWriting, IsReading, Uses
<1>3. OpsInv'
  BY <1>1 DEF IInv, OpsInv
<1>4. KnownInv'
  <2>1. ASSUME NEW d \in Caller, Uses(d)'
        PROVE  op'[d].file \in DOMAIN data'
    <3>1. CASE d = c
      BY <1>1, <1>2, <2>1, <3>1 DEF Uses, IsReading
    <3>2. CASE d # c
      BY <1>1, <1>2, <2>1, <3>2
    <3> QED
      BY <3>1, <3>2
  <2> QED
    BY <2>1 DEF KnownInv
<1>5. FilesInv'
  <2>1. \A i \in DOMAIN data' : Right(data'[i])
    BY DEF IInv, FilesInv
  <2>2. ASSUME NEW i \in DOMAIN data', i \notin torn', data'[i] # Whole
        PROVE  \E d \in Caller : IsWriting(d)' /\ op'[d].file = i /\ Progress(d, data[i])'
    <3>1. PICK d \in Caller : IsWriting(d) /\ op[d].file = i /\ Progress(d, data[i])
      BY <2>2 DEF IInv, FilesInv
    <3>2. IsWriting(d)' /\ op'[d] = op[d] /\ data'[i] = data[i]
      BY <1>1, <1>2, <3>1
    <3> QED
      BY <3>1, <3>2 DEF Progress
  <2> QED
    BY <2>1, <2>2 DEF FilesInv, Right
<1>6. ReadInv'
  <2> SUFFICES ASSUME NEW d \in Caller
               PROVE  /\ IsReading(d)' /\ op'[d].clean =>
                           /\ data'[op'[d].file] = Whole
                           /\ \E n \in 0 .. Pieces : op'[d].got = [k \in 1 .. n |-> k]
                      /\ op'[d].kind = "got" /\ op'[d].clean => op'[d].got = Whole
    BY DEF ReadInv, Whole
  <2>1. CASE d = c
    BY <1>1, <2>1 DEF IsReading
  <2>2. CASE d # c
    <3>1. op'[d] = op[d] /\ (IsReading(d)' <=> IsReading(d))
      BY <1>1, <1>2, <2>2
    <3>2. IsReading(d) => data'[op[d].file] = data[op[d].file]
      BY <2>2 DEF Uses
    <3>3. ASSUME IsReading(d)', op'[d].clean
          PROVE  /\ data'[op'[d].file] = Whole
                 /\ \E n \in 0 .. Pieces : op'[d].got = [k \in 1 .. n |-> k]
      <4>1. IsReading(d) /\ op[d].clean
        BY <3>1, <3>3
      <4> QED
        BY <3>1, <3>2, <4>1 DEF IInv, ReadInv
    <3>4. op'[d].kind = "got" /\ op'[d].clean => op'[d].got = Whole
      BY <3>1 DEF IInv, ReadInv
    <3> QED
      BY <3>3, <3>4
  <2> QED
    BY <2>1, <2>2
<1>7. AckInv'
  BY <1>1, <1>2 DEF IInv, AckInv
<1> QED
  BY <1>3, <1>4, <1>5, <1>6, <1>7 DEF IInv

\* Get opens a file: when no one writes it and no Put of it was cut short, it is whole.
LEMMA GetOpenStep ==
  ASSUME IInv, NEW c \in Caller, NEW o \in Block, GetOpen(c, o)
  PROVE  IInv'
<1>1. PICK i, b : /\ i = link[o] /\ b \in BOOLEAN
                  /\ b = (Writers(link[o]) = {} /\ link[o] \notin torn)
  OBVIOUS
<1>2. b => Writers(i) = {} /\ i \notin torn
  BY <1>1
<1>3. PICK r : r = Reading(o, i, <<>>, b)
  OBVIOUS
<1>4. /\ ~ IsWriting(c) /\ o \in DOMAIN link
      /\ UNCHANGED <<link, data, torn, acked>>
  BY DEF GetOpen, Free, Has, IsWriting
<1>5. op' = [op EXCEPT ![c] = r]
  BY <1>1, <1>3, Zenon DEF GetOpen
<1>6. /\ Shape(r) /\ r.kind = "read" /\ r.file = i /\ r.got = <<>> /\ r.clean = b
  BY <1>1, <1>3 DEF Reading, Shape
<1>7. i \in DOMAIN data
  BY <1>1, <1>4 DEF IInv, KnownInv
<1>8. ASSUME r.clean
      PROVE  data[i] = Whole
  <2>1. Writers(i) = {} /\ i \notin torn
    BY <1>2, <1>6, <1>8
  <2>2. \A d \in Caller : ~ (IsWriting(d) /\ op[d].file = i)
    BY <2>1 DEF Writers
  <2> QED
    BY <1>7, <2>1, <2>2 DEF IInv, FilesInv
<1>9. r.got = [k \in 1 .. 0 |-> k] /\ 0 \in 0 .. Pieces
  BY <1>6, PiecesAssumption
<1>10. \A d \in Caller : Uses(d) => op[d].file \in DOMAIN data
  BY DEF IInv, KnownInv
<1>11. \A x \in DOMAIN link : link[x] \in DOMAIN data
  BY DEF IInv, KnownInv
<1> QED
  BY <1>4, <1>5, <1>6, <1>7, <1>8, <1>9, <1>10, <1>11, ReaderStep

\* Get reads the next piece, or returns what it read.
LEMMA GetReadStep ==
  ASSUME IInv, NEW c \in Caller, GetRead(c)
  PROVE  IInv'
<1>1. PICK n, f, r, ops :
        /\ n = Len(op[c].got) + 1 /\ f = data[op[c].file]
        /\ r = IF n <= Len(f) THEN [op[c] EXCEPT !.got = Append(op[c].got, f[n])]
               ELSE Got(op[c].oid, op[c].got, op[c].clean)
        /\ ops = [op EXCEPT ![c] = r]
        /\ FileSystem(link, data, ops, torn)
  <2>1. PICK n, f : n = Len(op[c].got) + 1 /\ f = data[op[c].file]
    OBVIOUS
  <2>2. PICK r : r = IF n <= Len(f) THEN [op[c] EXCEPT !.got = Append(op[c].got, f[n])]
                     ELSE Got(op[c].oid, op[c].got, op[c].clean)
    OBVIOUS
  <2>3. PICK ops : ops = [op EXCEPT ![c] = r]
    OBVIOUS
  <2>4. FileSystem(link, data, ops, torn)
    <3>1. FileSystem(link, data,
            [op EXCEPT ![c] =
               IF Len(op[c].got) + 1 <= Len(data[op[c].file])
               THEN [op[c] EXCEPT !.got = Append(op[c].got, data[op[c].file][Len(op[c].got) + 1])]
               ELSE Got(op[c].oid, op[c].got, op[c].clean)],
            torn)
      BY DEF GetRead
    <3>2. FileSystem(link, data,
            [op EXCEPT ![c] =
               IF n <= Len(f) THEN [op[c] EXCEPT !.got = Append(op[c].got, f[n])]
               ELSE Got(op[c].oid, op[c].got, op[c].clean)],
            torn)
      BY <2>1, <3>1
    <3> QED
      BY <2>2, <2>3, <3>2
  <2> QED
    BY <2>1, <2>2, <2>3, <2>4, Zenon
<1>2. IsReading(c) /\ ~ IsWriting(c) /\ acked' = acked
  BY DEF GetRead, IsReading, IsWriting
<1>3. /\ link' = link /\ op' = ops
      /\ \A i : i \in DOMAIN data' <=>
           \/ \E o \in DOMAIN link : i = link[o]
           \/ \E d \in Caller : ops[d].kind \in {"write", "read"} /\ i = ops[d].file
      /\ \A i \in DOMAIN data' : data'[i] = data[i]
      /\ torn' = torn \cap DOMAIN data'
  <2>1. FileSystem(link, data, ops, torn)
    BY <1>1
  <2> QED
    BY <2>1, FileSystemFacts
<1>4. ops[c] = r /\ \A d \in Caller \ {c} : ops[d] = op[d]
  BY <1>1 DEF IInv, OpsInv
<1>5. /\ op[c].kind = "read" /\ Shape(op[c])
      /\ op[c] = Reading(op[c].oid, op[c].file, op[c].got, op[c].clean)
      /\ op[c].clean \in BOOLEAN
  BY <1>2 DEF IInv, OpsInv, Shape, IsReading
<1>6. CASE n <= Len(f)
  <2>1. r = Reading(op[c].oid, op[c].file, Append(op[c].got, f[n]), op[c].clean)
    BY <1>1, <1>5, <1>6, ExceptFacts
  <2>2. /\ Shape(r) /\ r.kind = "read" /\ r.file = op[c].file
        /\ r.got = Append(op[c].got, f[n])
        /\ r.clean = op[c].clean
    BY <1>5, <2>1 DEF Reading, Shape
  <2>3. ASSUME r.clean
        PROVE  /\ data[r.file] = Whole
               /\ \E m \in 0 .. Pieces : r.got = [k \in 1 .. m |-> k]
    <3>1. f = Whole
      BY <1>1, <1>2, <2>2, <2>3 DEF IInv, ReadInv
    <3>2. PICK m \in 0 .. Pieces : op[c].got = [k \in 1 .. m |-> k]
      BY <1>2, <2>2, <2>3 DEF IInv, ReadInv
    <3>3. n = m + 1 /\ m + 1 \in 1 .. Pieces /\ f[n] = m + 1
      BY <1>1, <1>6, <3>1, <3>2, PiecesAssumption DEF Whole
    <3>4. Append(op[c].got, m + 1) = [k \in 1 .. m + 1 |-> k]
      BY <3>2, PiecesAssumption
    <3>5. data[r.file] = Whole
      BY <1>1, <2>2, <3>1
    <3>6. PICK m1 \in 0 .. Pieces : m1 = m + 1
      BY <3>3
    <3>7. r.got = [k \in 1 .. m1 |-> k]
      BY <2>2, <3>3, <3>4, <3>6
    <3> QED
      BY <3>5, <3>7
  <2>4. \A d \in Caller : ops[d].kind = op[d].kind /\ (Uses(d) => ops[d].file = op[d].file)
    BY <1>4, <1>5, <2>2
  <2>5. \A i \in DOMAIN data' : i \in DOMAIN data
    <3>1. \A d \in Caller : ops[d].kind \in {"write", "read"} =>
            Uses(d) /\ ops[d].file = op[d].file
      BY <2>4 DEF Uses, IsWriting, IsReading
    <3> QED
      BY <1>3, <3>1 DEF IInv, KnownInv
  <2>6. \A d \in Caller : Uses(d) => op[d].file \in DOMAIN data'
    BY <1>3, <2>4 DEF Uses, IsWriting, IsReading
  <2>7. r.file \in DOMAIN data'
    BY <1>2, <2>2, <2>6 DEF Uses
  <2>8. \A o \in DOMAIN link : link[o] \in DOMAIN data'
    BY <1>3
  <2> QED
    BY <1>1, <1>2, <1>3, <2>2, <2>3, <2>5, <2>6, <2>7, <2>8, ReaderStep
<1>7. CASE ~ (n <= Len(f))
  <2>1. r = Got(op[c].oid, op[c].got, op[c].clean)
    BY <1>1, <1>7
  <2>2. Shape(r) /\ r.kind = "got" /\ r.got = op[c].got /\ r.clean = op[c].clean
    BY <1>5, <2>1 DEF Got, Shape
  <2>3. ASSUME r.clean
        PROVE  r.got = Whole
    <3>1. f = Whole
      BY <1>1, <1>2, <2>2, <2>3 DEF IInv, ReadInv
    <3>2. PICK m \in 0 .. Pieces : op[c].got = [k \in 1 .. m |-> k]
      BY <1>2, <2>2, <2>3 DEF IInv, ReadInv
    <3>3. m = Pieces
      BY <1>1, <1>7, <3>1, <3>2, PiecesAssumption DEF Whole
    <3> QED
      BY <2>2, <3>2, <3>3 DEF Whole
  <2>4. \A d \in Caller \ {c} : Uses(d) => op[d].file \in DOMAIN data'
    BY <1>3, <1>4 DEF Uses, IsWriting, IsReading
  <2>5. \A i \in DOMAIN data' : i \in DOMAIN data
    <3>1. \A d \in Caller : ops[d].kind \in {"write", "read"} =>
            Uses(d) /\ ops[d].file = op[d].file
      BY <1>4, <2>2 DEF Uses, IsWriting, IsReading
    <3> QED
      BY <1>3, <3>1 DEF IInv, KnownInv
  <2>6. \A o \in DOMAIN link : link[o] \in DOMAIN data'
    BY <1>3
  <2> QED
    BY <1>1, <1>2, <1>3, <2>2, <2>3, <2>4, <2>5, <2>6, ReaderStep
<1> QED
  BY <1>6, <1>7

\* A piece that is written makes no whole file less than whole.
LEMMA PutWriteStep ==
  ASSUME IInv, NEW c \in Caller, PutWrite(c)
  PROVE  IInv'
<1>1. PICK i, n : i = op[c].file /\ n = op[c].next
  OBVIOUS
<1>2. /\ IsWriting(c) /\ n <= Pieces
      /\ data' = [data EXCEPT ![i] = WriteAt(data[i], n)]
      /\ op' = [op EXCEPT ![c] = [op[c] EXCEPT !.next = n + 1]]
      /\ UNCHANGED <<link, torn, acked>>
  BY <1>1 DEF PutWrite
<1>3. /\ op[c].kind = "write" /\ Shape(op[c]) /\ n \in 1 .. Pieces + 1
      /\ op[c] = Writing(op[c].oid, op[c].file, op[c].next, op[c].kept)
      /\ op[c].kept \in BOOLEAN
  BY <1>1, <1>2 DEF IInv, OpsInv, Shape, IsWriting
<1>4. Pieces \in Nat \ {0} /\ n \in 1 .. Pieces /\ n + 1 \in 1 .. Pieces + 1
  BY <1>2, <1>3, PiecesAssumption
<1>5. PICK r : r = [op[c] EXCEPT !.next = n + 1]
  OBVIOUS
<1>6. r = Writing(op[c].oid, i, n + 1, op[c].kept)
  BY <1>1, <1>3, <1>5, ExceptFacts
<1>7. /\ Shape(r) /\ r.kind = "write" /\ r.oid = op[c].oid /\ r.file = i
      /\ r.next = n + 1 /\ r.kept = op[c].kept
  BY <1>3, <1>4, <1>6 DEF Writing, Shape
<1>8. /\ op' = [d \in Caller |-> op'[d]]
      /\ op'[c] = r
      /\ \A d \in Caller \ {c} : op'[d] = op[d]
  BY <1>2, <1>5 DEF IInv, OpsInv
<1>9. \A d \in Caller :
        /\ IsWriting(d)' <=> IsWriting(d)
        /\ IsReading(d)' <=> IsReading(d)
        /\ Uses(d)' <=> Uses(d)
        /\ Uses(d) => op'[d].file = op[d].file
  BY <1>1, <1>3, <1>7, <1>8 DEF IsWriting, IsReading, Uses
<1>10. i \in DOMAIN data /\ Right(data[i])
  BY <1>1, <1>2 DEF IInv, KnownInv, FilesInv, Uses
<1>11. PICK f, g : f = data[i] /\ g = WriteAt(f, n)
  OBVIOUS
<1>12. /\ Right(g) /\ n <= Len(g) /\ g[n] = n
       /\ \A k \in 1 .. Len(f) : f[k] = k => k <= Len(g) /\ g[k] = k
       /\ f = Whole => g = Whole
  BY <1>4, <1>10, <1>11, WriteAtFacts
<1>13. /\ DOMAIN data' = DOMAIN data /\ data'[i] = g
       /\ \A j \in DOMAIN data \ {i} : data'[j] = data[j]
  BY <1>2, <1>10, <1>11
<1>14. OpsInv'
  BY <1>7, <1>8 DEF IInv, OpsInv
<1>15. KnownInv'
  BY <1>2, <1>9, <1>13 DEF IInv, KnownInv
<1>16. FilesInv'
  <2>1. \A j \in DOMAIN data' : Right(data'[j])
    BY <1>12, <1>13 DEF IInv, FilesInv
  <2>2. ASSUME NEW j \in DOMAIN data', j \notin torn', data'[j] # Whole
        PROVE  \E d \in Caller : IsWriting(d)' /\ op'[d].file = j /\ Progress(d, data[j])'
    <3>1. data[j] # Whole
      BY <1>11, <1>12, <1>13, <2>2
    <3>2. PICK d \in Caller : IsWriting(d) /\ op[d].file = j /\ Progress(d, data[j])
      BY <1>2, <1>13, <2>2, <3>1 DEF IInv, FilesInv
    <3>3. op[d].next \in 1 .. Pieces + 1
      BY <3>2 DEF IInv, OpsInv, Shape, IsWriting
    <3>4. \A k \in 1 .. op[d].next - 1 : k <= Len(data'[j]) /\ data'[j][k] = k
      <4>1. CASE j = i
        <5>1. Len(f) \in Nat /\ data'[j] = g
          BY <1>10, <1>11, <1>13, <4>1 DEF Right
        <5> SUFFICES ASSUME NEW k \in 1 .. op[d].next - 1
                     PROVE  k <= Len(g) /\ g[k] = k
          BY <5>1
        <5>2. k <= Len(f) /\ f[k] = k
          BY <1>11, <3>2, <4>1 DEF Progress
        <5>3. k \in 1 .. Len(f)
          BY <1>4, <3>3, <5>1, <5>2
        <5> QED
          BY <1>12, <5>2, <5>3
      <4>2. CASE j # i
        BY <1>13, <2>2, <3>2, <4>2 DEF Progress
      <4> QED
        BY <4>1, <4>2
    <3>5. \A k \in 1 .. op'[d].next - 1 : k <= Len(data'[j]) /\ data'[j][k] = k
      <4>1. CASE d = c
        <5>1. j = i /\ op'[d].next = n + 1 /\ op[d].next = n
          BY <1>1, <1>7, <1>8, <3>2, <4>1
        <5>2. n <= Len(data'[j]) /\ data'[j][n] = n
          BY <1>12, <1>13, <5>1
        <5> QED
          BY <1>4, <3>4, <5>1, <5>2
      <4>2. CASE d # c
        BY <1>8, <3>4, <4>2
      <4> QED
        BY <4>1, <4>2
    <3> QED
      BY <1>9, <3>2, <3>5 DEF Progress, Uses
  <2> QED
    BY <2>1, <2>2 DEF FilesInv, Right
<1>17. ReadInv'
  <2> SUFFICES ASSUME NEW d \in Caller
               PROVE  /\ IsReading(d)' /\ op'[d].clean =>
                           /\ data'[op'[d].file] = Whole
                           /\ \E m \in 0 .. Pieces : op'[d].got = [k \in 1 .. m |-> k]
                      /\ op'[d].kind = "got" /\ op'[d].clean => op'[d].got = Whole
    BY DEF ReadInv, Whole
  <2>1. ASSUME IsReading(d)', op'[d].clean
        PROVE  /\ data'[op'[d].file] = Whole
               /\ \E m \in 0 .. Pieces : op'[d].got = [k \in 1 .. m |-> k]
    <3>1. d # c /\ IsReading(d) /\ op'[d] = op[d]
      BY <1>7, <1>8, <2>1 DEF IsReading
    <3>2. op[d].clean
      BY <2>1, <3>1
    <3>3. data[op[d].file] = Whole /\ \E m \in 0 .. Pieces : op[d].got = [k \in 1 .. m |-> k]
      BY <3>1, <3>2 DEF IInv, ReadInv
    <3>4. op[d].file \in DOMAIN data
      BY <3>1 DEF IInv, KnownInv, Uses
    <3> QED
      BY <1>11, <1>12, <1>13, <3>1, <3>3, <3>4
  <2>2. ASSUME op'[d].kind = "got", op'[d].clean
        PROVE  op'[d].got = Whole
    <3>1. d # c /\ op'[d] = op[d]
      BY <1>7, <1>8, <2>2
    <3> QED
      BY <2>2, <3>1 DEF IInv, ReadInv
  <2> QED
    BY <2>1, <2>2
<1>18. AckInv'
  <2>1. ASSUME NEW d \in Caller, IsWriting(d)', op'[d].kept
        PROVE  op'[d].oid \in DOMAIN link'
    <3>1. IsWriting(d) /\ op'[d].oid = op[d].oid /\ (op'[d].kept => op[d].kept)
      BY <1>7, <1>8, <1>9, <2>1
    <3> QED
      BY <1>2, <2>1, <3>1 DEF IInv, AckInv
  <2> QED
    BY <1>2, <2>1 DEF IInv, AckInv
<1> QED
  BY <1>14, <1>15, <1>16, <1>17, <1>18 DEF IInv

\* Put opens a file: it is empty, and its readers are disturbed.
LEMMA PutOpenStep ==
  ASSUME IInv, NEW c \in Caller, PutOpen(c)
  PROVE  IInv'
<1>1. PICK o : o = op[c].oid
  OBVIOUS
<1>2. PICK i, l, f, ops :
        /\ l = [x \in DOMAIN link \cup {o} |-> IF x = o THEN i ELSE link[x]]
        /\ f = [j \in DOMAIN data \cup {i} |-> IF j = i THEN <<>> ELSE data[j]]
        /\ ops = [OpsOnOpen(o, i) EXCEPT ![c] = Writing(o, i, 1, TRUE)]
        /\ FileSystem(l, f, ops, torn)
  BY <1>1 DEF PutOpen
<1>3. op[c].kind = "open" /\ ~ IsWriting(c) /\ ~ IsReading(c) /\ acked' = acked
  BY DEF PutOpen, IsWriting, IsReading
<1>4. FileSystem(l, f, ops, torn)
  BY <1>2
<1>5. /\ link' = l /\ op' = ops
      /\ \A j : j \in DOMAIN data' <=>
           \/ \E x \in DOMAIN l : j = l[x]
           \/ \E d \in Caller : ops[d].kind \in {"write", "read"} /\ j = ops[d].file
      /\ \A j \in DOMAIN data' : data'[j] = f[j]
      /\ torn' = torn \cap DOMAIN data'
  BY <1>4, FileSystemFacts
<1>6. /\ op' = [d \in Caller |-> op'[d]]
      /\ op'[c] = Writing(o, i, 1, TRUE)
      /\ \A d \in Caller \ {c} : op'[d] = OpsOnOpen(o, i)[d]
  <2>1. PICK g : g = OpsOnOpen(o, i)
    OBVIOUS
  <2>2. g = [d \in Caller |-> g[d]]
    BY <2>1 DEF OpsOnOpen
  <2>3. ops = [g EXCEPT ![c] = Writing(o, i, 1, TRUE)]
    BY <1>2, <2>1
  <2> QED
    BY <1>5, <2>1, <2>2, <2>3
<1>7. PICK r : r = op'[c]
  OBVIOUS
<1>8. /\ Shape(r) /\ r.kind = "write" /\ r.oid = o /\ r.file = i /\ r.next = 1
  BY <1>6, <1>7, PiecesAssumption DEF Writing, Shape
<1>9. ASSUME NEW d \in Caller \ {c}
      PROVE  /\ Calm(d)
             /\ IsWriting(d) => op'[d] = op[d]
             /\ IsReading(d) /\ op[d].file = i => ~ op'[d].clean
  <2>1. Shape(op[d])
    BY DEF IInv, OpsInv
  <2>2. CASE op[d].kind = "read" /\ op[d].file = i
    <3>1. op'[d] = [op[d] EXCEPT !.clean = FALSE]
      BY <1>6, <2>2 DEF OpsOnOpen, IsReading, IsListing
    <3>2. op'[d] = Reading(op[d].oid, op[d].file, op[d].got, FALSE)
      BY <2>1, <2>2, <3>1, ExceptFacts
    <3>3. op'[d].clean = FALSE
      BY <3>2 DEF Reading
    <3> QED
      BY <2>2, <3>2, <3>3 DEF Calm, IsWriting, IsReading
  <2>3. CASE op[d].kind = "list"
    <3>1. op'[d] = [op[d] EXCEPT !.ever = @ \cup {o}]
      BY <1>6, <2>3 DEF OpsOnOpen, IsReading, IsListing
    <3>2. op'[d] = Listing(op[d].todo, op[d].list, op[d].always, op[d].ever \cup {o})
      BY <2>1, <2>3, <3>1, ExceptFacts
    <3>3. Shape(op'[d]) /\ op'[d].kind = "list"
      BY <3>2, ListingFacts
    <3> QED
      BY <2>3, <3>3 DEF Calm, IsWriting, IsReading
  <2>4. CASE ~ (op[d].kind = "read" /\ op[d].file = i) /\ op[d].kind # "list"
    <3>1. op'[d] = op[d]
      BY <1>6, <2>4 DEF OpsOnOpen, IsReading, IsListing
    <3> QED
      BY <2>4, <3>1 DEF Calm, IsWriting, IsReading
  <2> QED
    BY <2>2, <2>3, <2>4
<1>10. ASSUME NEW d \in Caller \ {c}
       PROVE  /\ Shape(op'[d])
              /\ IsWriting(d)' => IsWriting(d) /\ op'[d] = op[d]
              /\ IsReading(d)' =>
                   /\ IsReading(d)
                   /\ op'[d].file = op[d].file /\ op'[d].got = op[d].got
                   /\ op'[d].clean => op[d].clean /\ op[d].file # i
              /\ Uses(d)' => Uses(d) /\ op'[d].file = op[d].file
              /\ op'[d].kind = "got" => op'[d] = op[d]
  BY <1>9, CalmFacts DEF IInv, Uses
<1>11. ASSUME NEW j \in DOMAIN data', j # i
       PROVE  j \in DOMAIN data /\ data'[j] = data[j]
  <2>1. j \in DOMAIN data
    <3>1. CASE \E x \in DOMAIN l : j = l[x]
      <4>1. PICK x \in DOMAIN link \cup {o} : j = l[x]
        BY <1>2, <3>1
      <4>2. x \in DOMAIN link /\ j = link[x]
        BY <1>2, <1>11, <4>1
      <4> QED
        BY <4>2 DEF IInv, KnownInv
    <3>2. CASE \E d \in Caller : ops[d].kind \in {"write", "read"} /\ j = ops[d].file
      <4>1. PICK d \in Caller : op'[d].kind \in {"write", "read"} /\ j = op'[d].file
        BY <1>5, <3>2
      <4>2. d # c
        BY <1>7, <1>8, <1>11, <4>1
      <4>3. Uses(d)'
        BY <4>1 DEF Uses, IsWriting, IsReading
      <4> QED
        BY <1>10, <4>1, <4>2, <4>3 DEF IInv, KnownInv
    <3> QED
      BY <1>5, <3>1, <3>2
  <2> QED
    BY <1>2, <1>5, <1>11, <2>1
<1>12. i \in DOMAIN data' => data'[i] = <<>>
  BY <1>2, <1>5
<1>13. OpsInv'
  BY <1>6, <1>7, <1>8, <1>10 DEF OpsInv
<1>14. KnownInv'
  <2>1. \A x \in DOMAIN link' : link'[x] \in DOMAIN data'
    BY <1>5
  <2>2. \A d \in Caller : Uses(d)' => op'[d].kind \in {"write", "read"}
    BY DEF Uses, IsWriting, IsReading
  <2>3. \A d \in Caller : Uses(d)' => op'[d].file \in DOMAIN data'
    BY <1>5, <2>2
  <2> QED
    BY <2>1, <2>3 DEF KnownInv
<1>15. FilesInv'
  <2>1. \A j \in DOMAIN data' : Right(data'[j])
    <3>1. Right(<<>>)
      BY PiecesAssumption DEF Right
    <3> QED
      BY <1>11, <1>12, <3>1 DEF IInv, FilesInv
  <2>2. ASSUME NEW j \in DOMAIN data', j \notin torn', data'[j] # Whole
        PROVE  \E d \in Caller : IsWriting(d)' /\ op'[d].file = j /\ Progress(d, data[j])'
    <3>1. CASE j = i
      <4>1. IsWriting(c)' /\ op'[c].file = j /\ op'[c].next = 1
        BY <1>7, <1>8, <3>1 DEF IsWriting
      <4>2. Progress(c, data[j])'
        BY <4>1 DEF Progress
      <4> QED
        BY <4>1, <4>2
    <3>2. CASE j # i
      <4>1. j \in DOMAIN data /\ data'[j] = data[j] /\ j \notin torn
        BY <1>5, <1>11, <2>2, <3>2
      <4>2. PICK d \in Caller : IsWriting(d) /\ op[d].file = j /\ Progress(d, data[j])
        BY <2>2, <4>1 DEF IInv, FilesInv
      <4>3. d # c
        BY <1>3, <4>2
      <4>4. op'[d] = op[d] /\ IsWriting(d)'
        BY <1>9, <4>2, <4>3 DEF IsWriting
      <4> QED
        BY <4>1, <4>2, <4>4 DEF Progress
    <3> QED
      BY <3>1, <3>2
  <2> QED
    BY <2>1, <2>2 DEF FilesInv, Right
<1>16. ReadInv'
  <2> SUFFICES ASSUME NEW d \in Caller
               PROVE  /\ IsReading(d)' /\ op'[d].clean =>
                           /\ data'[op'[d].file] = Whole
                           /\ \E m \in 0 .. Pieces : op'[d].got = [k \in 1 .. m |-> k]
                      /\ op'[d].kind = "got" /\ op'[d].clean => op'[d].got = Whole
    BY DEF ReadInv, Whole
  <2>1. ASSUME IsReading(d)', op'[d].clean
        PROVE  /\ data'[op'[d].file] = Whole
               /\ \E m \in 0 .. Pieces : op'[d].got = [k \in 1 .. m |-> k]
    <3>1. d # c
      BY <1>7, <1>8, <2>1 DEF IsReading
    <3>2. /\ IsReading(d) /\ op[d].clean
          /\ op'[d].file = op[d].file /\ op'[d].got = op[d].got /\ op[d].file # i
      BY <1>10, <2>1, <3>1
    <3>3. op[d].file \in DOMAIN data'
      BY <1>14, <2>1, <3>2 DEF KnownInv, Uses
    <3>4. data'[op[d].file] = data[op[d].file]
      BY <1>11, <3>2, <3>3
    <3> QED
      BY <3>2, <3>4 DEF IInv, ReadInv
  <2>2. ASSUME op'[d].kind = "got", op'[d].clean
        PROVE  op'[d].got = Whole
    <3>1. d # c
      BY <1>7, <1>8, <2>2
    <3>2. op'[d] = op[d]
      BY <1>10, <2>2, <3>1
    <3> QED
      BY <2>2, <3>2 DEF IInv, ReadInv
  <2> QED
    BY <2>1, <2>2
<1>17. AckInv'
  <2>1. DOMAIN link' = DOMAIN link \cup {o}
    BY <1>2, <1>5
  <2>2. ASSUME NEW d \in Caller, IsWriting(d)', op'[d].kept
        PROVE  op'[d].oid \in DOMAIN link'
    <3>1. CASE d = c
      BY <1>7, <1>8, <2>1, <3>1
    <3>2. CASE d # c
      <4>1. IsWriting(d) /\ op'[d] = op[d]
        BY <1>10, <2>2, <3>2
      <4> QED
        BY <2>1, <2>2, <4>1 DEF IInv, AckInv
    <3> QED
      BY <3>1, <3>2
  <2> QED
    BY <1>3, <2>1, <2>2 DEF IInv, AckInv
<1> QED
  BY <1>13, <1>14, <1>15, <1>16, <1>17 DEF IInv

-----------------------------------------------------------------------------
(* What files hold *)

\* An empty store satisfies the invariant.
LEMMA InitInv == Init => IInv
<1> SUFFICES ASSUME Init
             PROVE  IInv
  OBVIOUS
<1>1. /\ op = [c \in Caller |-> NoOp]
      /\ DOMAIN link = {} /\ DOMAIN data = {} /\ acked = {}
  BY DEF Init
<1>2. \A c \in Caller : op[c] = NoOp
  BY <1>1
<1> QED
  BY <1>1, <1>2, OtherFacts
     DEF IInv, OpsInv, KnownInv, FilesInv, ReadInv, AckInv, IsWriting, IsReading, Uses

\* Every step preserves the inductive invariant.
LEMMA NextInv == IInv /\ [Next]_vars => IInv'
<1> SUFFICES ASSUME IInv, [Next]_vars
             PROVE  IInv'
  OBVIOUS
<1>1. ASSUME NEW c \in Caller, NEW o \in Block,
             PutEnsureDir(c, o) \/ GetOpen(c, o) \/ Delete(c, o)
      PROVE  IInv'
  BY <1>1, PutEnsureDirStep, GetOpenStep, DeleteStep
<1>2. ASSUME NEW c \in Caller,
             \/ PutOpen(c) \/ PutWrite(c) \/ PutReturn(c) \/ PutFails(c)
             \/ GetRead(c) \/ GetFails(c)
             \/ EnumerateBase(c) \/ EnumerateShard(c) \/ EnumerateFails(c)
      PROVE  IInv'
  BY <1>2, PutOpenStep, PutWriteStep, EndSteps, GetReadStep, EnumerateSteps
<1>3. CASE Kill
  BY <1>3, KillStep
<1>4. CASE UNCHANGED vars
  BY <1>4 DEF vars, IInv, OpsInv, KnownInv, FilesInv, ReadInv, AckInv, Uses,
              IsWriting, IsReading, Shape, Progress, Right, Whole
<1> QED
  BY <1>1, <1>2, <1>3, <1>4 DEF Next

\* The invariant holds in every state of Put, Get, Delete and Enumerate of any number of
\* goroutines (flatfs.go:59-182), with failures and kills at any step.
THEOREM Invariant == Spec => []IInv
<1> QED
  BY InitInv, NextInv, PTL DEF Spec

\* However many Puts of a block empty and write its file at the same time
\* (os.WriteFile, flatfs.go:167), a file that is not whole is being written, or a
\* Put of it was cut short.
THEOREM FilesAreWhole == Spec => []FilesWhole
<1>1. IInv => FilesWhole
  <2> SUFFICES ASSUME IInv, NEW o \in DOMAIN link, data[link[o]] # Whole, link[o] \notin torn
               PROVE  Writers(link[o]) # {}
    BY DEF FilesWhole
  <2>1. link[o] \in DOMAIN data
    BY DEF IInv, KnownInv
  <2> QED
    BY <2>1 DEF IInv, FilesInv, Writers
<1> QED
  BY <1>1, Invariant, PTL

\* A block whose Put returned no error is there until a Delete (flatfs.go:152-185).
THEOREM AcknowledgedStay == Spec => []AcknowledgedStays
<1>1. IInv => AcknowledgedStays
  BY DEF IInv, AckInv, AcknowledgedStays, Has
<1> QED
  BY <1>1, Invariant, PTL

\* Get (flatfs.go:108-125) returns a whole block unless a Put of it was in progress or
\* cut short when it opened the file, or emptied the file since.
THEOREM GetsAreWhole == Spec => []GetIsWhole
<1>1. IInv => GetIsWhole
  BY DEF IInv, ReadInv, GetIsWhole
<1> QED
  BY <1>1, Invariant, PTL

-----------------------------------------------------------------------------
(* Texts of OIDs *)

\* The w bits from bit i on, and the numbers that are made of bits b[0], b[1], ...
BitsFrom(seq, v, i, w) == [j \in 0 .. 7 |-> IF j < w THEN BitOf(seq, v, i + j) ELSE 0]
Character(b) == 16 * b[0] + 8 * b[1] + 4 * b[2] + 2 * b[3] + b[4]
Byte(b) ==
  128 * b[0] + 64 * b[1] + 32 * b[2] + 16 * b[3] + 8 * b[4] + 4 * b[5] + 2 * b[6] + b[7]

\* The leading parts of a byte: each is half of the one before.
LEMMA Halves ==
  ASSUME NEW x \in 0 .. 255
  PROVE  /\ x \div 2 \in Nat /\ x \div 4 = (x \div 2) \div 2
         /\ x \div 4 \in Nat /\ x \div 8 = (x \div 4) \div 2
         /\ x \div 8 \in Nat /\ x \div 16 = (x \div 8) \div 2
         /\ x \div 16 \in Nat /\ x \div 32 = (x \div 16) \div 2
         /\ x \div 32 \in Nat /\ x \div 64 = (x \div 32) \div 2
         /\ x \div 64 \in Nat /\ x \div 128 = (x \div 64) \div 2
         /\ x \div 128 \in {0, 1}
<1>1. x \div 2 \in Nat /\ x \div 4 = (x \div 2) \div 2
  OBVIOUS
<1>2. x \div 4 \in Nat /\ x \div 8 = (x \div 4) \div 2
  OBVIOUS
<1>3. x \div 8 \in Nat /\ x \div 16 = (x \div 8) \div 2
  OBVIOUS
<1>4. x \div 16 \in Nat /\ x \div 32 = (x \div 16) \div 2
  OBVIOUS
<1>5. x \div 32 \in Nat /\ x \div 64 = (x \div 32) \div 2
  OBVIOUS
<1>6. x \div 64 \in Nat /\ x \div 128 = (x \div 64) \div 2
  OBVIOUS
<1>7. x \div 128 \in {0, 1}
  OBVIOUS
<1> QED
  BY <1>1, <1>2, <1>3, <1>4, <1>5, <1>6, <1>7, Zenon

\* The bits of a byte and of a base32 character.
LEMMA BitsOfByte ==
  ASSUME NEW x \in 0 .. 255, NEW b,
         \A j \in 0 .. 7 : b[j] = (x \div Weight[8 - j]) % 2
  PROVE  /\ Byte(b) = x
         /\ \A j \in 0 .. 7 : b[j] \in {0, 1}
<1>1. \A y \in Nat : \A z : z = y \div 2 => y = 2 * z + (y % 2) /\ y % 2 \in Int
  OBVIOUS
<1>2. PICK a, h, c, d, e, f, g :
        /\ a = x \div 2 /\ h = x \div 4 /\ c = x \div 8 /\ d = x \div 16
        /\ e = x \div 32 /\ f = x \div 64 /\ g = x \div 128
  OBVIOUS
<1>3. /\ h = a \div 2 /\ c = h \div 2 /\ d = c \div 2
      /\ e = d \div 2 /\ f = e \div 2 /\ g = f \div 2
  BY <1>2, Halves, Zenon
<1>4. /\ x \in Nat /\ a \in Nat /\ h \in Nat /\ c \in Nat /\ d \in Nat
      /\ e \in Nat /\ f \in Nat /\ g \in {0, 1}
  <2>1. x \in Nat
    OBVIOUS
  <2> QED
    BY <1>2, <2>1, Halves, Zenon
<1>5. /\ x = 2 * a + (x % 2) /\ a = 2 * h + (a % 2) /\ h = 2 * c + (h % 2)
      /\ c = 2 * d + (c % 2) /\ d = 2 * e + (d % 2) /\ e = 2 * f + (e % 2)
      /\ f = 2 * g + (f % 2) /\ g = g % 2
  <2>1. \A y \in {0, 1} : y = y % 2
    OBVIOUS
  <2>2. x = 2 * a + (x % 2) /\ a = 2 * h + (a % 2)
    <3>1. x = 2 * a + (x % 2)
      BY <1>1, <1>2, <1>4, Zenon
    <3>2. a = 2 * h + (a % 2)
      BY <1>1, <1>3, <1>4, Zenon
    <3> QED
      BY <3>1, <3>2
  <2>3. h = 2 * c + (h % 2) /\ c = 2 * d + (c % 2)
    BY <1>1, <1>3, <1>4, Zenon
  <2>4. d = 2 * e + (d % 2) /\ e = 2 * f + (e % 2)
    BY <1>1, <1>3, <1>4, Zenon
  <2>5. f = 2 * g + (f % 2) /\ g = g % 2
    BY <1>1, <1>3, <1>4, <2>1, Zenon
  <2> QED
    BY <2>2, <2>3, <2>4, <2>5, Zenon
<1>6. /\ a % 2 \in Int /\ h % 2 \in Int /\ c % 2 \in Int /\ d % 2 \in Int
      /\ e % 2 \in Int /\ f % 2 \in Int /\ x % 2 \in Int
  BY <1>1, <1>2, <1>3, <1>4, Zenon
<1>7. x = 128 * (g % 2) + 64 * (f % 2) + 32 * (e % 2) + 16 * (d % 2) + 8 * (c % 2)
            + 4 * (h % 2) + 2 * (a % 2) + (x % 2)
  BY <1>4, <1>5, <1>6
<1>8. /\ b[0] = (x \div 128) % 2 /\ b[1] = (x \div 64) % 2 /\ b[2] = (x \div 32) % 2
      /\ b[3] = (x \div 16) % 2 /\ b[4] = (x \div 8) % 2 /\ b[5] = (x \div 4) % 2
      /\ b[6] = (x \div 2) % 2 /\ b[7] = (x \div 1) % 2
  BY DEF Weight
<1>9. (x \div 1) % 2 = x % 2
  OBVIOUS
<1>10. /\ b[0] = g % 2 /\ b[1] = f % 2 /\ b[2] = e % 2 /\ b[3] = d % 2
       /\ b[4] = c % 2 /\ b[5] = h % 2 /\ b[6] = a % 2 /\ b[7] = x % 2
  BY <1>2, <1>8, <1>9, Zenon
<1>11. Byte(b) = x
  BY <1>7, <1>10, Zenon DEF Byte
<1>12. \A y \in Nat : y % 2 \in {0, 1}
  OBVIOUS
<1>13. \A j \in 0 .. 7 : b[j] \in {0, 1}
  BY <1>4, <1>10, <1>12
<1> QED
  BY <1>11, <1>13

\* The bits of a base32 character.
LEMMA BitsOfCharacter ==
  ASSUME NEW b \in [0 .. 7 -> {0, 1}], NEW x, x = Character(b)
  PROVE  x \in 0 .. 31 /\ \A j \in 0 .. 4 : (x \div Weight[5 - j]) % 2 = b[j]
<1>1. PICK p, q, r, s, t : p = b[0] /\ q = b[1] /\ r = b[2] /\ s = b[3] /\ t = b[4]
  OBVIOUS
<1>2. p \in {0, 1} /\ q \in {0, 1} /\ r \in {0, 1} /\ s \in {0, 1} /\ t \in {0, 1}
  BY <1>1
<1>3. x = 16 * p + 8 * q + 4 * r + 2 * s + t
  BY <1>1 DEF Character
<1>4. /\ x \in 0 .. 31
      /\ (x \div 16) % 2 = p /\ (x \div 8) % 2 = q /\ (x \div 4) % 2 = r
      /\ (x \div 2) % 2 = s /\ (x \div 1) % 2 = t
  BY <1>2, <1>3
<1>5. ASSUME NEW j \in 0 .. 4
      PROVE  (x \div Weight[5 - j]) % 2 = b[j]
  <2>1. /\ j = 0 => Weight[5 - j] = 16
        /\ j = 1 => Weight[5 - j] = 8
        /\ j = 2 => Weight[5 - j] = 4
        /\ j = 3 => Weight[5 - j] = 2
        /\ j = 4 => Weight[5 - j] = 1
    BY DEF Weight
  <2>2. j = 0 \/ j = 1 \/ j = 2 \/ j = 3 \/ j = 4
    OBVIOUS
  <2> QED
    BY <1>1, <1>4, <2>1, <2>2
<1> QED
  BY <1>4, <1>5

\* Where a bit is: bit j of the character, or of the byte, with number k.
LEMMA CharacterBit ==
  ASSUME NEW seq, NEW k \in Nat \ {0}, NEW j \in 0 .. 4
  PROVE  BitOf(seq, 5, 5 * (k - 1) + j) = (seq[k] \div Weight[5 - j]) % 2
<1>1. PICK i : i = 5 * (k - 1) + j /\ i \div 5 = k - 1 /\ i % 5 = j
  OBVIOUS
<1>2. BitOf(seq, 5, i) = (seq[k] \div Weight[5 - j]) % 2
  BY <1>1 DEF BitOf
<1> QED
  BY <1>1, <1>2, Zenon

\* The same of the byte with number k.
LEMMA ByteBit ==
  ASSUME NEW seq, NEW k \in Nat \ {0}, NEW j \in 0 .. 7
  PROVE  BitOf(seq, 8, 8 * (k - 1) + j) = (seq[k] \div Weight[8 - j]) % 2
<1>1. PICK i : i = 8 * (k - 1) + j /\ i \div 8 = k - 1 /\ i % 8 = j
  OBVIOUS
<1>2. BitOf(seq, 8, i) = (seq[k] \div Weight[8 - j]) % 2
  BY <1>1 DEF BitOf
<1> QED
  BY <1>1, <1>2, Zenon

\* The bits of numbers are zeros and ones.
LEMMA BitType ==
  ASSUME NEW x \in Nat, NEW j \in 0 .. 7
  PROVE  (x \div Weight[8 - j]) % 2 \in {0, 1}
<1>1. PICK y : y = Weight[8 - j] /\ y \in Nat \ {0}
  <2>1. 8 - j \in 1 .. 8
    OBVIOUS
  <2> QED
    BY <2>1 DEF Weight
<1>2. x \div y \in Int
  BY <1>1
<1> QED
  BY <1>1, <1>2

\* The bits from a place on make the number that is read there.
LEMMA BitsFacts ==
  ASSUME NEW seq, NEW v \in Nat, NEW i \in Nat, NEW w \in {5, 8},
         NEW b \in [0 .. 7 -> {0, 1}], b = BitsFrom(seq, v, i, w)
  PROVE  Bits(seq, v, i, w) = IF w = 5 THEN Character(b) ELSE Byte(b)
<1> DEFINE Body(f) ==
             [k \in 0 .. w |-> IF k = 0 THEN 0 ELSE 2 * f[k - 1] + BitOf(seq, v, i + k - 1)]
           sum == CHOOSE f : f = Body(f)
<1>1. \A k \in 1 .. w : BitOf(seq, v, i + k - 1) = b[k - 1]
  <2> SUFFICES ASSUME NEW k \in 1 .. w
               PROVE  BitOf(seq, v, i + k - 1) = b[k - 1]
    OBVIOUS
  <2>1. k - 1 \in 0 .. 7 /\ k - 1 < w /\ i + (k - 1) = i + k - 1
    OBVIOUS
  <2> QED
    BY <2>1 DEF BitsFrom
<1>2. \E f : f = Body(f)
  <2>1. PICK f : f = [k \in 0 .. w |->
          CASE k = 0 -> 0
            [] k = 1 -> b[0]
            [] k = 2 -> 2 * b[0] + b[1]
            [] k = 3 -> 4 * b[0] + 2 * b[1] + b[2]
            [] k = 4 -> 8 * b[0] + 4 * b[1] + 2 * b[2] + b[3]
            [] k = 5 -> 16 * b[0] + 8 * b[1] + 4 * b[2] + 2 * b[3] + b[4]
            [] k = 6 -> 32 * b[0] + 16 * b[1] + 8 * b[2] + 4 * b[3] + 2 * b[4] + b[5]
            [] k = 7 -> 64 * b[0] + 32 * b[1] + 16 * b[2] + 8 * b[3] + 4 * b[4] + 2 * b[5] + b[6]
            [] k = 8 -> 128 * b[0] + 64 * b[1] + 32 * b[2] + 16 * b[3] + 8 * b[4] + 4 * b[5]
                          + 2 * b[6] + b[7]]
    OBVIOUS
  <2>2. /\ f[0] = 0 /\ f[1] = b[0] /\ f[2] = 2 * f[1] + b[1] /\ f[3] = 2 * f[2] + b[2]
        /\ f[4] = 2 * f[3] + b[3] /\ f[5] = 2 * f[4] + b[4]
        /\ w = 8 => f[6] = 2 * f[5] + b[5] /\ f[7] = 2 * f[6] + b[6] /\ f[8] = 2 * f[7] + b[7]
    <3>1. f[0] = 0 /\ f[1] = b[0] /\ f[2] = 2 * b[0] + b[1]
      BY <2>1
    <3>2. f[3] = 4 * b[0] + 2 * b[1] + b[2] /\ f[4] = 8 * b[0] + 4 * b[1] + 2 * b[2] + b[3]
      BY <2>1
    <3>3. f[5] = 16 * b[0] + 8 * b[1] + 4 * b[2] + 2 * b[3] + b[4]
      BY <2>1
    <3>4. ASSUME w = 8
          PROVE  /\ f[6] = 32 * b[0] + 16 * b[1] + 8 * b[2] + 4 * b[3] + 2 * b[4] + b[5]
                 /\ f[7] = 64 * b[0] + 32 * b[1] + 16 * b[2] + 8 * b[3] + 4 * b[4] + 2 * b[5] + b[6]
                 /\ f[8] = 128 * b[0] + 64 * b[1] + 32 * b[2] + 16 * b[3] + 8 * b[4] + 4 * b[5]
                             + 2 * b[6] + b[7]
      BY <2>1, <3>4
    <3>5. \A j \in 0 .. 7 : b[j] \in {0, 1}
      OBVIOUS
    <3> QED
      BY <3>1, <3>2, <3>3, <3>4, <3>5
  <2>3. \A k \in 1 .. w : f[k] = 2 * f[k - 1] + b[k - 1]
    BY <2>2
  <2>4. ASSUME NEW k \in 0 .. w
        PROVE  f[k] = IF k = 0 THEN 0 ELSE 2 * f[k - 1] + BitOf(seq, v, i + k - 1)
    BY <1>1, <2>2, <2>3
  <2>5. f = [k \in 0 .. w |-> f[k]]
    BY <2>1
  <2>6. f = Body(f)
    BY <2>4, <2>5
  <2> QED
    BY <2>6
<1>3. sum = Body(sum)
  BY <1>2
<1>4. Bits(seq, v, i, w) = sum[w]
  BY DEF Bits
<1> HIDE DEF sum
<1>5. sum[0] = 0 /\ \A k \in 1 .. w : sum[k] = 2 * sum[k - 1] + b[k - 1]
  <2>1. sum[0] = 0
    BY <1>3
  <2>2. ASSUME NEW k \in 1 .. w
        PROVE  sum[k] = 2 * sum[k - 1] + b[k - 1]
    <3>1. k \in 0 .. w /\ k # 0
      OBVIOUS
    <3> QED
      BY <1>1, <1>3, <3>1
  <2> QED
    BY <2>1, <2>2
<1>6. CASE w = 5
  BY <1>4, <1>5, <1>6 DEF Character
<1>7. CASE w = 8
  BY <1>4, <1>5, <1>7 DEF Byte
<1> QED
  BY <1>6, <1>7

\* A text has the bits of the bytes that it is made from.
LEMMA EncodedBits ==
  ASSUME NEW n \in Nat, n % 5 = 0, NEW bytes \in [1 .. n -> 0 .. 255], 
         NEW text, text = EncodeToString(bytes)
  PROVE  /\ Len(text) = 8 * (n \div 5) /\ DOMAIN text = 1 .. 8 * (n \div 5) /\ IsBase32(text)
         /\ \A i \in 0 .. 8 * n - 1 : BitOf(text, 5, i) = BitOf(bytes, 8, i)
<1>1. Len(bytes) = n /\ (8 * n) \div 5 = 8 * (n \div 5) /\ n \div 5 \in Nat
  OBVIOUS
<1>2. text = [k \in 1 .. 8 * (n \div 5) |-> Bits(bytes, 8, 5 * (k - 1), 5)]
  BY <1>1 DEF EncodeToString
<1>3. Len(text) = 8 * (n \div 5) /\ DOMAIN text = 1 .. 8 * (n \div 5)
  BY <1>1, <1>2
<1>4. ASSUME NEW i \in 0 .. 8 * n - 1
      PROVE  BitOf(bytes, 8, i) \in {0, 1}
  <2>1. PICK k, j : k = i \div 8 + 1 /\ j = i % 8
    OBVIOUS
  <2>2. k \in 1 .. n /\ j \in 0 .. 7 /\ i = 8 * (k - 1) + j
    BY <2>1
  <2>3. bytes[k] \in 0 .. 255
    BY <2>2
  <2>4. bytes[k] \in Nat
    <3>1. \A x \in 0 .. 255 : x \in Nat
      OBVIOUS
    <3> QED
      BY <2>3, <3>1, Zenon
  <2>5. k \in Nat \ {0}
    BY <2>2
  <2> QED
    <3>1. BitOf(bytes, 8, 8 * (k - 1) + j) = (bytes[k] \div Weight[8 - j]) % 2
      BY <2>2, <2>5, ByteBit, Zenon
    <3>2. (bytes[k] \div Weight[8 - j]) % 2 \in {0, 1}
      BY <2>2, <2>4, BitType, Zenon
    <3> QED
      BY <2>2, <3>1, <3>2, Zenon
<1>5. ASSUME NEW k \in 1 .. 8 * (n \div 5)
      PROVE  /\ text[k] \in 0 .. 31
             /\ \A j \in 0 .. 4 :
                  BitOf(text, 5, 5 * (k - 1) + j) = BitOf(bytes, 8, 5 * (k - 1) + j)
  <2>1. PICK i \in Nat : i = 5 * (k - 1) /\ \E b : b = BitsFrom(bytes, 8, i, 5)
    OBVIOUS
  <2> PICK b : b = BitsFrom(bytes, 8, i, 5)
    BY <2>1
  <2>2. \A j \in 0 .. 4 : 5 * (k - 1) + j \in 0 .. 8 * n - 1
    OBVIOUS
  <2>3. b \in [0 .. 7 -> {0, 1}] /\ \A j \in 0 .. 4 : BitOf(bytes, 8, 5 * (k - 1) + j) = b[j]
    BY <1>4, <2>1, <2>2 DEF BitsFrom
  <2>4. Bits(bytes, 8, 5 * (k - 1), 5) = Character(b)
    BY <2>1, <2>3, BitsFacts
  <2>5. PICK x : x = text[k] /\ x = Character(b)
    BY <1>2, <2>4
  <2>6. x \in 0 .. 31 /\ \A j \in 0 .. 4 : (x \div Weight[5 - j]) % 2 = b[j]
    BY <2>3, <2>5, BitsOfCharacter
  <2>7. ASSUME NEW j \in 0 .. 4
        PROVE  BitOf(text, 5, 5 * (k - 1) + j) = (x \div Weight[5 - j]) % 2
    <3>1. k \in Nat \ {0}
      OBVIOUS
    <3>2. BitOf(text, 5, 5 * (k - 1) + j) = (text[k] \div Weight[5 - j]) % 2
      BY <3>1, CharacterBit, Zenon
    <3> QED
      BY <2>5, <3>2, Zenon
  <2> QED
    BY <2>3, <2>5, <2>6, <2>7
<1>6. IsBase32(text)
  <2>1. (8 * (n \div 5)) % 8 = 0
    BY <1>1
  <2> QED
    BY <1>3, <1>5, <2>1 DEF IsBase32
<1>7. ASSUME NEW i \in 0 .. 8 * n - 1
      PROVE  BitOf(text, 5, i) = BitOf(bytes, 8, i)
  <2>1. PICK k, j : k = i \div 5 + 1 /\ j = i % 5
    OBVIOUS
  <2>2. k \in 1 .. 8 * (n \div 5) /\ j \in 0 .. 4 /\ i = 5 * (k - 1) + j
    BY <2>1
  <2> QED
    BY <1>5, <2>2
<1> QED
  BY <1>3, <1>6, <1>7

\* base32 gives back the bytes.
LEMMA DecodeEncoded ==
  ASSUME NEW n \in Nat, n % 5 = 0, NEW bytes \in [1 .. n -> 0 .. 255]
  PROVE  DecodeString(EncodeToString(bytes)) = bytes
<1>1. PICK text : text = EncodeToString(bytes)
  OBVIOUS
<1>2. /\ Len(text) = 8 * (n \div 5)
      /\ \A i \in 0 .. 8 * n - 1 : BitOf(text, 5, i) = BitOf(bytes, 8, i)
  BY <1>1, EncodedBits
<1>3. (5 * Len(text)) \div 8 = n
  BY <1>2
<1>4. ASSUME NEW k \in 1 .. n
      PROVE  Bits(text, 5, 8 * (k - 1), 8) = bytes[k]
  <2>1. PICK x \in 0 .. 255 : x = bytes[k]
    OBVIOUS
  <2>2. PICK i \in Nat : i = 8 * (k - 1) /\ \E b : b = BitsFrom(text, 5, i, 8)
    OBVIOUS
  <2> PICK b : b = BitsFrom(text, 5, i, 8)
    BY <2>2
  <2>3. ASSUME NEW j \in 0 .. 7
        PROVE  b[j] = (x \div Weight[8 - j]) % 2
    <3>1. 8 * (k - 1) + j \in 0 .. 8 * n - 1
      OBVIOUS
    <3>2. k \in Nat \ {0}
      OBVIOUS
    <3>3. BitOf(bytes, 8, 8 * (k - 1) + j) = (bytes[k] \div Weight[8 - j]) % 2
      BY <3>2, ByteBit, Zenon
    <3>4. b[j] = BitOf(text, 5, 8 * (k - 1) + j)
      <4>1. b[j] = BitOf(text, 5, i + j)
        BY DEF BitsFrom
      <4> QED
        BY <2>2, <4>1, Zenon
    <3> QED
      BY <1>2, <2>1, <3>1, <3>3, <3>4
  <2>4. Byte(b) = x /\ \A j \in 0 .. 7 : b[j] \in {0, 1}
    BY <2>3, BitsOfByte
  <2>5. b \in [0 .. 7 -> {0, 1}]
    BY <2>4 DEF BitsFrom
  <2>6. Bits(text, 5, 8 * (k - 1), 8) = Byte(b)
    BY <2>2, <2>5, BitsFacts
  <2> QED
    BY <2>1, <2>4, <2>6
<1>5. DecodeString(text) = [k \in 1 .. n |-> Bits(text, 5, 8 * (k - 1), 8)]
  BY <1>3 DEF DecodeString
<1> QED
  BY <1>1, <1>4, <1>5

\* The name of a block's file parses to its OID, and that of no other file does.
LEMMA FromStringFacts ==
  /\ \A o \in Block : FromString(o.s) = o /\ o # NoOid
  /\ \A f \in Stray : FromString(f.name) = NoOid
<1>1. OidLen \in Nat /\ OidLen = HashLen + 3 /\ HashLen \in Nat \ {0} /\ OidLen % 5 = 0
  BY HashLenAssumption DEF OidLen
<1>2. ASSUME NEW o \in Block
      PROVE  FromString(o.s) = o /\ o # NoOid
  <2>1. /\ o.t \in 0 .. 255
        /\ o.b \in [1 .. OidLen -> 0 .. 255]
        /\ o = Encode(o.t, SubSeq(o.b, 4, OidLen))
    BY BlockAssumption DEF IsOid
  <2>2. PICK t, bytes : t \in 0 .. 255 /\ t = o.t /\ bytes = o.b
    BY <2>1
  <2>3. PICK b : b = <<t % 256, OidPaddingByte, OidPaddingByte>> \o SubSeq(bytes, 4, OidLen)
    OBVIOUS
  <2>4. o = [b |-> b, t |-> t, s |-> EncodeToString(b)]
    BY <2>1, <2>2, <2>3, Zenon DEF Encode, FromBytes
  <2>5. b = bytes /\ o.s = EncodeToString(bytes) /\ o = FromBytes(t, bytes)
    <3>1. b = o.b /\ o.s = EncodeToString(b)
      BY <2>4
    <3> QED
      BY <2>2, <2>4, <3>1 DEF FromBytes
  <2>6. bytes \in [1 .. OidLen -> 0 .. 255]
    BY <2>1, <2>2
  <2>7. Len(bytes) = OidLen /\ bytes # <<>>
    BY <1>1, <2>6
  <2>8. bytes[1] = t /\ bytes[2] = OidPaddingByte /\ bytes[3] = OidPaddingByte
    <3>1. PICK rest : rest = SubSeq(bytes, 4, OidLen)
      OBVIOUS
    <3>2. rest \in Seq(0 .. 255)
      BY <1>1, <2>6, <3>1
    <3>3. b = <<t % 256, OidPaddingByte, OidPaddingByte>> \o rest
      BY <2>3, <3>1
    <3>4. b[1] = t % 256 /\ b[2] = OidPaddingByte /\ b[3] = OidPaddingByte
      BY <3>2, <3>3
    <3>5. t % 256 = t
      BY <2>2
    <3> QED
      BY <2>5, <3>4, <3>5
  <2>9. DecodeString(o.s) = bytes /\ IsBase32(o.s) /\ Stripped(o.s) = o.s
    <3>1. DecodeString(o.s) = bytes /\ IsBase32(o.s)
      BY <1>1, <2>5, <2>6, DecodeEncoded, EncodedBits
    <3>2. \A k \in DOMAIN o.s : o.s[k] \notin LineEnds
      <4>1. 32 \notin 0 .. 31 /\ 33 \notin 0 .. 31
        OBVIOUS
      <4> QED
        BY <3>1, <4>1, Zenon DEF IsBase32, LineEnds
    <3> QED
      BY <3>1, <3>2 DEF Stripped
  <2>10. UnmarshalBinary(bytes) = FromBytes(bytes[1], bytes)
    BY <2>7, <2>8 DEF UnmarshalBinary
  <2>11. o # NoOid
    <3>1. NoOid.b = <<>> /\ o.b # <<>>
      BY <2>2, <2>7 DEF NoOid
    <3> QED
      BY <3>1
  <2> QED
    BY <2>5, <2>8, <2>9, <2>10, <2>11 DEF FromString
<1>3. ASSUME NEW f \in Stray
      PROVE  FromString(f.name) = NoOid
  <2>1. ~ IsOidText(f.name)
    BY StrayAssumption
  <2> QED
    BY <2>1 DEF IsOidText, FromString, UnmarshalBinary
<1> QED
  BY <1>2, <1>3

-----------------------------------------------------------------------------
(* The type invariant, and the lists of Enumerate *)

\* What r, of a goroutine, has to do with the directories ds and the blocks that
\* are there: a Put that opens its file has made the directory; a list under way
\* has, or has still to read the shard of, every block that was there all the time.
Fits(r, ds, there) ==
  /\ r.kind = "open" => Shard(r.oid) \in ds
  /\ r.kind = "list" =>
       /\ r.todo \subseteq ds
       /\ r.always \subseteq there /\ there \subseteq r.ever /\ r.list \subseteq r.ever
       /\ \A o \in r.always : o \in r.list \/ Shard(o) \in r.todo
  /\ r.kind = "listed" => r.always \subseteq r.list /\ r.list \subseteq r.ever

OpsFit == \A c \in Caller : OpType(op[c]) /\ Fits(op[c], dirs, DOMAIN link)

LinksInv ==
  /\ dirs \subseteq { Shard(o) : o \in Block } \cup { f.dir : f \in Stray }
  /\ DOMAIN link \subseteq Block
  /\ \A o \in DOMAIN link : link[o] \in Inode /\ Shard(o) \in dirs
  /\ \A o, p \in DOMAIN link : link[o] = link[p] => o = p
  /\ DOMAIN data = InUse(link, op) /\ DOMAIN data \subseteq Inode
  /\ torn \subseteq DOMAIN data

\* The inductive invariant, with types.
FullInv == IInv /\ OpsFit /\ LinksInv

\* What the full invariant is for.
LEMMA FullInvTypeOK == FullInv => TypeOK /\ EnumerateIsComplete
<1> SUFFICES ASSUME FullInv
             PROVE  TypeOK /\ EnumerateIsComplete
  OBVIOUS
<1>1. \A i \in DOMAIN data : Piecewise(data[i])
  <2> SUFFICES ASSUME NEW i \in DOMAIN data
               PROVE  Piecewise(data[i])
    OBVIOUS
  <2>1. PICK f : f = data[i] /\ Right(f)
    BY DEF FullInv, IInv, FilesInv
  <2>2. f \in Seq(Nat) /\ Len(f) <= Pieces /\ \A k \in 1 .. Len(f) : f[k] = 0 \/ f[k] = k
    BY <2>1 DEF Right
  <2>3. \A k \in 1 .. Len(f) : f[k] \in 0 .. Pieces
    BY <2>2, PiecesAssumption
  <2>4. f \in Seq(0 .. Pieces)
    <3>1. PICK n, S : n \in Nat /\ n = Len(f) /\ f = [k \in 1 .. n |-> f[k]] /\ S = 0 .. Pieces
      BY <2>2
    <3>2. \A k \in 1 .. n : f[k] \in S
      BY <2>3, <3>1
    <3>3. f \in [1 .. n -> S]
      BY <3>1, <3>2
    <3>4. f \in Seq(S)
      BY <3>1, <3>3, SeqDef
    <3> QED
      BY <3>1, <3>4
  <2> QED
    BY <2>1, <2>2, <2>4 DEF Piecewise
<1>2. DOMAIN op = Caller /\ acked \subseteq Block
  BY DEF FullInv, IInv, OpsInv, AckInv, LinksInv
<1>3. \A c \in Caller : OpType(op[c]) /\ (IsListing(c) => op[c].todo \subseteq dirs)
  BY DEF FullInv, OpsFit, Fits, IsListing
<1>4. EnumerateIsComplete
  BY DEF FullInv, OpsFit, Fits, EnumerateIsComplete
<1> QED
  BY <1>1, <1>2, <1>3, <1>4 DEF FullInv, LinksInv, TypeOK

\* What each kind of operation needs.
LEMMA KindFacts ==
  /\ OpType(NoOp) /\ NoOp.kind = "none"
  /\ \A o \in Block : OpType(Opening(o)) /\ Opening(o).kind = "open" /\ Opening(o).oid = o
  /\ \A todo, list, always, ever : list \cup always \cup ever \subseteq Block =>
       OpType(Listing(todo, list, always, ever))
  /\ \A list, always, ever : list \cup always \cup ever \subseteq Block =>
       OpType(Listed(list, always, ever))
<1>1. OpType(NoOp) /\ NoOp.kind = "none"
  BY DEF OpType, NoOp
<1>2. ASSUME NEW o \in Block
      PROVE  OpType(Opening(o)) /\ Opening(o).kind = "open" /\ Opening(o).oid = o
  BY DEF OpType, Opening
<1>3. ASSUME NEW todo, NEW list, NEW always, NEW ever, list \cup always \cup ever \subseteq Block
      PROVE  /\ OpType(Listing(todo, list, always, ever))
             /\ OpType(Listed(list, always, ever))
  BY <1>3 DEF OpType, Listing, Listed
<1> QED
  BY <1>1, <1>2, <1>3

\* Calls that write and that read, with values of the right types.
LEMMA WritingType ==
  ASSUME NEW o \in Block, NEW n \in 1 .. Pieces + 1, NEW b \in BOOLEAN, NEW i,
         NEW r, r = Writing(o, i, n, b)
  PROVE  OpType(r) /\ r.kind = "write" /\ r.file = i
BY DEF OpType, Writing

\* The same of a call that reads.
LEMMA ReadingType ==
  ASSUME NEW o \in Block, NEW b \in BOOLEAN, NEW i, NEW f, Piecewise(f), NEW r
  PROVE  /\ r = Reading(o, i, f, b) => OpType(r) /\ r.kind = "read" /\ r.file = i
         /\ r = Got(o, f, b) => OpType(r) /\ r.kind = "got"
<1>1. /\ OpType(Reading(o, i, f, b)) /\ Reading(o, i, f, b).kind = "read"
      /\ Reading(o, i, f, b).file = i
  BY DEF OpType, Reading
<1>2. OpType(Got(o, f, b)) /\ Got(o, f, b).kind = "got"
  BY DEF OpType, Got
<1> QED
  BY <1>1, <1>2

\* What is neither of these fits wherever, and directories only help.
LEMMA FitFacts ==
  ASSUME NEW r, NEW ds, NEW there
  PROVE  /\ r.kind \notin {"open", "list", "listed"} => Fits(r, ds, there)
         /\ r.kind # "list" => \A other : Fits(r, ds, there) => Fits(r, ds, other)
         /\ \A more : ds \subseteq more /\ Fits(r, ds, there) => Fits(r, more, there)
BY DEF Fits

\* A step of the file system that has the directories and the types right.
LEMMA FileSystemStep ==
  ASSUME FullInv, IInv', NEW l, NEW d, NEW ops, NEW t, FileSystem(l, d, ops, t), dirs' = dirs,
         \A o \in DOMAIN l : o \in Block /\ l[o] \in Inode /\ Shard(o) \in dirs,
         \A o, p \in DOMAIN l : l[o] = l[p] => o = p,
         \A c \in Caller :
           /\ ops[c].kind \in {"write", "read"} => ops[c].file \in Inode
           /\ OpType(ops[c]) /\ Fits(ops[c], dirs, DOMAIN l)
  PROVE  FullInv'
<1>1. /\ link' = l /\ op' = ops
      /\ DOMAIN data' = InUse(l, ops)
      /\ torn' = t \cap InUse(l, ops)
  BY DEF FileSystem, F!Restrict
<1>2. \A i \in InUse(l, ops) : i \in Inode
  BY DEF InUse
<1>3. OpsFit'
  BY <1>1 DEF OpsFit
<1>4. DOMAIN data' = InUse(link', op')
  BY <1>1
<1>5. DOMAIN data' \subseteq Inode /\ torn' \subseteq DOMAIN data'
  BY <1>1, <1>2
<1>6. /\ DOMAIN link' \subseteq Block
      /\ \A o \in DOMAIN link' : link'[o] \in Inode /\ Shard(o) \in dirs'
  BY <1>1
<1>7. \A o, p \in DOMAIN link' : link'[o] = link'[p] => o = p
  BY <1>1
<1>8. LinksInv'
  BY <1>4, <1>5, <1>6, <1>7 DEF FullInv, LinksInv, InUse
<1> QED
  BY <1>3, <1>8 DEF FullInv

\* A step of one goroutine after which the same files are linked or open.
LEMMA OpStep ==
  ASSUME FullInv, IInv', NEW c \in Caller, NEW r, op' = [op EXCEPT ![c] = r],
         link' = link, DOMAIN data' = DOMAIN data, torn' = torn,
         dirs \subseteq dirs',
         \A s \in dirs' : s \in dirs \/ \E o \in Block : s = Shard(o),
         OpType(r), Fits(r, dirs', DOMAIN link),
         r.kind \in {"write", "read"} => r.file \in DOMAIN data,
         op[c].kind \in {"write", "read"} =>
           r.kind \in {"write", "read"} /\ r.file = op[c].file
  PROVE  FullInv'
<1>1. op'[c] = r /\ \A d \in Caller \ {c} : op'[d] = op[d]
  BY DEF FullInv, IInv, OpsInv
<1>2. OpsFit'
  <2> SUFFICES ASSUME NEW d \in Caller
               PROVE  OpType(op'[d]) /\ Fits(op'[d], dirs', DOMAIN link')
    BY DEF OpsFit
  <2>1. CASE d = c
    BY <1>1, <2>1
  <2>2. CASE d # c
    <3>1. OpType(op[d]) /\ Fits(op[d], dirs, DOMAIN link)
      BY DEF FullInv, OpsFit
    <3> QED
      BY <1>1, <2>2, <3>1, FitFacts
  <2> QED
    BY <2>1, <2>2
<1>3. DOMAIN data' = InUse(link', op')
  <2>1. DOMAIN data = InUse(link, op)
    BY DEF FullInv, LinksInv
  <2>2. ASSUME NEW i \in InUse(link, op)
        PROVE  i \in InUse(link', op')
    <3>1. CASE \E o \in DOMAIN link : i = link[o]
      BY <3>1 DEF InUse
    <3>2. CASE \E d \in Caller : op[d].kind \in {"write", "read"} /\ i = op[d].file
      <4>1. PICK d \in Caller : op[d].kind \in {"write", "read"} /\ i = op[d].file
        BY <3>2
      <4>2. op'[d].kind \in {"write", "read"} /\ i = op'[d].file
        BY <1>1, <4>1
      <4> QED
        BY <4>2 DEF InUse
    <3> QED
      BY <3>1, <3>2 DEF InUse
  <2>3. ASSUME NEW i \in InUse(link', op')
        PROVE  i \in DOMAIN data
    <3>1. CASE \E o \in DOMAIN link : i = link[o]
      BY <2>1, <3>1 DEF InUse
    <3>2. CASE \E d \in Caller : op'[d].kind \in {"write", "read"} /\ i = op'[d].file
      <4>1. PICK d \in Caller : op'[d].kind \in {"write", "read"} /\ i = op'[d].file
        BY <3>2
      <4>2. CASE d = c
        BY <1>1, <4>1, <4>2
      <4>3. CASE d # c
        BY <1>1, <2>1, <4>1, <4>3 DEF InUse
      <4> QED
        BY <4>2, <4>3
    <3> QED
      BY <3>1, <3>2 DEF InUse
  <2> QED
    BY <2>1, <2>2, <2>3
<1>4. LinksInv'
  <2>1. dirs' \subseteq { Shard(o) : o \in Block } \cup { f.dir : f \in Stray }
    BY DEF FullInv, LinksInv
  <2>2. \A o \in DOMAIN link' : link'[o] \in Inode /\ Shard(o) \in dirs'
    BY DEF FullInv, LinksInv
  <2> QED
    BY <1>3, <2>1, <2>2 DEF FullInv, LinksInv
<1> QED
  BY <1>2, <1>4 DEF FullInv

\* What FullInv says of one goroutine, and of the files.
LEMMA FullInvFacts ==
  ASSUME FullInv
  PROVE  /\ \A c \in Caller :
              /\ OpType(op[c]) /\ Fits(op[c], dirs, DOMAIN link)
              /\ op[c].kind \in {"write", "read"} =>
                   op[c].file \in DOMAIN data /\ op[c].file \in Inode
         /\ \A o \in DOMAIN link :
              /\ o \in Block /\ Shard(o) \in dirs
              /\ link[o] \in DOMAIN data /\ link[o] \in Inode
         /\ \A o, p \in DOMAIN link : link[o] = link[p] => o = p
BY DEF FullInv, OpsFit, LinksInv, InUse

\* A directory more is in nobody's way.
LEMMA PutEnsureDirFull ==
  ASSUME FullInv, IInv', NEW c \in Caller, NEW o \in Block, PutEnsureDir(c, o)
  PROVE  FullInv'
<1>1. PICK r : r = Opening(o)
  OBVIOUS
<1>2. /\ op' = [op EXCEPT ![c] = r] /\ dirs' = dirs \cup {Shard(o)}
      /\ UNCHANGED <<link, data, torn>> /\ op[c].kind \notin {"write", "read"}
  BY <1>1 DEF PutEnsureDir, Free
<1>3. OpType(r) /\ r.kind = "open" /\ r.oid = o
  BY <1>1, KindFacts
<1>4. Fits(r, dirs', DOMAIN link)
  BY <1>2, <1>3 DEF Fits
<1> QED
  BY <1>2, <1>3, <1>4, OpStep

\* A piece more of a file that is written keeps its kind.
LEMMA PutWriteFull ==
  ASSUME FullInv, IInv', NEW c \in Caller, PutWrite(c)
  PROVE  FullInv'
<1>1. PICK r : r = [op[c] EXCEPT !.next = op[c].next + 1]
  OBVIOUS
<1>2. /\ op[c].kind = "write" /\ op' = [op EXCEPT ![c] = r] /\ op[c].next <= Pieces
      /\ DOMAIN data' = DOMAIN data /\ UNCHANGED <<dirs, link, torn>>
  BY <1>1 DEF PutWrite, IsWriting
<1>3. Shape(op[c]) /\ op[c].oid \in Block
  BY <1>2 DEF FullInv, IInv, OpsInv, OpsFit, OpType
<1>4. r = Writing(op[c].oid, op[c].file, op[c].next + 1, op[c].kept)
  BY <1>1, <1>2, <1>3, ExceptFacts
<1>5. op[c].next + 1 \in 1 .. Pieces + 1 /\ op[c].kept \in BOOLEAN
  BY <1>2, <1>3, PiecesAssumption DEF Shape
<1>6. PICK o, i, n, b : /\ o = op[c].oid /\ i = op[c].file /\ n = op[c].next + 1
                        /\ b = op[c].kept
  OBVIOUS
<1>7. OpType(r) /\ r.kind = "write" /\ r.file = op[c].file
  <2>1. o \in Block /\ n \in 1 .. Pieces + 1 /\ b \in BOOLEAN /\ r = Writing(o, i, n, b)
    BY <1>3, <1>4, <1>5, <1>6
  <2> QED
    BY <1>6, <2>1, WritingType
<1>8. Fits(r, dirs', DOMAIN link)
  BY <1>7, FitFacts
<1> QED
  BY <1>2, <1>7, <1>8, OpStep, FullInvFacts

\* What Get opens is a file of the store.
LEMMA GetOpenFull ==
  ASSUME FullInv, IInv', NEW c \in Caller, NEW o \in Block, GetOpen(c, o)
  PROVE  FullInv'
<1>1. PICK i, b : /\ i = link[o] /\ b \in BOOLEAN
                  /\ b = (Writers(link[o]) = {} /\ link[o] \notin torn)
  OBVIOUS
<1>2. PICK r : r = Reading(o, i, <<>>, b)
  OBVIOUS
<1>3. /\ o \in DOMAIN link /\ op[c].kind \notin {"write", "read"}
      /\ UNCHANGED <<dirs, link, data, torn>>
  BY DEF GetOpen, Free, Has
<1>4. op' = [op EXCEPT ![c] = r]
  BY <1>1, <1>2, Zenon DEF GetOpen
<1>5. Piecewise(<<>>)
  BY PiecesAssumption DEF Piecewise
<1>6. OpType(r) /\ r.kind = "read" /\ r.file = i
  <2>1. b \in BOOLEAN
    BY <1>1
  <2> QED
    BY <1>2, <1>5, <2>1, ReadingType
<1>8. Fits(r, dirs', DOMAIN link)
  BY <1>6, FitFacts
<1>9. i \in DOMAIN data
  BY <1>1, <1>3, FullInvFacts
<1> QED
  BY <1>3, <1>4, <1>6, <1>8, <1>9, OpStep

\* The end of the operation of c.
LEMMA EndFull ==
  ASSUME FullInv, IInv', NEW c \in Caller, NEW r, NEW t,
         FileSystem(link, data, [op EXCEPT ![c] = r], t), dirs' = dirs,
         OpType(r), r.kind \notin {"open", "list", "listed"},
         r.kind \in {"write", "read"} =>
           op[c].kind \in {"write", "read"} /\ r.file = op[c].file
  PROVE  FullInv'
<1>1. PICK ops : ops = [op EXCEPT ![c] = r]
  OBVIOUS
<1>2. ops[c] = r /\ \A d \in Caller \ {c} : ops[d] = op[d]
  BY <1>1 DEF FullInv, IInv, OpsInv
<1>3. ASSUME NEW d \in Caller
      PROVE  /\ ops[d].kind \in {"write", "read"} => ops[d].file \in Inode
             /\ OpType(ops[d]) /\ Fits(ops[d], dirs, DOMAIN link)
  <2>1. CASE d = c
    BY <1>2, <2>1, FullInvFacts, FitFacts
  <2>2. CASE d # c
    BY <1>2, <2>2, FullInvFacts
  <2> QED
    BY <2>1, <2>2
<1>4. FileSystem(link, data, ops, t)
  BY <1>1
<1> QED
  BY <1>3, <1>4, FileSystemStep, FullInvFacts

\* A call that ends leaves no record that could be wrong.
LEMMA EndsFull ==
  ASSUME FullInv, IInv', NEW c \in Caller, PutReturn(c) \/ PutFails(c) \/ GetFails(c)
  PROVE  FullInv'
<1>1. PICK r : r = NoOp
  OBVIOUS
<1>2. \E t : FileSystem(link, data, [op EXCEPT ![c] = r], t)
  BY <1>1 DEF PutReturn, PutFails, GetFails
<1>3. dirs' = dirs
  BY DEF PutReturn, PutFails, GetFails
<1>4. OpType(r) /\ r.kind = "none"
  BY <1>1, KindFacts
<1> QED
  BY <1>2, <1>3, <1>4, EndFull

\* Get has read pieces of its file, and no more than there are.
LEMMA GetReadFull ==
  ASSUME FullInv, IInv', NEW c \in Caller, GetRead(c)
  PROVE  FullInv'
<1>1. op[c].kind = "read" /\ dirs' = dirs
  BY DEF GetRead, IsReading
<1>2. PICK e, n, file, r :
        /\ e = op[c] /\ n = Len(e.got) + 1 /\ file = data[e.file]
        /\ r = IF n <= Len(file) THEN [e EXCEPT !.got = Append(e.got, file[n])]
               ELSE Got(e.oid, e.got, e.clean)
        /\ FileSystem(link, data, [op EXCEPT ![c] = r], torn)
  BY DEF GetRead
<1>3. Shape(e) /\ OpType(e) /\ e.file \in DOMAIN data
  BY <1>1, <1>2, FullInvFacts DEF FullInv, IInv, OpsInv
<1>4. e.oid \in Block /\ Piecewise(e.got) /\ e.clean \in BOOLEAN
  BY <1>1, <1>2, <1>3 DEF OpType
<1>5. CASE n <= Len(file)
  <2>1. PICK g : g = Append(e.got, file[n])
    OBVIOUS
  <2>2. Right(file)
    BY <1>2, <1>3 DEF FullInv, IInv, FilesInv
  <2>3. n \in Nat /\ n <= Pieces /\ file[n] \in 0 .. Pieces
    <3>1. e.got \in Seq(0 .. Pieces) /\ Len(e.got) \in Nat /\ n = Len(e.got) + 1
      BY <1>2, <1>4 DEF Piecewise
    <3>2. /\ Len(file) \in Nat /\ Len(file) <= Pieces
          /\ \A k \in 1 .. Len(file) : file[k] = 0 \/ file[k] = k
      BY <2>2 DEF Right
    <3>3. n \in 1 .. Len(file) /\ n \in 1 .. Pieces /\ n <= Pieces
      BY <1>5, <3>1, <3>2, PiecesAssumption
    <3> QED
      BY <3>2, <3>3, PiecesAssumption
  <2>4. Piecewise(g)
    BY <1>2, <1>4, <2>1, <2>3 DEF Piecewise
  <2>5. r = Reading(e.oid, e.file, g, e.clean)
    <3>1. r = [e EXCEPT !.got = g]
      BY <1>2, <1>5, <2>1
    <3>2. e.kind = "read" /\ Shape(e)
      BY <1>1, <1>2, <1>3
    <3> QED
      BY <3>1, <3>2, ExceptFacts
  <2>6. OpType(r) /\ r.kind = "read" /\ r.file = op[c].file
    <3>1. PICK o, i, b : o \in Block /\ b \in BOOLEAN /\ i = op[c].file /\ r = Reading(o, i, g, b)
      BY <1>2, <1>4, <2>5
    <3> QED
      BY <2>4, <3>1, ReadingType
  <2> QED
    BY <1>1, <1>2, <2>6, EndFull
<1>6. CASE ~ (n <= Len(file))
  <2>1. r = Got(e.oid, e.got, e.clean)
    BY <1>2, <1>6
  <2>2. OpType(r) /\ r.kind = "got"
    BY <1>4, <2>1, ReadingType
  <2> QED
    BY <1>1, <1>2, <2>2, EndFull
<1> QED
  BY <1>5, <1>6

\* When the process is killed every call ends.
LEMMA KillFull ==
  ASSUME FullInv, IInv', Kill
  PROVE  FullInv'
<1>1. PICK ops, t : ops = [c \in Caller |-> NoOp] /\ FileSystem(link, data, ops, t)
  BY DEF Kill
<1>2. \A c \in Caller : OpType(ops[c]) /\ ops[c].kind = "none"
  BY <1>1, KindFacts
<1>3. \A c \in Caller : Fits(ops[c], dirs, DOMAIN link)
  BY <1>2, FitFacts
<1> QED
  BY <1>1, <1>2, <1>3, FileSystemStep, FullInvFacts DEF Kill

\* A list under way, and its types.
LEMMA ListFacts ==
  ASSUME NEW r, OpType(r), r.kind = "list"
  PROVE  /\ r = Listing(r.todo, r.list, r.always, r.ever)
         /\ r.list \cup r.always \cup r.ever \subseteq Block
BY DEF OpType

\* A Put or a Delete of a block, by c, seen from the others.  The list that one of them
\* makes gives up what is deleted, and may hold what is put.
LEMMA LinkStep ==
  ASSUME FullInv, IInv', NEW c \in Caller, NEW l, NEW d, NEW ops, FileSystem(l, d, ops, torn),
         dirs' = dirs,
         \A x \in DOMAIN l : x \in Block /\ l[x] \in Inode /\ Shard(x) \in dirs,
         \A x, y \in DOMAIN l : l[x] = l[y] => x = y,
         ops[c].kind \in {"write", "none"},
         ops[c].kind = "write" => ops[c].file \in Inode,
         OpType(ops[c]),
         \A e \in Caller \ {c} :
           \/ ops[e] = op[e] /\ op[e].kind # "list"
           \/ /\ op[e].kind \in {"write", "read"} /\ ops[e].kind = op[e].kind
              /\ ops[e].file = op[e].file /\ OpType(ops[e])
           \/ /\ op[e].kind = "list"
              /\ \E always, ever :
                   /\ ops[e] = Listing(op[e].todo, op[e].list, always, ever)
                   /\ always \subseteq op[e].always \cap DOMAIN l
                   /\ op[e].ever \cup DOMAIN l \subseteq ever /\ ever \subseteq Block
  PROVE  FullInv'
<1>1. ASSUME NEW e \in Caller
      PROVE  /\ ops[e].kind \in {"write", "read"} => ops[e].file \in Inode
             /\ OpType(ops[e]) /\ Fits(ops[e], dirs, DOMAIN l)
  <2>1. OpType(op[e]) /\ Fits(op[e], dirs, DOMAIN link)
    BY FullInvFacts
  <2>2. CASE e = c
    BY <2>2, FitFacts
  <2>3. CASE e # c /\ ops[e] = op[e] /\ op[e].kind # "list"
    BY <2>1, <2>3, FullInvFacts, FitFacts
  <2>4. CASE /\ op[e].kind \in {"write", "read"} /\ ops[e].kind = op[e].kind
             /\ ops[e].file = op[e].file /\ OpType(ops[e])
    BY <2>4, FullInvFacts, FitFacts
  <2>5. CASE e # c /\ op[e].kind = "list"
    <3>1. PICK r, todo, list, always, ever :
            /\ r = op[e] /\ todo = r.todo /\ list = r.list
            /\ ops[e] = Listing(todo, list, always, ever)
            /\ always \subseteq r.always \cap DOMAIN l
            /\ r.ever \cup DOMAIN l \subseteq ever /\ ever \subseteq Block
      BY <2>5
    <3>2. /\ todo \subseteq dirs /\ list \subseteq r.ever /\ list \subseteq Block
          /\ \A o \in r.always : o \in list \/ Shard(o) \in todo
      BY <2>1, <2>5, <3>1, ListFacts DEF Fits
    <3>3. always \subseteq Block
      BY <2>1, <2>5, <3>1, ListFacts
    <3>4. OpType(ops[e])
      BY <3>1, <3>2, <3>3, KindFacts
    <3>5. Fits(Listing(todo, list, always, ever), dirs, DOMAIN l)
      <4>1. PICK s : s = Listing(todo, list, always, ever)
        OBVIOUS
      <4>2. /\ s.kind = "list" /\ s.todo = todo /\ s.list = list
            /\ s.always = always /\ s.ever = ever
        BY <4>1 DEF Listing
      <4>3. \A o \in always : o \in list \/ Shard(o) \in todo
        BY <3>1, <3>2
      <4>4. always \subseteq DOMAIN l /\ DOMAIN l \subseteq ever /\ list \subseteq ever
        BY <3>1, <3>2
      <4> QED
        BY <3>2, <4>1, <4>2, <4>3, <4>4 DEF Fits
    <3>6. ops[e].kind = "list"
      BY <3>1 DEF Listing
    <3> QED
      BY <3>1, <3>4, <3>5, <3>6
  <2> QED
    BY <2>2, <2>3, <2>4, <2>5
<1> QED
  BY <1>1, FileSystemStep

\* A block that is deleted is no longer one that was there all the time.
LEMMA DeleteFull ==
  ASSUME FullInv, IInv', NEW c \in Caller, NEW o \in Block, Delete(c, o)
  PROVE  FullInv'
<1>1. PICK l, f, ops : /\ l = F!Restrict(link, DOMAIN link \ {o}) /\ f = OpsOnDelete(o)
                       /\ ops = [f EXCEPT ![c] = NoOp]
                       /\ FileSystem(l, data, ops, torn)
  BY DEF Delete
<1>2. DOMAIN l = DOMAIN link \ {o} /\ \A x \in DOMAIN l : l[x] = link[x]
  BY <1>1 DEF F!Restrict
<1>3. ops[c] = NoOp /\ \A d \in Caller \ {c} : ops[d] = f[d]
  BY <1>1 DEF OpsOnDelete
<1>4. ASSUME NEW e \in Caller \ {c}
      PROVE  \/ ops[e] = op[e] /\ op[e].kind # "list"
             \/ /\ op[e].kind \in {"write", "read"} /\ ops[e].kind = op[e].kind
                /\ ops[e].file = op[e].file /\ OpType(ops[e])
             \/ /\ op[e].kind = "list"
                /\ \E always, ever :
                     /\ ops[e] = Listing(op[e].todo, op[e].list, always, ever)
                     /\ always \subseteq op[e].always \cap DOMAIN l
                     /\ op[e].ever \cup DOMAIN l \subseteq ever /\ ever \subseteq Block
  <2>1. Shape(op[e]) /\ OpType(op[e]) /\ Fits(op[e], dirs, DOMAIN link)
    BY FullInvFacts DEF FullInv, IInv, OpsInv
  <2>2. CASE op[e].kind = "write" /\ op[e].oid = o
    <3>1. ops[e] = [op[e] EXCEPT !.kept = FALSE]
      BY <1>1, <1>3, <2>2 DEF OpsOnDelete, IsListing
    <3>2. ops[e] = Writing(op[e].oid, op[e].file, op[e].next, FALSE)
      BY <2>1, <2>2, <3>1, ExceptFacts
    <3>3. op[e].oid \in Block /\ op[e].next \in 1 .. Pieces + 1
      BY <2>1, <2>2 DEF OpType
    <3>4. OpType(ops[e]) /\ ops[e].kind = "write" /\ ops[e].file = op[e].file
      <4>1. PICK b \in BOOLEAN : b = FALSE
        OBVIOUS
      <4>2. ops[e] = Writing(op[e].oid, op[e].file, op[e].next, b)
        BY <3>2, <4>1
      <4> QED
        BY <3>3, <4>2, WritingType
    <3> QED
      BY <2>2, <3>4
  <2>3. CASE op[e].kind = "list"
    <3>1. ops[e] = [op[e] EXCEPT !.always = @ \ {o}]
      BY <1>1, <1>3, <2>3 DEF OpsOnDelete, IsListing
    <3>2. ops[e] = Listing(op[e].todo, op[e].list, op[e].always \ {o}, op[e].ever)
      BY <2>1, <2>3, <3>1, ExceptFacts
    <3>3. op[e].always \subseteq DOMAIN link /\ DOMAIN link \subseteq op[e].ever
      BY <2>1, <2>3 DEF Fits
    <3>4. op[e].ever \subseteq Block
      BY <2>1, <2>3, ListFacts
    <3> QED
      BY <1>2, <2>3, <3>2, <3>3, <3>4
  <2>4. CASE ~ (op[e].kind = "write" /\ op[e].oid = o) /\ op[e].kind # "list"
    BY <1>1, <1>3, <2>4 DEF OpsOnDelete, IsListing
  <2> QED
    BY <2>2, <2>3, <2>4
<1>5. OpType(ops[c]) /\ ops[c].kind = "none"
  BY <1>3, KindFacts
<1>6. dirs' = dirs
  BY DEF Delete
<1>7. /\ \A x \in DOMAIN l : x \in Block /\ l[x] \in Inode /\ Shard(x) \in dirs
      /\ \A x, y \in DOMAIN l : l[x] = l[y] => x = y
  BY <1>2, FullInvFacts
<1>8. FileSystem(l, data, ops, torn)
  BY <1>1
<1> QED
  BY <1>4, <1>5, <1>6, <1>7, <1>8, LinkStep

\* Put opens a file: of the block's own, or one that is neither linked nor open.
LEMMA PutOpenFull ==
  ASSUME FullInv, IInv', NEW c \in Caller, PutOpen(c)
  PROVE  FullInv'
<1>1. PICK o : o = op[c].oid
  OBVIOUS
<1>2. PICK i \in IF o \in DOMAIN link THEN {link[o]} ELSE Inode \ DOMAIN data :
        FileSystem([x \in DOMAIN link \cup {o} |-> IF x = o THEN i ELSE link[x]],
                   [j \in DOMAIN data \cup {i} |-> IF j = i THEN <<>> ELSE data[j]],
                   [OpsOnOpen(o, i) EXCEPT ![c] = Writing(o, i, 1, TRUE)],
                   torn)
  BY <1>1 DEF PutOpen
<1>3. PICK l, d, f, ops :
        /\ l = [x \in DOMAIN link \cup {o} |-> IF x = o THEN i ELSE link[x]]
        /\ d = [j \in DOMAIN data \cup {i} |-> IF j = i THEN <<>> ELSE data[j]]
        /\ f = OpsOnOpen(o, i) /\ ops = [f EXCEPT ![c] = Writing(o, i, 1, TRUE)]
        /\ FileSystem(l, d, ops, torn)
  BY <1>2
<1>4. op[c].kind = "open" /\ dirs' = dirs
  BY DEF PutOpen
<1>5. o \in Block /\ Shard(o) \in dirs
  BY <1>1, <1>4, FullInvFacts DEF OpType, Fits
<1>6. \A x \in DOMAIN link : x # o => i # link[x]
  BY <1>2, FullInvFacts
<1>7. i \in Inode
  BY <1>2, FullInvFacts
<1>8. DOMAIN l = DOMAIN link \cup {o} /\ l[o] = i /\ \A x \in DOMAIN link : x # o => l[x] = link[x]
  BY <1>3
<1>9. /\ \A x \in DOMAIN l : x \in Block /\ l[x] \in Inode /\ Shard(x) \in dirs
      /\ \A x, y \in DOMAIN l : l[x] = l[y] => x = y
  BY <1>5, <1>6, <1>7, <1>8, FullInvFacts
<1>10. ops[c] = Writing(o, i, 1, TRUE) /\ \A e \in Caller \ {c} : ops[e] = f[e]
  BY <1>3 DEF OpsOnOpen
<1>11. OpType(ops[c]) /\ ops[c].kind = "write" /\ ops[c].file = i
  <2>1. PICK n \in 1 .. Pieces + 1 : n = 1
    BY PiecesAssumption
  <2>2. PICK b \in BOOLEAN : b = TRUE
    OBVIOUS
  <2>3. ops[c] = Writing(o, i, n, b)
    BY <1>10, <2>1, <2>2
  <2> QED
    BY <1>5, <2>3, WritingType
<1>12. ASSUME NEW e \in Caller \ {c}
       PROVE  \/ ops[e] = op[e] /\ op[e].kind # "list"
              \/ /\ op[e].kind \in {"write", "read"} /\ ops[e].kind = op[e].kind
                 /\ ops[e].file = op[e].file /\ OpType(ops[e])
              \/ /\ op[e].kind = "list"
                 /\ \E always, ever :
                      /\ ops[e] = Listing(op[e].todo, op[e].list, always, ever)
                      /\ always \subseteq op[e].always \cap DOMAIN l
                      /\ op[e].ever \cup DOMAIN l \subseteq ever /\ ever \subseteq Block
  <2>1. Shape(op[e]) /\ OpType(op[e]) /\ Fits(op[e], dirs, DOMAIN link)
    BY FullInvFacts DEF FullInv, IInv, OpsInv
  <2>2. CASE op[e].kind = "read" /\ op[e].file = i
    <3>1. ops[e] = [op[e] EXCEPT !.clean = FALSE]
      BY <1>3, <1>10, <2>2 DEF OpsOnOpen, IsReading, IsListing
    <3>2. ops[e] = Reading(op[e].oid, op[e].file, op[e].got, FALSE)
      BY <2>1, <2>2, <3>1, ExceptFacts
    <3>3. op[e].oid \in Block /\ Piecewise(op[e].got)
      BY <2>1, <2>2 DEF OpType
    <3>4. OpType(ops[e]) /\ ops[e].kind = "read" /\ ops[e].file = op[e].file
      <4>1. PICK x, g, b : /\ x \in Block /\ Piecewise(g) /\ b \in BOOLEAN
                           /\ ops[e] = Reading(x, op[e].file, g, b)
        BY <3>2, <3>3
      <4> QED
        BY <4>1, ReadingType
    <3> QED
      BY <2>2, <3>4
  <2>3. CASE op[e].kind = "list"
    <3>1. ops[e] = [op[e] EXCEPT !.ever = @ \cup {o}]
      BY <1>3, <1>10, <2>3 DEF OpsOnOpen, IsReading, IsListing
    <3>2. ops[e] = Listing(op[e].todo, op[e].list, op[e].always, op[e].ever \cup {o})
      BY <2>1, <2>3, <3>1, ExceptFacts
    <3>3. op[e].always \subseteq DOMAIN link /\ DOMAIN link \subseteq op[e].ever
      BY <2>1, <2>3 DEF Fits
    <3>4. op[e].ever \subseteq Block
      BY <2>1, <2>3, ListFacts
    <3> QED
      BY <1>5, <1>8, <2>3, <3>2, <3>3, <3>4
  <2>4. CASE ~ (op[e].kind = "read" /\ op[e].file = i) /\ op[e].kind # "list"
    BY <1>3, <1>10, <2>4 DEF OpsOnOpen, IsReading, IsListing
  <2> QED
    BY <2>2, <2>3, <2>4
<1>13. FileSystem(l, d, ops, torn)
  BY <1>3
<1> QED
  BY <1>4, <1>7, <1>9, <1>11, <1>12, <1>13, LinkStep

\* A list that ends is complete.
LEMMA EndOrGoOnFull ==
  ASSUME NEW todo, NEW list, NEW always, NEW ever, NEW ds, NEW there,
         todo \subseteq ds, list \cup always \cup ever \subseteq Block,
         always \subseteq there, there \subseteq ever, list \subseteq ever,
         \A o \in always : o \in list \/ Shard(o) \in todo,
         NEW r, r = EndOrGoOn(Listing(todo, list, always, ever))
  PROVE  OpType(r) /\ Fits(r, ds, there)
<1>1. PICK e : e = Listing(todo, list, always, ever)
  OBVIOUS
<1>2. /\ e.kind = "list" /\ e.todo = todo /\ e.list = list
      /\ e.always = always /\ e.ever = ever
  BY <1>1 DEF Listing
<1>3. CASE todo = {}
  <2>1. r = Listed(list, always, ever)
    BY <1>1, <1>2, <1>3 DEF EndOrGoOn
  <2>2. r.kind = "listed" /\ r.list = list /\ r.always = always /\ r.ever = ever
    BY <2>1 DEF Listed
  <2>3. always \subseteq list
    BY <1>3
  <2> QED
    <3>1. OpType(r)
      BY <2>1, KindFacts
    <3>2. Fits(r, ds, there)
      BY <2>2, <2>3 DEF Fits
    <3> QED
      BY <3>1, <3>2
<1>4. CASE todo # {}
  <2>1. r = e
    BY <1>1, <1>2, <1>4 DEF EndOrGoOn
  <2>2. OpType(r)
    BY <1>1, <2>1, KindFacts
  <2>3. Fits(e, ds, there)
    BY <1>2 DEF Fits
  <2> QED
    BY <2>1, <2>2, <2>3
<1> QED
  BY <1>3, <1>4

\* The names in a shard directory parse to the blocks that are in it.
LEMMA ParsedNames ==
  ASSUME NEW d, DOMAIN link \subseteq Block
  PROVE  Parsed(Names(d)) = { o \in DOMAIN link : Shard(o) = d }
<1>1. ASSUME NEW o \in DOMAIN link, Shard(o) = d
      PROVE  o \in Parsed(Names(d))
  <2>1. o.s \in Names(d)
    BY <1>1 DEF Names
  <2>2. FromString(o.s) = o /\ o # NoOid
    BY FromStringFacts
  <2> QED
    BY <2>1, <2>2 DEF Parsed
<1>2. ASSUME NEW o \in Parsed(Names(d))
      PROVE  o \in DOMAIN link /\ Shard(o) = d
  <2>1. PICK n \in Names(d) : o = FromString(n) /\ o # NoOid
    BY <1>2 DEF Parsed
  <2>2. CASE \E x \in DOMAIN link : Shard(x) = d /\ n = x.s
    <3>1. PICK x \in DOMAIN link : Shard(x) = d /\ n = x.s
      BY <2>2
    <3>2. FromString(x.s) = x
      BY FromStringFacts
    <3> QED
      BY <2>1, <3>1, <3>2
  <2>3. CASE \E f \in Stray : n = f.name
    BY <2>1, <2>3, FromStringFacts
  <2> QED
    BY <2>1, <2>2, <2>3 DEF Names
<1> QED
  BY <1>1, <1>2

\* Enumerate starts with what is linked, and lists what it finds in a directory.
LEMMA EnumerateFull ==
  ASSUME FullInv, IInv', NEW c \in Caller,
         EnumerateBase(c) \/ EnumerateShard(c) \/ EnumerateFails(c)
  PROVE  FullInv'
<1>1. op[c].kind \notin {"write", "read"} /\ UNCHANGED <<dirs, link, data, torn>>
  BY DEF EnumerateBase, EnumerateShard, EnumerateFails, Free, IsListing
<1>2. \E r : /\ op' = [op EXCEPT ![c] = r]
             /\ r.kind \notin {"write", "read"}
             /\ OpType(r) /\ Fits(r, dirs, DOMAIN link)
  <2>1. CASE EnumerateBase(c)
    <3>1. PICK r : r = EndOrGoOn(Listing(dirs, {}, DOMAIN link, DOMAIN link))
      OBVIOUS
    <3>2. op' = [op EXCEPT ![c] = r]
      BY <2>1, <3>1 DEF EnumerateBase
    <3>3. DOMAIN link \subseteq Block /\ \A o \in DOMAIN link : Shard(o) \in dirs
      BY FullInvFacts
    <3>4. OpType(r) /\ Fits(r, dirs, DOMAIN link)
      BY <3>1, <3>3, EndOrGoOnFull
    <3>5. r.kind \notin {"write", "read"}
      BY <3>1, EndOrGoOnFacts
    <3> QED
      BY <3>2, <3>4, <3>5
  <2>2. CASE EnumerateShard(c)
    <3>1. PICK e, d : /\ e = op[c] /\ d \in e.todo
                      /\ op' = [op EXCEPT ![c] =
                           EndOrGoOn(Listing(e.todo \ {d}, e.list \cup Parsed(Names(d)),
                                             e.always, e.ever))]
      BY <2>2 DEF EnumerateShard
    <3>2. e.kind = "list" /\ OpType(e) /\ Fits(e, dirs, DOMAIN link)
      BY <2>2, <3>1, FullInvFacts DEF EnumerateShard, IsListing
    <3>3. PICK r, todo, list :
            /\ todo = e.todo \ {d} /\ list = e.list \cup Parsed(Names(d))
            /\ r = EndOrGoOn(Listing(todo, list, e.always, e.ever))
      OBVIOUS
    <3>4. Parsed(Names(d)) = { o \in DOMAIN link : Shard(o) = d }
      BY ParsedNames, FullInvFacts
    <3>5. /\ e.todo \subseteq dirs
          /\ e.always \subseteq DOMAIN link /\ DOMAIN link \subseteq e.ever
          /\ e.list \subseteq e.ever
          /\ \A o \in e.always : o \in e.list \/ Shard(o) \in e.todo
      BY <3>2 DEF Fits
    <3>6. e.list \cup e.always \cup e.ever \subseteq Block
      BY <3>2, ListFacts
    <3>7. \A o \in e.always : o \in list \/ Shard(o) \in todo
      BY <3>3, <3>4, <3>5
    <3>8. /\ list \subseteq e.ever /\ todo \subseteq dirs
          /\ list \cup e.always \cup e.ever \subseteq Block
      BY <3>3, <3>4, <3>5, <3>6
    <3>9. OpType(r) /\ Fits(r, dirs, DOMAIN link)
      BY <3>3, <3>5, <3>7, <3>8, EndOrGoOnFull
    <3>10. r.kind \notin {"write", "read"}
      BY <3>3, EndOrGoOnFacts
    <3>11. op' = [op EXCEPT ![c] = r]
      BY <3>1, <3>3
    <3> QED
      BY <3>9, <3>10, <3>11
  <2>3. CASE EnumerateFails(c)
    <3>1. PICK r : r = NoOp /\ r.kind = "none" /\ OpType(r)
      BY KindFacts
    <3>2. Fits(r, dirs, DOMAIN link)
      BY <3>1, FitFacts
    <3> QED
      BY <2>3, <3>1, <3>2 DEF EnumerateFails
  <2> QED
    BY <2>1, <2>2, <2>3
<1>3. PICK r : /\ op' = [op EXCEPT ![c] = r]
               /\ r.kind \notin {"write", "read"}
               /\ OpType(r) /\ Fits(r, dirs, DOMAIN link)
  BY <1>2
<1> QED
  BY <1>1, <1>3, OpStep

\* An empty store satisfies the full invariant.
LEMMA InitFull == Init => FullInv
<1> SUFFICES ASSUME Init
             PROVE  FullInv
  OBVIOUS
<1>1. /\ dirs = { f.dir : f \in Stray } /\ op = [c \in Caller |-> NoOp]
      /\ DOMAIN link = {} /\ DOMAIN data = {} /\ torn = {}
  BY DEF Init
<1>2. \A c \in Caller : OpType(op[c]) /\ op[c].kind = "none"
  BY <1>1, KindFacts
<1>3. OpsFit
  BY <1>2, FitFacts DEF OpsFit
<1>4. LinksInv
  BY <1>1, <1>2 DEF LinksInv, InUse
<1> QED
  BY <1>3, <1>4, InitInv DEF FullInv

\* Every step preserves the full invariant.
LEMMA NextFull == FullInv /\ [Next]_vars => FullInv'
<1> SUFFICES ASSUME FullInv, [Next]_vars
             PROVE  FullInv'
  OBVIOUS
<1>1. IInv'
  BY NextInv DEF FullInv
<1>2. ASSUME NEW c \in Caller, NEW o \in Block,
             PutEnsureDir(c, o) \/ GetOpen(c, o) \/ Delete(c, o)
      PROVE  FullInv'
  BY <1>1, <1>2, PutEnsureDirFull, GetOpenFull, DeleteFull
<1>3. ASSUME NEW c \in Caller,
             \/ PutOpen(c) \/ PutWrite(c) \/ PutReturn(c) \/ PutFails(c)
             \/ GetRead(c) \/ GetFails(c)
             \/ EnumerateBase(c) \/ EnumerateShard(c) \/ EnumerateFails(c)
      PROVE  FullInv'
  BY <1>1, <1>3, PutOpenFull, PutWriteFull, EndsFull, GetReadFull, EnumerateFull
<1>4. CASE Kill
  BY <1>1, <1>4, KillFull
<1>5. CASE UNCHANGED vars
  BY <1>1, <1>5 DEF vars, FullInv, OpsFit, LinksInv, InUse
<1> QED
  BY <1>2, <1>3, <1>4, <1>5 DEF Next

\* The invariant with types holds as well.
THEOREM FullInvariant == Spec => []FullInv
<1> QED
  BY InitFull, NextFull, PTL DEF Spec

\* Files lie in shards that exist, no two blocks share one, and no file is longer than
\* its block, whatever goroutines do side by side (flatfs.go:59-182).
THEOREM TypeCorrect == Spec => []TypeOK
<1>1. FullInv => TypeOK
  BY FullInvTypeOK
<1> QED
  BY <1>1, FullInvariant, PTL

\* Enumerate (flatfs.go:59-106) returns every block that was there from its start to
\* its end and none that never was, since the names of files parse to their OIDs
\* (oid.go:113-126) and no other name does.
THEOREM EnumerateCorrect == Spec => []EnumerateIsComplete
<1>1. FullInv => EnumerateIsComplete
  BY FullInvTypeOK
<1> QED
  BY <1>1, FullInvariant, PTL
=============================================================================
