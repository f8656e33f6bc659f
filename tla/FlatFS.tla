------------------------------- MODULE FlatFS -------------------------------
(***************************************************************************)
(* The block store on files: datastore/flatfs/flatfs.go, with the object   *)
(* identifiers of oid/oid.go that name the files.                          *)
(*                                                                         *)
(* The store has no lock and no state in memory.  Goroutines call it side  *)
(* by side and meet only in the file system, where Put creates or empties  *)
(* a file in place and then writes it piece by piece, and Get reads it     *)
(* piece by piece.  An open file stays the same file (inode) when its name *)
(* is removed.  The process can be killed at any step.                     *)
(*                                                                         *)
(* A block's data is what its OID says (datamodel/block/block.go: the OID  *)
(* of a block is identified by the block's content), so all that matters   *)
(* of a file is which pieces of the block it holds: it is a sequence of    *)
(* the numbers of the pieces, 0 for a hole.                                *)
(***************************************************************************)
EXTENDS Oids, FiniteSets

F == INSTANCE Functions

CONSTANTS
  Caller,    \* the goroutines that use the store
  Block,     \* the OIDs of the blocks in play
  Stray,     \* what else is in the shard directories: records [dir, name]
  Inode,     \* identities of files: enough for all that are linked or open
  Pieces     \* the number of pieces a block is written and read in

\* The types that there are fit in a byte (oid.go:14-17).
IsOid(o) ==
  /\ o.t \in 0 .. 255
  /\ o.b \in [1 .. OidLen -> 0 .. 255]
  /\ o = Encode(o.t, SubSeq(o.b, 4, OidLen))

\* A text that stands for the bytes of an OID; there may be line ends in it.
IsOidText(text) ==
  /\ IsBase32(Stripped(text))
  /\ LET bytes == DecodeString(Stripped(text))
     IN  Len(bytes) = OidLen /\ bytes[2] = OidPaddingByte /\ bytes[3] = OidPaddingByte

ASSUME BlockAssumption == \A o \in Block : IsOid(o)
ASSUME StrayAssumption == \A f \in Stray : ~ IsOidText(f.name)
ASSUME PiecesAssumption == Pieces \in Nat \ {0}

VARIABLES
  dirs,   \* the shard directories that exist
  link,   \* link[o]: the file under the path of o, for the files that exist
  data,   \* data[i]: what is in file i, for the files that are linked or open
  op,     \* op[c]: what goroutine c is doing, or the result it last got
  torn,   \* history: the files some Put of which was cut short
  acked   \* history: the blocks whose Put returned no error, until a Delete

vars == <<dirs, link, data, op, torn, acked>>

Whole == [n \in 1 .. Pieces |-> n]

\* oidToPath: the directory is the first four characters of the file's name.
Shard(o) == SubSeq(o.s, 1, 4)

\* What a goroutine may be doing.  kept, clean, always and ever are history:
\* no Delete of the block, no disturbance of the file, the blocks that were
\* there all the time, the blocks that were there at some time.
NoOp == [kind |-> "none"]
Opening(o) == [kind |-> "open", oid |-> o]
Writing(o, i, next, kept) ==
  [kind |-> "write", oid |-> o, file |-> i, next |-> next, kept |-> kept]
Reading(o, i, got, clean) ==
  [kind |-> "read", oid |-> o, file |-> i, got |-> got, clean |-> clean]
Listing(todo, list, always, ever) ==
  [kind |-> "list", todo |-> todo, list |-> list, always |-> always, ever |-> ever]

\* The results whose content a property is about.
Got(o, got, clean) == [kind |-> "got", oid |-> o, got |-> got, clean |-> clean]
Listed(list, always, ever) ==
  [kind |-> "listed", list |-> list, always |-> always, ever |-> ever]

Free(c) == op[c].kind \in {"none", "got", "listed"}
IsWriting(c) == op[c].kind = "write"
IsReading(c) == op[c].kind = "read"
IsListing(c) == op[c].kind = "list"

Writers(i) == { c \in Caller : IsWriting(c) /\ op[c].file = i }

\* The file system forgets a file that has neither a name nor an open handle.
InUse(l, ops) ==
  { l[o] : o \in DOMAIN l } \cup
  { ops[c].file : c \in { d \in Caller : ops[d].kind \in {"write", "read"} } }

FileSystem(l, d, ops, t) ==
  /\ link' = l
  /\ data' = F!Restrict(d, InUse(l, ops))
  /\ op' = ops
  /\ torn' = t \cap InUse(l, ops)

Init ==
  /\ dirs = { f.dir : f \in Stray }
  /\ link = [o \in {} |-> o]
  /\ data = [i \in {} |-> i]
  /\ op = [c \in Caller |-> NoOp]
  /\ torn = {}
  /\ acked = {}

-----------------------------------------------------------------------------
(* Put *)

\* ensureDir: an existing directory is as good as one just made.
PutEnsureDir(c, o) ==
  /\ Free(c)
  /\ dirs' = dirs \cup {Shard(o)}
  /\ op' = [op EXCEPT ![c] = Opening(o)]
  /\ UNCHANGED <<link, data, torn, acked>>

\* The goroutines' view once the file of o is created or emptied.
OpsOnOpen(o, i) ==
  [c \in Caller |->
     CASE IsReading(c) /\ op[c].file = i -> [op[c] EXCEPT !.clean = FALSE]
       [] IsListing(c) -> [op[c] EXCEPT !.ever = @ \cup {o}]
       [] OTHER -> op[c]]

\* os.WriteFile opens the file; it creates it, or empties the one that is there.
PutOpen(c) ==
  /\ op[c].kind = "open"
  /\ LET o == op[c].oid IN
       \E i \in IF o \in DOMAIN link THEN {link[o]} ELSE Inode \ DOMAIN data :
         FileSystem([x \in DOMAIN link \cup {o} |-> IF x = o THEN i ELSE link[x]],
                    [j \in DOMAIN data \cup {i} |-> IF j = i THEN <<>> ELSE data[j]],
                    [OpsOnOpen(o, i) EXCEPT ![c] = Writing(o, i, 1, TRUE)],
                    torn)
  /\ UNCHANGED <<dirs, acked>>

\* Mutant: the file is opened for appending.
WriteAtEnd(f, n) == Append(f, n)

\* Piece n written at its offset; a file that ends before it gets a hole.
WriteAt(f, n) ==
  [k \in 1 .. (IF n > Len(f) THEN n ELSE Len(f)) |->
     IF k = n THEN n ELSE IF k <= Len(f) THEN f[k] ELSE 0]

PutWrite(c) ==
  /\ IsWriting(c)
  /\ op[c].next <= Pieces
  /\ data' = [data EXCEPT ![op[c].file] = WriteAt(@, op[c].next)]
  /\ op' = [op EXCEPT ![c].next = @ + 1]
  /\ UNCHANGED <<dirs, link, torn, acked>>

PutReturn(c) ==
  /\ IsWriting(c)
  /\ op[c].next > Pieces
  /\ acked' = IF op[c].kept THEN acked \cup {op[c].oid} ELSE acked
  /\ FileSystem(link, data, [op EXCEPT ![c] = NoOp], torn)
  /\ UNCHANGED dirs

\* Mutant: a Put that fails removes what it has written.
PutFailsAndRemoves(c) ==
  /\ IsWriting(c)
  /\ FileSystem(F!Restrict(link, DOMAIN link \ {op[c].oid}), data,
                [op EXCEPT ![c] = NoOp], torn)
  /\ UNCHANGED <<dirs, acked>>

\* The open, a write or the close fails: the file stays as it is.
PutFails(c) ==
  /\ op[c].kind = "open" \/ IsWriting(c)
  /\ FileSystem(link, data, [op EXCEPT ![c] = NoOp],
                IF IsWriting(c) THEN torn \cup {op[c].file} ELSE torn)
  /\ UNCHANGED <<dirs, acked>>

-----------------------------------------------------------------------------
(* Get, Has and Delete *)

Has(o) == o \in DOMAIN link

\* os.ReadFile opens the file; without one, Get returns an error.
GetOpen(c, o) ==
  /\ Free(c)
  /\ Has(o)
  /\ op' = [op EXCEPT ![c] =
       Reading(o, link[o], <<>>, Writers(link[o]) = {} /\ link[o] \notin torn)]
  /\ UNCHANGED <<dirs, link, data, torn, acked>>

\* One read: the next piece, or, at the end of the file, the block is returned
\* with what was read as its data.
GetRead(c) ==
  /\ IsReading(c)
  /\ LET e == op[c]
         n == Len(e.got) + 1
         file == data[e.file]
     IN  FileSystem(link, data,
           [op EXCEPT ![c] =
              IF n <= Len(file) THEN [e EXCEPT !.got = Append(@, file[n])]
              ELSE Got(e.oid, e.got, e.clean)],
           torn)
  /\ UNCHANGED <<dirs, acked>>

GetFails(c) ==
  /\ IsReading(c)
  /\ FileSystem(link, data, [op EXCEPT ![c] = NoOp], torn)
  /\ UNCHANGED <<dirs, acked>>

\* The goroutines' view once the name of o is removed.
OpsOnDelete(o) ==
  [c \in Caller |->
     CASE op[c].kind = "write" /\ op[c].oid = o -> [op[c] EXCEPT !.kept = FALSE]
       [] IsListing(c) -> [op[c] EXCEPT !.always = @ \ {o}]
       [] OTHER -> op[c]]

\* Mutant: the file is emptied before its name is removed.
DeleteTruncates(c, o) ==
  /\ Free(c)
  /\ Has(o)
  /\ FileSystem(F!Restrict(link, DOMAIN link \ {o}), [data EXCEPT ![link[o]] = <<>>],
                [OpsOnDelete(o) EXCEPT ![c] = NoOp], torn)
  /\ acked' = acked \ {o}
  /\ UNCHANGED dirs

\* os.Remove.  For a block that is not there Delete returns no error either.
Delete(c, o) ==
  /\ Free(c)
  /\ Has(o)
  /\ FileSystem(F!Restrict(link, DOMAIN link \ {o}), data,
                [OpsOnDelete(o) EXCEPT ![c] = NoOp], torn)
  /\ acked' = acked \ {o}
  /\ UNCHANGED dirs

-----------------------------------------------------------------------------
(* Enumerate *)

\* Nothing left to read: the list is the result.
EndOrGoOn(e) ==
  IF e.todo = {} THEN Listed(e.list, e.always, e.ever) ELSE e

\* The base directory is read.
EnumerateBase(c) ==
  /\ Free(c)
  /\ op' = [op EXCEPT ![c] = EndOrGoOn(Listing(dirs, {}, DOMAIN link, DOMAIN link))]
  /\ UNCHANGED <<dirs, link, data, torn, acked>>

\* The names of the files in a shard directory.
Names(d) ==
  { o.s : o \in { x \in DOMAIN link : Shard(x) = d } } \cup
  { f.name : f \in { x \in Stray : x.dir = d } }

\* Names that are not those of OIDs are left out.
Parsed(names) == { FromString(n) : n \in names } \ {NoOid}

\* A shard directory is read.
EnumerateShard(c) ==
  /\ IsListing(c)
  /\ \E d \in op[c].todo :
       op' = [op EXCEPT ![c] =
         EndOrGoOn(Listing(@.todo \ {d}, @.list \cup Parsed(Names(d)), @.always, @.ever))]
  /\ UNCHANGED <<dirs, link, data, torn, acked>>

\* Mutant: a shard that cannot be read is left out.
EnumerateSkips(c) ==
  /\ IsListing(c)
  /\ \E d \in op[c].todo :
       op' = [op EXCEPT ![c] = EndOrGoOn([op[c] EXCEPT !.todo = @ \ {d}])]
  /\ UNCHANGED <<dirs, link, data, torn, acked>>

\* A shard cannot be read: an error and no list.
EnumerateFails(c) ==
  /\ IsListing(c)
  /\ op' = [op EXCEPT ![c] = NoOp]
  /\ UNCHANGED <<dirs, link, data, torn, acked>>

-----------------------------------------------------------------------------

\* The process is killed.  What it wrote is in the file system.
Kill ==
  /\ FileSystem(link, data, [c \in Caller |-> NoOp],
                torn \cup { op[c].file : c \in { d \in Caller : IsWriting(d) } })
  /\ UNCHANGED <<dirs, acked>>

Next ==
  \/ \E c \in Caller :
       \/ \E o \in Block : PutEnsureDir(c, o)
       \/ PutOpen(c)
       \/ PutWrite(c)
       \/ PutReturn(c)
       \/ PutFails(c)
       \/ \E o \in Block : GetOpen(c, o)
       \/ GetRead(c)
       \/ GetFails(c)
       \/ \E o \in Block : Delete(c, o)
       \/ EnumerateBase(c)
       \/ EnumerateShard(c)
       \/ EnumerateFails(c)
  \/ Kill

Spec == Init /\ [][Next]_vars

-----------------------------------------------------------------------------
(* Properties *)

Piecewise(f) == f \in Seq(0 .. Pieces) /\ Len(f) <= Pieces

OpType(r) ==
  CASE r.kind = "none" -> r = NoOp
    [] r.kind = "open" -> r = Opening(r.oid) /\ r.oid \in Block
    [] r.kind = "write" ->
         /\ r = Writing(r.oid, r.file, r.next, r.kept)
         /\ r.oid \in Block /\ r.next \in 1 .. Pieces + 1 /\ r.kept \in BOOLEAN
    [] r.kind = "read" ->
         /\ r = Reading(r.oid, r.file, r.got, r.clean)
         /\ r.oid \in Block /\ Piecewise(r.got) /\ r.clean \in BOOLEAN
    [] r.kind = "got" ->
         /\ r = Got(r.oid, r.got, r.clean)
         /\ r.oid \in Block /\ Piecewise(r.got) /\ r.clean \in BOOLEAN
    [] r.kind = "list" ->
         /\ r = Listing(r.todo, r.list, r.always, r.ever)
         /\ r.list \cup r.always \cup r.ever \subseteq Block
    [] r.kind = "listed" ->
         /\ r = Listed(r.list, r.always, r.ever)
         /\ r.list \cup r.always \cup r.ever \subseteq Block

\* Every file lies in a shard that exists and is never longer than a block,
\* and the files known are those that are linked or open.
TypeOK ==
  /\ dirs \subseteq { Shard(o) : o \in Block } \cup { f.dir : f \in Stray }
  /\ DOMAIN link \subseteq Block
  /\ \A o \in DOMAIN link : link[o] \in Inode /\ Shard(o) \in dirs
  /\ \A o, p \in DOMAIN link : link[o] = link[p] => o = p
  /\ DOMAIN data = InUse(link, op) /\ DOMAIN data \subseteq Inode
  /\ \A i \in DOMAIN data : Piecewise(data[i])
  /\ DOMAIN op = Caller
  /\ \A c \in Caller : OpType(op[c]) /\ (IsListing(c) => op[c].todo \subseteq dirs)
  /\ torn \subseteq DOMAIN data
  /\ acked \subseteq Block

\* Puts of one block that empty and write its file at the same time, also across
\* a Delete, leave it whole: a file under a name that is not whole is being
\* written, or some Put of it failed or was killed.
FilesWhole ==
  \A o \in DOMAIN link :
    data[link[o]] = Whole \/ Writers(link[o]) # {} \/ link[o] \in torn

\* A block whose Put has returned no error is there until a Delete of it, however
\* many other Puts of the block fail or are killed.
AcknowledgedStays == \A o \in acked : Has(o)

\* A block that Get returns is whole when no Put of it was in progress or cut
\* short before the file was opened, and none emptied the file since.  A Delete
\* in the middle of the reads does not matter.
GetIsWhole ==
  \A c \in Caller : op[c].kind = "got" /\ op[c].clean => op[c].got = Whole

\* "A complete list or none" (flatfs.go:80): a list that Enumerate returns holds
\* every block that was there from its start to its end, and no block that was
\* never there, while other goroutines put and delete blocks.
EnumerateIsComplete ==
  \A c \in Caller :
    op[c].kind = "listed" =>
      /\ op[c].always \subseteq op[c].list
      /\ op[c].list \subseteq op[c].ever
=============================================================================
