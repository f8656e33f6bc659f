------------------------------ MODULE IndexKeys -----------------------------
(***************************************************************************)
(* How the journal is laid out in LevelDB, and how the block index reads   *)
(* it back.  LevelDB orders keys as text, and the two scans of             *)
(* datastore/leveldb/blockindex.go, for the last sequence number and for a *)
(* range of them, rely on that order to be the order of numbers.  IndexOps *)
(* speaks of numbers only; here the same scans run over the keys.          *)
(*                                                                         *)
(* A key is the sequence of its digits; the fixed prefix SEQ that all      *)
(* journal keys share is left out.                                         *)
(***************************************************************************)
EXTENDS BlockIndex, Sequences

CONSTANTS
  Base,   \* 16 in the code
  Width   \* 16 in the code

ASSUME BaseAssumption == Base \in Nat /\ Base >= 2

\* Shifted(s)[i]: what is left of s without its last i digits.
Shifted(s) ==
  LET shifted[i \in Nat] == IF i = 0 THEN s ELSE shifted[i - 1] \div Base
  IN  shifted

\* Every sequence number fits the width of a key, as a uint64 does.
ASSUME WidthAssumption == Width \in Nat \ {0} /\ Shifted(MaxSeq + 1)[Width] = 0

\* The digit of s that i digits follow.
DigitAt(s, i) == Shifted(s)[i] % Base

\* Mutant: the format has no width, so the key has only significant digits.
KeyOfDigits(s) ==
  LET n == CHOOSE k \in 1 .. Width :
             Shifted(s)[k] = 0 /\ (k = 1 \/ Shifted(s)[k - 1] # 0)
  IN  [i \in 1 .. n |-> DigitAt(s, n - i)]

\* keyFromSeq: all digits of the sequence number, zeros in front.
KeyFromSeq(s) == [i \in 1 .. Width |-> DigitAt(s, Width - i)]

\* seqFromKey: the number that the digits of a key stand for.
SeqFromKey(key) ==
  LET value[k \in 0 .. Len(key)] == IF k = 0 THEN 0 ELSE value[k - 1] * Base + key[k]
  IN  value[Len(key)]

\* LevelDB's order of keys: byte by byte, a prefix before what it begins.
KeyBefore(a, b) ==
  \/ Len(a) < Len(b) /\ \A j \in DOMAIN a : a[j] = b[j]
  \/ \E i \in DOMAIN a \cap DOMAIN b :
       /\ a[i] < b[i]
       /\ \A j \in 1 .. i - 1 : a[j] = b[j]

\* The database under its journal keys, which KeyFromSeq makes different.
JournalKeys(ix) == { KeyFromSeq(s) : s \in DOMAIN ix.bySeq }
RecordAt(ix, key) == ix.bySeq[CHOOSE s \in DOMAIN ix.bySeq : KeyFromSeq(s) = key]

\* NewBlockIndex: the iterator's last key, read back as a number.
ScanLast(ix) ==
  IF JournalKeys(ix) = {} THEN 0
  ELSE SeqFromKey(CHOOSE k \in JournalKeys(ix) :
                    \A other \in JournalKeys(ix) : ~ KeyBefore(k, other))

\* EnumerateBySeq: the records from one key up to, and without, another.
ScanRange(ix, start, end) ==
  { RecordAt(ix, k) : k \in { key \in JournalKeys(ix) :
      ~ KeyBefore(key, KeyFromSeq(start)) /\ KeyBefore(key, KeyFromSeq(end)) } }

-----------------------------------------------------------------------------

\* Over keys compared as text, a restart finds the greatest sequence number
\* (a smaller one would make the next Put overwrite a journal record), and a
\* peer that asks for a range gets the records of these numbers, neither fewer
\* nor others, for a journal of whatever length fits the width.
ScansFollowNumbers ==
  /\ ScanLast(index) = LastKey(index)
  /\ \A start, end \in 1 .. MaxSeq + 1 :
       start <= end => ScanRange(index, start, end) = EnumerateBySeq(index, start, end)
=============================================================================
