-------------------------------- MODULE Oids --------------------------------
(***************************************************************************)
(* Object identifiers: oid/oid.go.  The bytes of an OID are its type, two  *)
(* bytes of padding and a hash; its text is their base32 encoding, which   *)
(* names the block's file.  A text is the sequence of the values of its    *)
(* characters, five bits each; a character outside of the alphabet has     *)
(* another value, and a line end one of two.                               *)
(***************************************************************************)
EXTENDS Naturals, Sequences

CONSTANT HashLen   \* 32 in the code

OidPaddingByte == 0
OidLen == HashLen + 3

\* The bytes then fill the text without the padding that base32 has for others.
ASSUME HashLenAssumption == HashLen \in Nat \ {0} /\ OidLen % 5 = 0

\* The zero Oid, returned with an error.
NoOid == [b |-> <<>>, t |-> 0, s |-> <<>>]

\* The last bit of a number stands for 1, the one before it for 2, and so on.
Weight == <<1, 2, 4, 8, 16, 32, 64, 128>>

\* Bit i, the first one being 0, of a sequence of numbers of w bits each.
BitOf(seq, w, i) == (seq[(i \div w) + 1] \div Weight[w - (i % w)]) % 2

\* The number whose w bits are those of seq, in numbers of v bits, from bit i on.
Bits(seq, v, i, w) ==
  LET sum[k \in 0 .. w] == IF k = 0 THEN 0 ELSE 2 * sum[k - 1] + BitOf(seq, v, i + k - 1)
  IN  sum[w]

\* base32.StdEncoding, for whole groups of five bytes and eight characters.
EncodeToString(bytes) ==
  [k \in 1 .. (8 * Len(bytes)) \div 5 |-> Bits(bytes, 8, 5 * (k - 1), 5)]

\* "\n" and "\r", which decoding drops before it looks at anything.
LineEnds == {32, 33}

Stripped(text) ==
  IF \A k \in DOMAIN text : text[k] \notin LineEnds
  THEN text
  ELSE SelectSeq(text, LAMBDA ch : ch \notin LineEnds)

IsBase32(text) == Len(text) % 8 = 0 /\ \A k \in DOMAIN text : text[k] \in 0 .. 31

DecodeString(text) ==
  [k \in 1 .. (5 * Len(text)) \div 8 |-> Bits(text, 5, 8 * (k - 1), 8)]

\* The value in memory for the bytes of an OID.
FromBytes(t, bytes) == [b |-> bytes, t |-> t, s |-> EncodeToString(bytes)]

\* The type is kept as an int and cut to a byte in the bytes.
Encode(t, hash) ==
  FromBytes(t, <<t % 256, OidPaddingByte, OidPaddingByte>> \o hash)

\* Mutant: the padding is not looked at.
UnmarshalAnyPadding(data) ==
  IF Len(data) # OidLen THEN NoOid ELSE FromBytes(data[1], data)

UnmarshalBinary(data) ==
  IF \/ Len(data) # OidLen
     \/ data[2] # OidPaddingByte
     \/ data[3] # OidPaddingByte
  THEN NoOid
  ELSE FromBytes(data[1], data)

FromString(text) ==
  LET chars == Stripped(text)
  IN  IF IsBase32(chars) THEN UnmarshalBinary(DecodeString(chars)) ELSE NoOid
=============================================================================
