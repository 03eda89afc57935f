-------------------------------- MODULE Base64 --------------------------------
(***************************************************************************)
(* base64() and unbase64() of Common.cc: the encoding of the credentials   *)
(* that HttpProducer sends, and its inverse.                               *)
(*                                                                         *)
(* A character of the encoding is its index in the alphabet b64, which     *)
(* unb64 takes back to the index; "=" is the index after the last.  The    *)
(* loops fill groups of four characters and of three bytes: what is in the *)
(* k-th place is given here by k.                                          *)
(***************************************************************************)
EXTENDS Integers, Sequences

Byte   == 0 .. 255
Digit  == 0 .. 63
Equals == 64

-----------------------------------------------------------------------------

\* How many "=" there are: one byte in the last group makes two, two make one.
Pad(len) == LET m == len % 3 IN (m % 2) * 2 + m \div 2

EncodedLength(len) == (4 * (len + Pad(len))) \div 3

\* A byte past the end adds nothing to the digit before it.
ByteAt(bin, i) == IF i < Len(bin) THEN bin[i + 1] ELSE 0

\* res[k]: what there is of the three bytes g, g + 1 and g + 2.
EncodedChar(bin, k) ==
  LET g == 3 * (k \div 4)
      r == k % 4
  IN IF g + r > Len(bin) THEN Equals ELSE
     CASE r = 0 -> ByteAt(bin, g) \div 4
       [] r = 1 -> ((ByteAt(bin, g) % 4) * 16) + ByteAt(bin, g + 1) \div 16
       [] r = 2 -> ((ByteAt(bin, g + 1) % 16) * 4) + ByteAt(bin, g + 2) \div 64
       [] r = 3 -> ByteAt(bin, g + 2) % 64

Encode(bin) ==
  [k \in 1 .. EncodedLength(Len(bin)) |-> EncodedChar(bin, k - 1)]

-----------------------------------------------------------------------------

\* "=" in the last place and in the last but one.
DecodedPad(ascii) ==
    (IF ascii[Len(ascii)] = Equals THEN 1 ELSE 0)
  + (IF ascii[Len(ascii) - 1] = Equals THEN 1 ELSE 0)

DecodedLength(ascii) == (3 * Len(ascii)) \div 4 - DecodedPad(ascii)

\* bin[j]; the bits that are shifted out of the byte are lost.
DecodedByte(ascii, j) ==
  LET g == 4 * (j \div 3)
      r == j % 3
  IN CASE r = 0 -> ((ascii[g + 1] * 4) % 256) + ascii[g + 2] \div 16
       [] r = 1 -> ((ascii[g + 2] * 16) % 256) + ascii[g + 3] \div 4
       [] r = 2 -> ((ascii[g + 3] * 64) % 256) + ascii[g + 4]

\* Of a text of whole groups.
Decode(ascii) ==
  [j \in 1 .. DecodedLength(ascii) |-> DecodedByte(ascii, j - 1)]

=============================================================================
