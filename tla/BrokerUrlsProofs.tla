--------------------------- MODULE BrokerUrlsProofs ---------------------------
(***************************************************************************)
(* The invariants of BrokerUrls.                                           *)
(*                                                                         *)
(* First, unbase64() undoes base64(), for texts of any length.  Then what  *)
(* Url does: how a text that is joined of parts is taken apart again, and  *)
(* what it reads in a target, for all parts that a target may have.  Then  *)
(* what split_string() does: one target more is one token more.  With that *)
(* the invariant, ListsInv, says that the tokens of the list are the       *)
(* targets, and the properties follow from what Url reads in each.         *)
(*                                                                         *)
(* Text is Seq(Symbol).  It is expanded only where a lemma is about        *)
(* sequences; elsewhere texts are known by the lemmas about them.          *)
(***************************************************************************)
EXTENDS BrokerUrls, FiniteSetTheorems, WellFoundedInduction, TLAPS

-----------------------------------------------------------------------------
(***************************************************************************)
(* base64() and unbase64()                                                 *)
(***************************************************************************)

\* Three bytes become four digits, and the digits the bytes again.
LEMMA GroupRoundTrip ==
  ASSUME NEW a \in Byte, NEW b \in Byte, NEW c \in Byte
  PROVE  LET w == a \div 4
             x == ((a % 4) * 16) + b \div 16
             y == ((b % 16) * 4) + c \div 64
             z == c % 64
         IN /\ w \in Digit /\ x \in Digit /\ y \in Digit /\ z \in Digit
            /\ ((w * 4) % 256) + x \div 16 = a
            /\ ((x * 16) % 256) + y \div 4 = b
            /\ ((y * 64) % 256) + z = c
<1> DEFINE a1 == a \div 4
           a0 == a % 4
           b1 == b \div 16
           b0 == b % 16
           c1 == c \div 64
           c0 == c % 64
<1>1. /\ a1 \in 0 .. 63 /\ a0 \in 0 .. 3 /\ a = 4 * a1 + a0
      /\ b1 \in 0 .. 15 /\ b0 \in 0 .. 15 /\ b = 16 * b1 + b0
      /\ c1 \in 0 .. 3 /\ c0 \in 0 .. 63 /\ c = 64 * c1 + c0
  <2>1. a1 \in 0 .. 63 /\ a0 \in 0 .. 3 /\ a = 4 * a1 + a0
    BY DEF Byte
  <2>2. b1 \in 0 .. 15 /\ b0 \in 0 .. 15 /\ b = 16 * b1 + b0
    BY DEF Byte
  <2>3. c1 \in 0 .. 3 /\ c0 \in 0 .. 63 /\ c = 64 * c1 + c0
    BY DEF Byte
  <2> QED
    BY <2>1, <2>2, <2>3
<1> HIDE DEF a1, a0, b1, b0, c1, c0
<1>2. /\ a1 \in Digit /\ a0 * 16 + b1 \in Digit
      /\ b0 * 4 + c1 \in Digit /\ c0 \in Digit
  BY <1>1 DEF Digit
<1>3. ((a1 * 4) % 256) + (a0 * 16 + b1) \div 16 = a
  <2>1. (a1 * 4) % 256 = a1 * 4
    BY <1>1
  <2>2. (a0 * 16 + b1) \div 16 = a0
    BY <1>1
  <2> QED
    BY <1>1, <2>1, <2>2
<1>4. (((a0 * 16 + b1) * 16) % 256) + (b0 * 4 + c1) \div 4 = b
  <2>1. ((a0 * 16 + b1) * 16) % 256 = b1 * 16
    BY <1>1
  <2>2. (b0 * 4 + c1) \div 4 = b0
    BY <1>1
  <2> QED
    BY <1>1, <2>1, <2>2
<1>5. (((b0 * 4 + c1) * 64) % 256) + c0 = c
  <2>1. ((b0 * 4 + c1) * 64) % 256 = c1 * 64
    BY <1>1
  <2> QED
    BY <1>1, <2>1
<1> QED
  BY <1>2, <1>3, <1>4, <1>5 DEF a1, a0, b1, b0, c1, c0

\* The encoding of n bytes fills the last group.
LEMMA WholeGroups ==
  ASSUME NEW n \in Nat
  PROVE  /\ Pad(n) \in 0 .. 2
         /\ EncodedLength(n) \in Nat
         /\ EncodedLength(n) % 4 = 0
         /\ (3 * EncodedLength(n)) \div 4 = n + Pad(n)
BY SMTT(60) DEF Pad, EncodedLength

\* Past the end of the text there are zeroes.
LEMMA BytesAreBytes ==
  ASSUME NEW bin \in Seq(Byte), NEW i \in Nat
  PROVE  ByteAt(bin, i) \in Byte
<1>1. CASE i < Len(bin)
  BY <1>1 DEF ByteAt
<1>2. CASE ~(i < Len(bin))
  BY <1>2 DEF ByteAt, Byte
<1> QED
  BY <1>1, <1>2

\* The place r of the group m.
LEMMA PlaceOfGroup ==
  ASSUME NEW bin, NEW k, NEW m, NEW r, k \div 4 = m, k % 4 = r
  PROVE  /\ r = 0 => EncodedChar(bin, k) =
                        IF 3 * m + r > Len(bin) THEN Equals
                        ELSE ByteAt(bin, 3 * m) \div 4
         /\ r = 1 => EncodedChar(bin, k) =
                        IF 3 * m + r > Len(bin) THEN Equals
                        ELSE ((ByteAt(bin, 3 * m) % 4) * 16)
                               + ByteAt(bin, 3 * m + 1) \div 16
         /\ r = 2 => EncodedChar(bin, k) =
                        IF 3 * m + r > Len(bin) THEN Equals
                        ELSE ((ByteAt(bin, 3 * m + 1) % 16) * 4)
                               + ByteAt(bin, 3 * m + 2) \div 64
         /\ r = 3 => EncodedChar(bin, k) =
                        IF 3 * m + r > Len(bin) THEN Equals
                        ELSE ByteAt(bin, 3 * m + 2) % 64
<1>1. CASE r = 0
  BY <1>1 DEF EncodedChar
<1>2. CASE r = 1
  BY <1>2 DEF EncodedChar
<1>3. CASE r = 2
  BY <1>3 DEF EncodedChar
<1>4. CASE r = 3
  BY <1>4 DEF EncodedChar
<1> QED
  BY <1>1, <1>2, <1>3, <1>4

\* The four places of the group of the bytes q, q + 1 and q + 2.
LEMMA GroupChars ==
  ASSUME NEW bin \in Seq(Byte), NEW m \in Nat
  PROVE  LET a == ByteAt(bin, 3 * m)
             b == ByteAt(bin, 3 * m + 1)
             c == ByteAt(bin, 3 * m + 2)
         IN /\ 3 * m <= Len(bin) => EncodedChar(bin, 4 * m) = a \div 4
            /\ 3 * m + 1 <= Len(bin) =>
                 EncodedChar(bin, 4 * m + 1) = ((a % 4) * 16) + b \div 16
            /\ EncodedChar(bin, 4 * m + 2) =
                 IF 3 * m + 2 <= Len(bin) THEN ((b % 16) * 4) + c \div 64
                                          ELSE Equals
            /\ EncodedChar(bin, 4 * m + 3) =
                 IF 3 * m + 3 <= Len(bin) THEN c % 64 ELSE Equals
<1>1. /\ (4 * m) \div 4 = m /\ (4 * m) % 4 = 0
      /\ (4 * m + 1) \div 4 = m /\ (4 * m + 1) % 4 = 1
      /\ (4 * m + 2) \div 4 = m /\ (4 * m + 2) % 4 = 2
      /\ (4 * m + 3) \div 4 = m /\ (4 * m + 3) % 4 = 3
  OBVIOUS
<1>2. Len(bin) \in Nat
  OBVIOUS
<1> DEFINE n == Len(bin)
<1> HIDE DEF n
<1>3. n \in Nat /\ n = Len(bin)
  BY <1>2 DEF n
<1>4. 3 * m \in Nat
  OBVIOUS
<1>5. EncodedChar(bin, 4 * m) =
        IF 3 * m > n THEN Equals ELSE ByteAt(bin, 3 * m) \div 4
  <2>1. EncodedChar(bin, 4 * m) =
          IF 3 * m + 0 > n THEN Equals ELSE ByteAt(bin, 3 * m) \div 4
    BY <1>1, <1>3, PlaceOfGroup
  <2> QED
    BY <1>4, <2>1
<1>6. EncodedChar(bin, 4 * m + 1) =
        IF 3 * m + 1 > n THEN Equals
        ELSE ((ByteAt(bin, 3 * m) % 4) * 16) + ByteAt(bin, 3 * m + 1) \div 16
  BY <1>1, <1>3, PlaceOfGroup
<1>7. EncodedChar(bin, 4 * m + 2) =
        IF 3 * m + 2 > n THEN Equals
        ELSE ((ByteAt(bin, 3 * m + 1) % 16) * 4) + ByteAt(bin, 3 * m + 2) \div 64
  BY <1>1, <1>3, PlaceOfGroup
<1>8. EncodedChar(bin, 4 * m + 3) =
        IF 3 * m + 3 > n THEN Equals ELSE ByteAt(bin, 3 * m + 2) % 64
  BY <1>1, <1>3, PlaceOfGroup
<1> QED
  BY <1>3, <1>4, <1>5, <1>6, <1>7, <1>8

\* No digit of a whole group is a "=".
LEMMA GroupDigits ==
  ASSUME NEW bin \in Seq(Byte), NEW m \in Nat
  PROVE  /\ 3 * m + 2 <= Len(bin) => EncodedChar(bin, 4 * m + 2) # Equals
         /\ 3 * m + 3 <= Len(bin) => EncodedChar(bin, 4 * m + 3) # Equals
<1> DEFINE a == ByteAt(bin, 3 * m)
           b == ByteAt(bin, 3 * m + 1)
           c == ByteAt(bin, 3 * m + 2)
<1>1. a \in Byte /\ b \in Byte /\ c \in Byte
  BY BytesAreBytes
<1>2. /\ EncodedChar(bin, 4 * m + 2) =
           IF 3 * m + 2 <= Len(bin) THEN ((b % 16) * 4) + c \div 64 ELSE Equals
      /\ EncodedChar(bin, 4 * m + 3) =
           IF 3 * m + 3 <= Len(bin) THEN c % 64 ELSE Equals
  BY GroupChars
<1> HIDE DEF a, b, c
<1>3. ((b % 16) * 4) + c \div 64 \in Digit /\ c % 64 \in Digit
  BY <1>1, GroupRoundTrip
<1>4. Equals \notin Digit
  BY DEF Equals, Digit
<1> QED
  BY <1>2, <1>3, <1>4

\* The "=" at the end tell how many bytes the last group lacks.
LEMMA PadIsFound ==
  ASSUME NEW bin \in Seq(Byte), Len(bin) > 0
  PROVE  DecodedPad(Encode(bin)) = Pad(Len(bin))
<1> DEFINE n == Len(bin)
           l == EncodedLength(n)
<1>1. n \in Nat /\ n > 0
  OBVIOUS
<1>2. PICK m \in Nat : l = 4 * m + 4 /\ 3 * m + 3 = n + Pad(n)
  <2>1. /\ l \in Nat /\ l % 4 = 0 /\ (3 * l) \div 4 = n + Pad(n)
        /\ Pad(n) \in 0 .. 2
    BY <1>1, WholeGroups
  <2> DEFINE k == l \div 4
  <2> HIDE DEF n, l
  <2>2. l = 4 * k /\ k \in Nat
    BY <2>1
  <2> HIDE DEF k
  <2>3. 3 * k = n + Pad(n)
    BY <2>1, <2>2
  <2>4. /\ k - 1 \in Nat
        /\ l = 4 * (k - 1) + 4 /\ 3 * (k - 1) + 3 = n + Pad(n)
    BY <1>1, <2>1, <2>2, <2>3
  <2> QED
    BY <2>4
<1>3. Pad(n) \in 0 .. 2
  BY <1>1, WholeGroups
<1>4. /\ Len(Encode(bin)) = 4 * m + 4
      /\ Encode(bin)[4 * m + 4] = EncodedChar(bin, 4 * m + 3)
      /\ Encode(bin)[4 * m + 3] = EncodedChar(bin, 4 * m + 2)
  BY <1>2 DEF Encode
<1>5. /\ DecodedPad(Encode(bin)) =
           (IF EncodedChar(bin, 4 * m + 3) = Equals THEN 1 ELSE 0)
             + (IF EncodedChar(bin, 4 * m + 2) = Equals THEN 1 ELSE 0)
  BY <1>4 DEF DecodedPad
<1>6. EncodedChar(bin, 4 * m + 3) = Equals <=> 3 * m + 3 > n
  <2>1. 3 * m + 3 <= n => EncodedChar(bin, 4 * m + 3) # Equals
    BY GroupDigits
  <2>2. ~(3 * m + 3 <= n) => EncodedChar(bin, 4 * m + 3) = Equals
    BY GroupChars
  <2> QED
    BY <1>1, <2>1, <2>2
<1>7. EncodedChar(bin, 4 * m + 2) = Equals <=> 3 * m + 2 > n
  <2>1. 3 * m + 2 <= n => EncodedChar(bin, 4 * m + 2) # Equals
    BY GroupDigits
  <2>2. ~(3 * m + 2 <= n) => EncodedChar(bin, 4 * m + 2) = Equals
    BY GroupChars
  <2> QED
    BY <1>1, <2>1, <2>2
<1> HIDE DEF n, l
<1> QED
  BY <1>1, <1>2, <1>3, <1>5, <1>6, <1>7 DEF n

\* unbase64() gives back every text but the empty one, whatever its length.
THEOREM RoundTrip ==
  ASSUME NEW bin \in Seq(Byte), Len(bin) > 0
  PROVE  Decode(Encode(bin)) = bin
<1> DEFINE n == Len(bin)
           l == EncodedLength(n)
           text == Encode(bin)
<1>1. n \in Nat /\ n > 0
  OBVIOUS
<1>2. /\ l \in Nat /\ l % 4 = 0 /\ (3 * l) \div 4 = n + Pad(n)
      /\ Pad(n) \in 0 .. 2
  BY <1>1, WholeGroups
<1>3. Len(text) = l /\ \A k \in 0 .. (l - 1) : text[k + 1] = EncodedChar(bin, k)
  BY <1>2 DEF Encode
<1>4. DecodedLength(text) = n
  <2>1. DecodedPad(text) = Pad(n)
    BY PadIsFound
  <2>2. DecodedLength(text) = (3 * l) \div 4 - Pad(n)
    BY <1>3, <2>1 DEF DecodedLength
  <2> HIDE DEF n, l, text
  <2> QED
    BY <1>1, <1>2, <2>2
<1>5. ASSUME NEW j \in 0 .. (n - 1)
      PROVE  DecodedByte(text, j) = bin[j + 1]
  <2> DEFINE m == j \div 3
             a == ByteAt(bin, 3 * m)
             b == ByteAt(bin, 3 * m + 1)
             c == ByteAt(bin, 3 * m + 2)
  <2>1. m \in Nat /\ j % 3 \in 0 .. 2 /\ j = 3 * m + (j % 3)
    BY <1>1, <1>5
  <2>2. 4 * m + 4 <= l
    <3>1. l = 4 * (l \div 4) /\ 3 * (l \div 4) = n + Pad(n) /\ l \div 4 \in Nat
      <4> HIDE DEF n, l
      <4> QED
        BY <1>2
    <3> HIDE DEF n, l, m
    <3>2. 3 * m < 3 * (l \div 4)
      BY <1>1, <1>2, <1>5, <2>1, <3>1
    <3> QED
      BY <2>1, <3>1, <3>2
  <2>3. a \in Byte /\ b \in Byte /\ c \in Byte
    BY <2>1, BytesAreBytes
  <2>4. /\ text[4 * m + 1] = EncodedChar(bin, 4 * m)
        /\ text[4 * m + 2] = EncodedChar(bin, 4 * m + 1)
        /\ text[4 * m + 3] = EncodedChar(bin, 4 * m + 2)
        /\ text[4 * m + 4] = EncodedChar(bin, 4 * m + 3)
    <3> HIDE DEF m, l, text
    <3>1. /\ 4 * m \in 0 .. (l - 1) /\ 4 * m + 1 \in 0 .. (l - 1)
          /\ 4 * m + 2 \in 0 .. (l - 1) /\ 4 * m + 3 \in 0 .. (l - 1)
      BY <1>2, <2>1, <2>2
    <3>2. /\ (4 * m + 1) + 1 = 4 * m + 2 /\ (4 * m + 2) + 1 = 4 * m + 3
          /\ (4 * m + 3) + 1 = 4 * m + 4
      BY <2>1
    <3> QED
      BY <1>3, <3>1, <3>2
  <2>5. /\ 3 * m <= n => EncodedChar(bin, 4 * m) = a \div 4
        /\ 3 * m + 1 <= n =>
             EncodedChar(bin, 4 * m + 1) = ((a % 4) * 16) + b \div 16
        /\ 3 * m + 2 <= n =>
             EncodedChar(bin, 4 * m + 2) = ((b % 16) * 4) + c \div 64
        /\ 3 * m + 3 <= n => EncodedChar(bin, 4 * m + 3) = c % 64
    BY <2>1, GroupChars
  <2>6. /\ DecodedByte(text, j) =
             CASE j % 3 = 0 -> ((text[4 * m + 1] * 4) % 256) + text[4 * m + 2] \div 16
               [] j % 3 = 1 -> ((text[4 * m + 2] * 16) % 256) + text[4 * m + 3] \div 4
               [] j % 3 = 2 -> ((text[4 * m + 3] * 64) % 256) + text[4 * m + 4]
    BY DEF DecodedByte
  <2>7. /\ (((a \div 4) * 4) % 256) + (((a % 4) * 16) + b \div 16) \div 16 = a
        /\ (((((a % 4) * 16) + b \div 16) * 16) % 256)
             + (((b % 16) * 4) + c \div 64) \div 4 = b
        /\ (((((b % 16) * 4) + c \div 64) * 64) % 256) + (c % 64) = c
    <3> HIDE DEF a, b, c
    <3> QED
      BY <2>3, GroupRoundTrip
  <2>8. CASE j % 3 = 0
    <3>1. a = bin[j + 1]
      BY <1>5, <2>1, <2>8 DEF ByteAt
    <3>2. 3 * m <= n /\ 3 * m + 1 <= n
      <4> HIDE DEF m, n
      <4> QED
        BY <1>1, <1>5, <2>1, <2>8
    <3>3. DecodedByte(text, j) = ((text[4 * m + 1] * 4) % 256) + text[4 * m + 2] \div 16
      <4> HIDE DEF m, text
      <4> QED
        BY <2>6, <2>8
    <3> HIDE DEF a, b, c, m, n, text
    <3> QED
      BY <2>4, <2>5, <2>7, <3>1, <3>2, <3>3
  <2>9. CASE j % 3 = 1
    <3>1. b = bin[j + 1]
      BY <1>5, <2>1, <2>9 DEF ByteAt
    <3>2. 3 * m + 1 <= n /\ 3 * m + 2 <= n
      <4> HIDE DEF m, n
      <4> QED
        BY <1>1, <1>5, <2>1, <2>9
    <3>3. DecodedByte(text, j) = ((text[4 * m + 2] * 16) % 256) + text[4 * m + 3] \div 4
      <4> HIDE DEF m, text
      <4> QED
        BY <2>6, <2>9
    <3> HIDE DEF a, b, c, m, n, text
    <3> QED
      BY <2>4, <2>5, <2>7, <3>1, <3>2, <3>3
  <2>10. CASE j % 3 = 2
    <3>1. c = bin[j + 1]
      BY <1>5, <2>1, <2>10 DEF ByteAt
    <3>2. 3 * m + 2 <= n /\ 3 * m + 3 <= n
      <4> HIDE DEF m, n
      <4> QED
        BY <1>1, <1>5, <2>1, <2>10
    <3>3. DecodedByte(text, j) = ((text[4 * m + 3] * 64) % 256) + text[4 * m + 4]
      <4> HIDE DEF m, text
      <4> QED
        BY <2>6, <2>10
    <3> HIDE DEF a, b, c, m, n, text
    <3> QED
      BY <2>4, <2>5, <2>7, <3>1, <3>2, <3>3
  <2> HIDE DEF m, n, text
  <2> QED
    BY <2>1, <2>8, <2>9, <2>10
<1>6. ASSUME NEW i \in 1 .. n PROVE DecodedByte(text, i - 1) = bin[i]
  <2>1. i - 1 \in 0 .. (n - 1) /\ (i - 1) + 1 = i
    BY <1>1, <1>6
  <2> QED
    BY <1>5, <2>1
<1>7. Decode(text) = [i \in 1 .. n |-> bin[i]]
  BY <1>4, <1>6 DEF Decode
<1>8. bin = [i \in 1 .. n |-> bin[i]]
  OBVIOUS
<1> QED
  BY <1>7, <1>8

-----------------------------------------------------------------------------
(***************************************************************************)
(* Texts that are joined                                                   *)
(***************************************************************************)

Symbol == Words \cup Delimiters \cup Special

Text == Seq(Symbol)

USE DEF Text

\* find_first_of: the first delimiter is the one with none before it.
LEMMA FirstIs ==
  ASSUME NEW text \in Text, NEW D, NEW n \in DOMAIN text,
         text[n] \in D, \A k \in 1 .. (n - 1) : text[k] \notin D
  PROVE  First(text, D) = n
<1> DEFINE I == {k \in 1 .. Len(text) : text[k] \in D}
<1>1. n \in I /\ \A k \in I : n <= k
  OBVIOUS
<1>2. \A m \in I : (\A k \in I : m <= k) => m = n
  BY <1>1
<1>3. Min(I) = n
  <2> HIDE DEF I
  <2> QED
    BY <1>1, <1>2 DEF Min
<1> QED
  BY <1>1, <1>3 DEF First, SelectInSeq

\* A text is cut where its first delimiter is.
LEMMA JoinBefore ==
  ASSUME NEW D, NEW u \in Text, NEW v \in Text,
         ~Exists(u, D), v # <<>>, v[1] \in D
  PROVE  /\ Exists(u \o v, D)
         /\ Before(u \o v, D) = u
         /\ From(u \o v, D) = v
<1> DEFINE text == u \o v
           n == Len(u) + 1
<1>1. /\ text \in Text /\ Len(text) = Len(u) + Len(v) /\ Len(v) > 0
      /\ n \in DOMAIN text /\ text[n] = v[1]
      /\ \A k \in 1 .. Len(u) : text[k] = u[k]
      /\ \A k \in 1 .. Len(v) : text[k + Len(u)] = v[k]
  OBVIOUS
<1>2. \A k \in 1 .. (n - 1) : text[k] \notin D
  BY <1>1 DEF Exists
<1>3. First(text, D) = n
  <2> HIDE DEF text, n
  <2> QED
    BY <1>1, <1>2, FirstIs DEF text, n
<1>4. Exists(text, D)
  BY <1>1 DEF Exists
<1>5. SubSeq(text, 1, Len(u)) = u
  BY <1>1
<1>6. SubSeq(text, n, Len(text)) = v
  BY <1>1
<1> QED
  BY <1>3, <1>4, <1>5, <1>6 DEF Before, From

LEMMA JoinAt ==
  ASSUME NEW d, NEW u \in Text, NEW v \in Text,
         ~Exists(u, {d}), v # <<>>, v[1] = d
  PROVE  /\ Exists(u \o v, {d})
         /\ Before(u \o v, {d}) = u
         /\ From(u \o v, {d}) = v
<1>1. v[1] \in {d}
  OBVIOUS
<1> QED
  BY <1>1, JoinBefore

\* A text may begin by a delimiter.
LEMMA FromSelf ==
  ASSUME NEW d, NEW v \in Text, v # <<>>, v[1] = d
  PROVE  Exists(v, {d}) /\ From(v, {d}) = v /\ Before(v, {d}) = <<>>
<1> DEFINE u == <<>>
<1>1. u \in Text /\ ~Exists(u, {d})
  BY DEF Exists
<1>2. u \o v = v
  OBVIOUS
<1> HIDE DEF u
<1>3. /\ Exists(u \o v, {d})
      /\ Before(u \o v, {d}) = u
      /\ From(u \o v, {d}) = v
  BY <1>1, JoinAt
<1> QED
  BY <1>2, <1>3 DEF u

\* captureUpTo and moveBefore when there is no delimiter.
LEMMA NoneBefore ==
  ASSUME NEW text, NEW D, ~Exists(text, D)
  PROVE  Before(text, D) = text /\ From(text, D) = text
BY DEF Before, From

\* A delimiter of a joined text is in one of its parts.
LEMMA ExistsInJoin ==
  ASSUME NEW D, NEW u \in Text, NEW v \in Text
  PROVE  Exists(u \o v, D) <=> Exists(u, D) \/ Exists(v, D)
<1> DEFINE text == u \o v
<1>1. /\ Len(text) = Len(u) + Len(v)
      /\ \A k \in 1 .. Len(u) : text[k] = u[k]
      /\ \A k \in 1 .. Len(v) : text[k + Len(u)] = v[k]
      /\ \A k \in 1 .. Len(text) : k > Len(u) => k - Len(u) \in 1 .. Len(v)
                                       /\ text[k] = v[k - Len(u)]
  OBVIOUS
<1>2. ASSUME Exists(u, D) PROVE Exists(text, D)
  BY <1>1, <1>2 DEF Exists
<1>3. ASSUME Exists(v, D) PROVE Exists(text, D)
  <2>1. PICK k \in 1 .. Len(v) : v[k] \in D
    BY <1>3 DEF Exists
  <2>2. k + Len(u) \in DOMAIN text /\ text[k + Len(u)] \in D
    BY <1>1, <2>1
  <2> QED
    BY <2>2 DEF Exists
<1>4. ASSUME Exists(text, D) PROVE Exists(u, D) \/ Exists(v, D)
  <2>1. PICK k \in 1 .. Len(text) : text[k] \in D
    BY <1>1, <1>4 DEF Exists
  <2>2. CASE k <= Len(u)
    BY <1>1, <2>1, <2>2 DEF Exists
  <2>3. CASE k > Len(u)
    BY <1>1, <2>1, <2>3 DEF Exists
  <2> QED
    BY <2>2, <2>3
<1> QED
  BY <1>2, <1>3, <1>4

\* Parts of a joined text.
LEMMA SkipJoin ==
  ASSUME NEW u \in Text, NEW v \in Text
  PROVE  Skip(u \o v, Len(u)) = v
BY DEF Skip

LEMMA FrontOfJoin ==
  ASSUME NEW u \in Text, NEW v \in Text
  PROVE  SubSeq(u \o v, 1, Len(u)) = u
OBVIOUS

LEMMA SkipOne ==
  ASSUME NEW d \in Symbol, NEW v \in Text
  PROVE  Skip(<<d>> \o v, 1) = v
BY DEF Skip

\* What follows a delimiter.
LEMMA AfterJoin ==
  ASSUME NEW d \in Symbol, NEW u \in Text, NEW v \in Text, ~Exists(u, {d})
  PROVE  After(u \o (<<d>> \o v), d) = v
<1>1. <<d>> \o v \in Text /\ <<d>> \o v # <<>> /\ (<<d>> \o v)[1] = d
  OBVIOUS
<1>2. From(u \o (<<d>> \o v), {d}) = <<d>> \o v
  BY <1>1, JoinBefore
<1> QED
  BY <1>2, SkipOne DEF After

\* The "://" of a target, one symbol at a time.
LEMMA ThreeJoin ==
  ASSUME NEW a \in Symbol, NEW b \in Symbol, NEW c \in Symbol, NEW r \in Text
  PROVE  /\ <<a, b, c>> \o r = <<a>> \o (<<b, c>> \o r)
         /\ <<b, c>> \o r \in Text /\ <<b, c>> \o r # <<>>
         /\ (<<b, c>> \o r)[1] = b
         /\ Skip(<<b, c>> \o r, 2) = r
BY DEF Skip

\* Sequences of symbols.
LEMMA JoinAssoc ==
  ASSUME NEW u \in Text, NEW v \in Text, NEW w \in Text
  PROVE  (u \o v) \o w = u \o (v \o w) /\ u \o v \in Text
OBVIOUS

LEMMA OneJoin ==
  ASSUME NEW d \in Symbol, NEW v \in Text
  PROVE  /\ <<d>> \o v \in Text /\ <<d>> \o v # <<>>
         /\ (<<d>> \o v)[1] = d
OBVIOUS

LEMMA FirstOfJoin ==
  ASSUME NEW u \in Text, NEW v \in Text, u # <<>>
  PROVE  u \o v # <<>> /\ (u \o v)[1] = u[1]
OBVIOUS

LEMMA JoinEmpty ==
  ASSUME NEW u \in Text
  PROVE  u \o <<>> = u /\ <<>> \o u = u
OBVIOUS

LEMMA EmptyIsText == <<>> \in Text
OBVIOUS

LEMMA OneIsText ==
  \A s \in Symbol : <<s>> \in Text /\ <<s>> # <<>> /\ <<s>>[1] = s
OBVIOUS

LEMMA OneExists == \A s, D : Exists(<<s>>, D) <=> s \in D
BY DEF Exists

HIDE DEF Text

\* Fewer delimiters, fewer cuts.
LEMMA NoneOfFewer ==
  ASSUME NEW text, NEW D, NEW E, ~Exists(text, D), E \subseteq D
  PROVE  ~Exists(text, E)
BY DEF Exists

LEMMA NoneInEmpty == \A D : ~Exists(<<>>, D)
BY DEF Exists

-----------------------------------------------------------------------------
(***************************************************************************)
(* The parts of a target                                                   *)
(***************************************************************************)

\* Holds no delimiter.
Plain(text) == text \in Text /\ ~Exists(text, Delimiters)

\* The smallest parts hold no delimiter.
LEMMA PlainOnes ==
  /\ Plain(Absent)
  /\ \A text \in Texts : Plain(text) /\ text # <<>>
  /\ \A s \in Special : Plain(<<s>>)
<1>1. Plain(Absent)
  BY NoneInEmpty, EmptyIsText DEF Plain, Absent
<1>2. ASSUME NEW s \in Words \cup Special PROVE Plain(<<s>>)
  <2>1. s \in Symbol /\ s \notin Delimiters
    BY WordsAssumption DEF Symbol, Delimiters, Special
  <2> QED
    BY <2>1, OneIsText, OneExists DEF Plain
<1> QED
  BY <1>1, <1>2 DEF Texts

\* Nor do the parts of a target, but for its path and an IPv6 host.
LEMMA PartsArePlain ==
  ASSUME NEW t \in Targets
  PROVE  /\ Plain(t.scheme) /\ Plain(t.user) /\ Plain(t.password)
         /\ Plain(t.port) /\ Plain(t.query) /\ Plain(t.fragment)
         /\ IsV6(t) \/ (Plain(t.host) /\ t.host # <<>>)
<1>1. t \in Target
  BY DEF Targets
<1>2. Plain(t.scheme) /\ Plain(t.port)
  BY <1>1, PlainOnes DEF Target, Special
<1>3. Plain(t.user) /\ Plain(t.query) /\ Plain(t.fragment)
  BY <1>1, PlainOnes DEF Target
<1>4. IsV6(t) \/ (Plain(t.host) /\ t.host # <<>>)
  BY <1>1, PlainOnes DEF Target, IsV6
<1>5. Plain(t.password)
  <2>1. PICK n \in 0 .. MaxWords : t.password \in [1 .. n -> Words]
    BY <1>1 DEF Target
  <2>2. n \in Nat /\ t.password \in Seq(Words)
    BY <2>1, BoundsAssumption
  <2>3. Seq(Words) \subseteq Text
    BY DEF Symbol, Text
  <2>4. \A k \in DOMAIN t.password : t.password[k] \notin Delimiters
    BY <2>2, WordsAssumption
  <2> QED
    BY <2>2, <2>3, <2>4 DEF Plain, Exists
<1> QED
  BY <1>2, <1>3, <1>4, <1>5

\* A path is empty, or begins with a "/" and holds none of these.
NotInPaths == {"?", "#", ","}

\* What is known of a path.
LEMMA PathBegins ==
  ASSUME NEW t \in Targets
  PROVE  /\ t.path \in Text /\ ~Exists(t.path, NotInPaths)
         /\ t.path # <<>> => t.path[1] = "/"
         /\ t.path = <<>> => t.query = <<>> /\ t.fragment = <<>>
<1> DEFINE Rest == {"/", "%70", "{}"} \cup Words
<1>1. t.path \in {Absent, <<"/">>, <<"/", "%70">>} \cup
                  UNION {{<<"/", w>>, <<"/", w, "{}", w>>} : w \in Words}
  BY DEF Targets, Target
<1>2. t.path = <<>> => t.query = <<>> /\ t.fragment = <<>>
  BY DEF Targets, Absent
<1>3. \A s \in Rest : s \in Symbol /\ s \notin NotInPaths
  BY WordsAssumption DEF Symbol, Delimiters, Special, NotInPaths
<1>4. \/ t.path = <<>>
      \/ \E a, b, c \in Rest :
           t.path \in {<<"/">>, <<"/", a>>, <<"/", a, b, c>>}
  <2>1. "%70" \in Rest /\ "{}" \in Rest
    OBVIOUS
  <2>2. CASE t.path \in {Absent, <<"/">>, <<"/", "%70">>}
    BY <2>1, <2>2 DEF Absent
  <2>3. CASE \E w \in Words : t.path \in {<<"/", w>>, <<"/", w, "{}", w>>}
    BY <2>1, <2>3
  <2> QED
    BY <1>1, <2>2, <2>3
<1>5. "/" \in Rest
  OBVIOUS
<1>6. t.path = <<>> \/ (/\ t.path \in Text /\ t.path # <<>>
                        /\ t.path[1] = "/" /\ ~Exists(t.path, NotInPaths))
  <2> HIDE DEF Rest
  <2>1. ASSUME t.path # <<>>
        PROVE  \E a, b, c \in Rest :
                 t.path \in {<<"/">>, <<"/", a>>, <<"/", a, b, c>>}
    BY <1>4, <2>1
  <2>2. ASSUME t.path # <<>>
        PROVE  /\ t.path \in Text /\ t.path # <<>>
               /\ t.path[1] = "/" /\ ~Exists(t.path, NotInPaths)
    <3>1. PICK a \in Rest, b \in Rest, c \in Rest :
                 t.path \in {<<"/">>, <<"/", a>>, <<"/", a, b, c>>}
      BY <2>1, <2>2
    <3>2. /\ a \in Symbol /\ b \in Symbol /\ c \in Symbol
          /\ a \notin NotInPaths /\ b \notin NotInPaths /\ c \notin NotInPaths
      BY <1>3
    <3>4. "/" \in Symbol /\ "/" \notin NotInPaths
      BY <1>3, <1>5
    <3>3. ASSUME NEW q \in Symbol, q \notin NotInPaths,
                 \/ t.path = <<q>> \/ t.path = <<q, a>>
                 \/ t.path = <<q, a, b, c>>
          PROVE  /\ t.path \in Text /\ t.path # <<>>
                 /\ t.path[1] = q /\ ~Exists(t.path, NotInPaths)
      <4>1. CASE t.path = <<q>>
        BY <3>3, <4>1 DEF Exists, Text
      <4>2. CASE t.path = <<q, a>>
        BY <3>2, <3>3, <4>2 DEF Exists, Text
      <4>3. CASE t.path = <<q, a, b, c>>
        BY <3>2, <3>3, <4>3 DEF Exists, Text
      <4> QED
        BY <3>3, <4>1, <4>2, <4>3
    <3> QED
      BY <3>1, <3>4, <3>3
  <2> QED
    BY <2>2
<1>7. <<>> \in Text /\ ~Exists(<<>>, NotInPaths)
  BY NoneInEmpty, EmptyIsText
<1> QED
  BY <1>2, <1>6, <1>7

\* A part that is written with a mark before it.
LEMMA MarkedHas ==
  ASSUME NEW mark \in Symbol, NEW text \in Text
  PROVE  /\ Marked(mark, text) \in Text
         /\ \A D : Exists(Marked(mark, text), D) <=>
                     text # <<>> /\ (mark \in D \/ Exists(text, D))
<1>1. CASE text = <<>>
  BY <1>1, NoneInEmpty DEF Marked
<1>2. CASE text # <<>>
  <2>1. <<mark>> \in Text /\ \A D : Exists(<<mark>>, D) <=> mark \in D
    BY OneIsText, OneExists
  <2>2. ASSUME NEW D
        PROVE  Exists(<<mark>> \o text, D) <=> mark \in D \/ Exists(text, D)
    BY <2>1, ExistsInJoin
  <2> QED
    BY <1>2, <2>1, <2>2, JoinAssoc DEF Marked
<1> QED
  BY <1>1, <1>2

\* Each delimiter is a symbol.
LEMMA DelimitersAreSymbols == Delimiters \subseteq Symbol /\ <<>> \in Text
BY EmptyIsText DEF Symbol

LEMMA IsDelimiter ==
  /\ ":" \in Delimiters /\ "/" \in Delimiters /\ "?" \in Delimiters
  /\ "#" \in Delimiters /\ "@" \in Delimiters /\ "[" \in Delimiters
  /\ "]" \in Delimiters /\ "," \in Delimiters
BY DEF Delimiters

\* A plain text holds none of some delimiters.
LEMMA PlainHasNone ==
  ASSUME NEW text, Plain(text), NEW D, D \subseteq Delimiters
  PROVE  ~Exists(text, D)
BY NoneOfFewer DEF Plain

\* The scheme, and what follows "//".
LEMMA NameIsRead ==
  ASSUME NEW scheme, NEW r \in Text, Plain(scheme)
  PROVE  LET text == scheme \o (<<":", "/", "/">> \o r)
         IN /\ text \in Text /\ Exists(text, {":"})
            /\ Before(text, {":"}) = scheme
            /\ Exists(After(text, ":"), {"/"})
            /\ Named(text) = r
<1> DEFINE colon == ":"
           slash == "/"
           rest == <<slash, slash>> \o r
           text == scheme \o (<<colon, slash, slash>> \o r)
<1>1. colon \in Symbol /\ slash \in Symbol
  BY IsDelimiter, DelimitersAreSymbols
<1>2. scheme \in Text /\ ~Exists(scheme, {colon})
  BY IsDelimiter, PlainHasNone DEF Plain
<1> HIDE DEF colon, slash
<1>3. /\ <<colon, slash, slash>> \o r = <<colon>> \o rest
      /\ rest \in Text /\ rest # <<>> /\ rest[1] = slash
      /\ Skip(rest, 2) = r
  BY <1>1, ThreeJoin
<1> HIDE DEF rest
<1>4. /\ <<colon>> \o rest \in Text /\ <<colon>> \o rest # <<>>
      /\ (<<colon>> \o rest)[1] = colon
  BY <1>1, <1>3, OneJoin
<1>5. /\ Exists(text, {colon}) /\ Before(text, {colon}) = scheme
      /\ text \in Text
  <2>1. scheme \in Text /\ <<colon>> \o rest \in Text
    BY <1>2, <1>4
  <2>2. /\ Exists(scheme \o (<<colon>> \o rest), {colon})
        /\ Before(scheme \o (<<colon>> \o rest), {colon}) = scheme
    BY <1>2, <1>4, <2>1, JoinAt
  <2>3. text = scheme \o (<<colon>> \o rest)
    BY <1>3
  <2> QED
    BY <2>1, <2>2, <2>3, JoinAssoc
<1>6. After(text, colon) = rest
  BY <1>1, <1>2, <1>3, AfterJoin
<1>7. Exists(rest, {slash}) /\ From(rest, {slash}) = rest
  BY <1>3, FromSelf
<1>8. Named(text) = r
  BY <1>3, <1>6, <1>7 DEF Named, colon, slash
<1> QED
  BY <1>5, <1>6, <1>7, <1>8 DEF colon, slash

\* What is written before the host holds only ":" and "@".
LEMMA UserHas ==
  ASSUME NEW t \in Targets, NEW D, D \subseteq Delimiters \ {":", "@"}
  PROVE  WrittenUser(t) \in Text /\ ~Exists(WrittenUser(t), D)
<1> DEFINE colon == ":"
           at == "@"
           password == Marked(colon, t.password)
<1>1. /\ colon \in Symbol /\ at \in Symbol /\ colon \notin D /\ at \notin D
      /\ D \subseteq Delimiters
  BY IsDelimiter, DelimitersAreSymbols
<1>2. Plain(t.user) /\ Plain(t.password)
  BY PartsArePlain
<1>3. /\ t.user \in Text /\ ~Exists(t.user, D)
      /\ t.password \in Text /\ ~Exists(t.password, D)
  BY <1>1, <1>2, PlainHasNone DEF Plain
<1> HIDE DEF colon, at
<1>4. password \in Text /\ ~Exists(password, D)
  BY <1>1, <1>3, MarkedHas
<1>5. <<at>> \in Text /\ ~Exists(<<at>>, D)
  BY <1>1, OneIsText, OneExists
<1> HIDE DEF password
<1>6. /\ t.user \o (password \o <<at>>) \in Text
      /\ ~Exists(t.user \o (password \o <<at>>), D)
  <2>1. password \o <<at>> \in Text /\ ~Exists(password \o <<at>>, D)
    BY <1>4, <1>5, JoinAssoc, ExistsInJoin
  <2> QED
    BY <1>3, <2>1, JoinAssoc, ExistsInJoin
<1> QED
  BY <1>6, EmptyIsText, NoneInEmpty DEF WrittenUser, password, colon, at

\* A host and its port hold only ":" and brackets.
LEMMA HostHas ==
  ASSUME NEW t \in Targets, NEW D, D \subseteq Delimiters \ {":", "[", "]"}
  PROVE  WrittenHost(t) \in Text /\ ~Exists(WrittenHost(t), D)
<1> DEFINE colon == ":"
           open == "["
           close == "]"
           port == Marked(colon, t.port)
<1>1. /\ colon \in Symbol /\ open \in Symbol /\ close \in Symbol
      /\ colon \notin D /\ open \notin D /\ close \notin D
      /\ D \subseteq Delimiters
  BY IsDelimiter, DelimitersAreSymbols
<1>2. t.port \in Text /\ ~Exists(t.port, D)
  BY <1>1, PartsArePlain, PlainHasNone DEF Plain
<1>3. t.host \in Text /\ ~Exists(t.host, D)
  <2>1. CASE IsV6(t)
    <3> DEFINE one == "1"
    <3>1. one \in Symbol /\ one \notin D
      BY <1>1 DEF Symbol, Special, Delimiters
    <3> HIDE DEF one, colon
    <3>2. t.host = <<colon, colon, one>>
      BY <2>1 DEF IsV6, colon, one
    <3> QED
      BY <1>1, <3>1, <3>2 DEF Text, Exists
  <2>2. CASE ~IsV6(t)
    BY <1>1, <2>2, PartsArePlain, PlainHasNone DEF Plain
  <2> QED
    BY <2>1, <2>2
<1> HIDE DEF colon, open, close
<1>4. port \in Text /\ ~Exists(port, D)
  BY <1>1, <1>2, MarkedHas
<1> HIDE DEF port
<1>5. t.host \o port \in Text /\ ~Exists(t.host \o port, D)
  BY <1>3, <1>4, JoinAssoc, ExistsInJoin
<1>6. /\ <<open>> \o (t.host \o <<close>>) \in Text
      /\ ~Exists(<<open>> \o (t.host \o <<close>>), D)
  <2>1. /\ <<open>> \in Text /\ ~Exists(<<open>>, D)
        /\ <<close>> \in Text /\ ~Exists(<<close>>, D)
    BY <1>1, OneIsText, OneExists
  <2>2. t.host \o <<close>> \in Text /\ ~Exists(t.host \o <<close>>, D)
    BY <1>3, <2>1, JoinAssoc, ExistsInJoin
  <2> QED
    BY <2>1, <2>2, JoinAssoc, ExistsInJoin
<1> QED
  BY <1>5, <1>6 DEF WrittenHost, port, colon, open, close

\* What follows the host is empty or begins with "/".
LEMMA TailHas ==
  ASSUME NEW t \in Targets
  PROVE  /\ WrittenTail(t) \in Text
         /\ ~Exists(WrittenTail(t), {","})
         /\ IF t.path = <<>> THEN WrittenTail(t) = <<>>
            ELSE WrittenTail(t) # <<>> /\ WrittenTail(t)[1] = "/"
<1> DEFINE mark == "?"
           hash == "#"
           slash == "/"
           comma == ","
           query == Marked(mark, t.query)
           fragment == Marked(hash, t.fragment)
<1>1. /\ mark \in Symbol /\ hash \in Symbol /\ mark # comma /\ hash # comma
      /\ {comma} \subseteq Delimiters
  BY IsDelimiter, DelimitersAreSymbols
<1>2. /\ t.query \in Text /\ t.fragment \in Text
      /\ ~Exists(t.query, {comma}) /\ ~Exists(t.fragment, {comma})
  BY <1>1, PartsArePlain, PlainHasNone DEF Plain
<1>3. /\ t.path \in Text /\ ~Exists(t.path, {comma})
      /\ t.path # <<>> => t.path[1] = slash
      /\ t.path = <<>> => t.query = <<>> /\ t.fragment = <<>>
  <2>1. {comma} \subseteq NotInPaths
    BY DEF NotInPaths
  <2>2. ~Exists(t.path, {comma})
    BY <2>1, PathBegins, NoneOfFewer
  <2> QED
    BY <2>2, PathBegins
<1> HIDE DEF mark, hash, slash, comma
<1>4. /\ query \in Text /\ ~Exists(query, {comma})
      /\ fragment \in Text /\ ~Exists(fragment, {comma})
  BY <1>1, <1>2, MarkedHas
<1>5. t.path = <<>> => query = <<>> /\ fragment = <<>>
  BY <1>3 DEF Marked
<1> HIDE DEF query, fragment
<1>6. query \o fragment \in Text /\ ~Exists(query \o fragment, {comma})
  BY <1>4, JoinAssoc, ExistsInJoin
<1>7. /\ t.path \o (query \o fragment) \in Text
      /\ ~Exists(t.path \o (query \o fragment), {comma})
  BY <1>3, <1>6, JoinAssoc, ExistsInJoin
<1>8. t.path = <<>> => t.path \o (query \o fragment) = <<>>
  BY <1>5
<1>9. t.path # <<>> => /\ t.path \o (query \o fragment) # <<>>
                       /\ (t.path \o (query \o fragment))[1] = slash
  BY <1>3, <1>6, FirstOfJoin
<1> QED
  BY <1>7, <1>8, <1>9
     DEF WrittenTail, query, fragment, mark, hash, slash, comma

\* The two sorts of target are told apart by the scheme.
LEMMA TargetsAndKafkas ==
  /\ \A t \in Targets : IsTarget(t)
  /\ \A k \in Kafkas : ~IsTarget(k)
BY DEF Targets, Target, Kafkas, IsTarget

\* The authority, and what follows it.
LEMMA AuthorityIsRead ==
  ASSUME NEW t \in Targets
  PROVE  LET text == Written(t)
             authority == WrittenUser(t) \o WrittenHost(t)
         IN /\ text \in Text /\ Exists(text, {":"})
            /\ Before(text, {":"}) = t.scheme
            /\ Exists(After(text, ":"), {"/"})
            /\ Authority(text) = authority
            /\ Exists(Named(text), {"/"}) <=> t.path # <<>>
            /\ From(Named(text), {"/"}) = IF t.path = <<>> THEN authority
                                          ELSE WrittenTail(t)
<1> DEFINE slash == "/"
           text == Written(t)
           authority == WrittenUser(t) \o WrittenHost(t)
           tail == WrittenTail(t)
<1>1. authority \in Text /\ ~Exists(authority, {slash})
  <2> DEFINE D == {slash}
  <2>1. D \subseteq Delimiters \ {":", "@"} /\ D \subseteq Delimiters \ {":", "[", "]"}
    BY DEF Delimiters
  <2> HIDE DEF D
  <2>2. /\ WrittenUser(t) \in Text /\ ~Exists(WrittenUser(t), D)
        /\ WrittenHost(t) \in Text /\ ~Exists(WrittenHost(t), D)
    BY <2>1, UserHas, HostHas
  <2>3. authority \in Text /\ ~Exists(authority, D)
    BY <2>2, JoinAssoc, ExistsInJoin
  <2> QED
    BY <2>3 DEF D
<1>2. /\ tail \in Text
      /\ IF t.path = <<>> THEN tail = <<>> ELSE tail # <<>> /\ tail[1] = slash
  BY TailHas
<1>3. text = t.scheme \o (<<":", "/", "/">> \o (authority \o tail))
  BY TargetsAndKafkas DEF Written
<1> HIDE DEF slash, text, authority, tail
<1>4. Plain(t.scheme)
  BY PartsArePlain
<1>5. authority \o tail \in Text
  BY <1>1, <1>2, JoinAssoc
<1>6. /\ text \in Text /\ Exists(text, {":"})
      /\ Before(text, {":"}) = t.scheme
      /\ Exists(After(text, ":"), {"/"})
      /\ Named(text) = authority \o tail
  BY <1>3, <1>4, <1>5, NameIsRead
<1>7. /\ Before(Named(text), {slash}) = authority
      /\ Exists(Named(text), {slash}) <=> t.path # <<>>
      /\ From(Named(text), {slash}) = IF t.path = <<>> THEN authority ELSE tail
  <2>1. CASE t.path = <<>>
    <3>1. Named(text) = authority
      BY <1>1, <1>2, <1>6, <2>1, JoinEmpty
    <3> QED
      BY <1>1, <2>1, <3>1, NoneBefore
  <2>2. CASE t.path # <<>>
    <3>1. /\ Exists(authority \o tail, {slash})
          /\ Before(authority \o tail, {slash}) = authority
          /\ From(authority \o tail, {slash}) = tail
      BY <1>1, <1>2, <2>2, JoinAt
    <3> QED
      BY <1>6, <2>2, <3>1
  <2> QED
    BY <2>1, <2>2
<1>8. Authority(text) = authority
  BY <1>6, <1>7 DEF Authority, slash
<1> QED
  BY <1>6, <1>7, <1>8 DEF text, authority, tail, slash

\* What is written with a mark before it is read up to a third symbol.
LEMMA PairIsRead ==
  ASSUME NEW mark \in Symbol, NEW end, NEW u \in Text, NEW v \in Text,
         ~Exists(u, {mark}), ~Exists(v, {end})
  PROVE  LET text == u \o Marked(mark, v)
         IN /\ Before(text, {mark}) = u
            /\ v = IF Exists(text, {mark})
                   THEN Before(After(text, mark), {end}) ELSE <<>>
<1>1. CASE v = <<>>
  <2>1. u \o Marked(mark, v) = u
    BY <1>1, JoinEmpty DEF Marked
  <2> QED
    BY <1>1, <2>1, NoneBefore
<1>2. CASE v # <<>>
  <2> DEFINE text == u \o (<<mark>> \o v)
  <2>1. /\ <<mark>> \o v \in Text /\ <<mark>> \o v # <<>>
        /\ (<<mark>> \o v)[1] = mark
    BY OneJoin
  <2>2. Exists(text, {mark}) /\ Before(text, {mark}) = u
    BY <2>1, JoinAt
  <2>3. After(text, mark) = v
    BY AfterJoin
  <2>4. Before(v, {end}) = v
    BY NoneBefore
  <2>5. u \o Marked(mark, v) = text
    BY <1>2 DEF Marked
  <2> HIDE DEF text
  <2> QED
    BY <2>2, <2>3, <2>4, <2>5
<1> QED
  BY <1>1, <1>2

\* Username and password.
LEMMA UserIsRead ==
  ASSUME NEW t \in Targets
  PROVE  LET text == Written(t)
             user == IF HasUser(text) THEN Before(Authority(text), {"@"}) ELSE <<>>
         IN /\ HostText(text) = WrittenHost(t)
            /\ UserInfo(user).username = t.user
            /\ UserInfo(user).password = t.password
<1> DEFINE at == "@"
           colon == ":"
           hash == "#"
           text == Written(t)
           password == Marked(colon, t.password)
           host == WrittenHost(t)
           user == IF HasUser(text) THEN Before(Authority(text), {at}) ELSE <<>>
<1>1. Authority(text) = WrittenUser(t) \o host
  BY AuthorityIsRead
<1>2. /\ colon \in Symbol /\ at \in Symbol /\ hash \in Symbol /\ at # colon
      /\ {colon} \subseteq Delimiters /\ {at} \subseteq Delimiters
      /\ {hash} \subseteq Delimiters
  BY IsDelimiter, DelimitersAreSymbols
<1>3. host \in Text /\ ~Exists(host, {at})
  <2>1. {at} \subseteq Delimiters \ {":", "[", "]"}
    BY DEF Delimiters
  <2> QED
    BY <2>1, HostHas
<1>4. /\ t.user \in Text /\ ~Exists(t.user, {colon}) /\ ~Exists(t.user, {at})
      /\ t.password \in Text
      /\ ~Exists(t.password, {hash}) /\ ~Exists(t.password, {at})
      /\ t.user = <<>> => t.password = <<>>
  BY <1>2, PartsArePlain, PlainHasNone DEF Plain, Targets, Absent
<1>5. WrittenUser(t) = IF t.user = <<>> THEN <<>> ELSE t.user \o (password \o <<at>>)
  BY DEF WrittenUser, Absent
<1>6. UserInfo(user) =
        [username |-> Before(user, {colon}),
         password |-> IF Exists(user, {colon})
                      THEN Before(After(user, colon), {hash}) ELSE <<>>]
  BY DEF UserInfo
<1>7. /\ HostText(text) = IF HasUser(text) THEN After(Authority(text), at)
                                            ELSE Authority(text)
      /\ HasUser(text) <=> Exists(Authority(text), {at})
  BY DEF HostText, HasUser
<1> HIDE DEF at, colon, hash, text, host
<1>8. password \in Text /\ ~Exists(password, {at})
  BY <1>2, <1>4, MarkedHas
<1>9. CASE t.user = <<>>
  <2>1. Authority(text) = host /\ ~HasUser(text)
    BY <1>1, <1>3, <1>5, <1>7, <1>9, JoinEmpty
  <2>2. user = <<>> /\ HostText(text) = host
    BY <1>7, <2>1
  <2>3. Before(user, {colon}) = <<>> /\ ~Exists(user, {colon})
    BY <2>2, NoneBefore, NoneInEmpty
  <2>4. UserInfo(user).username = t.user /\ UserInfo(user).password = t.password
    <3> HIDE DEF user
    <3> QED
      BY <1>4, <1>6, <1>9, <2>3
  <2> QED
    BY <2>2, <2>4 DEF text, host, at
<1>10. CASE t.user # <<>>
  <2> DEFINE name == t.user \o password
  <2>1. name \in Text /\ ~Exists(name, {at})
    BY <1>4, <1>8, JoinAssoc, ExistsInJoin
  <2>2. Authority(text) = name \o (<<at>> \o host)
    <3> HIDE DEF password
    <3>1. <<at>> \in Text /\ password \o <<at>> \in Text
      BY <1>2, <1>8, OneIsText, JoinAssoc
    <3>2. Authority(text) = (t.user \o (password \o <<at>>)) \o host
      BY <1>1, <1>5, <1>10
    <3>3. t.user \o (password \o <<at>>) = name \o <<at>>
      BY <1>4, <1>8, <3>1, JoinAssoc
    <3> HIDE DEF name
    <3>4. (name \o <<at>>) \o host = name \o (<<at>> \o host)
      BY <1>3, <2>1, <3>1, JoinAssoc
    <3> QED
      BY <3>2, <3>3, <3>4
  <2>3. /\ <<at>> \o host \in Text /\ <<at>> \o host # <<>>
        /\ (<<at>> \o host)[1] = at
    BY <1>2, <1>3, OneJoin
  <2>4. HasUser(text) /\ user = name /\ HostText(text) = host
    <3> HIDE DEF name
    <3> DEFINE joined == name \o (<<at>> \o host)
    <3>1. Exists(joined, {at}) /\ Before(joined, {at}) = name
      BY <2>1, <2>3, JoinAt
    <3>2. After(joined, at) = host
      BY <1>2, <1>3, <2>1, AfterJoin
    <3>3. Authority(text) = joined
      BY <2>2
    <3> HIDE DEF joined
    <3> QED
      BY <1>7, <3>1, <3>2, <3>3
  <2>5. /\ Before(name, {colon}) = t.user
        /\ t.password = IF Exists(name, {colon})
                        THEN Before(After(name, colon), {hash}) ELSE <<>>
    BY <1>2, <1>4, PairIsRead
  <2>6. UserInfo(user).username = t.user /\ UserInfo(user).password = t.password
    <3> HIDE DEF name, user
    <3> QED
      BY <1>6, <2>4, <2>5
  <2> HIDE DEF name
  <2> QED
    BY <2>4, <2>6 DEF text, host, at
<1> QED
  BY <1>9, <1>10

\* Host and port.
LEMMA HostIsRead ==
  ASSUME NEW t \in Targets
  PROVE  LET host == WrittenHost(t)
         IN /\ HostPort(host) = [host |-> t.host, port |-> t.port]
            /\ ~(Exists(host, {"["}) /\ ~Exists(Skip(host, 1), {"]"}))
<1> DEFINE colon == ":"
           hash == "#"
           open == "["
           close == "]"
           host == WrittenHost(t)
<1>1. /\ colon \in Symbol /\ open \in Symbol /\ close \in Symbol
      /\ {colon} \subseteq Delimiters /\ {hash} \subseteq Delimiters
      /\ {open} \subseteq Delimiters /\ open # colon /\ close # open
      /\ close # colon
  BY IsDelimiter, DelimitersAreSymbols
<1>2. HostPort(host) =
        IF Exists(host, {open})
        THEN [host |-> Before(Skip(host, 1), {close}), port |-> <<>>]
        ELSE [host |-> Before(host, {colon}),
              port |-> IF Exists(host, {colon})
                       THEN Before(After(host, colon), {hash}) ELSE <<>>]
  BY DEF HostPort
<1>3. t.port \in Text /\ ~Exists(t.port, {hash}) /\ ~Exists(t.port, {open})
  BY <1>1, PartsArePlain, PlainHasNone DEF Plain
<1>4. CASE IsV6(t)
  <2> DEFINE one == "1"
             inner == t.host \o <<close>>
  <2>1. one \in Symbol /\ one # close
    BY DEF Symbol, Special
  <2>2. t.port = <<>>
    BY <1>4 DEF Targets, Absent
  <2>3. t.host = <<colon, colon, one>>
    BY <1>4 DEF IsV6
  <2>4. host = <<open>> \o inner
    BY <1>4 DEF WrittenHost
  <2> HIDE DEF colon, open, close, one, host, hash
  <2>5. t.host \in Text /\ ~Exists(t.host, {close})
    BY <1>1, <2>1, <2>3 DEF Text, Exists
  <2>6. <<close>> \in Text /\ <<close>> # <<>> /\ <<close>>[1] = close
    BY <1>1, OneIsText
  <2>7. Exists(inner, {close}) /\ Before(inner, {close}) = t.host
    BY <2>5, <2>6, JoinAt
  <2>8. inner \in Text
    BY <2>5, <2>6, JoinAssoc
  <2> HIDE DEF inner
  <2>9. Skip(host, 1) = inner
    BY <1>1, <2>4, <2>8, SkipOne
  <2>10. Exists(host, {open})
    <3>1. /\ <<open>> \o inner \in Text /\ <<open>> \o inner # <<>>
          /\ (<<open>> \o inner)[1] = open
      BY <1>1, <2>8, OneJoin
    <3> QED
      BY <2>4, <3>1, FromSelf
  <2> QED
    BY <1>2, <2>2, <2>7, <2>9, <2>10 DEF host, open, close
<1>5. CASE ~IsV6(t)
  <2>1. /\ t.host \in Text /\ ~Exists(t.host, {colon})
        /\ ~Exists(t.host, {open})
    BY <1>1, <1>5, PartsArePlain, PlainHasNone DEF Plain
  <2>2. host = t.host \o Marked(colon, t.port)
    BY <1>5 DEF WrittenHost
  <2>3. /\ Before(host, {colon}) = t.host
        /\ t.port = IF Exists(host, {colon})
                    THEN Before(After(host, colon), {hash}) ELSE <<>>
    <3> DEFINE joined == t.host \o Marked(colon, t.port)
    <3>1. /\ Before(joined, {colon}) = t.host
          /\ t.port = IF Exists(joined, {colon})
                      THEN Before(After(joined, colon), {hash}) ELSE <<>>
      <4> HIDE DEF colon, hash
      <4>1. /\ colon \in Symbol /\ t.host \in Text /\ t.port \in Text
            /\ ~Exists(t.host, {colon}) /\ ~Exists(t.port, {hash})
        BY <1>1, <1>3, <2>1
      <4> QED
        BY <4>1, PairIsRead
    <3>2. host = joined
      BY <2>2
    <3> HIDE DEF joined, host
    <3> QED
      BY <3>1, <3>2
  <2>4. ~Exists(host, {open})
    <3>1. /\ Marked(colon, t.port) \in Text
          /\ ~Exists(Marked(colon, t.port), {open})
      <4> HIDE DEF colon, open
      <4> QED
        BY <1>1, <1>3, MarkedHas
    <3> HIDE DEF host
    <3> QED
      BY <2>1, <2>2, <3>1, ExistsInJoin
  <2> HIDE DEF host
  <2> QED
    BY <1>2, <2>3, <2>4 DEF host, open
<1> QED
  BY <1>4, <1>5

\* Path, query and fragment, if the target has a path.
LEMMA TailIsRead ==
  ASSUME NEW t \in Targets, t.path # <<>>
  PROVE  UrlTail(WrittenTail(t), TRUE) =
           [path |-> t.path, query |-> t.query, fragment |-> t.fragment]
<1> DEFINE mark == "?"
           hash == "#"
           text == WrittenTail(t)
           fragment == Marked(hash, t.fragment)
           most == t.query \o fragment
           hasQuery == Exists(text, {mark})
           inner == IF hasQuery THEN After(text, mark) ELSE text
           hasMark == Exists(inner, {hash})
<1>1. /\ mark \in Symbol /\ hash \in Symbol /\ mark # hash
      /\ {mark} \subseteq Delimiters /\ {hash} \subseteq Delimiters
  BY IsDelimiter, DelimitersAreSymbols
<1>2. /\ t.query \in Text /\ ~Exists(t.query, {mark}) /\ ~Exists(t.query, {hash})
      /\ t.fragment \in Text
      /\ ~Exists(t.fragment, {mark}) /\ ~Exists(t.fragment, {hash})
  BY <1>1, PartsArePlain, PlainHasNone DEF Plain
<1>3. t.path \in Text /\ ~Exists(t.path, {mark}) /\ ~Exists(t.path, {hash})
  <2>1. {mark} \subseteq NotInPaths /\ {hash} \subseteq NotInPaths
    BY DEF NotInPaths
  <2> HIDE DEF mark, hash
  <2> QED
    BY <2>1, PathBegins, NoneOfFewer
<1>4. UrlTail(text, TRUE) =
        [path |-> IF hasQuery THEN Before(text, {mark}) ELSE Before(text, {hash}),
         query |-> IF hasQuery THEN Before(inner, {hash}) ELSE <<>>,
         fragment |-> IF hasMark THEN Before(After(inner, hash), {hash})
                                 ELSE <<>>]
  BY DEF UrlTail
<1>5. text = t.path \o (Marked(mark, t.query) \o fragment)
  BY DEF WrittenTail
<1>6. fragment \in Text /\ ~Exists(fragment, {mark})
  <2> HIDE DEF mark, hash
  <2> QED
    BY <1>1, <1>2, MarkedHas
<1> HIDE DEF mark, hash, text
<1>7. CASE t.query = <<>>
  <2>1. text = t.path \o fragment
    BY <1>5, <1>6, <1>7, JoinEmpty DEF Marked
  <2>2. ~hasQuery
    <3> HIDE DEF fragment
    <3> QED
      BY <1>3, <1>6, <2>1, ExistsInJoin
  <2>3. /\ Before(text, {hash}) = t.path
        /\ t.fragment = IF Exists(text, {hash})
                        THEN Before(After(text, hash), {hash}) ELSE <<>>
    <3> DEFINE joined == t.path \o Marked(hash, t.fragment)
    <3>1. /\ Before(joined, {hash}) = t.path
          /\ t.fragment = IF Exists(joined, {hash})
                          THEN Before(After(joined, hash), {hash}) ELSE <<>>
      <4>1. /\ hash \in Symbol /\ t.path \in Text /\ t.fragment \in Text
            /\ ~Exists(t.path, {hash}) /\ ~Exists(t.fragment, {hash})
        BY <1>1, <1>2, <1>3
      <4> QED
        BY <4>1, PairIsRead
    <3>2. text = joined
      BY <2>1
    <3> HIDE DEF joined
    <3> QED
      BY <3>1, <3>2
  <2> HIDE DEF fragment
  <2> QED
    BY <1>4, <1>7, <2>2, <2>3 DEF text
<1>8. CASE t.query # <<>>
  <2>1. most \in Text
    BY <1>2, <1>6, JoinAssoc
  <2>2. text = t.path \o (<<mark>> \o most)
    <3>1. Marked(mark, t.query) \o fragment = (<<mark>> \o t.query) \o fragment
      BY <1>8 DEF Marked
    <3>2. <<mark>> \in Text
      BY <1>1, OneIsText
    <3>3. (<<mark>> \o t.query) \o fragment = <<mark>> \o (t.query \o fragment)
      <4> HIDE DEF fragment
      <4> QED
        BY <1>2, <1>6, <3>2, JoinAssoc
    <3> QED
      BY <1>5, <3>1, <3>3
  <2>3. /\ Before(most, {hash}) = t.query
        /\ t.fragment = IF Exists(most, {hash})
                        THEN Before(After(most, hash), {hash}) ELSE <<>>
    BY <1>1, <1>2, PairIsRead
  <2> HIDE DEF most
  <2>4. /\ <<mark>> \o most \in Text /\ <<mark>> \o most # <<>>
        /\ (<<mark>> \o most)[1] = mark
    BY <1>1, <2>1, OneJoin
  <2>5. hasQuery /\ Before(text, {mark}) = t.path
    BY <1>3, <2>2, <2>4, JoinAt
  <2>6. After(text, mark) = most
    BY <1>1, <1>3, <2>1, <2>2, AfterJoin
  <2> QED
    BY <1>4, <2>3, <2>5, <2>6 DEF text
<1> QED
  BY <1>7, <1>8

-----------------------------------------------------------------------------
(***************************************************************************)
(* A target as Url reads it                                                *)
(***************************************************************************)

\* Url reads the parts of a target as they were meant, but for the case of
\* the scheme.
LEMMA TargetIsRead ==
  ASSUME NEW t \in Targets
  PROVE  /\ Before(Written(t), {":"}) = t.scheme
         /\ ~Throws(Written(t))
         /\ FromString(Written(t)) =
              [scheme |-> Lower(t.scheme),
               secure |-> Lower(t.scheme) \in {<<"ssh">>, <<"https">>}
                            \/ t.port = <<"443">>,
               username |-> t.user, password |-> t.password,
               host |-> t.host, port |-> t.port,
               path |-> t.path, query |-> t.query, fragment |-> t.fragment]
<1> DEFINE text == Written(t)
           named == Named(text)
           authority == WrittenUser(t) \o WrittenHost(t)
           parts == [path |-> t.path, query |-> t.query, fragment |-> t.fragment]
<1>1. /\ Exists(text, {":"}) /\ Before(text, {":"}) = t.scheme
      /\ Exists(After(text, ":"), {"/"})
      /\ Exists(named, {"/"}) <=> t.path # <<>>
      /\ From(named, {"/"}) = IF t.path = <<>> THEN authority
                                               ELSE WrittenTail(t)
  BY AuthorityIsRead
<1> DEFINE user == IF HasUser(text) THEN Before(Authority(text), {"@"}) ELSE <<>>
<1>2. /\ HostText(text) = WrittenHost(t)
      /\ UserInfo(user).username = t.user /\ UserInfo(user).password = t.password
  BY UserIsRead
<1>3. /\ HostPort(HostText(text)) = [host |-> t.host, port |-> t.port]
      /\ ~(/\ Exists(HostText(text), {"["})
           /\ ~Exists(Skip(HostText(text), 1), {"]"}))
  BY <1>2, HostIsRead
<1>4. UrlTail(From(named, {"/"}), Exists(named, {"/"})) = parts
  <2>1. CASE t.path = <<>>
    <3>1. ~Exists(authority, {"?"}) /\ ~Exists(authority, {"#"})
      <4>1. ASSUME NEW d \in {"?", "#"} PROVE ~Exists(authority, {d})
        <5> DEFINE D == {d}
        <5>1. D \subseteq Delimiters \ {":", "@"} /\ D \subseteq Delimiters \ {":", "[", "]"}
          BY DEF Delimiters
        <5> HIDE DEF D
        <5>2. /\ WrittenUser(t) \in Text /\ ~Exists(WrittenUser(t), D)
              /\ WrittenHost(t) \in Text /\ ~Exists(WrittenHost(t), D)
          BY <5>1, UserHas, HostHas
        <5>3. ~Exists(authority, D)
          BY <5>2, ExistsInJoin
        <5> QED
          BY <5>3 DEF D
      <4> HIDE DEF authority
      <4> QED
        BY <4>1
    <3>2. t.query = <<>> /\ t.fragment = <<>>
      BY <2>1, PathBegins
    <3>3. ~Exists(named, {"/"}) /\ From(named, {"/"}) = authority
      BY <1>1, <2>1
    <3> HIDE DEF named, authority
    <3>4. UrlTail(authority, FALSE) =
            [path |-> <<>>, query |-> <<>>, fragment |-> <<>>]
      BY <3>1 DEF UrlTail
    <3>5. Exists(named, {"/"}) = FALSE
      BY <3>3 DEF Exists
    <3> QED
      BY <2>1, <3>2, <3>3, <3>4, <3>5
  <2>2. CASE t.path # <<>>
    <3>1. Exists(named, {"/"}) = TRUE /\ From(named, {"/"}) = WrittenTail(t)
      BY <1>1, <2>2 DEF Exists
    <3> HIDE DEF named
    <3> QED
      BY <2>2, <3>1, TailIsRead
  <2> QED
    BY <2>1, <2>2
<1>5. ~Throws(text)
  BY <1>1, <1>3 DEF Throws
<1>6. FromString(text) =
        [scheme |-> Lower(t.scheme),
         secure |-> Lower(t.scheme) \in {<<"ssh">>, <<"https">>}
                      \/ t.port = <<"443">>,
         username |-> t.user, password |-> t.password,
         host |-> t.host, port |-> t.port,
         path |-> t.path, query |-> t.query, fragment |-> t.fragment]
  <2> DEFINE host == HostPort(HostText(text))
             tail == IF Exists(After(text, ":"), {"/"})
                     THEN UrlTail(From(Named(text), {"/"}), Exists(Named(text), {"/"}))
                     ELSE [path |-> Before(After(text, ":"), {"#"}), query |-> <<>>,
                           fragment |-> <<>>]
             scheme == Lower(Before(text, {":"}))
  <2>1. FromString(text) =
          [scheme |-> scheme,
           secure |-> scheme \in {<<"ssh">>, <<"https">>} \/ host.port = <<"443">>,
           username |-> UserInfo(user).username,
           password |-> UserInfo(user).password,
           host |-> host.host, port |-> host.port,
           path |-> tail.path, query |-> tail.query, fragment |-> tail.fragment]
    BY DEF FromString
  <2>2. scheme = Lower(t.scheme) /\ host = [host |-> t.host, port |-> t.port]
    BY <1>1, <1>3
  <2>3. tail = parts
    BY <1>1, <1>4
  <2>4. /\ tail.path = t.path /\ tail.query = t.query
        /\ tail.fragment = t.fragment /\ host.host = t.host /\ host.port = t.port
    <3> HIDE DEF tail, host
    <3> QED
      BY <2>2, <2>3
  <2> HIDE DEF text, tail, host, scheme, user
  <2> QED
    BY <1>2, <2>1, <2>2, <2>4
<1> QED
  BY <1>1, <1>5, <1>6

\* A Kafka broker is read as a Url whose scheme is the host, if it has a port.
LEMMA KafkaIsRead ==
  ASSUME NEW t \in Kafkas
  PROVE  /\ Written(t) \in Text /\ Written(t) # <<>> /\ ~Exists(Written(t), {","})
         /\ Before(Written(t), {":"}) = t.host
         /\ Throws(Written(t)) <=> t.port = Absent
<1> DEFINE colon == ":"
           slash == "/"
           comma == ","
           text == Written(t)
<1>1. /\ colon \in Symbol /\ {colon} \subseteq Delimiters
      /\ {slash} \subseteq Delimiters /\ {comma} \subseteq Delimiters
      /\ comma # colon
  BY IsDelimiter, DelimitersAreSymbols
<1>2. Plain(t.host) /\ t.host # <<>> /\ Plain(t.port)
  BY PlainOnes DEF Kafkas, Special
<1>3. /\ t.host \in Text /\ t.port \in Text
      /\ ~Exists(t.host, {colon}) /\ ~Exists(t.host, {comma})
      /\ ~Exists(t.port, {colon}) /\ ~Exists(t.port, {comma})
      /\ ~Exists(t.port, {slash})
  BY <1>1, <1>2, PlainHasNone DEF Plain
<1>4. text = t.host \o Marked(colon, t.port)
  BY TargetsAndKafkas DEF Written
<1>5. Throws(text) <=>
        \/ ~Exists(text, {colon})
        \/ /\ Exists(HostText(text), {"["})
           /\ ~Exists(Skip(HostText(text), 1), {"]"})
  BY DEF Throws
<1>6. ~Exists(After(text, colon), {slash}) => HostText(text) = <<>>
  <2>1. ~Exists(After(text, colon), {slash}) => Authority(text) = <<>>
    BY DEF Authority
  <2>2. Authority(text) = <<>> => ~HasUser(text)
    BY NoneInEmpty DEF HasUser
  <2> QED
    BY <2>1, <2>2 DEF HostText
<1> HIDE DEF colon, slash, comma, text
<1>7. /\ Marked(colon, t.port) \in Text /\ ~Exists(Marked(colon, t.port), {comma})
      /\ Exists(Marked(colon, t.port), {colon}) <=> t.port # <<>>
  BY <1>1, <1>3, MarkedHas
<1>8. /\ text \in Text /\ ~Exists(text, {comma}) /\ text # <<>>
      /\ Exists(text, {colon}) <=> t.port # <<>>
  <2> DEFINE port == Marked(colon, t.port)
  <2>1. /\ port \in Text /\ ~Exists(port, {comma})
        /\ Exists(port, {colon}) <=> t.port # <<>>
    BY <1>7
  <2>2. text = t.host \o port
    BY <1>4
  <2> HIDE DEF port
  <2>3. t.host \o port \in Text /\ t.host \o port # <<>>
    BY <1>2, <1>3, <2>1, JoinAssoc, FirstOfJoin
  <2>4. Exists(t.host \o port, {comma}) <=> Exists(t.host, {comma}) \/ Exists(port, {comma})
    BY <1>3, <2>1, ExistsInJoin
  <2>5. Exists(t.host \o port, {colon}) <=> Exists(t.host, {colon}) \/ Exists(port, {colon})
    BY <1>3, <2>1, ExistsInJoin
  <2> QED
    BY <1>3, <1>7, <2>2, <2>3, <2>4, <2>5 DEF port
<1>9. /\ Before(text, {colon}) = t.host
      /\ t.port = IF Exists(text, {colon})
                  THEN Before(After(text, colon), {slash}) ELSE <<>>
  <2> DEFINE joined == t.host \o Marked(colon, t.port)
  <2>1. /\ Before(joined, {colon}) = t.host
        /\ t.port = IF Exists(joined, {colon})
                    THEN Before(After(joined, colon), {slash}) ELSE <<>>
    BY <1>1, <1>3, PairIsRead
  <2>2. text = joined
    BY <1>4
  <2> HIDE DEF joined
  <2> QED
    BY <2>1, <2>2
<1>10. t.port # <<>> => After(text, colon) = t.port
  <2>1. ASSUME t.port # <<>> PROVE After(text, colon) = t.port
    <3>1. text = t.host \o (<<colon>> \o t.port)
      BY <1>4, <2>1 DEF Marked
    <3>2. After(t.host \o (<<colon>> \o t.port), colon) = t.port
      BY <1>1, <1>3, AfterJoin
    <3> QED
      BY <3>1, <3>2
  <2> QED
    BY <2>1
<1>11. Throws(text) <=> t.port = <<>>
  <2>1. ASSUME t.port # <<>> PROVE ~Throws(text)
    <3>1. HostText(text) = <<>>
      BY <1>3, <1>6, <1>10, <2>1
    <3>2. ~Exists(<<>>, {"["})
      BY NoneInEmpty
    <3> QED
      BY <1>5, <1>8, <2>1, <3>1, <3>2
  <2> QED
    BY <1>5, <1>8, <2>1
<1> QED
  BY <1>8, <1>9, <1>11 DEF text, colon, comma, Absent

-----------------------------------------------------------------------------
(***************************************************************************)
(* The tokens of a list                                                    *)
(***************************************************************************)

\* A set of numbers has a least one.
LEMMA Least ==
  ASSUME NEW S, S \subseteq Nat, S # {}
  PROVE  \E n \in S : \A m \in S : n <= m
<1> DEFINE R == OpToRel(<, Nat)
<1>1. IsWellFoundedOn(R, Nat)
  BY NatLessThanWellFounded, Zenon
<1>2. PICK n \in S : \A m \in S : ~(<<m, n>> \in R)
  <2> HIDE DEF R
  <2> QED
    BY <1>1, WFMin, Zenon
<1>3. \A m \in S : ~(m < n)
  <2>1. TAKE m \in S
  <2>2. m \in Nat /\ n \in Nat
    OBVIOUS
  <2>3. m < n => <<m, n>> \in R
    BY <2>2, Zenon DEF OpToRel
  <2> QED
    BY <1>2, <2>3
<1> QED
  BY <1>3

USE DEF Text

\* A text with a delimiter has a first one.
LEMMA FirstExists ==
  ASSUME NEW text \in Text, NEW D, Exists(text, D)
  PROVE  \E n \in DOMAIN text :
           text[n] \in D /\ \A k \in 1 .. (n - 1) : text[k] \notin D
<1> DEFINE S == {k \in 1 .. Len(text) : text[k] \in D}
<1>1. S \subseteq Nat /\ S # {}
  BY DEF Exists
<1>2. PICK n \in S : \A m \in S : n <= m
  <2> HIDE DEF S
  <2> QED
    BY <1>1, Least
<1>3. n \in 1 .. Len(text) /\ text[n] \in D
  OBVIOUS
<1>4. \A k \in 1 .. (n - 1) : text[k] \notin D
  BY <1>2, <1>3
<1> QED
  BY <1>3, <1>4

\* What follows a delimiter does not change what is before it.
LEMMA BeforeOfJoin ==
  ASSUME NEW D, NEW u \in Text, NEW v \in Text, Exists(u, D)
  PROVE  Before(u \o v, D) = Before(u, D)
<1> DEFINE text == u \o v
<1>1. PICK n \in DOMAIN u :
           u[n] \in D /\ \A k \in 1 .. (n - 1) : u[k] \notin D
  BY FirstExists
<1>2. /\ text \in Text /\ n \in DOMAIN text
      /\ \A k \in 1 .. Len(u) : text[k] = u[k]
      /\ n \in 1 .. Len(u)
  OBVIOUS
<1>3. First(u, D) = n
  BY <1>1, FirstIs
<1>4. First(text, D) = n /\ Exists(text, D)
  <2>1. text[n] \in D /\ \A k \in 1 .. (n - 1) : text[k] \notin D
    BY <1>1, <1>2
  <2> HIDE DEF text
  <2> QED
    BY <1>2, <2>1, FirstIs DEF Exists
<1>5. SubSeq(text, 1, n - 1) = SubSeq(u, 1, n - 1)
  BY <1>2
<1> QED
  BY <1>3, <1>4, <1>5 DEF Before

LEMMA SkipInJoin ==
  ASSUME NEW u \in Text, NEW v \in Text, NEW b \in 1 .. Len(u)
  PROVE  /\ Skip(u \o v, b - 1) = Skip(u, b - 1) \o v
         /\ Skip(u, b - 1) \in Text
BY DEF Skip

\* A token is not changed by what follows the delimiter after it.
LEMMA TokenOfJoin ==
  ASSUME NEW u \in Text, NEW v \in Text, NEW b \in 1 .. Len(u),
         NEW d, v # <<>>, v[1] = d
  PROVE  Token(u \o v, b, d) = Token(u, b, d)
<1> DEFINE rest == Skip(u, b - 1)
<1>2. Token(u, b, d) = Before(rest, {d})
  BY DEF Token
<1>3. Token(u \o v, b, d) = Before(rest \o v, {d}) /\ rest \in Text
  BY SkipInJoin DEF Token
<1> HIDE DEF rest
<1>4. CASE Exists(rest, {d})
  BY <1>2, <1>3, <1>4, BeforeOfJoin
<1>5. CASE ~Exists(rest, {d})
  <2>1. Before(rest \o v, {d}) = rest
    BY <1>3, <1>5, JoinAt
  <2> QED
    BY <1>2, <1>3, <1>5, <2>1, NoneBefore
<1> QED
  BY <1>4, <1>5

\* The token after the last delimiter.
LEMMA LastToken ==
  ASSUME NEW d \in Symbol, NEW u \in Text, NEW w \in Text, ~Exists(w, {d})
  PROVE  Token(u \o (<<d>> \o w), Len(u) + 2, d) = w
<1>1. Skip(u \o (<<d>> \o w), (Len(u) + 2) - 1) = w
  BY DEF Skip
<1> QED
  BY <1>1, NoneBefore DEF Token

\* A token that is added begins after the delimiter.
LEMMA BeginsOfJoin ==
  ASSUME NEW d \in Symbol, NEW u \in Text, NEW w \in Text,
         u # <<>>, u[Len(u)] # d, w # <<>>, ~Exists(w, {d})
  PROVE  Begins(u \o (<<d>> \o w), d) = Begins(u, d) \cup {Len(u) + 2}
<1> DEFINE text == u \o (<<d>> \o w)
           n == Len(u)
<1>2. \A k \in 1 .. Len(w) : w[k] # d
  BY DEF Exists
<1>3. u[n] # d /\ n \in Nat /\ n > 0 /\ Len(w) > 0
  OBVIOUS
<1>4. /\ text \in Text /\ Len(text) = n + 1 + Len(w)
      /\ \A k \in 1 .. n : text[k] = u[k]
      /\ text[n + 1] = d
      /\ \A k \in 1 .. Len(w) : text[n + 1 + k] = w[k]
  OBVIOUS
<1>5. \A k \in 1 .. Len(text) : k > n + 1 => text[k] # d
  <2>1. TAKE k \in 1 .. Len(text)
  <2>2. HAVE k > n + 1
  <2>3. k - n - 1 \in 1 .. Len(w) /\ n + 1 + (k - n - 1) = k
    BY <1>3, <1>4, <2>2
  <2> QED
    BY <1>2, <1>4, <2>3
<1>6. Begins(text, d) = {b \in 1 .. Len(text) : b = 1 \/ text[b - 1] = d}
  BY <1>4 DEF Begins
<1>7. Begins(u, d) = {b \in 1 .. n : b = 1 \/ u[b - 1] = d}
  BY DEF Begins
<1> HIDE DEF text, n
<1>8. ASSUME NEW b \in 1 .. Len(text)
      PROVE  (b = 1 \/ text[b - 1] = d) <=>
               \/ b \in 1 .. n /\ (b = 1 \/ u[b - 1] = d)
               \/ b = n + 2
  <2>1. CASE b <= n
    <3>1. b = 1 \/ text[b - 1] = u[b - 1]
      BY <1>3, <1>4, <2>1
    <3> QED
      BY <1>3, <2>1, <3>1
  <2>2. CASE b = n + 1
    <3>1. text[b - 1] = u[n]
      BY <1>3, <1>4, <2>2
    <3> QED
      BY <1>3, <2>2, <3>1
  <2>3. CASE b = n + 2
    <3>1. b - 1 = n + 1
      BY <1>3, <2>3
    <3> QED
      BY <1>4, <2>3, <3>1
  <2>4. CASE b > n + 2
    <3>1. b - 1 \in 1 .. Len(text) /\ b - 1 > n + 1
      BY <1>3, <2>4
    <3>2. text[b - 1] # d
      BY <1>5, <3>1
    <3> QED
      BY <1>3, <2>4, <3>2
  <2> QED
    BY <1>3, <2>1, <2>2, <2>3, <2>4
<1>9. n + 2 \in 1 .. Len(text) /\ \A b \in 1 .. n : b \in 1 .. Len(text)
  BY <1>3, <1>4
<1>10. Begins(text, d) = Begins(u, d) \cup {n + 2}
  BY <1>6, <1>7, <1>8, <1>9
<1> QED
  BY <1>10 DEF text, n

\* No token begins after a last delimiter.
LEMMA BeginsBeforeComma ==
  ASSUME NEW d \in Symbol, NEW u \in Text, u # <<>>, u[Len(u)] # d
  PROVE  Begins(u \o <<d>>, d) = Begins(u, d)
<1> DEFINE text == u \o <<d>>
           n == Len(u)
<1>2. u[n] # d /\ n \in Nat /\ n > 0
  OBVIOUS
<1>3. /\ text \in Text /\ Len(text) = n + 1
      /\ \A k \in 1 .. n : text[k] = u[k]
  OBVIOUS
<1>4. Begins(text, d) = {b \in 1 .. Len(text) : b = 1 \/ text[b - 1] = d}
  BY <1>3 DEF Begins
<1>5. Begins(u, d) = {b \in 1 .. n : b = 1 \/ u[b - 1] = d}
  BY DEF Begins
<1> HIDE DEF text, n
<1>6. ASSUME NEW b \in 1 .. Len(text)
      PROVE  (b = 1 \/ text[b - 1] = d) <=>
               b \in 1 .. n /\ (b = 1 \/ u[b - 1] = d)
  <2>1. CASE b <= n
    <3>1. b = 1 \/ text[b - 1] = u[b - 1]
      BY <1>2, <1>3, <2>1
    <3> QED
      BY <1>2, <2>1, <3>1
  <2>2. CASE b = n + 1
    <3>1. text[b - 1] = u[n]
      BY <1>2, <1>3, <2>2
    <3> QED
      BY <1>2, <2>2, <3>1
  <2> QED
    BY <1>2, <1>3, <2>1, <2>2
<1>7. \A b \in 1 .. n : b \in 1 .. Len(text)
  BY <1>2, <1>3
<1>8. Begins(text, d) = Begins(u, d)
  BY <1>4, <1>5, <1>6, <1>7
<1> QED
  BY <1>8 DEF text, n

\* The tokens can be counted.
LEMMA BeginsAreFinite ==
  ASSUME NEW d, NEW text \in Text
  PROVE  /\ Begins(text, d) \subseteq 1 .. Len(text)
         /\ IsFiniteSet(Begins(text, d)) /\ Cardinality(Begins(text, d)) \in Nat
<1>1. Begins(text, d) \subseteq 1 .. Len(text) /\ Len(text) \in Int
  BY DEF Begins
<1>2. IsFiniteSet(1 .. Len(text))
  BY <1>1, FS_Interval
<1> QED
  BY <1>1, <1>2, FS_Subset, FS_CardinalityType

HIDE DEF Text

\* How many of the tokens begin no later.
Rank(S, b) == Cardinality({a \in S : a <= b})

\* There is one k-th token.
LEMMA KthIs ==
  ASSUME NEW S \in SUBSET Nat, IsFiniteSet(S), NEW b \in S, NEW k, Rank(S, b) = k
  PROVE  Kth(S, k) = b
<1> DEFINE upTo(x) == {a \in S : a <= x}
<1>1. ASSUME NEW x \in S, NEW y \in S, x < y
      PROVE  Rank(S, x) # Rank(S, y)
  <2>1. upTo(x) \in SUBSET upTo(y)
    <3>1. x \in Nat /\ y \in Nat /\ \A a \in S : a \in Nat
      OBVIOUS
    <3>2. \A a \in S : a <= x => a <= y
      BY <1>1, <3>1
    <3> QED
      BY <3>2
  <2>2. y \in upTo(y) /\ y \notin upTo(x)
    BY <1>1
  <2>3. upTo(y) \in SUBSET S
    OBVIOUS
  <2> HIDE DEF upTo
  <2>4. IsFiniteSet(upTo(y))
    BY <2>3, FS_Subset
  <2>5. Cardinality(upTo(x)) # Cardinality(upTo(y))
    BY <2>1, <2>2, <2>4, FS_Subset
  <2> QED
    BY <2>5 DEF Rank, upTo
<1>2. \A c \in S : Rank(S, c) = k => c = b
  <2>1. TAKE c \in S
  <2>2. HAVE Rank(S, c) = k
  <2>3. ~(c < b) /\ ~(b < c)
    BY <1>1, <2>2
  <2>4. b \in Nat /\ c \in Nat
    OBVIOUS
  <2> QED
    BY <2>3, <2>4
<1>3. Kth(S, k) = CHOOSE c \in S : Rank(S, c) = k
  BY DEF Kth, Rank
<1> QED
  BY <1>2, <1>3

\* A text that ends in no delimiter, and whose k-th token is there.
Counted(text, d) ==
  \A k \in 1 .. Cardinality(Begins(text, d)) :
     \E b \in Begins(text, d) : Rank(Begins(text, d), b) = k

WellSplit(text, d) ==
  /\ text \in Text /\ text # <<>> /\ text[Len(text)] # d
  /\ Counted(text, d)

\* A later token does not change the ranks of the earlier ones.
LEMMA RankedWithLast ==
  ASSUME NEW S \in SUBSET Nat, IsFiniteSet(S), NEW m \in Nat,
         \A a \in S : a < m
  PROVE  /\ S \cup {m} \in SUBSET Nat /\ IsFiniteSet(S \cup {m})
         /\ Cardinality(S \cup {m}) = Cardinality(S) + 1
         /\ \A b \in S : Rank(S \cup {m}, b) = Rank(S, b)
         /\ Rank(S \cup {m}, m) = Cardinality(S) + 1
<1>1. m \notin S
  OBVIOUS
<1>2. \A b \in S : {a \in S \cup {m} : a <= b} = {a \in S : a <= b}
  <2>1. TAKE b \in S
  <2>2. ~(m <= b)
    OBVIOUS
  <2> QED
    BY <2>2
<1>3. {a \in S \cup {m} : a <= m} = S \cup {m}
  <2>1. \A a \in S \cup {m} : a <= m
    OBVIOUS
  <2> QED
    BY <2>1
<1>4. IsFiniteSet(S \cup {m}) /\ Cardinality(S \cup {m}) = Cardinality(S) + 1
  BY <1>1, FS_AddElement
<1>5. \A b \in S : Rank(S \cup {m}, b) = Rank(S, b)
  BY <1>2 DEF Rank
<1>6. Rank(S \cup {m}, m) = Cardinality(S) + 1
  BY <1>3, <1>4 DEF Rank
<1>7. S \cup {m} \in SUBSET Nat
  OBVIOUS
<1> QED
  BY <1>4, <1>5, <1>6, <1>7

\* SplitString in one piece.
LEMMA SplitIs ==
  ASSUME NEW text, NEW d
  PROVE  SplitString(text, d) =
           [k \in 1 .. Cardinality(Begins(text, d)) |->
              Token(text, Kth(Begins(text, d), k), d)]
BY DEF SplitString

USE DEF Text

\* A comma at the end adds no target.
LEMMA SplitBeforeComma ==
  ASSUME NEW d \in Symbol, NEW u, WellSplit(u, d)
  PROVE  /\ u \o <<d>> \in Text
         /\ SplitString(u \o <<d>>, d) = SplitString(u, d)
<1> DEFINE v == <<d>>
           S == Begins(u, d)
<1>1. u \in Text /\ u # <<>> /\ u[Len(u)] # d /\ Counted(u, d)
  BY DEF WellSplit
<1>2. v \in Text /\ v # <<>> /\ v[1] = d /\ u \o v \in Text
  BY <1>1
<1>3. Begins(u \o v, d) = S
  BY <1>1, BeginsBeforeComma
<1>4. S \subseteq 1 .. Len(u) /\ IsFiniteSet(S) /\ S \in SUBSET Nat
  BY <1>1, BeginsAreFinite
<1> HIDE DEF v, S
<1>5. \A k \in 1 .. Cardinality(S) : Kth(S, k) \in S
  BY <1>1, <1>4, KthIs DEF Counted, S
<1>6. \A b \in S : Token(u \o v, b, d) = Token(u, b, d)
  BY <1>1, <1>2, <1>4, TokenOfJoin
<1>7. SplitString(u \o v, d) = SplitString(u, d)
  BY <1>3, <1>5, <1>6, SplitIs DEF S
<1> QED
  BY <1>2, <1>7 DEF v

\* The list does not end in a delimiter after a target was added.
LEMMA EndOfJoin ==
  ASSUME NEW d \in Symbol, NEW u \in Text, NEW w \in Text,
         w # <<>>, ~Exists(w, {d})
  PROVE  /\ w[Len(w)] # d
         /\ (u \o (<<d>> \o w))[Len(u \o (<<d>> \o w))] # d
         /\ u \o (<<d>> \o w) \in Text /\ u \o (<<d>> \o w) # <<>>
<1>1. Len(w) \in DOMAIN w /\ Len(w) > 0
  OBVIOUS
<1>2. w[Len(w)] # d
  BY <1>1 DEF Exists
<1>3. (u \o (<<d>> \o w))[Len(u \o (<<d>> \o w))] = w[Len(w)]
  BY <1>1
<1> QED
  BY <1>2, <1>3

\* A target that is added is one token more.
LEMMA SplitOfJoin ==
  ASSUME NEW d \in Symbol, NEW u, WellSplit(u, d),
         NEW w \in Text, w # <<>>, ~Exists(w, {d})
  PROVE  LET text == u \o (<<d>> \o w)
         IN /\ WellSplit(text, d)
            /\ SplitString(text, d) = Append(SplitString(u, d), w)
<1> DEFINE v == <<d>> \o w
           text == u \o v
           S == Begins(u, d)
           m == Len(u) + 2
           n == Cardinality(S)
<1>1. u \in Text /\ u # <<>> /\ u[Len(u)] # d /\ Counted(u, d)
  BY DEF WellSplit
<1>2. v \in Text /\ v # <<>> /\ v[1] = d
  OBVIOUS
<1>3. text \in Text /\ text # <<>> /\ text[Len(text)] # d
  BY <1>1, EndOfJoin
<1>4. Begins(text, d) = S \cup {m}
  BY <1>1, BeginsOfJoin
<1>5. Token(text, m, d) = w
  BY <1>1, LastToken
<1>6. S \subseteq 1 .. Len(u) /\ IsFiniteSet(S) /\ n \in Nat /\ m \in Nat
  BY <1>1, BeginsAreFinite
<1>7. /\ S \cup {m} \in SUBSET Nat /\ IsFiniteSet(S \cup {m})
      /\ Cardinality(S \cup {m}) = n + 1
      /\ \A b \in S : Rank(S \cup {m}, b) = Rank(S, b)
      /\ Rank(S \cup {m}, m) = n + 1
  <2>1. S \in SUBSET Nat /\ \A a \in S : a < m
    BY <1>1, <1>6
  <2> HIDE DEF S, m
  <2> QED
    BY <1>6, <2>1, RankedWithLast
<1>8. \A k \in 1 .. n : \E b \in S : Rank(S, b) = k
  BY <1>1 DEF Counted
<1>9. \A b \in S : Token(text, b, d) = Token(u, b, d)
  <2> HIDE DEF v, S
  <2> QED
    BY <1>1, <1>2, <1>6, TokenOfJoin
<1>10. /\ Cardinality(Begins(text, d)) = n + 1
       /\ SplitString(text, d) =
            [k \in 1 .. (n + 1) |-> Token(text, Kth(S \cup {m}, k), d)]
  <2> HIDE DEF text, S, m, n
  <2> QED
    BY <1>4, <1>7, SplitIs
<1>11. SplitString(u, d) = [k \in 1 .. n |-> Token(u, Kth(S, k), d)]
  BY SplitIs
<1> HIDE DEF text, S, m, n, v
<1>12. Counted(text, d)
  <2>1. \A k \in 1 .. (n + 1) : k \in 1 .. n \/ k = n + 1
    BY <1>6
  <2>2. \A k \in 1 .. (n + 1) : \E b \in S \cup {m} : Rank(S \cup {m}, b) = k
    BY <1>7, <1>8, <2>1
  <2> QED
    BY <1>4, <1>10, <2>2 DEF Counted
<1>13. SplitString(text, d) = Append(SplitString(u, d), w)
  <2> DEFINE tokens == SplitString(u, d)
             all == SplitString(text, d)
  <2>1. \A k \in 1 .. n : Kth(S \cup {m}, k) = Kth(S, k) /\ Kth(S, k) \in S
    <3>1. TAKE k \in 1 .. n
    <3>2. PICK b \in S : Rank(S, b) = k
      BY <1>8
    <3>3. Kth(S, k) = b
      BY <1>6, <3>2, KthIs
    <3>4. b \in S \cup {m} /\ Rank(S \cup {m}, b) = k
      BY <1>7, <3>2
    <3>5. Kth(S \cup {m}, k) = b
      BY <1>7, <3>4, KthIs
    <3> QED
      BY <3>3, <3>5
  <2>2. Kth(S \cup {m}, n + 1) = m
    BY <1>7, KthIs
  <2>3. \A k \in 1 .. n : all[k] = tokens[k]
    <3>1. TAKE k \in 1 .. n
    <3>2. k \in 1 .. (n + 1)
      BY <1>6
    <3>3. all[k] = Token(text, Kth(S \cup {m}, k), d)
      BY <1>10, <3>2
    <3>4. tokens[k] = Token(u, Kth(S, k), d)
      BY <1>11
    <3> QED
      BY <1>9, <2>1, <3>3, <3>4
  <2>4. all[n + 1] = w
    <3>1. n + 1 \in 1 .. (n + 1)
      BY <1>6
    <3> QED
      BY <1>5, <1>10, <2>2, <3>1
  <2>5. /\ all = [k \in 1 .. (n + 1) |-> all[k]]
        /\ tokens = [k \in 1 .. n |-> tokens[k]]
    BY <1>10, <1>11
  <2> HIDE DEF all, tokens
  <2>6. all = Append(tokens, w)
    <3>1. Len(tokens) = n
      BY <1>6, <2>5
    <3>2. Append(tokens, w) =
            [k \in 1 .. (n + 1) |-> IF k = n + 1 THEN w ELSE tokens[k]]
      BY <1>6, <2>5, <3>1 
    <3>3. \A k \in 1 .. (n + 1) : all[k] = IF k = n + 1 THEN w ELSE tokens[k]
      BY <1>6, <2>3, <2>4
    <3> QED
      BY <2>5, <3>2, <3>3
  <2> QED
    BY <2>6 DEF all, tokens
<1>14. WellSplit(text, d)
  BY <1>3, <1>12 DEF WellSplit
<1> QED
  BY <1>13, <1>14 DEF text, v

\* One target.
LEMMA SplitOfOne ==
  ASSUME NEW d \in Symbol, NEW w \in Text, w # <<>>, ~Exists(w, {d})
  PROVE  WellSplit(w, d) /\ SplitString(w, d) = <<w>>
<1>1. Begins(w, d) = {1}
  <2>1. \A b \in 1 .. Len(w) : w[b] # d
    BY DEF Exists
  <2>2. Len(w) > 0
    OBVIOUS
  <2>3. \A b \in 1 .. Len(w) : b = 1 \/ w[b - 1] = d <=> b = 1
    <3>1. TAKE b \in 1 .. Len(w)
    <3>2. b # 1 => b - 1 \in 1 .. Len(w)
      OBVIOUS
    <3> QED
      BY <2>1, <3>2
  <2> QED
    BY <2>2, <2>3 DEF Begins
<1>2. Cardinality({1}) = 1 /\ Rank({1}, 1) = 1
  <2>1. Cardinality({1}) = 1
    BY FS_Singleton
  <2>2. {a \in {1} : a <= 1} = {1}
    OBVIOUS
  <2> QED
    BY <2>1, <2>2 DEF Rank
<1>3. Token(w, 1, d) = w
  <2>1. Skip(w, 1 - 1) = w
    BY DEF Skip
  <2> QED
    BY <2>1, NoneBefore DEF Token
<1>4. Kth({1}, 1) = 1
  <2>1. {1} \in SUBSET Nat /\ 1 \in {1}
    OBVIOUS
  <2>2. IsFiniteSet({1})
    BY FS_Singleton
  <2> QED
    BY <1>2, <2>1, <2>2, KthIs
<1>5. SplitString(w, d) = <<w>>
  <2>1. SplitString(w, d) = [k \in 1 .. 1 |-> Token(w, Kth({1}, k), d)]
    BY <1>1, <1>2, SplitIs
  <2>2. \A k \in 1 .. 1 : Token(w, Kth({1}, k), d) = w
    BY <1>3, <1>4
  <2>3. SplitString(w, d) = [k \in 1 .. 1 |-> w]
    BY <2>1, <2>2
  <2> QED
    BY <2>3
<1>6. Counted(w, d)
  BY <1>1, <1>2 DEF Counted
<1>7. w[Len(w)] # d
  <2>1. Len(w) \in DOMAIN w
    OBVIOUS
  <2> QED
    BY <2>1 DEF Exists
<1> QED
  BY <1>5, <1>6, <1>7 DEF WellSplit

HIDE DEF Text

\* No text, no token.
LEMMA SplitOfEmpty == \A d : SplitString(<<>>, d) = <<>>
<1>1. \A d : Begins(<<>>, d) = {}
  BY DEF Begins
<1>2. Cardinality({}) = 0
  BY FS_EmptySet
<1> QED
  BY <1>1, <1>2 DEF SplitString

-----------------------------------------------------------------------------
(***************************************************************************)
(* What the list is taken for                                              *)
(***************************************************************************)

USE DEF Text

LEMMA ThreeHas ==
  ASSUME NEW a \in Symbol, NEW b \in Symbol, NEW c \in Symbol, NEW D,
         a \notin D, b \notin D, c \notin D
  PROVE  <<a, b, c>> \in Text /\ ~Exists(<<a, b, c>>, D)
BY DEF Exists

HIDE DEF Text

AnyTarget == Targets \cup Kafkas

\* A target that is written is not empty and holds no comma.
LEMMA WrittenHas ==
  ASSUME NEW t \in AnyTarget
  PROVE  Written(t) \in Text /\ Written(t) # <<>> /\ ~Exists(Written(t), {","})
<1>1. CASE t \in Kafkas
  BY <1>1, KafkaIsRead
<1>2. CASE t \in Targets
  <2> DEFINE colon == ":"
             slash == "/"
             comma == ","
             D == {comma}
             lead == <<colon, slash, slash>>
             authority == WrittenUser(t) \o WrittenHost(t)
             tail == WrittenTail(t)
  <2>1. /\ colon \in Symbol /\ slash \in Symbol
        /\ colon \notin D /\ slash \notin D
        /\ D \subseteq Delimiters \ {":", "@"}
        /\ D \subseteq Delimiters \ {":", "[", "]"} /\ D \subseteq Delimiters
    BY IsDelimiter, DelimitersAreSymbols DEF Delimiters
  <2>2. t.scheme \in Text /\ ~Exists(t.scheme, D)
    BY <1>2, <2>1, PartsArePlain, PlainHasNone DEF Plain
  <2>3. tail \in Text /\ ~Exists(tail, D)
    BY <1>2, TailHas
  <2>4. Written(t) = t.scheme \o (lead \o (authority \o tail))
    BY <1>2, TargetsAndKafkas DEF Written
  <2>5. Written(t) # <<>>
    BY <1>2, AuthorityIsRead, NoneInEmpty
  <2> HIDE DEF D, colon, slash, comma, tail
  <2>6. authority \in Text /\ ~Exists(authority, D)
    <3>1. /\ WrittenUser(t) \in Text /\ ~Exists(WrittenUser(t), D)
          /\ WrittenHost(t) \in Text /\ ~Exists(WrittenHost(t), D)
      BY <1>2, <2>1, UserHas, HostHas
    <3> QED
      BY <3>1, JoinAssoc, ExistsInJoin
  <2>7. lead \in Text /\ ~Exists(lead, D)
    BY <2>1, ThreeHas
  <2> HIDE DEF lead, authority
  <2>8. authority \o tail \in Text /\ ~Exists(authority \o tail, D)
    BY <2>3, <2>6, JoinAssoc, ExistsInJoin
  <2> DEFINE rest == authority \o tail
  <2>9. rest \in Text /\ ~Exists(rest, D)
    BY <2>8
  <2> HIDE DEF rest
  <2>10. lead \o rest \in Text /\ ~Exists(lead \o rest, D)
    BY <2>7, <2>9, JoinAssoc, ExistsInJoin
  <2> DEFINE all == lead \o rest
  <2>11. all \in Text /\ ~Exists(all, D)
    BY <2>10
  <2> HIDE DEF all
  <2>12. t.scheme \o all \in Text /\ ~Exists(t.scheme \o all, D)
    BY <2>2, <2>11, JoinAssoc, ExistsInJoin
  <2>13. Written(t) = t.scheme \o all
    BY <2>4 DEF rest, all
  <2> QED
    BY <2>5, <2>12, <2>13 DEF D, comma
<1> QED
  BY <1>1, <1>2 DEF AnyTarget

\* tolower of one word.
LEMMA LowerOne ==
  ASSUME NEW s
  PROVE  Lower(<<s>>) = <<IF s = "HTTP" THEN "http" ELSE s>>
BY DEF Lower

\* Only a target has http or https before its first colon.
LEMMA LeadIs ==
  /\ \A t \in Targets : /\ Lower(t.scheme) = Lead(t)
                        /\ Lead(t) \in {<<"http">>, <<"https">>}
                        /\ Lead(t) = <<"https">> <=> t.scheme = <<"https">>
  /\ \A t \in Kafkas : /\ Lower(t.host) = Lead(t)
                       /\ Lead(t) \notin {<<"http">>, <<"https">>}
<1>1. ASSUME NEW t \in Targets
      PROVE  /\ Lower(t.scheme) = Lead(t)
             /\ Lead(t) \in {<<"http">>, <<"https">>}
             /\ Lead(t) = <<"https">> <=> t.scheme = <<"https">>
  <2>1. t.scheme \in {<<"http">>, <<"HTTP">>, <<"https">>}
    BY DEF Targets, Target
  <2>2. Lead(t) = IF t.scheme = <<"https">> THEN t.scheme ELSE <<"http">>
    BY TargetsAndKafkas DEF Lead
  <2>3. /\ Lower(<<"http">>) = <<"http">>
        /\ Lower(<<"HTTP">>) = <<"http">>
        /\ Lower(<<"https">>) = <<"https">>
    BY LowerOne
  <2>4. <<"http">> # <<"https">> /\ <<"HTTP">> # <<"https">>
    OBVIOUS
  <2> QED
    BY <2>1, <2>2, <2>3, <2>4
<1>2. ASSUME NEW t \in Kafkas
      PROVE  /\ Lower(t.host) = Lead(t)
             /\ Lead(t) \notin {<<"http">>, <<"https">>}
  <2>1. PICK w \in Words : t.host = <<w>>
    BY DEF Kafkas, Texts
  <2>2. w # "HTTP" /\ w # "http" /\ w # "https"
    BY WordsAssumption DEF Special
  <2>3. Lead(t) = t.host
    BY TargetsAndKafkas DEF Lead
  <2>4. Lower(<<w>>) = <<w>>
    BY <2>2, LowerOne
  <2>5. <<w>> # <<"http">> /\ <<w>> # <<"https">>
    BY <2>2
  <2> QED
    BY <2>1, <2>3, <2>4, <2>5
<1> QED
  BY <1>1, <1>2

\* The tokens of the list are the targets as they are written.
Lists(text, ts) == Sources(text) = [k \in DOMAIN ts |-> Written(ts[k])]

\* Every target is a source of the UrlList, and nothing else is.
LEMMA SourcesAre ==
  ASSUME NEW text, NEW ts \in Seq(AnyTarget), Lists(text, ts)
  PROVE  ToSet(Sources(text)) = {Written(t) : t \in ToSet(ts)}
BY DEF Lists, ToSet

\* The schemes that setBrokers compares.
LEMMA SchemesAre ==
  ASSUME NEW text, NEW ts \in Seq(AnyTarget), Lists(text, ts)
  PROVE  Schemes(text) = {Lead(t) : t \in ToSet(ts)}
<1>1. ToSet(ts) \subseteq AnyTarget
  BY DEF ToSet
<1>2. \A t \in ToSet(ts) : Lower(Before(Written(t), {":"})) = Lead(t)
  BY <1>1, TargetIsRead, KafkaIsRead, LeadIs DEF AnyTarget
<1>3. ToSet(Sources(text)) = {Written(t) : t \in ToSet(ts)}
  BY SourcesAre
<1>4. Schemes(text) = {Lower(Before(s, {":"})) : s \in ToSet(Sources(text))}
  BY DEF Schemes
<1> QED
  BY <1>2, <1>3, <1>4

Taken(set) ==
  /\ \A t \in set : IsTarget(t) \/ t.port # Absent
  /\ \A t, o \in set : Lead(t) = Lead(o)

\* What setBrokers and the choice of the producer make of a list.
LEMMA ListIsJudged ==
  ASSUME NEW text, NEW ts \in Seq(AnyTarget), Lists(text, ts)
  PROVE  /\ Refused(text) <=> ~Taken(ToSet(ts))
         /\ ProducerType(text) = "HTTP" <=> \E t \in ToSet(ts) : IsTarget(t)
<1> DEFINE set == ToSet(ts)
<1>1. set \subseteq AnyTarget
  BY DEF ToSet
<1>2. Schemes(text) = {Lead(t) : t \in set}
  BY SchemesAre
<1>3. ToSet(Sources(text)) = {Written(t) : t \in set}
  BY SourcesAre
<1> HIDE DEF set
<1>4. (\E source \in ToSet(Sources(text)) : Throws(source)) <=>
        \E t \in set : Throws(Written(t))
  BY <1>3
<1>5. \A t \in set : Throws(Written(t)) <=> ~(IsTarget(t) \/ t.port # Absent)
  BY <1>1, TargetIsRead, KafkaIsRead, TargetsAndKafkas DEF AnyTarget
<1>6. (\E a, b \in Schemes(text) : a # b) <=>
        \E t, o \in set : Lead(t) # Lead(o)
  BY <1>2
<1>7. Refused(text) <=> ~Taken(set)
  BY <1>4, <1>5, <1>6 DEF Refused, Taken
<1>8. Schemes(text) \cap {<<"http">>, <<"https">>} # {} <=>
        \E t \in set : Lead(t) \in {<<"http">>, <<"https">>}
  BY <1>2
<1>9. \A t \in set : Lead(t) \in {<<"http">>, <<"https">>} <=> IsTarget(t)
  BY <1>1, LeadIs, TargetsAndKafkas DEF AnyTarget
<1>10. ProducerType(text) = "HTTP" <=> \E t \in set : IsTarget(t)
  BY <1>8, <1>9 DEF ProducerType
<1> QED
  BY <1>7, <1>10 DEF set

-----------------------------------------------------------------------------
(***************************************************************************)
(* The invariant                                                           *)
(***************************************************************************)

\* Sequences of targets.
LEMMA AppendIs ==
  ASSUME NEW S, NEW s \in Seq(S), NEW e \in S
  PROVE  /\ Append(s, e) \in Seq(S) /\ Append(s, e) # <<>>
         /\ DOMAIN Append(s, e) = 1 .. (Len(s) + 1)
         /\ \A k \in 1 .. Len(s) : Append(s, e)[k] = s[k]
         /\ Append(s, e)[Len(s) + 1] = e
OBVIOUS

LEMMA AppendToEmpty == \A e : Append(<<>>, e) = <<e>>
OBVIOUS

LEMMA WrittenAppend ==
  ASSUME NEW S, NEW ts \in Seq(S), NEW t \in S
  PROVE  [k \in DOMAIN Append(ts, t) |-> Written(Append(ts, t)[k])] =
           Append([k \in DOMAIN ts |-> Written(ts[k])], Written(t))
<1> DEFINE some == [k \in DOMAIN ts |-> Written(ts[k])]
           n == Len(ts)
<1>1. n \in Nat /\ DOMAIN ts = 1 .. n
  OBVIOUS
<1>2. /\ some \in Seq({some[k] : k \in 1 .. n} \cup {Written(t)})
      /\ Len(some) = n
  BY <1>1
<1>3. /\ DOMAIN Append(ts, t) = 1 .. (n + 1)
      /\ \A k \in 1 .. n : Append(ts, t)[k] = ts[k]
      /\ Append(ts, t)[n + 1] = t
  BY AppendIs
<1>4. \A k \in 1 .. n : some[k] = Written(ts[k])
  BY <1>1
<1> HIDE DEF some
<1>5. /\ DOMAIN Append(some, Written(t)) = 1 .. (n + 1)
      /\ \A k \in 1 .. n : Append(some, Written(t))[k] = some[k]
      /\ Append(some, Written(t))[n + 1] = Written(t)
      /\ Append(some, Written(t)) =
           [k \in 1 .. (n + 1) |-> Append(some, Written(t))[k]]
  <2> DEFINE T == {some[k] : k \in 1 .. n} \cup {Written(t)}
             all == Append(some, Written(t))
  <2>1. some \in Seq(T) /\ Written(t) \in T /\ Len(some) = n
    BY <1>2
  <2> HIDE DEF T
  <2>2. /\ DOMAIN all = 1 .. (n + 1)
        /\ \A k \in 1 .. n : all[k] = some[k]
        /\ all[n + 1] = Written(t) /\ all \in Seq(T)
    BY <2>1, AppendIs
  <2>3. all = [k \in DOMAIN all |-> all[k]]
    <3> HIDE DEF all
    <3> QED
      BY <2>2
  <2> QED
    BY <2>2, <2>3
<1>6. \A k \in 1 .. (n + 1) :
         Written(Append(ts, t)[k]) = Append(some, Written(t))[k]
  <2>1. TAKE k \in 1 .. (n + 1)
  <2>2. CASE k \in 1 .. n
    BY <1>3, <1>4, <1>5, <2>2
  <2>3. CASE k = n + 1
    BY <1>3, <1>5, <2>3
  <2>4. k \in 1 .. n \/ k = n + 1
    <3> HIDE DEF n
    <3> QED
      BY <1>1
  <2> QED
    BY <2>2, <2>3, <2>4
<1> HIDE DEF n
<1>7. [k \in DOMAIN Append(ts, t) |-> Written(Append(ts, t)[k])] =
        Append(some, Written(t))
  BY <1>3, <1>5, <1>6
<1> QED
  BY <1>7 DEF some

ListsInv ==
  /\ targets \in Seq(AnyTarget)
  /\ Lists(brokers, targets)
  /\ stage \in {"typed", "refused", "added", "running"}
  /\ stage = "typed" => IF targets = <<>> THEN brokers = <<>>
                                          ELSE WellSplit(brokers, ",")
  /\ stage = "refused" => Refused(brokers)
  /\ stage \in {"added", "running"} =>
       ~Refused(brokers) /\ producer = ProducerType(brokers)
  /\ stage = "running" /\ producer = "HTTP" =>
       connections = [i \in DOMAIN targets |-> Connection(Written(targets[i]))]

\* Before the first target is typed.
LEMMA ListsInvInit == Init => ListsInv
<1> SUFFICES ASSUME Init PROVE ListsInv
  OBVIOUS
<1>1. targets = <<>> /\ brokers = <<>> /\ stage = "typed"
  BY DEF Init
<1>2. Sources(<<>>) = <<>>
  BY SplitOfEmpty DEF Sources
<1>3. Lists(brokers, targets)
  BY <1>1, <1>2 DEF Lists
<1> QED
  BY <1>1, <1>3 DEF ListsInv

\* One more target is one more token.
LEMMA OneMoreTarget ==
  ASSUME NEW ts \in Seq(AnyTarget), NEW text, Lists(text, ts),
         IF ts = <<>> THEN text = <<>> ELSE WellSplit(text, ","),
         NEW t \in AnyTarget
  PROVE  LET longer == text \o
                         ((IF ts = <<>> THEN <<>> ELSE <<",">>) \o Written(t))
         IN WellSplit(longer, ",") /\ Lists(longer, Append(ts, t))
<1> DEFINE comma == ","
           w == Written(t)
<1>1. comma \in Symbol
  BY IsDelimiter, DelimitersAreSymbols
<1>2. w \in Text /\ w # <<>> /\ ~Exists(w, {comma})
  BY WrittenHas
<1> DEFINE all == [k \in DOMAIN Append(ts, t) |-> Written(Append(ts, t)[k])]
           some == [k \in DOMAIN ts |-> Written(ts[k])]
<1>3. all = Append(some, w)
  BY WrittenAppend
<1>4. Sources(text) = some
  BY DEF Lists
<1>5. \A x : Sources(x) = SplitString(x, comma)
  BY DEF Sources
<1> HIDE DEF comma, w, all, some
<1>6. CASE ts = <<>>
  <2>1. text \o (<<>> \o w) = w
    BY <1>2, <1>6, JoinEmpty
  <2>2. WellSplit(w, comma) /\ SplitString(w, comma) = <<w>>
    BY <1>1, <1>2, SplitOfOne
  <2>3. some = <<>>
    BY <1>6 DEF some
  <2>4. Append(some, w) = <<w>>
    BY <2>3, AppendToEmpty
  <2>5. Lists(w, Append(ts, t))
    BY <1>3, <1>5, <2>2, <2>4 DEF Lists, all
  <2> QED
    BY <1>6, <2>1, <2>2, <2>5 DEF comma, w
<1>7. CASE ts # <<>>
  <2> DEFINE longer == text \o (<<comma>> \o w)
  <2>1. WellSplit(text, comma)
    BY <1>7 DEF comma
  <2>2. /\ WellSplit(longer, comma)
        /\ SplitString(longer, comma) = Append(SplitString(text, comma), w)
    BY <1>1, <1>2, <2>1, SplitOfJoin
  <2> HIDE DEF longer
  <2>3. Lists(longer, Append(ts, t))
    BY <1>3, <1>4, <1>5, <2>2 DEF Lists, all
  <2> QED
    BY <1>7, <2>2, <2>3 DEF longer, comma, w
<1> QED
  BY <1>6, <1>7

\* One case for each action.
LEMMA ListsInvStep == ListsInv /\ [Next]_vars => ListsInv'
<1> SUFFICES ASSUME ListsInv, [Next]_vars PROVE ListsInv'
  OBVIOUS
<1>1. CASE TypeTarget
  <2>1. /\ stage = "typed" /\ targets \in Seq(AnyTarget)
        /\ Lists(brokers, targets)
        /\ IF targets = <<>> THEN brokers = <<>> ELSE WellSplit(brokers, ",")
    BY <1>1 DEF ListsInv, TypeTarget
  <2>2. PICK t \in AnyTarget :
          /\ targets' = Append(targets, t)
          /\ brokers' = brokers \o
               ((IF targets = <<>> THEN <<>> ELSE <<",">>) \o Written(t))
    BY <1>1 DEF TypeTarget, Simple, AnyTarget
  <2>3. WellSplit(brokers', ",") /\ Lists(brokers', Append(targets, t))
    BY <2>1, <2>2, OneMoreTarget
  <2>4. targets' \in Seq(AnyTarget) /\ targets' # <<>>
    <3>1. Append(targets, t) \in Seq(AnyTarget) /\ Append(targets, t) # <<>>
      <4>1. targets \in Seq(AnyTarget) /\ t \in AnyTarget
        BY <2>1
      <4>2. Append(targets, t) \in Seq(AnyTarget)
        BY <4>1
      <4>3. Len(Append(targets, t)) = Len(targets) + 1 /\ Len(targets) \in Nat
        BY <4>1
      <4>4. Append(targets, t) # <<>>
        BY <4>3
      <4> QED
        BY <4>2, <4>4
    <3> QED
      BY <2>2, <3>1
  <2>5. stage' = "typed"
    BY <1>1, <2>1 DEF TypeTarget
  <2> QED
    BY <2>2, <2>3, <2>4, <2>5 DEF ListsInv
<1>2. CASE AddWatch
  <2>1. /\ stage = "typed" /\ targets \in Seq(AnyTarget)
        /\ Lists(brokers, targets)
        /\ IF targets = <<>> THEN brokers = <<>> ELSE WellSplit(brokers, ",")
    BY <1>2 DEF ListsInv, AddWatch
  <2>2. Lists(brokers', targets) /\ targets' = targets
    <3>1. targets' = targets
      BY <1>2 DEF AddWatch
    <3>2. CASE targets = <<>>
      <4>1. brokers' = brokers \o <<>> /\ brokers = <<>>
        BY <1>2, <2>1, <3>2 DEF AddWatch
      <4> QED
        BY <2>1, <3>1, <4>1, EmptyIsText, JoinEmpty
    <3>3. CASE targets # <<>>
      <4> DEFINE comma == ","
      <4>1. brokers' \in {brokers \o <<>>, brokers \o <<comma>>}
        BY <1>2, <3>3 DEF AddWatch
      <4>2. WellSplit(brokers, comma) /\ comma \in Symbol
        BY <2>1, <3>3, IsDelimiter, DelimitersAreSymbols
      <4>3. \A x : Sources(x) = SplitString(x, comma)
        BY DEF Sources
      <4> HIDE DEF comma
      <4>4. brokers \in Text
        BY <4>2 DEF WellSplit
      <4>5. SplitString(brokers \o <<comma>>, comma) = SplitString(brokers, comma)
        BY <4>2, SplitBeforeComma
      <4>6. brokers \o <<>> = brokers
        BY <4>4, JoinEmpty
      <4>7. Sources(brokers') = Sources(brokers)
        BY <4>1, <4>3, <4>5, <4>6
      <4> QED
        BY <2>1, <3>1, <4>7 DEF Lists
    <3> QED
      BY <3>2, <3>3, <3>1
  <2>3. CASE Refused(brokers')
    <3>1. stage' = "refused"
      BY <1>2, <2>3 DEF AddWatch
    <3> QED
      BY <2>1, <2>2, <2>3, <3>1 DEF ListsInv
  <2>4. CASE ~Refused(brokers')
    <3>1. stage' = "added" /\ producer' = ProducerType(brokers')
      BY <1>2, <2>4 DEF AddWatch
    <3> QED
      BY <2>1, <2>2, <2>4, <3>1 DEF ListsInv
  <2> QED
    BY <2>3, <2>4
<1>3. CASE RunNow
  <2>1. /\ stage = "added" /\ stage' = "running"
        /\ targets' = targets /\ brokers' = brokers
        /\ producer' = ProducerType(brokers)
        /\ producer' # "KAFKA" =>
             connections' = [i \in DOMAIN Sources(brokers) |->
                               Connection(Sources(brokers)[i])]
    BY <1>3 DEF RunNow
  <2>2. /\ targets \in Seq(AnyTarget) /\ Lists(brokers, targets)
        /\ ~Refused(brokers)
    BY <2>1 DEF ListsInv
  <2>3. producer' # "KAFKA" =>
          connections' = [i \in DOMAIN targets |-> Connection(Written(targets[i]))]
    <3>1. /\ DOMAIN Sources(brokers) = DOMAIN targets
          /\ \A i \in DOMAIN targets : Sources(brokers)[i] = Written(targets[i])
      BY <2>2 DEF Lists
    <3> QED
      BY <2>1, <3>1
  <2> QED
    BY <2>1, <2>2, <2>3 DEF ListsInv
<1>4. CASE UNCHANGED vars
  BY <1>4 DEF ListsInv, vars
<1> QED
  BY <1>1, <1>2, <1>3, <1>4 DEF Next

\* The column of the row holds the targets that were typed, whatever they
\* are and however many, and the connections are made of them.
THEOREM ListsSafe == Spec => []ListsInv
BY ListsInvInit, ListsInvStep, PTL DEF Spec

\* A watch is refused exactly if a target has no colon or the schemes differ,
\* and its producer is an HttpProducer exactly if a target is a Url of http.
THEOREM Judged == Spec => []ListsAreJudged
<1>1. ListsInv => ListsAreJudged
  <2> SUFFICES ASSUME ListsInv PROVE ListsAreJudged
    OBVIOUS
  <2>1. targets \in Seq(AnyTarget) /\ Lists(brokers, targets)
    BY DEF ListsInv
  <2>2. /\ Refused(brokers) <=> ~Taken(ToSet(targets))
        /\ ProducerType(brokers) = "HTTP" <=> \E t \in ToSet(targets) : IsTarget(t)
    BY <2>1, ListIsJudged
  <2>3. /\ stage = "refused" => ~Taken(ToSet(targets))
        /\ stage \in {"added", "running"} =>
             /\ Taken(ToSet(targets))
             /\ producer = "HTTP" <=> \E t \in ToSet(targets) : IsTarget(t)
    BY <2>2 DEF ListsInv
  <2> QED
    BY <2>3 DEF ListsAreJudged, Taken
<1> QED
  BY <1>1, ListsSafe, PTL

-----------------------------------------------------------------------------
(***************************************************************************)
(* The connections                                                         *)
(***************************************************************************)

\* getPort: the port that was given, or the scheme's.
LEMMA PortIsRead ==
  ASSUME NEW t \in Targets, NEW url,
         url.port = t.port, url.scheme = Lower(t.scheme)
  PROVE  GetPort(url) = MeantPort(t)
<1>1. t.port = <<>> \/ t.port = <<"443">> \/ t.port = <<"8080">>
  BY DEF Targets, Target, Absent
<1>2. /\ Lower(t.scheme) \in {<<"http">>, <<"https">>}
      /\ Lower(t.scheme) = <<"https">> <=> t.scheme = <<"https">>
  BY LeadIs
<1>3. <<"443">> # <<"8080">> /\ <<"http">> # <<"https">>
  OBVIOUS
<1>4. Number(<<"443">>) = 443 /\ Number(<<"8080">>) = 8080
  BY <1>3 DEF Number
<1>5. ASSUME t.port = <<>> PROVE GetPort(url) = MeantPort(t)
  BY <1>2, <1>3, <1>5 DEF GetPort, MeantPort, Absent
<1>6. ASSUME t.port = <<"443">> PROVE GetPort(url) = MeantPort(t)
  BY <1>3, <1>4, <1>6 DEF GetPort, MeantPort, Absent
<1>7. ASSUME t.port = <<"8080">> PROVE GetPort(url) = MeantPort(t)
  BY <1>3, <1>4, <1>7 DEF GetPort, MeantPort, Absent
<1> QED
  BY <1>1, <1>5, <1>6, <1>7, Zenon

\* https, in lower or upper case.
LEMMA SecureIs ==
  ASSUME NEW t \in Targets
  PROVE  Lower(t.scheme) \in {<<"ssh">>, <<"https">>} <=> t.scheme = <<"https">>
<1>1. /\ Lower(t.scheme) \in {<<"http">>, <<"https">>}
      /\ Lower(t.scheme) = <<"https">> <=> t.scheme = <<"https">>
  BY LeadIs
<1>2. <<"ssh">> # <<"http">> /\ <<"ssh">> # <<"https">>
  OBVIOUS
<1> QED
  BY <1>1, <1>2

\* unescape_path reads a path as far as it can.
LEMMA PathIsRead ==
  ASSUME NEW t \in Targets
  PROVE  Unescaped(t.path) = ReadPath(t.path)
<1> DEFINE none == "{}"
           escape == "%70"
           p == "p"
           slash == "/"
           read(s) == IF s = escape THEN p ELSE s
<1>1. /\ t.path \in {<<>>, <<slash>>, <<slash, escape>>}
         \/ \E w \in Words : t.path \in {<<slash, w>>, <<slash, w, none, w>>}
  BY DEF Targets, Target, Absent
<1>2. /\ slash # none /\ slash # escape /\ escape # none
      /\ \A w \in Words : w # none /\ w # escape /\ w # slash
      /\ none \in Symbol /\ slash \in Symbol /\ escape \in Symbol
      /\ \A w \in Words : w \in Symbol
  BY WordsAssumption DEF Special, Delimiters, Symbol
<1>3. \A text : Unescaped(text) =
                  [i \in DOMAIN Before(text, {none}) |-> read(text[i])]
  BY DEF Unescaped
<1>4. \A text : ReadPath(text) =
                  IF text = <<slash, escape>> THEN <<slash, p>>
                  ELSE IF none \in ToSet(text) THEN SubSeq(text, 1, 2) ELSE text
  BY DEF ReadPath
<1>5. \A text : none \in ToSet(text) <=> Exists(text, {none})
  BY DEF ToSet, Exists
<1>6. /\ \A s : s # escape => read(s) = s
      /\ read(escape) = p
  OBVIOUS
<1> HIDE DEF none, escape, p, slash, read
<1>7. ASSUME NEW text \in Text, ~Exists(text, {none}),
             \A i \in DOMAIN text : text[i] # escape
      PROVE  Unescaped(text) = text
  <2>1. Unescaped(text) = [i \in DOMAIN text |-> read(text[i])]
    BY <1>3, <1>7, NoneBefore
  <2>2. \A i \in DOMAIN text : read(text[i]) = text[i]
    BY <1>6, <1>7
  <2>3. text = [i \in DOMAIN text |-> text[i]]
    BY DEF Text
  <2> QED
    BY <2>1, <2>2, <2>3
<1>8. CASE t.path = <<>>
  <2>1. ~Exists(<<>>, {none}) /\ <<>> \in Text
    BY NoneInEmpty, EmptyIsText
  <2>2. Unescaped(<<>>) = <<>>
    BY <1>7, <2>1
  <2> QED
    BY <1>4, <1>5, <1>8, <2>1, <2>2
<1>9. ASSUME NEW s \in Symbol, s # none, s # escape
      PROVE  Unescaped(<<s>>) = <<s>> /\ ReadPath(<<s>>) = <<s>>
  <2>1. <<s>> \in Text /\ ~Exists(<<s>>, {none})
    BY <1>9, OneIsText, OneExists
  <2>2. Unescaped(<<s>>) = <<s>>
    BY <1>7, <1>9, <2>1
  <2> QED
    BY <1>4, <1>5, <2>1, <2>2
<1>10. CASE t.path = <<slash>>
  BY <1>2, <1>9, <1>10
<1>11. CASE t.path = <<slash, escape>>
  <2>1. ~Exists(<<slash, escape>>, {none})
    BY <1>2 DEF Exists
  <2>2. Unescaped(<<slash, escape>>) =
          [i \in DOMAIN <<slash, escape>> |-> read(<<slash, escape>>[i])]
    BY <1>3, <2>1, NoneBefore
  <2>3. Unescaped(<<slash, escape>>) = <<read(slash), read(escape)>>
    BY <2>2
  <2> QED
    BY <1>2, <1>4, <1>6, <1>11, <2>3
<1>12. ASSUME NEW w \in Words, t.path = <<slash, w>>
       PROVE  Unescaped(t.path) = ReadPath(t.path)
  <2> DEFINE text == <<slash, w>>
  <2>1. /\ text \in Text /\ ~Exists(text, {none})
        /\ \A i \in DOMAIN text : text[i] # escape /\ text # <<slash, escape>>
    BY <1>2 DEF Exists, Text
  <2>2. text # <<slash, escape>>
    BY <1>2
  <2> HIDE DEF text
  <2>3. Unescaped(text) = text
    BY <1>7, <2>1
  <2>4. ReadPath(text) = text
    BY <1>4, <1>5, <2>1, <2>2
  <2> QED
    BY <1>12, <2>3, <2>4 DEF text
<1>13. ASSUME NEW w \in Words, t.path = <<slash, w, none, w>>
       PROVE  Unescaped(t.path) = ReadPath(t.path)
  <2> DEFINE u == <<slash, w>>
             v == <<none, w>>
             text == <<slash, w, none, w>>
  <2>1. /\ u \in Text /\ v \in Text /\ v # <<>> /\ v[1] = none
        /\ ~Exists(u, {none}) /\ text = u \o v
    BY <1>2 DEF Exists, Text
  <2>2. Exists(u \o v, {none}) /\ Before(u \o v, {none}) = u
    <3> HIDE DEF u, v
    <3> QED
      BY <2>1, JoinAt
  <2>3. Unescaped(text) = [i \in DOMAIN u |-> read(text[i])]
    BY <1>3, <2>1, <2>2
  <2>4. read(slash) = slash /\ read(w) = w
    BY <1>2, <1>6
  <2>5. Unescaped(text) = <<slash, w>>
    <3>1. DOMAIN u = 1 .. 2 /\ text[1] = slash /\ text[2] = w
      OBVIOUS
    <3>2. [i \in 1 .. 2 |-> read(text[i])] = <<read(text[1]), read(text[2])>>
      OBVIOUS
    <3> QED
      BY <2>3, <2>4, <3>1, <3>2
  <2>6. SubSeq(text, 1, 2) = <<slash, w>> /\ text # <<slash, escape>>
    <3>1. Len(text) = 4 /\ Len(<<slash, escape>>) = 2
      OBVIOUS
    <3>2. SubSeq(u \o v, 1, Len(u)) = u /\ Len(u) = 2
      <4>1. u \in Text /\ v \in Text /\ Len(u) = 2
        BY <2>1
      <4> HIDE DEF u, v
      <4> QED
        BY <4>1, FrontOfJoin
    <3> QED
      BY <2>1, <3>1, <3>2
  <2>7. none \in ToSet(text)
    BY <1>5, <2>1, <2>2
  <2>8. ReadPath(text) = <<slash, w>>
    <3> HIDE DEF text
    <3> QED
      BY <1>4, <2>6, <2>7
  <2> QED
    BY <1>13, <2>5, <2>8
<1> QED
  BY <1>1, <1>8, <1>10, <1>11, <1>12, <1>13

\* The bytes of a text that is not empty come back.
LEMMA BytesComeBack ==
  ASSUME NEW text \in Text, text # <<>>
  PROVE  Decode(Encode(Bytes(text))) = Bytes(text)
<1>1. \A s : ByteOf(s) \in Byte
  BY DEF ByteOf, Byte
<1>2. /\ DOMAIN text = 1 .. Len(text) /\ Len(text) \in Nat /\ Len(text) > 0
  BY DEF Text
<1>3. Bytes(text) = [k \in 1 .. Len(text) |-> ByteOf(text[k])]
  BY <1>2 DEF Bytes
<1>4. Bytes(text) \in Seq(Byte) /\ Len(Bytes(text)) = Len(text)
  BY <1>1, <1>2, <1>3
<1> QED
  BY <1>2, <1>4, RoundTrip

\* HttpProducer's connection is to the target that was typed.
LEMMA TargetIsReached ==
  ASSUME NEW t \in Targets
  PROVE  ConnectsTo(Connection(Written(t)), t)
<1> DEFINE url == FromString(Written(t))
           c == Connection(Written(t))
<1>1. url = [scheme |-> Lower(t.scheme),
             secure |-> Lower(t.scheme) \in {<<"ssh">>, <<"https">>}
                          \/ t.port = <<"443">>,
             username |-> t.user, password |-> t.password,
             host |-> t.host, port |-> t.port,
             path |-> t.path, query |-> t.query, fragment |-> t.fragment]
  BY TargetIsRead
<1>2. c = [host |-> url.host, port |-> GetPort(url), secure |-> url.secure,
           authorization |->
             IF url.username = <<>> THEN <<>>
             ELSE Encode(Bytes(url.username \o <<":">> \o url.password)),
           fullPath |-> GetFullPath(url)]
  BY DEF Connection
<1> HIDE DEF url, c
<1>3. /\ url.host = t.host /\ url.port = t.port
      /\ url.username = t.user /\ url.password = t.password
      /\ url.path = t.path /\ url.query = t.query /\ url.fragment = t.fragment
      /\ url.scheme = Lower(t.scheme)
      /\ url.secure = (Lower(t.scheme) \in {<<"ssh">>, <<"https">>}
                          \/ t.port = <<"443">>)
  BY <1>1
<1>4. c.host = t.host
  BY <1>2, <1>3
<1>5. c.secure = (t.scheme = <<"https">> \/ t.port = <<"443">>)
  <2>1. c.secure = url.secure
    BY <1>2
  <2>2. (Lower(t.scheme) \in {<<"ssh">>, <<"https">>} \/ t.port = <<"443">>) =
          (t.scheme = <<"https">> \/ t.port = <<"443">>)
    BY SecureIs
  <2> QED
    BY <1>3, <2>1, <2>2
<1>6. c.port = MeantPort(t)
  BY <1>2, <1>3, PortIsRead
<1>7. c.fullPath = ReadPath(t.path) \o Marked("?", t.query)
                     \o Marked("#", t.fragment)
  <2>1. c.fullPath = Unescaped(t.path) \o Marked("?", t.query)
                       \o Marked("#", t.fragment)
    BY <1>2, <1>3 DEF GetFullPath
  <2> QED
    BY <2>1, PathIsRead
<1>8. IF t.user = Absent THEN c.authorization = <<>>
      ELSE Decode(c.authorization) = Bytes(t.user \o <<":">> \o t.password)
  <2> DEFINE colon == ":"
             text == (t.user \o <<colon>>) \o t.password
  <2>1. CASE t.user = Absent
    BY <1>2, <1>3, <2>1 DEF Absent
  <2>2. CASE t.user # Absent
    <3>1. c.authorization = Encode(Bytes(text))
      BY <1>2, <1>3, <2>2 DEF Absent
    <3>2. /\ t.user \in Text /\ t.user # <<>> /\ t.password \in Text
          /\ colon \in Symbol
      BY <2>2, PartsArePlain, IsDelimiter, DelimitersAreSymbols DEF Plain, Absent
    <3> HIDE DEF colon
    <3>3. <<colon>> \in Text
      BY <3>2, OneIsText
    <3>4. t.user \o <<colon>> \in Text /\ t.user \o <<colon>> # <<>>
      BY <3>2, <3>3, JoinAssoc, FirstOfJoin
    <3> DEFINE name == t.user \o <<colon>>
    <3>5. name \in Text /\ name # <<>>
      BY <3>4
    <3> HIDE DEF name
    <3>6. name \o t.password \in Text /\ name \o t.password # <<>>
      BY <3>2, <3>5, JoinAssoc, FirstOfJoin
    <3>7. text \in Text /\ text # <<>>
      BY <3>6 DEF name
    <3> HIDE DEF text
    <3> QED
      BY <2>2, <3>1, <3>7, BytesComeBack DEF text, colon
  <2> QED
    BY <2>1, <2>2
<1> QED
  BY <1>4, <1>5, <1>6, <1>7, <1>8 DEF ConnectsTo, c

\* The process of a watch connects to the targets that the command was
\* given, each with its port, security, path and credentials.
THEOREM Connects == Spec => []ConnectsToTheTargets
<1>1. ListsInv => ConnectsToTheTargets
  <2> SUFFICES ASSUME ListsInv, stage = "running", producer = "HTTP"
               PROVE  /\ Len(connections) = Len(targets)
                      /\ \A i \in DOMAIN targets :
                           ConnectsTo(connections[i], targets[i])
    BY DEF ConnectsToTheTargets
  <2>1. /\ targets \in Seq(AnyTarget) /\ Lists(brokers, targets)
        /\ ~Refused(brokers) /\ ProducerType(brokers) = "HTTP"
        /\ connections =
             [i \in DOMAIN targets |-> Connection(Written(targets[i]))]
    BY DEF ListsInv
  <2>2. Taken(ToSet(targets)) /\ \E t \in ToSet(targets) : IsTarget(t)
    BY <2>1, ListIsJudged
  <2>3. ToSet(targets) \subseteq AnyTarget
    BY <2>1 DEF ToSet
  <2>4. ToSet(targets) \subseteq Targets
    <3>1. PICK t \in ToSet(targets) : IsTarget(t)
      BY <2>2
    <3>2. t \in Targets
      BY <2>3, <3>1, TargetsAndKafkas DEF AnyTarget
    <3>3. \A o \in ToSet(targets) : Lead(o) = Lead(t)
      BY <2>2 DEF Taken
    <3>4. \A o \in ToSet(targets) : o \notin Kafkas
      BY <3>2, <3>3, LeadIs
    <3> QED
      BY <2>3, <3>4 DEF AnyTarget
  <2>5. \A i \in DOMAIN targets : targets[i] \in Targets
    BY <2>1, <2>4 DEF ToSet
  <2>6. \A i \in DOMAIN targets :
          ConnectsTo(Connection(Written(targets[i])), targets[i])
    BY <2>5, TargetIsReached
  <2>7. Len(connections) = Len(targets)
    <3>1. DOMAIN targets = 1 .. Len(targets) /\ Len(targets) \in Nat
      BY <2>1
    <3>2. DOMAIN connections = 1 .. Len(targets)
      BY <2>1, <3>1
    <3>3. connections = [i \in 1 .. Len(targets) |-> Connection(Written(targets[i]))]
      BY <2>1, <3>1
    <3> QED
      BY <3>1, <3>3
  <2> QED
    BY <2>1, <2>6, <2>7
<1> QED
  BY <1>1, ListsSafe, PTL

=============================================================================
