-------------------------- MODULE HashNumberProofs --------------------------
(***************************************************************************)
(* Theorems about HashNumber: the padding of a message, for every size of  *)
(* a block and every message, and the comparisons, sums and differences of *)
(* UINT128_t and UINT256_t, for every width of a word.                     *)
(***************************************************************************)
EXTENDS HashNumber, SequenceTheorems, TLAPS

-----------------------------------------------------------------------------
(* Padding *)

\* What a block or a message is made of: bytes, the mark, and the bytes of a length.
Unit == Byte \cup {0, Mark} \cup {Length(n)[i] : n \in Nat, i \in 1..LengthBytes}

\* The only remainder of x is the one that is right.
LEMMA RemainderIs ==
  ASSUME NEW B \in Nat \ {0}, NEW k \in Int, NEW r \in 0..(B - 1), NEW y \in Int, y = B * k + r
  PROVE  y % B = r
<1>1. y % B \in 0..(B - 1) OBVIOUS
<1>2. y = B * (y \div B) + (y % B) OBVIOUS
<1>3. y \div B \in Int OBVIOUS
<1> DEFINE q == y \div B
           s == y % B
<1>4. B * k + r = B * q + s BY <1>2
<1> HIDE DEF q, s
<1>5. s \in 0..(B - 1) /\ q \in Int BY <1>1, <1>3 DEF q, s
<1>6. B * (q - k) = r - s BY <1>4, <1>5
<1>7. q - k >= 1 => B * (q - k) >= B
  BY <1>5
<1>8. k - q >= 1 => B * (q - k) <= -B
  <2> SUFFICES ASSUME k - q >= 1 PROVE B * (q - k) <= -B OBVIOUS
  <2>1. B * (k - q) >= B BY <1>5
  <2>2. B * (q - k) = -(B * (k - q)) BY <1>5
  <2>3. B * (k - q) \in Int BY <1>5
  <2> QED BY <2>1, <2>2, <2>3
<1>9. q = k BY <1>5, <1>6, <1>7, <1>8
<1> QED BY <1>4, <1>5, <1>9 DEF s

\* The sizes of a block.
LEMMA Sizes ==
  /\ BlockSize \in Nat \ {0} /\ LengthBytes \in Nat \ {0} /\ ByteBits \in Nat \ {0}
  /\ LengthAt \in 1..(BlockSize - 1) /\ LengthAt + LengthBytes = BlockSize
  BY BlockAssumption DEF LengthAt

\* The bytes of a length.
LEMMA LengthUnits ==
  ASSUME NEW n \in Nat
  PROVE  Length(n) \in Seq(Unit) /\ Len(Length(n)) = LengthBytes
<1>1. \A i \in 1..LengthBytes : Length(n)[i] \in Unit BY DEF Unit
<1>2. DOMAIN Length(n) = 1..LengthBytes /\ Length(n) = [i \in 1..LengthBytes |-> Length(n)[i]]
  BY DEF Length
<1> DEFINE l == Length(n)
<1> HIDE DEF l
<1>3. l \in [1..LengthBytes -> Unit] BY <1>1, <1>2 DEF l
<1>4. l \in Seq(Unit) /\ Len(l) = LengthBytes BY <1>3, Sizes
<1> QED BY <1>4 DEF l

\* How many zeros the padding has, and the length at its end.
Zeros(m) == (LengthAt - Len(m) - 1) % BlockSize
LengthOf(m) == Length(ByteBits * Len(m))

\* The units of a padded message.
LEMMA PaddedAt ==
  ASSUME NEW m \in Seq(Unit), NEW z \in 0..(BlockSize - 1), z = Zeros(m)
  PROVE  /\ Padded(m) \in Seq(Unit) /\ Len(Padded(m)) = Len(m) + 1 + z + LengthBytes
         /\ \A i \in 1..Len(m) : Padded(m)[i] = m[i]
         /\ Padded(m)[Len(m) + 1] = Mark
         /\ \A i \in 1..z : Padded(m)[Len(m) + 1 + i] = 0
         /\ \A i \in 1..LengthBytes : Padded(m)[Len(m) + 1 + z + i] = LengthOf(m)[i]
<1>a. PICK p, l : p = Padded(m) /\ l = LengthOf(m) OBVIOUS
<1>b. Len(m) \in Nat /\ z \in Nat /\ LengthBytes \in Nat BY Sizes, LenProperties
<1>c. ByteBits * Len(m) \in Nat BY <1>b, Sizes
<1>d. l \in Seq(Unit) /\ Len(l) = LengthBytes BY <1>a, <1>c, LengthUnits DEF LengthOf
<1> DEFINE o == [i \in 1..z |-> 0]
           a == m \o << Mark >>
           b == a \o o
<1>1. Mark \in Unit /\ 0 \in Unit BY DEF Unit
<1>2. o \in Seq(Unit) /\ Len(o) = z /\ \A i \in 1..z : o[i] = 0
  <2>1. o \in [1..z -> Unit] BY <1>1
  <2> QED BY <1>b, <2>1
<1>3. << Mark >> \in Seq(Unit) /\ Len(<< Mark >>) = 1 /\ << Mark >>[1] = Mark BY <1>1
<1>4. Len(m) \in Nat BY LenProperties
<1>5. p = b \o l BY <1>a DEF Padded, Zeros, LengthOf
<1> HIDE DEF o
<1>6. /\ a \in Seq(Unit) /\ Len(a) = Len(m) + 1
      /\ \A i \in 1..Len(m) : a[i] = m[i]
      /\ a[Len(m) + 1] = Mark
  <2>1. /\ a \in Seq(Unit) /\ Len(a) = Len(m) + Len(<< Mark >>)
        /\ \A i \in 1..Len(m) + Len(<< Mark >>) :
             a[i] = IF i <= Len(m) THEN m[i] ELSE << Mark >>[i - Len(m)]
    BY <1>3, ConcatProperties
  <2> QED BY <1>3, <1>4, <2>1
<1> HIDE DEF a
<1>7. /\ b \in Seq(Unit) /\ Len(b) = Len(m) + 1 + z
      /\ \A i \in 1..Len(a) : b[i] = a[i]
      /\ \A i \in 1..z : b[Len(a) + i] = 0
  <2>1. /\ b \in Seq(Unit) /\ Len(b) = Len(a) + Len(o)
        /\ \A i \in 1..Len(a) + Len(o) : b[i] = IF i <= Len(a) THEN a[i] ELSE o[i - Len(a)]
    BY <1>2, <1>6, ConcatProperties
  <2> QED BY <1>2, <1>4, <1>6, <2>1
<1> HIDE DEF b
<1>8. /\ p \in Seq(Unit) /\ Len(p) = Len(b) + Len(l)
      /\ \A i \in 1..Len(b) + Len(l) : p[i] = IF i <= Len(b) THEN b[i] ELSE l[i - Len(b)]
  <2>1. b \in Seq(Unit) BY <1>7
  <2>2. /\ (b \o l) \in Seq(Unit) /\ Len(b \o l) = Len(b) + Len(l)
        /\ \A i \in 1..Len(b) + Len(l) : (b \o l)[i] = IF i <= Len(b) THEN b[i] ELSE l[i - Len(b)]
    BY <1>d, <2>1, ConcatProperties
  <2> QED BY <1>5, <2>2
<1>9. LengthBytes \in Nat BY Sizes
<1>10. \A i \in 1..Len(m) : p[i] = m[i] BY <1>4, <1>6, <1>7, <1>8, <1>9
<1>11. p[Len(m) + 1] = Mark BY <1>4, <1>6, <1>7, <1>8, <1>9
<1>12. \A i \in 1..z : p[Len(m) + 1 + i] = 0
  <2> SUFFICES ASSUME NEW i \in 1..z PROVE p[Len(m) + 1 + i] = 0 OBVIOUS
  <2>1. Len(m) + 1 + i \in 1..Len(b) BY <1>4, <1>7
  <2>2. b[Len(m) + 1 + i] = 0 BY <1>6, <1>7
  <2> QED BY <1>4, <1>7, <1>8, <1>9, <2>1, <2>2
<1>13. \A i \in 1..LengthBytes : p[Len(m) + 1 + z + i] = l[i]
  <2> SUFFICES ASSUME NEW i \in 1..LengthBytes PROVE p[Len(m) + 1 + z + i] = l[i] OBVIOUS
  <2>1. Len(m) + 1 + z + i \in 1..Len(b) + Len(l) /\ ~(Len(m) + 1 + z + i <= Len(b))
    BY <1>b, <1>d, <1>4, <1>7, <1>9
  <2>2. p[Len(m) + 1 + z + i] = l[(Len(m) + 1 + z + i) - Len(b)] BY <1>8, <2>1
  <2>3. (Len(m) + 1 + z + i) - Len(b) = i BY <1>4, <1>7, <1>9
  <2> QED BY <2>2, <2>3
<1>14. Len(p) = Len(m) + 1 + z + LengthBytes BY <1>d, <1>7, <1>8
<1>15. p \in Seq(Unit) BY <1>8
<1> QED BY <1>a, <1>10, <1>11, <1>12, <1>13, <1>14, <1>15, Zenon

\* Of a context that was initialised: what was transformed and the first datalen bytes
\* of the buffer are the message, and whole blocks were transformed.
Buffered ==
  /\ datalen \in 0..(BlockSize - 1) /\ bitlen = ByteBits * Len(hashed)
  /\ \E k \in Nat : Len(hashed) = BlockSize * k
  /\ Len(message) = Len(hashed) + datalen
  /\ \A i \in 1..Len(hashed) : message[i] = hashed[i]
  /\ \A i \in 1..datalen : message[Len(hashed) + i] = data[i]

\* The inductive invariant.  Between two hashes the context is as sha256_init leaves it.
PaddingInv ==
  /\ data \in [1..BlockSize -> Unit] /\ message \in Seq(Unit) /\ hashed \in Seq(Unit)
  /\ pc = "update" => Buffered
  /\ pc = "final" => hashed = Padded(message)
  /\ pc \notin {"update", "final"} =>
       datalen = 0 /\ bitlen = 0 /\ message = << >> /\ hashed = << >>

\* A context without a message.
LEMMA BufferedEmpty ==
  ASSUME datalen = 0, bitlen = 0, message = << >>, hashed = << >>
  PROVE  Buffered
<1>1. Len(<< >>) = 0 OBVIOUS
<1>2. 0 \in 0..(BlockSize - 1) /\ ByteBits * 0 = 0 /\ BlockSize * 0 = 0 /\ 0 \in Nat BY Sizes
<1> QED BY <1>1, <1>2 DEF Buffered

\* Initially there is none.
LEMMA InitPadding == ASSUME Init PROVE PaddingInv
<1>1. /\ data \in {[i \in 1..BlockSize |-> b] : b \in Byte} /\ pc = "update"
      /\ datalen = 0 /\ bitlen = 0 /\ message = << >> /\ hashed = << >>
  BY DEF Init, Initial
<1>2. data \in [1..BlockSize -> Unit] BY <1>1 DEF Unit
<1>3. << >> \in Seq(Unit) OBVIOUS
<1> QED BY <1>1, <1>2, <1>3, BufferedEmpty DEF PaddingInv

\* A byte more (sha256_update).
LEMMA UpdatePadding == ASSUME PaddingInv, Update PROVE PaddingInv'
<1>1. PICK b \in MessageBytes : UpdateByte(b) BY DEF Update
<1>2. pc = "update" /\ pc' = "update" /\ Buffered BY DEF Update, PaddingInv
<1>3. b \in Unit BY HashAssumption DEF Unit
<1> DEFINE filled == [data EXCEPT ![datalen + 1] = b]
<1>4. /\ BlockSize \in Nat \ {0} /\ datalen \in 0..(BlockSize - 1)
      /\ Len(hashed) \in Nat /\ Len(message) \in Nat
  BY <1>2, Sizes, LenProperties DEF Buffered, PaddingInv
<1>5. /\ filled \in [1..BlockSize -> Unit] /\ filled[datalen + 1] = b
      /\ \A i \in 1..datalen : filled[i] = data[i]
  BY <1>3, <1>4 DEF PaddingInv
<1>6. /\ data' = filled /\ message' = Append(message, b)
      /\ \/ /\ datalen + 1 = BlockSize /\ datalen' = 0
            /\ hashed' = hashed \o filled /\ bitlen' = bitlen + ByteBits * BlockSize
         \/ datalen + 1 # BlockSize /\ datalen' = datalen + 1 /\ hashed' = hashed /\ bitlen' = bitlen
  BY <1>1 DEF UpdateByte
<1> HIDE DEF filled
<1>7. /\ message' \in Seq(Unit) /\ Len(message') = Len(message) + 1
      /\ \A i \in 1..Len(message) : message'[i] = message[i]
      /\ message'[Len(message) + 1] = b
  BY <1>3, <1>6, AppendProperties DEF PaddingInv
<1>8. /\ Len(message) = Len(hashed) + datalen
      /\ \A i \in 1..Len(hashed) : message'[i] = hashed[i]
      /\ \A i \in 1..datalen + 1 : message'[Len(hashed) + i] = filled[i]
  <2>1. /\ Len(message) = Len(hashed) + datalen
        /\ \A i \in 1..Len(hashed) : message[i] = hashed[i]
        /\ \A i \in 1..datalen : message[Len(hashed) + i] = data[i]
    BY <1>2 DEF Buffered
  <2>2. \A i \in 1..Len(hashed) : message'[i] = hashed[i] BY <1>4, <1>7, <2>1
  <2>3. ASSUME NEW i \in 1..datalen + 1 PROVE message'[Len(hashed) + i] = filled[i]
    <3>1. CASE i = datalen + 1 BY <1>4, <1>5, <1>7, <2>1, <3>1
    <3>2. CASE i # datalen + 1
      <4>1. i \in 1..datalen /\ Len(hashed) + i \in 1..Len(message) BY <1>4, <2>1, <3>2
      <4> QED BY <1>5, <1>7, <2>1, <4>1
    <3> QED BY <3>1, <3>2
  <2> QED BY <2>1, <2>2, <2>3
<1>9. PICK k \in Nat : Len(hashed) = BlockSize * k BY <1>2 DEF Buffered
<1>10. bitlen = ByteBits * Len(hashed) BY <1>2 DEF Buffered
<1>11. CASE datalen + 1 # BlockSize
  <2>1. datalen' \in 0..(BlockSize - 1) /\ datalen' = datalen + 1 BY <1>4, <1>6, <1>11
  <2>2. hashed' = hashed /\ bitlen' = bitlen BY <1>6, <1>11
  <2>3. Len(message') = Len(hashed) + (datalen + 1) BY <1>4, <1>7, <1>8
  <2>4. Buffered' BY <1>6, <1>8, <1>9, <1>10, <2>1, <2>2, <2>3 DEF Buffered
  <2> QED BY <1>2, <1>5, <1>6, <1>7, <2>2, <2>4 DEF PaddingInv
<1>12. CASE datalen + 1 = BlockSize
  <2>1. filled \in Seq(Unit) /\ Len(filled) = BlockSize BY <1>4, <1>5
  <2>2. hashed' = hashed \o filled /\ bitlen' = bitlen + ByteBits * BlockSize /\ datalen' = 0
    BY <1>6, <1>12
  <2>3. /\ hashed' \in Seq(Unit) /\ Len(hashed') = Len(hashed) + BlockSize
        /\ \A i \in 1..Len(hashed) + BlockSize :
             hashed'[i] = IF i <= Len(hashed) THEN hashed[i] ELSE filled[i - Len(hashed)]
    BY <2>1, <2>2, ConcatProperties DEF PaddingInv
  <2>4. Len(hashed') = BlockSize * (k + 1) /\ k + 1 \in Nat BY <1>4, <1>9, <2>3
  <2>5. bitlen' = ByteBits * Len(hashed')
    <3>1. ByteBits \in Nat BY Sizes
    <3> QED BY <1>4, <1>10, <2>2, <2>3, <3>1
  <2>6. \A i \in 1..Len(hashed') : message'[i] = hashed'[i]
    <3> SUFFICES ASSUME NEW i \in 1..Len(hashed) + BlockSize PROVE message'[i] = hashed'[i] BY <2>3
    <3>1. CASE i <= Len(hashed) BY <1>4, <1>8, <2>3, <3>1
    <3>2. CASE ~(i <= Len(hashed))
      <4>1. i - Len(hashed) \in 1..datalen + 1 /\ Len(hashed) + (i - Len(hashed)) = i
        BY <1>4, <1>12, <3>2
      <4>2. message'[i] = filled[i - Len(hashed)] BY <1>8, <4>1
      <4> QED BY <2>3, <3>2, <4>2
    <3> QED BY <3>1, <3>2
  <2>7. Len(message') = Len(hashed') + 0 BY <1>4, <1>7, <1>8, <1>12, <2>3
  <2>8. 0 \in 0..(BlockSize - 1) /\ \A i \in 1..0 : FALSE BY <1>4
  <2>9. Buffered' BY <2>2, <2>4, <2>5, <2>6, <2>7, <2>8 DEF Buffered
  <2> QED BY <1>2, <1>5, <1>6, <1>7, <2>3, <2>9 DEF PaddingInv
<1> QED BY <1>11, <1>12

\* Two padded messages, by their units: whatever ends in these units is the padded message.
LEMMA PaddedIs ==
  ASSUME NEW m \in Seq(Unit), NEW z \in 0..(BlockSize - 1), z = Zeros(m),
         NEW p \in Seq(Unit), Len(p) = Len(m) + 1 + z + LengthBytes,
         \A i \in 1..Len(m) : p[i] = m[i],
         p[Len(m) + 1] = Mark,
         \A i \in 1..z : p[Len(m) + 1 + i] = 0,
         \A i \in 1..LengthBytes : p[Len(m) + 1 + z + i] = LengthOf(m)[i]
  PROVE  p = Padded(m)
<1>1. PICK q : q = Padded(m) OBVIOUS
<1>2. Len(m) \in Nat /\ z \in Nat /\ LengthBytes \in Nat BY Sizes, LenProperties
<1>3. /\ Padded(m) \in Seq(Unit) /\ Len(Padded(m)) = Len(m) + 1 + z + LengthBytes
      /\ \A i \in 1..Len(m) : Padded(m)[i] = m[i]
      /\ Padded(m)[Len(m) + 1] = Mark
      /\ \A i \in 1..z : Padded(m)[Len(m) + 1 + i] = 0
      /\ \A i \in 1..LengthBytes : Padded(m)[Len(m) + 1 + z + i] = LengthOf(m)[i]
  BY PaddedAt, Zenon
<1>5. /\ q \in Seq(Unit) /\ Len(q) = Len(m) + 1 + z + LengthBytes
      /\ \A i \in 1..Len(m) : q[i] = m[i]
      /\ q[Len(m) + 1] = Mark
      /\ \A i \in 1..z : q[Len(m) + 1 + i] = 0
      /\ \A i \in 1..LengthBytes : q[Len(m) + 1 + z + i] = LengthOf(m)[i]
  BY <1>1, <1>3, Zenon
<1>6. ASSUME NEW i \in 1..Len(p) PROVE p[i] = q[i]
  <2>1. CASE i <= Len(m)
    <3>1. i \in 1..Len(m) BY <1>2, <2>1
    <3> QED BY <1>5, <3>1
  <2>2. CASE i = Len(m) + 1 BY <1>5, <2>2
  <2>3. CASE i > Len(m) + 1 /\ i <= Len(m) + 1 + z
    <3> DEFINE j == i - (Len(m) + 1)
    <3>1. j \in 1..z /\ Len(m) + 1 + j = i BY <1>2, <2>3
    <3> HIDE DEF j
    <3>2. p[Len(m) + 1 + j] = 0 /\ q[Len(m) + 1 + j] = 0 BY <1>5, <3>1
    <3> QED BY <3>1, <3>2
  <2>4. CASE i > Len(m) + 1 + z
    <3> DEFINE j == i - (Len(m) + 1 + z)
    <3>1. j \in 1..LengthBytes /\ Len(m) + 1 + z + j = i BY <1>2, <2>4
    <3> HIDE DEF j
    <3>2. p[Len(m) + 1 + z + j] = q[Len(m) + 1 + z + j] BY <1>5, <3>1
    <3> QED BY <3>1, <3>2
  <2> QED BY <1>2, <2>1, <2>2, <2>3, <2>4
<1>7. Len(p) = Len(q) BY <1>5
<1> QED BY <1>1, <1>5, <1>6, <1>7, SeqEqual

\* The last block or blocks (sha256_final).
LEMMA FinalPadding == ASSUME PaddingInv, Finish PROVE PaddingInv'
<1>1. pc = "update" /\ pc' = "final" /\ Buffered /\ Final BY DEF Finish, PaddingInv
<1> DEFINE n == Len(hashed)
           bits == bitlen + datalen * ByteBits
           zeros == [i \in 1..BlockSize |-> 0]
           padded == Marked(data, IF Fits THEN LengthAt ELSE BlockSize)
           last == LastBlock(IF Fits THEN padded ELSE zeros, bits)
           middle == IF Fits THEN << >> ELSE padded
<1>2. /\ hashed' = (hashed \o middle) \o last /\ data' = last
      /\ datalen' = datalen /\ message' = message
  BY <1>1 DEF Final
<1>3. /\ BlockSize \in Nat \ {0} /\ LengthBytes \in Nat \ {0} /\ ByteBits \in Nat
      /\ LengthAt \in 1..(BlockSize - 1) /\ LengthAt + LengthBytes = BlockSize
      /\ datalen \in 0..(BlockSize - 1) /\ n \in Nat
      /\ Len(message) = n + datalen
      /\ bitlen = ByteBits * n
  BY <1>1, Sizes, LenProperties DEF Buffered, PaddingInv
<1>4. PICK k \in Nat : n = BlockSize * k BY <1>1 DEF Buffered
<1>5. /\ \A i \in 1..n : message[i] = hashed[i]
      /\ \A i \in 1..datalen : message[n + i] = data[i]
  BY <1>1 DEF Buffered
<1>6. message \in Seq(Unit) /\ hashed \in Seq(Unit) /\ data \in [1..BlockSize -> Unit] BY DEF PaddingInv
<1> HIDE DEF n
<1>7. bits = ByteBits * Len(message) /\ bits \in Nat BY <1>3
<1> HIDE DEF bits
<1>8. Length(bits) \in Seq(Unit) /\ Len(Length(bits)) = LengthBytes BY <1>7, LengthUnits
<1>9. Mark \in Unit /\ 0 \in Unit BY DEF Unit
<1>10. /\ padded \in [1..BlockSize -> Unit]
       /\ \A i \in 1..datalen : padded[i] = data[i]
       /\ padded[datalen + 1] = Mark
       /\ \A i \in (datalen + 2)..(IF Fits THEN LengthAt ELSE BlockSize) : padded[i] = 0
  <2> DEFINE e == IF Fits THEN LengthAt ELSE BlockSize
  <2>1. e \in 1..BlockSize BY <1>3
  <2> HIDE DEF e
  <2>2. padded = [i \in 1..BlockSize |-> CASE i = datalen + 1 -> Mark
                                            [] i \in (datalen + 2)..e -> 0
                                            [] OTHER -> data[i]]
    BY DEF Marked, e
  <2>3. ASSUME NEW i \in 1..BlockSize
        PROVE  /\ padded[i] \in Unit
               /\ i = datalen + 1 => padded[i] = Mark
               /\ i \in (datalen + 2)..e => padded[i] = 0
               /\ i <= datalen => padded[i] = data[i]
    <3>1. padded[i] = CASE i = datalen + 1 -> Mark [] i \in (datalen + 2)..e -> 0 [] OTHER -> data[i]
      BY <2>2
    <3>2. data[i] \in Unit BY <1>6
    <3> HIDE DEF padded
    <3> QED BY <1>3, <1>9, <2>1, <3>1, <3>2, SMTT(20)
  <2>4. padded \in [1..BlockSize -> Unit] BY <2>2, <2>3
  <2> HIDE DEF padded
  <2>5. (\A i \in 1..datalen : padded[i] = data[i]) /\ padded[datalen + 1] = Mark BY <1>3, <2>3
  <2>6. \A i \in (datalen + 2)..e : padded[i] = 0
    <3> SUFFICES ASSUME NEW i \in (datalen + 2)..e PROVE padded[i] = 0 OBVIOUS
    <3>1. i \in 1..BlockSize BY <1>3, <2>1
    <3> QED BY <2>3, <3>1
  <2> QED BY <2>4, <2>5, <2>6 DEF e
<1> HIDE DEF padded
<1>11. zeros \in [1..BlockSize -> Unit] /\ \A i \in 1..BlockSize : zeros[i] = 0 BY <1>9
<1> HIDE DEF zeros
<1>12. /\ last \in [1..BlockSize -> Unit]
       /\ \A i \in 1..LengthAt : last[i] = IF Fits THEN padded[i] ELSE zeros[i]
       /\ \A i \in 1..LengthBytes : last[LengthAt + i] = Length(bits)[i]
  <2> DEFINE d == IF Fits THEN padded ELSE zeros
             l == Length(bits)
  <2>1. d \in [1..BlockSize -> Unit] BY <1>10, <1>11
  <2>2. last = [i \in 1..BlockSize |-> IF i > LengthAt THEN l[i - LengthAt] ELSE d[i]] BY DEF LastBlock
  <2>3. l \in Seq(Unit) /\ Len(l) = LengthBytes BY <1>8
  <2> HIDE DEF l, d
  <2>4. ASSUME NEW i \in 1..BlockSize
        PROVE  (IF i > LengthAt THEN l[i - LengthAt] ELSE d[i]) \in Unit
    <3>1. CASE i > LengthAt
      <4>1. i - LengthAt \in 1..Len(l) BY <1>3, <2>3, <3>1
      <4>2. l[i - LengthAt] \in Unit BY <2>3, <4>1, ElementOfSeq
      <4> QED BY <3>1, <4>2
    <3>2. CASE ~(i > LengthAt) BY <2>1, <3>2
    <3> QED BY <3>1, <3>2
  <2>5. last \in [1..BlockSize -> Unit] BY <2>2, <2>4
  <2>6. \A i \in 1..LengthAt : last[i] = d[i] BY <1>3, <2>2
  <2>7. \A i \in 1..LengthBytes : last[LengthAt + i] = l[i]
    <3> SUFFICES ASSUME NEW i \in 1..LengthBytes PROVE last[LengthAt + i] = l[i] OBVIOUS
    <3>1. LengthAt + i \in 1..BlockSize /\ LengthAt + i > LengthAt /\ (LengthAt + i) - LengthAt = i BY <1>3
    <3> QED BY <2>2, <3>1
  <2> QED BY <2>5, <2>6, <2>7 DEF d, l
<1> HIDE DEF last
<1>13. /\ last \in Seq(Unit) /\ Len(last) = BlockSize
       /\ padded \in Seq(Unit) /\ Len(padded) = BlockSize
  BY <1>3, <1>10, <1>12
<1>14. hashed' \in Seq(Unit) /\ hashed' = Padded(message)
  <2>1. CASE Fits
    <3>1. datalen < LengthAt BY <2>1 DEF Fits
    <3>2. hashed \o middle = hashed
      <4>1. middle = << >> BY <2>1
      <4> QED BY <1>6, <4>1, ConcatEmptySeq
    <3>3. hashed' = hashed \o last BY <1>2, <3>2
    <3>4. PICK p : p = hashed' OBVIOUS
    <3>5. /\ p \in Seq(Unit) /\ Len(p) = n + BlockSize
          /\ \A i \in 1..n + BlockSize : p[i] = IF i <= n THEN hashed[i] ELSE last[i - n]
      BY <1>6, <1>13, <3>3, <3>4, ConcatProperties DEF n
    <3>6. \A j \in 1..BlockSize : p[n + j] = last[j]
      <4> SUFFICES ASSUME NEW j \in 1..BlockSize PROVE p[n + j] = last[j] OBVIOUS
      <4>1. n + j \in 1..n + BlockSize /\ ~(n + j <= n) /\ (n + j) - n = j BY <1>3
      <4> QED BY <3>5, <4>1
    <3> DEFINE z == LengthAt - datalen - 1
    <3>7. z \in 0..(BlockSize - 1) BY <1>3, <3>1
    <3>8. Zeros(message) = z
      <4>1. LengthAt - Len(message) - 1 = BlockSize * (-k) + z /\ -k \in Int
            /\ LengthAt - Len(message) - 1 \in Int
        <5>1. BlockSize * (-k) = -(BlockSize * k) BY <1>3
        <5> QED BY <1>3, <1>4, <5>1
      <4> HIDE DEF z
      <4>2. PICK y \in Int : y = LengthAt - Len(message) - 1 BY <4>1
      <4>3. PICK c \in Int : c = -k BY <4>1
      <4>4. BlockSize \in Nat \ {0} /\ y = BlockSize * c + z BY <1>3, <4>1, <4>2, <4>3
      <4>5. y % BlockSize = z BY <3>7, <4>4, RemainderIs
      <4> QED BY <4>2, <4>5 DEF Zeros
    <3>9. Len(p) = Len(message) + 1 + z + LengthBytes BY <1>3, <3>5
    <3>10. ASSUME NEW i \in 1..Len(message) PROVE p[i] = message[i]
      <4>1. CASE i <= n BY <1>3, <1>5, <3>5, <4>1
      <4>2. CASE ~(i <= n)
        <5>1. i - n \in 1..datalen /\ n + (i - n) = i /\ i - n \in 1..BlockSize /\ i - n \in 1..LengthAt
          BY <1>3, <3>1, <4>2
        <5>2. p[i] = last[i - n] /\ message[i] = data[i - n] BY <1>5, <3>6, <5>1
        <5>3. last[i - n] = padded[i - n] /\ padded[i - n] = data[i - n] BY <1>10, <1>12, <2>1, <5>1
        <5> QED BY <5>2, <5>3
      <4> QED BY <4>1, <4>2
    <3>11. p[Len(message) + 1] = Mark
      <4>1. datalen + 1 \in 1..BlockSize /\ datalen + 1 \in 1..LengthAt /\ Len(message) + 1 = n + (datalen + 1)
        BY <1>3, <3>1
      <4>2. p[n + (datalen + 1)] = last[datalen + 1] BY <3>6, <4>1
      <4>3. last[datalen + 1] = padded[datalen + 1] BY <1>12, <2>1, <4>1
      <4> QED BY <1>10, <4>1, <4>2, <4>3
    <3>12. ASSUME NEW i \in 1..z PROVE p[Len(message) + 1 + i] = 0
      <4>1. /\ datalen + 1 + i \in 1..BlockSize /\ datalen + 1 + i \in 1..LengthAt
            /\ datalen + 1 + i \in (datalen + 2)..LengthAt /\ Len(message) + 1 + i = n + (datalen + 1 + i)
        BY <1>3, <3>1
      <4>2. p[n + (datalen + 1 + i)] = last[datalen + 1 + i] BY <3>6, <4>1
      <4>3. last[datalen + 1 + i] = padded[datalen + 1 + i] BY <1>12, <2>1, <4>1
      <4>4. padded[datalen + 1 + i] = 0 BY <1>10, <2>1, <4>1
      <4> QED BY <4>1, <4>2, <4>3, <4>4
    <3>13. ASSUME NEW i \in 1..LengthBytes
           PROVE  p[Len(message) + 1 + z + i] = LengthOf(message)[i]
      <4>1. LengthAt + i \in 1..BlockSize /\ Len(message) + 1 + z + i = n + (LengthAt + i) BY <1>3
      <4>2. p[n + (LengthAt + i)] = last[LengthAt + i] BY <3>6, <4>1
      <4>3. last[LengthAt + i] = Length(bits)[i] BY <1>12
      <4> QED BY <1>7, <4>1, <4>2, <4>3 DEF LengthOf
    <3> HIDE DEF z
    <3>14. p = Padded(message) BY <1>6, <3>5, <3>7, <3>8, <3>9, <3>10, <3>11, <3>12, <3>13, PaddedIs
    <3> QED BY <3>4, <3>5, <3>14
  <2>2. CASE ~Fits
    <3>1. LengthAt <= datalen BY <1>3, <2>2 DEF Fits
    <3>2. hashed' = (hashed \o padded) \o last BY <1>2, <2>2
    <3>3. PICK a, p : a = hashed \o padded /\ p = hashed' OBVIOUS
    <3>4. /\ a \in Seq(Unit) /\ Len(a) = n + BlockSize
          /\ \A i \in 1..n + BlockSize : a[i] = IF i <= n THEN hashed[i] ELSE padded[i - n]
      BY <1>6, <1>13, <3>3, ConcatProperties, ZenonT(40) DEF n
    <3>5. /\ p \in Seq(Unit) /\ Len(p) = Len(a) + BlockSize
          /\ \A i \in 1..Len(a) + BlockSize : p[i] = IF i <= Len(a) THEN a[i] ELSE last[i - Len(a)]
      BY <1>13, <3>2, <3>3, <3>4, ConcatProperties
    <3>6. \A i \in 1..n : p[i] = hashed[i]
      <4> SUFFICES ASSUME NEW i \in 1..n PROVE p[i] = hashed[i] OBVIOUS
      <4>1. i \in 1..Len(a) + BlockSize /\ i \in 1..n + BlockSize /\ i <= Len(a) /\ i <= n BY <1>3, <3>4
      <4> QED BY <3>4, <3>5, <4>1
    <3>7. \A j \in 1..BlockSize : p[n + j] = padded[j]
      <4> SUFFICES ASSUME NEW j \in 1..BlockSize PROVE p[n + j] = padded[j] OBVIOUS
      <4>1. /\ n + j \in 1..n + BlockSize /\ ~(n + j <= n) /\ (n + j) - n = j
            /\ n + j \in 1..Len(a) + BlockSize /\ n + j <= Len(a)
        BY <1>3, <3>4
      <4> QED BY <3>4, <3>5, <4>1
    <3>8. \A j \in 1..BlockSize : p[n + BlockSize + j] = last[j]
      <4> SUFFICES ASSUME NEW j \in 1..BlockSize PROVE p[n + BlockSize + j] = last[j] OBVIOUS
      <4>1. /\ n + BlockSize + j \in 1..Len(a) + BlockSize /\ ~(n + BlockSize + j <= Len(a))
            /\ (n + BlockSize + j) - Len(a) = j
        BY <1>3, <3>4
      <4> QED BY <3>5, <4>1
    <3> DEFINE z == (LengthAt + BlockSize) - datalen - 1
    <3>9. z \in 0..(BlockSize - 1) BY <1>3, <3>1
    <3>10. Zeros(message) = z
      <4>1. LengthAt - Len(message) - 1 = BlockSize * (-(k + 1)) + z /\ -(k + 1) \in Int
            /\ LengthAt - Len(message) - 1 \in Int
        <5>1. BlockSize * (-(k + 1)) = -(BlockSize * k) - BlockSize BY <1>3
        <5> QED BY <1>3, <1>4, <5>1
      <4> HIDE DEF z
      <4>2. PICK y \in Int : y = LengthAt - Len(message) - 1 BY <4>1
      <4>3. PICK c \in Int : c = -(k + 1) BY <4>1
      <4>4. BlockSize \in Nat \ {0} /\ y = BlockSize * c + z BY <1>3, <4>1, <4>2, <4>3
      <4>5. y % BlockSize = z BY <3>9, <4>4, RemainderIs
      <4> QED BY <4>2, <4>5 DEF Zeros
    <3>11. Len(p) = Len(message) + 1 + z + LengthBytes BY <1>3, <3>4, <3>5
    <3>12. ASSUME NEW i \in 1..Len(message) PROVE p[i] = message[i]
      <4>1. CASE i <= n BY <1>3, <1>5, <3>6, <4>1
      <4>2. CASE ~(i <= n)
        <5>1. i - n \in 1..datalen /\ n + (i - n) = i /\ i - n \in 1..BlockSize BY <1>3, <4>2
        <5>2. p[i] = padded[i - n] /\ message[i] = data[i - n] BY <1>5, <3>7, <5>1
        <5>3. padded[i - n] = data[i - n] BY <1>10, <5>1
        <5> QED BY <5>2, <5>3
      <4> QED BY <4>1, <4>2
    <3>13. p[Len(message) + 1] = Mark
      <4>1. datalen + 1 \in 1..BlockSize /\ Len(message) + 1 = n + (datalen + 1) BY <1>3
      <4>2. p[n + (datalen + 1)] = padded[datalen + 1] BY <3>7, <4>1
      <4> QED BY <1>10, <4>1, <4>2
    <3>14. ASSUME NEW i \in 1..z PROVE p[Len(message) + 1 + i] = 0
      <4>1. CASE datalen + 1 + i <= BlockSize
        <5>1. /\ datalen + 1 + i \in 1..BlockSize /\ datalen + 1 + i \in (datalen + 2)..BlockSize
              /\ Len(message) + 1 + i = n + (datalen + 1 + i)
          BY <1>3, <3>9, <4>1
        <5>2. p[n + (datalen + 1 + i)] = padded[datalen + 1 + i] BY <3>7, <5>1
        <5>3. padded[datalen + 1 + i] = 0 BY <1>10, <2>2, <5>1
        <5> QED BY <5>1, <5>2, <5>3
      <4>2. CASE ~(datalen + 1 + i <= BlockSize)
        <5> DEFINE j == (datalen + 1 + i) - BlockSize
        <5>1. /\ j \in 1..BlockSize /\ j \in 1..LengthAt /\ Len(message) + 1 + i = n + BlockSize + j
          BY <1>3, <3>9, <4>2
        <5> HIDE DEF j
        <5>2. p[n + BlockSize + j] = last[j] BY <3>8, <5>1
        <5>3. last[j] = zeros[j] /\ zeros[j] = 0 BY <1>11, <1>12, <2>2, <5>1
        <5> QED BY <5>1, <5>2, <5>3
      <4> QED BY <4>1, <4>2
    <3>15. ASSUME NEW i \in 1..LengthBytes
           PROVE  p[Len(message) + 1 + z + i] = LengthOf(message)[i]
      <4>1. LengthAt + i \in 1..BlockSize /\ Len(message) + 1 + z + i = n + BlockSize + (LengthAt + i)
        BY <1>3
      <4>2. p[n + BlockSize + (LengthAt + i)] = last[LengthAt + i] BY <3>8, <4>1
      <4>3. last[LengthAt + i] = Length(bits)[i] BY <1>12
      <4> QED BY <1>7, <4>1, <4>2, <4>3 DEF LengthOf
    <3> HIDE DEF z
    <3>16. p = Padded(message) BY <1>6, <3>5, <3>9, <3>10, <3>11, <3>12, <3>13, <3>14, <3>15, PaddedIs
    <3> QED BY <3>3, <3>5, <3>16
  <2> QED BY <2>1, <2>2
<1> QED BY <1>1, <1>2, <1>6, <1>12, <1>14 DEF PaddingInv

\* Every step.
LEMMA NextPadding == ASSUME PaddingInv, [Next]_vars PROVE PaddingInv'
<1>1. CASE Update BY <1>1, UpdatePadding
<1>2. CASE Finish BY <1>2, FinalPadding
<1>3. CASE Digest
  <2>1. /\ pc' = "number" /\ data' = [i \in 1..BlockSize |-> 0]
        /\ datalen' = 0 /\ bitlen' = 0 /\ message' = << >> /\ hashed' = << >>
    BY <1>3 DEF Digest
  <2>2. data' \in [1..BlockSize -> Unit] BY <2>1 DEF Unit
  <2>3. << >> \in Seq(Unit) OBVIOUS
  <2> QED BY <2>1, <2>2, <2>3 DEF PaddingInv
<1>4. CASE Reduce \/ ReduceNarrow \/ Loop \/ UNCHANGED vars
  <2>1. UNCHANGED ctxVars BY <1>4 DEF Reduce, ReduceNarrow, Loop, vars
  <2>2. data' = data /\ datalen' = datalen /\ bitlen' = bitlen /\ message' = message /\ hashed' = hashed
    BY <2>1 DEF ctxVars
  <2>3. pc' = pc \/ (pc \notin {"update", "final"} /\ pc' \notin {"update", "final"})
    <3>1. CASE Reduce BY <3>1 DEF Reduce, Divide256
    <3>2. CASE ReduceNarrow BY <3>2 DEF ReduceNarrow, Divide128
    <3>3. CASE Loop BY <3>3 DEF Loop, Loop128, Loop256, LoopEnds256
    <3>4. CASE UNCHANGED vars BY <3>4 DEF vars
    <3> QED BY <1>4, <3>1, <3>2, <3>3, <3>4
  <2>4. Buffered => Buffered' BY <2>2 DEF Buffered
  <2>5. Padded(message)' = Padded(message) BY <2>2
  <2> QED BY <2>2, <2>3, <2>4, <2>5 DEF PaddingInv
<1>5. CASE Return
  <2>1. /\ pc \in {"divided128", "divided256"} /\ pc' = "update"
        /\ data' \in {[i \in 1..BlockSize |-> b] : b \in Byte}
        /\ datalen' = datalen /\ bitlen' = bitlen /\ message' = message /\ hashed' = hashed
    BY <1>5 DEF Return
  <2>2. data' \in [1..BlockSize -> Unit] BY <2>1 DEF Unit
  <2>3. datalen = 0 /\ bitlen = 0 /\ message = << >> /\ hashed = << >> BY <2>1 DEF PaddingInv
  <2>4. Buffered' BY <2>1, <2>3, BufferedEmpty DEF Buffered
  <2> QED BY <2>1, <2>2, <2>4 DEF PaddingInv
<1> QED BY <1>1, <1>2, <1>3, <1>4, <1>5 DEF Next

\* However a message is cut into updates, and whatever a context held before, the
\* blocks that are transformed are the message as the standard pads it
\* (sha256_update, sha256_final), for every size of a block and length of a message.
THEOREM PaddingCorrect == Spec => []HashesThePaddedMessage
<1>1. PaddingInv => HashesThePaddedMessage BY DEF PaddingInv, HashesThePaddedMessage
<1> QED BY <1>1, InitPadding, NextPadding, PTL DEF Spec

-----------------------------------------------------------------------------
(* Numbers of two digits *)

\* A factor of one or more does not make a number smaller.
LEMMA Grows ==
  ASSUME NEW B \in Nat, NEW d \in Int, d >= 1
  PROVE  d * B >= B
OBVIOUS

\* The value of two digits, and their order.
LEMMA Digits ==
  ASSUME NEW B \in Nat \ {0}, NEW u \in 0..(B - 1), NEW l \in 0..(B - 1)
  PROVE  u * B + l \in 0..(B * B - 1)
<1>1. (B - u) * B >= B BY Grows
<1>2. (B - u) * B = B * B - u * B OBVIOUS
<1>3. u * B \in Nat /\ B * B \in Nat OBVIOUS
<1> QED BY <1>1, <1>2, <1>3

\* Two digits are ordered by the upper one first.
LEMMA DigitsOrder ==
  ASSUME NEW B \in Nat \ {0}, NEW u \in 0..(B - 1), NEW l \in 0..(B - 1),
         NEW v \in 0..(B - 1), NEW k \in 0..(B - 1)
  PROVE  /\ u < v => u * B + l < v * B + k
         /\ u * B + l < v * B + k <=> u < v \/ (u = v /\ l < k)
         /\ u * B + l = v * B + k <=> u = v /\ l = k
<1>1. u < v => u * B + l < v * B + k
  <2> SUFFICES ASSUME u < v PROVE u * B + l < v * B + k OBVIOUS
  <2>1. (v - u) * B >= B BY Grows
  <2>2. (v - u) * B = v * B - u * B OBVIOUS
  <2>3. u * B \in Int /\ v * B \in Int OBVIOUS
  <2> QED BY <2>1, <2>2, <2>3
<1>2. v < u => v * B + k < u * B + l
  <2> SUFFICES ASSUME v < u PROVE v * B + k < u * B + l OBVIOUS
  <2>1. (u - v) * B >= B BY Grows
  <2>2. (u - v) * B = u * B - v * B OBVIOUS
  <2>3. u * B \in Int /\ v * B \in Int OBVIOUS
  <2> QED BY <2>1, <2>2, <2>3
<1>3. u = v => u * B = v * B OBVIOUS
<1>4. u * B \in Int /\ v * B \in Int OBVIOUS
<1>5. u < v \/ v < u \/ u = v OBVIOUS
<1> QED BY <1>1, <1>2, <1>3, <1>4, <1>5

Rem(y, B) == y % B

\* What a number is modulo B, if it is at most one B off.
LEMMA Wraps ==
  ASSUME NEW B \in Nat \ {0}, NEW y \in Int
  PROVE  /\ y \in 0..(B - 1) => Rem(y, B) = y
         /\ y \in B..(2 * B - 1) => Rem(y, B) = y - B
         /\ y \in -B..-1 => Rem(y, B) = y + B
<1>1. y \in 0..(B - 1) => Rem(y, B) = y
  <2> SUFFICES ASSUME y \in 0..(B - 1) PROVE Rem(y, B) = y OBVIOUS
  <2>1. y = B * 0 + y OBVIOUS
  <2> QED BY <2>1, RemainderIs DEF Rem
<1>2. y \in B..(2 * B - 1) => Rem(y, B) = y - B
  <2> SUFFICES ASSUME y \in B..(2 * B - 1) PROVE Rem(y, B) = y - B OBVIOUS
  <2>1. PICK r \in 0..(B - 1) : r = y - B OBVIOUS
  <2>2. y = B * 1 + r BY <2>1
  <2> QED BY <2>1, <2>2, RemainderIs DEF Rem
<1>3. y \in -B..-1 => Rem(y, B) = y + B
  <2> SUFFICES ASSUME y \in -B..-1 PROVE Rem(y, B) = y + B OBVIOUS
  <2>1. PICK r \in 0..(B - 1) : r = y + B OBVIOUS
  <2>2. y = B * (-1) + r BY <2>1
  <2> QED BY <2>1, <2>2, RemainderIs DEF Rem
<1> QED BY <1>1, <1>2, <1>3

\* The digits of a sum and of a difference, the carry and the borrow read off the lower one.
SumOf(B, u, l, v, k, t, s) ==
  s = Rem(l + k, B) /\ t = Rem(u + v + (IF s < l THEN 1 ELSE 0), B)
DifferenceOf(B, u, l, v, k, t, s) ==
  s = Rem(l - k, B) /\ t = Rem(u - v - (IF s > l THEN 1 ELSE 0), B)

\* The sum of two numbers of two digits.
LEMMA SumDigits ==
  ASSUME NEW B \in Nat \ {0}, NEW u \in 0..(B - 1), NEW l \in 0..(B - 1),
         NEW v \in 0..(B - 1), NEW k \in 0..(B - 1),
         NEW t, NEW s, SumOf(B, u, l, v, k, t, s)
  PROVE  /\ s \in 0..(B - 1) /\ t \in 0..(B - 1) 
         /\ t * B + s = Rem((u * B + l) + (v * B + k), B * B)
<1>b. PICK c : c = IF s < l THEN 1 ELSE 0 OBVIOUS
<1>c. s = Rem(l + k, B) /\ t = Rem(u + v + c, B) BY <1>b DEF SumOf
<1>1. s \in 0..(B - 1) /\ c \in {0, 1} /\ l + k = c * B + s
  <2>1. CASE l + k < B
    <3>1. s = l + k BY <1>c, <2>1, Wraps
    <3>2. c = 0 BY <1>b, <3>1
    <3> QED BY <2>1, <3>1, <3>2
  <2>2. CASE ~(l + k < B)
    <3>1. l + k \in B..(2 * B - 1) /\ l + k \in Int BY <2>2
    <3>2. s = l + k - B BY <1>c, <3>1, Wraps
    <3>3. s < l BY <3>2
    <3>4. c = 1 BY <1>b, <3>3
    <3> QED BY <2>2, <3>2, <3>4
  <2> QED BY <2>1, <2>2
<1>a. s \in 0..(B - 1) /\ c \in {0, 1} BY <1>1
<1> DEFINE w == u + v + c
<1>2. w \in 0..(2 * B - 1) /\ w \in Int BY <1>a
<1>3. (u * B + l) + (v * B + k) = w * B + s
  <2>1. w * B = u * B + v * B + c * B BY <1>a
  <2>2. u * B \in Int /\ v * B \in Int /\ c * B \in Int /\ w * B \in Int BY <1>2, <1>a
  <2> HIDE DEF w
  <2>3. PICK x1, x2, x3, x4 \in Int : x1 = u * B /\ x2 = v * B /\ x3 = c * B /\ x4 = w * B BY <2>2
  <2> QED BY <1>1, <2>1, <2>3
<1>4. t = Rem(w, B) BY <1>c
<1> HIDE DEF w
<1>5. PICK Q \in Nat \ {0} : Q = B * B OBVIOUS
<1>6. t \in 0..(B - 1) /\ t * B + s = Rem(w * B + s, Q)
  <2>1. CASE w < B
    <3>1. t = w /\ t \in 0..(B - 1) BY <1>2, <1>4, <2>1, Wraps
    <3>2. w * B + s \in 0..(Q - 1) BY <1>1, <1>5, <3>1, Digits
    <3>3. Rem(w * B + s, Q) = w * B + s BY <3>2, Wraps
    <3> QED BY <3>1, <3>3
  <2>2. CASE ~(w < B)
    <3>1. t = w - B /\ t \in 0..(B - 1) BY <1>2, <1>4, <2>2, Wraps
    <3>2. t * B + s \in 0..(Q - 1) BY <1>1, <1>5, <3>1, Digits
    <3>3. t * B = w * B - Q
      <4>1. (w - B) * B = w * B - B * B BY <1>2
      <4> QED BY <1>5, <3>1, <4>1
    <3>4. t * B \in Int /\ w * B \in Int BY <1>2, <3>1
    <3>x. PICK x1, x2 \in Int : x1 = t * B /\ x2 = w * B BY <3>4
    <3>5. w * B + s \in Q..(2 * Q - 1) /\ w * B + s \in Int BY <1>a, <3>2, <3>3, <3>x
    <3>6. Rem(w * B + s, Q) = (w * B + s) - Q BY <3>5, Wraps
    <3> QED BY <1>a, <3>1, <3>3, <3>x, <3>6
  <2> QED BY <2>1, <2>2
<1> QED BY <1>1, <1>3, <1>5, <1>6

\* The difference.
LEMMA DifferenceDigits ==
  ASSUME NEW B \in Nat \ {0}, NEW u \in 0..(B - 1), NEW l \in 0..(B - 1),
         NEW v \in 0..(B - 1), NEW k \in 0..(B - 1),
         NEW t, NEW s, DifferenceOf(B, u, l, v, k, t, s)
  PROVE  /\ s \in 0..(B - 1) /\ t \in 0..(B - 1) 
         /\ t * B + s = Rem((u * B + l) - (v * B + k), B * B)
<1>b. PICK c : c = IF s > l THEN 1 ELSE 0 OBVIOUS
<1>c. s = Rem(l - k, B) /\ t = Rem(u - v - c, B) BY <1>b DEF DifferenceOf
<1>1. s \in 0..(B - 1) /\ c \in {0, 1} /\ l - k = s - c * B
  <2>1. CASE k <= l
    <3>1. l - k \in 0..(B - 1) /\ l - k \in Int BY <2>1
    <3>2. s = l - k BY <1>c, <3>1, Wraps
    <3>3. c = 0 BY <3>2 , <1>b
    <3> QED BY <3>1, <3>2, <3>3
  <2>2. CASE ~(k <= l)
    <3>1. l - k \in -B..-1 /\ l - k \in Int BY <2>2
    <3>2. s = (l - k) + B BY <1>c, <3>1, Wraps
    <3>3. s > l BY <3>2
    <3>4. c = 1 BY <1>b, <3>3
    <3> QED BY <2>2, <3>2, <3>4
  <2> QED BY <2>1, <2>2
<1>a. s \in 0..(B - 1) /\ c \in {0, 1} BY <1>1
<1> DEFINE w == u - v - c
<1>2. w \in -B..(B - 1) /\ w \in Int BY <1>a
<1>3. (u * B + l) - (v * B + k) = w * B + s
  <2>1. w * B = (u * B - v * B) - c * B BY <1>a
  <2>2. u * B \in Int /\ v * B \in Int /\ c * B \in Int /\ w * B \in Int BY <1>2, <1>a
  <2> HIDE DEF w
  <2>3. PICK x1, x2, x3, x4 \in Int : x1 = u * B /\ x2 = v * B /\ x3 = c * B /\ x4 = w * B BY <2>2
  <2>4. l - k = s - x3 BY <1>1, <2>3
  <2>5. x4 = x1 - x2 - x3 BY <2>1, <2>3
  <2>6. (x1 + l) - (x2 + k) = x4 + s BY <1>a, <2>4, <2>5
  <2> QED BY <2>3, <2>6
<1>4. t = Rem(w, B) BY <1>c
<1> HIDE DEF w
<1>5. PICK Q \in Nat \ {0} : Q = B * B OBVIOUS
<1>6. t \in 0..(B - 1) /\ t * B + s = Rem(w * B + s, Q)
  <2>1. CASE w >= 0
    <3>1. t = w /\ t \in 0..(B - 1) BY <1>2, <1>4, <2>1, Wraps
    <3>2. w * B + s \in 0..(Q - 1) BY <1>1, <1>5, <3>1, Digits
    <3>3. Rem(w * B + s, Q) = w * B + s BY <3>2, Wraps
    <3> QED BY <3>1, <3>3
  <2>2. CASE ~(w >= 0)
    <3>0. w \in -B..-1 /\ w \in Int BY <1>2, <2>2
    <3>1. t = w + B BY <1>4, <3>0, Wraps
    <3>a. t \in 0..(B - 1) BY <3>0, <3>1
    <3>2. t * B + s \in 0..(Q - 1) BY <1>1, <1>5, <3>a, Digits
    <3>3. t * B = w * B + Q
      <4>1. (w + B) * B = w * B + B * B BY <1>2
      <4> QED BY <1>5, <3>1, <4>1
    <3>4. t * B \in Int /\ w * B \in Int BY <1>2, <3>a
    <3>x. PICK x1, x2 \in Int : x1 = t * B /\ x2 = w * B BY <3>4
    <3>5. w * B + s \in -Q..-1 /\ w * B + s \in Int BY <1>a, <3>2, <3>3, <3>x
    <3>6. Rem(w * B + s, Q) = (w * B + s) + Q BY <3>5, Wraps
    <3> QED BY <1>a, <3>a, <3>3, <3>x, <3>6
  <2> QED BY <2>1, <2>2
<1> QED BY <1>1, <1>3, <1>5, <1>6

-----------------------------------------------------------------------------
(* Comparisons, sums and differences of UINT128_t *)

\* The values of UINT128_t.
LEMMA Values128 ==
  ASSUME NEW a \in U128
  PROVE  /\ W \in Nat \ {0} /\ M128 \in Nat \ {0} /\ M128 = W * W
         /\ a.up \in 0..(W - 1) /\ a.low \in 0..(W - 1) /\ a = Pair(a.up, a.low)
         /\ V128(a) \in 0..(M128 - 1) /\ V128(a) = a.up * W + a.low
<1>1. W \in Nat \ {0} BY WordAssumption, WordRange DEF W
<1>2. PICK B \in Nat \ {0} : B = W BY <1>1
<1>3. a.up \in 0..(B - 1) /\ a.low \in 0..(B - 1) /\ a = Pair(a.up, a.low)
  BY <1>2 DEF U128, Word, Pair
<1>4. B * B \in Nat \ {0} OBVIOUS
<1>5. a.up * B + a.low \in 0..(B * B - 1) BY <1>3, Digits
<1> QED BY <1>1, <1>2, <1>3, <1>4, <1>5 DEF V128, M128

\* The values tell the numbers apart, and their order is that of the code.
LEMMA Compare128 ==
  ASSUME NEW a \in U128, NEW b \in U128
  PROVE  /\ Less128(a, b) <=> V128(a) < V128(b)
         /\ Greater128(a, b) <=> V128(b) < V128(a)
         /\ a = b <=> V128(a) = V128(b)
<1>1. /\ W \in Nat \ {0} /\ a.up \in 0..(W - 1) /\ a.low \in 0..(W - 1)
      /\ b.up \in 0..(W - 1) /\ b.low \in 0..(W - 1)
      /\ a = Pair(a.up, a.low) /\ b = Pair(b.up, b.low)
      /\ V128(a) = a.up * W + a.low /\ V128(b) = b.up * W + b.low
  BY Values128
<1>2. a = b <=> a.up = b.up /\ a.low = b.low BY <1>1
<1>3. PICK B \in Nat \ {0} : B = W BY <1>1
<1>4. PICK u \in 0..(B - 1), l \in 0..(B - 1), v \in 0..(B - 1), k \in 0..(B - 1) :
        u = a.up /\ l = a.low /\ v = b.up /\ k = b.low
  BY <1>1, <1>3
<1>5. /\ u * B + l < v * B + k <=> u < v \/ (u = v /\ l < k)
      /\ u * B + l = v * B + k <=> u = v /\ l = k
  BY DigitsOrder
<1>6. v * B + k < u * B + l <=> v < u \/ (v = u /\ k < l) BY DigitsOrder
<1>7. Less128(a, b) <=> u < v \/ (u = v /\ l < k) BY <1>4 DEF Less128
<1>8. Greater128(a, b) <=> v < u \/ (v = u /\ k < l) BY <1>4 DEF Greater128
<1>9. V128(a) = u * B + l /\ V128(b) = v * B + k BY <1>1, <1>3, <1>4
<1> QED BY <1>2, <1>4, <1>5, <1>6, <1>7, <1>8, <1>9

\* The numbers below W.
LEMMA Small128 ==
  ASSUME NEW n \in Word
  PROVE  Int128(n) \in U128 /\ V128(Int128(n)) = n /\ Int128(n).up = 0 /\ Int128(n).low = n
<1>1. W \in Nat \ {0} BY WordAssumption, WordRange DEF W
<1>2. 0 \in Word /\ 0 * W = 0 /\ n \in Int BY <1>1 DEF Word
<1> QED BY <1>1, <1>2 DEF Int128, Pair, U128, V128

\* Sums and differences.
LEMMA Add128 ==
  ASSUME NEW a \in U128, NEW b \in U128
  PROVE  /\ Plus128(a, b) \in U128 /\ Minus128(a, b) \in U128
         /\ V128(Plus128(a, b)) = Rem(V128(a) + V128(b), M128)
         /\ V128(Minus128(a, b)) = Rem(V128(a) - V128(b), M128)
<1>1. /\ W \in Nat \ {0} /\ a.up \in 0..(W - 1) /\ a.low \in 0..(W - 1)
      /\ b.up \in 0..(W - 1) /\ b.low \in 0..(W - 1) /\ M128 = W * W
      /\ V128(a) = a.up * W + a.low /\ V128(b) = b.up * W + b.low
  BY Values128
<1>2. PICK B \in Nat \ {0} : B = W BY <1>1
<1>3. PICK u \in 0..(B - 1), l \in 0..(B - 1), v \in 0..(B - 1), k \in 0..(B - 1) :
        u = a.up /\ l = a.low /\ v = b.up /\ k = b.low
  BY <1>1, <1>2
<1>4. /\ Plus128(a, b) \in U128
      /\ V128(Plus128(a, b)) = Rem((u * B + l) + (v * B + k), B * B)
  <2>1. PICK s, t : SumOf(B, u, l, v, k, t, s) BY DEF SumOf
  <2>2. s \in 0..(B - 1) /\ t \in 0..(B - 1) /\ t * B + s = Rem((u * B + l) + (v * B + k), B * B)
    BY <2>1, SumDigits
  <2>3. Plus128(a, b) = Pair(t, s) BY <1>2, <1>3, <2>1 DEF Plus128, Carry, Rem, SumOf
  <2>4. Pair(t, s) \in U128 /\ V128(Pair(t, s)) = t * B + s
    BY <1>2, <2>2 DEF Pair, U128, Word, V128
  <2> QED BY <2>2, <2>3, <2>4
<1>5. /\ Minus128(a, b) \in U128
      /\ V128(Minus128(a, b)) = Rem((u * B + l) - (v * B + k), B * B)
  <2>1. PICK s, t : DifferenceOf(B, u, l, v, k, t, s) BY DEF DifferenceOf
  <2>2. s \in 0..(B - 1) /\ t \in 0..(B - 1) /\ t * B + s = Rem((u * B + l) - (v * B + k), B * B)
    BY <2>1, DifferenceDigits
  <2>3. Minus128(a, b) = Pair(t, s) BY <1>2, <1>3, <2>1 DEF Minus128, Carry, Rem, DifferenceOf
  <2>4. Pair(t, s) \in U128 /\ V128(Pair(t, s)) = t * B + s
    BY <1>2, <2>2 DEF Pair, U128, Word, V128
  <2> QED BY <2>2, <2>3, <2>4
<1> QED BY <1>1, <1>2, <1>3, <1>4, <1>5

\* A built-in integer is as good as the number made of it.
LEMMA IntOverloads128 ==
  ASSUME NEW a \in U128, NEW n \in Word
  PROVE  /\ PlusInt128(a, n) = Plus128(a, Int128(n)) /\ MinusInt128(a, n) = Minus128(a, Int128(n))
         /\ LessInt128(a, n) <=> Less128(a, Int128(n))
         /\ GreaterInt128(a, n) <=> Greater128(a, Int128(n))
<1>1. /\ W \in Nat \ {0} /\ a.up \in 0..(W - 1) /\ a.low \in 0..(W - 1) BY Values128
<1>2. Int128(n).up = 0 /\ Int128(n).low = n BY Small128
<1>3. n \in Int /\ a.up \in Int /\ a.low \in Int /\ a.up >= 0 BY <1>1 DEF Word
<1>4. a.up + 0 = a.up /\ a.up - 0 = a.up BY <1>3
<1>5. PlusInt128(a, n) = Plus128(a, Int128(n)) BY <1>2, <1>4, Zenon DEF PlusInt128, Plus128
<1>6. MinusInt128(a, n) = Minus128(a, Int128(n)) BY <1>2, <1>4, Zenon DEF MinusInt128, Minus128
<1>7. LessInt128(a, n) <=> Less128(a, Int128(n)) BY <1>2, <1>3 DEF LessInt128, Less128
<1>8. GreaterInt128(a, n) <=> Greater128(a, Int128(n)) BY <1>2, <1>3 DEF GreaterInt128, Greater128
<1> QED BY <1>5, <1>6, <1>7, <1>8

-----------------------------------------------------------------------------
(* Comparisons, sums and differences of UINT256_t *)

\* The values of UINT256_t.
LEMMA Values256 ==
  ASSUME NEW a \in U256
  PROVE  /\ M128 \in Nat \ {0} /\ M256 = M128 * M128
         /\ a.up \in U128 /\ a.low \in U128 /\ a = Pair(a.up, a.low)
         /\ V128(a.up) \in 0..(M128 - 1) /\ V128(a.low) \in 0..(M128 - 1)
         /\ V256(a) = V128(a.up) * M128 + V128(a.low)
<1>1. a.up \in U128 /\ a.low \in U128 /\ a = Pair(a.up, a.low) BY DEF U256, Pair
<1>2. /\ W \in Nat \ {0} /\ M128 \in Nat \ {0} /\ M128 = W * W
      /\ V128(a.up) \in 0..(M128 - 1) /\ V128(a.low) \in 0..(M128 - 1)
  BY <1>1, Values128
<1>3. V128(a.up) * W * W = V128(a.up) * (W * W)
  <2>1. PICK B \in Nat, v \in Int : B = W /\ v = V128(a.up) BY <1>2
  <2>2. v * B * B = v * (B * B) OBVIOUS
  <2> QED BY <2>1, <2>2
<1> QED BY <1>1, <1>2, <1>3 DEF V256, M256

\* The values tell the numbers apart, and their order is that of the code.
LEMMA Compare256 ==
  ASSUME NEW a \in U256, NEW b \in U256
  PROVE  /\ Less256(a, b) <=> V256(a) < V256(b)
         /\ Greater256(a, b) <=> V256(b) < V256(a)
         /\ a = b <=> V256(a) = V256(b)
<1>1. /\ M128 \in Nat \ {0} /\ a.up \in U128 /\ a.low \in U128 /\ b.up \in U128 /\ b.low \in U128
      /\ V128(a.up) \in 0..(M128 - 1) /\ V128(a.low) \in 0..(M128 - 1)
      /\ V128(b.up) \in 0..(M128 - 1) /\ V128(b.low) \in 0..(M128 - 1)
      /\ a = Pair(a.up, a.low) /\ b = Pair(b.up, b.low)
      /\ V256(a) = V128(a.up) * M128 + V128(a.low) /\ V256(b) = V128(b.up) * M128 + V128(b.low)
  BY Values256
<1>2. a = b <=> a.up = b.up /\ a.low = b.low BY <1>1
<1>3. PICK B \in Nat \ {0} : B = M128 BY <1>1
<1>4. PICK u \in 0..(B - 1), l \in 0..(B - 1), v \in 0..(B - 1), k \in 0..(B - 1) :
        u = V128(a.up) /\ l = V128(a.low) /\ v = V128(b.up) /\ k = V128(b.low)
  BY <1>1, <1>3
<1>5. /\ u * B + l < v * B + k <=> u < v \/ (u = v /\ l < k)
      /\ u * B + l = v * B + k <=> u = v /\ l = k
  BY DigitsOrder
<1>6. v * B + k < u * B + l <=> v < u \/ (v = u /\ k < l) BY DigitsOrder
<1>7. /\ Less128(a.up, b.up) <=> u < v
      /\ Less128(a.low, b.low) <=> l < k
      /\ Greater128(a.up, b.up) <=> v < u
      /\ Greater128(a.low, b.low) <=> k < l
      /\ a.up = b.up <=> u = v
      /\ a.low = b.low <=> l = k
  BY <1>1, <1>4, Compare128
<1>8. u < v \/ v < u \/ u = v BY <1>4
<1>9. Less256(a, b) <=> u < v \/ (u = v /\ l < k)
  <2>1. CASE a.up = b.up BY <1>7, <2>1 DEF Less256
  <2>2. CASE a.up # b.up BY <1>7, <2>2 DEF Less256
  <2> QED BY <2>1, <2>2
<1>10. Greater256(a, b) <=> v < u \/ (v = u /\ k < l)
  <2>1. CASE a.up = b.up BY <1>7, <2>1 DEF Greater256
  <2>2. CASE a.up # b.up BY <1>7, <2>2 DEF Greater256
  <2> QED BY <2>1, <2>2
<1>11. V256(a) = u * B + l /\ V256(b) = v * B + k BY <1>1, <1>3, <1>4
<1> QED BY <1>2, <1>5, <1>6, <1>7, <1>9, <1>10, <1>11

\* What a carry is worth, added in a step of its own.
LEMMA RemTwice ==
  ASSUME NEW B \in Nat \ {0}, NEW u \in 0..(B - 1), NEW v \in 0..(B - 1), NEW c \in {0, 1}
  PROVE  /\ Rem(Rem(u + v, B) + c, B) = Rem(u + v + c, B)
         /\ Rem(Rem(u - v, B) - c, B) = Rem(u - v - c, B)
<1>1. Rem(Rem(u + v, B) + c, B) = Rem(u + v + c, B)
  <2>1. CASE u + v < B
    <3>1. Rem(u + v, B) = u + v BY <2>1, Wraps
    <3> QED BY <3>1
  <2>2. CASE ~(u + v < B)
    <3>1. Rem(u + v, B) = u + v - B BY <2>2, Wraps
    <3>2. u + v - B + c \in 0..(B - 1) BY <2>2
    <3>3. Rem(u + v - B + c, B) = u + v - B + c BY <3>2, Wraps
    <3>4. u + v + c \in B..(2 * B - 1) BY <2>2
    <3>5. Rem(u + v + c, B) = u + v + c - B BY <3>4, Wraps
    <3>6. u + v + c - B = u + v - B + c OBVIOUS
    <3> QED BY <3>1, <3>3, <3>5, <3>6
  <2> QED BY <2>1, <2>2
<1>2. Rem(Rem(u - v, B) - c, B) = Rem(u - v - c, B)
  <2>1. CASE u >= v
    <3>1. Rem(u - v, B) = u - v BY <2>1, Wraps
    <3> QED BY <3>1
  <2>2. CASE ~(u >= v)
    <3>1. Rem(u - v, B) = u - v + B BY <2>2, Wraps
    <3>2. u - v + B - c \in 0..(B - 1) BY <2>2
    <3>3. Rem(u - v + B - c, B) = u - v + B - c BY <3>2, Wraps
    <3>4. u - v - c \in -B..-1 BY <2>2
    <3>5. Rem(u - v - c, B) = u - v - c + B BY <3>4, Wraps
    <3>6. u - v - c + B = u - v + B - c OBVIOUS
    <3> QED BY <3>1, <3>3, <3>5, <3>6
  <2> QED BY <2>1, <2>2
<1> QED BY <1>1, <1>2

\* Sums and differences.
LEMMA Add256 ==
  ASSUME NEW a \in U256, NEW b \in U256
  PROVE  /\ V256(Plus256(a, b)) = Rem(V256(a) + V256(b), M256)
         /\ V256(Minus256(a, b)) = Rem(V256(a) - V256(b), M256)
<1>1. /\ M128 \in Nat \ {0} /\ M256 = M128 * M128
      /\ a.up \in U128 /\ a.low \in U128 /\ b.up \in U128 /\ b.low \in U128
      /\ V128(a.up) \in 0..(M128 - 1) /\ V128(a.low) \in 0..(M128 - 1)
      /\ V128(b.up) \in 0..(M128 - 1) /\ V128(b.low) \in 0..(M128 - 1)
      /\ V256(a) = V128(a.up) * M128 + V128(a.low) /\ V256(b) = V128(b.up) * M128 + V128(b.low)
  BY Values256
<1>2. PICK B \in Nat \ {0} : B = M128 BY <1>1
<1>3. PICK u \in 0..(B - 1), l \in 0..(B - 1), v \in 0..(B - 1), k \in 0..(B - 1) :
        u = V128(a.up) /\ l = V128(a.low) /\ v = V128(b.up) /\ k = V128(b.low)
  BY <1>1, <1>2
<1>a. V256(a) = u * B + l /\ V256(b) = v * B + k /\ M256 = B * B BY <1>1, <1>2, <1>3
<1>b. 0 \in Word /\ 1 \in Word BY WordAssumption, WordRange DEF W, Word
<1>4. V256(Plus256(a, b)) = Rem((u * B + l) + (v * B + k), B * B)
  <2>1. PICK low, hi : low = Plus128(a.low, b.low) /\ hi = Plus128(a.up, b.up) OBVIOUS
  <2>2. /\ low \in U128 /\ hi \in U128
        /\ V128(low) = Rem(l + k, B) /\ V128(hi) = Rem(u + v, B)
    BY <1>1, <1>2, <1>3, <2>1, Add128
  <2>3. PICK c : c = IF V128(low) < l THEN 1 ELSE 0 OBVIOUS
  <2>4. Plus256(a, b) = Pair(Plus128(hi, Int128(c)), low)
    <3>1. Less128(low, a.low) <=> V128(low) < l BY <1>1, <1>3, <2>2, Compare128
    <3>2. c = IF Less128(low, a.low) THEN 1 ELSE 0 BY <2>3, <3>1
    <3> QED BY <2>1, <3>2 DEF Plus256, Carry
  <2>5. c \in {0, 1} /\ Int128(c) \in U128 /\ V128(Int128(c)) = c BY <1>b, <2>3, Small128
  <2>6. V128(Plus128(hi, Int128(c))) = Rem(Rem(u + v, B) + c, B)
    BY <1>2, <2>2, <2>5, Add128
  <2>7. Rem(Rem(u + v, B) + c, B) = Rem(u + v + c, B) BY <2>5, RemTwice
  <2>8. PICK t, s : t = Rem(u + v + c, B) /\ s = V128(low) OBVIOUS
  <2>9. SumOf(B, u, l, v, k, t, s) BY <2>2, <2>3, <2>8 DEF SumOf
  <2>10. t * B + s = Rem((u * B + l) + (v * B + k), B * B) BY <2>9, SumDigits
  <2>11. V256(Plus256(a, b)) = t * W * W + s
    BY <2>4, <2>6, <2>7, <2>8 DEF Pair, V256
  <2>12. t * W * W = t * B
    <3>1. t \in 0..(B - 1) BY <2>9, SumDigits
    <3>2. PICK w \in Nat \ {0} : w = W /\ B = w * w BY <1>1, <1>2, Values128
    <3>3. t * w * w = t * (w * w) BY <3>1
    <3> QED BY <3>2, <3>3
  <2> QED BY <2>10, <2>11, <2>12
<1>5. V256(Minus256(a, b)) = Rem((u * B + l) - (v * B + k), B * B)
  <2>1. PICK low, hi : low = Minus128(a.low, b.low) /\ hi = Minus128(a.up, b.up) OBVIOUS
  <2>2. /\ low \in U128 /\ hi \in U128
        /\ V128(low) = Rem(l - k, B) /\ V128(hi) = Rem(u - v, B)
    BY <1>1, <1>2, <1>3, <2>1, Add128
  <2>3. PICK c : c = IF V128(low) > l THEN 1 ELSE 0 OBVIOUS
  <2>5. c \in {0, 1} /\ c \in Word /\ Int128(c) \in U128 /\ V128(Int128(c)) = c
    BY <1>b, <2>3, Small128
  <2>4. Minus256(a, b) = Pair(Minus128(hi, Int128(c)), low)
    <3>1. Greater128(low, a.low) <=> V128(low) > l
      <4>1. Greater128(low, a.low) <=> V128(a.low) < V128(low) BY <1>1, <2>2, Compare128
      <4>2. V128(low) \in Int BY <2>2, Values128
      <4> QED BY <1>3, <4>1, <4>2
    <3>2. c = IF Greater128(low, a.low) THEN 1 ELSE 0 BY <2>3, <3>1
    <3>3. Minus256(a, b) = Pair(MinusInt128(hi, c), low) BY <2>1, <3>2 DEF Minus256, Carry
    <3> QED BY <2>2, <2>5, <3>3, IntOverloads128
  <2>6. V128(Minus128(hi, Int128(c))) = Rem(Rem(u - v, B) - c, B)
    BY <1>2, <2>2, <2>5, Add128
  <2>7. Rem(Rem(u - v, B) - c, B) = Rem(u - v - c, B) BY <2>5, RemTwice
  <2>8. PICK t, s : t = Rem(u - v - c, B) /\ s = V128(low) OBVIOUS
  <2>9. DifferenceOf(B, u, l, v, k, t, s) BY <2>2, <2>3, <2>8 DEF DifferenceOf
  <2>10. t * B + s = Rem((u * B + l) - (v * B + k), B * B) BY <2>9, DifferenceDigits
  <2>11. V256(Minus256(a, b)) = t * W * W + s
    BY <2>4, <2>6, <2>7, <2>8 DEF Pair, V256
  <2>12. t * W * W = t * B
    <3>1. t \in 0..(B - 1) BY <2>9, DifferenceDigits
    <3>2. PICK w \in Nat \ {0} : w = W /\ B = w * w BY <1>1, <1>2, Values128
    <3>3. t * w * w = t * (w * w) BY <3>1
    <3> QED BY <3>2, <3>3
  <2> QED BY <2>10, <2>11, <2>12
<1> QED BY <1>a, <1>4, <1>5

\* A built-in integer is as good as the number made of it, in the wide operators too.
LEMMA IntOverloads256 ==
  ASSUME NEW a \in U256, NEW n \in Word
  PROVE  /\ Int256(n) \in U256 /\ V256(Int256(n)) = n
         /\ PlusInt256(a, n) = Plus256(a, Int256(n)) /\ MinusInt256(a, n) = Minus256(a, Int256(n))
         /\ LessInt256(a, n) <=> Less256(a, Int256(n))
         /\ GreaterInt256(a, n) <=> Greater256(a, Int256(n))
<1> DEFINE zero == Int128(0)
           low == Int128(n)
<1>1. a.up \in U128 /\ a.low \in U128 BY Values256
<1>2. 0 \in Word BY WordAssumption, WordRange DEF W, Word
<1>3. zero \in U128 /\ V128(zero) = 0 /\ low \in U128 /\ V128(low) = n BY <1>2, Small128
<1>4. Int256(n).up = zero /\ Int256(n).low = low /\ Int256(n) = Pair(zero, low) BY DEF Int256, Pair
<1>5. Int256(n) \in U256 /\ V256(Int256(n)) = n
  <2>1. Int256(n) \in U256 BY <1>3, <1>4 DEF U256, Pair
  <2>2. V256(Int256(n)) = 0 * M128 + n BY <1>3, <1>4, <2>1, Values256
  <2>3. M128 \in Int /\ n \in Int BY <1>1, Values128 DEF Word
  <2> QED BY <2>1, <2>2, <2>3
<1> HIDE DEF zero, low
<1>6. /\ V128(a.up) \in 0..(M128 - 1) /\ M128 \in Nat \ {0} BY <1>1, Values128
<1>7. Plus128(a.up, zero) = a.up /\ Minus128(a.up, zero) = a.up
  <2>1. /\ V128(Plus128(a.up, zero)) = Rem(V128(a.up) + 0, M128)
        /\ V128(Minus128(a.up, zero)) = Rem(V128(a.up) - 0, M128)
        /\ Plus128(a.up, zero) \in U128 /\ Minus128(a.up, zero) \in U128
    BY <1>1, <1>3, Add128
  <2>2. V128(a.up) + 0 = V128(a.up) /\ V128(a.up) - 0 = V128(a.up) BY <1>6
  <2>3. Rem(V128(a.up), M128) = V128(a.up) BY <1>6, Wraps
  <2> QED BY <1>1, <2>1, <2>2, <2>3, Compare128
<1>8. PlusInt256(a, n) = Plus256(a, Int256(n))
  <2>1. PICK s, c : s = Plus128(a.low, low) /\ c = Carry(Less128(s, a.low)) OBVIOUS
  <2>2. c \in Word BY <2>1, WordAssumption, WordRange DEF Carry, W, Word
  <2>3. PlusInt256(a, n) = Pair(PlusInt128(a.up, c), s)
    BY <2>1, Zenon DEF PlusInt256, low
  <2>4. Plus256(a, Int256(n)) = Pair(Plus128(Plus128(a.up, zero), Int128(c)), s)
    BY <1>4, <2>1, Zenon DEF Plus256
  <2> QED BY <1>1, <1>7, <2>2, <2>3, <2>4, IntOverloads128
<1>9. MinusInt256(a, n) = Minus256(a, Int256(n))
  <2>1. PICK s, c : s = Minus128(a.low, low) /\ c = Carry(Greater128(s, a.low)) OBVIOUS
  <2>2. MinusInt128(a.low, n) = Minus128(a.low, low) BY <1>1, IntOverloads128 DEF low
  <2>3. MinusInt256(a, n) = Pair(MinusInt128(a.up, c), s)
    BY <2>1, <2>2, Zenon DEF MinusInt256
  <2>4. Minus256(a, Int256(n)) = Pair(MinusInt128(Minus128(a.up, zero), c), s)
    BY <1>4, <2>1, Zenon DEF Minus256
  <2> QED BY <1>7, <2>3, <2>4
<1>10. LessInt256(a, n) <=> Less256(a, Int256(n))
  <2>1. ~Less128(a.up, zero) BY <1>1, <1>3, <1>6, Compare128
  <2>2. LessInt256(a, n) <=> IF a.up = zero THEN Less128(a.low, low) ELSE FALSE
    BY DEF LessInt256, zero, low
  <2>3. Less256(a, Int256(n)) <=> IF a.up = zero THEN Less128(a.low, low) ELSE Less128(a.up, zero)
    BY <1>4 DEF Less256
  <2> QED BY <2>1, <2>2, <2>3
<1>11. GreaterInt256(a, n) <=> Greater256(a, Int256(n))
  <2>1. GreaterInt128(a.up, 0) <=> Greater128(a.up, zero) BY <1>1, <1>2, IntOverloads128 DEF zero
  <2>2. Greater128(a.up, zero) <=> a.up # zero BY <1>1, <1>3, <1>6, Compare128
  <2>3. GreaterInt256(a, n) <=> GreaterInt128(a.up, 0) \/ Greater128(a.low, low)
    BY DEF GreaterInt256, low
  <2>4. CASE a.up = zero BY <1>4, <2>1, <2>2, <2>3, <2>4 DEF Greater256
  <2>5. CASE a.up # zero BY <1>4, <2>1, <2>2, <2>3, <2>5 DEF Greater256
  <2> QED BY <2>4, <2>5
<1> QED BY <1>5, <1>8, <1>9, <1>10, <1>11

\* The comparisons of both widths are those of the values, whatever the width of a
\* word: a map keyed by hashes is in their order (operator<, >, <=, >= and the
\* overloads for a built-in integer).
THEOREM ComparisonsAgree ==
  /\ \A a, b \in U128 : Order128(a, b)
  /\ \A a, b \in U256 : Order256(a, b)
<1>1. ASSUME NEW a \in U128, NEW b \in U128 PROVE Order128(a, b)
  <2>1. b.low \in Word /\ V128(a) \in Int /\ V128(b) \in Int BY Values128 DEF Word
  <2>2. PICK n \in Word : n = b.low BY <2>1
  <2>3. Int128(n) \in U128 /\ V128(Int128(n)) = n /\ n \in Int BY Small128 DEF Word
  <2>4. (Less128(a, b) <=> V128(a) < V128(b)) /\ (Greater128(a, b) <=> V128(a) > V128(b))
    BY <2>1, Compare128
  <2>5. a = b <=> V128(a) = V128(b) BY Compare128
  <2>6. (AtMost128(a, b) <=> ~Greater128(a, b)) /\ (AtLeast128(a, b) <=> ~Less128(a, b))
    BY <2>1, <2>4, <2>5 DEF AtMost128, AtLeast128
  <2>7. (LessInt128(a, n) <=> V128(a) < n) /\ (GreaterInt128(a, n) <=> V128(a) > n)
    <3>1. (Less128(a, Int128(n)) <=> V128(a) < n) /\ (Greater128(a, Int128(n)) <=> n < V128(a))
      BY <2>3, Compare128
    <3> QED BY <2>1, <2>3, <3>1, IntOverloads128
  <2> QED BY <2>2, <2>4, <2>6, <2>7 DEF Order128
<1>2. ASSUME NEW a \in U256, NEW b \in U256 PROVE Order256(a, b)
  <2>0. ASSUME NEW c \in U256 PROVE V256(c) \in Int /\ GetInt(c) \in Word
    <3>1. /\ M128 \in Nat /\ c.low \in U128 /\ V128(c.up) \in Int /\ V128(c.low) \in Int
          /\ V256(c) = V128(c.up) * M128 + V128(c.low)
      BY Values256
    <3>2. V128(c.up) * M128 \in Int BY <3>1
    <3>3. c.low.low \in Word BY <3>1, Values128 DEF Word
    <3> QED BY <3>1, <3>2, <3>3 DEF GetInt
  <2>1. GetInt(b) \in Word /\ V256(a) \in Int /\ V256(b) \in Int BY <2>0
  <2>2. PICK n \in Word : n = GetInt(b) BY <2>1
  <2>3. Int256(n) \in U256 /\ V256(Int256(n)) = n /\ n \in Int BY IntOverloads256 DEF Word
  <2>4. (Less256(a, b) <=> V256(a) < V256(b)) /\ (Greater256(a, b) <=> V256(a) > V256(b))
    BY <2>1, Compare256
  <2>5. a = b <=> V256(a) = V256(b) BY Compare256
  <2>6. (AtMost256(a, b) <=> ~Greater256(a, b)) /\ (AtLeast256(a, b) <=> ~Less256(a, b))
    BY <2>1, <2>4, <2>5 DEF AtMost256, AtLeast256
  <2>7. (LessInt256(a, n) <=> V256(a) < n) /\ (GreaterInt256(a, n) <=> V256(a) > n)
    <3>1. (Less256(a, Int256(n)) <=> V256(a) < n) /\ (Greater256(a, Int256(n)) <=> n < V256(a))
      BY <2>3, Compare256
    <3> QED BY <2>1, <2>3, <3>1, IntOverloads256
  <2> QED BY <2>2, <2>4, <2>6, <2>7 DEF Order256
<1> QED BY <1>1, <1>2

\* Sums and differences of both widths are those of the values modulo the width,
\* whatever the width of a word (operator+, - and the overloads).
THEOREM SumsAgree ==
  /\ \A a, b \in U128 : Sums128(a, b)
  /\ \A a, b \in U256 : Sums256(a, b)
<1>1. ASSUME NEW a \in U128, NEW b \in U128 PROVE Sums128(a, b)
  <2>1. b.low \in Word BY Values128 DEF Word
  <2> QED BY <2>1, Add128, IntOverloads128 DEF Sums128, Rem
<1>2. ASSUME NEW a \in U256, NEW b \in U256 PROVE Sums256(a, b)
  <2>1. GetInt(b) \in Word BY Values256, Values128 DEF Word, GetInt
  <2> QED BY <2>1, Add256, IntOverloads256 DEF Sums256, Rem
<1> QED BY <1>1, <1>2

=============================================================================
