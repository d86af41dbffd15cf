---------------------------- MODULE MessageStreamProofs ----------------------------
(***************************************************************************)
(* SocketStream implements MessageStream: whatever the sizes of reads and  *)
(* writes, an end of a connection handles the messages of the other end    *)
(* one by one, in order, none twice and none left out in between.          *)
(*                                                                         *)
(* A direction of a connection has a number h: the messages handled + 1    *)
(* to h stand in line in the queue of the reader (Lined), and its receive  *)
(* buffer, the wire and the send buffer of the writer are together the     *)
(* frames of the messages after h (Bytes), cut off at most by the end of   *)
(* the writer.                                                             *)
(***************************************************************************)
EXTENDS SocketStreamProofs

-----------------------------------------------------------------------------
(* Bytes and messages *)

\* A message that is sent has a size and its number.
Msg == {m \in Message : m.size \in Sizes}

\* The bytes of a frame.
LEMMA FrameBytes ==
  ASSUME NEW m \in Msg
  PROVE  /\ m.size \in Nat \ {0} /\ Frame(m) \in Seq(Byte)
         /\ Len(Frame(m)) = MagicSize + 1 + m.size
         /\ \A i \in 1..MagicSize : Frame(m)[i] = <<"magic", i>>
         /\ Frame(m)[MagicSize + 1] = <<"len", m.size>>
         /\ \A i \in 1..m.size : Frame(m)[MagicSize + 1 + i] = <<"body", m, i>>
<1> DEFINE a == [i \in 1..MagicSize |-> <<"magic", i>>]
           b == << <<"len", m.size>> >>
           d == [i \in 1..m.size |-> <<"body", m, i>>]
<1>0. m \in Message /\ m.size \in Sizes /\ m.size \in Nat \ {0} BY Constants DEF Msg
<1>1. a \in Seq(Byte) /\ Len(a) = MagicSize /\ \A i \in 1..MagicSize : a[i] = <<"magic", i>>
  <2>1. \A i \in 1..MagicSize : <<"magic", i>> \in Byte BY Constants DEF Byte
  <2>2. a \in [1..MagicSize -> Byte] BY <2>1
  <2> QED BY <2>2, Constants, SeqDef
<1>2. b \in Seq(Byte) /\ Len(b) = 1 /\ b[1] = <<"len", m.size>>
  <2>1. <<"len", m.size>> \in Byte BY <1>0 DEF Byte
  <2> QED BY <2>1
<1>3. d \in Seq(Byte) /\ Len(d) = m.size /\ \A i \in 1..m.size : d[i] = <<"body", m, i>>
  <2>1. \A i \in 1..m.size : <<"body", m, i>> \in Byte BY <1>0 DEF Byte
  <2>2. d \in [1..m.size -> Byte] BY <2>1
  <2> QED BY <1>0, <2>2, SeqDef
<1>4. Frame(m) = (a \o b) \o d BY DEF Frame
<1> HIDE DEF a, b, d
<1>5. /\ a \o b \in Seq(Byte) /\ Len(a \o b) = MagicSize + 1
      /\ \A i \in 1..(MagicSize + 1) : (a \o b)[i] = IF i <= MagicSize THEN a[i] ELSE b[i - MagicSize]
  BY <1>1, <1>2, ConcatProperties, SMTT(20)
<1>6. /\ Frame(m) \in Seq(Byte) /\ Len(Frame(m)) = MagicSize + 1 + m.size
      /\ \A i \in 1..(MagicSize + 1 + m.size) :
           Frame(m)[i] = IF i <= MagicSize + 1 THEN (a \o b)[i] ELSE d[i - (MagicSize + 1)]
  BY <1>3, <1>4, <1>5, ConcatProperties
<1>7. MagicSize \in Nat \ {0} BY Constants
<1>8. ASSUME NEW i \in 1..MagicSize PROVE Frame(m)[i] = <<"magic", i>>
  BY <1>0, <1>1, <1>5, <1>6, <1>7
<1>9. Frame(m)[MagicSize + 1] = <<"len", m.size>>
  <2>1. (MagicSize + 1) - MagicSize = 1 BY <1>7
  <2>2. /\ MagicSize + 1 \in 1..(MagicSize + 1 + m.size) /\ MagicSize + 1 <= MagicSize + 1
        /\ MagicSize + 1 \in 1..(MagicSize + 1) /\ ~(MagicSize + 1 <= MagicSize)
    BY <1>0, <1>7
  <2>3. Frame(m)[MagicSize + 1] = (a \o b)[MagicSize + 1] BY <1>6, <2>2
  <2>4. (a \o b)[MagicSize + 1] = b[(MagicSize + 1) - MagicSize] BY <1>5, <2>2
  <2> QED BY <1>2, <2>1, <2>3, <2>4
<1>10. ASSUME NEW i \in 1..m.size PROVE Frame(m)[MagicSize + 1 + i] = <<"body", m, i>>
  <2>1. /\ MagicSize + 1 + i \in 1..(MagicSize + 1 + m.size) /\ ~(MagicSize + 1 + i <= MagicSize + 1)
        /\ (MagicSize + 1 + i) - (MagicSize + 1) = i
    BY <1>0, <1>7
  <2> QED BY <1>3, <1>6, <2>1
<1> QED BY <1>0, <1>6, <1>8, <1>9, <1>10

\* off[k] is how many bytes the frames of the first k messages take.
Size(m) == MagicSize + 1 + m.size
Offsets(off, msgs) ==
  /\ off \in [0..Len(msgs) -> Nat]
  /\ \A k \in 1..Len(msgs) : off[k] = off[k - 1] + Size(msgs[k])

\* A frame takes the magic value, the length and the body.
LEMMA SizeFacts ==
  ASSUME NEW m \in Msg
  PROVE  Size(m) \in Nat /\ Size(m) >= 2 /\ Len(Frame(m)) = Size(m) /\ m.size \in Nat
<1>1. m.size \in Nat /\ m.size # 0 /\ Len(Frame(m)) = MagicSize + 1 + m.size BY FrameBytes
<1>2. MagicSize \in Nat /\ MagicSize # 0 BY Constants
<1> QED BY <1>1, <1>2 DEF Size

\* buf begins with the frames of the messages after the first h, however many of them
\* are complete.
Covers(buf, msgs, h, off) ==
  /\ Len(buf) <= off[Len(msgs)] - off[h]
  /\ \A k \in h + 1 .. Len(msgs) : \A i \in 1..Size(msgs[k]) :
       (off[k - 1] - off[h]) + i <= Len(buf)
         => buf[(off[k - 1] - off[h]) + i] = Frame(msgs[k])[i]
Framed(buf, msgs, h, whole) ==
  \E off : /\ Offsets(off, msgs) /\ Covers(buf, msgs, h, off)
           /\ whole => Len(buf) = off[Len(msgs)] - off[h]

\* Offsets grow.
LEMMA OffsetsGrow ==
  ASSUME NEW msgs \in Seq(Msg), NEW off, Offsets(off, msgs),
         NEW h \in 0..Len(msgs), NEW k \in h..Len(msgs)
  PROVE  off[h] + (k - h) <= off[k] /\ off[h] \in Nat /\ off[k] \in Nat
<1> DEFINE S == {x \in h..Len(msgs) : ~(off[h] + (x - h) <= off[x])}
<1>1. Len(msgs) \in Nat /\ \A x \in 0..Len(msgs) : off[x] \in Nat
  BY LenProperties DEF Offsets
<1>2. S = {}
  <2> SUFFICES ASSUME S # {} PROVE FALSE OBVIOUS
  <2>1. PICK x \in S : \A y \in S : x <= y
    <3>1. S \subseteq Nat BY <1>1
    <3> HIDE DEF S
    <3> QED BY <3>1, LeastNat
  <2>2. x \in h..Len(msgs) /\ x # h BY <1>1
  <2>3. x - 1 \in h..Len(msgs) /\ x \in 1..Len(msgs) /\ x - 1 \in 0..Len(msgs) BY <1>1, <2>2
  <2>4. x - 1 \notin S BY <1>1, <2>1, <2>3
  <2>5. off[h] + ((x - 1) - h) <= off[x - 1] BY <2>3, <2>4
  <2>6. msgs[x] \in Msg BY <2>3, ElementOfSeq
  <2>7. Size(msgs[x]) \in Nat /\ Size(msgs[x]) >= 2 BY <2>6, SizeFacts
  <2>8. off[x] = off[x - 1] + Size(msgs[x]) BY <2>3 DEF Offsets
  <2>9. off[h] \in Nat /\ off[x - 1] \in Nat /\ off[x] \in Nat /\ h \in Nat /\ x \in Nat
    BY <1>1, <2>3
  <2>10. off[h] + (x - h) <= off[x] BY <2>5, <2>7, <2>8, <2>9, SMTT(20)
  <2> QED BY <2>10
<1>3. k \in 0..Len(msgs) BY <1>1
<1> QED BY <1>1, <1>2, <1>3

\* What is nothing, of nothing.
LEMMA FramedEmpty ==
  Framed(<< >>, << >>, 0, TRUE)
<1> DEFINE off == [k \in 0..0 |-> 0]
<1>1. Len(<< >>) = 0 BY EmptySeq
<1>2. off[0] = 0 /\ off \in [0..0 -> Nat] OBVIOUS
<1> HIDE DEF off
<1>3. Offsets(off, << >>) BY <1>1, <1>2 DEF Offsets
<1>4. Covers(<< >>, << >>, 0, off) BY <1>1, <1>2 DEF Covers
<1> QED BY <1>1, <1>2, <1>3, <1>4 DEF Framed

\* Of no message there is no byte.
LEMMA FramedNothing ==
  ASSUME NEW buf \in Seq(Byte), NEW whole, Framed(buf, << >>, 0, whole)
  PROVE  buf = << >>
<1>1. PICK off : Offsets(off, << >>) /\ Covers(buf, << >>, 0, off) BY DEF Framed
<1>2. Len(<< >>) = 0 BY EmptySeq
<1>3. off[0] \in Nat BY <1>1, <1>2 DEF Offsets
<1>4. Len(buf) <= off[0] - off[0] BY <1>1, <1>2 DEF Covers
<1>5. Len(buf) = 0 BY <1>3, <1>4, LenProperties
<1> QED BY <1>5, EmptySeq

\* What covers a buffer covers its beginning.
LEMMA CoversPrefix ==
  ASSUME NEW buf \in Seq(Byte), NEW rest \in Seq(Byte), NEW msgs \in Seq(Msg),
         NEW h \in 0..Len(msgs), NEW off, Offsets(off, msgs), Covers(buf \o rest, msgs, h, off)
  PROVE  Covers(buf, msgs, h, off)
<1>2. /\ Len(buf) \in Nat /\ Len(rest) \in Nat /\ Len(buf \o rest) = Len(buf) + Len(rest)
      /\ \A i \in 1..Len(buf) : (buf \o rest)[i] = buf[i]
  BY ConcatProperties, LenProperties
<1>3. Len(msgs) \in Nat /\ off[h] \in Nat /\ off[Len(msgs)] \in Nat
  BY LenProperties, OffsetsGrow
<1>4. ASSUME NEW k \in h + 1 .. Len(msgs), NEW i \in 1..Size(msgs[k]),
             (off[k - 1] - off[h]) + i <= Len(buf)
      PROVE  buf[(off[k - 1] - off[h]) + i] = Frame(msgs[k])[i]
  <2> DEFINE j == (off[k - 1] - off[h]) + i
  <2>1. k - 1 \in h..Len(msgs) BY <1>3
  <2>2. off[h] + ((k - 1) - h) <= off[k - 1] /\ off[k - 1] \in Nat BY <2>1, OffsetsGrow
  <2>3. k \in 1..Len(msgs) BY <1>3
  <2>4. msgs[k] \in Msg BY <2>3, ElementOfSeq
  <2>5. Size(msgs[k]) \in Nat BY <2>4, SizeFacts
  <2>6. j \in 1..Len(buf) BY <1>2, <1>3, <1>4, <2>1, <2>2, <2>5, SMTT(20)
  <2>7. j <= Len(buf \o rest) BY <1>2, <2>6
  <2>8. (buf \o rest)[j] = Frame(msgs[k])[i] BY <2>7 DEF Covers
  <2> QED BY <1>2, <2>6, <2>8
<1>5. Len(buf) <= off[Len(msgs)] - off[h] BY <1>2, <1>3 DEF Covers
<1> QED BY <1>4, <1>5 DEF Covers

\* Bytes that are lost at the end leave whole frames and a part of one.
LEMMA FramedPrefix ==
  ASSUME NEW buf \in Seq(Byte), NEW rest \in Seq(Byte), NEW msgs \in Seq(Msg),
         NEW h \in 0..Len(msgs), NEW whole, Framed(buf \o rest, msgs, h, whole)
  PROVE  Framed(buf, msgs, h, FALSE)
BY CoversPrefix DEF Framed

\* A message that is sent comes after all that was sent before.
LEMMA FramedSend ==
  ASSUME NEW buf \in Seq(Byte), NEW msgs \in Seq(Msg), NEW h \in 0..Len(msgs),
         Framed(buf, msgs, h, TRUE), NEW m \in Msg
  PROVE  Framed(buf \o Frame(m), Append(msgs, m), h, TRUE)
<1>1. PICK off : /\ Offsets(off, msgs) /\ Covers(buf, msgs, h, off)
                 /\ Len(buf) = off[Len(msgs)] - off[h]
  BY DEF Framed
<1> DEFINE L == Len(msgs)
           new == Append(msgs, m)
           all == buf \o Frame(m)
           off2 == [k \in 0..(L + 1) |-> IF k = L + 1 THEN off[L] + Size(m) ELSE off[k]]
<1>2. L \in Nat /\ Len(buf) \in Nat BY LenProperties
<1>3. /\ Frame(m) \in Seq(Byte) /\ Len(Frame(m)) = Size(m) /\ Size(m) \in Nat
  BY FrameBytes, SizeFacts
<1>4. /\ Len(new) = L + 1 /\ new \in Seq(Msg)
      /\ \A k \in 1..L : new[k] = msgs[k]
      /\ new[L + 1] = m
  BY AppendProperties
<1>5. /\ Len(all) = Len(buf) + Size(m)
      /\ \A i \in 1..(Len(buf) + Size(m)) : all[i] = IF i <= Len(buf) THEN buf[i] ELSE Frame(m)[i - Len(buf)]
  BY <1>3, ConcatProperties
<1>6. \A k \in 0..L : off2[k] = off[k] /\ off[k] \in Nat
  BY <1>1, <1>2 DEF Offsets
<1>7. off2[L + 1] = off[L] + Size(m) BY <1>2
<1>8. off2 \in [0..(L + 1) -> Nat]
  <2>1. L \in 0..L BY <1>2
  <2>2. off[L] + Size(m) \in Nat
    <3>1. off[L] \in Nat BY <1>6, <2>1
    <3> QED BY <1>3, <3>1
  <2>3. ASSUME NEW k \in 0..(L + 1) PROVE off2[k] \in Nat
    <3>1. CASE k = L + 1 BY <1>7, <2>2, <3>1
    <3>2. CASE k # L + 1
      <4>1. k \in 0..L BY <1>2, <3>2
      <4> QED BY <1>6, <4>1
    <3> QED BY <3>1, <3>2
  <2> HIDE DEF L
  <2>4. off2 = [k \in 0..(L + 1) |-> off2[k]] OBVIOUS
  <2> HIDE DEF off2
  <2> QED BY <2>3, <2>4
<1> HIDE DEF off2, new, all
<1>9. Offsets(off2, new)
  <2>1. ASSUME NEW k \in 1..(L + 1) PROVE off2[k] = off2[k - 1] + Size(new[k])
    <3>1. CASE k = L + 1
      <4>1. k - 1 = L /\ L \in 0..L BY <1>2, <3>1
      <4> QED BY <1>4, <1>6, <1>7, <3>1, <4>1
    <3>2. CASE k # L + 1
      <4>1. k \in 1..L /\ k \in 0..L /\ k - 1 \in 0..L BY <1>2, <3>2
      <4>2. off[k] = off[k - 1] + Size(msgs[k]) BY <1>1, <4>1 DEF Offsets
      <4> QED BY <1>4, <1>6, <4>1, <4>2
    <3> QED BY <3>1, <3>2
  <2> QED BY <1>4, <1>8, <2>1 DEF Offsets
<1>10. /\ h \in 0..L /\ off2[h] = off[h] /\ off[h] \in Nat /\ off[L] \in Nat
       /\ Len(all) = off2[L + 1] - off2[h]
  BY <1>1, <1>2, <1>3, <1>5, <1>6, <1>7
<1>11. ASSUME NEW k \in h + 1 .. L + 1, NEW i \in 1..Size(new[k]),
              (off2[k - 1] - off2[h]) + i <= Len(all)
       PROVE  all[(off2[k - 1] - off2[h]) + i] = Frame(new[k])[i]
  <2> DEFINE j == (off2[k - 1] - off2[h]) + i
  <2>1. CASE k = L + 1
    <3>1. /\ k - 1 = L /\ new[k] = m /\ off2[k - 1] - off2[h] = Len(buf)
      <4>1. k - 1 = L /\ L \in 0..L BY <1>2, <2>1
      <4> QED BY <1>1, <1>4, <1>6, <1>10, <2>1, <4>1
    <3>2. /\ j = Len(buf) + i /\ j \in 1..(Len(buf) + Size(m)) /\ ~(j <= Len(buf)) /\ j - Len(buf) = i
      <4>1. i \in 1..Size(m) BY <3>1
      <4>2. j = Len(buf) + i BY <3>1
      <4> HIDE DEF j
      <4> QED BY <1>2, <1>3, <4>1, <4>2
    <3>3. all[j] = Frame(m)[i] BY <1>5, <3>2
    <3> QED BY <3>1, <3>3
  <2>2. CASE k # L + 1
    <3>1. k \in h + 1 .. L /\ k \in 1..L /\ k \in 0..L /\ k - 1 \in 0..L /\ k - 1 \in h..L
          /\ k \in h..L /\ L \in k..L
      BY <1>2, <2>2
    <3>2. new[k] = msgs[k] /\ off2[k - 1] = off[k - 1] BY <1>4, <1>6, <3>1
    <3>3. msgs[k] \in Msg BY <3>1, ElementOfSeq
    <3>4. Size(msgs[k]) \in Nat BY <3>3, SizeFacts
    <3>5. off[k] = off[k - 1] + Size(msgs[k]) BY <1>1, <3>1 DEF Offsets
    <3>6. off[h] + ((k - 1) - h) <= off[k - 1] /\ off[k - 1] \in Nat BY <1>1, <3>1, OffsetsGrow
    <3>7. off[k] + (L - k) <= off[L] /\ off[k] \in Nat
      <4>1. k \in 0..Len(msgs) /\ L \in k..Len(msgs) BY <3>1
      <4> QED BY <1>1, <4>1, OffsetsGrow
    <3>8. off[k - 1] >= off[h] BY <1>2, <1>10, <3>1, <3>6
    <3>9. off[k] <= off[L] BY <1>2, <1>10, <3>1, <3>7
    <3>10. i \in Nat /\ i >= 1 /\ i <= Size(msgs[k]) BY <3>2, <3>4
    <3>11. j = (off[k - 1] - off[h]) + i BY <1>10, <3>2
    <3>12. j \in 1..Len(buf)
      <4>1. j >= 1 BY <1>10, <3>6, <3>8, <3>10, <3>11, SMTT(20)
      <4>2. j <= off[L] - off[h]
        <5>1. j <= off[k] - off[h] BY <1>10, <3>4, <3>5, <3>6, <3>10, <3>11, SMTT(20)
        <5>2. off[k] - off[h] <= off[L] - off[h] BY <1>10, <3>7, <3>9
        <5> HIDE DEF j
        <5>3. off[k] - off[h] \in Int BY <1>10, <3>7
        <5>4. off[L] - off[h] \in Int BY <1>10
        <5>5. j \in Int
          <6>1. off[k - 1] - off[h] \in Int BY <1>10, <3>6
          <6> QED BY <3>10, <3>11, <6>1
        <5> QED BY <5>1, <5>2, <5>3, <5>4, <5>5
      <4>3. j \in Int
        <5>1. off[k - 1] - off[h] \in Int BY <1>10, <3>6
        <5> HIDE DEF j
        <5> QED BY <3>10, <3>11, <5>1
      <4> QED BY <1>1, <1>2, <4>1, <4>2, <4>3
    <3>13. buf[j] = Frame(msgs[k])[i]
      <4> HIDE DEF j
      <4>1. i \in 1..Size(msgs[k]) BY <3>2
      <4>2. j <= Len(buf) BY <1>2, <3>12
      <4> QED BY <1>1, <3>1, <3>11, <4>1, <4>2 DEF Covers
    <3>14. all[j] = buf[j]
      <4>1. j \in 1..(Len(buf) + Size(m)) /\ j <= Len(buf) BY <1>2, <1>3, <3>12
      <4> HIDE DEF j
      <4> QED BY <1>5, <4>1
    <3> QED BY <3>2, <3>13, <3>14
  <2> QED BY <2>1, <2>2
<1>12. Covers(all, new, h, off2)
  <2>1. Len(all) <= off2[Len(new)] - off2[h] BY <1>4, <1>10, <1>5, <1>2, <1>3
  <2> QED BY <1>4, <1>11, <2>1 DEF Covers
<1> QED BY <1>4, <1>9, <1>10, <1>12 DEF Framed, new, all

\* The parsing loop finds the frame of the next message if all of it is there.
LEMMA FrameThere ==
  ASSUME NEW buf \in Seq(Byte), NEW msgs \in Seq(Msg), NEW h \in 0..Len(msgs), NEW off,
         Offsets(off, msgs), Covers(buf, msgs, h, off),
         NEW k \in h + 1 .. Len(msgs), NEW p, p = off[k - 1] - off[h]
  PROVE  /\ p \in Nat /\ p >= (k - 1) - h /\ msgs[k] \in Msg /\ msgs[k].size \in Nat \ {0}
         /\ off[k] - off[h] = p + MagicSize + 1 + msgs[k].size
         /\ off[k] - off[h] <= Len(buf)
              => /\ WholeFrame(buf, p) /\ AfterFrame(buf, p) = off[k] - off[h]
                 /\ \A i \in 1..msgs[k].size : buf[p + MagicSize + 1 + i] = <<"body", msgs[k], i>>
         /\ off[k] - off[h] > Len(buf) => ~WholeFrame(buf, p)
<1> DEFINE m == msgs[k]
           q == p + MagicSize + 1
<1>1. Len(msgs) \in Nat /\ Len(buf) \in Nat /\ MagicSize \in Nat \ {0} BY LenProperties, Constants
<1>2. k \in 1..Len(msgs) /\ k - 1 \in h..Len(msgs) /\ k - 1 \in 0..Len(msgs) BY <1>1
<1>3. m \in Msg /\ m.size \in Nat \ {0}
  <2>1. msgs[k] \in Msg BY <1>2, ElementOfSeq
  <2> QED BY <2>1, FrameBytes
<1>4. Size(m) = MagicSize + 1 + m.size BY DEF Size
<1>5. off[k] = off[k - 1] + Size(msgs[k]) BY <1>2 DEF Offsets
<1>6. off[h] + ((k - 1) - h) <= off[k - 1] /\ off[h] \in Nat /\ off[k - 1] \in Nat
  BY <1>2, OffsetsGrow
<1>7. \A i \in 1..Size(msgs[k]) : p + i <= Len(buf) => buf[p + i] = Frame(msgs[k])[i]
  BY DEF Covers
<1> HIDE DEF m
<1>8. p \in Nat /\ p >= (k - 1) - h
  <2> DEFINE a == off[h]
             b == off[k - 1]
  <2>1. a + ((k - 1) - h) <= b /\ a \in Nat /\ b \in Nat /\ p = b - a BY <1>6
  <2>2. h \in Nat /\ k \in Nat /\ (k - 1) - h >= 0 BY <1>1, <1>2
  <2> HIDE DEF a, b
  <2> QED BY <2>1, <2>2
<1>9. off[k] - off[h] = p + MagicSize + 1 + m.size
  <2>1. off[k] = off[k - 1] + (MagicSize + 1 + m.size) BY <1>4, <1>5 DEF m
  <2>2. off[k - 1] \in Nat /\ off[h] \in Nat /\ MagicSize \in Nat /\ m.size \in Nat BY <1>1, <1>3, <1>6
  <2> DEFINE a == off[h]
             b == off[k - 1]
             d == off[k]
             z == m.size
  <2>3. d = b + (MagicSize + 1 + z) /\ a \in Nat /\ b \in Nat /\ z \in Nat /\ MagicSize \in Nat
    BY <2>1, <2>2
  <2> HIDE DEF a, b, d, z
  <2>4. d - a = (b - a) + MagicSize + 1 + z BY <2>3
  <2> QED BY <2>4 DEF a, b, d, z
<1>10. \A i \in 1..(MagicSize + 1 + m.size) : p + i <= Len(buf) => buf[p + i] = Frame(m)[i]
  BY <1>4, <1>7 DEF m
<1>11. /\ \A i \in 1..MagicSize : Frame(m)[i] = <<"magic", i>>
       /\ Frame(m)[MagicSize + 1] = <<"len", m.size>>
       /\ \A i \in 1..m.size : Frame(m)[MagicSize + 1 + i] = <<"body", m, i>>
  BY <1>3, FrameBytes
<1>12. q <= Len(buf) => buf[q] = <<"len", m.size>>
  <2>1. q = p + (MagicSize + 1) /\ MagicSize + 1 \in 1..(MagicSize + 1 + m.size) BY <1>1, <1>3, <1>8
  <2> QED BY <1>10, <1>11, <2>1
<1>13. ASSUME off[k] - off[h] <= Len(buf)
       PROVE  /\ WholeFrame(buf, p) /\ AfterFrame(buf, p) = off[k] - off[h]
              /\ \A i \in 1..m.size : buf[p + MagicSize + 1 + i] = <<"body", m, i>>
  <2>1. q <= Len(buf) /\ q + m.size <= Len(buf) /\ q \in Nat BY <1>1, <1>3, <1>8, <1>9, <1>13, SMTT(20)
  <2>2. buf[q][1] = "len" /\ buf[q][2] = m.size BY <1>12, <2>1
  <2>3. ASSUME NEW i \in 1..MagicSize PROVE buf[p + i] = <<"magic", i>>
    <3>0. q <= Len(buf) /\ p \in Nat /\ MagicSize \in Nat /\ m.size \in Nat BY <1>1, <1>3, <1>8, <2>1
    <3>1. p + i <= Len(buf) /\ i \in 1..(MagicSize + 1 + m.size) BY <1>1, <3>0, SMTT(20)
    <3> QED BY <1>10, <1>11, <3>1
  <2>4. ASSUME NEW i \in 1..m.size PROVE buf[p + MagicSize + 1 + i] = <<"body", m, i>>
    <3>1. /\ MagicSize + 1 + i \in 1..(MagicSize + 1 + m.size)
          /\ p + (MagicSize + 1 + i) <= Len(buf)
          /\ p + MagicSize + 1 + i = p + (MagicSize + 1 + i)
      <4>1. q + m.size <= Len(buf) /\ p \in Nat /\ MagicSize \in Nat /\ m.size \in Nat
        BY <1>1, <1>3, <1>8, <2>1
      <4> DEFINE z == m.size
      <4>2. i \in 1..z /\ z \in Nat /\ p + MagicSize + 1 + z <= Len(buf) BY <4>1
      <4>3. MagicSize \in Nat /\ p \in Nat /\ Len(buf) \in Nat BY <1>1, <4>1
      <4> HIDE DEF z
      <4>4. /\ MagicSize + 1 + i \in 1..(MagicSize + 1 + z)
            /\ p + (MagicSize + 1 + i) <= Len(buf)
            /\ p + MagicSize + 1 + i = p + (MagicSize + 1 + i)
        BY <4>2, <4>3, SMTT(20)
      <4> QED BY <4>4 DEF z
    <3> QED BY <1>10, <1>11, <3>1
  <2>5. WholeFrame(buf, p) BY <2>1, <2>2, <2>3 DEF WholeFrame
  <2>6. AfterFrame(buf, p) = q + m.size BY <2>2, <2>5 DEF AfterFrame
  <2> QED BY <1>9, <2>4, <2>5, <2>6
<1>14. ASSUME off[k] - off[h] > Len(buf), WholeFrame(buf, p) PROVE FALSE
  <2>1. q <= Len(buf) /\ q + buf[q][2] <= Len(buf) BY <1>14 DEF WholeFrame
  <2>2. buf[q][2] = m.size BY <1>12, <2>1
  <2> QED BY <1>1, <1>3, <1>8, <1>9, <1>14, <2>1, <2>2, SMTT(20)
<1> QED BY <1>3, <1>8, <1>9, <1>13, <1>14 DEF m

\* How many whole frames there are, and where the parsing loop stands after each.
LEMMA FramesThere ==
  ASSUME NEW buf \in Seq(Byte), NEW msgs \in Seq(Msg), NEW h \in 0..Len(msgs), NEW off,
         Offsets(off, msgs), Covers(buf, msgs, h, off)
  PROVE  \E f \in 0..(Len(msgs) - h) :
           /\ f <= Len(buf) /\ off[h + f] - off[h] <= Len(buf)
           /\ \A k \in 0..f : FrameEnd(buf)[k] = off[h + k] - off[h]
           /\ \A k \in f..Len(buf) : FrameEnd(buf)[k] = off[h + f] - off[h]
<1> DEFINE L == Len(msgs) - h
           B == Len(buf)
           P(k) == off[h + k] - off[h]
           S == {x \in 0..L : x = L \/ P(x + 1) > B}
           e == FrameEnd(buf)
<1>1. Len(msgs) \in Nat /\ L \in Nat /\ B \in Nat /\ h \in Nat BY LenProperties
<1>2. ASSUME NEW x \in 0..L, NEW y \in x..L
      PROVE  P(x) \in Nat /\ P(y) \in Nat /\ P(x) + (y - x) <= P(y)
  <2>1. h + x \in h..Len(msgs) /\ h + y \in h + x .. Len(msgs) /\ h + x \in 0..Len(msgs)
        /\ h + y \in h..Len(msgs)
    BY <1>1
  <2>2. off[h] + ((h + x) - h) <= off[h + x] /\ off[h] \in Nat /\ off[h + x] \in Nat
    BY <2>1, OffsetsGrow
  <2>3. off[h + x] + ((h + y) - (h + x)) <= off[h + y] /\ off[h + y] \in Nat
    BY <2>1, OffsetsGrow
  <2>4. off[h] <= off[h + x] BY <1>1, <2>1, <2>2
  <2>5. P(x) \in Nat BY <2>2, <2>4
  <2>6. P(x) + (y - x) <= P(y) BY <1>1, <2>2, <2>3, SMTT(20)
  <2>7. P(y) \in Int BY <2>2, <2>3
  <2> HIDE DEF P
  <2> QED BY <1>1, <2>5, <2>6, <2>7
<1>3. P(0) = 0
  <2>1. h + 0 = h /\ off[h] \in Nat
    <3>1. h \in h..Len(msgs) BY <1>1
    <3> QED BY <1>1, <3>1, OffsetsGrow
  <2> QED BY <2>1
<1>4. ASSUME NEW x \in 0..L, x # L
      PROVE  /\ P(x + 1) <= B => AfterFrame(buf, P(x)) = P(x + 1)
             /\ P(x + 1) > B => ~WholeFrame(buf, P(x))
  <2>1. h + (x + 1) \in h + 1 .. Len(msgs) /\ (h + (x + 1)) - 1 = h + x BY <1>1, <1>4
  <2>2. P(x) = off[(h + (x + 1)) - 1] - off[h] BY <2>1
  <2> QED BY <2>1, <2>2, FrameThere
<1>5. PICK f \in S : \A y \in S : f <= y
  <2>1. S \subseteq Nat /\ L \in S BY <1>1
  <2> HIDE DEF S
  <2>2. S # {} BY <2>1
  <2> QED BY <2>1, <2>2, LeastNat
<1>6. f \in 0..L /\ f \in Nat BY <1>1
<1>7. P(f) <= B
  <2>1. CASE f = 0 BY <1>1, <1>3, <2>1
  <2>2. CASE f # 0
    <3>1. f - 1 \in 0..L /\ f - 1 # L /\ ~(f <= f - 1) /\ (f - 1) + 1 = f BY <1>1, <1>6, <2>2
    <3>2. f - 1 \notin S BY <1>5, <3>1
    <3>3. ~(P(f) > B) BY <3>1, <3>2
    <3>4. P(f) \in Nat
      <4>1. f \in f..L BY <1>1, <1>6
      <4> QED BY <1>2, <1>6, <4>1
    <3> HIDE DEF P
    <3> QED BY <1>1, <3>3, <3>4
  <2> QED BY <2>1, <2>2
<1>8. f = L \/ P(f + 1) > B BY <1>5
<1>10. P(L) >= B
  <2>1. h + L = Len(msgs) BY <1>1
  <2>2. Len(buf) <= off[Len(msgs)] - off[h] BY DEF Covers
  <2> QED BY <1>1, <1>2, <2>1, <2>2
<1> HIDE DEF S, P
<1>11. ~WholeFrame(buf, P(f))
  <2>1. CASE f # L BY <1>4, <1>6, <1>8, <2>1
  <2>2. CASE f = L
    <3>1. P(L) \in Nat
      <4>1. L \in 0..L /\ L \in L..L BY <1>1
      <4> QED BY <1>2, <4>1
    <3>2. P(L) + MagicSize + 1 > B BY <1>1, <1>10, <3>1, Constants
    <3>3. MagicSize \in Nat BY Constants
    <3> QED BY <1>1, <2>2, <3>1, <3>2, <3>3 DEF WholeFrame
  <2> QED BY <2>1, <2>2
<1>12. f <= B /\ P(f) \in Nat
  <2>1. 0 \in 0..L /\ f \in 0..L BY <1>1, <1>6
  <2>2. P(0) + (f - 0) <= P(f) /\ P(f) \in Nat BY <1>2, <2>1
  <2> QED BY <1>1, <1>3, <1>6, <1>7, <2>2
<1>13. e[0] = 0 /\ \A k \in 1..B : e[k] = AfterFrame(buf, e[k - 1]) BY <1>1, FrameEndSteps
<1> HIDE DEF e, L
<1>14. \A k \in 0..f : e[k] = P(k)
  <2> DEFINE D == {k \in 0..f : e[k] # P(k)}
  <2> SUFFICES ASSUME D # {} PROVE FALSE OBVIOUS
  <2>1. PICK k \in D : \A y \in D : k <= y
    <3>1. D \subseteq Nat BY <1>6
    <3> HIDE DEF D
    <3> QED BY <3>1, LeastNat
  <2>2. k \in 0..f /\ e[k] # P(k) OBVIOUS
  <2>3. k # 0 BY <1>3, <1>13, <2>2
  <2>4. k - 1 \in 0..f /\ ~(k <= k - 1) /\ k \in 1..B /\ k - 1 \in 0..L /\ k - 1 # L /\ (k - 1) + 1 = k
        /\ k \in 0..L /\ f \in k..L
    BY <1>1, <1>6, <1>12, <2>2, <2>3
  <2>5. e[k - 1] = P(k - 1) BY <2>1, <2>4
  <2>6. P(k) <= B
    <3>1. P(k) \in Nat /\ P(f) \in Nat /\ P(k) + (f - k) <= P(f) BY <1>2, <2>4
    <3> QED BY <1>1, <1>6, <1>7, <2>4, <3>1
  <2>7. AfterFrame(buf, P(k - 1)) = P(k) BY <1>4, <2>4, <2>6
  <2> QED BY <1>13, <2>2, <2>4, <2>5, <2>7
<1>15. \A k \in f..B : e[k] = P(f)
  <2> DEFINE D == {k \in f..B : e[k] # P(f)}
  <2> SUFFICES ASSUME D # {} PROVE FALSE OBVIOUS
  <2>1. PICK k \in D : \A y \in D : k <= y
    <3>1. D \subseteq Nat BY <1>1, <1>6
    <3> HIDE DEF D
    <3> QED BY <3>1, LeastNat
  <2>2. k \in f..B /\ e[k] # P(f) OBVIOUS
  <2>3. k # f
    <3>1. f \in 0..f BY <1>6
    <3> QED BY <1>14, <2>2, <3>1
  <2>4. k - 1 \in f..B /\ ~(k <= k - 1) /\ k \in 1..B BY <1>1, <1>6, <2>2, <2>3
  <2>5. e[k - 1] = P(f) BY <2>1, <2>4
  <2>6. AfterFrame(buf, P(f)) = P(f) BY <1>11 DEF AfterFrame
  <2> QED BY <1>13, <2>2, <2>4, <2>5, <2>6
<1> QED BY <1>6, <1>7, <1>12, <1>14, <1>15 DEF P, e, L

\* The bytes of a body are deserialised to its message.
LEMMA ContentOf ==
  ASSUME NEW m \in Msg, NEW body \in Seq(Byte), Len(body) = m.size,
         \A i \in 1..m.size : body[i] = <<"body", m, i>>
  PROVE  Content(body) = m
<1>1. m.size \in Nat \ {0} BY FrameBytes
<1>2. 1 \in 1..m.size BY <1>1
<1>3. body[1][1] = "body" /\ body[1][2] = m BY <1>2
<1>4. body = [i \in 1..Len(body) |-> body[i]]
  <2>1. body \in [1..Len(body) -> Byte] BY LenProperties
  <2> QED BY <2>1
<1>5. body = [i \in 1..Len(body) |-> <<"body", m, i>>] BY <1>4
<1> QED BY <1>3, <1>5 DEF Content

\* RecvHandler takes the messages one by one off the beginning of what comes, whole
\* ones only, and leaves the rest.
LEMMA FramedParse ==
  ASSUME NEW buf \in Seq(Byte), NEW rest \in Seq(Byte), NEW msgs \in Seq(Msg),
         NEW h \in 0..Len(msgs), NEW whole, Framed(buf \o rest, msgs, h, whole)
  PROVE  \E f \in 0..(Len(msgs) - h) :
           /\ Parsed(buf) \in Seq(Msg) /\ Len(Parsed(buf)) = f
           /\ \A k \in 1..f : Parsed(buf)[k] = msgs[h + k]
           /\ Framed(Remain(buf) \o rest, msgs, h + f, whole)
<1>1. PICK off : /\ Offsets(off, msgs) /\ Covers(buf \o rest, msgs, h, off)
                 /\ whole => Len(buf \o rest) = off[Len(msgs)] - off[h]
  BY DEF Framed
<1>2. Covers(buf, msgs, h, off) BY <1>1, CoversPrefix
<1> DEFINE L == Len(msgs)
           B == Len(buf)
           P(k) == off[h + k] - off[h]
           e == FrameEnd(buf)
<1>3. L \in Nat /\ B \in Nat /\ h \in Nat /\ MagicSize \in Nat \ {0} BY LenProperties, Constants
<1>4. PICK f \in 0..(L - h) : /\ f <= B /\ P(f) <= B
                              /\ \A k \in 0..f : e[k] = P(k)
                              /\ \A k \in f..B : e[k] = P(f)
  BY <1>1, <1>2, FramesThere
<1>5. \A k \in 0..B : e[k] \in 0..B BY FrameEndBounds
<1> HIDE DEF e
<1>6. f \in Nat /\ f \in 0..B /\ f \in 0..f BY <1>3, <1>4
<1>7. ASSUME NEW k \in 1..f
      PROVE  /\ e[k] > e[k - 1] /\ k \in 1..B
             /\ Content(SubSeq(buf, e[k - 1] + MagicSize + 2, e[k])) = msgs[h + k]
             /\ msgs[h + k] \in Msg
  <2> DEFINE m == msgs[h + k]
             p == e[k - 1]
             z == m.size
             q == p + MagicSize + 1
             body == SubSeq(buf, p + MagicSize + 2, e[k])
  <2>1. /\ k \in 0..f /\ k - 1 \in 0..f /\ k \in 1..B /\ k - 1 \in 0..B /\ k \in 0..B
        /\ h + k \in h + 1 .. L /\ (h + k) - 1 = h + (k - 1)
    BY <1>3, <1>4, <1>6
  <2>2. p = off[(h + k) - 1] - off[h] /\ e[k] = off[h + k] - off[h] BY <1>4, <2>1
  <2>3. e[k] \in 0..B /\ p \in 0..B BY <1>5, <2>1
  <2>4. m \in Msg /\ z \in Nat \ {0} /\ e[k] = p + MagicSize + 1 + z
        /\ \A i \in 1..z : buf[p + MagicSize + 1 + i] = <<"body", m, i>>
    <3> HIDE DEF p
    <3>1. /\ msgs[h + k] \in Msg /\ msgs[h + k].size \in Nat \ {0}
          /\ off[h + k] - off[h] = p + MagicSize + 1 + msgs[h + k].size
          /\ off[h + k] - off[h] <= Len(buf)
              => \A i \in 1..msgs[h + k].size :
                   buf[p + MagicSize + 1 + i] = <<"body", msgs[h + k], i>>
      <4> DEFINE w == h + k
      <4>1. w \in h + 1 .. Len(msgs) /\ p = off[w - 1] - off[h] BY <2>1, <2>2
      <4> HIDE DEF w
      <4>2. Offsets(off, msgs) /\ Covers(buf, msgs, h, off) BY <1>1, <1>2
      <4>3. p \in Nat /\ msgs[w] \in Msg /\ msgs[w].size \in Nat \ {0} BY <4>1, <4>2, FrameThere
      <4>4. off[w] - off[h] = p + MagicSize + 1 + msgs[w].size BY <4>1, <4>2, FrameThere
      <4>5. ASSUME off[w] - off[h] <= Len(buf), NEW i \in 1..msgs[w].size
            PROVE  buf[p + MagicSize + 1 + i] = <<"body", msgs[w], i>>
        <5> DEFINE y == msgs[w].size
                   j == MagicSize + 1 + i
        <5>1. y \in Nat /\ i \in 1..y /\ p + MagicSize + 1 + y <= B
          BY <4>3, <4>4, <4>5
        <5> HIDE DEF y
        <5>2. j \in 1..(MagicSize + 1 + y) /\ p + j <= B /\ p + MagicSize + 1 + i = p + j
          BY <1>3, <4>3, <5>1
        <5>3. Size(msgs[w]) = MagicSize + 1 + y BY DEF Size, y
        <5>4. Frame(msgs[w])[MagicSize + 1 + i] = <<"body", msgs[w], i>>
          BY <4>3, <5>1, FrameBytes DEF y
        <5> HIDE DEF j
        <5>5. buf[p + j] = Frame(msgs[w])[j] BY <4>1, <4>2, <5>2, <5>3 DEF Covers
        <5> QED BY <5>2, <5>4, <5>5 DEF j
      <4> QED BY <4>3, <4>4, <4>5 DEF w
    <3>2. off[h + k] - off[h] <= Len(buf) BY <1>3, <2>2, <2>3
    <3> QED BY <2>2, <3>1, <3>2
  <2> HIDE DEF m, p, z
  <2>5. q \in Nat /\ q + z <= B /\ p + MagicSize + 2 = q + 1 /\ e[k] = q + z BY <1>3, <2>3, <2>4
  <2>6. body = SubSeq(buf, q + 1, q + z) BY <2>5
  <2>7. \A i \in (q + 1)..(q + z) : i \in 1..B /\ buf[i] \in Byte
    <3>1. \A i \in (q + 1)..(q + z) : i \in 1..B BY <1>3, <2>4, <2>5
    <3> QED BY <3>1, ElementOfSeq
  <2> HIDE DEF body
  <2>8. q + 1 <= q + z /\ (q + z) - (q + 1) + 1 = z /\ q + 1 \in Int /\ q + z \in Int
    <3> HIDE DEF q
    <3> QED BY <2>4, <2>5, SMTT(20)
  <2>9. /\ body \in Seq(Byte) /\ Len(body) = z
        /\ \A i \in 1..z : body[i] = buf[(q + 1) + i - 1]
    <3> HIDE DEF q
    <3> QED BY <2>6, <2>7, <2>8, SubSeqProperties
  <2>10. ASSUME NEW i \in 1..z PROVE body[i] = <<"body", m, i>>
    <3>1. (q + 1) + i - 1 = p + MagicSize + 1 + i BY <1>3, <2>3, <2>4, SMTT(20)
    <3> QED BY <2>4, <2>9, <3>1
  <2>11. Content(body) = m BY <2>4, <2>9, <2>10, ContentOf DEF z
  <2>12. e[k] > p BY <1>3, <2>3, <2>4
  <2> QED BY <2>1, <2>4, <2>11, <2>12 DEF m, p, body
<1>8. ASSUME NEW k \in 1..B, k \notin 1..f PROVE ~(e[k] > e[k - 1])
  <2>1. k \in f..B /\ k - 1 \in f..B /\ k \in 0..B BY <1>3, <1>4, <1>6, <1>8
  <2>2. e[k] = e[k - 1] /\ e[k] \in Nat BY <1>4, <1>5, <2>1
  <2> QED BY <2>2
<1>9. {k \in 1..B : e[k] > e[k - 1]} = 1..f BY <1>7, <1>8
<1>10. Cardinality(1..f) = f BY <1>6, FS_Interval
<1>11. Parsed(buf) = [k \in 1..f |-> Content(SubSeq(buf, e[k - 1] + MagicSize + 2, e[k]))]
  BY <1>9, <1>10 DEF Parsed, e
<1>12. Parsed(buf) = [k \in 1..f |-> msgs[h + k]] BY <1>7, <1>11
<1>13. Parsed(buf) \in Seq(Msg) /\ Len(Parsed(buf)) = f BY <1>6, <1>7, <1>12, IsASeq
<1> DEFINE r == Remain(buf)
           d == P(f)
           all == buf \o rest
           new == r \o rest
<1>14. e[B] = d BY <1>3, <1>4, <1>6
<1>15. d \in 0..B
  <2>1. B \in 0..B BY <1>3
  <2> QED BY <1>5, <1>14, <2>1
<1>16. r = SubSeq(buf, d + 1, B) BY <1>14 DEF Remain, e
<1> HIDE DEF d, r
<1>17. /\ r \in Seq(Byte) /\ Len(r) = B - d
       /\ \A i \in 1..(B - d) : r[i] = buf[d + i]
  <2>1. \A i \in (d + 1)..B : i \in 1..B /\ buf[i] \in Byte
    <3>1. \A i \in (d + 1)..B : i \in 1..B BY <1>3, <1>15
    <3> QED BY <3>1, ElementOfSeq
  <2>2. CASE d = B
    <3>1. r = << >> BY <1>3, <1>16, <2>2, SubSeqEmpty
    <3>2. B - d = 0 BY <1>3, <2>2
    <3> QED BY <3>1, <3>2, EmptySeq
  <2>3. CASE d # B
    <3>1. d + 1 <= B /\ B - (d + 1) + 1 = B - d /\ d + 1 \in Int /\ B \in Int BY <1>3, <1>15, <2>3
    <3>2. /\ r \in Seq(Byte) /\ Len(r) = B - d
          /\ \A i \in 1..(B - d) : r[i] = buf[(d + 1) + i - 1]
      BY <1>16, <2>1, <3>1, SubSeqProperties
    <3>3. \A i \in 1..(B - d) : (d + 1) + i - 1 = d + i BY <1>3, <1>15
    <3> QED BY <3>2, <3>3
  <2> QED BY <2>2, <2>3
<1>18. /\ Len(rest) \in Nat /\ Len(all) = B + Len(rest) /\ all \in Seq(Byte)
       /\ \A i \in 1..(B + Len(rest)) : all[i] = IF i <= B THEN buf[i] ELSE rest[i - B]
  BY ConcatProperties, LenProperties
<1>19. /\ new \in Seq(Byte) /\ Len(new) = (B - d) + Len(rest)
       /\ \A i \in 1..((B - d) + Len(rest)) : new[i] = IF i <= B - d THEN r[i] ELSE rest[i - (B - d)]
  <2>1. /\ r \o rest \in Seq(Byte) /\ Len(r \o rest) = Len(r) + Len(rest)
        /\ \A i \in 1..(Len(r) + Len(rest)) : (r \o rest)[i] = IF i <= Len(r) THEN r[i] ELSE rest[i - Len(r)]
    BY <1>17, ConcatProperties
  <2>2. Len(r) = B - d BY <1>17
  <2> HIDE DEF B
  <2> QED BY <2>1, <2>2
<1> HIDE DEF all, new
<1>20. Len(new) = Len(all) - d /\ Len(new) \in Nat /\ Len(all) \in Nat BY <1>3, <1>15, <1>18, <1>19
<1>21. ASSUME NEW j \in 1..Len(new) PROVE new[j] = all[d + j] /\ d + j <= Len(all)
  <2>1. j \in 1..((B - d) + Len(rest)) /\ d + j \in 1..(B + Len(rest)) BY <1>3, <1>15, <1>18, <1>19
  <2>2. CASE j <= B - d
    <3>1. j \in 1..(B - d) /\ d + j <= B BY <1>3, <1>15, <2>1, <2>2
    <3>2. new[j] = r[j] BY <1>19, <2>1, <2>2
    <3>3. r[j] = buf[d + j] BY <1>17, <3>1
    <3>4. all[d + j] = buf[d + j] BY <1>18, <2>1, <3>1
    <3> QED BY <1>18, <2>1, <3>2, <3>3, <3>4
  <2>3. CASE ~(j <= B - d)
    <3>1. ~(d + j <= B) /\ (d + j) - B = j - (B - d) BY <1>3, <1>15, <2>1, <2>3
    <3> QED BY <1>18, <1>19, <2>1, <2>3, <3>1
  <2> QED BY <2>2, <2>3
<1>22. /\ h + f \in 0..L /\ L \in h + f .. L /\ off[h] \in Nat /\ off[h + f] \in Nat /\ off[L] \in Nat
       /\ d = off[h + f] - off[h]
  <2>1. h + f \in 0..L /\ L \in h + f .. L /\ h + f \in h..L BY <1>3, <1>4
  <2> QED BY <1>1, <2>1, OffsetsGrow DEF d
<1>23. Covers(new, msgs, h + f, off)
  <2>1. ASSUME NEW k \in (h + f) + 1 .. L, NEW i \in 1..Size(msgs[k]),
               (off[k - 1] - off[h + f]) + i <= Len(new)
        PROVE  new[(off[k - 1] - off[h + f]) + i] = Frame(msgs[k])[i]
    <3> DEFINE j == (off[k - 1] - off[h + f]) + i
    <3>1. k \in 1..L /\ k - 1 \in (h + f)..L /\ k \in h + 1 .. L BY <1>3, <1>22
    <3>2. msgs[k] \in Msg BY <3>1, ElementOfSeq
    <3>3. Size(msgs[k]) \in Nat BY <3>2, SizeFacts
    <3>4. off[h + f] + ((k - 1) - (h + f)) <= off[k - 1] /\ off[k - 1] \in Nat
      BY <1>1, <1>22, <3>1, OffsetsGrow
    <3>5. off[k - 1] >= off[h + f]
      <4> DEFINE x == off[h + f]
                 y == off[k - 1]
                 u == h + f
      <4>1. x + ((k - 1) - u) <= y /\ x \in Nat /\ y \in Nat /\ (k - 1) - u \in Nat
        BY <1>3, <1>22, <3>1, <3>4
      <4> HIDE DEF x, y, u
      <4> QED BY <4>1 DEF x, y
    <3>6. i \in Nat /\ i >= 1 BY <3>3
    <3>7. j \in Nat /\ j >= 1 /\ d + j = (off[k - 1] - off[h]) + i
      <4> DEFINE x == off[h + f]
                 y == off[k - 1]
                 z == off[h]
      <4>1. y >= x /\ x \in Nat /\ y \in Nat /\ z \in Nat /\ d = x - z /\ j = (y - x) + i
        BY <1>22, <3>4, <3>5
      <4> HIDE DEF x, y, z, j
      <4>2. j \in Nat /\ j >= 1 /\ d + j = (y - z) + i BY <3>6, <4>1
      <4> QED BY <4>2 DEF y, z
    <3>8. d + j = (off[k - 1] - off[h]) + i BY <3>7
    <3> HIDE DEF j
    <3>9. j \in 1..Len(new) BY <1>20, <2>1, <3>7 DEF j
    <3>10. new[j] = all[d + j] /\ d + j <= Len(all) BY <1>21, <3>9
    <3>11. all[d + j] = Frame(msgs[k])[i] BY <1>1, <3>1, <3>8, <3>10 DEF Covers, all
    <3> QED BY <3>10, <3>11 DEF j
  <2>2. Len(new) <= off[L] - off[h + f]
    <3>1. Len(all) <= off[L] - off[h] BY <1>1 DEF Covers, all
    <3> QED BY <1>20, <1>22, <3>1, SMTT(20)
  <2> QED BY <2>1, <2>2 DEF Covers
<1>24. whole => Len(new) = off[L] - off[h + f]
  <2>1. whole => Len(all) = off[L] - off[h] BY <1>1 DEF all
  <2> QED BY <1>20, <1>22, <2>1, SMTT(20)
<1>25. Framed(new, msgs, h + f, whole) BY <1>1, <1>23, <1>24 DEF Framed
<1> QED BY <1>4, <1>12, <1>13, <1>25 DEF new, r

-----------------------------------------------------------------------------
(* Messages in a queue *)

\* The messages of connection c in q, by their places.  done of them were handled
\* before, and what came up to the h-th waits: in the order of msgs among those for
\* one layer, the later ones for BL2 before the earlier ones for BL3.
Waiting(q, c) == {i \in DOMAIN q : q[i].type \in MsgEvents /\ q[i].conn = c}
InLine(q, c, done, msgs, h) ==
  /\ \A i \in Waiting(q, c) :
       /\ q[i].msg.num \in done + 1 .. h /\ q[i].msg = msgs[q[i].msg.num]
       /\ q[i].type = "PeerRecvNotifyPeerId" => q[i].msg.num = 1
  /\ \A k \in done + 1 .. h : \E i \in Waiting(q, c) : q[i].msg.num = k
  /\ \A i, j \in Waiting(q, c) :
       i < j => IF Rank(q[i]) = Rank(q[j]) THEN q[i].msg.num < q[j].msg.num
                                           ELSE q[j].msg.num < q[i].msg.num

\* Where the elements of a queue of L + 1 stand in r, after its head was handled.
Places(q, evs, r, L) ==
  /\ DOMAIN q = 1..(L + 1) /\ Head(q) = q[1]
  /\ DOMAIN evs = 1..Len(evs) /\ Len(evs) \in Nat /\ DOMAIN r = 1..(L + Len(evs))
  /\ \A j \in 1..L : j + 1 \in DOMAIN q /\ r[j] = q[j + 1]
  /\ \A k \in 1..Len(evs) : L + k \in DOMAIN r /\ r[L + k] = evs[k]
  /\ \A j \in DOMAIN r : j \notin 1..L => j - L \in 1..Len(evs)

\* The rest of the queue moves up by one and what a handler pushes follows it.
LEMMA PoppedPlaces ==
  ASSUME NEW S, NEW q \in Seq(S), q # << >>, NEW evs \in Seq(S), NEW r, r = Tail(q) \o evs
  PROVE  r \in Seq(S) /\ \E L \in Nat : Places(q, evs, r, L)
<1>1. Len(q) \in Nat \ {0} /\ DOMAIN q = 1..Len(q) /\ Len(evs) \in Nat /\ DOMAIN evs = 1..Len(evs)
  BY EmptySeq, LenProperties
<1>2. Tail(q) \in Seq(S) /\ Len(Tail(q)) = Len(q) - 1 /\ \A i \in 1..Len(Tail(q)) : Tail(q)[i] = q[i + 1]
  BY HeadTailProperties
<1>3. /\ r \in Seq(S) /\ Len(r) = Len(Tail(q)) + Len(evs)
      /\ \A i \in 1..Len(Tail(q)) + Len(evs) :
           r[i] = IF i <= Len(Tail(q)) THEN Tail(q)[i] ELSE evs[i - Len(Tail(q))]
  BY <1>2, ConcatProperties
<1>4. DOMAIN r = 1..Len(r) BY <1>3, LenProperties
<1>5. Head(q) = q[1] OBVIOUS
<1> DEFINE L == Len(q) - 1
<1>6. L \in Nat /\ L + 1 = Len(q) BY <1>1
<1>7. Len(Tail(q)) = L /\ DOMAIN r = 1..(L + Len(evs)) BY <1>2, <1>3, <1>4
<1>8. ASSUME NEW j \in 1..L PROVE j + 1 \in DOMAIN q /\ r[j] = q[j + 1]
  <2>1. j + 1 \in 1..Len(q) /\ j \in 1..(L + Len(evs)) /\ j <= L BY <1>1, <1>6
  <2> HIDE DEF L
  <2> QED BY <1>1, <1>2, <1>3, <1>7, <2>1
<1>9. ASSUME NEW k \in 1..Len(evs) PROVE L + k \in DOMAIN r /\ r[L + k] = evs[k]
  <2>1. L + k \in 1..(L + Len(evs)) /\ ~(L + k <= L) /\ (L + k) - L = k BY <1>1, <1>6
  <2> HIDE DEF L
  <2> QED BY <1>3, <1>7, <2>1
<1>10. ASSUME NEW j \in DOMAIN r, j \notin 1..L PROVE j - L \in 1..Len(evs)
  <2> HIDE DEF L
  <2> QED BY <1>1, <1>6, <1>7, <1>10
<1> HIDE DEF L
<1>11. Places(q, evs, r, L) BY <1>1, <1>5, <1>6, <1>7, <1>8, <1>9, <1>10 DEF Places
<1> QED BY <1>3, <1>6, <1>11

\* An event that is no message of the connection goes, and none of it comes.
LEMMA InLinePop ==
  ASSUME NEW c, NEW q \in Seq(Event), q # << >>, NEW evs \in Seq(Event), NEW r, r = Tail(q) \o evs,
         Head(q).type \notin MsgEvents \/ Head(q).conn # c,
         \A k \in DOMAIN evs : evs[k].type \notin MsgEvents \/ evs[k].conn # c,
         NEW done, NEW msgs, NEW h, InLine(q, c, done, msgs, h)
  PROVE  InLine(r, c, done, msgs, h)
<1>1. PICK L \in Nat :
        /\ DOMAIN q = 1..(L + 1) /\ Head(q) = q[1] /\ DOMAIN evs = 1..Len(evs)
        /\ DOMAIN r = 1..(L + Len(evs)) /\ Len(evs) \in Nat
        /\ \A j \in 1..L : j + 1 \in DOMAIN q /\ r[j] = q[j + 1]
        /\ \A k \in 1..Len(evs) : L + k \in DOMAIN r /\ r[L + k] = evs[k]
        /\ \A j \in DOMAIN r : j \notin 1..L => j - L \in 1..Len(evs)
  <2>1. PICK L \in Nat : Places(q, evs, r, L) BY PoppedPlaces
  <2> QED BY <2>1 DEF Places
<1>2. L \in Nat OBVIOUS
<1>3. ASSUME NEW j \in Waiting(r, c) PROVE j \in 1..L /\ j + 1 \in Waiting(q, c) /\ r[j] = q[j + 1]
  <2>1. j \in DOMAIN r /\ r[j].type \in MsgEvents /\ r[j].conn = c BY DEF Waiting
  <2>2. j \in 1..L
    <3> SUFFICES ASSUME j \notin 1..L PROVE FALSE OBVIOUS
    <3>1. j - L \in 1..Len(evs) BY <1>1, <2>1
    <3>2. L + (j - L) = j BY <1>1, <1>2, <2>1
    <3>3. r[j] = evs[j - L] BY <1>1, <3>1, <3>2
    <3> QED BY <1>1, <2>1, <3>1, <3>3
  <2> QED BY <1>1, <2>1, <2>2 DEF Waiting
<1>4. ASSUME NEW i \in Waiting(q, c) PROVE i - 1 \in Waiting(r, c) /\ r[i - 1] = q[i]
  <2>1. i \in DOMAIN q /\ q[i].type \in MsgEvents /\ q[i].conn = c BY DEF Waiting
  <2>2. i # 1 BY <1>1, <2>1
  <2>3. i - 1 \in 1..L /\ (i - 1) + 1 = i /\ i - 1 \in DOMAIN r BY <1>1, <1>2, <2>1, <2>2
  <2>4. r[i - 1] = q[i] BY <1>1, <2>3
  <2> QED BY <2>1, <2>3, <2>4 DEF Waiting
<1>5. ASSUME NEW i \in Waiting(r, c)
      PROVE  /\ r[i].msg.num \in done + 1 .. h /\ r[i].msg = msgs[r[i].msg.num]
             /\ r[i].type = "PeerRecvNotifyPeerId" => r[i].msg.num = 1
  <2>1. i + 1 \in Waiting(q, c) /\ r[i] = q[i + 1] BY <1>3
  <2> DEFINE e == q[i + 1]
  <2>2. /\ e.msg.num \in done + 1 .. h /\ e.msg = msgs[e.msg.num]
        /\ e.type = "PeerRecvNotifyPeerId" => e.msg.num = 1
    BY <2>1 DEF InLine
  <2>3. r[i] = e BY <2>1
  <2> HIDE DEF e
  <2> QED BY <2>2, <2>3
<1>6. ASSUME NEW k \in done + 1 .. h PROVE \E i \in Waiting(r, c) : r[i].msg.num = k
  <2>1. PICK i \in Waiting(q, c) : q[i].msg.num = k BY DEF InLine
  <2>2. i - 1 \in Waiting(r, c) /\ r[i - 1] = q[i] BY <1>4
  <2> QED BY <2>1, <2>2
<1>7. ASSUME NEW i \in Waiting(r, c), NEW j \in Waiting(r, c), i < j
      PROVE  IF Rank(r[i]) = Rank(r[j]) THEN r[i].msg.num < r[j].msg.num ELSE r[j].msg.num < r[i].msg.num
  <2>1. i \in 1..L /\ i + 1 \in Waiting(q, c) /\ r[i] = q[i + 1] BY <1>3
  <2>2. j \in 1..L /\ j + 1 \in Waiting(q, c) /\ r[j] = q[j + 1] BY <1>3
  <2>3. i + 1 < j + 1 BY <1>2, <1>7, <2>1, <2>2
  <2>4. IF Rank(q[i + 1]) = Rank(q[j + 1]) THEN q[i + 1].msg.num < q[j + 1].msg.num
                                           ELSE q[j + 1].msg.num < q[i + 1].msg.num
    BY <2>1, <2>2, <2>3 DEF InLine
  <2> QED BY <2>1, <2>2, <2>4
<1> QED BY <1>5, <1>6, <1>7 DEF InLine

\* A message that waits is one that was sent, so another one may be sent.
LEMMA InLineGrow ==
  ASSUME NEW c, NEW q, NEW done \in Nat, NEW msgs \in Seq(Msg), NEW h \in done..Len(msgs), NEW m \in Msg,
         InLine(q, c, done, msgs, h)
  PROVE  InLine(q, c, done, Append(msgs, m), h)
<1>1. \A k \in 1..Len(msgs) : Append(msgs, m)[k] = msgs[k] BY AppendProperties
<1>2. Len(msgs) \in Nat BY LenProperties
<1>3. ASSUME NEW i \in Waiting(q, c) PROVE q[i].msg = Append(msgs, m)[q[i].msg.num]
  <2>1. q[i].msg.num \in done + 1 .. h /\ q[i].msg = msgs[q[i].msg.num] BY DEF InLine
  <2>2. q[i].msg.num \in 1..Len(msgs) BY <1>2, <2>1
  <2> QED BY <1>1, <2>1, <2>2
<1> QED BY <1>3 DEF InLine

\* The message that is handled is the next one of its connection: at the head of the
\* queue of BL3 stands the first of what waits there, and nothing waits for BL2; and
\* an introduction is the first message of all.
LEMMA InLineHandle ==
  ASSUME NEW c, NEW q \in Seq(Event), q # << >>, NEW r, r = Tail(q) \o << >>,
         \A i, j \in DOMAIN q : i < j => Rank(q[i]) <= Rank(q[j]),
         Head(q).type \in {"PeerRecvNotifyPeerId", "ProtocolRecvMsg"}, Head(q).conn = c,
         NEW done \in Nat, NEW msgs, NEW h \in Nat, InLine(q, c, done, msgs, h)
  PROVE  done + 1 <= h /\ Head(q).msg = msgs[done + 1] /\ InLine(r, c, done + 1, msgs, h)
<1> DEFINE e == q[1]
<1>1. PICK L \in Nat :
        /\ DOMAIN q = 1..(L + 1) /\ Head(q) = e /\ DOMAIN r = 1..L
        /\ \A j \in 1..L : j + 1 \in DOMAIN q /\ r[j] = q[j + 1]
  <2>1. << >> \in Seq(Event) /\ Len(<< >>) = 0 BY EmptySeq
  <2>2. PICK L \in Nat :
          /\ DOMAIN q = 1..(L + 1) /\ Head(q) = e /\ DOMAIN r = 1..(L + Len(<< >>))
          /\ \A j \in 1..L : j + 1 \in DOMAIN q /\ r[j] = q[j + 1]
    <3>1. PICK L \in Nat : Places(q, << >>, r, L) BY <2>1, PoppedPlaces
    <3> QED BY <3>1 DEF Places
  <2>3. L + Len(<< >>) = L BY <2>1
  <2> QED BY <2>2, <2>3
<1>2. L \in Nat /\ 1 \in DOMAIN q BY <1>1
<1>3. 1 \in Waiting(q, c) /\ e.type \in {"PeerRecvNotifyPeerId", "ProtocolRecvMsg"}
  BY <1>1, <1>2 DEF Waiting, MsgEvents
<1>4. ASSUME NEW i \in Waiting(q, c)
      PROVE  /\ q[i].msg.num \in done + 1 .. h /\ q[i].msg = msgs[q[i].msg.num]
             /\ q[i].type = "PeerRecvNotifyPeerId" => q[i].msg.num = 1
             /\ i \in DOMAIN q /\ i \in 1..(L + 1) /\ q[i] \in Event
             /\ q[i].type \in MsgEvents /\ q[i].conn = c
  <2>1. i \in 1..(L + 1) /\ i \in DOMAIN q /\ q[i].type \in MsgEvents /\ q[i].conn = c
    BY <1>1 DEF Waiting
  <2>2. q[i] \in Event BY <2>1, ElementOfSeq
  <2> QED BY <2>1, <2>2 DEF InLine
<1>5. ASSUME NEW i \in Waiting(q, c), i # 1
      PROVE  e.msg.num < q[i].msg.num \/ (q[i].msg.num < e.msg.num /\ Rank(e) # Rank(q[i]))
  <2>1. 1 < i BY <1>4, <1>5
  <2>2. IF Rank(q[1]) = Rank(q[i]) THEN q[1].msg.num < q[i].msg.num ELSE q[i].msg.num < q[1].msg.num
    BY <1>3, <2>1 DEF InLine
  <2> QED BY <2>2
<1> HIDE DEF e
<1>6. e.msg.num \in done + 1 .. h /\ e.msg = msgs[e.msg.num]
      /\ (e.type = "PeerRecvNotifyPeerId" => e.msg.num = 1) /\ e \in Event
  BY <1>3, <1>4 DEF e
<1>7. e.msg.num = done + 1
  <2>1. PICK i \in Waiting(q, c) : q[i].msg.num = done + 1
    <3>1. done + 1 \in done + 1 .. h BY <1>6
    <3> QED BY <3>1 DEF InLine
  <2>2. CASE i = 1 BY <2>1, <2>2 DEF e
  <2>3. CASE i # 1 /\ e.type = "PeerRecvNotifyPeerId" BY <1>6, <2>3
  <2>4. CASE i # 1 /\ e.type = "ProtocolRecvMsg"
    <3>1. Rank(e) = 3 BY <1>6, <2>4, RankFacts
    <3>2. Rank(e) <= Rank(q[i]) BY <1>2, <1>4, <2>4 DEF e
    <3>3. Rank(q[i]) \in 0..3 BY <1>4, RankFacts
    <3>4. e.msg.num < q[i].msg.num
      <4>1. Rank(e) = Rank(q[i]) BY <3>1, <3>2, <3>3
      <4> QED BY <1>5, <2>4, <4>1
    <3> QED BY <1>6, <2>1, <3>4
  <2> QED BY <1>3, <2>2, <2>3, <2>4
<1>8. ASSUME NEW i \in Waiting(q, c), i # 1 PROVE q[i].msg.num \in (done + 1) + 1 .. h
  <2>1. q[i].msg.num \in done + 1 .. h BY <1>4
  <2>2. q[i].msg.num # done + 1 BY <1>5, <1>7, <1>8, <2>1
  <2> DEFINE x == q[i].msg.num
  <2> HIDE DEF x
  <2>3. x \in done + 1 .. h /\ x # done + 1 BY <2>1, <2>2 DEF x
  <2>4. x \in (done + 1) + 1 .. h BY <2>3
  <2> QED BY <2>4 DEF x
<1>9. ASSUME NEW j \in Waiting(r, c) PROVE j \in 1..L /\ j + 1 \in Waiting(q, c) /\ j + 1 # 1 /\ r[j] = q[j + 1]
  <2>1. j \in 1..L /\ r[j].type \in MsgEvents /\ r[j].conn = c BY <1>1 DEF Waiting
  <2>2. j + 1 \in DOMAIN q /\ r[j] = q[j + 1] /\ j + 1 # 1 BY <1>1, <1>2, <2>1
  <2> QED BY <2>1, <2>2 DEF Waiting
<1>10. ASSUME NEW i \in Waiting(q, c), i # 1 PROVE i - 1 \in Waiting(r, c) /\ r[i - 1] = q[i]
  <2>1. i \in 1..(L + 1) /\ q[i].type \in MsgEvents /\ q[i].conn = c BY <1>4
  <2>2. i - 1 \in 1..L /\ (i - 1) + 1 = i BY <1>2, <1>10, <2>1
  <2>3. r[i - 1] = q[i] /\ i - 1 \in DOMAIN r BY <1>1, <2>2
  <2> QED BY <2>1, <2>3 DEF Waiting
<1>11. ASSUME NEW i \in Waiting(r, c)
       PROVE  /\ r[i].msg.num \in (done + 1) + 1 .. h /\ r[i].msg = msgs[r[i].msg.num]
              /\ r[i].type = "PeerRecvNotifyPeerId" => r[i].msg.num = 1
  <2>1. i + 1 \in Waiting(q, c) /\ i + 1 # 1 /\ r[i] = q[i + 1] BY <1>9
  <2> DEFINE x == q[i + 1]
  <2>2. /\ x.msg.num \in (done + 1) + 1 .. h /\ x.msg = msgs[x.msg.num]
        /\ x.type = "PeerRecvNotifyPeerId" => x.msg.num = 1
    BY <1>4, <1>8, <2>1
  <2>3. r[i] = x BY <2>1
  <2> HIDE DEF x
  <2> QED BY <2>2, <2>3
<1>12. ASSUME NEW k \in (done + 1) + 1 .. h PROVE \E i \in Waiting(r, c) : r[i].msg.num = k
  <2>1. k \in done + 1 .. h /\ k # done + 1 OBVIOUS
  <2>2. PICK i \in Waiting(q, c) : q[i].msg.num = k BY <2>1 DEF InLine
  <2>3. i # 1 BY <1>7, <2>1, <2>2 DEF e
  <2>4. i - 1 \in Waiting(r, c) /\ r[i - 1] = q[i] BY <1>10, <2>3
  <2> QED BY <2>2, <2>4
<1>13. ASSUME NEW i \in Waiting(r, c), NEW j \in Waiting(r, c), i < j
       PROVE  IF Rank(r[i]) = Rank(r[j]) THEN r[i].msg.num < r[j].msg.num ELSE r[j].msg.num < r[i].msg.num
  <2>1. i \in 1..L /\ i + 1 \in Waiting(q, c) /\ r[i] = q[i + 1] BY <1>9
  <2>2. j \in 1..L /\ j + 1 \in Waiting(q, c) /\ r[j] = q[j + 1] BY <1>9
  <2>3. i + 1 < j + 1 BY <1>2, <1>13, <2>1, <2>2
  <2>4. IF Rank(q[i + 1]) = Rank(q[j + 1]) THEN q[i + 1].msg.num < q[j + 1].msg.num
                                           ELSE q[j + 1].msg.num < q[i + 1].msg.num
    BY <2>1, <2>2, <2>3 DEF InLine
  <2> QED BY <2>1, <2>2, <2>4
<1>14. InLine(r, c, done + 1, msgs, h) BY <1>11, <1>12, <1>13 DEF InLine
<1> QED BY <1>1, <1>6, <1>7, <1>14

\* BL2 passes the first of what it has on to BL3, where all that waits is earlier.
LEMMA InLineForward ==
  ASSUME NEW c, NEW q \in Seq(Event), q # << >>, NEW f \in Event, NEW r, r = Tail(q) \o << f >>,
         \A i, j \in DOMAIN q : i < j => Rank(q[i]) <= Rank(q[j]),
         Head(q).type = "PeerRecvMsg", Head(q).conn = c,
         f.type = "ProtocolRecvMsg", f.conn = c, f.msg = Head(q).msg,
         NEW done, NEW msgs, NEW h, InLine(q, c, done, msgs, h)
  PROVE  InLine(r, c, done, msgs, h)
<1> DEFINE e == q[1]
<1>1. PICK L \in Nat :
        /\ DOMAIN q = 1..(L + 1) /\ Head(q) = e /\ DOMAIN r = 1..(L + 1)
        /\ \A j \in 1..L : j + 1 \in DOMAIN q /\ r[j] = q[j + 1]
        /\ r[L + 1] = f
  <2>1. << f >> \in Seq(Event) /\ Len(<< f >>) = 1 /\ << f >>[1] = f /\ 1 \in 1..Len(<< f >>) OBVIOUS
  <2>2. PICK L \in Nat :
          /\ DOMAIN q = 1..(L + 1) /\ Head(q) = e /\ DOMAIN r = 1..(L + Len(<< f >>))
          /\ \A j \in 1..L : j + 1 \in DOMAIN q /\ r[j] = q[j + 1]
          /\ \A k \in 1..Len(<< f >>) : r[L + k] = << f >>[k]
    <3>1. PICK L \in Nat : Places(q, << f >>, r, L) BY <2>1, PoppedPlaces
    <3> QED BY <3>1 DEF Places
  <2>3. r[L + 1] = f BY <2>1, <2>2
  <2> QED BY <2>1, <2>2, <2>3
<1>2. L \in Nat /\ 1 \in DOMAIN q /\ L + 1 \in DOMAIN r BY <1>1
<1>3. 1 \in Waiting(q, c) /\ e.type = "PeerRecvMsg" BY <1>1, <1>2 DEF Waiting, MsgEvents
<1>4. ASSUME NEW i \in Waiting(q, c)
      PROVE  /\ q[i].msg.num \in done + 1 .. h /\ q[i].msg = msgs[q[i].msg.num]
             /\ q[i].type = "PeerRecvNotifyPeerId" => q[i].msg.num = 1
             /\ i \in DOMAIN q /\ i \in 1..(L + 1) /\ q[i] \in Event
             /\ q[i].type \in MsgEvents /\ q[i].conn = c
  <2>1. i \in 1..(L + 1) /\ i \in DOMAIN q /\ q[i].type \in MsgEvents /\ q[i].conn = c
    BY <1>1 DEF Waiting
  <2>2. q[i] \in Event BY <2>1, ElementOfSeq
  <2> QED BY <2>1, <2>2 DEF InLine
<1>5. ASSUME NEW i \in Waiting(q, c), i # 1
      PROVE  IF Rank(q[i]) = 3 THEN q[i].msg.num < e.msg.num ELSE e.msg.num < q[i].msg.num
  <2>1. 1 < i BY <1>4, <1>5
  <2>2. IF Rank(q[1]) = Rank(q[i]) THEN q[1].msg.num < q[i].msg.num ELSE q[i].msg.num < q[1].msg.num
    BY <1>3, <2>1 DEF InLine
  <2>3. e \in Event BY <1>3, <1>4
  <2>4. Rank(e) = 2 BY <1>3, <2>3, RankFacts
  <2>5. Rank(q[i]) \in 0..3 BY <1>4, RankFacts
  <2>6. Rank(e) <= Rank(q[i]) BY <1>2, <1>4, <2>1
  <2>7. Rank(q[i]) = 2 \/ Rank(q[i]) = 3 BY <2>4, <2>5, <2>6
  <2> QED BY <2>2, <2>4, <2>7
<1>6. Rank(f) = 3 BY RankFacts
<1> HIDE DEF e
<1>7. ASSUME NEW j \in Waiting(r, c)
      PROVE  \/ j \in 1..L /\ j + 1 \in Waiting(q, c) /\ j + 1 # 1 /\ r[j] = q[j + 1]
             \/ j = L + 1 /\ r[j] = f
  <2>1. j \in 1..(L + 1) /\ r[j].type \in MsgEvents /\ r[j].conn = c BY <1>1 DEF Waiting
  <2>2. CASE j = L + 1 BY <1>1, <2>2
  <2>3. CASE j # L + 1
    <3>1. j \in 1..L BY <1>2, <2>1, <2>3
    <3>2. j + 1 \in DOMAIN q /\ r[j] = q[j + 1] /\ j + 1 # 1 BY <1>1, <1>2, <3>1
    <3> QED BY <2>1, <3>1, <3>2 DEF Waiting
  <2> QED BY <2>2, <2>3
<1>8. ASSUME NEW i \in Waiting(q, c), i # 1 PROVE i - 1 \in Waiting(r, c) /\ r[i - 1] = q[i]
  <2>1. i \in 1..(L + 1) /\ q[i].type \in MsgEvents /\ q[i].conn = c BY <1>4
  <2>2. i - 1 \in 1..L /\ (i - 1) + 1 = i /\ i - 1 \in 1..(L + 1) BY <1>2, <1>8, <2>1
  <2>3. r[i - 1] = q[i] /\ i - 1 \in DOMAIN r BY <1>1, <2>2
  <2> QED BY <2>1, <2>3 DEF Waiting
<1>9. L + 1 \in Waiting(r, c)
  <2>1. L + 1 \in DOMAIN r /\ r[L + 1] = f BY <1>1, <1>2
  <2> QED BY <2>1 DEF Waiting, MsgEvents
<1>10. /\ f.msg = e.msg /\ f.msg.num \in done + 1 .. h /\ f.msg = msgs[f.msg.num]
       /\ f.type # "PeerRecvNotifyPeerId"
  <2>1. f.msg = e.msg BY <1>1
  <2>2. e.msg.num \in done + 1 .. h /\ e.msg = msgs[e.msg.num] BY <1>3, <1>4 DEF e
  <2> QED BY <2>1, <2>2
<1>11. ASSUME NEW i \in Waiting(r, c)
       PROVE  /\ r[i].msg.num \in done + 1 .. h /\ r[i].msg = msgs[r[i].msg.num]
              /\ r[i].type = "PeerRecvNotifyPeerId" => r[i].msg.num = 1
  <2>1. CASE i = L + 1 /\ r[i] = f BY <1>10, <2>1
  <2>2. CASE i + 1 \in Waiting(q, c) /\ r[i] = q[i + 1]
    <3> DEFINE x == q[i + 1]
    <3>1. /\ x.msg.num \in done + 1 .. h /\ x.msg = msgs[x.msg.num]
          /\ x.type = "PeerRecvNotifyPeerId" => x.msg.num = 1
      BY <1>4, <2>2
    <3>2. r[i] = x BY <2>2
    <3> HIDE DEF x
    <3> QED BY <3>1, <3>2
  <2> QED BY <1>7, <2>1, <2>2
<1>12. ASSUME NEW k \in done + 1 .. h PROVE \E i \in Waiting(r, c) : r[i].msg.num = k
  <2>1. PICK i \in Waiting(q, c) : q[i].msg.num = k BY DEF InLine
  <2>2. CASE i = 1
    <3>1. r[L + 1].msg.num = k BY <1>1, <1>10, <2>1, <2>2 DEF e
    <3> QED BY <1>9, <3>1
  <2>3. CASE i # 1
    <3>1. i - 1 \in Waiting(r, c) /\ r[i - 1] = q[i] BY <1>8, <2>3
    <3> QED BY <2>1, <3>1
  <2> QED BY <2>2, <2>3
<1>13. ASSUME NEW i \in Waiting(r, c), NEW j \in Waiting(r, c), i < j
       PROVE  IF Rank(r[i]) = Rank(r[j]) THEN r[i].msg.num < r[j].msg.num ELSE r[j].msg.num < r[i].msg.num
  <2>1. i \in 1..(L + 1) /\ j \in 1..(L + 1) BY <1>1 DEF Waiting
  <2>2. i \in 1..L /\ i + 1 \in Waiting(q, c) /\ i + 1 # 1 /\ r[i] = q[i + 1]
    <3>1. i # L + 1 BY <1>2, <1>13, <2>1
    <3> QED BY <1>7, <3>1
  <2>3. CASE j = L + 1
    <3>1. r[j] = f BY <1>1, <2>3
    <3>2. IF Rank(q[i + 1]) = 3 THEN q[i + 1].msg.num < e.msg.num ELSE e.msg.num < q[i + 1].msg.num
      BY <1>5, <2>2
    <3>3. r[j].msg.num = e.msg.num /\ Rank(r[j]) = 3 BY <1>6, <1>10, <3>1
    <3> QED BY <2>2, <3>2, <3>3
  <2>4. CASE j # L + 1
    <3>1. j \in 1..L /\ j + 1 \in Waiting(q, c) /\ r[j] = q[j + 1] BY <1>7, <2>4
    <3>2. i + 1 < j + 1 BY <1>2, <1>13, <2>1, <2>2
    <3>3. IF Rank(q[i + 1]) = Rank(q[j + 1]) THEN q[i + 1].msg.num < q[j + 1].msg.num
                                             ELSE q[j + 1].msg.num < q[i + 1].msg.num
      BY <2>2, <3>1, <3>2 DEF InLine
    <3> QED BY <2>2, <3>1, <3>3
  <2> QED BY <2>3, <2>4
<1> QED BY <1>11, <1>12, <1>13 DEF InLine

\* What is read goes to BL2 when nothing of the connection waits.
LEMMA InLineRead ==
  ASSUME NEW c, NEW q \in Seq(Event), q # << >>, NEW evs \in Seq(Event), NEW r, r = Tail(q) \o evs,
         Waiting(q, c) = {},
         NEW done \in Nat, NEW h \in Nat, done <= h, NEW msgs, InLine(q, c, done, msgs, h),
         NEW f \in Nat, Len(evs) = f,
         \A k \in 1..f :
           /\ evs[k].type \in {"PeerRecvNotifyPeerId", "PeerRecvMsg"} /\ evs[k].conn = c
           /\ evs[k].msg = msgs[h + k] /\ msgs[h + k].num = h + k
           /\ evs[k].type = "PeerRecvNotifyPeerId" => evs[k].msg.num = 1
  PROVE  h = done /\ InLine(r, c, done, msgs, h + f)
<1>1. PICK L \in Nat :
        /\ DOMAIN q = 1..(L + 1) /\ DOMAIN r = 1..(L + f)
        /\ \A j \in 1..L : j + 1 \in DOMAIN q /\ r[j] = q[j + 1]
        /\ \A k \in 1..f : L + k \in DOMAIN r /\ r[L + k] = evs[k]
        /\ \A j \in DOMAIN r : j \notin 1..L => j - L \in 1..f
  <2>1. PICK L \in Nat :
          /\ DOMAIN q = 1..(L + 1) /\ DOMAIN r = 1..(L + Len(evs))
          /\ \A j \in 1..L : j + 1 \in DOMAIN q /\ r[j] = q[j + 1]
          /\ \A k \in 1..Len(evs) : L + k \in DOMAIN r /\ r[L + k] = evs[k]
          /\ \A j \in DOMAIN r : j \notin 1..L => j - L \in 1..Len(evs)
    <3>1. PICK L \in Nat : Places(q, evs, r, L) BY PoppedPlaces
    <3> QED BY <3>1 DEF Places
  <2> QED BY <2>1
<1>2. L \in Nat OBVIOUS
<1>3. h = done
  <2> SUFFICES ASSUME h # done PROVE FALSE OBVIOUS
  <2>1. h \in done + 1 .. h OBVIOUS
  <2>2. PICK i \in Waiting(q, c) : q[i].msg.num = h BY <2>1 DEF InLine
  <2> QED OBVIOUS
<1>4. ASSUME NEW j \in Waiting(r, c)
      PROVE  j - L \in 1..f /\ L + (j - L) = j /\ r[j] = evs[j - L]
  <2>1. j \in DOMAIN r /\ r[j].type \in MsgEvents /\ r[j].conn = c /\ j \in 1..(L + f)
    BY <1>1 DEF Waiting
  <2>2. j \notin 1..L
    <3> SUFFICES ASSUME j \in 1..L PROVE FALSE OBVIOUS
    <3>1. j + 1 \in DOMAIN q /\ r[j] = q[j + 1] BY <1>1
    <3>2. j + 1 \in Waiting(q, c) BY <2>1, <3>1 DEF Waiting
    <3> QED BY <3>2
  <2>3. j - L \in 1..f /\ L + (j - L) = j BY <1>1, <1>2, <2>1, <2>2
  <2>4. r[L + (j - L)] = evs[j - L] BY <1>1, <2>3
  <2> QED BY <2>3, <2>4
<1>5. ASSUME NEW k \in 1..f PROVE L + k \in Waiting(r, c) /\ r[L + k].msg.num = h + k
  <2>1. L + k \in DOMAIN r /\ r[L + k] = evs[k] BY <1>1
  <2>2. evs[k].type \in MsgEvents /\ evs[k].conn = c /\ evs[k].msg.num = h + k
    <3>1. evs[k].msg = msgs[h + k] /\ msgs[h + k].num = h + k OBVIOUS
    <3> QED BY <3>1 DEF MsgEvents
  <2> QED BY <2>1, <2>2 DEF Waiting
<1>6. ASSUME NEW i \in Waiting(r, c)
      PROVE  /\ r[i].msg.num \in done + 1 .. h + f /\ r[i].msg = msgs[r[i].msg.num]
             /\ r[i].type = "PeerRecvNotifyPeerId" => r[i].msg.num = 1
             /\ r[i].msg.num = h + (i - L) /\ i - L \in 1..f /\ Rank(r[i]) = 2
  <2> DEFINE k == i - L
  <2>1. k \in 1..f /\ r[i] = evs[k] BY <1>4
  <2> HIDE DEF k
  <2>2. evs[k] \in Event BY <2>1, ElementOfSeq
  <2>3. Rank(evs[k]) = 2
    <3>1. evs[k].type \in {"PeerSocketConnect", "PeerSocketClose", "PeerRecvMsg", "PeerRecvNotifyPeerId"}
      BY <2>1
    <3> QED BY <2>2, <3>1, RankFacts
  <2>4. /\ evs[k].msg = msgs[h + k] /\ evs[k].msg.num = h + k
        /\ evs[k].type = "PeerRecvNotifyPeerId" => evs[k].msg.num = 1
    BY <2>1
  <2>5. h + k \in done + 1 .. h + f BY <1>3, <2>1
  <2>6. r[i].msg.num \in done + 1 .. h + f /\ r[i].msg = msgs[r[i].msg.num] BY <2>1, <2>4, <2>5
  <2>7. (r[i].type = "PeerRecvNotifyPeerId" => r[i].msg.num = 1) /\ r[i].msg.num = h + k /\ Rank(r[i]) = 2
    BY <2>1, <2>3, <2>4
  <2> QED BY <2>1, <2>6, <2>7 DEF k
<1>7. ASSUME NEW k \in done + 1 .. h + f PROVE \E i \in Waiting(r, c) : r[i].msg.num = k
  <2>1. k - h \in 1..f /\ h + (k - h) = k BY <1>3
  <2>2. L + (k - h) \in Waiting(r, c) /\ r[L + (k - h)].msg.num = k BY <1>5, <2>1
  <2> QED BY <2>2
<1>8. ASSUME NEW i \in Waiting(r, c), NEW j \in Waiting(r, c), i < j
      PROVE  IF Rank(r[i]) = Rank(r[j]) THEN r[i].msg.num < r[j].msg.num ELSE r[j].msg.num < r[i].msg.num
  <2>1. r[i].msg.num = h + (i - L) /\ Rank(r[i]) = 2 /\ r[j].msg.num = h + (j - L) /\ Rank(r[j]) = 2
    BY <1>6
  <2>2. i \in Int /\ j \in Int BY <1>1 DEF Waiting
  <2>3. h + (i - L) < h + (j - L) BY <1>2, <1>8, <2>2
  <2> QED BY <2>1, <2>3
<1> QED BY <1>3, <1>6, <1>7, <1>8 DEF InLine

-----------------------------------------------------------------------------
(* The invariant of the streams *)

\* The end of n of connection c is not a data socket yet; it has a socket; it has
\* none any more.
NotYet(n, c) ==
  \/ conn[c].to = n /\ ~conn[c].accepted
  \/ \E fd \in FD : sock[n][fd].type = "connect" /\ ConnOf(n, fd) = c
Open(n, c) == \E fd \in FD : sock[n][fd].type # "none" /\ ConnOf(n, fd) = c
Gone(n, c) == ~Open(n, c) /\ (conn[c].to = n => conn[c].accepted)

\* b is what n has read of c and not handed on, if n still reads; or what n has still
\* to write.
In(n, c, b) ==
  \/ NotYet(n, c) /\ b = << >>
  \/ \E fd \in FD : Mapped(n, fd) /\ ConnOf(n, fd) = c /\ b = recvBuff[n][fd]
HasOut(n, fd, c) == sock[n][fd].type \in {"data", "closing"} /\ ConnOf(n, fd) = c
Out(n, c, b) ==
  \/ \E fd \in FD : HasOut(n, fd, c) /\ b = sock[n][fd].send
  \/ (\A fd \in FD : ~HasOut(n, fd, c)) /\ b = << >>

\* No connection of a node with itself, and a closed end has no socket.
EndsFit == \A c \in DOMAIN conn : conn[c].from # conn[c].to
ClosedFit ==
  \A c \in DOMAIN conn : \A n \in Node : Running(n) /\ n \in conn[c].closed => Gone(n, c)

\* Nothing was sent before there was a connection, or to be handled by an end that
\* is not there yet.
UnusedFit ==
  \A s \in Stream :
    s[1] \notin DOMAIN conn => sent[s] = << >> /\ handled[s] = << >> /\ wire[s] = << >>
NothingYet(c, n, y) ==
  NotYet(n, c) /\ y # n => /\ handled[<<c, n>>] = << >> /\ sent[<<c, y>>] = << >>
                           /\ Waiting(queue[n], c) = {}
NotYetFit ==
  \A c \in DOMAIN conn : \A n, y \in {conn[c].from, conn[c].to} : NothingYet(c, n, y)

\* Only an end of a connection has messages of it.
StrangersFit ==
  \A c \in DOMAIN conn : \A n \in Node :
    Waiting(queue[n], c) # {} => n \in {conn[c].from, conn[c].to}

\* Messages are numbered as they are sent.
NumbersFit ==
  \A s \in Stream : \A k \in DOMAIN sent[s] :
    sent[s][k].num = k /\ sent[s][k].conn = s[1] /\ sent[s][k].size \in Sizes

\* Where what n was sent on c is, when the first h messages have been read: those
\* not handled in its queue, the others as frames in the receive buffer, on the wire
\* and in the send buffer, some bytes at the end missing if the sender is gone.
Lined(n, c, h) == InLine(queue[n], c, Len(handled[<<c, n>>]), sent[<<c, n>>], h)
Bytes(n, y, c, h) ==
  \A i, o \in Seq(Byte) :
    In(n, c, i) /\ Out(y, c, o)
      => Framed((i \o wire[<<c, n>>]) \o o, sent[<<c, n>>], h, ~Gone(y, c))
Flow(n, y, c) ==
  \E h \in Len(handled[<<c, n>>])..Len(sent[<<c, n>>]) : Lined(n, c, h) /\ Bytes(n, y, c, h)
FlowsFit ==
  \A c \in DOMAIN conn : \A n, y \in {conn[c].from, conn[c].to} :
    y # n /\ Running(n) /\ <<c, n>> \notin tainted => Flow(n, y, c)

SmallInv == EndsFit /\ ClosedFit /\ UnusedFit /\ NotYetFit /\ StrangersFit
StreamInv == SmallInv /\ NumbersFit /\ FlowsFit

\* The two ends of a connection.
LEMMA EndFacts ==
  ASSUME TypeOK, EndsFit, NEW c \in DOMAIN conn, NEW n \in {conn[c].from, conn[c].to}
  PROVE  /\ c \in 1..MaxConn /\ conn[c] \in Connection /\ n \in Node /\ Far(c, n) \in Node
         /\ Far(c, n) # n /\ Far(c, n) \in {conn[c].from, conn[c].to} /\ Far(c, Far(c, n)) = n
         /\ <<c, n>> \in Stream
         /\ \A y \in {conn[c].from, conn[c].to} : y # n => y = Far(c, n)
<1>1. DOMAIN conn = 1..Len(conn) /\ Len(conn) \in Nat /\ Len(conn) <= MaxConn BY LenProperties DEF TypeOK
<1>2. c \in 1..MaxConn BY <1>1, Constants
<1>3. conn[c] \in Connection BY <1>1, ElementOfSeq DEF TypeOK
<1>4. n \in Node /\ Far(c, n) \in Node BY <1>3 DEF Far, Connection
<1>5. Far(c, n) # n /\ Far(c, n) \in {conn[c].from, conn[c].to} /\ Far(c, Far(c, n)) = n
  BY DEF Far, EndsFit
<1>6. \A y \in {conn[c].from, conn[c].to} : y # n => y = Far(c, n) BY DEF Far
<1> QED BY <1>2, <1>3, <1>4, <1>5, <1>6 DEF Stream

\* The types of a stream.
LEMMA StreamTypes ==
  ASSUME TypeOK, NumbersFit, NEW s \in Stream
  PROVE  /\ sent[s] \in Seq(Msg) /\ Len(sent[s]) \in Nat /\ DOMAIN sent[s] = 1..Len(sent[s])
         /\ handled[s] \in Seq(Message) /\ Len(handled[s]) \in Nat /\ wire[s] \in Seq(Byte)
<1>1. sent[s] \in Seq(Message) /\ handled[s] \in Seq(Message) /\ wire[s] \in Seq(Byte)
  BY DEF TypeOK, Pipe
<1>2. Len(sent[s]) \in Nat /\ DOMAIN sent[s] = 1..Len(sent[s]) /\ Len(handled[s]) \in Nat
  BY <1>1, LenProperties
<1>3. ASSUME NEW k \in 1..Len(sent[s]) PROVE sent[s][k] \in Msg
  <2>1. sent[s][k] \in Message BY <1>1, ElementOfSeq
  <2>2. sent[s][k].size \in Sizes BY <1>2 DEF NumbersFit
  <2> QED BY <2>1, <2>2 DEF Msg
<1>4. sent[s] \in Seq(Msg)
  <2>1. sent[s] = [k \in 1..Len(sent[s]) |-> sent[s][k]] BY <1>1, LenProperties
  <2> QED BY <1>2, <1>3, <2>1, IsASeq
<1> QED BY <1>1, <1>2, <1>4

\* What n has of connection c stays as it is.
SameEnd(n, c) ==
  /\ conn'[c].to = conn[c].to /\ conn'[c].accepted = conn[c].accepted
  /\ \A fd \in FD :
       \/ sock'[n][fd] = sock[n][fd] /\ recvBuff'[n][fd] = recvBuff[n][fd]
       \/ /\ sock[n][fd].type # "none" => sock[n][fd].conn # c
          /\ sock'[n][fd].type # "none" => sock'[n][fd].conn # c

\* Then what n has read and has to write stays, too.
LEMMA SameEndKept ==
  ASSUME NEW n, NEW c, SameEnd(n, c)
  PROVE  /\ Open(n, c)' <=> Open(n, c)
         /\ NotYet(n, c)' <=> NotYet(n, c)
         /\ Gone(n, c)' <=> Gone(n, c)
         /\ \A b : In(n, c, b)' <=> In(n, c, b)
         /\ \A b : Out(n, c, b)' <=> Out(n, c, b)
<1>1. Open(n, c)' <=> Open(n, c) BY DEF SameEnd, Open, ConnOf
<1>2. NotYet(n, c)' <=> NotYet(n, c) BY DEF SameEnd, NotYet, ConnOf
<1>3. Gone(n, c)' <=> Gone(n, c) BY <1>1 DEF SameEnd, Gone
<1>4. \A b : In(n, c, b)' <=> In(n, c, b) BY <1>2 DEF SameEnd, In, ConnOf, Mapped
<1>5. \A fd \in FD : /\ HasOut(n, fd, c)' <=> HasOut(n, fd, c)
                     /\ HasOut(n, fd, c) => sock'[n][fd].send = sock[n][fd].send
  BY DEF SameEnd, HasOut, ConnOf
<1>6. \A b : Out(n, c, b)' <=> Out(n, c, b) BY <1>5 DEF Out
<1> QED BY <1>1, <1>2, <1>3, <1>4, <1>6

\* A step that opens no socket keeps what the invariant says of the ends.
LEMMA CalmKeeps ==
  ASSUME TypeOK, SmallInv,
         DOMAIN conn' = DOMAIN conn,
         \A c \in DOMAIN conn : /\ conn'[c].from = conn[c].from /\ conn'[c].to = conn[c].to
                                /\ conn'[c].accepted = conn[c].accepted,
         \A m \in Node, fd \in FD :
           \/ sock'[m][fd].type = "none"
           \/ /\ sock[m][fd].type # "none" /\ sock'[m][fd].conn = sock[m][fd].conn
              /\ sock'[m][fd].type = "connect" => sock[m][fd].type = "connect",
         \A m \in Node : Running(m)' => Running(m),
         \A c \in DOMAIN conn : \A m \in Node :
           Running(m)' /\ m \in conn'[c].closed => m \in conn[c].closed \/ Gone(m, c)',
         \A s \in Stream : s[1] \notin DOMAIN conn =>
           sent'[s] = sent[s] /\ handled'[s] = handled[s] /\ wire'[s] \in {wire[s], << >>},
         \A c \in DOMAIN conn : \A m, y \in {conn[c].from, conn[c].to} :
           NotYet(m, c) /\ y # m => /\ handled'[<<c, m>>] = handled[<<c, m>>]
                                    /\ sent'[<<c, y>>] = sent[<<c, y>>],
         \A c \in DOMAIN conn : \A m \in Node :
           /\ m \in {conn[c].from, conn[c].to} => NotYet(m, c)
           /\ Waiting(queue[m], c) = {}
           => Waiting(queue'[m], c) = {}
  PROVE  SmallInv'
<1> USE DEF SmallInv
<1>1. ASSUME NEW c \in DOMAIN conn, NEW m \in Node PROVE Open(m, c)' => Open(m, c)
  BY <1>1 DEF Open, ConnOf
<1>2. ASSUME NEW c \in DOMAIN conn, NEW m \in Node PROVE NotYet(m, c)' => NotYet(m, c)
  BY <1>2 DEF NotYet, ConnOf
<1>3. ASSUME NEW c \in DOMAIN conn, NEW m \in Node PROVE Gone(m, c) => Gone(m, c)'
  BY <1>1, <1>3 DEF Gone
<1>4. EndsFit' BY DEF EndsFit
<1>5. ClosedFit' BY <1>3 DEF ClosedFit
<1>6. UnusedFit' BY DEF UnusedFit
<1>7. ASSUME NEW c \in DOMAIN conn, NEW n \in {conn[c].from, conn[c].to}, NotYet(n, c)'
      PROVE  NotYet(n, c)
  <2>1. n \in Node BY EndFacts
  <2> QED BY <1>2, <1>7, <2>1
<1>8. NotYetFit'
  <2> SUFFICES ASSUME NEW c \in DOMAIN conn', NEW n \in {conn'[c].from, conn'[c].to},
                      NEW y \in {conn'[c].from, conn'[c].to}
               PROVE  NothingYet(c, n, y)'
    BY DEF NotYetFit
  <2> SUFFICES ASSUME NotYet(n, c)', y # n
               PROVE  /\ handled'[<<c, n>>] = << >> /\ sent'[<<c, y>>] = << >>
                      /\ Waiting(queue'[n], c) = {}
    BY DEF NothingYet
  <2>1. c \in DOMAIN conn /\ n \in {conn[c].from, conn[c].to} /\ y \in {conn[c].from, conn[c].to}
    OBVIOUS
  <2>2. NotYet(n, c) BY <1>7, <2>1
  <2>3. n \in Node BY <2>1, EndFacts
  <2>4. handled[<<c, n>>] = << >> /\ sent[<<c, y>>] = << >> /\ Waiting(queue[n], c) = {}
    BY <2>1, <2>2 DEF NotYetFit, NothingYet
  <2> QED BY <2>1, <2>2, <2>3, <2>4
<1>9. StrangersFit'
  <2> SUFFICES ASSUME NEW c \in DOMAIN conn, NEW n \in Node, Waiting(queue'[n], c) # {}
               PROVE  n \in {conn'[c].from, conn'[c].to}
    BY DEF StrangersFit
  <2> QED BY DEF StrangersFit
<1> QED BY <1>4, <1>5, <1>6, <1>8, <1>9

-----------------------------------------------------------------------------
(* Streams in a step *)

\* Whatever a socket has to send are bytes.
LEMMA SomeOut ==
  ASSUME TypeOK, NEW y \in Node, NEW c
  PROVE  \E o \in Seq(Byte) : Out(y, c, o)
<1>1. CASE \A fd \in FD : ~HasOut(y, fd, c)
  <2>1. << >> \in Seq(Byte) BY EmptySeq
  <2> QED BY <1>1, <2>1 DEF Out
<1>2. CASE \E fd \in FD : HasOut(y, fd, c)
  <2>1. PICK fd \in FD : HasOut(y, fd, c) BY <1>2
  <2>2. sock[y][fd] \in Socket BY DEF TypeOK
  <2>3. sock[y][fd].send \in Seq(Byte) BY <2>2 DEF Socket
  <2> QED BY <2>1, <2>3 DEF Out
<1> QED BY <1>1, <1>2

\* Bytes of a stream with the same wire, whose ends have nothing else.
LEMMA BytesKept ==
  ASSUME NEW n, NEW y, NEW c, NEW h, Bytes(n, y, c, h),
         wire'[<<c, n>>] = wire[<<c, n>>], sent'[<<c, n>>] = sent[<<c, n>>],
         \A b : In(n, c, b)' => In(n, c, b),
         \A b : Out(y, c, b)' => Out(y, c, b),
         Gone(y, c)' <=> Gone(y, c)
  PROVE  Bytes(n, y, c, h)'
BY DEF Bytes

\* The far end closes: of what it had to send nothing will come.
LEMMA BytesEnded ==
  ASSUME TypeOK, NEW n, NEW y \in Node, NEW c, <<c, n>> \in Stream,
         sent[<<c, n>>] \in Seq(Msg), NEW h \in 0..Len(sent[<<c, n>>]), Bytes(n, y, c, h),
         wire'[<<c, n>>] = wire[<<c, n>>], sent'[<<c, n>>] = sent[<<c, n>>],
         \A b : In(n, c, b)' => In(n, c, b),
         \A b : Out(y, c, b)' => b = << >>,
         Gone(y, c)'
  PROVE  Bytes(n, y, c, h)'
<1> DEFINE w == wire[<<c, n>>]
           msgs == sent[<<c, n>>]
<1>1. ASSUME NEW i \in Seq(Byte), NEW o \in Seq(Byte), In(n, c, i)', Out(y, c, o)'
      PROVE  Framed((i \o w) \o o, msgs, h, FALSE)
  <2>1. o = << >> /\ In(n, c, i) BY <1>1
  <2>2. PICK p \in Seq(Byte) : Out(y, c, p) BY SomeOut
  <2>3. Framed((i \o w) \o p, msgs, h, ~Gone(y, c)) BY <2>1, <2>2 DEF Bytes
  <2>4. i \o w \in Seq(Byte)
    <3>1. w \in Seq(Byte) BY DEF TypeOK, Pipe
    <3> HIDE DEF w
    <3> QED BY <3>1, ConcatProperties
  <2>5. Framed(i \o w, msgs, h, FALSE) BY <2>3, <2>4, FramedPrefix
  <2>6. (i \o w) \o << >> = i \o w BY <2>4, ConcatEmptySeq
  <2> QED BY <2>1, <2>5, <2>6
<1> QED BY <1>1 DEF Bytes

\* An end that reads no more.
LEMMA BytesUnread ==
  ASSUME NEW n, NEW y, NEW c, NEW h, \A b : ~In(n, c, b)'
  PROVE  Bytes(n, y, c, h)'
BY DEF Bytes

\* A stream on which nothing is sent or handled.
LEMMA FlowKept ==
  ASSUME NEW n, NEW y, NEW c, Flow(n, y, c),
         sent'[<<c, n>>] = sent[<<c, n>>], handled'[<<c, n>>] = handled[<<c, n>>],
         \A h \in Len(handled[<<c, n>>])..Len(sent[<<c, n>>]) :
           /\ Lined(n, c, h) => Lined(n, c, h)'
           /\ Bytes(n, y, c, h) => Bytes(n, y, c, h)'
  PROVE  Flow(n, y, c)'
<1>1. PICK h \in Len(handled[<<c, n>>])..Len(sent[<<c, n>>]) : Lined(n, c, h) /\ Bytes(n, y, c, h)
  BY DEF Flow
<1>2. Lined(n, c, h)' /\ Bytes(n, y, c, h)' BY <1>1
<1>3. h \in Len(handled'[<<c, n>>])..Len(sent'[<<c, n>>]) OBVIOUS
<1> QED BY <1>2, <1>3 DEF Flow

\* The streams after a step in which connections stay, one by one.
LEMMA FlowsStep ==
  ASSUME FlowsFit, DOMAIN conn' = DOMAIN conn,
         \A c \in DOMAIN conn : conn'[c].from = conn[c].from /\ conn'[c].to = conn[c].to,
         tainted \subseteq tainted', \A m \in Node : Running(m)' => Running(m),
         TypeOK, EndsFit,
         \A c \in DOMAIN conn : \A n, y \in {conn[c].from, conn[c].to} :
           y # n /\ Running(n)' /\ <<c, n>> \notin tainted' /\ Flow(n, y, c) => Flow(n, y, c)'
  PROVE  FlowsFit'
<1> SUFFICES ASSUME NEW c \in DOMAIN conn', NEW n \in {conn'[c].from, conn'[c].to},
                    NEW y \in {conn'[c].from, conn'[c].to}, y # n, Running(n)', <<c, n>> \notin tainted'
             PROVE  Flow(n, y, c)'
  BY DEF FlowsFit
<1>1. c \in DOMAIN conn /\ n \in {conn[c].from, conn[c].to} /\ y \in {conn[c].from, conn[c].to}
  OBVIOUS
<1>2. n \in Node BY <1>1, EndFacts
<1>3. Running(n) /\ <<c, n>> \notin tainted BY <1>2
<1>4. Flow(n, y, c) BY <1>1, <1>3 DEF FlowsFit
<1> QED BY <1>1, <1>4

\* No message of c comes into the queue or goes.
LEMMA LinedPop ==
  ASSUME queue \in [Node -> Seq(Event)], NEW k \in Node, queue[k] # << >>, NEW evs \in Seq(Event),
         queue' = Popped(k, evs), NEW n \in Node, NEW c,
         n = k => /\ Head(queue[k]).type \notin MsgEvents \/ Head(queue[k]).conn # c
                  /\ \A j \in DOMAIN evs : evs[j].type \notin MsgEvents \/ evs[j].conn # c,
         sent'[<<c, n>>] = sent[<<c, n>>], handled'[<<c, n>>] = handled[<<c, n>>]
  PROVE  \A h : Lined(n, c, h) => Lined(n, c, h)'
<1>1. CASE n # k
  <2>1. queue'[n] = queue[n] BY <1>1 DEF Popped
  <2> QED BY <2>1 DEF Lined
<1>2. CASE n = k
  <2>1. queue'[n] = Tail(queue[n]) \o evs BY <1>2 DEF Popped
  <2>2. queue[n] \in Seq(Event) OBVIOUS
  <2> QED BY <1>2, <2>1, <2>2, InLinePop DEF Lined
<1> QED BY <1>1, <1>2

\* Nor does one of a connection of which none waits.
LEMMA WaitingPop ==
  ASSUME queue \in [Node -> Seq(Event)], NEW k \in Node, queue[k] # << >>, NEW evs \in Seq(Event),
         queue' = Popped(k, evs), NEW n \in Node, NEW c,
         n = k => \A j \in DOMAIN evs : evs[j].type \notin MsgEvents \/ evs[j].conn # c,
         Waiting(queue[n], c) = {}
  PROVE  Waiting(queue'[n], c) = {}
<1>1. CASE n # k
  <2>1. queue'[n] = queue[n] BY <1>1 DEF Popped
  <2> QED BY <2>1
<1>2. CASE n = k
  <2>1. queue'[n] = Tail(queue[n]) \o evs BY <1>2 DEF Popped
  <2>2. queue[n] \in Seq(Event) OBVIOUS
  <2> DEFINE q == queue[n]
             r == queue'[n]
  <2>3. q # << >> /\ r = Tail(q) \o evs /\ q \in Seq(Event) BY <1>2, <2>1, <2>2
  <2>4. Waiting(q, c) = {} /\ \A j \in DOMAIN evs : evs[j].type \notin MsgEvents \/ evs[j].conn # c
    BY <1>2
  <2> HIDE DEF q, r
  <2>5. \A j \in DOMAIN r : \/ j + 1 \in DOMAIN q /\ r[j] = q[j + 1] /\ j < Len(q)
                            \/ \E m \in DOMAIN evs : r[j] = evs[m] /\ m = j - Len(q) + 1 /\ j >= Len(q)
    BY <2>3, PoppedElements
  <2>6. ASSUME NEW j \in Waiting(r, c) PROVE FALSE
    <3>1. j \in DOMAIN r /\ r[j].type \in MsgEvents /\ r[j].conn = c BY <2>6 DEF Waiting
    <3>2. CASE j + 1 \in DOMAIN q /\ r[j] = q[j + 1]
      <4>1. j + 1 \in Waiting(q, c) BY <3>1, <3>2 DEF Waiting
      <4> QED BY <2>4, <4>1
    <3>3. CASE \E m \in DOMAIN evs : r[j] = evs[m] BY <2>4, <3>1, <3>3
    <3> QED BY <2>5, <3>1, <3>2, <3>3
  <2> QED BY <2>6 DEF r
<1> QED BY <1>1, <1>2

\* A data socket, or one that was one, is not to come any more.
LEMMA ThereAlready ==
  ASSUME IndInv, NEW n \in Node, NEW fd \in FD, sock[n][fd].type \in {"data", "closing"}
  PROVE  /\ ~NotYet(n, ConnOf(n, fd)) /\ ConnOf(n, fd) \in DOMAIN conn
         /\ n \in {conn[ConnOf(n, fd)].from, conn[ConnOf(n, fd)].to}
<1>1. sock[n][fd].type # "none" OBVIOUS
<1>2. /\ ConnOf(n, fd) \in DOMAIN conn /\ n \in {conn[ConnOf(n, fd)].from, conn[ConnOf(n, fd)].to}
      /\ conn[ConnOf(n, fd)].to = n => conn[ConnOf(n, fd)].accepted
      /\ \A g \in FD : sock[n][g].type # "none" /\ ConnOf(n, g) = ConnOf(n, fd) => g = fd
  BY <1>1 DEF IndInv, SocketsFit
<1> QED BY <1>2 DEF NotYet

\* A step that leaves sockets, wires and what was sent alone.
LEMMA QuietKeeps ==
  ASSUME IndInv, StreamInv, UNCHANGED << status, conn, sock, recvBuff, wire, sent, tainted >>,
         \A s \in Stream : s[1] \notin DOMAIN conn => handled'[s] = handled[s],
         \A c \in DOMAIN conn : \A n \in {conn[c].from, conn[c].to} :
           NotYet(n, c) => handled'[<<c, n>>] = handled[<<c, n>>],
         \A c \in DOMAIN conn : \A m \in Node :
           /\ m \in {conn[c].from, conn[c].to} => NotYet(m, c)
           /\ Waiting(queue[m], c) = {}
           => Waiting(queue'[m], c) = {},
         \A c \in DOMAIN conn : \A n, y \in {conn[c].from, conn[c].to} :
           y # n /\ Running(n) /\ <<c, n>> \notin tainted /\ Flow(n, y, c) => Flow(n, y, c)'
  PROVE  StreamInv'
<1> USE DEF StreamInv
<1>1. \A m \in Node : Running(m)' <=> Running(m) BY DEF Running
<1>2. \A m \in Node, fd \in FD : sock'[m][fd].type # "none" => sock[m][fd].type # "none" OBVIOUS
<1>3. SmallInv'
  <2>1. \A c \in DOMAIN conn : \A m \in Node :
           Running(m)' /\ m \in conn'[c].closed => m \in conn[c].closed \/ Gone(m, c)'
    OBVIOUS
  <2> QED BY <1>1, <2>1, CalmKeeps DEF IndInv
<1>4. NumbersFit' BY DEF NumbersFit
<1>5. FlowsFit'
  <2>1. EndsFit /\ TypeOK BY DEF SmallInv, IndInv
  <2>2. \A c \in DOMAIN conn : \A n, y \in {conn[c].from, conn[c].to} :
          y # n /\ Running(n)' /\ <<c, n>> \notin tainted' /\ Flow(n, y, c) => Flow(n, y, c)'
    <3> SUFFICES ASSUME NEW c \in DOMAIN conn, NEW n \in {conn[c].from, conn[c].to},
                        NEW y \in {conn[c].from, conn[c].to},
                        y # n, Running(n)', <<c, n>> \notin tainted', Flow(n, y, c)
                 PROVE  Flow(n, y, c)'
      OBVIOUS
    <3>1. n \in Node BY <2>1, EndFacts
    <3>2. Running(n) /\ <<c, n>> \notin tainted BY <1>1, <3>1
    <3> QED BY <3>2
  <2>3. DOMAIN conn' = DOMAIN conn /\ tainted \subseteq tainted'
        /\ \A c \in DOMAIN conn : conn'[c].from = conn[c].from /\ conn'[c].to = conn[c].to
    OBVIOUS
  <2> QED BY <1>1, <2>1, <2>2, <2>3, FlowsStep
<1> QED BY <1>3, <1>4, <1>5

\* Bytes stay when sockets and wires do.
LEMMA BytesQuiet ==
  ASSUME UNCHANGED << conn, sock, recvBuff, wire, sent >>, NEW n, NEW y, NEW c, NEW h, Bytes(n, y, c, h)
  PROVE  Bytes(n, y, c, h)'
<1>1. \A b : In(n, c, b)' => In(n, c, b) BY DEF In, NotYet, ConnOf, Mapped
<1>2. \A b : Out(y, c, b)' => Out(y, c, b) BY DEF Out, HasOut, ConnOf
<1>3. Gone(y, c)' <=> Gone(y, c) BY DEF Gone, Open, ConnOf
<1> QED BY <1>1, <1>2, <1>3, BytesKept

\* A handler that only passes something on that is no message keeps the streams.
LEMMA IdleStreams ==
  ASSUME IndInv, StreamInv, NEW k \in Node, queue[k] # << >>, Head(queue[k]).type \notin MsgEvents,
         NEW evs \in Seq(Event), \A j \in DOMAIN evs : evs[j].type \notin MsgEvents,
         queue' = Popped(k, evs),
         UNCHANGED << status, conn, sock, recvBuff, wire, sent, handled, tainted >>
  PROVE  StreamInv'
<1>1. queue \in [Node -> Seq(Event)] BY DEF IndInv, TypeOK
<1>2. ASSUME NEW c \in DOMAIN conn, NEW m \in Node, Waiting(queue[m], c) = {}
      PROVE  Waiting(queue'[m], c) = {}
  BY <1>1, <1>2, WaitingPop
<1>3. ASSUME NEW c \in DOMAIN conn, NEW n \in {conn[c].from, conn[c].to}, NEW y, Flow(n, y, c)
      PROVE  Flow(n, y, c)'
  <2>1. n \in Node BY EndFacts DEF IndInv, StreamInv, SmallInv
  <2>2. \A h : Lined(n, c, h) => Lined(n, c, h)' BY <1>1, <2>1, LinedPop
  <2>3. \A h : Bytes(n, y, c, h) => Bytes(n, y, c, h)' BY BytesQuiet
  <2> QED BY <1>3, <2>2, <2>3, FlowKept
<1> QED BY <1>2, <1>3, QuietKeeps

\* MiningComplete does.
LEMMA MiningStreams ==
  ASSUME IndInv, StreamInv, NEW k \in Node, MiningComplete(k)
  PROVE  StreamInv'
<1>1. /\ queue[k] # << >> /\ Head(queue[k]).type \notin MsgEvents /\ queue' = Popped(k, << >>)
      /\ UNCHANGED << status, conn, sock, recvBuff, wire, sent, handled, tainted >>
  BY DEF MiningComplete, NextIs, ioVars, history, MsgEvents
<1>2. << >> \in Seq(Event) /\ DOMAIN << >> = {} BY EmptySeq
<1> QED BY <1>1, <1>2, IdleStreams

\* The event of a failed connect is no message.
LEMMA FailureEvent ==
  ASSUME NEW t \in Failures
  PROVE  /\ << [type |-> t] >> \in Seq(Event)
         /\ \A j \in DOMAIN << [type |-> t] >> : << [type |-> t] >>[j].type \notin MsgEvents
<1> DEFINE f == [type |-> t]
<1>1. f \in Event /\ f.type \notin MsgEvents BY DEF Event, Bare, Failures, MsgEvents
<1> HIDE DEF f
<1>2. DOMAIN << f >> = {1} /\ << f >>[1] = f /\ << f >> \in Seq(Event) BY <1>1
<1>3. << f >> \in Seq(Event) /\ \A j \in DOMAIN << f >> : << f >>[j].type \notin MsgEvents BY <1>1, <1>2
<1> QED BY <1>3 DEF f

\* ConnectFailedHandler keeps the streams.
LEMMA ConnectFailedStreams ==
  ASSUME IndInv, StreamInv, NEW k \in Node, ConnectFailedHandler(k)
  PROVE  StreamInv'
<1>1. PICK evs : evs = << [type |-> "PeerSocketConnectFailed"] >> OBVIOUS
<1>2. /\ queue[k] # << >> /\ Head(queue[k]).type \notin MsgEvents /\ queue' = Popped(k, evs)
      /\ UNCHANGED << status, conn, sock, recvBuff, wire, sent, handled, tainted >>
  BY <1>1 DEF ConnectFailedHandler, NextIs, ioVars, history, MsgEvents
<1>3. evs \in Seq(Event) /\ \A j \in DOMAIN evs : evs[j].type \notin MsgEvents
  BY <1>1, FailureEvent DEF Failures
<1> QED BY <1>2, <1>3, IdleStreams

\* PollAny does: it only fills a queue, and with no message.
LEMMA PollStreams ==
  ASSUME IndInv, StreamInv, NEW k \in Node, PollAny(k)
  PROVE  StreamInv'
<1>1. /\ queue[k] = << >> /\ UNCHANGED << status, conn, sock, recvBuff, wire, sent, handled, tainted >>
  BY DEF PollAny, Poll, Polls, ioVars, history
<1>2. \A m \in Node \ {k} : queue'[m] = queue[m]
  BY DEF PollAny, Poll, Polled, IndInv, TypeOK
<1>3. \A c : Waiting(queue[k], c) = {} BY <1>1 DEF Waiting
<1>4. \A j \in DOMAIN queue'[k] : queue'[k][j].type \notin MsgEvents BY PolledQueue DEF IndInv, TypeOK
<1>5. \A c : Waiting(queue'[k], c) = {} BY <1>4 DEF Waiting
<1>6. ASSUME NEW c \in DOMAIN conn, NEW m \in Node, Waiting(queue[m], c) = {}
      PROVE  Waiting(queue'[m], c) = {}
  BY <1>2, <1>5, <1>6
<1>7. ASSUME NEW c \in DOMAIN conn, NEW n \in {conn[c].from, conn[c].to}, NEW y, Flow(n, y, c)
      PROVE  Flow(n, y, c)'
  <2>1. n \in Node BY EndFacts DEF IndInv, StreamInv, SmallInv
  <2>2. ASSUME NEW h, Lined(n, c, h) PROVE Lined(n, c, h)'
    <3>1. CASE n = k
      <4> DEFINE q == queue[k]
                 r == queue'[k]
                 done == Len(handled[<<c, n>>])
                 msgs == sent[<<c, n>>]
      <4>1. InLine(q, c, done, msgs, h) /\ Waiting(q, c) = {} /\ Waiting(r, c) = {}
        BY <1>3, <1>5, <2>2, <3>1 DEF Lined
      <4>2. InLine(r, c, done, msgs, h)
        <5> HIDE DEF q, r, done, msgs
        <5> QED BY <4>1 DEF InLine
      <4> QED BY <1>1, <3>1, <4>2 DEF Lined
    <3>2. CASE n # k
      <4>1. queue'[n] = queue[n] BY <1>2, <2>1, <3>2
      <4> QED BY <1>1, <2>2, <4>1 DEF Lined
    <3> QED BY <3>1, <3>2
  <2>3. \A h : Bytes(n, y, c, h) => Bytes(n, y, c, h)' BY <1>1, BytesQuiet
  <2> QED BY <1>1, <1>7, <2>2, <2>3, FlowKept
<1> QED BY <1>1, <1>6, <1>7, QuietKeeps

\* A message at the head of a queue is one of a connection of this node.
LEMMA MessageFacts ==
  ASSUME IndInv, StreamInv, NEW k \in Node, Running(k), queue[k] # << >>,
         Head(queue[k]).type \in MsgEvents, NEW c, c = Head(queue[k]).conn
  PROVE  /\ c \in DOMAIN conn /\ k \in {conn[c].from, conn[c].to} /\ ~NotYet(k, c)
         /\ 1 \in Waiting(queue[k], c) /\ <<c, k>> \in Stream /\ Head(queue[k]).msg \in Message
         /\ queue[k] \in Seq(Event)
         /\ \A i, j \in DOMAIN queue[k] : i < j => Rank(queue[k][i]) <= Rank(queue[k][j])
<1>1. Head(queue[k]) \in Event /\ Head(queue[k]) = queue[k][1] /\ 1 \in DOMAIN queue[k] BY HeadFacts
<1>2. 1 \in Waiting(queue[k], c) BY <1>1 DEF Waiting
<1>3. c \in DOMAIN conn BY <1>1 DEF IndInv, QueueFit, MessagesFit
<1>4. k \in {conn[c].from, conn[c].to} BY <1>2, <1>3 DEF StreamInv, SmallInv, StrangersFit
<1>5. TypeOK /\ EndsFit BY DEF IndInv, StreamInv, SmallInv
<1>6. <<c, k>> \in Stream /\ Far(c, k) \in {conn[c].from, conn[c].to} /\ Far(c, k) # k
  BY <1>3, <1>4, <1>5, EndFacts
<1>7. ~NotYet(k, c) BY <1>2, <1>3, <1>4, <1>6 DEF StreamInv, SmallInv, NotYetFit, NothingYet
<1>8. Head(queue[k]).msg \in Message BY <1>1, EventFacts
<1>9. \A i, j \in DOMAIN queue[k] : i < j => Rank(queue[k][i]) <= Rank(queue[k][j])
  BY DEF IndInv, QueueFit, RanksFit
<1>10. queue[k] \in Seq(Event) BY <1>5 DEF TypeOK
<1> QED BY <1>2, <1>3, <1>4, <1>6, <1>7, <1>8, <1>9, <1>10

\* The message that is handled is the next one of its stream.
LEMMA HandledIsNext ==
  ASSUME IndInv, StreamInv, NEW k \in Node, Running(k), queue[k] # << >>,
         Head(queue[k]).type \in {"PeerRecvNotifyPeerId", "ProtocolRecvMsg"},
         NEW c, c = Head(queue[k]).conn, NEW y, Flow(k, y, c)
  PROVE  /\ Len(handled[<<c, k>>]) < Len(sent[<<c, k>>])
         /\ Head(queue[k]).msg = sent[<<c, k>>][Len(handled[<<c, k>>]) + 1]
         /\ queue' = Popped(k, << >>) /\ handled' = Handled(k) /\ sent' = sent
              /\ (\A h \in Len(handled[<<c, k>>])..Len(sent[<<c, k>>]) :
                    Bytes(k, y, c, h) => Bytes(k, y, c, h)')
            => Flow(k, y, c)'
<1> DEFINE e == Head(queue[k])
           s == <<c, k>>
           q == queue[k]
           r == Tail(q) \o << >>
           done == Len(handled[s])
           msgs == sent[s]
<1>1. /\ s \in Stream /\ q \in Seq(Event) /\ e.msg \in Message
      /\ \A i, j \in DOMAIN q : i < j => Rank(q[i]) <= Rank(q[j])
  BY MessageFacts DEF MsgEvents
<1>2. PICK h \in done..Len(msgs) : Lined(k, c, h) /\ Bytes(k, y, c, h) BY DEF Flow
<1>3. done \in Nat /\ Len(msgs) \in Nat /\ handled[s] \in Seq(Message) /\ handled \in [Stream -> Seq(Message)]
  BY <1>1, LenProperties DEF IndInv, TypeOK
<1>4. InLine(q, c, done, msgs, h) BY <1>2 DEF Lined
<1>5. q # << >> /\ Head(q).type \in {"PeerRecvNotifyPeerId", "ProtocolRecvMsg"} /\ Head(q).conn = c
      /\ h \in Nat
  BY <1>2, <1>3
<1>6. done + 1 <= h /\ e.msg = msgs[done + 1] /\ InLine(r, c, done + 1, msgs, h)
  <2> HIDE DEF q, done, msgs
  <2>1. /\ done + 1 <= h /\ Head(q).msg = msgs[done + 1] /\ InLine(r, c, done + 1, msgs, h)
    BY <1>1, <1>3, <1>4, <1>5, InLineHandle
  <2> QED BY <2>1 DEF q
<1>7. done < Len(msgs)
  <2> HIDE DEF done, msgs
  <2> QED BY <1>2, <1>3, <1>6
<1>8. ASSUME queue' = Popped(k, << >>), handled' = Handled(k), sent' = sent,
             \A g \in done..Len(msgs) : Bytes(k, y, c, g) => Bytes(k, y, c, g)'
      PROVE  Flow(k, y, c)'
  <2>1. queue'[k] = r BY <1>8 DEF Popped, IndInv, TypeOK
  <2>2. handled'[s] = Append(handled[s], e.msg) BY <1>1, <1>3, <1>8 DEF Handled
  <2>3. Len(handled'[s]) = done + 1
    <3> DEFINE d == handled[s]
               m == e.msg
    <3>1. d \in Seq(Message) /\ m \in Message BY <1>1, <1>3
    <3> HIDE DEF d, m
    <3>2. Len(Append(d, m)) = Len(d) + 1 BY <3>1, AppendProperties
    <3> QED BY <2>2, <3>2 DEF d, m
  <2>4. sent'[s] = msgs BY <1>8
  <2>5. Lined(k, c, h)' BY <1>6, <2>1, <2>3, <2>4 DEF Lined
  <2>6. Bytes(k, y, c, h)' BY <1>2, <1>8
  <2>7. h \in Len(handled'[s])..Len(sent'[s])
    <3> HIDE DEF done, msgs
    <3> QED BY <1>2, <1>3, <1>6, <2>3, <2>4
  <2> QED BY <2>5, <2>6, <2>7 DEF Flow
<1> QED BY <1>6, <1>7, <1>8

\* The streams after a message was handled.
LEMMA FlowHandled ==
  ASSUME IndInv, StreamInv, NEW k \in Node, Running(k), queue[k] # << >>,
         Head(queue[k]).type \in {"PeerRecvNotifyPeerId", "ProtocolRecvMsg"},
         queue' = Popped(k, << >>), handled' = Handled(k), sent' = sent,
         NEW c \in DOMAIN conn, NEW n \in {conn[c].from, conn[c].to}, NEW y, Flow(n, y, c),
         \A h \in Len(handled[<<c, n>>])..Len(sent[<<c, n>>]) : Bytes(n, y, c, h) => Bytes(n, y, c, h)'
  PROVE  Flow(n, y, c)'
<1>1. CASE n = k /\ c = Head(queue[k]).conn BY <1>1, HandledIsNext
<1>2. CASE ~(n = k /\ c = Head(queue[k]).conn)
  <2>1. n \in Node BY EndFacts DEF IndInv, StreamInv, SmallInv
  <2>2. queue \in [Node -> Seq(Event)] /\ << >> \in Seq(Event) /\ DOMAIN << >> = {}
    BY EmptySeq DEF IndInv, TypeOK
  <2>3. handled'[<<c, n>>] = handled[<<c, n>>]
    <3>1. <<c, n>> # <<Head(queue[k]).conn, k>> BY <1>2
    <3> QED BY <3>1 DEF Handled, IndInv, TypeOK
  <2>4. \A h : Lined(n, c, h) => Lined(n, c, h)' BY <1>2, <2>1, <2>2, <2>3, LinedPop
  <2> QED BY <2>3, <2>4, FlowKept
<1> QED BY <1>1, <1>2

\* What handling a message changes of the history.
LEMMA HandledElsewhere ==
  ASSUME IndInv, StreamInv, NEW k \in Node, Running(k), queue[k] # << >>,
         Head(queue[k]).type \in {"PeerRecvNotifyPeerId", "ProtocolRecvMsg"}, handled' = Handled(k)
  PROVE  /\ \A s \in Stream : s[1] \notin DOMAIN conn => handled'[s] = handled[s]
         /\ \A c \in DOMAIN conn : \A n \in {conn[c].from, conn[c].to} :
              NotYet(n, c) => handled'[<<c, n>>] = handled[<<c, n>>]
<1> DEFINE e == Head(queue[k])
<1>1. e.conn \in DOMAIN conn /\ ~NotYet(k, e.conn) BY MessageFacts DEF MsgEvents
<1>2. handled \in [Stream -> Seq(Message)] BY DEF IndInv, TypeOK
<1>3. \A s \in Stream : s # <<e.conn, k>> => handled'[s] = handled[s] BY <1>2 DEF Handled
<1>4. ASSUME NEW c \in DOMAIN conn, NEW n \in {conn[c].from, conn[c].to}, NotYet(n, c)
      PROVE  handled'[<<c, n>>] = handled[<<c, n>>]
  <2>1. <<c, n>> \in Stream BY EndFacts DEF IndInv, StreamInv, SmallInv
  <2>2. <<c, n>> # <<e.conn, k>> BY <1>1, <1>4
  <2> QED BY <1>3, <2>1, <2>2
<1>5. ASSUME NEW s \in Stream, s[1] \notin DOMAIN conn PROVE handled'[s] = handled[s]
  <2>1. s # <<e.conn, k>> BY <1>1, <1>5
  <2> QED BY <1>3, <2>1
<1> QED BY <1>4, <1>5

\* BL3's RecvMsgHandler keeps the streams.
LEMMA ProtocolRecvStreams ==
  ASSUME IndInv, StreamInv, NEW k \in Node, ProtocolRecvMsg(k)
  PROVE  StreamInv'
<1>1. /\ Running(k) /\ queue[k] # << >> /\ Head(queue[k]).type \in {"PeerRecvNotifyPeerId", "ProtocolRecvMsg"}
      /\ queue' = Popped(k, << >>) /\ handled' = Handled(k)
      /\ UNCHANGED << status, conn, sock, recvBuff, wire, sent, tainted >>
  BY DEF ProtocolRecvMsg, NextIs, ioVars
<1>2. queue \in [Node -> Seq(Event)] /\ << >> \in Seq(Event) /\ DOMAIN << >> = {}
  BY EmptySeq DEF IndInv, TypeOK
<1>3. ASSUME NEW c \in DOMAIN conn, NEW m \in Node, Waiting(queue[m], c) = {}
      PROVE  Waiting(queue'[m], c) = {}
  BY <1>1, <1>2, <1>3, WaitingPop
<1>4. ASSUME NEW c \in DOMAIN conn, NEW n \in {conn[c].from, conn[c].to}, NEW y, Flow(n, y, c)
      PROVE  Flow(n, y, c)'
  <2>1. \A h : Bytes(n, y, c, h) => Bytes(n, y, c, h)' BY <1>1, BytesQuiet
  <2> QED BY <1>1, <1>4, <2>1, FlowHandled
<1>5. /\ \A s \in Stream : s[1] \notin DOMAIN conn => handled'[s] = handled[s]
      /\ \A c \in DOMAIN conn : \A n \in {conn[c].from, conn[c].to} :
              NotYet(n, c) => handled'[<<c, n>>] = handled[<<c, n>>]
  BY <1>1, HandledElsewhere
<1> QED BY <1>1, <1>3, <1>4, <1>5, QuietKeeps

\* BL2's RecvMsgHandler does: a message stays in line behind the next layer.
LEMMA ForwardStreams ==
  ASSUME IndInv, StreamInv, NEW k \in Node, RecvMsgHandler(k)
  PROVE  StreamInv'
<1> DEFINE e == Head(queue[k])
           f == [e EXCEPT !.type = "ProtocolRecvMsg"]
<1>1. /\ Running(k) /\ queue[k] # << >> /\ e.type = "PeerRecvMsg"
      /\ queue' = Popped(k, << f >>)
      /\ UNCHANGED << status, conn, sock, recvBuff, wire, sent, handled, tainted >>
  BY DEF RecvMsgHandler, NextIs, ioVars, history
<1>2. e \in Event BY <1>1, HeadFacts
<1>3. f \in Event /\ f.type = "ProtocolRecvMsg" /\ f.conn = e.conn /\ f.msg = e.msg
  BY <1>1, <1>2 DEF Event, Bare, Mined, Failures, SocketEvents, MsgEvents
<1> DEFINE evs == << f >>
<1> HIDE DEF f
<1>4. evs \in Seq(Event) /\ \A j \in DOMAIN evs : evs[j].conn = e.conn
  <2>1. DOMAIN evs = {1} /\ evs[1] = f BY DEF evs
  <2> QED BY <1>3, <2>1
<1>5. /\ e.conn \in DOMAIN conn /\ 1 \in Waiting(queue[k], e.conn)
      /\ \A i, j \in DOMAIN queue[k] : i < j => Rank(queue[k][i]) <= Rank(queue[k][j])
  BY <1>1, MessageFacts DEF MsgEvents
<1>6. queue \in [Node -> Seq(Event)] BY DEF IndInv, TypeOK
<1>7. ASSUME NEW c \in DOMAIN conn, NEW m \in Node, Waiting(queue[m], c) = {}
      PROVE  Waiting(queue'[m], c) = {}
  <2>1. m = k => c # e.conn BY <1>5, <1>7
  <2>2. m = k => \A j \in DOMAIN evs : evs[j].type \notin MsgEvents \/ evs[j].conn # c BY <1>4, <2>1
  <2>3. queue' = Popped(k, evs) BY <1>1
  <2> HIDE DEF evs
  <2> QED BY <1>1, <1>4, <1>6, <1>7, <2>2, <2>3, WaitingPop
<1>8. ASSUME NEW c \in DOMAIN conn, NEW n \in {conn[c].from, conn[c].to}, NEW y, Flow(n, y, c)
      PROVE  Flow(n, y, c)'
  <2>1. \A h : Bytes(n, y, c, h) => Bytes(n, y, c, h)' BY <1>1, BytesQuiet
  <2>2. n \in Node BY EndFacts DEF IndInv, StreamInv, SmallInv
  <2>3. CASE n = k /\ c = e.conn
    <3>1. queue'[n] = Tail(queue[n]) \o << f >> /\ queue[n] \in Seq(Event)
      BY <1>1, <1>6, <2>2, <2>3 DEF Popped
    <3>2. ASSUME NEW h, Lined(n, c, h) PROVE Lined(n, c, h)'
      <4>1. InLine(queue[n], c, Len(handled[<<c, n>>]), sent[<<c, n>>], h) BY <3>2 DEF Lined
      <4>2. InLine(queue'[n], c, Len(handled[<<c, n>>]), sent[<<c, n>>], h)
        BY <1>1, <1>3, <1>5, <2>3, <3>1, <4>1, InLineForward
      <4> QED BY <1>1, <4>2 DEF Lined
    <3> QED BY <1>1, <1>8, <2>1, <3>2, FlowKept
  <2>4. CASE ~(n = k /\ c = e.conn)
    <3>1. n = k => e.conn # c /\ \A j \in DOMAIN evs : evs[j].conn # c BY <1>4, <2>4
    <3>2. queue' = Popped(k, evs) BY <1>1
    <3> HIDE DEF evs
    <3>3. \A h : Lined(n, c, h) => Lined(n, c, h)' BY <1>1, <1>4, <1>6, <2>2, <3>1, <3>2, LinedPop
    <3> QED BY <1>1, <1>8, <2>1, <3>3, FlowKept
  <2> QED BY <2>3, <2>4
<1> QED BY <1>1, <1>7, <1>8, QuietKeeps

\* A socket that goes: its end neither reads nor writes any more.
LEMMA GoneStreams ==
  ASSUME IndInv, StreamInv, NEW k \in Node, NEW fd \in FD, sock[k][fd].type # "none",
         NEW C, C = ConnOf(k, fd), CloseEnd(k, C), sock' = [sock EXCEPT ![k][fd] = NoSocket],
         UNCHANGED << status, recvBuff, sent, tainted >>,
         \A s \in Stream : s[1] \notin DOMAIN conn => handled'[s] = handled[s],
         \A c \in DOMAIN conn : \A n \in {conn[c].from, conn[c].to} :
           NotYet(n, c) => handled'[<<c, n>>] = handled[<<c, n>>],
         \A c \in DOMAIN conn : \A m \in Node : Waiting(queue[m], c) = {} => Waiting(queue'[m], c) = {},
         \A c \in DOMAIN conn : \A n, y \in {conn[c].from, conn[c].to} :
           /\ Flow(n, y, c)
           /\ \A h \in Len(handled[<<c, n>>])..Len(sent[<<c, n>>]) : Bytes(n, y, c, h) => Bytes(n, y, c, h)'
           => Flow(n, y, c)'
  PROVE  StreamInv'
<1>0. TypeOK /\ EndsFit /\ SmallInv /\ NumbersFit /\ FlowsFit BY DEF IndInv, StreamInv, SmallInv
<1>1. /\ conn' = ClosedEnds(k, {C}, wire) /\ wire' = [wire EXCEPT ![<<C, k>>] = << >>]
  BY DEF CloseEnd
<1>2. /\ DOMAIN conn' = DOMAIN conn
      /\ \A c \in DOMAIN conn : /\ conn'[c].from = conn[c].from /\ conn'[c].to = conn[c].to
                                /\ conn'[c].accepted = conn[c].accepted
  BY <1>0, <1>1, ClosedEndsFacts
<1>3. sock[k][fd].type # "none" OBVIOUS
<1>4. /\ C \in DOMAIN conn /\ k \in {conn[C].from, conn[C].to} /\ (conn[C].to = k => conn[C].accepted)
      /\ \A g \in FD : sock[k][g].type # "none" /\ ConnOf(k, g) = C => g = fd
  BY <1>3 DEF IndInv, SocketsFit
<1>5. <<C, k>> \in Stream BY <1>0, <1>4, EndFacts
<1>6. \A c \in DOMAIN conn : \A m \in Node : m \in conn'[c].closed => m \in conn[c].closed \/ (m = k /\ c = C)
  <2> SUFFICES ASSUME NEW c \in DOMAIN conn, NEW m \in Node, m \in conn'[c].closed
               PROVE  m \in conn[c].closed \/ (m = k /\ c = C)
    OBVIOUS
  <2>1. CASE c = C
    <3>1. conn[C] \in Connection BY <1>0, <1>4, EndFacts
    <3> DEFINE quiet == wire[<<C, k>>] = << >> /\ (conn[C].to = k => conn[C].accepted)
    <3>2. conn'[C] = [conn[C] EXCEPT !.closed = @ \cup {k},
                                    !.reset = IF quiet THEN @ ELSE @ \cup {Far(C, k)}]
      BY <1>1, <1>4 DEF ClosedEnds
    <3> HIDE DEF quiet
    <3>3. conn'[C].closed = conn[C].closed \cup {k} BY <3>1, <3>2 DEF Connection
    <3> QED BY <2>1, <3>3
  <2>2. CASE c # C
    <3>1. conn'[c] = conn[c] BY <1>1, <2>2 DEF ClosedEnds
    <3> QED BY <3>1
  <2> QED BY <2>1, <2>2
<1>7. wire \in [Stream -> Pipe] /\ \A s \in Stream : s # <<C, k>> => wire'[s] = wire[s]
  BY <1>0, <1>1 DEF TypeOK
<1>8. wire'[<<C, k>>] = << >> BY <1>1, <1>5, <1>7
<1>9. /\ \A m \in Node, g \in FD : ~(m = k /\ g = fd) => sock'[m][g] = sock[m][g]
      /\ sock'[k][fd] = NoSocket /\ NoSocket.type = "none"
  BY <1>0 DEF TypeOK, NoSocket
<1>10. \A g \in FD : sock'[k][g].type # "none" => sock'[k][g] = sock[k][g] /\ sock[k][g].conn # C
  BY <1>4, <1>9 DEF ConnOf
<1>11. Gone(k, C)' /\ ~NotYet(k, C)' BY <1>2, <1>4, <1>10 DEF Gone, Open, NotYet, ConnOf
<1>12. ASSUME NEW m \in Node, NEW c \in DOMAIN conn, ~(m = k /\ c = C) PROVE SameEnd(m, c)
  <2>1. ASSUME NEW g \in FD
        PROVE  \/ sock'[m][g] = sock[m][g] /\ recvBuff'[m][g] = recvBuff[m][g]
               \/ /\ sock[m][g].type # "none" => sock[m][g].conn # c
                  /\ sock'[m][g].type # "none" => sock'[m][g].conn # c
    <3>1. CASE ~(m = k /\ g = fd) BY <1>9, <3>1
    <3>2. CASE m = k /\ g = fd
      <4>1. sock[m][g].conn = C BY <3>2 DEF ConnOf
      <4> QED BY <1>9, <1>12, <3>2, <4>1
    <3> QED BY <3>1, <3>2
  <2> QED BY <1>2, <2>1 DEF SameEnd
<1>13. \A m \in Node : Running(m)' <=> Running(m) BY DEF Running
<1>14. SmallInv'
  <2>1. \A m \in Node, g \in FD :
           \/ sock'[m][g].type = "none"
           \/ /\ sock[m][g].type # "none" /\ sock'[m][g].conn = sock[m][g].conn
              /\ sock'[m][g].type = "connect" => sock[m][g].type = "connect"
    BY <1>9
  <2>2. \A c \in DOMAIN conn : \A m \in Node :
           Running(m)' /\ m \in conn'[c].closed => m \in conn[c].closed \/ Gone(m, c)'
    <3> SUFFICES ASSUME NEW c \in DOMAIN conn, NEW m \in Node, m \in conn'[c].closed, m \notin conn[c].closed
                 PROVE  Gone(m, c)'
      OBVIOUS
    <3>1. m = k /\ c = C BY <1>6
    <3> QED BY <1>11, <3>1
  <2>3. \A s \in Stream : s[1] \notin DOMAIN conn =>
           sent'[s] = sent[s] /\ handled'[s] = handled[s] /\ wire'[s] \in {wire[s], << >>}
    BY <1>7, <1>8
  <2> QED BY <1>0, <1>2, <1>13, <2>1, <2>2, <2>3, CalmKeeps
<1>15. NumbersFit' BY <1>0 DEF NumbersFit
<1>16. ASSUME NEW c \in DOMAIN conn, NEW n \in {conn[c].from, conn[c].to},
              NEW y \in {conn[c].from, conn[c].to}, y # n,
              NEW h \in Len(handled[<<c, n>>])..Len(sent[<<c, n>>]), Bytes(n, y, c, h)
       PROVE  Bytes(n, y, c, h)'
  <2>1. n \in Node /\ y \in Node /\ <<c, n>> \in Stream BY <1>0, EndFacts
  <2>2. CASE n = k /\ c = C
    <3>1. \A b : ~In(n, c, b)' BY <1>10, <1>11, <2>2 DEF In, Mapped, ConnOf
    <3> QED BY <3>1, BytesUnread
  <2>3. CASE y = k /\ c = C
    <3>1. SameEnd(n, c) BY <1>12, <1>16, <2>1, <2>3
    <3>2. \A b : In(n, c, b)' => In(n, c, b) BY <3>1, SameEndKept
    <3>3. \A b : Out(y, c, b)' => b = << >> BY <1>10, <2>3 DEF Out, HasOut, ConnOf
    <3>4. wire'[<<c, n>>] = wire[<<c, n>>]
      <4>1. <<c, n>> # <<C, k>> BY <1>16, <2>3
      <4> QED BY <1>7, <2>1, <4>1
    <3>5. /\ sent[<<c, n>>] \in Seq(Msg) /\ Len(sent[<<c, n>>]) \in Nat /\ Len(handled[<<c, n>>]) \in Nat
      BY <1>0, <2>1, StreamTypes
    <3>6. h \in 0..Len(sent[<<c, n>>])
      <4> DEFINE a == Len(handled[<<c, n>>])
                 b == Len(sent[<<c, n>>])
      <4> HIDE DEF a, b
      <4>1. a \in Nat /\ b \in Nat /\ h \in a..b BY <3>5 DEF a, b
      <4> QED BY <4>1 DEF b
    <3> QED BY <1>0, <1>11, <1>16, <2>1, <2>3, <3>2, <3>3, <3>4, <3>5, <3>6, BytesEnded
  <2>4. CASE c # C \/ (n # k /\ y # k)
    <3>1. SameEnd(n, c) /\ SameEnd(y, c) BY <1>12, <2>1, <2>4
    <3>2. <<c, n>> # <<C, k>> BY <2>4
    <3>3. wire'[<<c, n>>] = wire[<<c, n>>] BY <1>7, <2>1, <3>2
    <3>4. \A b : In(n, c, b)' => In(n, c, b) BY <3>1, SameEndKept
    <3>5. (\A b : Out(y, c, b)' => Out(y, c, b)) /\ (Gone(y, c)' <=> Gone(y, c)) BY <3>1, SameEndKept
    <3> QED BY <1>16, <3>3, <3>4, <3>5, BytesKept
  <2> QED BY <1>16, <2>2, <2>3, <2>4
<1>17. FlowsFit'
  <2>1. \A c \in DOMAIN conn : \A n, y \in {conn[c].from, conn[c].to} :
          y # n /\ Running(n)' /\ <<c, n>> \notin tainted' /\ Flow(n, y, c) => Flow(n, y, c)'
    BY <1>16
  <2>2. tainted \subseteq tainted' OBVIOUS
  <2> QED BY <1>0, <1>2, <1>13, <2>1, <2>2, FlowsStep
<1> QED BY <1>14, <1>15, <1>17 DEF StreamInv

\* DisconnectPeer keeps the streams.
LEMMA DisconnectStreams ==
  ASSUME IndInv, StreamInv, NEW k \in Node, NEW fd \in FD, DisconnectPeer(k, fd)
  PROVE  StreamInv'
<1>1. /\ sock[k][fd].type \in {"data", "closing"}
      /\ CloseEnd(k, ConnOf(k, fd)) /\ sock' = [sock EXCEPT ![k][fd] = NoSocket]
      /\ UNCHANGED << queue, status, recvBuff, sent, handled, tainted >>
  BY DEF DisconnectPeer, DisconnectSocket, Mapped
<1>2. ASSUME NEW c \in DOMAIN conn, NEW n, NEW y, Flow(n, y, c),
             \A h \in Len(handled[<<c, n>>])..Len(sent[<<c, n>>]) : Bytes(n, y, c, h) => Bytes(n, y, c, h)'
      PROVE  Flow(n, y, c)'
  <2>1. \A h : Lined(n, c, h) => Lined(n, c, h)' BY <1>1 DEF Lined
  <2> QED BY <1>1, <1>2, <2>1, FlowKept
<1> QED BY <1>1, <1>2, GoneStreams

\* SocketCloseHandler does.
LEMMA SocketCloseStreams ==
  ASSUME IndInv, StreamInv, NEW k \in Node, SocketCloseHandler(k)
  PROVE  StreamInv'
<1> DEFINE fd == Head(queue[k]).fd
<1>1. /\ Running(k) /\ queue[k] # << >> /\ Head(queue[k]).type = "PeerSocketClose"
      /\ CloseEnd(k, ConnOf(k, fd)) /\ sock' = [sock EXCEPT ![k][fd] = NoSocket]
      /\ queue' = Popped(k, << >>) /\ UNCHANGED << status, recvBuff, sent, handled, tainted >>
  BY DEF SocketCloseHandler, NextIs, history
<1>2. /\ Head(queue[k]).type \notin MsgEvents /\ fd \in FD /\ sock[k][fd].type = "closing"
  <2>1. Head(queue[k]) \in Event /\ Live(sock[k], Head(queue[k])) BY <1>1, HeadFacts
  <2> QED BY <1>1, <2>1, EventFacts DEF Live, SocketEvents, MsgEvents
<1>3. queue \in [Node -> Seq(Event)] /\ << >> \in Seq(Event) /\ DOMAIN << >> = {}
  BY EmptySeq DEF IndInv, TypeOK
<1> HIDE DEF fd
<1>4. ASSUME NEW c \in DOMAIN conn, NEW m \in Node, Waiting(queue[m], c) = {}
      PROVE  Waiting(queue'[m], c) = {}
  BY <1>1, <1>3, <1>4, WaitingPop
<1>5. ASSUME NEW c \in DOMAIN conn, NEW n \in {conn[c].from, conn[c].to}, NEW y, Flow(n, y, c),
             \A h \in Len(handled[<<c, n>>])..Len(sent[<<c, n>>]) : Bytes(n, y, c, h) => Bytes(n, y, c, h)'
      PROVE  Flow(n, y, c)'
  <2>1. n \in Node BY EndFacts DEF IndInv, StreamInv, SmallInv
  <2>2. \A h : Lined(n, c, h) => Lined(n, c, h)' BY <1>1, <1>2, <1>3, <2>1, LinedPop
  <2> QED BY <1>1, <1>5, <2>2, FlowKept
<1> QED BY <1>1, <1>2, <1>4, <1>5, GoneStreams

\* PeerNotifyHandler does, whether it disconnects or not.
LEMMA PeerNotifyStreams ==
  ASSUME IndInv, StreamInv, NEW k \in Node, PeerNotifyHandler(k)
  PROVE  StreamInv'
<1> DEFINE fd == Head(queue[k]).fd
<1>1. /\ Running(k) /\ queue[k] # << >> /\ Head(queue[k]).type \in {"PeerRecvNotifyPeerId", "ProtocolRecvMsg"}
      /\ queue' = Popped(k, << >>) /\ handled' = Handled(k)
      /\ UNCHANGED << status, recvBuff, sent, tainted >>
      /\ Head(queue[k]).type \in MsgEvents
  BY DEF PeerNotifyHandler, NextIs, MsgEvents
<1>2. queue \in [Node -> Seq(Event)] /\ << >> \in Seq(Event) /\ DOMAIN << >> = {}
  BY EmptySeq DEF IndInv, TypeOK
<1>3. ASSUME NEW c \in DOMAIN conn, NEW m \in Node, Waiting(queue[m], c) = {}
      PROVE  Waiting(queue'[m], c) = {}
  BY <1>1, <1>2, <1>3, WaitingPop
<1>4. ASSUME NEW c \in DOMAIN conn, NEW n \in {conn[c].from, conn[c].to}, NEW y, Flow(n, y, c),
             \A h \in Len(handled[<<c, n>>])..Len(sent[<<c, n>>]) : Bytes(n, y, c, h) => Bytes(n, y, c, h)'
      PROVE  Flow(n, y, c)'
  BY <1>1, <1>4, FlowHandled
<1>5. /\ \A s \in Stream : s[1] \notin DOMAIN conn => handled'[s] = handled[s]
      /\ \A c \in DOMAIN conn : \A n \in {conn[c].from, conn[c].to} :
              NotYet(n, c) => handled'[<<c, n>>] = handled[<<c, n>>]
  BY <1>1, HandledElsewhere
<1>6. CASE UNCHANGED << conn, sock, wire, cut >>
  <2>1. ASSUME NEW c \in DOMAIN conn, NEW n \in {conn[c].from, conn[c].to}, NEW y, Flow(n, y, c)
        PROVE  Flow(n, y, c)'
    <3>1. \A h : Bytes(n, y, c, h) => Bytes(n, y, c, h)' BY <1>1, <1>6, BytesQuiet
    <3> QED BY <1>4, <2>1, <3>1
  <2> QED BY <1>1, <1>3, <1>5, <1>6, <2>1, QuietKeeps
<1>7. CASE Mapped(k, fd) /\ DisconnectSocket(k, fd)
  <2>1. /\ sock[k][fd].type \in {"data", "closing"}
        /\ CloseEnd(k, ConnOf(k, fd)) /\ sock' = [sock EXCEPT ![k][fd] = NoSocket]
    BY <1>7 DEF Mapped, DisconnectSocket
  <2>2. fd \in FD
    <3>1. Head(queue[k]) \in Event BY <1>1, HeadFacts
    <3> QED BY <1>1, <3>1, EventFacts
  <2> HIDE DEF fd
  <2> QED BY <1>1, <1>3, <1>4, <1>5, <2>1, <2>2, GoneStreams
<1> QED BY <1>6, <1>7 DEF PeerNotifyHandler

\* A message behind a send buffer (SendMsgToPeer) goes on with the frames.
LEMMA FramedBehind ==
  ASSUME NEW a \in Seq(Byte), NEW b \in Seq(Byte), NEW msgs \in Seq(Msg), NEW h \in 0..Len(msgs),
         Framed(a \o b, msgs, h, TRUE), NEW m \in Msg
  PROVE  Framed(a \o (b \o Frame(m)), Append(msgs, m), h, TRUE)
<1> DEFINE f == Frame(m)
<1>1. f \in Seq(Byte) BY FrameBytes
<1>2. a \o b \in Seq(Byte) BY ConcatProperties
<1>3. Framed((a \o b) \o f, Append(msgs, m), h, TRUE) BY <1>2, FramedSend
<1> HIDE DEF f
<1>4. (a \o b) \o f = a \o (b \o f) BY <1>1, ConcatAssociative, SMTT(20)
<1> QED BY <1>3, <1>4 DEF f

\* A message that is sent goes behind everything its stream holds.
LEMMA SendStreams ==
  ASSUME IndInv, StreamInv, NEW k \in Node, NEW fd \in FD, sock[k][fd].type \in {"data", "closing"},
         NEW size \in Sizes, SendMsg(k, fd, size), NEW C, C = ConnOf(k, fd),
         UNCHANGED << status, conn, recvBuff, wire, handled, tainted >>,
         \A c \in DOMAIN conn : \A m \in Node : Waiting(queue[m], c) = {} => Waiting(queue'[m], c) = {},
         \A c \in DOMAIN conn : \A n \in {conn[c].from, conn[c].to} : \A h :
           InLine(queue[n], c, Len(handled[<<c, n>>]), sent[<<c, n>>], h)
             => InLine(queue'[n], c, Len(handled[<<c, n>>]), sent[<<c, n>>], h)
  PROVE  StreamInv' /\ C \in DOMAIN conn
         /\ \E s \in Stream, m \in Message : sent' = [sent EXCEPT ![s] = Append(@, m)]
<1>0. TypeOK /\ EndsFit /\ SmallInv /\ NumbersFit /\ FlowsFit BY DEF IndInv, StreamInv, SmallInv
<1>1. PICK z : z = Far(C, k) OBVIOUS
<1> DEFINE s == <<C, z>>
           L == Len(sent[s])
           m == [conn |-> C, num |-> L + 1, size |-> size]
<1>2. /\ L < MaxMsg[k] /\ sent' = [sent EXCEPT ![s] = Append(@, m)]
      /\ sock' = [sock EXCEPT ![k][fd].send = @ \o Frame(m), ![k][fd].writable = TRUE]
  BY <1>1 DEF SendMsg
<1>3. C \in DOMAIN conn /\ k \in {conn[C].from, conn[C].to} /\ ~NotYet(k, C) BY ThereAlready
<1>4. /\ C \in 1..MaxConn /\ z \in Node /\ z # k /\ z \in {conn[C].from, conn[C].to} /\ s \in Stream
      /\ \A n, y \in {conn[C].from, conn[C].to} : y # n /\ n = z => y = k
      /\ \A n \in {conn[C].from, conn[C].to} : n # k => n = z
  <2>1. /\ C \in 1..MaxConn /\ z \in Node /\ z # k /\ z \in {conn[C].from, conn[C].to} /\ Far(C, z) = k
    BY <1>0, <1>1, <1>3, EndFacts
  <2>2. s \in Stream BY <2>1 DEF Stream
  <2>3. \A y \in {conn[C].from, conn[C].to} : y # z => y = k BY <1>0, <1>3, <2>1, EndFacts
  <2>4. \A n \in {conn[C].from, conn[C].to} : n # k => n = z BY <1>0, <1>1, <1>3, EndFacts
  <2> QED BY <2>1, <2>2, <2>3, <2>4
<1>5. sent[s] \in Seq(Msg) /\ L \in Nat /\ DOMAIN sent[s] = 1..L BY <1>0, <1>4, StreamTypes
<1>6. m \in Msg /\ m \in Message
  <2>1. MaxMsg[k] \in Nat BY Constants
  <2>2. L + 1 \in 1..MaxMsg[k] BY <1>2, <1>5, <2>1
  <2>3. L + 1 \in Num BY <2>2 DEF Num
  <2>4. C \in 0..MaxConn BY <1>4, Constants
  <2> HIDE DEF L
  <2> QED BY <2>3, <2>4 DEF Message, Msg
<1> HIDE DEF L
<1>7. /\ \A t \in Stream : t # s => sent'[t] = sent[t]
      /\ sent'[s] = Append(sent[s], m)
  BY <1>0, <1>2, <1>4 DEF TypeOK
<1> DEFINE new == sock[k][fd].send \o Frame(m)
<1> HIDE DEF m
<1>8. /\ \A n \in Node, g \in FD : ~(n = k /\ g = fd) => sock'[n][g] = sock[n][g]
      /\ \A n \in Node, g \in FD : sock'[n][g].type = sock[n][g].type /\ sock'[n][g].conn = sock[n][g].conn
      /\ sock'[k][fd].send = new
  <2>1. sock[k][fd] \in Socket BY <1>0 DEF TypeOK
  <2>2. sock' = [sock EXCEPT ![k] = [sock[k] EXCEPT ![fd] = [sock[k][fd] EXCEPT !.send = new, !.writable = TRUE]]]
    BY <1>0, <1>2 DEF TypeOK, Socket
  <2> HIDE DEF new
  <2> DEFINE x == [sock[k][fd] EXCEPT !.send = new, !.writable = TRUE]
  <2>3. x.type = sock[k][fd].type /\ x.conn = sock[k][fd].conn /\ x.send = new BY <2>1 DEF Socket
  <2> HIDE DEF x
  <2>4. sock' = [sock EXCEPT ![k] = [sock[k] EXCEPT ![fd] = x]] BY <2>2 DEF x
  <2> QED BY <1>0, <2>3, <2>4 DEF TypeOK
<1>9. \A n \in Node : Running(n)' <=> Running(n) BY DEF Running
<1>10. SmallInv'
  <2>1. \A n \in Node, g \in FD :
           \/ sock'[n][g].type = "none"
           \/ /\ sock[n][g].type # "none" /\ sock'[n][g].conn = sock[n][g].conn
              /\ sock'[n][g].type = "connect" => sock[n][g].type = "connect"
    BY <1>8
  <2>2. ASSUME NEW c \in DOMAIN conn, NEW n \in {conn[c].from, conn[c].to},
               NEW y \in {conn[c].from, conn[c].to}, NotYet(n, c), y # n
        PROVE  sent'[<<c, y>>] = sent[<<c, y>>]
    <3>1. <<c, y>> \in Stream BY <1>0, EndFacts
    <3>2. <<c, y>> # s
      <4> SUFFICES ASSUME c = C, y = z PROVE FALSE OBVIOUS
      <4>1. n = k BY <1>4, <2>2
      <4> QED BY <1>3, <2>2, <4>1
    <3> QED BY <1>7, <3>1, <3>2
  <2>3. \A t \in Stream : t[1] \notin DOMAIN conn =>
           sent'[t] = sent[t] /\ handled'[t] = handled[t] /\ wire'[t] \in {wire[t], << >>}
    BY <1>3, <1>7
  <2> QED BY <1>0, <1>9, <2>1, <2>2, <2>3, CalmKeeps
<1>11. NumbersFit'
  <2> SUFFICES ASSUME NEW t \in Stream, NEW j \in DOMAIN sent'[t]
               PROVE  sent'[t][j].num = j /\ sent'[t][j].conn = t[1] /\ sent'[t][j].size \in Sizes
    BY DEF NumbersFit
  <2>1. CASE t # s
    <3>1. sent'[t] = sent[t] BY <1>7, <2>1
    <3> QED BY <1>0, <3>1 DEF NumbersFit
  <2>2. CASE t = s
    <3> DEFINE longer == Append(sent[s], m)
    <3>1. /\ longer \in Seq(Msg) /\ Len(longer) = L + 1 /\ longer[L + 1] = m
          /\ \A i \in 1..L : longer[i] = sent[s][i]
      BY <1>5, <1>6, AppendProperties DEF L
    <3>2. DOMAIN longer = 1..(L + 1) BY <3>1, LenProperties
    <3>3. sent'[t] = longer BY <1>7, <2>2
    <3> HIDE DEF longer
    <3>4. CASE j = L + 1
      <4>1. m.num = L + 1 /\ m.conn = C /\ m.size = size /\ t[1] = C BY <2>2 DEF m
      <4> QED BY <3>1, <3>3, <3>4, <4>1
    <3>5. CASE j # L + 1
      <4>1. j \in 1..L BY <1>5, <3>2, <3>3, <3>5
      <4>2. sent'[t][j] = sent[s][j] BY <3>1, <3>3, <4>1
      <4>3. sent[s][j].num = j /\ sent[s][j].conn = s[1] /\ sent[s][j].size \in Sizes
        BY <1>0, <1>4, <1>5, <4>1 DEF NumbersFit
      <4> QED BY <2>2, <4>2, <4>3
    <3> QED BY <3>4, <3>5
  <2> QED BY <2>1, <2>2
<1>12. ASSUME NEW c \in DOMAIN conn, NEW n \in {conn[c].from, conn[c].to} PROVE \A b : In(n, c, b)' => In(n, c, b)
  <2>1. n \in Node BY <1>0, EndFacts
  <2>2. NotYet(n, c)' <=> NotYet(n, c) BY <1>8, <2>1 DEF NotYet, ConnOf
  <2> QED BY <1>8, <2>1, <2>2 DEF In, Mapped, ConnOf
<1>13. ASSUME NEW c \in DOMAIN conn, NEW n \in {conn[c].from, conn[c].to},
              NEW y \in {conn[c].from, conn[c].to}, y # n, Flow(n, y, c)
       PROVE  Flow(n, y, c)'
  <2>1. n \in Node /\ y \in Node /\ <<c, n>> \in Stream BY <1>0, EndFacts
  <2>2. CASE <<c, n>> # s
    <3>1. sent'[<<c, n>>] = sent[<<c, n>>] BY <1>7, <2>1, <2>2
    <3>2. SameEnd(y, c)
      <4>1. ~(y = k /\ c = C)
        <5> SUFFICES ASSUME y = k, c = C PROVE FALSE OBVIOUS
        <5>1. n = z BY <1>4, <1>13
        <5> QED BY <2>2, <5>1
      <4>2. ASSUME NEW g \in FD
            PROVE  \/ sock'[y][g] = sock[y][g] /\ recvBuff'[y][g] = recvBuff[y][g]
                   \/ /\ sock[y][g].type # "none" => sock[y][g].conn # c
                      /\ sock'[y][g].type # "none" => sock'[y][g].conn # c
        <5>1. CASE ~(y = k /\ g = fd) BY <1>8, <2>1, <5>1
        <5>2. CASE y = k /\ g = fd
          <6>1. sock[y][g].conn = C /\ sock'[y][g].conn = C BY <1>8, <5>2 DEF ConnOf
          <6> QED BY <4>1, <5>2, <6>1
        <5> QED BY <5>1, <5>2
      <4> QED BY <4>2 DEF SameEnd
    <3>3. (\A b : Out(y, c, b)' => Out(y, c, b)) /\ (Gone(y, c)' <=> Gone(y, c)) BY <3>2, SameEndKept
    <3>4. \A h : Bytes(n, y, c, h) => Bytes(n, y, c, h)' BY <1>12, <3>1, <3>3, BytesKept
    <3>5. \A h : Lined(n, c, h) => Lined(n, c, h)' BY <3>1 DEF Lined
    <3> QED BY <1>13, <3>1, <3>4, <3>5, FlowKept
  <2>3. CASE <<c, n>> = s
    <3>1. c = C /\ n = z /\ y = k BY <1>4, <1>13, <2>3
    <3> DEFINE msgs == sent[s]
               done == Len(handled[s])
    <3>2. PICK h \in done..Len(msgs) : Lined(n, c, h) /\ Bytes(n, y, c, h) BY <1>13, <2>3 DEF Flow
    <3>3. done \in Nat /\ Len(msgs) \in Nat BY <1>0, <1>4, StreamTypes
    <3>4. InLine(queue'[n], c, done, Append(msgs, m), h)
      <4>1. InLine(queue'[n], c, done, msgs, h) BY <2>3, <3>2 DEF Lined
      <4> HIDE DEF done, msgs
      <4>2. msgs \in Seq(Msg) BY <1>5 DEF msgs
      <4> QED BY <1>6, <3>2, <3>3, <4>1, <4>2, InLineGrow
    <3>5. Lined(n, c, h)' BY <1>7, <2>3, <3>4 DEF Lined
    <3>6. Open(k, C) /\ Open(k, C)' /\ ~Gone(k, C)' /\ ~Gone(k, C)
      <4>1. Open(k, C) BY DEF Open
      <4>2. Open(k, C)' BY <1>8, <4>1 DEF Open, ConnOf
      <4> QED BY <4>1, <4>2 DEF Gone
    <3>7. h \in 0..Len(msgs)
      <4> HIDE DEF done, msgs
      <4> QED BY <3>2, <3>3
    <3>8. Out(k, C, sock[k][fd].send) BY DEF Out, HasOut
    <3>9. \A b : Out(k, C, b)' => b = sock[k][fd].send \o Frame(m)
      <4>1. HasOut(k, fd, C) /\ \A g \in FD : HasOut(k, g, C) => g = fd
        <5>1. \A g \in FD : sock[k][g].type # "none" /\ ConnOf(k, g) = C => g = fd
          <6>1. sock[k][fd].type # "none" OBVIOUS
          <6> QED BY <6>1 DEF IndInv, SocketsFit
        <5> QED BY <5>1 DEF HasOut
      <4>2. \A g \in FD : HasOut(k, g, C)' <=> HasOut(k, g, C) BY <1>8 DEF HasOut, ConnOf
      <4> QED BY <1>8, <4>1, <4>2 DEF Out
    <3>10. ASSUME NEW i \in Seq(Byte), NEW o \in Seq(Byte), In(n, c, i)', Out(y, c, o)'
           PROVE  Framed((i \o wire[s]) \o o, Append(msgs, m), h, TRUE)
      <4> DEFINE w == wire[s]
                 b == sock[k][fd].send
      <4>1. w \in Seq(Byte) /\ b \in Seq(Byte)
        <5>1. w \in Seq(Byte) BY <1>0, <1>4 DEF TypeOK, Pipe
        <5>2. b \in Seq(Byte) BY <1>0 DEF TypeOK, Socket
        <5> QED BY <5>1, <5>2
      <4>2. o = b \o Frame(m) BY <3>1, <3>9, <3>10
      <4>3. In(n, c, i) BY <1>12, <3>10
      <4>4. Framed((i \o w) \o b, msgs, h, TRUE)
        <5>1. Out(y, c, b) /\ ~Gone(y, c) BY <3>1, <3>6, <3>8
        <5> QED BY <2>3, <3>2, <4>1, <4>3, <5>1 DEF Bytes
      <4> HIDE DEF w, b
      <4>5. i \o w \in Seq(Byte) BY <4>1, ConcatProperties
      <4>6. Framed((i \o w) \o (b \o Frame(m)), Append(msgs, m), h, TRUE)
        <5> HIDE DEF msgs
        <5>1. msgs \in Seq(Msg) BY <1>5 DEF msgs
        <5> QED BY <1>6, <3>7, <4>1, <4>4, <4>5, <5>1, FramedBehind
      <4> QED BY <4>2, <4>6 DEF w, b
    <3>11. Bytes(n, y, c, h)' BY <1>7, <2>3, <3>1, <3>6, <3>10 DEF Bytes
    <3>12. h \in Len(handled'[<<c, n>>])..Len(sent'[<<c, n>>])
      <4>1. Len(Append(msgs, m)) = Len(msgs) + 1 BY <1>5, <1>6, AppendProperties
      <4>2. sent'[<<c, n>>] = Append(msgs, m) /\ Len(handled'[<<c, n>>]) = done BY <1>7, <2>3
      <4> HIDE DEF msgs, done
      <4> QED BY <3>2, <3>3, <4>1, <4>2
    <3> QED BY <3>5, <3>11, <3>12 DEF Flow
  <2> QED BY <2>2, <2>3
<1>14. FlowsFit'
  <2>1. \A c \in DOMAIN conn : \A n, y \in {conn[c].from, conn[c].to} :
          y # n /\ Running(n)' /\ <<c, n>> \notin tainted' /\ Flow(n, y, c) => Flow(n, y, c)'
    BY <1>13
  <2>2. tainted \subseteq tainted' OBVIOUS
  <2> QED BY <1>0, <1>9, <2>1, <2>2, FlowsStep
<1> QED BY <1>2, <1>3, <1>4, <1>6, <1>10, <1>11, <1>14 DEF StreamInv

\* SendMsgToPeer keeps the streams.
LEMMA SendMsgToPeerStreams ==
  ASSUME IndInv, StreamInv, NEW k \in Node, NEW fd \in FD, SendMsgToPeer(k, fd)
  PROVE  StreamInv' /\ \E s \in Stream, m \in Message : sent' = [sent EXCEPT ![s] = Append(@, m)]
<1>1. PICK size \in Sizes : SendMsg(k, fd, size) BY DEF SendMsgToPeer
<1>2. /\ sock[k][fd].type \in {"data", "closing"}
      /\ UNCHANGED << queue, status, conn, recvBuff, wire, handled, tainted >>
  BY DEF SendMsgToPeer, ActivePeer
<1> QED BY <1>1, <1>2, SendStreams

\* SocketConnectHandler does.
LEMMA SocketConnectStreams ==
  ASSUME IndInv, StreamInv, NEW k \in Node, SocketConnectHandler(k)
  PROVE  StreamInv' /\ \E s \in Stream, m \in Message : sent' = [sent EXCEPT ![s] = Append(@, m)]
<1> DEFINE fd == Head(queue[k]).fd
<1>1. /\ Running(k) /\ queue[k] # << >> /\ Head(queue[k]).type = "PeerSocketConnect"
      /\ \E size \in Sizes : SendMsg(k, fd, size)
      /\ queue' = Popped(k, << >>) /\ UNCHANGED << status, conn, recvBuff, wire, handled, tainted >>
  BY DEF SocketConnectHandler, NextIs
<1>2. PICK size \in Sizes : SendMsg(k, fd, size) BY <1>1
<1>3. /\ Head(queue[k]).type \notin MsgEvents /\ fd \in FD /\ sock[k][fd].type \in {"data", "closing"}
  <2>1. Head(queue[k]) \in Event /\ Live(sock[k], Head(queue[k])) BY <1>1, HeadFacts
  <2> QED BY <1>1, <2>1, EventFacts DEF Live, SocketEvents, MsgEvents
<1>4. queue \in [Node -> Seq(Event)] /\ << >> \in Seq(Event) /\ DOMAIN << >> = {}
  BY EmptySeq DEF IndInv, TypeOK
<1> HIDE DEF fd
<1>5. ASSUME NEW c \in DOMAIN conn, NEW m \in Node, Waiting(queue[m], c) = {}
      PROVE  Waiting(queue'[m], c) = {}
  BY <1>1, <1>4, <1>5, WaitingPop
<1>6. ASSUME NEW c \in DOMAIN conn, NEW n \in {conn[c].from, conn[c].to}, NEW h,
             InLine(queue[n], c, Len(handled[<<c, n>>]), sent[<<c, n>>], h)
      PROVE  InLine(queue'[n], c, Len(handled[<<c, n>>]), sent[<<c, n>>], h)
  <2>1. n \in Node BY EndFacts DEF IndInv, StreamInv, SmallInv
  <2>2. CASE n # k
    <3>1. queue'[n] = queue[n] BY <1>1, <1>4, <2>1, <2>2 DEF Popped
    <3> QED BY <1>6, <3>1
  <2>3. CASE n = k
    <3>1. queue'[n] = Tail(queue[n]) \o << >> /\ queue[n] \in Seq(Event) /\ queue[n] # << >>
      BY <1>1, <1>4, <2>3 DEF Popped
    <3> QED BY <1>3, <1>4, <1>6, <2>3, <3>1, InLinePop
  <2> QED BY <2>2, <2>3
<1> QED BY <1>1, <1>2, <1>3, <1>5, <1>6, SendStreams

\* A step that opens no socket, sends nothing and handles nothing.
LEMMA SteadyKeeps ==
  ASSUME IndInv, StreamInv, UNCHANGED << sent, handled, tainted >>,
         DOMAIN conn' = DOMAIN conn,
         \A c \in DOMAIN conn : /\ conn'[c].from = conn[c].from /\ conn'[c].to = conn[c].to
                                /\ conn'[c].accepted = conn[c].accepted,
         \A m \in Node, g \in FD :
           /\ sock'[m][g].type # "none" => sock[m][g].type # "none"
           /\ sock'[m][g].conn = sock[m][g].conn
           /\ sock'[m][g].type = "connect" => sock[m][g].type = "connect",
         \A m \in Node : Running(m)' => Running(m),
         \A c \in DOMAIN conn : \A m \in Node :
           Running(m)' /\ m \in conn'[c].closed => m \in conn[c].closed,
         \A s \in Stream : s[1] \notin DOMAIN conn => wire'[s] \in {wire[s], << >>},
         \A c \in DOMAIN conn : \A m \in Node :
           /\ m \in {conn[c].from, conn[c].to} => NotYet(m, c)
           /\ Waiting(queue[m], c) = {}
           => Waiting(queue'[m], c) = {},
         \A c \in DOMAIN conn : \A n, y \in {conn[c].from, conn[c].to} :
           y # n /\ Running(n)' /\ Running(n) /\ <<c, n>> \notin tainted /\ Flow(n, y, c) => Flow(n, y, c)'
  PROVE  StreamInv'
<1>0. TypeOK /\ EndsFit /\ SmallInv /\ NumbersFit /\ FlowsFit BY DEF IndInv, StreamInv, SmallInv
<1>1. SmallInv'
  <2>1. \A m \in Node, g \in FD :
           \/ sock'[m][g].type = "none"
           \/ /\ sock[m][g].type # "none" /\ sock'[m][g].conn = sock[m][g].conn
              /\ sock'[m][g].type = "connect" => sock[m][g].type = "connect"
    OBVIOUS
  <2>2. \A c \in DOMAIN conn : \A m \in Node :
           Running(m)' /\ m \in conn'[c].closed => m \in conn[c].closed \/ Gone(m, c)'
    OBVIOUS
  <2> QED BY <1>0, <2>1, <2>2, CalmKeeps
<1>2. NumbersFit' BY <1>0 DEF NumbersFit
<1>3. FlowsFit'
  <2>1. \A c \in DOMAIN conn : \A n, y \in {conn[c].from, conn[c].to} :
          y # n /\ Running(n)' /\ <<c, n>> \notin tainted' /\ Flow(n, y, c) => Flow(n, y, c)'
    <3> SUFFICES ASSUME NEW c \in DOMAIN conn, NEW n \in {conn[c].from, conn[c].to},
                        NEW y \in {conn[c].from, conn[c].to},
                        y # n, Running(n)', <<c, n>> \notin tainted', Flow(n, y, c)
                 PROVE  Flow(n, y, c)'
      OBVIOUS
    <3>1. n \in Node BY <1>0, EndFacts
    <3>2. Running(n) /\ <<c, n>> \notin tainted BY <3>1
    <3> QED BY <3>2
  <2>2. tainted \subseteq tainted' OBVIOUS
  <2> QED BY <1>0, <2>1, <2>2, FlowsStep
<1> QED BY <1>1, <1>2, <1>3 DEF StreamInv

\* What the end of a process does to connections and wires.
LEMMA StopEffects ==
  ASSUME TypeOK, NEW k \in Node, NEW w,
         NEW why \in Endings, Stop(k, why, w)
  PROVE  /\ ~Running(k)' /\ \A m \in Node : Running(m)' => Running(m)
         /\ DOMAIN conn' = DOMAIN conn
         /\ \A c \in DOMAIN conn :
              /\ conn'[c].from = conn[c].from /\ conn'[c].to = conn[c].to
              /\ conn'[c].accepted = conn[c].accepted
              /\ \A m \in Node : m # k /\ m \in conn'[c].closed => m \in conn[c].closed
         /\ \A s \in Stream : wire'[s] = IF s[2] = k THEN << >> ELSE w[s]
<1> DEFINE C == {c \in DOMAIN conn : k \in {conn[c].from, conn[c].to}}
<1>1. conn' = ClosedEnds(k, C, w) /\ wire' = [s \in Stream |-> IF s[2] = k THEN << >> ELSE w[s]]
      /\ status' = [status EXCEPT ![k] = why]
  BY DEF Stop
<1>2. ~Running(k)' /\ \A m \in Node : Running(m)' => Running(m)
  <2>1. why # "running" BY DEF Endings
  <2>2. status'[k] = why /\ \A m \in Node : m # k => status'[m] = status[m] BY <1>1 DEF TypeOK
  <2> QED BY <2>1, <2>2 DEF Running
<1> HIDE DEF C
<1>3. DOMAIN conn' = DOMAIN conn
      /\ \A c \in DOMAIN conn : /\ conn'[c].from = conn[c].from /\ conn'[c].to = conn[c].to
                                /\ conn'[c].accepted = conn[c].accepted
  BY <1>1, ClosedEndsFacts
<1>4. ASSUME NEW c \in DOMAIN conn, NEW m \in Node, m # k, m \in conn'[c].closed
      PROVE  m \in conn[c].closed
  <2>1. CASE c \in C
    <3>1. conn[c] \in Connection BY ElementOfSeq, LenProperties DEF TypeOK
    <3> DEFINE quiet == w[<<c, k>>] = << >> /\ (conn[c].to = k => conn[c].accepted)
    <3>2. conn'[c] = [conn[c] EXCEPT !.closed = @ \cup {k},
                                    !.reset = IF quiet THEN @ ELSE @ \cup {Far(c, k)}]
      BY <1>1, <2>1 DEF ClosedEnds
    <3> HIDE DEF quiet
    <3>3. conn'[c].closed = conn[c].closed \cup {k} BY <3>1, <3>2 DEF Connection
    <3> QED BY <1>4, <3>3
  <2>2. CASE c \notin C
    <3>1. conn'[c] = conn[c] BY <1>1, <2>2 DEF ClosedEnds
    <3> QED BY <1>4, <3>1
  <2> QED BY <2>1, <2>2
<1> QED BY <1>1, <1>2, <1>3, <1>4

\* The end of a process keeps the streams: nobody reads what comes to it.
LEMMA StopStreams ==
  ASSUME IndInv, StreamInv, UNCHANGED << sent, handled, tainted >>, NEW k \in Node, NEW w,
         NEW why \in Endings, Stop(k, why, w),
         \A m \in Node, g \in FD : sock'[m][g].type = sock[m][g].type /\ sock'[m][g].conn = sock[m][g].conn,
         \A s \in Stream : s[1] \notin DOMAIN conn => w[s] \in {wire[s], << >>},
         \A m \in Node : m # k => queue'[m] = queue[m],
         \A c \in DOMAIN conn :
           /\ k \in {conn[c].from, conn[c].to} => NotYet(k, c)
           /\ Waiting(queue[k], c) = {}
           => Waiting(queue'[k], c) = {},
         \A c \in DOMAIN conn : \A n, y \in {conn[c].from, conn[c].to} : \A h :
           y # n /\ n # k /\ wire'[<<c, n>>] = w[<<c, n>>] /\ Running(n) /\ Bytes(n, y, c, h) => Bytes(n, y, c, h)'
  PROVE  StreamInv'
<1>0. TypeOK /\ EndsFit BY DEF IndInv, StreamInv, SmallInv
<1>1. /\ ~Running(k)' /\ \A m \in Node : Running(m)' => Running(m)
      /\ DOMAIN conn' = DOMAIN conn
      /\ \A c \in DOMAIN conn :
           /\ conn'[c].from = conn[c].from /\ conn'[c].to = conn[c].to
           /\ conn'[c].accepted = conn[c].accepted
           /\ \A m \in Node : m # k /\ m \in conn'[c].closed => m \in conn[c].closed
      /\ \A s \in Stream : wire'[s] = IF s[2] = k THEN << >> ELSE w[s]
  BY <1>0, StopEffects
<1>2. \A c \in DOMAIN conn : \A m \in Node : Running(m)' /\ m \in conn'[c].closed => m \in conn[c].closed
  BY <1>1
<1>3. \A s \in Stream : s[1] \notin DOMAIN conn => wire'[s] \in {wire[s], << >>} BY <1>1
<1>4. ASSUME NEW c \in DOMAIN conn, NEW m \in Node,
             m \in {conn[c].from, conn[c].to} => NotYet(m, c), Waiting(queue[m], c) = {}
      PROVE  Waiting(queue'[m], c) = {}
  <2>1. CASE m = k BY <1>4, <2>1
  <2>2. CASE m # k
    <3>1. queue'[m] = queue[m] BY <2>2
    <3> QED BY <1>4, <3>1
  <2> QED BY <2>1, <2>2
<1>5. ASSUME NEW c \in DOMAIN conn, NEW n \in {conn[c].from, conn[c].to},
             NEW y \in {conn[c].from, conn[c].to}, y # n, Running(n)', Running(n), Flow(n, y, c)
      PROVE  Flow(n, y, c)'
  <2>1. n \in Node /\ n # k /\ <<c, n>> \in Stream BY <1>0, <1>1, <1>5, EndFacts
  <2>2. wire'[<<c, n>>] = w[<<c, n>>] BY <1>1, <2>1
  <2>3. \A h : Bytes(n, y, c, h) => Bytes(n, y, c, h)' BY <1>5, <2>1, <2>2
  <2>4. queue'[n] = queue[n] BY <2>1
  <2>5. \A h : Lined(n, c, h) => Lined(n, c, h)' BY <2>4 DEF Lined
  <2> QED BY <1>5, <2>3, <2>5, FlowKept
<1> QED BY <1>1, <1>2, <1>3, <1>4, <1>5, SteadyKeeps

\* Return keeps the streams.
LEMMA ReturnStreams ==
  ASSUME IndInv, StreamInv, NEW k \in Node, Return(k)
  PROVE  StreamInv'
<1>1. Stop(k, "returned", wire) /\ UNCHANGED << queue, sock, recvBuff, sent, handled, tainted >>
  BY DEF Return, history
<1>2. DOMAIN conn' = DOMAIN conn /\ \A c \in DOMAIN conn :
        conn'[c].from = conn[c].from /\ conn'[c].to = conn[c].to /\ conn'[c].accepted = conn[c].accepted
  BY <1>1, StopEffects DEF IndInv, Endings
<1>3. ASSUME NEW c \in DOMAIN conn, NEW n, NEW y, NEW h, wire'[<<c, n>>] = wire[<<c, n>>], Bytes(n, y, c, h)
      PROVE  Bytes(n, y, c, h)'
  <2>1. SameEnd(n, c) /\ SameEnd(y, c) BY <1>1, <1>2 DEF SameEnd
  <2>2. \A b : In(n, c, b)' => In(n, c, b) BY <2>1, SameEndKept
  <2>3. (\A b : Out(y, c, b)' => Out(y, c, b)) /\ (Gone(y, c)' <=> Gone(y, c)) BY <2>1, SameEndKept
  <2> QED BY <1>1, <1>3, <2>2, <2>3, BytesKept
<1>4. "returned" \in Endings BY DEF Endings
<1> QED BY <1>1, <1>3, <1>4, StopStreams

\* SocketConnectFailedHandler does, whether the process ends or not.
LEMMA SocketConnectFailedStreams ==
  ASSUME IndInv, StreamInv, NEW k \in Node, SocketConnectFailedHandler(k)
  PROVE  StreamInv'
<1>1. /\ queue[k] # << >> /\ Head(queue[k]).type \notin MsgEvents /\ queue' = Popped(k, << >>)
      /\ UNCHANGED << sock, recvBuff, sent, handled, tainted >>
  BY DEF SocketConnectFailedHandler, NextIs, history, MsgEvents
<1>2. queue \in [Node -> Seq(Event)] /\ << >> \in Seq(Event) /\ DOMAIN << >> = {}
  BY EmptySeq DEF IndInv, TypeOK
<1>3. CASE UNCHANGED << status, conn, wire >> BY <1>1, <1>2, <1>3, IdleStreams
<1>4. CASE Stop(k, "connectFailed", wire)
  <2>1. "connectFailed" \in Endings BY DEF Endings
  <2>2. DOMAIN conn' = DOMAIN conn /\ \A c \in DOMAIN conn :
          conn'[c].from = conn[c].from /\ conn'[c].to = conn[c].to /\ conn'[c].accepted = conn[c].accepted
    BY <1>4, <2>1, StopEffects DEF IndInv
  <2>3. ASSUME NEW c \in DOMAIN conn, NEW n, NEW y, NEW h, wire'[<<c, n>>] = wire[<<c, n>>], Bytes(n, y, c, h)
        PROVE  Bytes(n, y, c, h)'
    <3>1. SameEnd(n, c) /\ SameEnd(y, c) BY <1>1, <2>2 DEF SameEnd
    <3>2. \A b : In(n, c, b)' => In(n, c, b) BY <3>1, SameEndKept
    <3>3. (\A b : Out(y, c, b)' => Out(y, c, b)) /\ (Gone(y, c)' <=> Gone(y, c)) BY <3>1, SameEndKept
    <3> QED BY <1>1, <2>3, <3>2, <3>3, BytesKept
  <2>4. \A m \in Node : m # k => queue'[m] = queue[m] BY <1>1, <1>2 DEF Popped
  <2>5. ASSUME NEW c \in DOMAIN conn, Waiting(queue[k], c) = {} PROVE Waiting(queue'[k], c) = {}
    BY <1>1, <1>2, <2>5, WaitingPop
  <2> QED BY <1>1, <1>4, <2>1, <2>3, <2>4, <2>5, StopStreams
<1> QED BY <1>3, <1>4 DEF SocketConnectFailedHandler

\* A buffer in two parts.
LEMMA SplitBuffer ==
  ASSUME NEW b \in Seq(Byte), NEW j \in Nat, NEW rest, rest = SubSeq(b, j + 1, Len(b))
  PROVE  SubSeq(b, 1, Len(b) - Len(rest)) \o rest = b /\ rest \in Seq(Byte)
         /\ SubSeq(b, 1, Len(b) - Len(rest)) \in Seq(Byte)
<1> DEFINE L == Len(b)
<1>1. L \in Nat /\ SubSeq(b, 1, L) = b /\ \A i \in 1..L : b[i] \in Byte
  BY LenProperties, ElementOfSeq, SubSeqFull
<1>2. CASE j >= L
  <2>1. rest = << >>
    <3>1. L < j + 1 /\ j + 1 \in Int /\ L \in Int BY <1>1, <1>2
    <3> QED BY <3>1, SubSeqEmpty
  <2>2. L - Len(rest) = L
    <3>0. Len(<< >>) = 0 OBVIOUS
    <3>1. Len(rest) = 0 BY <2>1, <3>0
    <3> HIDE DEF L
    <3> QED BY <1>1, <3>1
  <2>3. b \o << >> = b /\ << >> \in Seq(Byte) BY ConcatEmptySeq, EmptySeq
  <2> QED BY <1>1, <2>1, <2>2, <2>3
<1>3. CASE j < L
  <2> HIDE DEF L
  <2>1. rest = SubSeq(b, j + 1, L) BY DEF L
  <2>2. rest \in Seq(Byte) /\ Len(rest) = L - (j + 1) + 1
    <3>1. \A i \in (j + 1)..L : b[i] \in Byte BY <1>1
    <3> QED BY <1>1, <1>3, <2>1, <3>1, SubSeqProperties
  <2>3. L - Len(rest) = j BY <1>1, <1>3, <2>2
  <2>4. SubSeq(b, 1, j) \in Seq(Byte)
    <3>1. \A i \in 1..j : b[i] \in Byte BY <1>1, <1>3
    <3> QED BY <1>1, <3>1, SubSeqProperties
  <2>5. SubSeq(b, 1, j) \o SubSeq(b, j + 1, L) = SubSeq(b, 1, L)
    <3>1. 1 \in 1..(Len(b) + 1) /\ j \in (1 - 1)..Len(b) /\ L \in j..Len(b) BY <1>1, <1>3 DEF L
    <3> QED BY <3>1, ConcatAdjacentSubSeq
  <2> QED BY <1>1, <2>1, <2>2, <2>3, <2>4, <2>5 DEF L
<1>4. j >= L \/ j < L
  <2> HIDE DEF L
  <2> QED BY <1>1
<1> QED BY <1>2, <1>3, <1>4

\* Bytes that go from the send buffer onto the wire.
LEMMA FramedWritten ==
  ASSUME NEW i \in Seq(Byte), NEW w \in Seq(Byte), NEW t \in Seq(Byte), NEW r \in Seq(Byte),
         NEW msgs, NEW h, NEW whole, Framed((i \o w) \o (t \o r), msgs, h, whole)
  PROVE  Framed((i \o (w \o t)) \o r, msgs, h, whole)
<1>1. i \o w \in Seq(Byte) BY ConcatProperties
<1>2. (i \o w) \o t = i \o (w \o t) BY ConcatAssociative
<1> DEFINE p == i \o w
<1>3. p \in Seq(Byte) BY <1>1
<1> HIDE DEF p
<1>4. (p \o t) \o r = p \o (t \o r) BY <1>3, ConcatAssociative, SMTT(20)
<1> QED BY <1>2, <1>4 DEF p

\* WriteHandler keeps the streams.
LEMMA WriteStreams ==
  ASSUME IndInv, StreamInv, NEW k \in Node, WriteHandler(k)
  PROVE  StreamInv'
<1>0. TypeOK /\ EndsFit /\ SmallInv BY DEF IndInv, StreamInv, SmallInv
<1>1. PICK fd : fd = Head(queue[k]).fd OBVIOUS
<1>2. PICK C : C = ConnOf(k, fd) OBVIOUS
<1>3. PICK z : z = Far(C, k) OBVIOUS
<1>4. PICK buff : buff = sock[k][fd].send OBVIOUS
<1>5. PICK rest : rest = SubSeq(buff, Capacity - Len(wire[<<C, z>>]) + 1, Len(buff)) OBVIOUS
<1>6. PICK taken : taken = SubSeq(buff, 1, Len(buff) - Len(rest)) OBVIOUS
<1> DEFINE s == <<C, z>>
           gone == z \in conn[C].closed
           after == IF gone THEN wire ELSE [wire EXCEPT ![s] = @ \o taken]
<1>7. /\ Running(k) /\ queue[k] # << >> /\ Head(queue[k]).type = "SocketWrite"
      /\ queue' = Popped(k, << >>) /\ UNCHANGED << recvBuff, sent, handled, tainted >>
  BY DEF WriteHandler, NextIs, history
<1>8. fd \in FD /\ sock[k][fd].type = "data" /\ Head(queue[k]).type \notin MsgEvents
  <2>1. Head(queue[k]) \in Event /\ Live(sock[k], Head(queue[k])) BY <1>7, HeadFacts
  <2> QED BY <1>1, <1>7, <2>1, EventFacts DEF Live, SocketEvents, MsgEvents
<1>9. /\ \E wr : sock' = [sock EXCEPT ![k][fd].send = rest, ![k][fd].writable = wr]
      /\ \/ Stop(k, "writeError", after)
         \/ /\ wire' = after /\ UNCHANGED status
            /\ conn' = IF gone THEN [conn EXCEPT ![C].reset = @ \cup {k}] ELSE conn
  BY <1>1, <1>2, <1>3, <1>4, <1>5, <1>6, <1>8 DEF WriteHandler, Mapped
<1>10. /\ C \in DOMAIN conn /\ k \in {conn[C].from, conn[C].to}
       /\ \A g \in FD : sock[k][g].type # "none" /\ ConnOf(k, g) = C => g = fd
  <2>1. sock[k][fd].type # "none" BY <1>8
  <2> QED BY <1>2, <1>8, <2>1 DEF IndInv, SocketsFit
<1>11. /\ z \in Node /\ z # k /\ z \in {conn[C].from, conn[C].to} /\ Far(C, z) = k /\ s \in Stream
  <2>1. z \in Node /\ z # k /\ z \in {conn[C].from, conn[C].to} /\ Far(C, z) = k
    BY <1>0, <1>3, <1>10, EndFacts
  <2> QED BY <1>0, <1>10, <2>1, EndFacts
<1>12. wire[s] \in Pipe /\ wire[s] \in Seq(Byte) /\ buff \in Seq(Byte) /\ Capacity - Len(wire[s]) \in Nat
  <2>1. wire[s] \in Pipe BY <1>0, <1>11 DEF TypeOK
  <2>2. buff \in Seq(Byte) BY <1>0, <1>4, <1>8 DEF TypeOK, Socket
  <2>3. wire[s] \in Seq(Byte) /\ Len(wire[s]) \in Nat /\ Len(wire[s]) <= Capacity
    BY <2>1, LenProperties DEF Pipe
  <2> QED BY <2>1, <2>2, <2>3, Constants
<1>13. taken \o rest = buff /\ rest \in Seq(Byte) /\ taken \in Seq(Byte)
  <2> DEFINE j == Capacity - Len(wire[s])
  <2>1. j \in Nat /\ rest = SubSeq(buff, j + 1, Len(buff)) BY <1>5, <1>12
  <2> HIDE DEF j
  <2> QED BY <1>6, <1>12, <2>1, SplitBuffer
<1>14. /\ \A n \in Node, g \in FD : ~(n = k /\ g = fd) => sock'[n][g] = sock[n][g]
       /\ \A n \in Node, g \in FD : sock'[n][g].type = sock[n][g].type /\ sock'[n][g].conn = sock[n][g].conn
       /\ sock'[k][fd].send = rest
  <2>1. sock[k][fd] \in Socket BY <1>0, <1>8 DEF TypeOK
  <2>2. PICK wr : sock' = [sock EXCEPT ![k][fd].send = rest, ![k][fd].writable = wr] BY <1>9
  <2>3. sock' = [sock EXCEPT ![k] = [sock[k] EXCEPT ![fd] = [sock[k][fd] EXCEPT !.send = rest, !.writable = wr]]]
    BY <1>0, <1>8, <2>2 DEF TypeOK, Socket
  <2> DEFINE x == [sock[k][fd] EXCEPT !.send = rest, !.writable = wr]
  <2>4. x.type = sock[k][fd].type /\ x.conn = sock[k][fd].conn /\ x.send = rest BY <2>1 DEF Socket
  <2> HIDE DEF x
  <2>5. sock' = [sock EXCEPT ![k] = [sock[k] EXCEPT ![fd] = x]] BY <2>3 DEF x
  <2> QED BY <1>0, <1>8, <2>4, <2>5 DEF TypeOK
<1>15. \A t \in Stream : t # s => after[t] = wire[t] BY <1>0, <1>11 DEF TypeOK
<1>16. ~gone => after[s] = wire[s] \o taken BY <1>0, <1>11 DEF TypeOK
<1> HIDE DEF after
<1>17. /\ DOMAIN conn' = DOMAIN conn
       /\ \A c \in DOMAIN conn : conn'[c].from = conn[c].from /\ conn'[c].to = conn[c].to
                                 /\ conn'[c].accepted = conn[c].accepted
  <2>1. CASE Stop(k, "writeError", after) BY <1>0, <2>1, StopEffects DEF Endings
  <2>2. CASE conn' = IF gone THEN [conn EXCEPT ![C].reset = @ \cup {k}] ELSE conn
    <3>1. conn[C] \in Connection BY <1>0, <1>10, EndFacts
    <3> QED BY <2>2, <3>1 DEF Connection
  <2> QED BY <1>9, <2>1, <2>2
<1>18. ASSUME NEW c \in DOMAIN conn, NEW n \in {conn[c].from, conn[c].to} PROVE \A b : In(n, c, b)' => In(n, c, b)
  <2>1. n \in Node BY <1>0, EndFacts
  <2>2. NotYet(n, c)' <=> NotYet(n, c) BY <1>14, <1>17, <2>1 DEF NotYet, ConnOf
  <2> QED BY <1>7, <1>14, <2>1, <2>2 DEF In, Mapped, ConnOf
<1>19. ASSUME NEW c \in DOMAIN conn, NEW n \in {conn[c].from, conn[c].to},
              NEW y \in {conn[c].from, conn[c].to}, NEW h,
              y # n, Running(n), wire'[<<c, n>>] = after[<<c, n>>], Bytes(n, y, c, h)
       PROVE  Bytes(n, y, c, h)'
  <2>1. n \in Node /\ y \in Node /\ <<c, n>> \in Stream BY <1>0, EndFacts
  <2>2. CASE <<c, n>> # s
    <3>1. wire'[<<c, n>>] = wire[<<c, n>>] BY <1>15, <1>19, <2>1, <2>2
    <3>2. SameEnd(y, c)
      <4>1. ~(y = k /\ c = C)
        <5> SUFFICES ASSUME y = k, c = C PROVE FALSE OBVIOUS
        <5>1. n = z BY <1>0, <1>3, <1>10, <1>19, EndFacts
        <5> QED BY <2>2, <5>1
      <4>2. ASSUME NEW g \in FD
            PROVE  \/ sock'[y][g] = sock[y][g] /\ recvBuff'[y][g] = recvBuff[y][g]
                   \/ /\ sock[y][g].type # "none" => sock[y][g].conn # c
                      /\ sock'[y][g].type # "none" => sock'[y][g].conn # c
        <5>1. CASE ~(y = k /\ g = fd) BY <1>7, <1>14, <2>1, <5>1
        <5>2. CASE y = k /\ g = fd
          <6>1. sock[y][g].conn = C /\ sock'[y][g].conn = C BY <1>2, <1>8, <1>14, <5>2 DEF ConnOf
          <6> QED BY <4>1, <5>2, <6>1
        <5> QED BY <5>1, <5>2
      <4> QED BY <1>17, <4>2 DEF SameEnd
    <3>3. (\A b : Out(y, c, b)' => Out(y, c, b)) /\ (Gone(y, c)' <=> Gone(y, c)) BY <3>2, SameEndKept
    <3> QED BY <1>7, <1>18, <1>19, <3>1, <3>3, BytesKept
  <2>3. CASE <<c, n>> = s /\ gone
    <3>1. c = C /\ n = z BY <2>3
    <3>2. Gone(n, c) BY <1>0, <1>19, <2>1, <2>3 DEF SmallInv, ClosedFit
    <3>3. \A g \in FD : sock[n][g].type # "none" => sock[n][g].conn # c BY <3>2 DEF Gone, Open, ConnOf
    <3>4. ~NotYet(n, c) BY <3>2, <3>3 DEF Gone, NotYet, ConnOf
    <3>5. \A b : ~In(n, c, b) BY <3>3, <3>4 DEF In, Mapped, ConnOf
    <3>6. \A b : ~In(n, c, b)' BY <1>18, <3>5
    <3> QED BY <3>6, BytesUnread
  <2>4. CASE <<c, n>> = s /\ ~gone
    <3>1. c = C /\ n = z BY <2>4
    <3>2. y = k BY <1>0, <1>10, <1>11, <1>19, <3>1, EndFacts
    <3>3. Open(k, C) /\ Open(k, C)'
      <4>1. Open(k, C) BY <1>2, <1>8 DEF Open
      <4> QED BY <1>14, <4>1 DEF Open, ConnOf
    <3>4. ~Gone(k, C) /\ ~Gone(k, C)' BY <3>3 DEF Gone
    <3>5. Out(k, C, buff) BY <1>2, <1>4, <1>8 DEF Out, HasOut
    <3>6. \A b : Out(k, C, b)' => b = rest
      <4>1. HasOut(k, fd, C) /\ \A g \in FD : HasOut(k, g, C) => g = fd
        BY <1>2, <1>8, <1>10 DEF HasOut
      <4>2. \A g \in FD : HasOut(k, g, C)' <=> HasOut(k, g, C) BY <1>14 DEF HasOut, ConnOf
      <4> QED BY <1>8, <1>14, <4>1, <4>2 DEF Out
    <3>7. ASSUME NEW i \in Seq(Byte), NEW o \in Seq(Byte), In(n, c, i)', Out(y, c, o)'
          PROVE  Framed((i \o (wire[s] \o taken)) \o o, sent[s], h, TRUE)
      <4>1. o = rest /\ In(n, c, i) BY <1>18, <3>1, <3>2, <3>6, <3>7
      <4>2. Out(y, c, buff) /\ ~Gone(y, c) BY <3>1, <3>2, <3>4, <3>5
      <4>3. Framed((i \o wire[s]) \o buff, sent[s], h, TRUE)
        BY <1>12, <1>19, <2>4, <4>1, <4>2 DEF Bytes
      <4>4. Framed((i \o wire[s]) \o (taken \o rest), sent[s], h, TRUE) BY <1>13, <4>3
      <4> DEFINE w == wire[s]
                 msgs == sent[s]
      <4>5. w \in Seq(Byte) BY <1>12
      <4> HIDE DEF w, msgs
      <4>6. Framed((i \o w) \o (taken \o rest), msgs, h, TRUE) BY <4>4 DEF w, msgs
      <4>7. Framed((i \o (w \o taken)) \o rest, msgs, h, TRUE) BY <1>13, <4>5, <4>6, FramedWritten
      <4> QED BY <4>1, <4>7 DEF w, msgs
    <3>8. wire'[<<c, n>>] = wire[s] \o taken /\ sent'[<<c, n>>] = sent[s] BY <1>7, <1>16, <1>19, <2>4
    <3>9. ~Gone(y, c)' BY <3>1, <3>2, <3>4
    <3> QED BY <3>7, <3>8, <3>9 DEF Bytes
  <2> QED BY <2>2, <2>3, <2>4
<1>20. queue \in [Node -> Seq(Event)] /\ << >> \in Seq(Event) /\ DOMAIN << >> = {}
  BY <1>0, EmptySeq DEF TypeOK
<1>21. ASSUME NEW c \in DOMAIN conn, NEW m \in Node, Waiting(queue[m], c) = {}
      PROVE  Waiting(queue'[m], c) = {}
  BY <1>7, <1>20, <1>21, WaitingPop
<1>22. \A t \in Stream : t[1] \notin DOMAIN conn => after[t] \in {wire[t], << >>}
  <2>1. \A t \in Stream : t[1] \notin DOMAIN conn => t # s BY <1>10
  <2> QED BY <1>15, <2>1
<1>23. CASE Stop(k, "writeError", after)
  <2>1. \A m \in Node : m # k => queue'[m] = queue[m] BY <1>7, <1>20 DEF Popped
  <2>2. "writeError" \in Endings BY DEF Endings
  <2>3. PICK w : w = after OBVIOUS
  <2>4. Stop(k, "writeError", w) BY <1>23, <2>3
  <2>5. ASSUME NEW c \in DOMAIN conn, NEW n \in {conn[c].from, conn[c].to},
               NEW y \in {conn[c].from, conn[c].to}, NEW h,
               y # n, wire'[<<c, n>>] = w[<<c, n>>], Running(n), Bytes(n, y, c, h)
        PROVE  Bytes(n, y, c, h)'
    BY <1>19, <2>3, <2>5
  <2>6. \A t \in Stream : t[1] \notin DOMAIN conn => w[t] \in {wire[t], << >>} BY <1>22, <2>3
  <2>7. \A c \in DOMAIN conn : \A n, y \in {conn[c].from, conn[c].to} : \A h :
          y # n /\ n # k /\ wire'[<<c, n>>] = w[<<c, n>>] /\ Running(n) /\ Bytes(n, y, c, h)
            => Bytes(n, y, c, h)'
    BY <2>5
  <2>8. \A c \in DOMAIN conn :
          /\ k \in {conn[c].from, conn[c].to} => NotYet(k, c)
          /\ Waiting(queue[k], c) = {}
          => Waiting(queue'[k], c) = {}
    BY <1>21
  <2>9. \A m \in Node, g \in FD : sock'[m][g].type = sock[m][g].type /\ sock'[m][g].conn = sock[m][g].conn
    BY <1>14
  <2>10. UNCHANGED << sent, handled, tainted >> BY <1>7
  <2> HIDE DEF after, s, gone
  <2> QED BY <2>1, <2>2, <2>4, <2>6, <2>7, <2>8, <2>9, <2>10, StopStreams
<1>24. CASE /\ wire' = after /\ UNCHANGED status
            /\ conn' = IF gone THEN [conn EXCEPT ![C].reset = @ \cup {k}] ELSE conn
  <2>1. \A m \in Node : Running(m)' <=> Running(m) BY <1>24 DEF Running
  <2>2. \A c \in DOMAIN conn : conn'[c].closed = conn[c].closed
    <3>1. conn[C] \in Connection BY <1>0, <1>10, EndFacts
    <3> QED BY <1>24, <3>1 DEF Connection
  <2>3. ASSUME NEW c \in DOMAIN conn, NEW n \in {conn[c].from, conn[c].to},
               NEW y \in {conn[c].from, conn[c].to}, y # n, Running(n), Flow(n, y, c)
        PROVE  Flow(n, y, c)'
    <3>1. \A h : Bytes(n, y, c, h) => Bytes(n, y, c, h)' BY <1>19, <1>24, <2>3
    <3>2. n \in Node BY <1>0, EndFacts
    <3>3. \A h : Lined(n, c, h) => Lined(n, c, h)' BY <1>7, <1>8, <1>20, <3>2, LinedPop
    <3> QED BY <1>7, <2>3, <3>1, <3>3, FlowKept
  <2> QED BY <1>7, <1>14, <1>17, <1>21, <1>22, <1>24, <2>1, <2>2, <2>3, SteadyKeeps
<1> QED BY <1>9, <1>23, <1>24

\* k reads of its socket fd, of connection C, and nothing else happens to sockets.
ReadOf(k, fd, C) ==
  /\ sock[k][fd].type = "data" /\ C = ConnOf(k, fd) /\ sent' = sent
  /\ \A m \in Node, g \in FD : ~(m = k /\ g = fd) =>
       sock'[m][g] = sock[m][g] /\ recvBuff'[m][g] = recvBuff[m][g]
  /\ sock'[k][fd].type \in {"data", "closing"}
  /\ sock'[k][fd].conn = sock[k][fd].conn /\ sock'[k][fd].send = sock[k][fd].send
  /\ \A c \in DOMAIN conn : conn'[c].from = conn[c].from /\ conn'[c].to = conn[c].to
                            /\ conn'[c].accepted = conn[c].accepted

\* That changes nothing of the other streams.
LEMMA ReadElsewhere ==
  ASSUME TypeOK, EndsFit, NEW k \in Node, NEW fd \in FD, NEW C, ReadOf(k, fd, C),
         NEW c \in DOMAIN conn, NEW n \in {conn[c].from, conn[c].to}, NEW y \in {conn[c].from, conn[c].to},
         ~(n = k /\ c = C), wire'[<<c, n>>] = wire[<<c, n>>], NEW h, Bytes(n, y, c, h)
  PROVE  Bytes(n, y, c, h)'
<1> USE DEF ReadOf
<1>1. n \in Node /\ y \in Node BY EndFacts
<1>2. SameEnd(n, c)
  <2>1. ASSUME NEW g \in FD
        PROVE  \/ sock'[n][g] = sock[n][g] /\ recvBuff'[n][g] = recvBuff[n][g]
               \/ /\ sock[n][g].type # "none" => sock[n][g].conn # c
                  /\ sock'[n][g].type # "none" => sock'[n][g].conn # c
    <3>1. CASE ~(n = k /\ g = fd) BY <1>1, <3>1
    <3>2. CASE n = k /\ g = fd
      <4>1. sock[n][g].conn = C /\ sock'[n][g].conn = C /\ c # C BY <3>2 DEF ConnOf
      <4> QED BY <4>1
    <3> QED BY <3>1, <3>2
  <2> QED BY <2>1 DEF SameEnd
<1>3. \A b : In(n, c, b)' => In(n, c, b) BY <1>2, SameEndKept
<1>4. \A g \in FD : /\ sock'[y][g].conn = sock[y][g].conn /\ sock'[y][g].send = sock[y][g].send
                    /\ sock'[y][g].type = "none" <=> sock[y][g].type = "none"
                    /\ sock'[y][g].type \in {"data", "closing"} <=> sock[y][g].type \in {"data", "closing"}
  <2> TAKE g \in FD
  <2>1. CASE ~(y = k /\ g = fd) BY <1>1, <2>1
  <2>2. CASE y = k /\ g = fd BY <2>2
  <2> QED BY <2>1, <2>2
<1>5. \A g \in FD : HasOut(y, g, c)' <=> HasOut(y, g, c) BY <1>4 DEF HasOut, ConnOf
<1>6. \A b : Out(y, c, b)' => Out(y, c, b) BY <1>4, <1>5 DEF Out
<1>7. Open(y, c)' <=> Open(y, c) BY <1>4 DEF Open, ConnOf
<1>8. Gone(y, c)' <=> Gone(y, c) BY <1>7 DEF Gone
<1> QED BY <1>3, <1>6, <1>8, BytesKept

\* What is on the wires when k has read len bytes of connection C.
LeftBy(W, C, k, len) == W = [wire EXCEPT ![<<C, k>>] = SubSeq(@, len + 1, Len(@))]

\* A read that finds the end of the connection keeps the streams.
LEMMA EndOfFileStreams ==
  ASSUME IndInv, StreamInv, NEW k \in Node, NEW len, RecvHandler(k, len), NEW fd, fd = Head(queue[k]).fd,
         EndOfFile(k, fd), UNCHANGED << status, conn >>,
         NEW C, C = ConnOf(k, fd), LeftBy(wire', C, k, len)
  PROVE  StreamInv'
<1>0. TypeOK /\ EndsFit BY DEF IndInv, StreamInv, SmallInv
<1>1. /\ Running(k) /\ queue[k] # << >> /\ Head(queue[k]).type \notin MsgEvents
      /\ fd \in FD /\ sock[k][fd].type = "data" /\ C \in DOMAIN conn /\ <<C, k>> \in Stream
  BY RecvFacts
<1> DEFINE e == [type |-> "PeerSocketClose", fd |-> fd]
           evs == << e >>
<1>2. /\ queue' = Popped(k, evs)
      /\ sock' = [sock EXCEPT ![k][fd].type = "closing"]
      /\ recvBuff' = [recvBuff EXCEPT ![k][fd] = << >>]
      /\ UNCHANGED << sent, handled, tainted >>
  BY DEF EndOfFile, RecvHandler, history
<1>3. evs \in Seq(Event) /\ \A j \in DOMAIN evs : evs[j].type \notin MsgEvents
  <2>1. e \in Event /\ e.type \notin MsgEvents BY <1>1 DEF Event, SocketEvents, MsgEvents
  <2> HIDE DEF e
  <2>2. DOMAIN evs = {1} /\ evs[1] = e OBVIOUS
  <2> QED BY <2>1, <2>2
<1> HIDE DEF evs
<1>4. /\ \A m \in Node, g \in FD : ~(m = k /\ g = fd) => sock'[m][g] = sock[m][g] /\ recvBuff'[m][g] = recvBuff[m][g]
      /\ sock'[k][fd].type = "closing" /\ sock'[k][fd].conn = sock[k][fd].conn
      /\ sock'[k][fd].send = sock[k][fd].send
  <2>1. sock[k][fd] \in Socket BY <1>0, <1>1 DEF TypeOK
  <2> QED BY <1>0, <1>1, <1>2, <2>1 DEF TypeOK, Socket
<1>5. \A s \in Stream : s # <<C, k>> => wire'[s] = wire[s] BY <1>0, <1>1 DEF LeftBy, TypeOK
<1>6. queue \in [Node -> Seq(Event)] BY <1>0 DEF TypeOK
<1>7. ASSUME NEW c \in DOMAIN conn, NEW m \in Node, Waiting(queue[m], c) = {}
      PROVE  Waiting(queue'[m], c) = {}
  BY <1>1, <1>2, <1>3, <1>6, <1>7, WaitingPop
<1>8. \A b : ~In(k, C, b)'
  <2>1. ~NotYet(k, C) BY <1>1, ThereAlready
  <2>2. ~NotYet(k, C)' BY <1>1, <1>4, <2>1, ZenonT(40) DEF NotYet, ConnOf
  <2>3. \A g \in FD : sock[k][g].type # "none" /\ ConnOf(k, g) = C => g = fd
    <3>1. sock[k][fd].type # "none" BY <1>1
    <3> QED BY <1>1, <3>1 DEF IndInv, SocketsFit
  <2>4. \A g \in FD : ~(sock'[k][g].type = "data" /\ sock'[k][g].conn = C)
    <3> TAKE g \in FD
    <3>1. CASE g = fd BY <1>4, <3>1
    <3>2. CASE g # fd
      <4>1. sock'[k][g] = sock[k][g] BY <1>4, <3>2
      <4> QED BY <2>3, <3>2, <4>1 DEF ConnOf
    <3> QED BY <3>1, <3>2
  <2> QED BY <2>2, <2>4 DEF In, Mapped, ConnOf
<1>9. ASSUME NEW c \in DOMAIN conn, NEW n \in {conn[c].from, conn[c].to},
             NEW y \in {conn[c].from, conn[c].to}, Flow(n, y, c)
      PROVE  Flow(n, y, c)'
  <2>1. n \in Node /\ <<c, n>> \in Stream BY <1>0, EndFacts
  <2>2. \A h : Lined(n, c, h) => Lined(n, c, h)' BY <1>1, <1>2, <1>3, <1>6, <2>1, LinedPop
  <2>3. \A h : Bytes(n, y, c, h) => Bytes(n, y, c, h)'
    <3>1. CASE n = k /\ c = C
      <4>1. \A b : ~In(n, c, b)' BY <1>8, <3>1
      <4> QED BY <4>1, BytesUnread
    <3>2. CASE ~(n = k /\ c = C)
      <4>1. <<c, n>> # <<C, k>> BY <3>2
      <4>2. wire'[<<c, n>>] = wire[<<c, n>>] BY <1>5, <2>1, <4>1
      <4>3. ReadOf(k, fd, C) BY <1>1, <1>2, <1>4 DEF ReadOf
      <4>4. ASSUME NEW h, Bytes(n, y, c, h) PROVE Bytes(n, y, c, h)'
        BY <1>0, <1>1, <3>2, <4>2, <4>3, <4>4, ReadElsewhere
      <4> QED BY <4>4
    <3> QED BY <3>1, <3>2
  <2> QED BY <1>2, <1>9, <2>2, <2>3, FlowKept
<1>10. \A m \in Node, g \in FD :
           /\ sock'[m][g].type # "none" => sock[m][g].type # "none"
           /\ sock'[m][g].conn = sock[m][g].conn
           /\ sock'[m][g].type = "connect" => sock[m][g].type = "connect"
  <2> TAKE m \in Node, g \in FD
  <2>1. CASE m = k /\ g = fd BY <1>1, <1>4, <2>1
  <2>2. CASE ~(m = k /\ g = fd) BY <1>4, <2>2
  <2> QED BY <2>1, <2>2
<1>11. \A m \in Node : Running(m)' <=> Running(m) BY DEF Running
<1>12. \A s \in Stream : s[1] \notin DOMAIN conn => wire'[s] \in {wire[s], << >>} BY <1>1, <1>5
<1> QED BY <1>2, <1>7, <1>9, <1>10, <1>11, <1>12, SteadyKeeps

\* What is read and what is left of a wire.
LEMMA SplitWire ==
  ASSUME NEW w \in Seq(Byte), NEW len \in 0..Len(w)
  PROVE  /\ SubSeq(w, 1, len) \o SubSeq(w, len + 1, Len(w)) = w
         /\ SubSeq(w, 1, len) \in Seq(Byte) /\ SubSeq(w, len + 1, Len(w)) \in Seq(Byte)
<1> DEFINE L == Len(w)
<1>1. L \in Nat /\ SubSeq(w, 1, L) = w /\ \A i \in 1..L : w[i] \in Byte
  BY LenProperties, ElementOfSeq, SubSeqFull
<1>2. len \in 0..L OBVIOUS
<1>3. SubSeq(w, 1, len) \o SubSeq(w, len + 1, L) = SubSeq(w, 1, L)
  <2>1. 1 \in 1..(Len(w) + 1) /\ len \in (1 - 1)..Len(w) /\ L \in len..Len(w) BY <1>1, <1>2
  <2> QED BY <2>1, ConcatAdjacentSubSeq
<1> HIDE DEF L
<1>4. SubSeq(w, 1, len) \in Seq(Byte)
  <2>1. \A i \in 1..len : w[i] \in Byte BY <1>1, <1>2
  <2> QED BY <1>1, <1>2, <2>1, SubSeqProperties
<1>5. SubSeq(w, len + 1, L) \in Seq(Byte)
  <2>1. \A i \in (len + 1)..L : w[i] \in Byte BY <1>1, <1>2
  <2> QED BY <1>1, <1>2, <2>1, SubSeqProperties
<1> QED BY <1>1, <1>3, <1>4, <1>5 DEF L

\* Concatenation from the other side.
LEMMA Regroup ==
  ASSUME NEW a \in Seq(Byte), NEW b \in Seq(Byte), NEW c \in Seq(Byte)
  PROVE  a \o (b \o c) = (a \o b) \o c
BY ConcatAssociative, SMTT(20)

\* These are the messages that follow the first h.
Follow(got, msgs, h) == \A k \in 1..Len(got) : got[k] = msgs[h + k]

\* What the parsing loop takes does not depend on what is still to come.
LEMMA FramedRead ==
  ASSUME NEW i \in Seq(Byte), NEW a \in Seq(Byte), NEW b \in Seq(Byte), NEW o \in Seq(Byte),
         NEW msgs \in Seq(Msg), NEW h \in 0..Len(msgs), NEW whole,
         Framed((i \o (a \o b)) \o o, msgs, h, whole),
         NEW f, f = Len(Parsed(i \o a))
  PROVE  /\ f \in 0..(Len(msgs) - h) /\ Parsed(i \o a) \in Seq(Msg)
         /\ Follow(Parsed(i \o a), msgs, h)
         /\ Framed((Remain(i \o a) \o b) \o o, msgs, h + f, whole)
<1>1. i \o a \in Seq(Byte) /\ a \o b \in Seq(Byte) /\ b \o o \in Seq(Byte) BY ConcatProperties
<1>2. i \o (a \o b) = (i \o a) \o b BY Regroup
<1> DEFINE p == i \o a
<1>3. p \in Seq(Byte) BY <1>1
<1> HIDE DEF p
<1>4. (p \o b) \o o = p \o (b \o o) BY <1>3, Regroup
<1>5. Framed(p \o (b \o o), msgs, h, whole) BY <1>2, <1>4 DEF p
<1> DEFINE rest == b \o o
<1>6. rest \in Seq(Byte) /\ Framed(p \o rest, msgs, h, whole) BY <1>1, <1>5
<1> HIDE DEF rest
<1>7. PICK g \in 0..(Len(msgs) - h) :
        /\ Parsed(p) \in Seq(Msg) /\ Len(Parsed(p)) = g
        /\ \A k \in 1..g : Parsed(p)[k] = msgs[h + k]
        /\ Framed(Remain(p) \o rest, msgs, h + g, whole)
  BY <1>3, <1>6, FramedParse
<1>8. f = g /\ Follow(Parsed(p), msgs, h) BY <1>7 DEF p, Follow
<1>9. Remain(p) \in Seq(Byte) BY <1>3, RemainFits
<1> DEFINE r == Remain(p)
<1>10. r \in Seq(Byte) BY <1>9
<1> HIDE DEF r
<1>11. (r \o b) \o o = r \o (b \o o) BY <1>10, Regroup
<1>12. Framed((r \o b) \o o, msgs, h + f, whole) BY <1>7, <1>8, <1>11 DEF r, rest
<1> QED BY <1>7, <1>8, <1>12 DEF p, r

\* The events for what is read.
LEMMA EventsRead ==
  ASSUME NEW n \in Node, NEW fd \in FD, ConnOf(n, fd) \in 1..MaxConn, NEW got \in Seq(Message),
         NEW evs, evs = [j \in DOMAIN got |-> MsgEvent(n, fd, got[j])]
  PROVE  /\ evs \in Seq(Event) /\ Len(evs) = Len(got)
         /\ \A j \in 1..Len(got) :
              /\ evs[j].type \in {"PeerRecvNotifyPeerId", "PeerRecvMsg"} /\ evs[j].conn = ConnOf(n, fd)
              /\ evs[j].msg = got[j]
              /\ evs[j].type = "PeerRecvNotifyPeerId" => got[j].num = 1
<1>1. [k \in DOMAIN got |-> MsgEvent(n, fd, got[k])] \in Seq(Event) BY MsgEventsType
<1>2. evs \in Seq(Event) BY <1>1
<1>3. DOMAIN got = 1..Len(got) /\ Len(got) \in Nat BY LenProperties
<1>4. Len(evs) = Len(got)
  <2>1. evs = [j \in 1..Len(got) |-> MsgEvent(n, fd, got[j])] BY <1>3
  <2> QED BY <1>3, <2>1
<1>5. ASSUME NEW j \in 1..Len(got)
      PROVE  /\ evs[j].type \in {"PeerRecvNotifyPeerId", "PeerRecvMsg"} /\ evs[j].conn = ConnOf(n, fd)
             /\ evs[j].msg = got[j]
             /\ evs[j].type = "PeerRecvNotifyPeerId" => got[j].num = 1
  <2>1. PICK m : m = got[j] OBVIOUS
  <2>2. evs[j] = MsgEvent(n, fd, m) BY <1>3, <2>1
  <2>3. PICK t : t = IF m.num = 1 /\ conn[ConnOf(n, fd)].to = n THEN "PeerRecvNotifyPeerId" ELSE "PeerRecvMsg"
    OBVIOUS
  <2>4. evs[j] = [type |-> t, fd |-> fd, conn |-> ConnOf(n, fd), msg |-> m] BY <2>2, <2>3 DEF MsgEvent
  <2>5. t \in {"PeerRecvNotifyPeerId", "PeerRecvMsg"} /\ (t = "PeerRecvNotifyPeerId" => m.num = 1) BY <2>3
  <2> QED BY <2>1, <2>4, <2>5
<1> QED BY <1>2, <1>4, <1>5

\* They join the line.
LEMMA ReadInLine ==
  ASSUME NEW c, NEW q \in Seq(Event), q # << >>, Waiting(q, c) = {},
         NEW done \in Nat, NEW msgs \in Seq(Msg), NEW h \in done..Len(msgs), InLine(q, c, done, msgs, h),
         \A j \in 1..Len(msgs) : msgs[j].num = j,
         NEW evs \in Seq(Event), NEW f \in 0..(Len(msgs) - h), Len(evs) = f,
         \A j \in 1..f :
           /\ evs[j].type \in {"PeerRecvNotifyPeerId", "PeerRecvMsg"} /\ evs[j].conn = c
           /\ evs[j].msg = msgs[h + j]
           /\ evs[j].type = "PeerRecvNotifyPeerId" => msgs[h + j].num = 1
  PROVE  InLine(Tail(q) \o evs, c, done, msgs, h + f)
<1>1. Len(msgs) \in Nat BY LenProperties
<1>2. f \in Nat /\ h \in Nat /\ done <= h /\ h + f <= Len(msgs) BY <1>1
<1>3. ASSUME NEW j \in 1..f
      PROVE  /\ evs[j].type \in {"PeerRecvNotifyPeerId", "PeerRecvMsg"} /\ evs[j].conn = c
             /\ evs[j].msg = msgs[h + j] /\ msgs[h + j].num = h + j
             /\ evs[j].type = "PeerRecvNotifyPeerId" => evs[j].msg.num = 1
  <2>1. h + j \in 1..Len(msgs) BY <1>1, <1>2
  <2> QED BY <2>1
<1>4. PICK r : r = Tail(q) \o evs OBVIOUS
<1>5. \A j \in 1..f :
        /\ evs[j].type \in {"PeerRecvNotifyPeerId", "PeerRecvMsg"} /\ evs[j].conn = c
        /\ evs[j].msg = msgs[h + j] /\ msgs[h + j].num = h + j
        /\ evs[j].type = "PeerRecvNotifyPeerId" => evs[j].msg.num = 1
  BY <1>3
<1>6. InLine(r, c, done, msgs, h + f) BY <1>2, <1>4, <1>5, InLineRead
<1> QED BY <1>4, <1>6

Brings(evs, got, c) ==
  /\ evs \in Seq(Event) /\ Len(evs) = Len(got)
  /\ \A j \in 1..Len(got) :
       /\ evs[j].type \in {"PeerRecvNotifyPeerId", "PeerRecvMsg"} /\ evs[j].conn = c
       /\ evs[j].msg = got[j]
       /\ evs[j].type = "PeerRecvNotifyPeerId" => got[j].num = 1

\* k takes len of the bytes w off the wire, got off the buffer that makes, and queues
\* the events evs.
Takes(k, fd, C, w, len, old, buf, got, evs) ==
  /\ ReadOf(k, fd, C) /\ sock' = sock /\ handled' = handled
  /\ w = wire[<<C, k>>] /\ len \in 0..Len(w) /\ wire'[<<C, k>>] = SubSeq(w, len + 1, Len(w))
  /\ old = recvBuff[k][fd] /\ buf = old \o SubSeq(w, 1, len) /\ recvBuff'[k][fd] = Remain(buf)
  /\ got = Parsed(buf) /\ Brings(evs, got, C) /\ queue' = Popped(k, evs)

\* The stream that is read: its messages go from the buffer to the queue.
LEMMA FlowRead ==
  ASSUME IndInv, StreamInv, NEW k \in Node, NEW fd \in FD, NEW C,
         queue[k] # << >>, Waiting(queue[k], C) = {},
         NEW w, NEW len, NEW old, NEW buf, NEW got, NEW evs,
         Takes(k, fd, C, w, len, old, buf, got, evs),
         NEW y \in {conn[C].from, conn[C].to}, y # k, Flow(k, y, C)
  PROVE  Flow(k, y, C)'
<1> USE DEF Takes
<1>0. TypeOK /\ EndsFit /\ NumbersFit BY DEF IndInv, StreamInv, SmallInv
<1>1. /\ sock[k][fd].type = "data" /\ C = ConnOf(k, fd) /\ sent' = sent
      /\ C \in DOMAIN conn /\ k \in {conn[C].from, conn[C].to} /\ ~NotYet(k, C)
      /\ \A g \in FD : sock[k][g].type # "none" /\ ConnOf(k, g) = C => g = fd
  <2>1. sock[k][fd].type = "data" /\ C = ConnOf(k, fd) /\ sent' = sent BY DEF ReadOf
  <2>2. sock[k][fd].type # "none" /\ sock[k][fd].type \in {"data", "closing"} BY <2>1
  <2> QED BY <2>1, <2>2, ThereAlready DEF IndInv, SocketsFit
<1>2. PICK s, msgs, done, rest : s = <<C, k>> /\ msgs = sent[s] /\ done = Len(handled[s])
                                 /\ rest = SubSeq(w, len + 1, Len(w))
  OBVIOUS
<1>3. s \in Stream /\ C \in 1..MaxConn /\ y \in Node BY <1>0, <1>1, <1>2, EndFacts
<1>4. /\ msgs \in Seq(Msg) /\ Len(msgs) \in Nat /\ DOMAIN msgs = 1..Len(msgs) /\ done \in Nat
      /\ w \in Seq(Byte)
  BY <1>0, <1>2, <1>3, StreamTypes
<1>5. old \in Seq(Byte) BY <1>0 DEF TypeOK
<1>6. In(k, C, old) BY <1>1 DEF In, Mapped
<1>7. \A b : In(k, C, b)' => b = Remain(buf)
  <2>1. ~NotYet(k, C)'
    <3>1. conn'[C].to = conn[C].to /\ conn'[C].accepted = conn[C].accepted BY <1>1 DEF ReadOf
    <3> QED BY <1>1, <3>1 DEF NotYet, ConnOf
  <2> QED BY <1>1, <2>1 DEF In, Mapped, ConnOf
<1>8. (\A b : Out(y, C, b)' => Out(y, C, b)) /\ (Gone(y, C)' <=> Gone(y, C))
  <2>1. SameEnd(y, C)
    <3>1. conn'[C].to = conn[C].to /\ conn'[C].accepted = conn[C].accepted BY <1>1 DEF ReadOf
    <3>2. \A g \in FD : sock'[y][g] = sock[y][g] /\ recvBuff'[y][g] = recvBuff[y][g] BY <1>3 DEF ReadOf
    <3> QED BY <3>1, <3>2 DEF SameEnd
  <2> QED BY <2>1, SameEndKept
<1>9. PICK f : f = Len(got) OBVIOUS
<1>10. PICK h \in done..Len(msgs) : Lined(k, C, h) /\ Bytes(k, y, C, h) BY <1>2 DEF Flow
<1>11. h \in 0..Len(msgs) /\ h \in Nat /\ done <= h BY <1>4, <1>10
<1>12. ASSUME NEW o \in Seq(Byte), Out(y, C, o), NEW whole, whole = ~Gone(y, C)
       PROVE  /\ f \in 0..(Len(msgs) - h) /\ got \in Seq(Msg)
              /\ Follow(got, msgs, h)
              /\ Framed((Remain(buf) \o rest) \o o, msgs, h + f, whole)
  <2>1. Framed((old \o w) \o o, msgs, h, whole) BY <1>2, <1>5, <1>6, <1>10, <1>12 DEF Bytes
  <2>2. PICK a : a = SubSeq(w, 1, len) OBVIOUS
  <2>3. a \in Seq(Byte) /\ rest \in Seq(Byte) /\ a \o rest = w BY <1>2, <1>4, <2>2, SplitWire
  <2>4. Framed((old \o (a \o rest)) \o o, msgs, h, whole) BY <2>1, <2>3
  <2>5. f = Len(Parsed(old \o a)) BY <1>9, <2>2
  <2>6. /\ f \in 0..(Len(msgs) - h) /\ Parsed(old \o a) \in Seq(Msg)
        /\ Follow(Parsed(old \o a), msgs, h)
        /\ Framed((Remain(old \o a) \o rest) \o o, msgs, h + f, whole)
    BY <1>4, <1>5, <1>11, <2>3, <2>4, <2>5, FramedRead, ZenonT(40)
  <2> QED BY <2>2, <2>6
<1>13. PICK o \in Seq(Byte) : Out(y, C, o) BY <1>0, <1>3, SomeOut
<1>14. /\ f \in 0..(Len(msgs) - h) /\ got \in Seq(Msg) /\ \A j \in 1..f : got[j] = msgs[h + j]
  BY <1>9, <1>12, <1>13 DEF Follow
<1>15. Lined(k, C, h + f)'
  <2>1. PICK q : q = queue[k] OBVIOUS
  <2>2. q \in Seq(Event) /\ q # << >> /\ Waiting(q, C) = {} BY <1>0, <2>1 DEF TypeOK
  <2>3. InLine(q, C, done, msgs, h) BY <1>2, <1>10, <2>1 DEF Lined
  <2>5. \A j \in 1..Len(msgs) : msgs[j].num = j BY <1>0, <1>2, <1>3, <1>4 DEF NumbersFit
  <2>6. evs \in Seq(Event) /\ Len(evs) = f BY <1>9 DEF Brings
  <2>7. InLine(Tail(q) \o evs, C, done, msgs, h + f)
    <3>1. ASSUME NEW j \in 1..f
          PROVE  /\ evs[j].type \in {"PeerRecvNotifyPeerId", "PeerRecvMsg"} /\ evs[j].conn = C
                 /\ evs[j].msg = msgs[h + j]
                 /\ evs[j].type = "PeerRecvNotifyPeerId" => msgs[h + j].num = 1
      <4>1. j \in 1..Len(got) /\ got[j] = msgs[h + j] BY <1>9, <1>14
      <4> QED BY <4>1, ZenonT(40) DEF Brings
    <3> QED BY <1>4, <1>10, <1>14, <2>2, <2>3, <2>5, <2>6, <3>1, ReadInLine
  <2>8. queue'[k] = Tail(q) \o evs BY <1>0, <2>1 DEF Popped, TypeOK
  <2>9. sent'[s] = msgs /\ Len(handled'[s]) = done BY <1>1, <1>2
  <2> QED BY <1>2, <2>7, <2>8, <2>9 DEF Lined
<1>16. Bytes(k, y, C, h + f)'
  <2>1. ASSUME NEW i \in Seq(Byte), NEW p \in Seq(Byte), In(k, C, i)', Out(y, C, p)',
               NEW whole, whole = (~Gone(y, C)')
        PROVE  Framed((i \o rest) \o p, msgs, h + f, whole)
    <3>1. i = Remain(buf) /\ Out(y, C, p) /\ whole = ~Gone(y, C) BY <1>7, <1>8, <2>1
    <3>2. Framed((Remain(buf) \o rest) \o p, msgs, h + f, whole) BY <1>12, <3>1
    <3> QED BY <3>1, <3>2
  <2>2. sent'[s] = msgs /\ wire'[s] = rest BY <1>1, <1>2
  <2> QED BY <1>2, <2>1, <2>2 DEF Bytes
<1>17. h + f \in Len(handled'[s])..Len(sent'[s])
  <2>1. sent'[s] = msgs /\ Len(handled'[s]) = done BY <1>1, <1>2
  <2> QED BY <1>4, <1>11, <1>14, <2>1
<1> QED BY <1>2, <1>15, <1>16, <1>17 DEF Flow

\* The end of a process in a read keeps the streams.
LEMMA ReadStopStreams ==
  ASSUME IndInv, StreamInv, NEW k \in Node, NEW fd \in FD, NEW C, C = ConnOf(k, fd),
         sock[k][fd].type = "data", sock' = sock,
         \A m \in Node, g \in FD : ~(m = k /\ g = fd) => recvBuff'[m][g] = recvBuff[m][g],
         UNCHANGED << sent, handled, tainted >>,
         NEW len, NEW W, LeftBy(W, C, k, len),
         NEW why \in Endings, Stop(k, why, W),
         \A m \in Node : m # k => queue'[m] = queue[m],
         \A c \in DOMAIN conn :
           /\ k \in {conn[c].from, conn[c].to} => NotYet(k, c)
           /\ Waiting(queue[k], c) = {}
           => Waiting(queue'[k], c) = {}
  PROVE  StreamInv'
<1>0. TypeOK /\ EndsFit BY DEF IndInv, StreamInv, SmallInv
<1>1. Stop(k, why, W) /\ UNCHANGED << sent, handled, tainted >> OBVIOUS
<1>2. DOMAIN conn' = DOMAIN conn /\ \A c \in DOMAIN conn :
        conn'[c].from = conn[c].from /\ conn'[c].to = conn[c].to /\ conn'[c].accepted = conn[c].accepted
  BY <1>0, <1>1, StopEffects
<1>3. ReadOf(k, fd, C) BY <1>2 DEF ReadOf
<1>5. C \in DOMAIN conn /\ k \in {conn[C].from, conn[C].to}
  <2>1. sock[k][fd].type \in {"data", "closing"} OBVIOUS
  <2> QED BY <2>1, ThereAlready
<1>4. \A s \in Stream : s # <<C, k>> => W[s] = wire[s]
  <2>1. <<C, k>> \in Stream BY <1>0, <1>5, EndFacts
  <2> QED BY <1>0, <2>1 DEF LeftBy, TypeOK
<1>6. \A s \in Stream : s[1] \notin DOMAIN conn => W[s] \in {wire[s], << >>}
  <2>1. \A s \in Stream : s[1] \notin DOMAIN conn => s # <<C, k>> BY <1>5
  <2> QED BY <1>4, <2>1
<1>7. ASSUME NEW c \in DOMAIN conn, NEW n \in {conn[c].from, conn[c].to},
             NEW y \in {conn[c].from, conn[c].to}, NEW h, n # k,
             wire'[<<c, n>>] = W[<<c, n>>], Bytes(n, y, c, h)
      PROVE  Bytes(n, y, c, h)'
  <2>1. <<c, n>> \in Stream BY <1>0, EndFacts
  <2>2. <<c, n>> # <<C, k>> BY <1>7
  <2>3. wire'[<<c, n>>] = wire[<<c, n>>] BY <1>4, <1>7, <2>1, <2>2
  <2>4. ~(n = k /\ c = C) BY <1>7
  <2> QED BY <1>0, <1>3, <1>7, <2>3, <2>4, ReadElsewhere
<1>8. \A c \in DOMAIN conn : \A n, y \in {conn[c].from, conn[c].to} : \A h :
        y # n /\ n # k /\ wire'[<<c, n>>] = W[<<c, n>>] /\ Running(n) /\ Bytes(n, y, c, h) => Bytes(n, y, c, h)'
  BY <1>7
<1>9. \A m \in Node, g \in FD : sock'[m][g].type = sock[m][g].type /\ sock'[m][g].conn = sock[m][g].conn
  OBVIOUS
<1> QED BY <1>1, <1>6, <1>8, <1>9, StopStreams

\* A read that takes bytes keeps the streams.
LEMMA ParseStreams ==
  ASSUME IndInv, StreamInv, NEW k \in Node, NEW len, RecvHandler(k, len), NEW fd, fd = Head(queue[k]).fd,
         NEW C, C = ConnOf(k, fd), NEW w, w = wire[<<C, k>>], NEW W,
         LeftBy(W, C, k, len),
         Parse(k, fd, recvBuff[k][fd] \o SubSeq(w, 1, len), W)
  PROVE  StreamInv'
<1>0. TypeOK /\ EndsFit BY DEF IndInv, StreamInv, SmallInv
<1>1. /\ Running(k) /\ queue[k] # << >> /\ Head(queue[k]).type \notin MsgEvents
      /\ fd \in FD /\ sock[k][fd].type = "data" /\ C \in DOMAIN conn /\ C \in 1..MaxConn
      /\ <<C, k>> \in Stream /\ recvBuff[k][fd] \o SubSeq(w, 1, len) \in Seq(Byte)
      /\ \A j \in DOMAIN queue[k] : queue[k][j].type \in MsgEvents => queue[k][j].conn # C
  BY RecvFacts
<1>2. PICK old : old = recvBuff[k][fd] OBVIOUS
<1>3. PICK buf : buf = old \o SubSeq(w, 1, len) OBVIOUS
<1>4. PICK got : got = Parsed(buf) OBVIOUS
<1>5. PICK evs : evs = [j \in DOMAIN got |-> MsgEvent(k, fd, got[j])] OBVIOUS
<1>6. Parse(k, fd, buf, W) BY <1>2, <1>3
<1>7. /\ queue' = Popped(k, evs) /\ recvBuff' = [recvBuff EXCEPT ![k][fd] = Remain(buf)] /\ sock' = sock
      /\ \/ wire' = W /\ UNCHANGED << status, conn >>
         \/ Stop(k, "badMessage", W)
  BY <1>4, <1>5, <1>6 DEF Parse
<1>8. UNCHANGED << sent, handled, tainted >> /\ len \in 0..Len(w) BY DEF RecvHandler, history
<1>9. got \in Seq(Message)
  <2>1. buf \in Seq(Byte) BY <1>1, <1>2, <1>3
  <2> QED BY <1>4, <2>1, ParsedType
<1>10. /\ evs \in Seq(Event) /\ Len(evs) = Len(got)
       /\ \A j \in 1..Len(got) :
            /\ evs[j].type \in {"PeerRecvNotifyPeerId", "PeerRecvMsg"} /\ evs[j].conn = C
            /\ evs[j].msg = got[j]
            /\ evs[j].type = "PeerRecvNotifyPeerId" => got[j].num = 1
  <2>1. ConnOf(k, fd) \in 1..MaxConn BY <1>1
  <2>2. /\ evs \in Seq(Event) /\ Len(evs) = Len(got)
        /\ \A j \in 1..Len(got) :
             /\ evs[j].type \in {"PeerRecvNotifyPeerId", "PeerRecvMsg"} /\ evs[j].conn = ConnOf(k, fd)
             /\ evs[j].msg = got[j]
             /\ evs[j].type = "PeerRecvNotifyPeerId" => got[j].num = 1
    BY <1>1, <1>5, <1>9, <2>1, EventsRead, SMTT(20)
  <2> QED BY <2>2
<1>11. \A j \in DOMAIN evs : evs[j].conn = C
  <2>1. DOMAIN evs = 1..Len(evs) BY <1>10, LenProperties
  <2> QED BY <1>10, <2>1
<1>12. /\ recvBuff'[k][fd] = Remain(buf)
       /\ \A m \in Node, g \in FD : ~(m = k /\ g = fd) => recvBuff'[m][g] = recvBuff[m][g]
  BY <1>0, <1>1, <1>7 DEF TypeOK
<1>13. ~NotYet(k, C) /\ k \in {conn[C].from, conn[C].to}
  <2>1. sock[k][fd].type \in {"data", "closing"} BY <1>1
  <2> QED BY <1>1, <2>1, ThereAlready
<1>14. Waiting(queue[k], C) = {} BY <1>1 DEF Waiting
<1>15. queue \in [Node -> Seq(Event)] BY <1>0 DEF TypeOK
<1>16. ASSUME NEW c \in DOMAIN conn, NEW m \in Node,
              m \in {conn[c].from, conn[c].to} => NotYet(m, c), Waiting(queue[m], c) = {}
       PROVE  Waiting(queue'[m], c) = {}
  <2>1. m = k => c # C BY <1>13, <1>16
  <2>2. m = k => \A j \in DOMAIN evs : evs[j].type \notin MsgEvents \/ evs[j].conn # c BY <1>11, <2>1
  <2> QED BY <1>1, <1>7, <1>10, <1>15, <1>16, <2>2, WaitingPop
<1>17. (\A s \in Stream : s # <<C, k>> => W[s] = wire[s]) /\ W[<<C, k>>] = SubSeq(w, len + 1, Len(w))
  BY <1>0, <1>1 DEF LeftBy, TypeOK
<1>19. CASE Stop(k, "badMessage", W)
  <2>1. \A m \in Node : m # k => queue'[m] = queue[m] BY <1>7, <1>15 DEF Popped
  <2>2. \A c \in DOMAIN conn :
          /\ k \in {conn[c].from, conn[c].to} => NotYet(k, c)
          /\ Waiting(queue[k], c) = {}
          => Waiting(queue'[k], c) = {}
    BY <1>16
  <2>3. "badMessage" \in Endings /\ sock' = sock BY <1>7 DEF Endings
  <2> QED BY <1>1, <1>8, <1>12, <1>19, <2>1, <2>2, <2>3, ReadStopStreams
<1>20. CASE wire' = W /\ UNCHANGED << status, conn >>
  <2>1. ReadOf(k, fd, C) BY <1>1, <1>7, <1>8, <1>12, <1>20 DEF ReadOf
  <2>2. ASSUME NEW c \in DOMAIN conn, NEW n \in {conn[c].from, conn[c].to},
               NEW y \in {conn[c].from, conn[c].to}, y # n, Flow(n, y, c)
        PROVE  Flow(n, y, c)'
    <3>1. n \in Node /\ <<c, n>> \in Stream BY <1>0, EndFacts
    <3>2. CASE n = k /\ c = C
      <4>1. Flow(k, y, C) /\ y # k /\ y \in {conn[C].from, conn[C].to} BY <2>2, <3>2
      <4>2. wire'[<<C, k>>] = SubSeq(w, len + 1, Len(w)) BY <1>17, <1>20
      <4>3. sock' = sock /\ handled' = handled BY <1>7, <1>8
      <4>4. Flow(k, y, C)'
        <5>1. fd \in FD /\ len \in 0..Len(w) /\ queue' = Popped(k, evs) /\ recvBuff'[k][fd] = Remain(buf)
          BY <1>1, <1>7, <1>8, <1>12
        <5>2. Brings(evs, got, C) BY <1>10 DEF Brings
        <5>3. Takes(k, fd, C, w, len, old, buf, got, evs)
          BY <1>2, <1>3, <1>4, <2>1, <4>2, <4>3, <5>1, <5>2 DEF Takes
        <5> QED BY <1>1, <1>14, <4>1, <5>3, FlowRead
      <4> QED BY <3>2, <4>4
    <3>3. CASE ~(n = k /\ c = C)
      <4>1. <<c, n>> # <<C, k>> BY <3>3
      <4>2. wire'[<<c, n>>] = wire[<<c, n>>] BY <1>17, <1>20, <3>1, <4>1
      <4>3. ASSUME NEW h, Bytes(n, y, c, h) PROVE Bytes(n, y, c, h)'
        BY <1>0, <1>1, <2>1, <3>3, <4>2, <4>3, ReadElsewhere, ZenonT(40)
      <4>4. n = k => \A j \in DOMAIN evs : evs[j].conn # c BY <1>11, <3>3
      <4>5. \A h : Lined(n, c, h) => Lined(n, c, h)'
        BY <1>1, <1>7, <1>8, <1>10, <1>15, <3>1, <4>4, LinedPop
      <4> QED BY <1>8, <2>2, <4>3, <4>5, FlowKept
    <3> QED BY <3>2, <3>3
  <2>3. \A m \in Node : Running(m)' <=> Running(m) BY <1>20 DEF Running
  <2>4. \A s \in Stream : s[1] \notin DOMAIN conn => wire'[s] \in {wire[s], << >>}
    <3>1. \A s \in Stream : s[1] \notin DOMAIN conn => s # <<C, k>> BY <1>1
    <3> QED BY <1>17, <1>20, <3>1
  <2> QED BY <1>7, <1>8, <1>16, <1>20, <2>2, <2>3, <2>4, SteadyKeeps
<1> QED BY <1>7, <1>19, <1>20

\* RecvHandler keeps the streams.
LEMMA RecvStreams ==
  ASSUME IndInv, StreamInv, NEW k \in Node, NEW len, RecvHandler(k, len)
  PROVE  StreamInv'
<1>1. PICK fd : fd = Head(queue[k]).fd OBVIOUS
<1>2. PICK C : C = ConnOf(k, fd) OBVIOUS
<1>3. PICK w : w = wire[<<C, k>>] OBVIOUS
<1>4. PICK W : W = [wire EXCEPT ![<<C, k>>] = SubSeq(@, len + 1, Len(@))] OBVIOUS
<1>a. LeftBy(W, C, k, len) BY <1>4 DEF LeftBy
<1>5. \/ EndOfFile(k, fd) /\ wire' = W /\ UNCHANGED << status, conn >>
      \/ Stop(k, "recvError", W) /\ queue' = Popped(k, << >>) /\ UNCHANGED << sock, recvBuff >>
      \/ Parse(k, fd, recvBuff[k][fd] \o SubSeq(w, 1, len), W)
  BY <1>1, <1>2, <1>3, <1>4 DEF RecvHandler
<1>6. CASE EndOfFile(k, fd) /\ wire' = W /\ UNCHANGED << status, conn >>
  <2>1. LeftBy(wire', C, k, len) /\ EndOfFile(k, fd) /\ UNCHANGED << status, conn >> BY <1>a, <1>6
  <2> QED BY <1>1, <1>2, <2>1, EndOfFileStreams
<1>7. CASE Stop(k, "recvError", W) /\ queue' = Popped(k, << >>) /\ UNCHANGED << sock, recvBuff >>
  <2>1. /\ queue[k] # << >> /\ fd \in FD /\ sock[k][fd].type = "data" BY <1>1, RecvFacts
  <2>2. UNCHANGED << sent, handled, tainted >> BY DEF RecvHandler, history
  <2>3. queue \in [Node -> Seq(Event)] /\ << >> \in Seq(Event) /\ DOMAIN << >> = {}
    BY EmptySeq DEF IndInv, TypeOK
  <2>4. \A m \in Node : m # k => queue'[m] = queue[m] BY <1>7, <2>3 DEF Popped
  <2>5. \A c \in DOMAIN conn :
          /\ k \in {conn[c].from, conn[c].to} => NotYet(k, c)
          /\ Waiting(queue[k], c) = {}
          => Waiting(queue'[k], c) = {}
    BY <1>7, <2>1, <2>3, WaitingPop
  <2>6. \A m \in Node, g \in FD : ~(m = k /\ g = fd) => recvBuff'[m][g] = recvBuff[m][g] BY <1>7
  <2>7. "recvError" \in Endings /\ sock' = sock BY <1>7 DEF Endings
  <2> QED BY <1>2, <1>a, <1>7, <2>1, <2>2, <2>4, <2>5, <2>6, <2>7, ReadStopStreams
<1>8. CASE Parse(k, fd, recvBuff[k][fd] \o SubSeq(w, 1, len), W)
  BY <1>1, <1>2, <1>3, <1>a, <1>8, ParseStreams
<1> QED BY <1>5, <1>6, <1>7, <1>8

\* k opens data sockets for ends of connections that had none, and nothing else happens
\* to sockets; connections to k are accepted.
OpensAt(k) ==
  /\ \A m \in Node, g \in FD : m # k => sock'[m][g] = sock[m][g]
  /\ \A g \in FD :
       \/ sock'[k][g] = sock[k][g]
       \/ \E c \in DOMAIN conn :
            /\ sock'[k][g].type = "data" /\ sock'[k][g].conn = c /\ sock'[k][g].send = << >>
            /\ NotYet(k, c)
            /\ sock[k][g].type = "none" \/ (sock[k][g].type = "connect" /\ sock[k][g].conn = c)
            /\ <<c, k>> \in tainted' \/ recvBuff[k][g] = << >>
Accepting(k) ==
  /\ DOMAIN conn' = DOMAIN conn
  /\ \A c \in DOMAIN conn :
       /\ conn'[c].from = conn[c].from /\ conn'[c].to = conn[c].to /\ conn'[c].closed = conn[c].closed
       /\ \/ conn'[c].accepted = conn[c].accepted
          \/ conn[c].to = k /\ ~conn[c].accepted /\ conn'[c].accepted

\* Opening ends (AcceptHandler, ConnectHandler) moves no bytes, unless over an old buffer.
LEMMA OpensEnds ==
  ASSUME IndInv, NEW k \in Node, OpensAt(k), Accepting(k), recvBuff' = recvBuff,
         NEW c \in DOMAIN conn, NEW n \in Node
  PROVE  /\ NotYet(n, c)' => NotYet(n, c)
         /\ Gone(n, c) => Gone(n, c)'
         /\ <<c, n>> \notin tainted' => \A b : In(n, c, b)' => In(n, c, b)
         /\ \A b : Out(n, c, b)' => Out(n, c, b)
<1>1. ASSUME NEW g \in FD
      PROVE  \/ sock'[n][g] = sock[n][g]
             \/ \E d \in DOMAIN conn :
                  /\ n = k
                  /\ sock'[n][g].type = "data" /\ sock'[n][g].conn = d /\ sock'[n][g].send = << >>
                  /\ NotYet(n, d)
                  /\ sock[n][g].type = "none" \/ (sock[n][g].type = "connect" /\ sock[n][g].conn = d)
                  /\ <<d, n>> \in tainted' \/ recvBuff[n][g] = << >>
  <2>1. CASE n = k BY <2>1 DEF OpensAt
  <2>2. CASE n # k BY <2>2 DEF OpensAt
  <2> QED BY <2>1, <2>2
<1>2. conn'[c].to = conn[c].to /\ (conn[c].accepted => conn'[c].accepted) BY DEF Accepting
<1>3. NotYet(n, c)' => NotYet(n, c)
  <2>1. ASSUME NEW g \in FD, sock'[n][g].type = "connect", sock'[n][g].conn = c
        PROVE  sock[n][g].type = "connect" /\ sock[n][g].conn = c
    <3>1. sock'[n][g] = sock[n][g] BY <1>1, <2>1
    <3> QED BY <2>1, <3>1
  <2> QED BY <1>2, <2>1 DEF NotYet, ConnOf
<1>4. Gone(n, c) => Gone(n, c)'
  <2> SUFFICES ASSUME Gone(n, c), NEW g \in FD, sock'[n][g].type # "none", sock'[n][g].conn = c PROVE FALSE
    BY <1>2 DEF Gone, Open, ConnOf
  <2>1. ~(sock[n][g].type # "none" /\ sock[n][g].conn = c) BY DEF Gone, Open, ConnOf
  <2>2. ~NotYet(n, c)
    <3>1. ~(conn[c].to = n /\ ~conn[c].accepted) BY DEF Gone
    <3>2. \A f \in FD : ~(sock[n][f].type = "connect" /\ sock[n][f].conn = c) BY DEF Gone, Open, ConnOf
    <3> QED BY <3>1, <3>2 DEF NotYet, ConnOf
  <2>3. sock'[n][g] # sock[n][g] BY <2>1
  <2> QED BY <1>1, <2>2, <2>3
<1>5. ASSUME <<c, n>> \notin tainted', NEW b, In(n, c, b)' PROVE In(n, c, b)
  <2>1. CASE NotYet(n, c)' /\ b = << >> BY <1>3, <2>1 DEF In
  <2>2. CASE \E g \in FD : sock'[n][g].type = "data" /\ sock'[n][g].conn = c /\ b = recvBuff'[n][g]
    <3>1. PICK g \in FD : sock'[n][g].type = "data" /\ sock'[n][g].conn = c /\ b = recvBuff'[n][g] BY <2>2
    <3>2. b = recvBuff[n][g] BY <3>1
    <3>3. CASE sock'[n][g] = sock[n][g] BY <3>1, <3>2, <3>3 DEF In, Mapped, ConnOf
    <3>4. CASE NotYet(n, c) /\ recvBuff[n][g] = << >> BY <3>2, <3>4 DEF In
    <3> QED BY <1>1, <1>5, <3>1, <3>3, <3>4
  <2> QED BY <1>5, <2>1, <2>2 DEF In, Mapped, ConnOf
<1>6. ASSUME NEW b, Out(n, c, b)' PROVE Out(n, c, b)
  <2>1. ASSUME NEW g \in FD, HasOut(n, g, c) PROVE sock'[n][g] = sock[n][g]
    <3>1. sock[n][g].type \in {"data", "closing"} BY <2>1 DEF HasOut
    <3> QED BY <1>1, <3>1
  <2>2. CASE \E g \in FD : HasOut(n, g, c)' /\ b = sock'[n][g].send
    <3>1. PICK g \in FD : HasOut(n, g, c)' /\ b = sock'[n][g].send BY <2>2
    <3>2. CASE sock'[n][g] = sock[n][g] BY <3>1, <3>2 DEF HasOut, Out, ConnOf
    <3>3. CASE sock'[n][g] # sock[n][g]
      <4>1. NotYet(n, c) /\ b = << >> BY <1>1, <3>1, <3>3 DEF HasOut, ConnOf
      <4>2. \A f \in FD : ~HasOut(n, f, c) BY <4>1, ThereAlready DEF HasOut
      <4> QED BY <4>1, <4>2 DEF Out
    <3> QED BY <3>2, <3>3
  <2>3. CASE (\A g \in FD : ~HasOut(n, g, c)') /\ b = << >>
    <3>1. \A g \in FD : ~HasOut(n, g, c) BY <2>1, <2>3 DEF HasOut, ConnOf
    <3> QED BY <2>3, <3>1 DEF Out
  <2> QED BY <1>6, <2>2, <2>3 DEF Out
<1> QED BY <1>3, <1>4, <1>5, <1>6

\* Opening sockets keeps the streams.
LEMMA OpensStreams ==
  ASSUME IndInv, StreamInv, NEW k \in Node, OpensAt(k), Accepting(k),
         UNCHANGED << status, recvBuff, wire, sent, handled >>, tainted \subseteq tainted',
         queue[k] # << >>, Head(queue[k]).type \notin MsgEvents,
         NEW evs \in Seq(Event), \A j \in DOMAIN evs : evs[j].type \notin MsgEvents, queue' = Popped(k, evs)
  PROVE  StreamInv'
<1>0. TypeOK /\ EndsFit /\ SmallInv /\ NumbersFit /\ FlowsFit BY DEF IndInv, StreamInv, SmallInv
<1>1. /\ DOMAIN conn' = DOMAIN conn
      /\ \A c \in DOMAIN conn :
           conn'[c].from = conn[c].from /\ conn'[c].to = conn[c].to /\ conn'[c].closed = conn[c].closed
  BY DEF Accepting
<1>2. \A m \in Node : Running(m)' <=> Running(m) BY DEF Running
<1>3. queue \in [Node -> Seq(Event)] BY <1>0 DEF TypeOK
<1>4. ASSUME NEW c \in DOMAIN conn, NEW m \in Node, Waiting(queue[m], c) = {}
      PROVE  Waiting(queue'[m], c) = {}
  BY <1>3, <1>4, WaitingPop
<1>5. EndsFit' BY <1>0, <1>1 DEF EndsFit
<1>6. ClosedFit'
  <2> SUFFICES ASSUME NEW c \in DOMAIN conn, NEW n \in Node, Running(n), n \in conn[c].closed
               PROVE  Gone(n, c)'
    BY <1>1, <1>2 DEF ClosedFit
  <2>1. Gone(n, c) BY <1>0 DEF SmallInv, ClosedFit
  <2> QED BY <2>1, OpensEnds
<1>7. UnusedFit' BY <1>0, <1>1 DEF SmallInv, UnusedFit
<1>8. NotYetFit'
  <2> SUFFICES ASSUME NEW c \in DOMAIN conn', NEW n \in {conn'[c].from, conn'[c].to},
                      NEW y \in {conn'[c].from, conn'[c].to}
               PROVE  NothingYet(c, n, y)'
    BY DEF NotYetFit
  <2> SUFFICES ASSUME NotYet(n, c)', y # n
               PROVE  /\ handled'[<<c, n>>] = << >> /\ sent'[<<c, y>>] = << >>
                      /\ Waiting(queue'[n], c) = {}
    BY DEF NothingYet
  <2>1. c \in DOMAIN conn /\ n \in {conn[c].from, conn[c].to} /\ y \in {conn[c].from, conn[c].to}
    BY <1>1
  <2>2. n \in Node BY <1>0, <2>1, EndFacts
  <2>3. NotYet(n, c) BY <2>1, <2>2, OpensEnds
  <2>4. handled[<<c, n>>] = << >> /\ sent[<<c, y>>] = << >> /\ Waiting(queue[n], c) = {}
    BY <1>0, <2>1, <2>3 DEF SmallInv, NotYetFit, NothingYet
  <2> QED BY <1>4, <2>1, <2>2, <2>4
<1>9. StrangersFit'
  <2> SUFFICES ASSUME NEW c \in DOMAIN conn, NEW n \in Node, Waiting(queue'[n], c) # {}
               PROVE  n \in {conn'[c].from, conn'[c].to}
    BY <1>1 DEF StrangersFit
  <2>1. Waiting(queue[n], c) # {} BY <1>4
  <2> QED BY <1>0, <1>1, <2>1 DEF SmallInv, StrangersFit
<1>10. NumbersFit' BY <1>0 DEF NumbersFit
<1>11. ASSUME NEW c \in DOMAIN conn, NEW n \in {conn[c].from, conn[c].to},
              NEW y \in {conn[c].from, conn[c].to}, y # n, <<c, n>> \notin tainted', Flow(n, y, c)
       PROVE  Flow(n, y, c)'
  <2>1. n \in Node /\ y \in Node /\ <<c, n>> \in Stream BY <1>0, EndFacts
  <2>2. \A h : Lined(n, c, h) => Lined(n, c, h)' BY <1>3, <2>1, LinedPop
  <2>3. (\A b : In(n, c, b)' => In(n, c, b)) /\ (\A b : Out(y, c, b)' => Out(y, c, b))
        /\ (Gone(y, c) => Gone(y, c)')
    BY <1>11, <2>1, OpensEnds
  <2>4. sent[<<c, n>>] \in Seq(Msg) /\ Len(handled[<<c, n>>]) \in Nat BY <1>0, <2>1, StreamTypes
  <2>5. ASSUME NEW h \in Len(handled[<<c, n>>])..Len(sent[<<c, n>>]), Bytes(n, y, c, h)
        PROVE  Bytes(n, y, c, h)'
    <3>1. CASE Gone(y, c)' <=> Gone(y, c) BY <2>3, <2>5, <3>1, BytesKept
    <3>2. CASE Gone(y, c)' /\ ~Gone(y, c)
      <4>1. \A b : Out(y, c, b)' => b = << >> BY <3>2 DEF Gone, Open, Out, HasOut, ConnOf
      <4>2. h \in 0..Len(sent[<<c, n>>])
        <5> DEFINE a == Len(handled[<<c, n>>])
                   b == Len(sent[<<c, n>>])
        <5>1. h \in a..b /\ a \in Nat BY <2>4, <2>5
        <5> HIDE DEF a, b
        <5> QED BY <5>1 DEF b
      <4> QED BY <1>0, <2>1, <2>3, <2>4, <2>5, <3>2, <4>1, <4>2, BytesEnded
    <3> QED BY <2>3, <3>1, <3>2
  <2> QED BY <1>11, <2>2, <2>5, FlowKept
<1>12. FlowsFit'
  <2>1. \A c \in DOMAIN conn : \A n, y \in {conn[c].from, conn[c].to} :
          y # n /\ Running(n)' /\ <<c, n>> \notin tainted' /\ Flow(n, y, c) => Flow(n, y, c)'
    BY <1>11
  <2> QED BY <1>0, <1>1, <1>2, <2>1, FlowsStep
<1> QED BY <1>5, <1>6, <1>7, <1>8, <1>9, <1>10, <1>12 DEF StreamInv, SmallInv

\* ConnectHandler keeps the streams when the connect failed: that end is gone.
LEMMA ConnectFailsStreams ==
  ASSUME IndInv, StreamInv, NEW k \in Node, ConnectHandler(k), ConnectFails(k, Head(queue[k]).fd)
  PROVE  StreamInv'
<1>1. PICK fd, evs : fd = Head(queue[k]).fd /\ evs = << [type |-> "SocketConnectFailed"] >> OBVIOUS
<1>2. /\ Running(k) /\ queue[k] # << >> /\ Head(queue[k]).type = "SocketConnect"
      /\ queue' = Popped(k, evs)
      /\ CloseEnd(k, ConnOf(k, fd)) /\ sock' = [sock EXCEPT ![k][fd] = NoSocket]
      /\ UNCHANGED << status, recvBuff, sent, handled, tainted >>
  BY <1>1 DEF ConnectHandler, ConnectFails, NextIs
<1>3. /\ Head(queue[k]).type \notin MsgEvents /\ fd \in FD /\ sock[k][fd].type = "connect"
  <2>1. Head(queue[k]) \in Event /\ Live(sock[k], Head(queue[k])) BY <1>2, HeadFacts
  <2> QED BY <1>1, <1>2, <2>1, EventFacts DEF Live, SocketEvents, MsgEvents
<1>4. evs \in Seq(Event) /\ \A j \in DOMAIN evs : evs[j].type \notin MsgEvents
  BY <1>1, FailureEvent DEF Failures
<1>5. queue \in [Node -> Seq(Event)] BY DEF IndInv, TypeOK
<1>6. ASSUME NEW c \in DOMAIN conn, NEW m \in Node, Waiting(queue[m], c) = {}
      PROVE  Waiting(queue'[m], c) = {}
  BY <1>2, <1>4, <1>5, <1>6, WaitingPop
<1>7. ASSUME NEW c \in DOMAIN conn, NEW n \in {conn[c].from, conn[c].to}, NEW y, Flow(n, y, c),
             \A h \in Len(handled[<<c, n>>])..Len(sent[<<c, n>>]) : Bytes(n, y, c, h) => Bytes(n, y, c, h)'
      PROVE  Flow(n, y, c)'
  <2>1. n \in Node BY EndFacts DEF IndInv, StreamInv, SmallInv
  <2>2. \A h : Lined(n, c, h) => Lined(n, c, h)' BY <1>2, <1>3, <1>4, <1>5, <2>1, LinedPop
  <2> QED BY <1>2, <1>7, <2>2, FlowKept
<1>8. sock[k][fd].type # "none" BY <1>3
<1> QED BY <1>2, <1>3, <1>6, <1>7, <1>8, GoneStreams

\* It does when the connect succeeded.
LEMMA ConnectSucceedsStreams ==
  ASSUME IndInv, StreamInv, NEW k \in Node, ConnectHandler(k), ~ConnectFails(k, Head(queue[k]).fd)
  PROVE  StreamInv'
<1>0. TypeOK BY DEF IndInv
<1>1. PICK fd, C, f : /\ fd = Head(queue[k]).fd /\ C = ConnOf(k, fd)
                      /\ f = [type |-> "PeerSocketConnect", fd |-> fd]
  OBVIOUS
<1>2. /\ Running(k) /\ queue[k] # << >> /\ Head(queue[k]).type = "SocketConnect"
      /\ queue' = Popped(k, << f >>) /\ sock' = [sock EXCEPT ![k][fd] = DataSocket(C)]
      /\ tainted' = tainted \cup OpenedOver(k, {<<fd, C>>})
      /\ UNCHANGED << status, conn, recvBuff, wire, sent, handled >>
  BY <1>1 DEF ConnectHandler, NextIs
<1>3. fd \in FD BY <1>1, <1>2, HeadFacts, EventFacts DEF SocketEvents
<1>4. sock[k][fd].type = "connect" /\ sock[k][fd].conn = C BY <1>1, <1>2, HeadFacts DEF Live, ConnOf
<1>5. C \in DOMAIN conn /\ C \in 1..MaxConn BY <1>1, <1>3, <1>4, OpenFacts DEF IndInv
<1>6. f \in Event /\ f.type \notin MsgEvents BY <1>1, <1>3 DEF Event, SocketEvents, MsgEvents
<1>7. << f >> \in Seq(Event) /\ DOMAIN << f >> = {1} /\ << f >>[1] = f BY <1>6
<1>8. Head(queue[k]).type \notin MsgEvents BY <1>2 DEF MsgEvents
<1>9. PICK x : x = DataSocket(C) OBVIOUS
<1>10. x.type = "data" /\ x.conn = C /\ x.send = << >> BY <1>9 DEF DataSocket, NoSocket
<1>11. sock' = [sock EXCEPT ![k] = [sock[k] EXCEPT ![fd] = x]] BY <1>0, <1>2, <1>3, <1>9 DEF TypeOK
<1>12. /\ \A m \in Node, g \in FD : ~(m = k /\ g = fd) => sock'[m][g] = sock[m][g]
       /\ sock'[k][fd] = x
  BY <1>0, <1>3, <1>11 DEF TypeOK
<1>13. NotYet(k, C) BY <1>1, <1>3, <1>4 DEF NotYet
<1>14. <<C, k>> \in tainted' \/ recvBuff[k][fd] = << >>
  <2>1. PICK p : p = <<fd, C>> OBVIOUS
  <2>2. p[1] = fd /\ p[2] = C BY <2>1
  <2>3. recvBuff[k][fd] # << >> => <<p[2], k>> \in OpenedOver(k, {p})
    <3>1. recvBuff[k][fd] # << >> => p \in {q \in {p} : recvBuff[k][q[1]] # << >>} BY <2>2
    <3> QED BY <3>1 DEF OpenedOver
  <2> QED BY <1>2, <2>1, <2>2, <2>3
<1>15. OpensAt(k)
  <2>1. ASSUME NEW g \in FD, g # fd PROVE sock'[k][g] = sock[k][g] BY <1>12, <2>1
  <2>2. /\ sock'[k][fd].type = "data" /\ sock'[k][fd].conn = C /\ sock'[k][fd].send = << >>
    BY <1>10, <1>12
  <2> QED BY <1>4, <1>5, <1>12, <1>13, <1>14, <2>1, <2>2 DEF OpensAt
<1>16. Accepting(k) BY <1>2 DEF Accepting
<1>17. tainted \subseteq tainted' BY <1>2
<1>18. \A j \in DOMAIN << f >> : << f >>[j].type \notin MsgEvents BY <1>6, <1>7
<1>19. PICK evs : evs = << f >> OBVIOUS
<1>20. evs \in Seq(Event) /\ (\A j \in DOMAIN evs : evs[j].type \notin MsgEvents) /\ queue' = Popped(k, evs)
  BY <1>2, <1>7, <1>18, <1>19
<1> QED BY <1>2, <1>8, <1>15, <1>16, <1>17, <1>20, OpensStreams

\* ConnectHandler keeps the streams.
LEMMA ConnectStreams ==
  ASSUME IndInv, StreamInv, NEW k \in Node, ConnectHandler(k)
  PROVE  StreamInv'
BY ConnectFailsStreams, ConnectSucceedsStreams

\* AcceptHandler keeps the streams.
LEMMA AcceptStreams ==
  ASSUME IndInv, StreamInv, NEW k \in Node, AcceptHandler(k)
  PROVE  StreamInv'
<1>0. TypeOK BY DEF IndInv
<1> DEFINE opened == {fd \in FD : \E p \in Accepts(k) : p[1] = fd}
           C(fd) == (CHOOSE p \in Accepts(k) : p[1] = fd)[2]
<1>1. /\ queue[k] # << >> /\ Head(queue[k]).type = "SocketAccept" /\ queue' = Popped(k, << >>)
      /\ conn' = [c \in DOMAIN conn |->
                IF c \in Backlog(k) THEN [conn[c] EXCEPT !.accepted = TRUE] ELSE conn[c]]
      /\ sock' = [sock EXCEPT ![k] = [fd \in FD |->
                IF fd \in opened THEN DataSocket(C(fd)) ELSE sock[k][fd]]]
      /\ tainted' = tainted \cup OpenedOver(k, Accepts(k))
      /\ UNCHANGED << status, recvBuff, wire, sent, handled >>
  BY DEF AcceptHandler, NextIs
<1>2. Accepts(k) \subseteq Free(k) \X Backlog(k) BY <1>0, AcceptsFacts
<1>3. ASSUME NEW fd \in opened
      PROVE  /\ sock[k][fd] = NoSocket
             /\ C(fd) \in DOMAIN conn /\ conn[C(fd)].to = k /\ ~conn[C(fd)].accepted
             /\ <<C(fd), k>> \in tainted' \/ recvBuff[k][fd] = << >>
  <2>1. PICK p \in Accepts(k) : p = CHOOSE q \in Accepts(k) : q[1] = fd OBVIOUS
  <2>2. p[1] = fd /\ p[2] = C(fd) BY <2>1
  <2>3. p[1] \in Free(k) /\ p[2] \in Backlog(k) BY <1>2
  <2>4. <<p[2], k>> \in tainted' \/ recvBuff[k][p[1]] = << >> BY <1>1 DEF OpenedOver
  <2> HIDE DEF C
  <2> QED BY <2>2, <2>3, <2>4 DEF Free, Backlog
<1>4. opened \subseteq FD OBVIOUS
<1> HIDE DEF opened, C
<1>5. /\ \A m \in Node, g \in FD : m # k => sock'[m][g] = sock[m][g]
      /\ \A g \in FD : sock'[k][g] = IF g \in opened THEN DataSocket(C(g)) ELSE sock[k][g]
  BY <1>0, <1>1 DEF TypeOK
<1>6. OpensAt(k)
  <2> SUFFICES ASSUME NEW g \in FD, sock'[k][g] # sock[k][g]
               PROVE  \E c \in DOMAIN conn :
                        /\ sock'[k][g].type = "data" /\ sock'[k][g].conn = c /\ sock'[k][g].send = << >>
                        /\ NotYet(k, c)
                        /\ sock[k][g].type = "none" \/ (sock[k][g].type = "connect" /\ sock[k][g].conn = c)
                        /\ <<c, k>> \in tainted' \/ recvBuff[k][g] = << >>
    BY <1>5 DEF OpensAt
  <2>1. g \in opened BY <1>5
  <2>2. PICK c, x : c = C(g) /\ x = DataSocket(c) OBVIOUS
  <2>3. x.type = "data" /\ x.conn = c /\ x.send = << >> BY <2>2 DEF DataSocket, NoSocket
  <2>4. sock'[k][g] = x BY <1>5, <2>1, <2>2
  <2>5. c \in DOMAIN conn /\ NotYet(k, c) BY <1>3, <2>1, <2>2 DEF NotYet
  <2>6. sock[k][g].type = "none"
    <3>1. sock[k][g] = NoSocket BY <1>3, <2>1
    <3>2. NoSocket.type = "none" BY DEF NoSocket
    <3> QED BY <3>1, <3>2
  <2>7. <<c, k>> \in tainted' \/ recvBuff[k][g] = << >> BY <1>3, <2>1, <2>2
  <2> QED BY <2>3, <2>4, <2>5, <2>6, <2>7
<1>7. Accepting(k)
  <2>1. DOMAIN conn' = DOMAIN conn BY <1>1
  <2>2. ASSUME NEW c \in DOMAIN conn
        PROVE  /\ conn'[c].from = conn[c].from /\ conn'[c].to = conn[c].to /\ conn'[c].closed = conn[c].closed
               /\ \/ conn'[c].accepted = conn[c].accepted
                  \/ conn[c].to = k /\ ~conn[c].accepted /\ conn'[c].accepted
    <3>1. conn[c] \in Connection BY <1>0, ElementOfSeq, LenProperties DEF TypeOK
    <3>2. CASE c \in Backlog(k)
      <4>1. conn'[c] = [conn[c] EXCEPT !.accepted = TRUE] BY <1>1, <3>2
      <4>2. conn[c].to = k /\ ~conn[c].accepted BY <3>2 DEF Backlog
      <4> QED BY <3>1, <4>1, <4>2 DEF Connection
    <3>3. CASE c \notin Backlog(k)
      <4>1. conn'[c] = conn[c] BY <1>1, <3>3
      <4> QED BY <4>1
    <3> QED BY <3>2, <3>3
  <2> QED BY <2>1, <2>2 DEF Accepting
<1>8. tainted \subseteq tainted' /\ Head(queue[k]).type \notin MsgEvents BY <1>1 DEF MsgEvents
<1>9. PICK evs : evs = << >> OBVIOUS
<1>10. evs \in Seq(Event) /\ DOMAIN evs = {} /\ queue' = Popped(k, evs) BY <1>1, <1>9, EmptySeq
<1>11. /\ queue[k] # << >> /\ UNCHANGED << status, recvBuff, wire, sent, handled >> BY <1>1
<1> QED BY <1>6, <1>7, <1>8, <1>10, <1>11, OpensStreams

\* Nothing waits of a connection that there is not, or came from it.
LEMMA FlowOfNothing ==
  ASSUME NEW n, NEW y, NEW c, Waiting(queue'[n], c) = {}, sent'[<<c, n>>] = << >>, handled'[<<c, n>>] = << >>,
         wire'[<<c, n>>] = << >>,
         \A b : In(n, c, b)' => b = << >>, \A b : Out(y, c, b)' => b = << >>, ~Gone(y, c)'
  PROVE  Flow(n, y, c)'
<1>1. Len(<< >>) = 0 OBVIOUS
<1>2. Lined(n, c, 0)'
  <2>1. PICK q : q = queue'[n] OBVIOUS
  <2>2. PICK msgs : msgs = sent'[<<c, n>>] OBVIOUS
  <2>3. Waiting(q, c) = {} BY <2>1
  <2>4. 0 + 1 .. 0 = {} OBVIOUS
  <2>5. InLine(q, c, 0, msgs, 0) BY <2>3, <2>4 DEF InLine
  <2>6. Len(handled'[<<c, n>>]) = 0 BY <1>1
  <2> QED BY <2>1, <2>2, <2>5, <2>6 DEF Lined
<1>3. Bytes(n, y, c, 0)'
  <2>1. << >> \in Seq(Byte) BY EmptySeq
  <2>2. (<< >> \o << >>) \o << >> = << >> BY <2>1, ConcatEmptySeq
  <2>3. PICK e : e = << >> OBVIOUS
  <2>4. (e \o e) \o e = e /\ Framed(e, e, 0, TRUE) BY <2>2, <2>3, FramedEmpty
  <2>5. (~(Gone(y, c)')) = TRUE OBVIOUS
  <2>6. ASSUME NEW i \in Seq(Byte), NEW o \in Seq(Byte), In(n, c, i)', Out(y, c, o)'
        PROVE  Framed((i \o wire'[<<c, n>>]) \o o, sent'[<<c, n>>], 0, ~(Gone(y, c)'))
    <3>1. i = e /\ o = e /\ wire'[<<c, n>>] = e /\ sent'[<<c, n>>] = e BY <2>3, <2>6
    <3>2. Framed((i \o wire'[<<c, n>>]) \o o, sent'[<<c, n>>], 0, TRUE) BY <2>4, <3>1
    <3> QED BY <2>5, <3>2
  <2> QED BY <2>6 DEF Bytes
<1>4. 0 \in Len(handled'[<<c, n>>])..Len(sent'[<<c, n>>]) BY <1>1
<1> QED BY <1>2, <1>3, <1>4 DEF Flow

\* ConnectPeer keeps the streams: a new connection carries nothing yet.
LEMMA ConnectPeerStreams ==
  ASSUME IndInv, StreamInv, NEW k \in Node, NEW m \in Node, ConnectPeer(k, m)
  PROVE  StreamInv'
<1>0. TypeOK /\ EndsFit /\ SmallInv /\ NumbersFit /\ FlowsFit BY DEF IndInv, StreamInv, SmallInv
<1>1. PICK c0, cl, rs, r, x :
        /\ c0 = Len(conn) + 1
        /\ cl = {m} \ {o \in Node : Running(o)} /\ rs = IF Running(m) THEN {} ELSE {k}
        /\ r = [from |-> k, to |-> m, accepted |-> FALSE, closed |-> cl, reset |-> rs]
        /\ x = [NoSocket EXCEPT !.type = "connect", !.conn = c0]
  OBVIOUS
<1>2. /\ <<k, m>> \in Dials /\ Len(conn) < MaxConn /\ conn' = Append(conn, r)
      /\ UNCHANGED << queue, status, recvBuff, wire, sent, handled, tainted >>
  BY <1>1 DEF ConnectPeer, history
<1>3. k # m BY <1>2, StreamAssumption
<1>4. PICK fd \in Free(k) : sock' = [sock EXCEPT ![k][fd] = x] BY <1>1 DEF ConnectPeer
<1>5. fd \in FD /\ sock[k][fd].type = "none"
  <2>1. NoSocket.type = "none" BY DEF NoSocket
  <2> QED BY <2>1 DEF Free
<1>6. x.type = "connect" /\ x.conn = c0 BY <1>1 DEF NoSocket
<1>7. /\ r \in Connection /\ r.from = k /\ r.to = m /\ ~r.accepted
      /\ \A n \in Node : n \in r.closed => ~Running(n)
  <2>1. cl \in SUBSET Node /\ rs \in SUBSET Node /\ \A n \in Node : n \in cl => ~Running(n) BY <1>1
  <2>2. r = [from |-> k, to |-> m, accepted |-> FALSE, closed |-> cl, reset |-> rs] BY <1>1
  <2> QED BY <2>1, <2>2 DEF Connection
<1>8. conn \in Seq(Connection) /\ Len(conn) \in Nat /\ DOMAIN conn = 1..Len(conn)
  BY <1>0, LenProperties DEF TypeOK
<1>9. c0 \in 1..MaxConn /\ c0 \notin DOMAIN conn BY <1>1, <1>2, <1>8, Constants
<1>10. /\ DOMAIN conn' = DOMAIN conn \cup {c0} /\ conn'[c0] = r
       /\ \A c \in DOMAIN conn : conn'[c] = conn[c]
  <2>1. /\ conn' \in Seq(Connection) /\ Len(conn') = c0
        /\ conn'[c0] = r /\ \A c \in 1..Len(conn) : conn'[c] = conn[c]
    BY <1>1, <1>2, <1>7, <1>8, AppendProperties
  <2>2. DOMAIN conn' = 1..c0 BY <2>1, LenProperties
  <2>3. 1..c0 = 1..Len(conn) \cup {c0} BY <1>1, <1>8
  <2> QED BY <1>8, <2>1, <2>2, <2>3
<1>11. /\ \A n \in Node, g \in FD : ~(n = k /\ g = fd) => sock'[n][g] = sock[n][g]
       /\ sock'[k][fd] = x
  <2>1. sock' = [sock EXCEPT ![k] = [sock[k] EXCEPT ![fd] = x]] BY <1>0, <1>4, <1>5 DEF TypeOK
  <2> QED BY <1>0, <1>5, <2>1 DEF TypeOK
<1>12. ASSUME NEW c \in DOMAIN conn, NEW n \in Node PROVE SameEnd(n, c)
  <2>1. ASSUME NEW g \in FD
        PROVE  \/ sock'[n][g] = sock[n][g] /\ recvBuff'[n][g] = recvBuff[n][g]
               \/ /\ sock[n][g].type # "none" => sock[n][g].conn # c
                  /\ sock'[n][g].type # "none" => sock'[n][g].conn # c
    <3>1. CASE n = k /\ g = fd
      <4>1. c # c0 BY <1>9
      <4> QED BY <1>5, <1>6, <1>11, <3>1, <4>1
    <3>2. CASE ~(n = k /\ g = fd) BY <1>2, <1>11, <3>2
    <3> QED BY <3>1, <3>2
  <2> QED BY <1>10, <2>1 DEF SameEnd
<1>13. \A n \in Node : Running(n)' <=> Running(n) BY <1>2 DEF Running
<1>14. ASSUME NEW n \in Node
       PROVE  /\ Waiting(queue[n], c0) = {}
              /\ <<c0, n>> \in Stream /\ sent[<<c0, n>>] = << >> /\ handled[<<c0, n>>] = << >>
              /\ wire[<<c0, n>>] = << >>
  <2>1. ASSUME NEW j \in Waiting(queue[n], c0) PROVE FALSE
    <3>1. j \in DOMAIN queue[n] /\ queue[n][j].type \in MsgEvents /\ queue[n][j].conn = c0
      BY <2>1 DEF Waiting
    <3>2. queue[n][j].conn \in DOMAIN conn BY <3>1 DEF IndInv, QueueFit, MessagesFit
    <3> QED BY <1>9, <3>1, <3>2
  <2>2. PICK s : s = <<c0, n>> OBVIOUS
  <2>3. s \in Stream /\ s[1] \notin DOMAIN conn BY <1>9, <2>2 DEF Stream
  <2>4. sent[s] = << >> /\ handled[s] = << >> /\ wire[s] = << >> BY <1>0, <2>3 DEF SmallInv, UnusedFit
  <2> QED BY <2>1, <2>2, <2>3, <2>4
<1>15. EndsFit'
  <2> SUFFICES ASSUME NEW c \in DOMAIN conn' PROVE conn'[c].from # conn'[c].to BY DEF EndsFit
  <2>1. CASE c = c0 BY <1>3, <1>7, <1>10, <2>1
  <2>2. CASE c \in DOMAIN conn BY <1>0, <1>10, <2>2 DEF EndsFit
  <2> QED BY <1>10, <2>1, <2>2
<1>16. ClosedFit'
  <2> SUFFICES ASSUME NEW c \in DOMAIN conn', NEW n \in Node, Running(n)', n \in conn'[c].closed
               PROVE  Gone(n, c)'
    BY DEF ClosedFit
  <2>1. c \in DOMAIN conn BY <1>7, <1>10, <1>13
  <2>2. n \in conn[c].closed /\ Running(n) BY <1>10, <1>13, <2>1
  <2>3. Gone(n, c) BY <1>0, <2>1, <2>2 DEF SmallInv, ClosedFit
  <2> QED BY <1>12, <2>1, <2>3, SameEndKept
<1>17. UnusedFit' BY <1>0, <1>2, <1>10 DEF SmallInv, UnusedFit
<1>18. NotYetFit'
  <2> SUFFICES ASSUME NEW c \in DOMAIN conn', NEW n \in {conn'[c].from, conn'[c].to},
                      NEW y \in {conn'[c].from, conn'[c].to}
               PROVE  NothingYet(c, n, y)'
    BY DEF NotYetFit
  <2> SUFFICES ASSUME NotYet(n, c)', y # n
               PROVE  /\ handled'[<<c, n>>] = << >> /\ sent'[<<c, y>>] = << >>
                      /\ Waiting(queue'[n], c) = {}
    BY DEF NothingYet
  <2>1. CASE c = c0
    <3>1. n \in Node /\ y \in Node BY <1>7, <1>10, <2>1
    <3> QED BY <1>2, <1>14, <2>1, <3>1
  <2>2. CASE c \in DOMAIN conn
    <3>1. n \in {conn[c].from, conn[c].to} /\ y \in {conn[c].from, conn[c].to} BY <1>10, <2>2
    <3>2. n \in Node BY <1>0, <2>2, <3>1, EndFacts
    <3>3. NotYet(n, c) BY <1>12, <2>2, <3>2, SameEndKept
    <3>4. handled[<<c, n>>] = << >> /\ sent[<<c, y>>] = << >> /\ Waiting(queue[n], c) = {}
      BY <1>0, <2>2, <3>1, <3>3 DEF SmallInv, NotYetFit, NothingYet
    <3> QED BY <1>2, <3>4
  <2> QED BY <1>10, <2>1, <2>2
<1>19. StrangersFit'
  <2> SUFFICES ASSUME NEW c \in DOMAIN conn', NEW n \in Node, Waiting(queue'[n], c) # {}
               PROVE  n \in {conn'[c].from, conn'[c].to}
    BY DEF StrangersFit
  <2>1. Waiting(queue[n], c) # {} BY <1>2
  <2>2. c \in DOMAIN conn BY <1>10, <1>14, <2>1
  <2> QED BY <1>0, <1>10, <2>1, <2>2 DEF SmallInv, StrangersFit
<1>20. NumbersFit' BY <1>0, <1>2 DEF NumbersFit
<1>21. ASSUME NEW n \in {k, m}, NEW y \in {k, m}, y # n PROVE Flow(n, y, c0)'
  <2>1. n \in Node /\ y \in Node OBVIOUS
  <2>2. ASSUME NEW p \in Node, NEW g \in FD, sock'[p][g].type # "none", sock'[p][g].conn = c0
        PROVE  p = k /\ g = fd
    <3> SUFFICES ASSUME ~(p = k /\ g = fd) PROVE FALSE OBVIOUS
    <3>1. sock[p][g].type # "none" /\ sock[p][g].conn = c0 BY <1>11, <2>2
    <3>2. c0 \in DOMAIN conn BY <3>1 DEF IndInv, SocketsFit, ConnOf
    <3> QED BY <1>9, <3>2
  <2>3. \A b : In(n, c0, b)' => b = << >>
    <3>1. \A g \in FD : ~(sock'[n][g].type = "data" /\ sock'[n][g].conn = c0)
      BY <1>6, <1>11, <2>1, <2>2
    <3> QED BY <3>1 DEF In, Mapped, ConnOf
  <2>4. \A b : Out(y, c0, b)' => b = << >>
    <3>1. \A g \in FD : ~(sock'[y][g].type \in {"data", "closing"} /\ sock'[y][g].conn = c0)
      BY <1>6, <1>11, <2>1, <2>2
    <3> QED BY <3>1 DEF Out, HasOut, ConnOf
  <2>5. ~Gone(y, c0)'
    <3>1. CASE y = k
      <4>1. Open(k, c0)' BY <1>5, <1>6, <1>11 DEF Open, ConnOf
      <4> QED BY <3>1, <4>1 DEF Gone
    <3>2. CASE y = m BY <1>7, <1>10, <3>2 DEF Gone
    <3> QED BY <3>1, <3>2
  <2>6. /\ Waiting(queue'[n], c0) = {} /\ sent'[<<c0, n>>] = << >> /\ handled'[<<c0, n>>] = << >>
        /\ wire'[<<c0, n>>] = << >>
    BY <1>2, <1>14, <2>1
  <2> QED BY <2>3, <2>4, <2>5, <2>6, FlowOfNothing
<1>22. FlowsFit'
  <2> SUFFICES ASSUME NEW c \in DOMAIN conn', NEW n \in {conn'[c].from, conn'[c].to},
                      NEW y \in {conn'[c].from, conn'[c].to}, y # n, Running(n)', <<c, n>> \notin tainted'
               PROVE  Flow(n, y, c)'
    BY DEF FlowsFit
  <2>1. CASE c = c0
    <3>1. n \in {k, m} /\ y \in {k, m} BY <1>7, <1>10, <2>1
    <3> QED BY <1>21, <2>1, <3>1
  <2>2. CASE c \in DOMAIN conn
    <3>1. n \in {conn[c].from, conn[c].to} /\ y \in {conn[c].from, conn[c].to} BY <1>10, <2>2
    <3>2. n \in Node /\ y \in Node BY <1>0, <2>2, <3>1, EndFacts
    <3>3. Running(n) /\ <<c, n>> \notin tainted BY <1>2, <1>13, <3>2
    <3>4. Flow(n, y, c) BY <1>0, <2>2, <3>1, <3>3 DEF FlowsFit
    <3>5. \A b : In(n, c, b)' => In(n, c, b) BY <1>12, <2>2, <3>2, SameEndKept
    <3>6. (\A b : Out(y, c, b)' => Out(y, c, b)) /\ (Gone(y, c)' <=> Gone(y, c))
      BY <1>12, <2>2, <3>2, SameEndKept
    <3>7. \A h : Bytes(n, y, c, h) => Bytes(n, y, c, h)' BY <1>2, <3>5, <3>6, BytesKept
    <3>8. \A h : Lined(n, c, h) => Lined(n, c, h)' BY <1>2 DEF Lined
    <3> QED BY <1>2, <3>4, <3>7, <3>8, FlowKept
  <2> QED BY <1>10, <2>1, <2>2
<1> QED BY <1>15, <1>16, <1>17, <1>18, <1>19, <1>20, <1>22 DEF StreamInv, SmallInv

\* Initially nothing was sent.
LEMMA InitStreams == ASSUME Init PROVE StreamInv
<1>1. DOMAIN conn = {} /\ sent = [s \in Stream |-> << >>] /\ handled = [s \in Stream |-> << >>]
      /\ wire = [s \in Stream |-> << >>]
  BY DEF Init
<1>2. SmallInv BY <1>1 DEF SmallInv, EndsFit, ClosedFit, UnusedFit, NotYetFit, NothingYet, StrangersFit
<1>3. NumbersFit
  <2>1. DOMAIN << >> = {} OBVIOUS
  <2> QED BY <1>1, <2>1 DEF NumbersFit
<1>4. FlowsFit BY <1>1 DEF FlowsFit
<1> QED BY <1>2, <1>3, <1>4 DEF StreamInv

\* Every step keeps the streams.
LEMMA NextStreams == ASSUME IndInv, StreamInv, [Next]_vars PROVE StreamInv'
<1>1. CASE UNCHANGED vars
  <2>1. UNCHANGED << queue, status, conn, sock, recvBuff, wire, sent, handled, cut, tainted >>
    BY <1>1 DEF vars
  <2>2. ASSUME NEW c \in DOMAIN conn, NEW n, NEW y, Flow(n, y, c) PROVE Flow(n, y, c)'
    <3>1. \A h : Lined(n, c, h) => Lined(n, c, h)' BY <2>1 DEF Lined
    <3>2. \A h : Bytes(n, y, c, h) => Bytes(n, y, c, h)' BY <2>1, BytesQuiet
    <3> QED BY <2>1, <2>2, <3>1, <3>2, FlowKept
  <2> QED BY <2>1, <2>2, QuietKeeps
<1>2. CASE Next
  <2>1. PICK n \in Node :
          \/ PollAny(n) \/ Handle(n)
          \/ \E m \in Node : ConnectPeer(n, m)
          \/ \E fd \in FD : SendMsgToPeer(n, fd) \/ DisconnectPeer(n, fd)
          \/ n \in Timed /\ Return(n)
    BY <1>2 DEF Next
  <2>2. CASE PollAny(n) BY <2>2, PollStreams
  <2>3. CASE AcceptHandler(n) BY <2>3, AcceptStreams
  <2>4. CASE ConnectHandler(n) BY <2>4, ConnectStreams
  <2>5. CASE WriteHandler(n) BY <2>5, WriteStreams
  <2>6. CASE \E len \in 0..Capacity : RecvHandler(n, len) BY <2>6, RecvStreams
  <2>7. CASE SocketConnectHandler(n) BY <2>7, SocketConnectStreams
  <2>8. CASE SocketCloseHandler(n) BY <2>8, SocketCloseStreams
  <2>9. CASE PeerNotifyHandler(n) BY <2>9, PeerNotifyStreams
  <2>10. CASE RecvMsgHandler(n) BY <2>10, ForwardStreams
  <2>11. CASE ProtocolRecvMsg(n) BY <2>11, ProtocolRecvStreams
  <2>12. CASE MiningComplete(n) BY <2>12, MiningStreams
  <2>13. CASE \E m \in Node : ConnectPeer(n, m) BY <2>13, ConnectPeerStreams
  <2>14. CASE \E fd \in FD : SendMsgToPeer(n, fd) BY <2>14, SendMsgToPeerStreams
  <2>15. CASE \E fd \in FD : DisconnectPeer(n, fd) BY <2>15, DisconnectStreams
  <2>16. CASE Return(n) BY <2>16, ReturnStreams
  <2>17. CASE ConnectFailedHandler(n) BY <2>17, ConnectFailedStreams
  <2>18. CASE SocketConnectFailedHandler(n) BY <2>18, SocketConnectFailedStreams
  <2> QED BY <2>1, <2>2, <2>3, <2>4, <2>5, <2>6, <2>7, <2>8, <2>9, <2>10, <2>11, <2>12, <2>13, <2>14, <2>15, <2>16,
             <2>17, <2>18
      DEF Handle
<1> QED BY <1>1, <1>2

\* The messages of every connection are accounted for in every state.
LEMMA StreamInvariance == Spec => [](IndInv /\ StreamInv)
<1>1. Init => IndInv /\ StreamInv BY InitIndInv, InitStreams
<1>2. IndInv /\ StreamInv /\ [Next]_vars => (IndInv /\ StreamInv)' BY NextIndInv, NextStreams
<1> QED BY <1>1, <1>2, PTL DEF Spec

-----------------------------------------------------------------------------
(* A connection carries messages *)

\* What counts as handled, for MessageStream.
Shown == [s \in Stream |-> IF s \in tainted THEN << >> ELSE handled[s]]

\* An end that comes over an old receive buffer has handled nothing.
LEMMA ShownKept ==
  ASSUME IndInv, StreamInv, UNCHANGED << sent, handled >>, tainted \subseteq tainted', NEW k \in Node,
         \A e \in tainted' \ tainted : \E c \in DOMAIN conn : e = <<c, k>> /\ NotYet(k, c)
                                         /\ k \in {conn[c].from, conn[c].to}
  PROVE  Shown' = Shown
<1>1. ASSUME NEW e \in tainted' \ tainted PROVE handled[e] = << >>
  <2>1. PICK c \in DOMAIN conn : e = <<c, k>> /\ NotYet(k, c) /\ k \in {conn[c].from, conn[c].to}
    OBVIOUS
  <2>2. Far(c, k) \in {conn[c].from, conn[c].to} /\ Far(c, k) # k
    BY <2>1, EndFacts DEF IndInv, StreamInv, SmallInv
  <2>3. handled[<<c, k>>] = << >> BY <2>1, <2>2 DEF StreamInv, SmallInv, NotYetFit, NothingYet
  <2> QED BY <2>1, <2>3
<1>2. ASSUME NEW s \in Stream
      PROVE  (IF s \in tainted' THEN << >> ELSE handled'[s]) = IF s \in tainted THEN << >> ELSE handled[s]
  BY <1>1
<1> QED BY <1>2 DEF Shown

\* Handling a message is handling the next one of its stream.
LEMMA HandleShown ==
  ASSUME IndInv, StreamInv, NEW k \in Node, Running(k), queue[k] # << >>,
         Head(queue[k]).type \in {"PeerRecvNotifyPeerId", "ProtocolRecvMsg"},
         handled' = Handled(k), UNCHANGED << sent, tainted >>
  PROVE  Shown' = Shown \/ \E s \in Stream : Streams!Handle(s)
<1>0. TypeOK /\ EndsFit /\ FlowsFit BY DEF IndInv, StreamInv, SmallInv
<1>1. PICK c, m, s : c = Head(queue[k]).conn /\ m = Head(queue[k]).msg /\ s = <<c, k>> OBVIOUS
<1>2. c \in DOMAIN conn /\ k \in {conn[c].from, conn[c].to} /\ s \in Stream
  BY <1>1, MessageFacts DEF MsgEvents
<1>3. handled \in [Stream -> Seq(Message)] BY <1>0 DEF TypeOK
<1>4. handled' = [handled EXCEPT ![s] = Append(@, m)] BY <1>1 DEF Handled
<1>5. CASE s \in tainted
  <2>1. \A t \in Stream : t \notin tainted => handled'[t] = handled[t] BY <1>3, <1>4, <1>5
  <2>2. Shown' = [t \in Stream |-> IF t \in tainted THEN << >> ELSE handled'[t]] BY DEF Shown
  <2>3. ASSUME NEW t \in Stream
        PROVE  (IF t \in tainted THEN << >> ELSE handled'[t]) = IF t \in tainted THEN << >> ELSE handled[t]
    BY <2>1
  <2> QED BY <2>2, <2>3 DEF Shown
<1>6. CASE s \notin tainted
  <2>1. PICK y : y = Far(c, k) OBVIOUS
  <2>2. y \in {conn[c].from, conn[c].to} /\ y # k BY <1>0, <1>2, <2>1, EndFacts
  <2>3. Flow(k, y, c) BY <1>0, <1>1, <1>2, <1>6, <2>2 DEF FlowsFit
  <2>4. Len(handled[s]) < Len(sent[s]) /\ m = sent[s][Len(handled[s]) + 1] BY <1>1, <2>3, HandledIsNext
  <2>5. Shown[s] = handled[s] BY <1>2, <1>6 DEF Shown
  <2>6. Shown' = [Shown EXCEPT ![s] = Append(@, sent[s][Len(@) + 1])]
    <3>1. Shown' = [t \in Stream |-> IF t \in tainted THEN << >> ELSE handled'[t]] BY DEF Shown
    <3>2. ASSUME NEW t \in Stream
          PROVE  Shown'[t] = IF t = s THEN Append(handled[s], m) ELSE Shown[t]
      <4>1. CASE t = s BY <1>2, <1>3, <1>4, <1>6, <3>1, <4>1
      <4>2. CASE t # s
        <5>1. handled'[t] = handled[t] BY <1>3, <1>4, <4>2
        <5> QED BY <3>1, <4>2, <5>1 DEF Shown
      <4> QED BY <4>1, <4>2
    <3>3. Append(handled[s], m) = Append(Shown[s], sent[s][Len(Shown[s]) + 1]) BY <2>4, <2>5
    <3>4. DOMAIN Shown = Stream /\ DOMAIN Shown' = Stream BY DEF Shown
    <3>5. PICK a, b, d : a = Shown /\ b = Shown' /\ d = Append(Shown[s], sent[s][Len(Shown[s]) + 1]) OBVIOUS
    <3>6. b = [a EXCEPT ![s] = d]
      <4>1. \A t \in Stream : b[t] = IF t = s THEN d ELSE a[t] BY <3>2, <3>3, <3>5
      <4>2. b = [t \in Stream |-> b[t]] /\ a = [t \in Stream |-> a[t]] BY <3>5 DEF Shown
      <4> QED BY <1>2, <4>1, <4>2
    <3> QED BY <3>5, <3>6
  <2>7. Streams!Handle(s) BY <2>4, <2>5, <2>6 DEF Streams!Handle, Shown
  <2> QED BY <1>2, <2>7
<1> QED BY <1>5, <1>6

\* A step is one of MessageStream.
LEMMA StreamStep ==
  ASSUME IndInv, StreamInv, [Next]_vars
  PROVE  [Streams!Next]_<< sent, Shown >>
<1>1. ASSUME UNCHANGED << sent, handled, tainted >> PROVE UNCHANGED << sent, Shown >> BY <1>1 DEF Shown
<1>2. ASSUME NEW s \in Stream, NEW m \in Message, sent' = [sent EXCEPT ![s] = Append(@, m)],
             UNCHANGED << handled, tainted >>
      PROVE  Streams!Next
  <2>1. Shown' = Shown BY <1>2 DEF Shown
  <2>2. Streams!Send(s, m) BY <1>2, <2>1 DEF Streams!Send, Shown
  <2> QED BY <2>2 DEF Streams!Next
<1>3. CASE UNCHANGED vars BY <1>1, <1>3 DEF vars
<1>4. CASE Next
  <2>1. PICK k \in Node :
          \/ PollAny(k) \/ Handle(k)
          \/ \E m \in Node : ConnectPeer(k, m)
          \/ \E fd \in FD : SendMsgToPeer(k, fd) \/ DisconnectPeer(k, fd)
          \/ k \in Timed /\ Return(k)
    BY <1>4 DEF Next
  <2>2. CASE PollAny(k) BY <1>1, <2>2 DEF PollAny, Poll, history
  <2>3. CASE AcceptHandler(k)
    <3>1. UNCHANGED << sent, handled >> /\ tainted' = tainted \cup OpenedOver(k, Accepts(k))
      BY <2>3 DEF AcceptHandler
    <3>2. Accepts(k) \subseteq Free(k) \X Backlog(k) BY AcceptsFacts DEF IndInv
    <3>3. ASSUME NEW e \in tainted' \ tainted
          PROVE  \E c \in DOMAIN conn : e = <<c, k>> /\ NotYet(k, c) /\ k \in {conn[c].from, conn[c].to}
      <4>1. PICK p \in Accepts(k) : e = <<p[2], k>> BY <3>1 DEF OpenedOver
      <4>2. p[2] \in Backlog(k) BY <3>2
      <4> QED BY <4>1, <4>2 DEF Backlog, NotYet
    <3> QED BY <3>1, <3>3, ShownKept
  <2>17. CASE ConnectHandler(k) /\ ConnectFails(k, Head(queue[k]).fd)
    BY <1>1, <2>17 DEF ConnectHandler, ConnectFails
  <2>4. CASE ConnectHandler(k) /\ ~ConnectFails(k, Head(queue[k]).fd)
    <3>1. PICK fd, C : fd = Head(queue[k]).fd /\ C = ConnOf(k, fd) OBVIOUS
    <3>2. /\ UNCHANGED << sent, handled >> /\ tainted' = tainted \cup OpenedOver(k, {<<fd, C>>})
          /\ Running(k) /\ queue[k] # << >> /\ Head(queue[k]).type = "SocketConnect"
      BY <2>4, <3>1 DEF ConnectHandler, NextIs
    <3>3. fd \in FD BY <3>1, <3>2, HeadFacts, EventFacts DEF SocketEvents
    <3>4. sock[k][fd].type = "connect" /\ ConnOf(k, fd) = C BY <3>1, <3>2, HeadFacts DEF Live
    <3>5. C \in DOMAIN conn /\ k \in {conn[C].from, conn[C].to}
      BY <3>3, <3>4 DEF IndInv, SocketsFit
    <3>6. NotYet(k, C) BY <3>3, <3>4 DEF NotYet
    <3>7. ASSUME NEW e \in tainted' \ tainted PROVE e = <<C, k>> BY <3>2 DEF OpenedOver
    <3> QED BY <3>2, <3>5, <3>6, <3>7, ShownKept
  <2>5. CASE WriteHandler(k) BY <1>1, <2>5 DEF WriteHandler, history
  <2>6. CASE \E len \in 0..Capacity : RecvHandler(k, len) BY <1>1, <2>6 DEF RecvHandler, history
  <2>7. CASE SocketConnectHandler(k)
    <3>1. UNCHANGED << handled, tainted >> BY <2>7 DEF SocketConnectHandler
    <3> QED BY <1>2, <2>7, <3>1, SocketConnectStreams
  <2>8. CASE SocketCloseHandler(k) BY <1>1, <2>8 DEF SocketCloseHandler, history
  <2>9. CASE PeerNotifyHandler(k)
    <3>1. /\ Running(k) /\ queue[k] # << >>
          /\ Head(queue[k]).type \in {"PeerRecvNotifyPeerId", "ProtocolRecvMsg"}
          /\ handled' = Handled(k) /\ UNCHANGED << sent, tainted >>
      BY <2>9 DEF PeerNotifyHandler, NextIs
    <3>2. Shown' = Shown \/ \E s \in Stream : Streams!Handle(s) BY <3>1, HandleShown
    <3> QED BY <3>1, <3>2 DEF Streams!Next
  <2>10. CASE RecvMsgHandler(k) BY <1>1, <2>10 DEF RecvMsgHandler, history
  <2>11. CASE ProtocolRecvMsg(k)
    <3>1. /\ Running(k) /\ queue[k] # << >>
          /\ Head(queue[k]).type \in {"PeerRecvNotifyPeerId", "ProtocolRecvMsg"}
          /\ handled' = Handled(k) /\ UNCHANGED << sent, tainted >>
      BY <2>11 DEF ProtocolRecvMsg, NextIs
    <3>2. Shown' = Shown \/ \E s \in Stream : Streams!Handle(s) BY <3>1, HandleShown
    <3> QED BY <3>1, <3>2 DEF Streams!Next
  <2>12. CASE MiningComplete(k) BY <1>1, <2>12 DEF MiningComplete, history
  <2>13. CASE \E m \in Node : ConnectPeer(k, m) BY <1>1, <2>13 DEF ConnectPeer, history
  <2>14. CASE \E fd \in FD : SendMsgToPeer(k, fd)
    <3>1. PICK fd \in FD : SendMsgToPeer(k, fd) BY <2>14
    <3>2. UNCHANGED << handled, tainted >> BY <3>1 DEF SendMsgToPeer
    <3> QED BY <1>2, <3>1, <3>2, SendMsgToPeerStreams
  <2>15. CASE \E fd \in FD : DisconnectPeer(k, fd) BY <1>1, <2>15 DEF DisconnectPeer
  <2>16. CASE Return(k) BY <1>1, <2>16 DEF Return, history
  <2>18. CASE ConnectFailedHandler(k) BY <1>1, <2>18 DEF ConnectFailedHandler, history
  <2>19. CASE SocketConnectFailedHandler(k) BY <1>1, <2>19 DEF SocketConnectFailedHandler, history
  <2> QED BY <2>1, <2>2, <2>3, <2>4, <2>5, <2>6, <2>7, <2>8, <2>9, <2>10, <2>11, <2>12, <2>13, <2>14, <2>15, <2>16,
             <2>17, <2>18, <2>19
      DEF Handle
<1> QED BY <1>3, <1>4

\* Whatever the sizes of reads and writes and whenever connections end, each end of a
\* connection handles what the other sent, in order and nothing twice or left out in
\* between (SendMsgToPeer, DoSend, RecvHandler and the handlers of BL2 and BL3), unless
\* it was opened over the receive buffer of another one.
THEOREM Refinement == Spec => ImplementsMessageStream
<1>1. Init => Streams!Init
  <2> SUFFICES ASSUME Init PROVE Streams!Init OBVIOUS
  <2>1. sent = [s \in Stream |-> << >>] /\ handled = [s \in Stream |-> << >>] BY DEF Init
  <2>2. Shown = [s \in Stream |-> << >>] BY <2>1 DEF Shown
  <2> QED BY <2>1, <2>2 DEF Streams!Init, Shown
<1>2. IndInv /\ StreamInv /\ [Next]_vars
        => [Streams!Next]_<< sent, [s \in Stream |-> IF s \in tainted THEN << >> ELSE handled[s]] >>
  BY StreamStep DEF Shown
<1> QED BY <1>1, <1>2, StreamInvariance, PTL DEF Spec, ImplementsMessageStream, Streams!Spec
=============================================================================
