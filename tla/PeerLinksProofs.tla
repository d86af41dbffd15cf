--------------------------- MODULE PeerLinksProofs ---------------------------
(***************************************************************************)
(* Lemmas about the channels of PeerLinks: which messages are under way    *)
(* after a message was sent, taken or lost.                                *)
(***************************************************************************)
EXTENDS PeerLinks, SequencesExt, SequenceTheorems, TLAPS

Channels(M) == [Node \X Node -> Seq(M)]

\* Putting a message into the channels from n to D adds nothing but the
\* message, and only there.
LEMMA PutMessages ==
  ASSUME NEW M, NEW ch \in Channels(M), NEW n, NEW D, NEW m \in M
  PROVE  /\ Put(ch, n, D, m) \in Channels(M)
         /\ \A p, q \in Node : \A x \in ToSet(Put(ch, n, D, m)[<<p, q>>]) :
              x \in ToSet(ch[<<p, q>>]) \/ (p = n /\ q \in D /\ x = m)
<1> DEFINE S == Put(ch, n, D, m)
<1> USE DEF Channels
<1>1. \A l \in Node \X Node : ch[l] \in Seq(M) /\ Append(ch[l], m) \in Seq(M)
  BY AppendProperties
<1>2. S \in [Node \X Node -> Seq(M)] BY <1>1 DEF Put
<1>3. ASSUME NEW p \in Node, NEW q \in Node, NEW x \in ToSet(S[<<p, q>>])
      PROVE  x \in ToSet(ch[<<p, q>>]) \/ (p = n /\ q \in D /\ x = m)
  <2>1. CASE p = n /\ q \in D
    <3>1. S[<<p, q>>] = Append(ch[<<p, q>>], m) BY <2>1 DEF Put
    <3> DEFINE c == ch[<<p, q>>]
               d == Append(c, m)
    <3>2. c \in Seq(M) OBVIOUS
    <3> HIDE DEF c
    <3>3. /\ d \in Seq(M) /\ Len(c) \in Nat /\ Len(d) = Len(c) + 1
          /\ \A i \in 1..Len(c) : d[i] = c[i]
          /\ d[Len(c) + 1] = m
      BY <3>2, AppendProperties, LenProperties
    <3>4. DOMAIN d = 1..Len(d) /\ DOMAIN c = 1..Len(c) BY <3>2, <3>3, LenProperties
    <3> HIDE DEF d
    <3>5. PICK i \in 1..Len(d) : x = d[i] BY <3>1, <3>4 DEF ToSet, c, d
    <3>6. CASE i = Len(c) + 1 BY <2>1, <3>3, <3>5, <3>6
    <3>7. CASE i # Len(c) + 1
      <4>1. i \in 1..Len(c) BY <3>3, <3>7
      <4>2. x \in ToSet(c) BY <3>3, <3>4, <3>5, <4>1 DEF ToSet
      <4> QED BY <4>2 DEF c
    <3> QED BY <3>6, <3>7
  <2>2. CASE ~ (p = n /\ q \in D)
    <3>1. S[<<p, q>>] = ch[<<p, q>>] BY <2>2 DEF Put
    <3> QED BY <3>1
  <2> QED BY <2>1, <2>2
<1> QED BY <1>2, <1>3

\* So does sending to the peers D of n.
LEMMA SentMessages ==
  ASSUME NEW M, NEW ch \in Channels(M), NEW n, NEW D, NEW m \in M
  PROVE  /\ Sent(ch, n, D, m) \in Channels(M)
         /\ \A p, q \in Node : \A x \in ToSet(Sent(ch, n, D, m)[<<p, q>>]) :
              x \in ToSet(ch[<<p, q>>]) \/ (p = n /\ q \in D /\ x = m)
<1> DEFINE E == D \cap nbr[n]
<1>1. Sent(ch, n, D, m) = Put(ch, n, E, m) BY DEF Sent
<1>2. E \subseteq D OBVIOUS
<1> HIDE DEF E
<1> QED BY <1>1, <1>2, PutMessages

\* Taking the head message of a channel loses only that one.
LEMMA TakenMessages ==
  ASSUME NEW M, chan \in Channels(M), NEW s \in Node, NEW n \in Node,
         chan[<<s, n>>] # << >>
  PROVE  /\ Head(chan[<<s, n>>]) \in M
         /\ Head(chan[<<s, n>>]) \in ToSet(chan[<<s, n>>])
         /\ Taken(s, n) \in Channels(M)
         /\ \A p, q \in Node : ToSet(Taken(s, n)[<<p, q>>]) \subseteq ToSet(chan[<<p, q>>])
<1> DEFINE c == chan[<<s, n>>]
           d == Tail(c)
<1> USE DEF Channels
<1>1. c \in Seq(M) /\ c # << >> OBVIOUS
<1> HIDE DEF c
<1>2. /\ Head(c) \in M /\ d \in Seq(M) /\ Len(d) = Len(c) - 1
      /\ \A i \in 1..Len(d) : d[i] = c[i + 1]
  BY <1>1, HeadTailProperties
<1>3. Len(c) \in Nat \ {0} /\ DOMAIN c = 1..Len(c) /\ DOMAIN d = 1..Len(d)
  BY <1>1, <1>2, EmptySeq, LenProperties
<1>4. Head(c) \in ToSet(c) BY <1>1, <1>3 DEF ToSet
<1> HIDE DEF d
<1>5. ToSet(d) \subseteq ToSet(c)
  <2> SUFFICES ASSUME NEW i \in 1..Len(d) PROVE d[i] \in ToSet(c) BY <1>3 DEF ToSet
  <2>1. i + 1 \in 1..Len(c) /\ d[i] = c[i + 1] BY <1>2, <1>3
  <2> QED BY <1>3, <2>1 DEF ToSet
<1>6. Taken(s, n) = [chan EXCEPT ![<<s, n>>] = d] BY DEF Taken, c, d
<1>7. Taken(s, n) \in [Node \X Node -> Seq(M)] BY <1>2, <1>6
<1>8. \A p, q \in Node : ToSet(Taken(s, n)[<<p, q>>]) \subseteq ToSet(chan[<<p, q>>])
  <2> TAKE p, q \in Node
  <2>1. CASE <<p, q>> = <<s, n>>
    <3>1. Taken(s, n)[<<p, q>>] = d /\ chan[<<p, q>>] = c BY <1>6, <2>1 DEF c
    <3> QED BY <1>5, <3>1
  <2>2. CASE <<p, q>> # <<s, n>>
    <3>1. Taken(s, n)[<<p, q>>] = chan[<<p, q>>] BY <1>6, <2>2
    <3> QED BY <3>1
  <2> QED BY <2>1, <2>2
<1> QED BY <1>2, <1>4, <1>7, <1>8 DEF c

\* A prefix of a channel has no other messages.
LEMMA PrefixMessages ==
  ASSUME NEW M, NEW c \in Seq(M), NEW i \in 0..Len(c)
  PROVE  SubSeq(c, 1, i) \in Seq(M) /\ ToSet(SubSeq(c, 1, i)) \subseteq ToSet(c)
<1>1. /\ Len(c) \in Nat /\ DOMAIN c = 1..Len(c) /\ i \in Int /\ 1 \in Int
      /\ \A x \in 1..i : c[x] \in M
  BY LenProperties
<1> DEFINE d == SubSeq(c, 1, i)
<1>2. /\ d \in Seq(M) /\ Len(d) = IF 1 <= i THEN i - 1 + 1 ELSE 0
      /\ \A x \in 1..(i - 1 + 1) : d[x] = c[1 + x - 1]
  BY <1>1, SubSeqProperties
<1>3. DOMAIN d = 1..Len(d) BY <1>2, LenProperties
<1> HIDE DEF d
<1>4. ToSet(d) \subseteq ToSet(c)
  <2> SUFFICES ASSUME NEW x \in 1..Len(d) PROVE d[x] \in ToSet(c) BY <1>3 DEF ToSet
  <2>1. x \in 1..Len(c) /\ d[x] = c[x] BY <1>1, <1>2
  <2> QED BY <1>1, <2>1 DEF ToSet
<1> QED BY <1>2, <1>4 DEF d

\* A lost connection leaves prefixes of the channels.
LEMMA DownMessages ==
  ASSUME NEW M, chan \in Channels(M), NEW n \in Node, NEW s \in Node, LinkDown(n, s)
  PROVE  /\ chan' \in Channels(M)
         /\ \A p, q \in Node : \A x \in ToSet(chan'[<<p, q>>]) : x \in ToSet(chan[<<p, q>>])
<1>1. chan \in [Node \X Node -> Seq(M)] BY DEF Channels
<1>2. PICK i \in 0..Len(chan[<<n, s>>]), j \in 0..Len(chan[<<s, n>>]) :
        chan' = [chan EXCEPT ![<<n, s>>] = SubSeq(@, 1, i), ![<<s, n>>] = SubSeq(@, 1, j)]
  BY DEF LinkDown
<1>3. \E l \in {<<n, s>>, <<s, n>>} : l[1] # l[2] BY LinkAssumption DEF LinkDown
<1>4. n # s BY <1>3
<1> DEFINE c == SubSeq(chan[<<n, s>>], 1, i)
           d == SubSeq(chan[<<s, n>>], 1, j)
<1>5. chan' = [chan EXCEPT ![<<n, s>>] = c, ![<<s, n>>] = d] BY <1>1, <1>2, <1>4
<1>6. /\ c \in Seq(M) /\ ToSet(c) \subseteq ToSet(chan[<<n, s>>])
      /\ d \in Seq(M) /\ ToSet(d) \subseteq ToSet(chan[<<s, n>>])
  BY <1>1, PrefixMessages
<1> HIDE DEF c, d
<1>7. chan' \in [Node \X Node -> Seq(M)] BY <1>1, <1>5, <1>6
<1>8. \A p, q \in Node : \A x \in ToSet(chan'[<<p, q>>]) : x \in ToSet(chan[<<p, q>>])
  <2> TAKE p, q \in Node
  <2>1. CASE p = n /\ q = s
    <3>1. chan'[<<p, q>>] = c BY <1>1, <1>4, <1>5, <2>1
    <3> QED BY <1>6, <2>1, <3>1
  <2>2. CASE p = s /\ q = n
    <3>1. chan'[<<p, q>>] = d BY <1>1, <1>4, <1>5, <2>2
    <3> QED BY <1>6, <2>2, <3>1
  <2>3. CASE ~ (p = n /\ q = s) /\ ~ (p = s /\ q = n)
    <3>1. chan'[<<p, q>>] = chan[<<p, q>>] BY <1>1, <1>5, <2>3
    <3> QED BY <3>1
  <2> QED BY <2>1, <2>2, <2>3
<1> QED BY <1>7, <1>8 DEF Channels

\* Nothing under way is lost by sending, and the message goes to all of D.
LEMMA PutKeeps ==
  ASSUME NEW M, NEW ch \in Channels(M), NEW n, NEW D, NEW m \in M
  PROVE  /\ \A p, q \in Node : ToSet(ch[<<p, q>>]) \subseteq ToSet(Put(ch, n, D, m)[<<p, q>>])
         /\ \A q \in Node : n \in Node /\ q \in D => m \in ToSet(Put(ch, n, D, m)[<<n, q>>])
<1> DEFINE S == Put(ch, n, D, m)
<1> USE DEF Channels
<1>1. ASSUME NEW p \in Node, NEW q \in Node, p = n /\ q \in D
      PROVE  ToSet(ch[<<p, q>>]) \subseteq ToSet(S[<<p, q>>]) /\ m \in ToSet(S[<<p, q>>])
  <2> DEFINE c == ch[<<p, q>>]
             d == Append(c, m)
  <2>1. c \in Seq(M) OBVIOUS
  <2>2. S[<<p, q>>] = d BY <1>1 DEF Put
  <2> HIDE DEF c
  <2>3. /\ d \in Seq(M) /\ Len(c) \in Nat /\ Len(d) = Len(c) + 1
        /\ \A i \in 1..Len(c) : d[i] = c[i]
        /\ d[Len(c) + 1] = m
    BY <2>1, AppendProperties, LenProperties
  <2>4. DOMAIN d = 1..Len(d) /\ DOMAIN c = 1..Len(c) BY <2>1, <2>3, LenProperties
  <2> HIDE DEF d, S
  <2>5. m \in ToSet(d) BY <2>3, <2>4 DEF ToSet
  <2>6. ToSet(c) \subseteq ToSet(d) BY <2>3, <2>4 DEF ToSet
  <2> QED BY <2>2, <2>5, <2>6 DEF c
<1>2. ASSUME NEW p \in Node, NEW q \in Node, ~ (p = n /\ q \in D)
      PROVE  S[<<p, q>>] = ch[<<p, q>>]
  BY <1>2 DEF Put
<1> QED BY <1>1, <1>2

\* Taking loses at most the head message.
LEMMA TakenKeeps ==
  ASSUME NEW M, chan \in Channels(M), NEW s \in Node, NEW n \in Node,
         chan[<<s, n>>] # << >>
  PROVE  \A p, q \in Node : \A x \in ToSet(chan[<<p, q>>]) :
           x \in ToSet(Taken(s, n)[<<p, q>>]) \/ (p = s /\ q = n /\ x = Head(chan[<<s, n>>]))
<1> DEFINE c == chan[<<s, n>>]
           d == Tail(c)
<1> USE DEF Channels
<1>1. c \in Seq(M) /\ c # << >> OBVIOUS
<1>2. Taken(s, n) = [chan EXCEPT ![<<s, n>>] = d] BY DEF Taken
<1> SUFFICES ASSUME NEW p \in Node, NEW q \in Node, NEW x \in ToSet(chan[<<p, q>>])
             PROVE  x \in ToSet(Taken(s, n)[<<p, q>>]) \/ (p = s /\ q = n /\ x = Head(c))
  OBVIOUS
<1>3. CASE <<p, q>> = <<s, n>>
  <2>1. Taken(s, n)[<<p, q>>] = d /\ x \in ToSet(c) BY <1>2, <1>3
  <2> HIDE DEF c
  <2>2. /\ d \in Seq(M) /\ Len(d) = Len(c) - 1 /\ Head(c) = c[1]
        /\ \A i \in 1..Len(d) : d[i] = c[i + 1]
    BY <1>1, HeadTailProperties
  <2>3. Len(c) \in Nat \ {0} /\ DOMAIN c = 1..Len(c) /\ DOMAIN d = 1..Len(d)
    BY <1>1, <2>2, EmptySeq, LenProperties
  <2> HIDE DEF d
  <2>4. PICK i \in 1..Len(c) : x = c[i] BY <2>1, <2>3 DEF ToSet
  <2>5. CASE i = 1 BY <1>3, <2>2, <2>4, <2>5
  <2>6. CASE i # 1
    <3>1. i - 1 \in 1..Len(d) /\ d[i - 1] = c[i] BY <2>2, <2>3, <2>6
    <3>2. x \in ToSet(d) BY <2>3, <2>4, <3>1 DEF ToSet
    <3> QED BY <2>1, <3>2
  <2> QED BY <2>5, <2>6
<1>4. CASE <<p, q>> # <<s, n>>
  <2>1. Taken(s, n)[<<p, q>>] = chan[<<p, q>>] BY <1>2, <1>4
  <2> QED BY <2>1
<1> QED BY <1>3, <1>4
=============================================================================
