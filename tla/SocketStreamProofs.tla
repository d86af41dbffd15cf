-------------------------- MODULE SocketStreamProofs --------------------------
(***************************************************************************)
(* Theorems about SocketStream: types, the order of queued events, the     *)
(* sockets they find, the place of a close among the messages of its       *)
(* connection, receive buffers left behind, and what a read may discard.   *)
(***************************************************************************)
EXTENDS SocketStream, FiniteSetTheorems, SequenceTheorems, NaturalsInduction, TLAPS

-----------------------------------------------------------------------------
(* The inductive invariant *)

Byte == {"magic"} \X Nat \cup {"len"} \X Sizes \cup {"body"} \X Message \X Nat
Pipe == {b \in Seq(Byte) : Len(b) <= Capacity}
Connection == [from : Node, to : Node, accepted : BOOLEAN, closed : SUBSET Node, reset : SUBSET Node]
Socket == [type : {"none", "connect", "data", "closing"}, conn : 0..MaxConn,
           writable : BOOLEAN, send : Seq(Byte)]

SocketEvents == {"SocketConnect", "SocketRecv", "SocketWrite", "PeerSocketConnect", "PeerSocketClose"}
MsgEvents == {"PeerRecvNotifyPeerId", "PeerRecvMsg", "ProtocolRecvMsg"}
Bare == Mined \cup Failures      \* events without a descriptor
Watched == {"SocketAccept", "SocketConnect", "SocketRecv", "SocketWrite"}
Event == [type : Bare] \cup [type : {"SocketAccept"}, fd : {0}]
         \cup [type : SocketEvents, fd : FD]
         \cup [type : MsgEvents, fd : FD, conn : 1..MaxConn, msg : Message]

\* How a process ends.
Endings == {"badMessage", "recvError", "writeError", "noDataSocket", "connectFailed", "returned"}

\* Every variable has its type: queues hold events with their fields, and what is
\* buffered or on a wire are bytes.
TypeOK ==
  /\ queue \in [Node -> Seq(Event)]
  /\ status \in [Node -> {"running"} \cup Endings]
  /\ conn \in Seq(Connection) /\ Len(conn) <= MaxConn
  /\ sock \in [Node -> [FD -> Socket]]
  /\ recvBuff \in [Node -> [FD -> Seq(Byte)]]
  /\ wire \in [Stream -> Pipe]
  /\ sent \in [Stream -> Seq(Message)] /\ handled \in [Stream -> Seq(Message)]
  /\ cut \subseteq Stream /\ tainted \subseteq Stream

\* An open socket has a connection of its node, and no other socket of the node has it.
SocketsFit ==
  \A n \in Node : \A fd \in FD :
    /\ sock[n][fd].type = "none" => sock[n][fd] = NoSocket
    /\ sock[n][fd].type # "none" =>
         LET c == ConnOf(n, fd) IN
         /\ c \in DOMAIN conn /\ n \in {conn[c].from, conn[c].to}
         /\ conn[c].to = n => conn[c].accepted
         /\ \A g \in FD : sock[n][g].type # "none" /\ ConnOf(n, g) = c => g = fd

\* What was disconnected stays disconnected.
CutsFit ==
  \A e \in cut :
    /\ e[1] \in DOMAIN conn
    /\ conn[e[1]].to = e[2] => conn[e[1]].accepted
    /\ \A fd \in FD : sock[e[2]][fd].type # "none" => ConnOf(e[2], fd) # e[1]

\* RoundsInOrder, and a queue spans two ranks at most.
RanksFit ==
  \A n \in Node : \A i, j \in DOMAIN queue[n] :
    i < j => /\ Rank(queue[n][i]) <= Rank(queue[n][j])
             /\ Rank(queue[n][j]) <= Rank(queue[n][i]) + 1

\* Two events of one descriptor are messages.
EventsFit ==
  \A n \in Node : \A i, j \in DOMAIN queue[n] :
    i # j /\ queue[n][i].type \notin Bare /\ queue[n][j].type \notin Bare
      => \/ queue[n][i].fd # queue[n][j].fd
         \/ queue[n][i].type \in MsgEvents /\ queue[n][j].type \in MsgEvents

\* Messages that wait are of connections whose socket has nothing more to be read.
MessagesFit ==
  \A n \in Node : \A i, j \in DOMAIN queue[n] :
    queue[n][j].type \in MsgEvents =>
      /\ queue[n][j].conn \in DOMAIN conn
      /\ queue[n][i].type \in {"SocketRecv", "PeerSocketClose"}
           => queue[n][j].conn # ConnOf(n, queue[n][i].fd)

\* EventsOfLiveSockets, for one event and the sockets of its node.
Live(socks, e) ==
  /\ e.type \in {"SocketRecv", "SocketWrite", "PeerSocketConnect"} => socks[e.fd].type = "data"
  /\ e.type = "SocketConnect" => socks[e.fd].type = "connect"
  /\ e.type = "PeerSocketClose" => socks[e.fd].type = "closing"
LiveFit == \A n \in Node : Running(n) => \A i \in DOMAIN queue[n] : Live(sock[n], queue[n][i])

\* What the handlers rely on when they take an event.
QueueFit == RanksFit /\ EventsFit /\ LiveFit /\ MessagesFit

\* Bytes in the buffer of a descriptor that has no data socket are left from a
\* connection that was disconnected.
RestsFit ==
  \A n \in Node : \A fd \in FD :
    ~Mapped(n, fd) /\ recvBuff[n][fd] # << >> => \E c \in DOMAIN conn : <<c, n>> \in cut

\* No whole frame stays in a receive buffer.
BuffersFit == \A n \in Node : \A fd \in FD : ~WholeFrame(recvBuff[n][fd], 0)

IndInv == TypeOK /\ SocketsFit /\ CutsFit /\ QueueFit /\ RestsFit /\ BuffersFit

-----------------------------------------------------------------------------
(* Frames *)

\* A nonempty set of natural numbers has a least element.
LEMMA LeastNat ==
  ASSUME NEW S, S \subseteq Nat, S # {}
  PROVE  \E x \in S : \A y \in S : x <= y
<1>1. PICK x \in S : \A y \in S : ~ (<<y, x>> \in OpToRel(<, Nat))
  BY NatLessThanWellFounded, WFMin
<1>2. ASSUME NEW y \in S PROVE x <= y
  <2>1. x \in Nat /\ y \in Nat OBVIOUS
  <2>2. ~ (<<y, x>> \in OpToRel(<, Nat)) BY <1>1
  <2>3. ~ (y < x) BY <2>1, <2>2 DEF OpToRel
  <2> QED BY <2>1, <2>3
<1> QED BY <1>2

\* Where the parsing loop stands after one more frame.
AfterFrame(buf, p) ==
  IF WholeFrame(buf, p) THEN p + MagicSize + 1 + buf[p + MagicSize + 1][2] ELSE p

AfterFrames(buf) == [p \in 0..Len(buf) |-> AfterFrame(buf, p)]

\* FrameEnd, a recursive function, is defined for every buffer.
LEMMA FrameEndDefined ==
  ASSUME NEW buf, Len(buf) \in Nat
  PROVE  /\ FrameEnd(buf)[0] = 0
         /\ \A k \in 1..Len(buf) : FrameEnd(buf)[k] = AfterFrames(buf)[FrameEnd(buf)[k - 1]]
<1> DEFINE F(K, g) == [k \in 0..K |-> IF k = 0 THEN 0 ELSE AfterFrames(buf)[g[k - 1]]]
           S == {K \in Nat : ~ \E g : g = F(K, g)}
<1>1. S = {}
  <2> SUFFICES ASSUME S # {} PROVE FALSE OBVIOUS
  <2>1. PICK K \in S : \A y \in S : K <= y
    <3>1. S \subseteq Nat OBVIOUS
    <3> HIDE DEF S
    <3> QED BY <3>1, LeastNat
  <2>2. K \in Nat /\ ~ \E g : g = F(K, g) OBVIOUS
  <2>3. K # 0
    <3> SUFFICES ASSUME K = 0 PROVE FALSE OBVIOUS
    <3> DEFINE h == [k \in 0..0 |-> 0]
    <3>1. h = F(K, h) OBVIOUS
    <3> QED BY <2>2, <3>1
  <2>4. K - 1 \in Nat /\ K - 1 \notin S BY <2>1, <2>2, <2>3
  <2>5. PICK g : g = F(K - 1, g) BY <2>4
  <2> DEFINE h == [k \in 0..K |-> IF k = K THEN AfterFrames(buf)[g[K - 1]] ELSE g[k]]
  <2>6. ASSUME NEW k \in 0..K
        PROVE  h[k] = IF k = 0 THEN 0 ELSE AfterFrames(buf)[h[k - 1]]
    <3>1. CASE k = K
      <4>1. K - 1 \in 0..K /\ K - 1 # K BY <2>2, <2>3
      <4>2. h[K - 1] = g[K - 1] BY <4>1
      <4> QED BY <2>3, <3>1, <4>2
    <3>2. CASE k # K
      <4>1. k \in 0..(K - 1) /\ (k # 0 => k - 1 \in 0..K /\ k - 1 # K) BY <2>2, <3>2
      <4>2. h[k] = g[k] /\ (k # 0 => h[k - 1] = g[k - 1]) BY <3>2, <4>1
      <4>3. g[k] = IF k = 0 THEN 0 ELSE AfterFrames(buf)[g[k - 1]] BY <2>5, <4>1
      <4> QED BY <4>2, <4>3
    <3> QED BY <3>1, <3>2
  <2>7. h = F(K, h)
    <3>1. h = [k \in 0..K |-> h[k]] OBVIOUS
    <3> HIDE DEF h
    <3> QED BY <2>6, <3>1
  <2> QED BY <2>2, <2>7
<1> DEFINE L == Len(buf)
<1>2. \E g : g = F(L, g) BY <1>1
<1>3. FrameEnd(buf) = CHOOSE g : g = F(L, g) BY DEF FrameEnd, AfterFrames, AfterFrame
<1>4. FrameEnd(buf) = F(L, FrameEnd(buf)) BY <1>2, <1>3
<1> DEFINE e == FrameEnd(buf)
<1> HIDE DEF e
<1>5. e = F(L, e) BY <1>4 DEF e
<1>6. e[0] = 0 /\ \A k \in 1..L : e[k] = AfterFrames(buf)[e[k - 1]]
  <2>1. 0 \in 0..L /\ \A k \in 1..L : k \in 0..L /\ k # 0 OBVIOUS
  <2> QED BY <1>5, <2>1
<1> QED BY <1>6 DEF e

\* The assumptions, as the proofs need them.
LEMMA Constants ==
  /\ MaxConn \in Nat /\ MaxMsg \in [Node -> Nat]
  /\ MagicSize \in Nat \ {0} /\ ReadSize \in Nat \ {0} /\ Capacity \in Nat \ {0}
  /\ Sizes \subseteq Nat \ {0}
BY StreamAssumption

\* A byte of a length says a size, one of a body a message.
LEMMA ByteFacts ==
  ASSUME NEW b \in Byte
  PROVE  /\ b[1] = "len" => b[2] \in Nat \ {0}
         /\ b[1] = "body" => b[2] \in Message
BY Constants DEF Byte

\* After a frame the loop stands further on, within the buffer.
LEMMA AfterFrameBounds ==
  ASSUME NEW buf \in Seq(Byte), NEW p \in 0..Len(buf)
  PROVE  /\ AfterFrame(buf, p) \in p..Len(buf)
         /\ WholeFrame(buf, p) => AfterFrame(buf, p) > p
<1>1. CASE ~WholeFrame(buf, p) BY <1>1, LenProperties DEF AfterFrame
<1>2. CASE WholeFrame(buf, p)
  <2> DEFINE q == p + MagicSize + 1
  <2>1. q \in 1..Len(buf) BY <1>2, Constants, LenProperties DEF WholeFrame
  <2>2. buf[q] \in Byte BY <2>1, ElementOfSeq
  <2>3. buf[q][2] \in Nat /\ q + buf[q][2] <= Len(buf) BY <1>2, <2>2, ByteFacts DEF WholeFrame
  <2>4. AfterFrame(buf, p) = q + buf[q][2] BY <1>2 DEF AfterFrame
  <2> QED BY <2>1, <2>3, <2>4, Constants, LenProperties
<1> QED BY <1>1, <1>2

\* The loop goes from frame to frame.
LEMMA FrameEndSteps ==
  ASSUME NEW buf \in Seq(Byte)
  PROVE  /\ FrameEnd(buf)[0] = 0
         /\ \A k \in 1..Len(buf) : FrameEnd(buf)[k] = AfterFrame(buf, FrameEnd(buf)[k - 1])
<1> DEFINE e == FrameEnd(buf)
           L == Len(buf)
           S == {k \in 0..L : e[k] \notin 0..L}
<1>1. L \in Nat BY LenProperties
<1>2. e[0] = 0 /\ \A k \in 1..L : e[k] = AfterFrames(buf)[e[k - 1]] BY <1>1, FrameEndDefined
<1> HIDE DEF e
<1>3. ASSUME NEW k \in 1..L, e[k - 1] \in 0..L
      PROVE  e[k] = AfterFrame(buf, e[k - 1]) /\ e[k] \in 0..L
  <2>1. e[k] = AfterFrame(buf, e[k - 1]) BY <1>2, <1>3 DEF AfterFrames
  <2>2. AfterFrame(buf, e[k - 1]) \in e[k - 1]..L BY <1>3, AfterFrameBounds
  <2> QED BY <1>1, <1>3, <2>1, <2>2
<1>4. S = {}
  <2> SUFFICES ASSUME S # {} PROVE FALSE OBVIOUS
  <2>1. PICK k \in S : \A y \in S : k <= y
    <3>1. S \subseteq Nat BY <1>1
    <3> HIDE DEF S
    <3> QED BY <3>1, LeastNat
  <2>2. k \in 0..L /\ k # 0 BY <1>1, <1>2
  <2>3. k - 1 \in 0..L /\ k - 1 \notin S /\ k \in 1..L BY <1>1, <2>1, <2>2
  <2>4. e[k - 1] \in 0..L BY <2>3
  <2>5. e[k] \in 0..L BY <1>3, <2>3, <2>4
  <2> QED BY <2>5
<1>5. ASSUME NEW k \in 1..L PROVE e[k] = AfterFrame(buf, e[k - 1])
  <2>1. k - 1 \in 0..L BY <1>1
  <2>2. e[k - 1] \in 0..L BY <1>4, <2>1
  <2> QED BY <1>3, <2>2
<1> QED BY <1>2, <1>5 DEF e

\* The ends of frames lie in the buffer, and the loop stops only where no whole
\* frame follows.
LEMMA FrameEndBounds ==
  ASSUME NEW buf \in Seq(Byte)
  PROVE  /\ \A k \in 0..Len(buf) : FrameEnd(buf)[k] \in 0..Len(buf)
         /\ ~WholeFrame(buf, FrameEnd(buf)[Len(buf)])
<1> DEFINE e == FrameEnd(buf)
           L == Len(buf)
           S == {k \in 0..L : ~ (e[k] \in 0..L /\ (WholeFrame(buf, e[k]) => e[k] >= k))}
<1>1. L \in Nat BY LenProperties
<1>2. e[0] = 0 /\ \A k \in 1..L : e[k] = AfterFrame(buf, e[k - 1]) BY <1>1, FrameEndSteps
<1> HIDE DEF e
<1>3. S = {}
  <2> SUFFICES ASSUME S # {} PROVE FALSE OBVIOUS
  <2>1. PICK k \in S : \A y \in S : k <= y
    <3>1. S \subseteq Nat BY <1>1
    <3> HIDE DEF S
    <3> QED BY <3>1, LeastNat
  <2>2. k \in 0..L /\ k # 0 BY <1>1, <1>2
  <2>3. k - 1 \in 0..L /\ k - 1 \notin S /\ k \in 1..L BY <1>1, <2>1, <2>2
  <2>4. e[k - 1] \in 0..L /\ (WholeFrame(buf, e[k - 1]) => e[k - 1] >= k - 1) BY <2>3
  <2>5. e[k] = AfterFrame(buf, e[k - 1]) BY <1>2, <2>3
  <2>6. e[k] \in e[k - 1]..L /\ (WholeFrame(buf, e[k - 1]) => e[k] > e[k - 1])
    BY <2>4, <2>5, AfterFrameBounds
  <2>7. WholeFrame(buf, e[k]) => WholeFrame(buf, e[k - 1])
    BY <2>5 DEF AfterFrame
  <2>8. e[k] \in 0..L /\ (WholeFrame(buf, e[k]) => e[k] >= k) BY <1>1, <2>3, <2>4, <2>6, <2>7
  <2> QED BY <2>8
<1>4. ASSUME NEW k \in 0..L PROVE e[k] \in 0..L /\ (WholeFrame(buf, e[k]) => e[k] >= k)
  BY <1>3
<1>5. ~WholeFrame(buf, e[L])
  <2> SUFFICES ASSUME WholeFrame(buf, e[L]) PROVE FALSE OBVIOUS
  <2>1. e[L] = L BY <1>1, <1>4
  <2>2. L + MagicSize + 1 <= L BY <2>1 DEF WholeFrame
  <2> QED BY <1>1, <2>2, Constants
<1> QED BY <1>4, <1>5 DEF e

\* What the loop leaves are bytes, and no whole frame begins there.
LEMMA RemainFits ==
  ASSUME NEW buf \in Seq(Byte)
  PROVE  Remain(buf) \in Seq(Byte) /\ ~WholeFrame(Remain(buf), 0)
<1> DEFINE L == Len(buf)
           r == Remain(buf)
<1>1. L \in Nat BY LenProperties
<1>2. PICK p \in 0..L : p = FrameEnd(buf)[L] BY <1>1, FrameEndBounds
<1>3. ~WholeFrame(buf, p) BY <1>2, FrameEndBounds
<1>4. r = SubSeq(buf, p + 1, L) BY <1>2 DEF Remain
<1> HIDE DEF r
<1>5. r \in Seq(Byte) /\ Len(r) = L - p /\ \A i \in 1..(L - p) : r[i] = buf[p + i]
  <2>1. p + 1 \in 1..(L + 1) /\ L \in p..L BY <1>1
  <2>2. CASE p = L
    <3>1. r = << >> BY <1>1, <1>4, <2>2, SubSeqEmpty
    <3> QED BY <1>1, <2>2, <3>1
  <2>3. CASE p # L
    <3>1. p + 1 \in 1..L /\ L \in (p + 1)..L BY <1>1, <2>3
    <3>2. \A i \in (p + 1)..L : buf[i] \in Byte BY <1>1, ElementOfSeq
    <3>3. L - (p + 1) + 1 = L - p /\ \A i \in 1..(L - p) : (p + 1) + i - 1 = p + i BY <1>1
    <3> QED BY <1>1, <1>4, <3>1, <3>2, <3>3, SubSeqProperties
  <2> QED BY <2>2, <2>3
<1>6. ASSUME WholeFrame(r, 0) PROVE WholeFrame(buf, p)
  <2> DEFINE q == MagicSize + 1
  <2>1. q \in Nat /\ q >= 2 /\ 0 + MagicSize + 1 = q BY Constants
  <2>2. q <= L - p BY <1>5, <1>6, <2>1 DEF WholeFrame
  <2>3. ASSUME NEW i \in 1..MagicSize PROVE buf[p + i] = <<"magic", i>>
    <3>1. i \in 1..(L - p) /\ 0 + i = i BY <1>1, <2>2, Constants
    <3>2. r[0 + i] = <<"magic", i>> BY <1>6 DEF WholeFrame
    <3> QED BY <1>5, <3>1, <3>2
  <2>4. r[q] = buf[p + q] /\ p + MagicSize + 1 = p + q BY <1>1, <1>5, <2>1, <2>2, Constants
  <2>5. p + q \in 1..L BY <1>1, <2>1, <2>2
  <2>6. buf[p + q][1] = "len" BY <1>6, <2>1, <2>4 DEF WholeFrame
  <2>7. buf[p + q][2] \in Nat BY <2>5, <2>6, ElementOfSeq, ByteFacts
  <2>8. q + buf[p + q][2] <= L - p BY <1>5, <1>6, <2>1, <2>4 DEF WholeFrame
  <2>9. p + q + buf[p + q][2] <= L BY <1>1, <2>1, <2>7, <2>8
  <2> QED BY <1>1, <2>3, <2>4, <2>5, <2>6, <2>9 DEF WholeFrame
<1> QED BY <1>3, <1>5, <1>6 DEF r

\* A body is a message of one of its bytes, or garbled.
LEMMA ContentType ==
  ASSUME NEW body \in Seq(Byte), body # << >>
  PROVE  Content(body) \in Message
<1>1. body[1] \in Byte BY EmptySeq, LenProperties, ElementOfSeq
<1>2. Garbled \in Message BY Constants DEF Garbled, Message
<1>3. body[1][1] = "body" => body[1][2] \in Message BY <1>1, ByteFacts
<1> QED BY <1>2, <1>3 DEF Content

\* The bodies of whole frames are messages.
LEMMA ParsedType ==
  ASSUME NEW buf \in Seq(Byte)
  PROVE  Parsed(buf) \in Seq(Message)
<1> DEFINE e == FrameEnd(buf)
           L == Len(buf)
           K == {k \in 1..L : e[k] > e[k - 1]}
<1>1. L \in Nat BY LenProperties
<1>2. \A k \in 1..L : e[k] = AfterFrame(buf, e[k - 1]) BY <1>1, FrameEndSteps
<1>3. \A k \in 0..L : e[k] \in 0..L BY <1>1, FrameEndBounds
<1> HIDE DEF e
<1>4. ASSUME NEW k \in K, k # 1 PROVE k - 1 \in K
  <2>1. k \in 1..L /\ k - 1 \in 1..L /\ k - 1 \in 0..L /\ k - 2 \in 0..L /\ (k - 1) - 1 = k - 2
    BY <1>1, <1>4
  <2>2. WholeFrame(buf, e[k - 1])
    <3> SUFFICES ASSUME ~WholeFrame(buf, e[k - 1]) PROVE FALSE OBVIOUS
    <3>1. e[k] = e[k - 1] BY <1>2, <2>1 DEF AfterFrame
    <3> QED BY <1>3, <2>1, <3>1
  <2>3. WholeFrame(buf, e[k - 2])
    <3> SUFFICES ASSUME ~WholeFrame(buf, e[k - 2]) PROVE FALSE OBVIOUS
    <3>1. e[k - 1] = e[k - 2] BY <1>2, <2>1 DEF AfterFrame
    <3> QED BY <2>2, <3>1
  <2>4. e[k - 1] > e[k - 2] BY <1>2, <1>3, <2>1, <2>3, AfterFrameBounds
  <2> QED BY <2>1, <2>4
<1>5. K = 1..Cardinality(K) /\ Cardinality(K) \in Nat
  <2> DEFINE D == 1..(L + 1) \ K
  <2>1. PICK m \in D : \A y \in D : m <= y
    <3>1. D \subseteq Nat /\ L + 1 \in D BY <1>1
    <3> HIDE DEF D
    <3> QED BY <3>1, LeastNat
  <2>2. m \in 1..(L + 1) /\ m \notin K /\ 1..(m - 1) \subseteq K BY <1>1, <2>1
  <2> DEFINE H == {y \in K : y >= m}
  <2>3. H = {}
    <3> SUFFICES ASSUME H # {} PROVE FALSE OBVIOUS
    <3>1. PICK y \in H : \A z \in H : y <= z
      <4>1. H \subseteq Nat BY <1>1
      <4> HIDE DEF H
      <4> QED BY <4>1, LeastNat
    <3>2. y \in K /\ y # m /\ y \in Nat /\ y > m /\ y # 1 BY <2>2
    <3>3. y - 1 \in K /\ y - 1 >= m BY <1>4, <2>2, <3>2
    <3> QED BY <3>1, <3>2, <3>3
  <2>4. K = 1..(m - 1) BY <1>1, <2>2, <2>3
  <2> HIDE DEF K
  <2>5. Cardinality(1..(m - 1)) = m - 1 BY <1>1, <2>2, FS_Interval
  <2> QED BY <1>1, <2>2, <2>4, <2>5
<1> DEFINE body(k) == SubSeq(buf, e[k - 1] + MagicSize + 2, e[k])
           c == Cardinality(K)
<1>6. ASSUME NEW k \in K PROVE Content(body(k)) \in Message
  <2>1. k \in 1..L /\ k \in 0..L /\ k - 1 \in 0..L BY <1>1
  <2>2. PICK p \in 0..L : p = e[k - 1] BY <1>3, <2>1
  <2>3. WholeFrame(buf, p)
    <3> SUFFICES ASSUME ~WholeFrame(buf, p) PROVE FALSE OBVIOUS
    <3>1. e[k] = p BY <1>2, <2>1, <2>2 DEF AfterFrame
    <3> QED BY <2>2, <3>1
  <2> DEFINE q == p + MagicSize + 1
  <2>4. q \in 1..L /\ buf[q][1] = "len" BY <1>1, <2>3, Constants DEF WholeFrame
  <2>5. e[k] = q + buf[q][2] BY <1>2, <2>1, <2>2, <2>3 DEF AfterFrame
  <2>6. e[k] \in 0..L BY <1>3, <2>1
  <2>7. buf[q] \in Byte BY <2>4, ElementOfSeq
  <2>8. buf[q][2] \in Nat \ {0} BY <2>4, <2>7, ByteFacts
  <2>9. q + 1 \in 1..L /\ e[k] \in (q + 1)..L BY <1>1, <2>4, <2>5, <2>6, <2>8
  <2>10. p + MagicSize + 2 = q + 1 BY <2>2, Constants
  <2>11. body(k) = SubSeq(buf, q + 1, e[k]) BY <2>2, <2>10
  <2>12. \A i \in (q + 1)..e[k] : buf[i] \in Byte BY <1>1, <2>9, ElementOfSeq
  <2>13. body(k) \in Seq(Byte) /\ Len(body(k)) # 0
    <3> HIDE DEF body, q
    <3> QED BY <2>9, <2>11, <2>12, SubSeqProperties
  <2> HIDE DEF body
  <2>14. body(k) # << >> BY <2>13, EmptySeq
  <2> QED BY <2>13, <2>14, ContentType
<1>7. \A k \in 1..c : k \in K BY <1>5
<1>8. Parsed(buf) = [k \in 1..c |-> Content(body(k))] BY DEF Parsed, e
<1> HIDE DEF K, body
<1> QED BY <1>5, <1>6, <1>7, <1>8, IsASeq

-----------------------------------------------------------------------------
(* Queues *)

\* The fields of an event, by its type.
LEMMA EventFacts ==
  ASSUME NEW e \in Event
  PROVE  /\ e.type \in Bare \cup {"SocketAccept"} \cup SocketEvents \cup MsgEvents
         /\ e.type = "SocketAccept" => e.fd = 0
         /\ e.type \in SocketEvents => e.fd \in FD
         /\ e.type \in MsgEvents => e.fd \in FD /\ e.conn \in 1..MaxConn /\ e.msg \in Message
BY DEF Event, Bare, Mined, Failures, SocketEvents, MsgEvents

\* The rank of an event, by its type.
LEMMA RankFacts ==
  ASSUME NEW e \in Event
  PROVE  /\ Rank(e) \in 0..3
         /\ e.type \in Mined => Rank(e) = 0
         /\ e.type \in Watched => Rank(e) = 1
         /\ e.type \in {"PeerSocketConnect", "PeerSocketClose", "PeerRecvMsg", "PeerRecvNotifyPeerId",
                         "SocketConnectFailed"} => Rank(e) = 2
         /\ e.type \in {"ProtocolRecvMsg", "PeerSocketConnectFailed"} => Rank(e) = 3
BY EventFacts DEF Rank, LayerOf, Bare, Mined, Failures, Watched, Layer1, Layer2, SocketEvents, MsgEvents

\* The elements of a queue after its head was handled.
LEMMA PoppedElements ==
  ASSUME NEW S, NEW q \in Seq(S), q # << >>, NEW evs \in Seq(S), NEW r, r = Tail(q) \o evs
  PROVE  /\ r \in Seq(S) /\ Head(q) = q[1] /\ 1 \in DOMAIN q
         /\ \A j \in DOMAIN r :
              \/ j + 1 \in DOMAIN q /\ r[j] = q[j + 1] /\ j < Len(q)
              \/ \E k \in DOMAIN evs : r[j] = evs[k] /\ k = j - Len(q) + 1 /\ j >= Len(q)
<1>1. Len(q) \in Nat \ {0} /\ DOMAIN q = 1..Len(q) /\ Len(evs) \in Nat /\ DOMAIN evs = 1..Len(evs)
  BY EmptySeq, LenProperties
<1>2. Tail(q) \in Seq(S) /\ Len(Tail(q)) = Len(q) - 1 /\ \A i \in 1..Len(Tail(q)) : Tail(q)[i] = q[i + 1]
  BY HeadTailProperties
<1>3. /\ r \in Seq(S) /\ Len(r) = Len(Tail(q)) + Len(evs)
      /\ \A i \in 1..Len(Tail(q)) + Len(evs) :
           r[i] = IF i <= Len(Tail(q)) THEN Tail(q)[i] ELSE evs[i - Len(Tail(q))]
  BY <1>2, ConcatProperties
<1>4. DOMAIN r = 1..Len(r) BY <1>3, LenProperties
<1>5. ASSUME NEW j \in DOMAIN r
      PROVE  \/ j + 1 \in DOMAIN q /\ r[j] = q[j + 1] /\ j < Len(q)
             \/ \E k \in DOMAIN evs : r[j] = evs[k] /\ k = j - Len(q) + 1 /\ j >= Len(q)
  <2>1. j \in 1..(Len(q) - 1 + Len(evs)) BY <1>2, <1>3, <1>4
  <2>2. CASE j <= Len(q) - 1
    <3>1. r[j] = Tail(q)[j] /\ Tail(q)[j] = q[j + 1] BY <1>1, <1>2, <1>3, <2>1, <2>2
    <3>2. j + 1 \in DOMAIN q /\ j < Len(q) BY <1>1, <2>1, <2>2
    <3> QED BY <3>1, <3>2
  <2>3. CASE ~ (j <= Len(q) - 1)
    <3>1. r[j] = evs[j - (Len(q) - 1)] BY <1>1, <1>2, <1>3, <2>1, <2>3
    <3>2. j - (Len(q) - 1) = j - Len(q) + 1 /\ j - Len(q) + 1 \in DOMAIN evs /\ j >= Len(q)
      BY <1>1, <2>1, <2>3
    <3> QED BY <3>1, <3>2
  <2> QED BY <2>2, <2>3
<1>6. Head(q) = q[1] OBVIOUS
<1> QED BY <1>1, <1>3, <1>5, <1>6

\* What the events that a handler pushes have to do with the event it handles.
Pushes(n, evs) ==
  LET e == Head(queue[n]) IN
  /\ evs \in Seq(Event)
  /\ \A k \in DOMAIN evs :
       /\ Rank(evs[k]) = Rank(e) + 1
       /\ evs[k].type \notin Bare => e.type \notin Bare /\ evs[k].fd = e.fd
       /\ e.type \in MsgEvents => evs[k].type \in MsgEvents
  /\ \A k, l \in DOMAIN evs : k # l => evs[k].type \in MsgEvents

\* The order of a queue and the descriptors of its events, after a handler.
LEMMA PoppedOrder ==
  ASSUME queue \in [Node -> Seq(Event)], RanksFit, EventsFit,
         NEW n \in Node, queue[n] # << >>, NEW evs, Pushes(n, evs), queue' = Popped(n, evs)
  PROVE  queue' \in [Node -> Seq(Event)] /\ RanksFit' /\ EventsFit'
<1> DEFINE q == queue[n]
           r == queue'[n]
           e == Head(queue[n])
<1>1. q \in Seq(Event) /\ evs \in Seq(Event) BY DEF Pushes
<1>2. r = Tail(q) \o evs /\ \A m \in Node : m # n => queue'[m] = queue[m] BY DEF Popped
<1>3. /\ r \in Seq(Event) /\ e = q[1] /\ 1 \in DOMAIN q
      /\ \A j \in DOMAIN r :
           \/ j + 1 \in DOMAIN q /\ r[j] = q[j + 1] /\ j < Len(q)
           \/ \E k \in DOMAIN evs : r[j] = evs[k] /\ k = j - Len(q) + 1 /\ j >= Len(q)
  BY <1>1, <1>2, PoppedElements
<1>4. queue' \in [Node -> Seq(Event)] BY <1>1, <1>2, <1>3 DEF Popped
<1>5. /\ Len(q) \in Nat /\ DOMAIN q \subseteq Nat /\ DOMAIN r \subseteq Nat /\ DOMAIN evs \subseteq Nat
      /\ \A j \in DOMAIN q : j >= 1 /\ q[j] \in Event
      /\ \A j \in DOMAIN r : j >= 1 /\ r[j] \in Event
      /\ \A j \in DOMAIN evs : evs[j] \in Event
  BY <1>1, <1>3, LenProperties, ElementOfSeq
<1>6. \A j \in DOMAIN q : Rank(q[j]) \in 0..3 BY <1>5, RankFacts
<1>7. /\ \A k \in DOMAIN evs :
            /\ Rank(evs[k]) = Rank(e) + 1
            /\ evs[k].type \notin Bare => e.type \notin Bare /\ evs[k].fd = e.fd
            /\ e.type \in MsgEvents => evs[k].type \in MsgEvents
      /\ \A k, l \in DOMAIN evs : k # l => evs[k].type \in MsgEvents
  BY DEF Pushes
<1>8. /\ \A i, j \in DOMAIN q : i < j => Rank(q[i]) <= Rank(q[j]) /\ Rank(q[j]) <= Rank(q[i]) + 1
      /\ \A i, j \in DOMAIN q : i # j /\ q[i].type \notin Bare /\ q[j].type \notin Bare
           => q[i].fd # q[j].fd \/ (q[i].type \in MsgEvents /\ q[j].type \in MsgEvents)
  BY DEF RanksFit, EventsFit
<1> HIDE DEF q, r, e
<1>9. ASSUME NEW i \in DOMAIN r, NEW j \in DOMAIN r, i < j
      PROVE  Rank(r[i]) <= Rank(r[j]) /\ Rank(r[j]) <= Rank(r[i]) + 1
  <2>1. CASE j + 1 \in DOMAIN q /\ r[j] = q[j + 1] /\ j < Len(q)
    <3>1. i + 1 \in DOMAIN q /\ r[i] = q[i + 1] BY <1>3, <1>5, <1>9, <2>1
    <3>2. i + 1 < j + 1 BY <1>5, <1>9
    <3> QED BY <1>8, <2>1, <3>1, <3>2
  <2>2. CASE \E k \in DOMAIN evs : r[j] = evs[k]
    <3>1. Rank(r[j]) = Rank(e) + 1 BY <1>7, <2>2
    <3>2. CASE i + 1 \in DOMAIN q /\ r[i] = q[i + 1]
      <4>1. 1 < i + 1 BY <1>5
      <4>2. Rank(q[1]) <= Rank(q[i + 1]) /\ Rank(q[i + 1]) <= Rank(q[1]) + 1 BY <1>3, <1>8, <3>2, <4>1
      <4>3. Rank(r[i]) = Rank(q[i + 1]) /\ Rank(e) = Rank(q[1]) BY <1>3, <3>2
      <4>4. Rank(q[i + 1]) \in 0..3 /\ Rank(q[1]) \in 0..3 BY <1>3, <1>6, <3>2
      <4> HIDE DEF Rank
      <4> QED BY <3>1, <4>2, <4>3, <4>4
    <3>3. CASE \E k \in DOMAIN evs : r[i] = evs[k]
      <4>1. Rank(r[i]) = Rank(e) + 1 BY <1>7, <3>3
      <4> QED BY <1>3, <1>6, <3>1, <4>1
    <3> QED BY <1>3, <3>2, <3>3
  <2> QED BY <1>3, <2>1, <2>2
<1>10. ASSUME NEW i \in DOMAIN q, i # 1, NEW k \in DOMAIN evs,
               q[i].type \notin Bare, evs[k].type \notin Bare
       PROVE  q[i].fd # evs[k].fd \/ (q[i].type \in MsgEvents /\ evs[k].type \in MsgEvents)
  BY <1>3, <1>7, <1>8, <1>10
<1>11. ASSUME NEW i \in DOMAIN r, NEW j \in DOMAIN r, i # j,
              r[i].type \notin Bare, r[j].type \notin Bare
       PROVE  r[i].fd # r[j].fd \/ (r[i].type \in MsgEvents /\ r[j].type \in MsgEvents)
  <2>1. CASE /\ i + 1 \in DOMAIN q /\ r[i] = q[i + 1]
             /\ j + 1 \in DOMAIN q /\ r[j] = q[j + 1]
    <3>1. i + 1 # j + 1 BY <1>5, <1>11
    <3> QED BY <1>8, <1>11, <2>1, <3>1
  <2>2. CASE i + 1 \in DOMAIN q /\ r[i] = q[i + 1] /\ \E k \in DOMAIN evs : r[j] = evs[k]
    <3>1. i + 1 # 1 BY <1>5
    <3> QED BY <1>10, <1>11, <2>2, <3>1
  <2>3. CASE j + 1 \in DOMAIN q /\ r[j] = q[j + 1] /\ \E k \in DOMAIN evs : r[i] = evs[k]
    <3>1. j + 1 # 1 BY <1>5
    <3> QED BY <1>10, <1>11, <2>3, <3>1
  <2>4. ASSUME NEW k \in DOMAIN evs, r[i] = evs[k], k = i - Len(q) + 1,
               NEW l \in DOMAIN evs, r[j] = evs[l], l = j - Len(q) + 1
        PROVE  r[i].type \in MsgEvents /\ r[j].type \in MsgEvents
    <3>1. k # l BY <1>5, <1>11, <2>4
    <3> QED BY <1>7, <2>4, <3>1
  <2> QED BY <1>3, <2>1, <2>2, <2>3, <2>4
<1>12. RanksFit'
  <2> SUFFICES ASSUME NEW m \in Node, NEW i \in DOMAIN queue'[m], NEW j \in DOMAIN queue'[m], i < j
               PROVE  /\ Rank(queue'[m][i]) <= Rank(queue'[m][j])
                      /\ Rank(queue'[m][j]) <= Rank(queue'[m][i]) + 1
    BY DEF RanksFit, Rank, LayerOf
  <2>1. CASE m = n BY <1>9, <2>1 DEF r
  <2>2. CASE m # n BY <1>2, <2>2 DEF RanksFit
  <2> QED BY <2>1, <2>2
<1>13. EventsFit'
  <2> SUFFICES ASSUME NEW m \in Node, NEW i \in DOMAIN queue'[m], NEW j \in DOMAIN queue'[m], i # j,
                      queue'[m][i].type \notin Bare, queue'[m][j].type \notin Bare
               PROVE  \/ queue'[m][i].fd # queue'[m][j].fd
                      \/ queue'[m][i].type \in MsgEvents /\ queue'[m][j].type \in MsgEvents
    BY DEF EventsFit
  <2>1. CASE m = n BY <1>11, <2>1 DEF r
  <2>2. CASE m # n BY <1>2, <2>2 DEF EventsFit
  <2> QED BY <2>1, <2>2
<1> QED BY <1>4, <1>12, <1>13

\* The sockets of queued events and the connections of queued messages, after a
\* handler that changed at most the socket of its event and free descriptors.
LEMMA PoppedSockets ==
  ASSUME queue \in [Node -> Seq(Event)], EventsFit, LiveFit, MessagesFit,
         NEW n \in Node, Running(n), queue[n] # << >>, NEW evs, Pushes(n, evs), queue' = Popped(n, evs),
         \A m \in Node : m # n => sock'[m] = sock[m] /\ (Running(m)' => Running(m)),
         \A fd \in FD :
           \/ sock'[n][fd].type = sock[n][fd].type /\ sock'[n][fd].conn = sock[n][fd].conn
           \/ sock[n][fd].type = "none"
           \/ Head(queue[n]).type \in SocketEvents \cup MsgEvents /\ fd = Head(queue[n]).fd,
         DOMAIN conn \subseteq DOMAIN conn',
         \A k \in DOMAIN evs :
           /\ Running(n)' => Live(sock'[n], evs[k])
           /\ evs[k].type \in MsgEvents =>
                /\ evs[k].conn \in DOMAIN conn
                /\ \A i \in DOMAIN queue[n] :
                     i # 1 /\ queue[n][i].type \in {"SocketRecv", "PeerSocketClose"}
                       => evs[k].conn # ConnOf(n, queue[n][i].fd)
           /\ evs[k].type \in {"SocketRecv", "PeerSocketClose"} =>
                \A j \in DOMAIN queue[n] :
                  queue[n][j].type \in MsgEvents => queue[n][j].conn # sock'[n][evs[k].fd].conn
  PROVE  LiveFit' /\ MessagesFit'
<1> DEFINE q == queue[n]
           r == queue'[n]
           e == Head(queue[n])
<1>1. q \in Seq(Event) /\ evs \in Seq(Event) BY DEF Pushes
<1>2. r = Tail(q) \o evs /\ \A m \in Node : m # n => queue'[m] = queue[m] BY DEF Popped
<1>3. /\ e = q[1] /\ 1 \in DOMAIN q
      /\ \A j \in DOMAIN r :
           \/ j + 1 \in DOMAIN q /\ r[j] = q[j + 1] /\ j < Len(q)
           \/ \E k \in DOMAIN evs : r[j] = evs[k] /\ k = j - Len(q) + 1 /\ j >= Len(q)
      /\ r \in Seq(Event)
  BY <1>1, <1>2, PoppedElements
<1>4. \A j \in DOMAIN r : j + 1 # 1
  <2>1. DOMAIN r = 1..Len(r) /\ Len(r) \in Nat BY <1>3, LenProperties
  <2> QED BY <2>1
<1>5. \A i \in DOMAIN q : q[i] \in Event BY <1>1, LenProperties, ElementOfSeq
<1>6. \A k \in DOMAIN evs : \A l \in DOMAIN evs : k # l => evs[k].type \in MsgEvents BY DEF Pushes
<1>7. ASSUME NEW i \in DOMAIN q, i # 1, q[i].type \in SocketEvents
      PROVE  /\ q[i].fd \in FD
             /\ sock'[n][q[i].fd].type = sock[n][q[i].fd].type
             /\ sock'[n][q[i].fd].conn = sock[n][q[i].fd].conn
  <2>1. q[i].fd \in FD BY <1>5, <1>7, EventFacts
  <2>2. sock[n][q[i].fd].type # "none" BY <1>7 DEF LiveFit, Live, SocketEvents
  <2>3. ASSUME e.type \in SocketEvents \cup MsgEvents PROVE q[i].fd # e.fd
    <3>1. e.type \notin Bare /\ q[i].type \notin Bare /\ q[i].type \notin MsgEvents
      BY <1>7, <2>3 DEF Bare, Mined, Failures, SocketEvents, MsgEvents
    <3> QED BY <1>3, <1>7, <3>1 DEF EventsFit
  <2> QED BY <2>1, <2>2, <2>3
<1>8. ASSUME NEW j \in DOMAIN r, Running(n)' PROVE Live(sock'[n], r[j])
  <2>1. CASE j + 1 \in DOMAIN q /\ r[j] = q[j + 1]
    <3>1. Live(sock[n], q[j + 1]) BY <2>1 DEF LiveFit
    <3>2. j + 1 # 1 BY <1>4
    <3>3. CASE q[j + 1].type \in SocketEvents
      <4>1. sock'[n][q[j + 1].fd].type = sock[n][q[j + 1].fd].type BY <1>7, <2>1, <3>2, <3>3
      <4> QED BY <2>1, <3>1, <4>1 DEF Live
    <3>4. CASE q[j + 1].type \notin SocketEvents BY <2>1, <3>4 DEF Live, SocketEvents
    <3> QED BY <3>3, <3>4
  <2>2. CASE \E k \in DOMAIN evs : r[j] = evs[k]
    <3>1. PICK k \in DOMAIN evs : r[j] = evs[k] BY <2>2
    <3>2. Live(sock'[n], evs[k]) BY <1>8
    <3> QED BY <3>1, <3>2
  <2> QED BY <1>3, <2>1, <2>2
<1>9. ASSUME NEW i \in DOMAIN r, NEW j \in DOMAIN r, r[j].type \in MsgEvents
      PROVE  /\ r[j].conn \in DOMAIN conn'
             /\ r[i].type \in {"SocketRecv", "PeerSocketClose"} => r[j].conn # sock'[n][r[i].fd].conn
  <2>1. r[j].conn \in DOMAIN conn'
    <3>1. CASE j + 1 \in DOMAIN q /\ r[j] = q[j + 1] BY <1>9, <3>1 DEF MessagesFit
    <3>2. CASE \E k \in DOMAIN evs : r[j] = evs[k] BY <1>9, <3>2
    <3> QED BY <1>3, <3>1, <3>2
  <2>2. ASSUME r[i].type \in {"SocketRecv", "PeerSocketClose"} PROVE r[j].conn # sock'[n][r[i].fd].conn
    <3>1. r[i].type \in SocketEvents /\ r[i].type \notin MsgEvents BY <2>2 DEF SocketEvents, MsgEvents
    <3>2. CASE i + 1 \in DOMAIN q /\ r[i] = q[i + 1]
      <4>1. i + 1 # 1 BY <1>4
      <4>2. sock'[n][r[i].fd].conn = ConnOf(n, r[i].fd) BY <1>7, <3>1, <3>2, <4>1 DEF ConnOf
      <4>3. CASE j + 1 \in DOMAIN q /\ r[j] = q[j + 1]
        BY <1>9, <2>2, <3>2, <4>2, <4>3 DEF MessagesFit
      <4>4. CASE \E k \in DOMAIN evs : r[j] = evs[k] BY <1>9, <2>2, <3>2, <4>1, <4>2, <4>4
      <4> QED BY <1>3, <4>3, <4>4
    <3>3. CASE \E k \in DOMAIN evs : r[i] = evs[k]
      <4>1. PICK k \in DOMAIN evs : r[i] = evs[k] BY <3>3
      <4>2. CASE j + 1 \in DOMAIN q /\ r[j] = q[j + 1] BY <1>9, <2>2, <4>1, <4>2
      <4>3. CASE \E l \in DOMAIN evs : r[j] = evs[l]
        <5>1. PICK l \in DOMAIN evs : r[j] = evs[l] BY <4>3
        <5> QED BY <1>6, <1>9, <3>1, <4>1, <5>1
      <4> QED BY <1>3, <4>2, <4>3
    <3> QED BY <1>3, <3>2, <3>3
  <2> QED BY <2>1, <2>2
<1>10. LiveFit'
  <2> SUFFICES ASSUME NEW m \in Node, Running(m)', NEW i \in DOMAIN queue'[m]
               PROVE  Live(sock'[m], queue'[m][i])
    BY DEF LiveFit
  <2>1. CASE m = n BY <1>8, <2>1
  <2>2. CASE m # n
    <3>1. Running(m) /\ sock'[m] = sock[m] /\ queue'[m] = queue[m] BY <1>2, <2>2
    <3>2. Live(sock[m], queue[m][i]) BY <3>1 DEF LiveFit
    <3> QED BY <3>1, <3>2
  <2> QED BY <2>1, <2>2
<1>11. MessagesFit'
  <2> SUFFICES ASSUME NEW m \in Node, NEW i \in DOMAIN queue'[m], NEW j \in DOMAIN queue'[m],
                      queue'[m][j].type \in MsgEvents
               PROVE  /\ queue'[m][j].conn \in DOMAIN conn'
                      /\ queue'[m][i].type \in {"SocketRecv", "PeerSocketClose"}
                           => queue'[m][j].conn # sock'[m][queue'[m][i].fd].conn
    BY DEF MessagesFit, ConnOf
  <2>1. CASE m = n BY <1>9, <2>1
  <2>2. CASE m # n
    <3>1. sock'[m] = sock[m] /\ queue'[m] = queue[m] BY <1>2, <2>2
    <3> QED BY <3>1 DEF MessagesFit, ConnOf
  <2> QED BY <2>1, <2>2
<1> QED BY <1>10, <1>11

\* The queues stay as they are, and with them what is on them, when sockets that
\* events wait for keep their state and their connection.
LEMMA QueueKept ==
  ASSUME queue \in [Node -> Seq(Event)], QueueFit, queue' = queue,
         DOMAIN conn \subseteq DOMAIN conn',
         \A m \in Node : Running(m)' => Running(m),
         \A m \in Node, fd \in FD :
           \/ sock'[m][fd].type = sock[m][fd].type /\ sock'[m][fd].conn = sock[m][fd].conn
           \/ sock[m][fd].type = "none" /\ Running(m)
           \/ queue[m] = << >>
  PROVE  QueueFit'
<1>1. ASSUME NEW m \in Node, NEW i \in DOMAIN queue[m]
      PROVE  queue[m][i] \in Event /\ queue[m] # << >>
  <2>1. queue[m] \in Seq(Event) OBVIOUS
  <2> QED BY <2>1, LenProperties, ElementOfSeq
<1>2. ASSUME NEW m \in Node, NEW i \in DOMAIN queue[m], queue[m][i].type \in SocketEvents
      PROVE  /\ sock'[m][queue[m][i].fd].conn = sock[m][queue[m][i].fd].conn
             /\ Running(m) => sock'[m][queue[m][i].fd].type = sock[m][queue[m][i].fd].type
  <2> DEFINE e == queue[m][i]
  <2>1. e.fd \in FD /\ queue[m] # << >> BY <1>1, <1>2, EventFacts
  <2>2. Running(m) => sock[m][e.fd].type # "none"
    <3>1. Running(m) => Live(sock[m], e) BY DEF QueueFit, LiveFit
    <3> QED BY <1>2, <3>1 DEF Live, SocketEvents
  <2> QED BY <2>1, <2>2
<1>3. RanksFit' BY DEF RanksFit, QueueFit, Rank, LayerOf
<1>4. EventsFit' BY DEF EventsFit, QueueFit
<1>5. LiveFit'
  <2> SUFFICES ASSUME NEW m \in Node, Running(m)', NEW i \in DOMAIN queue[m]
               PROVE  Live(sock'[m], queue[m][i])
    BY DEF LiveFit
  <2>1. Running(m) /\ Live(sock[m], queue[m][i]) BY DEF QueueFit, LiveFit
  <2>2. CASE queue[m][i].type \in SocketEvents BY <1>2, <2>1, <2>2 DEF Live
  <2>3. CASE queue[m][i].type \notin SocketEvents BY <2>3 DEF Live, SocketEvents
  <2> QED BY <2>2, <2>3
<1>6. MessagesFit'
  <2> SUFFICES ASSUME NEW m \in Node, NEW i \in DOMAIN queue[m], NEW j \in DOMAIN queue[m],
                      queue[m][j].type \in MsgEvents
               PROVE  /\ queue[m][j].conn \in DOMAIN conn'
                      /\ queue[m][i].type \in {"SocketRecv", "PeerSocketClose"}
                           => queue[m][j].conn # sock'[m][queue[m][i].fd].conn
    BY DEF MessagesFit, ConnOf
  <2>1. queue[m][j].conn \in DOMAIN conn' BY DEF QueueFit, MessagesFit
  <2>2. ASSUME queue[m][i].type \in {"SocketRecv", "PeerSocketClose"}
        PROVE  queue[m][j].conn # sock'[m][queue[m][i].fd].conn
    <3>1. queue[m][i].type \in SocketEvents BY <2>2 DEF SocketEvents
    <3> QED BY <1>2, <2>2, <3>1 DEF QueueFit, MessagesFit, ConnOf
  <2> QED BY <2>1, <2>2
<1> QED BY <1>3, <1>4, <1>5, <1>6 DEF QueueFit

\* What the watchers may report is a finite set of events, about sockets in the
\* right state.
LEMMA FiresFacts ==
  ASSUME NEW n \in Node
  PROVE  /\ IsFiniteSet(Fires(n))
         /\ \A e \in Fires(n) :
              /\ e \in Event /\ e.type \in Watched
              /\ Live(sock[n], e)
<1> DEFINE T == Watched
           P == T \X (0..MaxConn)
           f == [p \in P |-> [type |-> p[1], fd |-> p[2]]]
           R == {f[p] : p \in P}
<1>1. IsFiniteSet(P)
  <2>1. IsFiniteSet(T)
    <3>1. IsFiniteSet({"SocketAccept"}) /\ IsFiniteSet({"SocketConnect"})
          /\ IsFiniteSet({"SocketRecv"}) /\ IsFiniteSet({"SocketWrite"}) BY FS_Singleton
    <3>2. T = ({"SocketAccept"} \cup {"SocketConnect"}) \cup ({"SocketRecv"} \cup {"SocketWrite"}) BY DEF Watched
    <3> QED BY <3>1, <3>2, FS_Union
  <2>2. IsFiniteSet(0..MaxConn) BY Constants, FS_Interval
  <2> QED BY <2>1, <2>2, FS_Product
<1>2. f \in Surjection(P, R) BY DEF Surjection
<1>3. IsFiniteSet(R) BY <1>1, <1>2, FS_Surjection
<1>4. ASSUME NEW e \in Fires(n)
      PROVE  e \in R /\ e \in Event /\ e.type \in Watched /\ Live(sock[n], e)
  <2>1. FD \subseteq 0..MaxConn /\ 0 \in 0..MaxConn BY Constants DEF FD
  <2>2. CASE e \in [type : {"SocketAccept"}, fd : {0 : c \in Backlog(n)}]
    <3>1. e = [type |-> "SocketAccept", fd |-> 0] BY <2>2
    <3>2. e = f[<<"SocketAccept", 0>>] /\ <<"SocketAccept", 0>> \in P BY <2>1, <3>1 DEF Watched
    <3> QED BY <3>1, <3>2 DEF Event, Watched, Live
  <2>3. ASSUME NEW t \in {"SocketConnect", "SocketRecv", "SocketWrite"}, NEW fd \in FD,
               e = [type |-> t, fd |-> fd]
        PROVE  e \in R /\ e \in Event /\ e.type \in Watched
    <3>1. e = f[<<t, fd>>] /\ <<t, fd>> \in P BY <2>1, <2>3 DEF Watched
    <3>2. e \in R
      <4> HIDE DEF f, P
      <4> QED BY <3>1
    <3>3. e \in [type : SocketEvents, fd : FD] BY <2>3 DEF SocketEvents
    <3>4. e \in Event BY <3>3 DEF Event
    <3>5. e.type \in Watched BY <2>3 DEF Watched
    <3> QED BY <3>2, <3>4, <3>5
  <2>4. CASE \E fd \in FD : e = [type |-> "SocketConnect", fd |-> fd] /\ sock[n][fd].type = "connect"
    BY <2>3, <2>4 DEF Live
  <2>5. CASE \E fd \in FD : e = [type |-> "SocketRecv", fd |-> fd] /\ Readable(n, fd)
    BY <2>3, <2>5 DEF Live, Readable, Mapped
  <2>6. CASE \E fd \in FD : e = [type |-> "SocketWrite", fd |-> fd] /\ Writable(n, fd)
    BY <2>3, <2>6 DEF Live, Writable, Mapped
  <2> QED BY <1>4, <2>2, <2>4, <2>5, <2>6 DEF Fires
<1>5. Fires(n) \in SUBSET R BY <1>4
<1>6. IsFiniteSet(Fires(n)) BY <1>3, <1>5, FS_Subset
<1> QED BY <1>4, <1>6

\* A round of libev: at most a mined block, then different events of different
\* descriptors.
LEMMA PolledQueue ==
  ASSUME queue \in [Node -> Seq(Event)], QueueFit, NEW n \in Node, PollAny(n)
  PROVE  /\ queue' \in [Node -> Seq(Event)] /\ QueueFit'
         /\ \A i \in DOMAIN queue'[n] : queue'[n][i].type \notin MsgEvents
<1>1. PICK events \in SetToAllKPermutations(Fires(n)) : Poll(n, events) BY DEF PollAny
<1>2. PICK s \in SUBSET Fires(n) : events \in SetToSeqs(s) BY DEF SetToAllKPermutations
<1> DEFINE c == Cardinality(s)
<1>3. IsFiniteSet(s) /\ c \in Nat BY FiresFacts, FS_Subset, FS_CardinalityType
<1>4. events \in [1..c -> s] /\ \A i, j \in 1..c : i # j => events[i] # events[j]
  BY <1>2 DEF SetToSeqs
<1> HIDE DEF c
<1>5. \A i \in 1..c : events[i] \in Fires(n) BY <1>4
<1>6. /\ events \in Seq(Event) /\ DOMAIN events = 1..c
  <2>1. \A i \in 1..c : events[i] \in Event BY <1>5, FiresFacts
  <2>2. events \in [1..c -> Event] BY <1>4, <2>1
  <2> QED BY <1>3, <2>2, SeqDef
<1>7. Len(events) = c BY <1>3, <1>6, LenProperties
<1>8. ASSUME NEW i \in 1..c, NEW j \in 1..c, i # j PROVE events[i].fd # events[j].fd
  <2>1. events[i] \in ToSet(events) /\ events[j] \in ToSet(events) BY <1>6 DEF ToSet
  <2> QED BY <1>1, <1>4, <2>1, <1>8 DEF Poll, OneEach
<1> DEFINE e0 == [type |-> "EmuBlockMiningComplete"]
           r == queue'[n]
<1>9. PICK t \in {<< >>, << e0 >>} : queue' = [queue EXCEPT ![n] = t \o events]
  BY <1>1 DEF Poll, Polled
<1>10. r = t \o events /\ \A m \in Node : m # n => queue'[m] = queue[m] BY <1>9
<1>11. sock' = sock /\ conn' = conn /\ status' = status /\ Running(n) /\ queue[n] = << >>
  BY <1>1 DEF Poll, ioVars, PollAny, Polls
<1>12. e0 \in Event /\ e0.type \in Mined /\ e0.type \in Bare BY DEF Event, Mined, Bare
<1> HIDE DEF e0
<1>13. t \in Seq(Event) /\ Len(t) \in {0, 1} /\ \A i \in 1..Len(t) : t[i] = e0
  <2>1. CASE t = << >> BY <2>1
  <2>2. CASE t = << e0 >>
    <3>1. t \in Seq(Event) BY <1>12, <2>2
    <3>2. Len(t) = 1 /\ t[1] = e0 BY <2>2
    <3>3. 1..Len(t) = {1} BY <3>2
    <3> QED BY <3>1, <3>2, <3>3
  <2> QED BY <1>9, <2>1, <2>2
<1>14. r \in Seq(Event) /\ DOMAIN r = 1..(Len(t) + c)
       /\ \A i \in DOMAIN r : r[i] = IF i <= Len(t) THEN t[i] ELSE events[i - Len(t)]
  <2>1. t \o events \in Seq(Event) /\ Len(t \o events) = Len(t) + c
        /\ \A i \in 1..Len(t) + c : (t \o events)[i] = IF i <= Len(t) THEN t[i] ELSE events[i - Len(t)]
    <3>1. /\ t \o events \in Seq(Event) /\ Len(t \o events) = Len(t) + Len(events)
          /\ \A i \in 1..Len(t) + Len(events) :
               (t \o events)[i] = IF i <= Len(t) THEN t[i] ELSE events[i - Len(t)]
      BY <1>6, <1>13, ConcatProperties
    <3> QED BY <1>7, <3>1
  <2> QED BY <1>10, <2>1, LenProperties
<1>15. queue' \in [Node -> Seq(Event)] BY <1>9, <1>10, <1>14
<1> HIDE DEF r
<1>16. ASSUME NEW i \in DOMAIN r
       PROVE  \/ i = 1 /\ r[i] = e0
              \/ \E k \in 1..c : k = i - Len(t) /\ r[i] = events[k]
  <2>1. i \in 1..(Len(t) + c) BY <1>14
  <2>2. CASE i <= Len(t) BY <1>13, <1>14, <2>1, <2>2
  <2>3. CASE ~ (i <= Len(t))
    <3>1. i - Len(t) \in 1..c BY <1>3, <1>13, <2>1, <2>3
    <3> QED BY <1>14, <2>3, <3>1
  <2> QED BY <2>2, <2>3
<1>17. \A k \in 1..c : Rank(events[k]) = 1 /\ events[k].type \in Watched /\ Live(sock[n], events[k])
  BY <1>5, FiresFacts, RankFacts DEF Watched
<1>18. RanksFit'
  <2> SUFFICES ASSUME NEW m \in Node, NEW i \in DOMAIN queue'[m], NEW j \in DOMAIN queue'[m], i < j
               PROVE  /\ Rank(queue'[m][i]) <= Rank(queue'[m][j])
                      /\ Rank(queue'[m][j]) <= Rank(queue'[m][i]) + 1
    BY DEF RanksFit, Rank, LayerOf
  <2>1. CASE m = n
    <3>1. i \in DOMAIN r /\ j \in DOMAIN r BY <2>1 DEF r
    <3>2. i >= 1 /\ j # 1 BY <1>3, <1>13, <1>14, <3>1
    <3>3. Rank(r[j]) = 1 BY <1>16, <1>17, <3>1, <3>2
    <3>4. Rank(r[i]) = 1 \/ Rank(r[i]) = 0 BY <1>12, <1>16, <1>17, <3>1, RankFacts
    <3> QED BY <2>1, <3>3, <3>4 DEF r
  <2>2. CASE m # n BY <1>10, <2>2 DEF RanksFit, QueueFit
  <2> QED BY <2>1, <2>2
<1>19. EventsFit'
  <2> SUFFICES ASSUME NEW m \in Node, NEW i \in DOMAIN queue'[m], NEW j \in DOMAIN queue'[m], i # j,
                      queue'[m][i].type \notin Bare, queue'[m][j].type \notin Bare
               PROVE  \/ queue'[m][i].fd # queue'[m][j].fd
                      \/ queue'[m][i].type \in MsgEvents /\ queue'[m][j].type \in MsgEvents
    BY DEF EventsFit
  <2>1. CASE m = n
    <3>1. i \in DOMAIN r /\ j \in DOMAIN r /\ r[i].type \notin Bare /\ r[j].type \notin Bare
      BY <2>1 DEF r
    <3>2. PICK k \in 1..c : k = i - Len(t) /\ r[i] = events[k] BY <1>12, <1>16, <3>1
    <3>3. PICK l \in 1..c : l = j - Len(t) /\ r[j] = events[l] BY <1>12, <1>16, <3>1
    <3>4. k # l BY <1>3, <1>13, <1>14, <3>1, <3>2, <3>3
    <3> QED BY <1>8, <2>1, <3>2, <3>3, <3>4 DEF r
  <2>2. CASE m # n BY <1>10, <2>2 DEF EventsFit, QueueFit
  <2> QED BY <2>1, <2>2
<1>20. LiveFit'
  <2> SUFFICES ASSUME NEW m \in Node, Running(m), NEW i \in DOMAIN queue'[m]
               PROVE  Live(sock[m], queue'[m][i])
    BY <1>11 DEF LiveFit, Running
  <2>1. CASE m = n
    <3>1. Live(sock[n], e0) BY <1>12 DEF Live, Mined
    <3> QED BY <1>16, <1>17, <2>1, <3>1 DEF r
  <2>2. CASE m # n BY <1>10, <2>2 DEF LiveFit, QueueFit
  <2> QED BY <2>1, <2>2
<1>21. MessagesFit'
  <2> SUFFICES ASSUME NEW m \in Node, NEW i \in DOMAIN queue'[m], NEW j \in DOMAIN queue'[m],
                      queue'[m][j].type \in MsgEvents
               PROVE  /\ queue'[m][j].conn \in DOMAIN conn
                      /\ queue'[m][i].type \in {"SocketRecv", "PeerSocketClose"}
                           => queue'[m][j].conn # ConnOf(m, queue'[m][i].fd)
    BY <1>11 DEF MessagesFit, ConnOf
  <2>1. m # n
    <3> SUFFICES ASSUME m = n PROVE FALSE OBVIOUS
    <3>1. r[j].type \in MsgEvents /\ j \in DOMAIN r BY DEF r
    <3> QED BY <1>12, <1>16, <1>17, <3>1 DEF Watched, MsgEvents, Mined
  <2> QED BY <1>10, <2>1 DEF MessagesFit, QueueFit
<1>22. ASSUME NEW i \in DOMAIN queue'[n] PROVE queue'[n][i].type \notin MsgEvents
  BY <1>12, <1>16, <1>17 DEF Watched, MsgEvents, Mined, r
<1> QED BY <1>15, <1>18, <1>19, <1>20, <1>21, <1>22 DEF QueueFit

-----------------------------------------------------------------------------
(* Sockets and connections *)

\* A pipe may be empty.
LEMMA EmptyPipe == << >> \in Pipe
BY EmptySeq, Constants DEF Pipe

\* The bytes of a frame.
LEMMA FrameType ==
  ASSUME NEW m \in Message, m.size \in Sizes
  PROVE  Frame(m) \in Seq(Byte)
<1>1. [i \in 1..MagicSize |-> <<"magic", i>>] \in Seq(Byte)
  <2>1. \A i \in 1..MagicSize : <<"magic", i>> \in Byte BY Constants DEF Byte
  <2>2. [i \in 1..MagicSize |-> <<"magic", i>>] \in [1..MagicSize -> Byte] BY <2>1
  <2> QED BY <2>2, Constants, SeqDef
<1>2. << <<"len", m.size>> >> \in Seq(Byte)
  <2>1. <<"len", m.size>> \in Byte BY DEF Byte
  <2> QED BY <2>1
<1>3. [i \in 1..m.size |-> <<"body", m, i>>] \in Seq(Byte)
  <2>1. m.size \in Nat BY Constants
  <2>2. \A i \in 1..m.size : <<"body", m, i>> \in Byte BY <2>1 DEF Byte
  <2>3. [i \in 1..m.size |-> <<"body", m, i>>] \in [1..m.size -> Byte] BY <2>2
  <2> QED BY <2>1, <2>3, SeqDef
<1> QED BY <1>1, <1>2, <1>3, ConcatProperties DEF Frame

\* The connection of an open socket, and the two ends of it.
LEMMA OpenFacts ==
  ASSUME TypeOK, SocketsFit, NEW n \in Node, NEW fd \in FD, sock[n][fd].type # "none"
  PROVE  /\ ConnOf(n, fd) \in DOMAIN conn /\ ConnOf(n, fd) \in 1..MaxConn
         /\ conn[ConnOf(n, fd)] \in Connection
         /\ n \in {conn[ConnOf(n, fd)].from, conn[ConnOf(n, fd)].to}
         /\ Far(ConnOf(n, fd), n) \in Node
         /\ <<ConnOf(n, fd), n>> \in Stream /\ <<ConnOf(n, fd), Far(ConnOf(n, fd), n)>> \in Stream
<1> DEFINE c == ConnOf(n, fd)
<1>1. c \in DOMAIN conn /\ n \in {conn[c].from, conn[c].to} BY DEF SocketsFit
<1>2. DOMAIN conn = 1..Len(conn) /\ Len(conn) \in Nat /\ Len(conn) <= MaxConn BY LenProperties DEF TypeOK
<1> HIDE DEF c
<1>3. c \in 1..MaxConn BY <1>1, <1>2, Constants
<1>4. conn[c] \in Connection BY <1>1, <1>2, ElementOfSeq DEF TypeOK
<1>5. Far(c, n) \in Node BY <1>4 DEF Far, Connection
<1> QED BY <1>1, <1>3, <1>4, <1>5 DEF c, Stream

\* The connections when ends of them are closed.
LEMMA ClosedEndsFacts ==
  ASSUME TypeOK, NEW n \in Node, NEW C, NEW w, conn' = ClosedEnds(n, C, w)
  PROVE  /\ conn' \in Seq(Connection) /\ Len(conn') = Len(conn) /\ DOMAIN conn' = DOMAIN conn
         /\ \A c \in DOMAIN conn : /\ conn'[c].from = conn[c].from /\ conn'[c].to = conn[c].to
                                   /\ conn'[c].accepted = conn[c].accepted
<1>1. conn \in Seq(Connection) /\ DOMAIN conn = 1..Len(conn) /\ Len(conn) \in Nat
  BY LenProperties DEF TypeOK
<1>2. ASSUME NEW c \in DOMAIN conn
      PROVE  /\ conn'[c] \in Connection
             /\ conn'[c].from = conn[c].from /\ conn'[c].to = conn[c].to
             /\ conn'[c].accepted = conn[c].accepted
  <2>1. conn[c] \in Connection BY <1>1, <1>2, ElementOfSeq
  <2>2. Far(c, n) \in Node BY <2>1 DEF Far, Connection
  <2>3. CASE c \notin C BY <2>1, <2>3 DEF ClosedEnds
  <2>4. CASE c \in C
    <3> DEFINE quiet == w[<<c, n>>] = << >> /\ (conn[c].to = n => conn[c].accepted)
    <3>1. conn'[c] = [conn[c] EXCEPT !.closed = @ \cup {n},
                                    !.reset = IF quiet THEN @ ELSE @ \cup {Far(c, n)}]
      BY <2>4 DEF ClosedEnds
    <3> HIDE DEF quiet
    <3> DEFINE rs == IF quiet THEN conn[c].reset ELSE conn[c].reset \cup {Far(c, n)}
               cl == conn[c].closed \cup {n}
    <3>2. rs \in SUBSET Node /\ cl \in SUBSET Node BY <2>1, <2>2 DEF Connection
    <3>3. conn'[c] = [conn[c] EXCEPT !.closed = cl, !.reset = rs] BY <3>1
    <3> HIDE DEF rs, cl
    <3> QED BY <2>1, <3>2, <3>3 DEF Connection
  <2> QED BY <2>3, <2>4
<1>3. conn' \in [1..Len(conn) -> Connection] BY <1>1, <1>2 DEF ClosedEnds
<1>4. conn' \in Seq(Connection) /\ Len(conn') = Len(conn) BY <1>1, <1>3, SeqDef
<1> QED BY <1>1, <1>2, <1>3, <1>4

\* Sockets that stay, change their state or go, with what was disconnected and
\* what is left in buffers.
LEMMA SocketsKept ==
  ASSUME TypeOK, SocketsFit, CutsFit, RestsFit,
         DOMAIN conn \subseteq DOMAIN conn',
         \A c \in DOMAIN conn : /\ conn'[c].from = conn[c].from /\ conn'[c].to = conn[c].to
                                /\ conn[c].accepted => conn'[c].accepted,
         \A m \in Node, fd \in FD :
           \/ sock'[m][fd] = NoSocket
           \/ /\ sock[m][fd].type # "none" /\ sock'[m][fd].type # "none"
              /\ sock'[m][fd].conn = sock[m][fd].conn,
         cut \subseteq cut', cut' \subseteq Stream,
         \A e \in cut' : \/ e \in cut
                         \/ \E fd \in FD : /\ sock[e[2]][fd].type # "none" /\ sock'[e[2]][fd] = NoSocket
                                           /\ e[1] = ConnOf(e[2], fd),
         \A m \in Node, fd \in FD :
           recvBuff'[m][fd] # << >> =>
             \/ sock'[m][fd].type = "data"
             \/ sock[m][fd].type # "data" /\ recvBuff[m][fd] # << >>
             \/ sock[m][fd].type # "none" /\ <<ConnOf(m, fd), m>> \in cut'
  PROVE  SocketsFit' /\ CutsFit' /\ RestsFit'
<1>1. SocketsFit'
  <2> SUFFICES ASSUME NEW m \in Node, NEW fd \in FD
               PROVE  /\ sock'[m][fd].type = "none" => sock'[m][fd] = NoSocket
                      /\ sock'[m][fd].type # "none" =>
                           /\ sock'[m][fd].conn \in DOMAIN conn'
                           /\ m \in {conn'[sock'[m][fd].conn].from, conn'[sock'[m][fd].conn].to}
                           /\ conn'[sock'[m][fd].conn].to = m => conn'[sock'[m][fd].conn].accepted
                           /\ \A g \in FD : sock'[m][g].type # "none" /\ sock'[m][g].conn = sock'[m][fd].conn
                                              => g = fd
    BY DEF SocketsFit, ConnOf, NoSocket
  <2>1. CASE sock'[m][fd] = NoSocket BY <2>1 DEF NoSocket
  <2>2. CASE /\ sock[m][fd].type # "none" /\ sock'[m][fd].type # "none"
             /\ sock'[m][fd].conn = sock[m][fd].conn
    <3> DEFINE c == sock[m][fd].conn
    <3>1. /\ c \in DOMAIN conn /\ m \in {conn[c].from, conn[c].to}
          /\ conn[c].to = m => conn[c].accepted
          /\ \A g \in FD : sock[m][g].type # "none" /\ sock[m][g].conn = c => g = fd
      BY <2>2 DEF SocketsFit, ConnOf
    <3>2. ASSUME NEW g \in FD, sock'[m][g].type # "none", sock'[m][g].conn = c PROVE g = fd
      <4>1. sock'[m][g] # NoSocket BY <3>2 DEF NoSocket
      <4> QED BY <3>1, <3>2, <4>1
    <3> QED BY <2>2, <3>1, <3>2
  <2> QED BY <2>1, <2>2
<1>2. CutsFit'
  <2> SUFFICES ASSUME NEW e \in cut'
               PROVE  /\ e[1] \in DOMAIN conn'
                      /\ conn'[e[1]].to = e[2] => conn'[e[1]].accepted
                      /\ \A fd \in FD : sock'[e[2]][fd].type # "none" => sock'[e[2]][fd].conn # e[1]
    BY DEF CutsFit, ConnOf
  <2>1. e[2] \in Node BY DEF Stream
  <2>2. ASSUME NEW fd \in FD, sock'[e[2]][fd].type # "none"
        PROVE  /\ sock'[e[2]][fd] # NoSocket /\ sock[e[2]][fd].type # "none"
               /\ sock'[e[2]][fd].conn = sock[e[2]][fd].conn
    <3>1. sock'[e[2]][fd] # NoSocket BY <2>2 DEF NoSocket
    <3> QED BY <2>1, <3>1
  <2>3. CASE e \in cut BY <2>2, <2>3 DEF CutsFit, ConnOf
  <2>4. CASE \E fd \in FD : /\ sock[e[2]][fd].type # "none" /\ sock'[e[2]][fd] = NoSocket
                            /\ e[1] = ConnOf(e[2], fd)
    <3>1. PICK fd \in FD : /\ sock[e[2]][fd].type # "none" /\ sock'[e[2]][fd] = NoSocket
                           /\ e[1] = ConnOf(e[2], fd)
      BY <2>4
    <3>2. /\ e[1] \in DOMAIN conn
          /\ conn[e[1]].to = e[2] => conn[e[1]].accepted
          /\ \A g \in FD : sock[e[2]][g].type # "none" /\ ConnOf(e[2], g) = e[1] => g = fd
      BY <2>1, <3>1 DEF SocketsFit
    <3> QED BY <2>2, <3>1, <3>2 DEF ConnOf
  <2> QED BY <2>3, <2>4
<1>3. RestsFit'
  <2> SUFFICES ASSUME NEW m \in Node, NEW fd \in FD, sock'[m][fd].type # "data", recvBuff'[m][fd] # << >>
               PROVE  \E c \in DOMAIN conn' : <<c, m>> \in cut'
    BY DEF RestsFit, Mapped
  <2>1. CASE sock[m][fd].type # "data" /\ recvBuff[m][fd] # << >>
    BY <2>1 DEF RestsFit, Mapped
  <2>2. CASE sock[m][fd].type # "none" /\ <<ConnOf(m, fd), m>> \in cut'
    BY <2>2, OpenFacts
  <2> QED BY <2>1, <2>2
<1> QED BY <1>1, <1>2, <1>3

\* The receive buffers, when each stays, is cleared or keeps a rest.
LEMMA BuffersKept ==
  ASSUME TypeOK, BuffersFit,
         \A m \in Node, fd \in FD :
           \/ recvBuff'[m][fd] = recvBuff[m][fd]
           \/ recvBuff'[m][fd] = << >>
           \/ \E buf \in Seq(Byte) : recvBuff'[m][fd] = Remain(buf)
  PROVE  BuffersFit'
<1> SUFFICES ASSUME NEW m \in Node, NEW fd \in FD, WholeFrame(recvBuff'[m][fd], 0) PROVE FALSE
  BY DEF BuffersFit, WholeFrame
<1>1. CASE recvBuff'[m][fd] = recvBuff[m][fd] BY <1>1 DEF BuffersFit
<1>2. CASE recvBuff'[m][fd] = << >>
  <2>1. 0 + MagicSize + 1 <= Len(<< >>) BY <1>2 DEF WholeFrame
  <2> QED BY <2>1, Constants
<1>3. CASE \E buf \in Seq(Byte) : recvBuff'[m][fd] = Remain(buf) BY <1>3, RemainFits
<1> QED BY <1>1, <1>2, <1>3

\* A message sent on an open socket.
LEMMA SendMsgKeeps ==
  ASSUME IndInv, NEW n \in Node, NEW fd \in FD, sock[n][fd].type # "none",
         NEW size \in Sizes, SendMsg(n, fd, size),
         UNCHANGED << status, conn, recvBuff, wire, handled, cut, tainted >>,
         queue' \in [Node -> Seq(Event)]
  PROVE  /\ TypeOK' /\ SocketsFit' /\ CutsFit' /\ RestsFit' /\ BuffersFit'
         /\ \A m \in Node, g \in FD : sock'[m][g].type = sock[m][g].type /\ sock'[m][g].conn = sock[m][g].conn
<1> DEFINE c == ConnOf(n, fd)
           s == <<c, Far(c, n)>>
           m == [conn |-> c, num |-> Len(sent[s]) + 1, size |-> size]
<1> USE DEF IndInv
<1>1. c \in 1..MaxConn /\ s \in Stream BY OpenFacts
<1>2. Len(sent[s]) < MaxMsg[n] /\ sent' = [sent EXCEPT ![s] = Append(@, m)]
      /\ sock' = [sock EXCEPT ![n][fd].send = @ \o Frame(m), ![n][fd].writable = TRUE]
  BY DEF SendMsg
<1> HIDE DEF c, s
<1>3. m \in Message /\ m.size \in Sizes
  <2>1. Len(sent[s]) \in Nat BY <1>1, LenProperties DEF TypeOK
  <2>2. MaxMsg[n] \in Nat BY Constants
  <2>3. Len(sent[s]) + 1 \in 1..MaxMsg[n] BY <1>2, <2>1, <2>2
  <2>4. Len(sent[s]) + 1 \in Num BY <2>3 DEF Num
  <2> QED BY <1>1, <2>4, Constants DEF Message
<1> HIDE DEF m
<1>4. sent' \in [Stream -> Seq(Message)]
  <2>1. Append(sent[s], m) \in Seq(Message) BY <1>1, <1>3, AppendProperties DEF TypeOK
  <2> QED BY <1>2, <2>1 DEF TypeOK
<1> DEFINE b == sock[n][fd].send \o Frame(m)
<1>5. b \in Seq(Byte)
  <2>1. sock[n][fd].send \in Seq(Byte) BY DEF TypeOK, Socket
  <2> QED BY <1>3, <2>1, FrameType, ConcatProperties
<1>6. sock' = [sock EXCEPT ![n] = [sock[n] EXCEPT ![fd] = [sock[n][fd] EXCEPT !.send = b, !.writable = TRUE]]]
  BY <1>2 DEF TypeOK, Socket
<1> HIDE DEF b
<1>7. sock' \in [Node -> [FD -> Socket]]
  <2>1. sock[n][fd] \in Socket BY DEF TypeOK
  <2>2. [sock[n][fd] EXCEPT !.send = b, !.writable = TRUE] \in Socket BY <1>5, <2>1 DEF Socket
  <2> QED BY <1>6, <2>2 DEF TypeOK
<1>8. ASSUME NEW k \in Node, NEW g \in FD
      PROVE  /\ sock'[k][g].type = sock[k][g].type /\ sock'[k][g].conn = sock[k][g].conn
             /\ sock[k][g].type = "none" => sock'[k][g] = sock[k][g]
  BY <1>6, SMTT(20) DEF TypeOK, Socket
<1>9. TypeOK' BY <1>4, <1>7 DEF TypeOK
<1>10. SocketsFit' /\ CutsFit' /\ RestsFit'
  <2>1. \A k \in Node, g \in FD :
          \/ sock'[k][g] = NoSocket
          \/ /\ sock[k][g].type # "none" /\ sock'[k][g].type # "none"
             /\ sock'[k][g].conn = sock[k][g].conn
    BY <1>8 DEF SocketsFit
  <2>2. \A k \in Node, g \in FD :
          recvBuff'[k][g] # << >> =>
             \/ sock'[k][g].type = "data"
             \/ sock[k][g].type # "data" /\ recvBuff[k][g] # << >>
    BY <1>8
  <2>3. cut' \subseteq Stream BY DEF TypeOK
  <2> QED BY <2>1, <2>2, <2>3, SocketsKept
<1>11. BuffersFit' BY BuffersKept
<1> QED BY <1>8, <1>9, <1>10, <1>11

\* SendMsgToPeer keeps the invariant.
LEMMA SendMsgToPeerKeeps ==
  ASSUME IndInv, NEW n \in Node, NEW fd \in FD, SendMsgToPeer(n, fd)
  PROVE  IndInv'
<1> USE DEF IndInv
<1>1. PICK size \in Sizes : SendMsg(n, fd, size) BY DEF SendMsgToPeer
<1>2. sock[n][fd].type # "none" BY DEF SendMsgToPeer, ActivePeer
<1>3. UNCHANGED << queue, status, conn, recvBuff, wire, handled, cut, tainted >> BY DEF SendMsgToPeer
<1>4. queue' \in [Node -> Seq(Event)] BY <1>3 DEF TypeOK
<1>5. /\ TypeOK' /\ SocketsFit' /\ CutsFit' /\ RestsFit' /\ BuffersFit'
      /\ \A m \in Node, g \in FD : sock'[m][g].type = sock[m][g].type /\ sock'[m][g].conn = sock[m][g].conn
  BY <1>1, <1>2, <1>3, <1>4, SendMsgKeeps
<1>6. \A m \in Node : Running(m)' => Running(m) BY <1>3 DEF Running
<1>7. QueueFit' BY <1>3, <1>5, <1>6, QueueKept DEF TypeOK
<1> QED BY <1>5, <1>7

\* A round of libev keeps the invariant.
LEMMA PollAnyKeeps ==
  ASSUME IndInv, NEW n \in Node, PollAny(n)
  PROVE  IndInv'
<1>1. UNCHANGED << status, ioVars, history >> BY DEF PollAny, Poll
<1>2. queue' \in [Node -> Seq(Event)] /\ QueueFit' BY PolledQueue DEF IndInv, TypeOK
<1>3. TypeOK' BY <1>1, <1>2 DEF IndInv, TypeOK, ioVars, history
<1>4. SocketsFit' BY <1>1 DEF IndInv, SocketsFit, ConnOf, ioVars
<1>5. CutsFit' BY <1>1 DEF IndInv, CutsFit, ConnOf, ioVars, history
<1>6. RestsFit' BY <1>1 DEF IndInv, RestsFit, Mapped, ioVars, history
<1>7. BuffersFit' BY <1>1 DEF IndInv, BuffersFit, WholeFrame, ioVars
<1> QED BY <1>2, <1>3, <1>4, <1>5, <1>6, <1>7 DEF IndInv

\* A socket that goes, disconnected or after its end of file.
LEMMA GoneKeeps ==
  ASSUME IndInv, NEW n \in Node, NEW fd \in FD, sock[n][fd].type # "none",
         CloseEnd(n, ConnOf(n, fd)), sock' = [sock EXCEPT ![n][fd] = NoSocket],
         UNCHANGED << status, recvBuff, sent, tainted >>,
         handled' \in [Stream -> Seq(Message)], queue' \in [Node -> Seq(Event)],
         \/ cut' = cut \cup {<<ConnOf(n, fd), n>>}
         \/ cut' = cut /\ sock[n][fd].type # "data"
  PROVE  /\ TypeOK' /\ SocketsFit' /\ CutsFit' /\ RestsFit' /\ BuffersFit'
         /\ DOMAIN conn' = DOMAIN conn
         /\ \A m \in Node, g \in FD :
              \/ sock'[m][g].type = sock[m][g].type /\ sock'[m][g].conn = sock[m][g].conn
              \/ m = n /\ g = fd
<1> DEFINE c == ConnOf(n, fd)
<1> USE DEF IndInv
<1>1. c \in 1..MaxConn /\ <<c, n>> \in Stream BY OpenFacts
<1>2. conn' = ClosedEnds(n, {c}, wire) /\ wire' = [wire EXCEPT ![<<c, n>>] = << >>] BY DEF CloseEnd
<1>3. /\ conn' \in Seq(Connection) /\ Len(conn') = Len(conn) /\ DOMAIN conn' = DOMAIN conn
      /\ \A d \in DOMAIN conn : /\ conn'[d].from = conn[d].from /\ conn'[d].to = conn[d].to
                                /\ conn'[d].accepted = conn[d].accepted
  BY <1>2, ClosedEndsFacts
<1>4. wire' \in [Stream -> Pipe] BY <1>1, <1>2, EmptyPipe DEF TypeOK
<1>5. NoSocket \in Socket BY Constants, EmptySeq DEF NoSocket, Socket
<1>6. sock' \in [Node -> [FD -> Socket]] BY <1>5 DEF TypeOK
<1>7. cut' \subseteq Stream BY <1>1 DEF TypeOK
<1>8. sock'[n][fd] = NoSocket /\ \A m \in Node, g \in FD : m # n \/ g # fd => sock'[m][g] = sock[m][g]
  BY DEF TypeOK
<1>9. TypeOK' BY <1>3, <1>4, <1>6, <1>7 DEF TypeOK
<1>10. SocketsFit' /\ CutsFit' /\ RestsFit'
  <2>1. \A m \in Node, g \in FD :
          \/ sock'[m][g] = NoSocket
          \/ /\ sock[m][g].type # "none" /\ sock'[m][g].type # "none"
             /\ sock'[m][g].conn = sock[m][g].conn
    BY <1>8 DEF SocketsFit
  <2>2. \A e \in cut' : \/ e \in cut
                        \/ \E g \in FD : /\ sock[e[2]][g].type # "none" /\ sock'[e[2]][g] = NoSocket
                                         /\ e[1] = ConnOf(e[2], g)
    <3> SUFFICES ASSUME NEW e \in cut', e \notin cut
                 PROVE  /\ sock[e[2]][fd].type # "none" /\ sock'[e[2]][fd] = NoSocket
                        /\ e[1] = ConnOf(e[2], fd)
      OBVIOUS
    <3>1. e = <<c, n>> OBVIOUS
    <3>2. e[1] = c /\ e[2] = n BY <3>1
    <3> QED BY <1>8, <3>2
  <2>3. ASSUME NEW m \in Node, NEW g \in FD, recvBuff'[m][g] # << >>
        PROVE  \/ sock'[m][g].type = "data"
               \/ sock[m][g].type # "data" /\ recvBuff[m][g] # << >>
               \/ sock[m][g].type # "none" /\ <<ConnOf(m, g), m>> \in cut'
    BY <1>8, <2>3
  <2>4. cut \subseteq cut' OBVIOUS
  <2> QED BY <1>3, <1>7, <2>1, <2>2, <2>3, <2>4, SocketsKept
<1>11. BuffersFit' BY BuffersKept
<1> QED BY <1>3, <1>8, <1>9, <1>10, <1>11

\* DisconnectPeer keeps the invariant.
LEMMA DisconnectPeerKeeps ==
  ASSUME IndInv, NEW n \in Node, NEW fd \in FD, DisconnectPeer(n, fd)
  PROVE  IndInv'
<1> USE DEF IndInv
<1>1. /\ queue[n] = << >> /\ sock[n][fd].type = "data"
      /\ UNCHANGED << queue, status, recvBuff, sent, handled, tainted >>
  BY DEF DisconnectPeer, Polls, Mapped
<1>2. /\ CloseEnd(n, ConnOf(n, fd)) /\ sock' = [sock EXCEPT ![n][fd] = NoSocket]
      /\ cut' = cut \cup {<<ConnOf(n, fd), n>>}
  BY DEF DisconnectPeer, DisconnectSocket
<1>3. handled' \in [Stream -> Seq(Message)] /\ queue' \in [Node -> Seq(Event)] BY <1>1 DEF TypeOK
<1>4. /\ TypeOK' /\ SocketsFit' /\ CutsFit' /\ RestsFit' /\ BuffersFit'
      /\ DOMAIN conn' = DOMAIN conn
      /\ \A m \in Node, g \in FD :
           \/ sock'[m][g].type = sock[m][g].type /\ sock'[m][g].conn = sock[m][g].conn
           \/ m = n /\ g = fd
  BY <1>1, <1>2, <1>3, GoneKeeps, ZenonT(40)
<1>5. \A m \in Node : Running(m)' => Running(m) BY <1>1 DEF Running
<1>6. QueueFit' BY <1>1, <1>4, <1>5, QueueKept DEF TypeOK
<1> QED BY <1>4, <1>6

\* What the head of the queue of a running node stands for.
LEMMA HeadFacts ==
  ASSUME IndInv, NEW n \in Node, Running(n), queue[n] # << >>
  PROVE  /\ Head(queue[n]) \in Event /\ Head(queue[n]) = queue[n][1] /\ 1 \in DOMAIN queue[n]
         /\ Live(sock[n], Head(queue[n]))
         /\ \A i \in DOMAIN queue[n] : queue[n][i] \in Event
<1>1. queue[n] \in Seq(Event) BY DEF IndInv, TypeOK
<1>2. /\ Head(queue[n]) \in Event /\ Head(queue[n]) = queue[n][1] /\ 1 \in DOMAIN queue[n]
      /\ \A i \in DOMAIN queue[n] : queue[n][i] \in Event
  BY <1>1, EmptySeq, LenProperties, ElementOfSeq
<1>3. Live(sock[n], queue[n][1]) BY <1>2 DEF IndInv, QueueFit, LiveFit
<1> QED BY <1>2, <1>3

\* A handler that pushes nothing.
LEMMA PoppedNothing ==
  ASSUME IndInv, NEW n \in Node, Running(n), queue[n] # << >>, queue' = Popped(n, << >>),
         \A m \in Node : m # n => sock'[m] = sock[m] /\ (Running(m)' => Running(m)),
         \A fd \in FD :
           \/ sock'[n][fd].type = sock[n][fd].type /\ sock'[n][fd].conn = sock[n][fd].conn
           \/ sock[n][fd].type = "none"
           \/ Head(queue[n]).type \in SocketEvents \cup MsgEvents /\ fd = Head(queue[n]).fd,
         DOMAIN conn \subseteq DOMAIN conn'
  PROVE  QueueFit'
<1> USE DEF IndInv, QueueFit
<1>1. Pushes(n, << >>) BY EmptySeq DEF Pushes
<1>2. RanksFit' /\ EventsFit' BY <1>1, PoppedOrder DEF TypeOK
<1>3. LiveFit' /\ MessagesFit'
  <2>1. DOMAIN << >> = {} OBVIOUS
  <2>2. queue \in [Node -> Seq(Event)] BY DEF TypeOK
  <2> HIDE DEF IndInv
  <2>3. EventsFit /\ LiveFit /\ MessagesFit BY DEF IndInv
  <2> QED BY <1>1, <2>1, <2>2, <2>3, PoppedSockets
<1> QED BY <1>2, <1>3

\* SocketCloseHandler keeps the invariant.
LEMMA SocketCloseKeeps ==
  ASSUME IndInv, NEW n \in Node, SocketCloseHandler(n)
  PROVE  IndInv'
<1> DEFINE fd == Head(queue[n]).fd
<1> USE DEF IndInv
<1>1. /\ Running(n) /\ queue[n] # << >> /\ Head(queue[n]).type = "PeerSocketClose"
      /\ CloseEnd(n, ConnOf(n, fd)) /\ sock' = [sock EXCEPT ![n][fd] = NoSocket]
      /\ queue' = Popped(n, << >>) /\ UNCHANGED << status, recvBuff, sent, handled, cut, tainted >>
  BY DEF SocketCloseHandler, NextIs, history
<1>2. fd \in FD /\ Head(queue[n]).type \in SocketEvents BY <1>1, HeadFacts, EventFacts DEF SocketEvents
<1>3. sock[n][fd].type = "closing" BY <1>1, HeadFacts DEF Live
<1> HIDE DEF fd
<1>4. queue' \in [Node -> Seq(Event)]
  <2>1. Pushes(n, << >>) BY EmptySeq DEF Pushes
  <2> QED BY <1>1, <2>1, PoppedOrder DEF TypeOK, QueueFit
<1>5. handled' \in [Stream -> Seq(Message)] BY <1>1 DEF TypeOK
<1>6. /\ TypeOK' /\ SocketsFit' /\ CutsFit' /\ RestsFit' /\ BuffersFit'
      /\ DOMAIN conn' = DOMAIN conn
      /\ \A m \in Node, g \in FD :
           \/ sock'[m][g].type = sock[m][g].type /\ sock'[m][g].conn = sock[m][g].conn
           \/ m = n /\ g = fd
  BY <1>1, <1>2, <1>3, <1>4, <1>5, GoneKeeps, ZenonT(40)
<1>7. \A m \in Node : m # n => sock'[m] = sock[m] /\ (Running(m)' => Running(m)) BY <1>1 DEF Running
<1>8. QueueFit' BY <1>1, <1>2, <1>6, <1>7, PoppedNothing DEF fd
<1> QED BY <1>6, <1>8

\* The message of a queued event, once handled.
LEMMA HandledType ==
  ASSUME IndInv, NEW n \in Node, Running(n), queue[n] # << >>, Head(queue[n]).type \in MsgEvents
  PROVE  Handled(n) \in [Stream -> Seq(Message)]
<1> DEFINE e == Head(queue[n])
<1>1. e \in Event BY HeadFacts
<1>2. e.conn \in 1..MaxConn /\ e.msg \in Message BY <1>1, EventFacts
<1> HIDE DEF e
<1>3. <<e.conn, n>> \in Stream BY <1>2 DEF Stream
<1>4. handled \in [Stream -> Seq(Message)] BY DEF IndInv, TypeOK
<1>5. Append(handled[<<e.conn, n>>], e.msg) \in Seq(Message) BY <1>2, <1>3, <1>4, AppendProperties
<1>6. Handled(n) = [handled EXCEPT ![<<e.conn, n>>] = Append(@, e.msg)] BY DEF Handled, e
<1> QED BY <1>3, <1>4, <1>5, <1>6

\* A handler that leaves sockets, connections and buffers alone.
LEMMA IdleKeeps ==
  ASSUME IndInv, UNCHANGED << status, conn, sock, recvBuff, wire, sent, cut, tainted >>,
         queue' \in [Node -> Seq(Event)], QueueFit', handled' \in [Stream -> Seq(Message)]
  PROVE  IndInv'
<1>1. TypeOK' BY DEF IndInv, TypeOK
<1>2. SocketsFit' BY DEF IndInv, SocketsFit, ConnOf
<1>3. CutsFit' BY DEF IndInv, CutsFit, ConnOf
<1>4. RestsFit' BY DEF IndInv, RestsFit, Mapped
<1>5. BuffersFit' BY DEF IndInv, BuffersFit, WholeFrame
<1> QED BY <1>1, <1>2, <1>3, <1>4, <1>5 DEF IndInv

\* ProtocolRecvMsg and MiningComplete keep the invariant.
LEMMA UpperKeeps ==
  ASSUME IndInv, NEW n \in Node, ProtocolRecvMsg(n) \/ MiningComplete(n)
  PROVE  IndInv'
<1>1. /\ Running(n) /\ queue[n] # << >> /\ queue' = Popped(n, << >>)
      /\ UNCHANGED << status, conn, sock, recvBuff, wire, sent, cut, tainted >>
  BY DEF ProtocolRecvMsg, MiningComplete, NextIs, ioVars, history
<1>2. handled' \in [Stream -> Seq(Message)]
  <2>1. CASE ProtocolRecvMsg(n)
    <3>1. handled' = Handled(n) /\ Head(queue[n]).type \in MsgEvents
      BY <2>1 DEF ProtocolRecvMsg, NextIs, MsgEvents
    <3> QED BY <1>1, <3>1, HandledType
  <2>2. CASE MiningComplete(n) BY <2>2 DEF MiningComplete, history, IndInv, TypeOK
  <2> QED BY <2>1, <2>2
<1>3. queue' \in [Node -> Seq(Event)]
  <2>1. Pushes(n, << >>) BY EmptySeq DEF Pushes
  <2> QED BY <1>1, <2>1, PoppedOrder DEF IndInv, TypeOK, QueueFit
<1>4. QueueFit'
  <2>1. \A m \in Node : m # n => sock'[m] = sock[m] /\ (Running(m)' => Running(m)) BY <1>1 DEF Running
  <2> QED BY <1>1, <2>1, PoppedNothing
<1> QED BY <1>1, <1>2, <1>3, <1>4, IdleKeeps

\* PeerNotifyHandler keeps the invariant.
LEMMA PeerNotifyKeeps ==
  ASSUME IndInv, NEW n \in Node, PeerNotifyHandler(n)
  PROVE  IndInv'
<1> DEFINE fd == Head(queue[n]).fd
<1>1. /\ Running(n) /\ queue[n] # << >> /\ Head(queue[n]).type \in MsgEvents
      /\ queue' = Popped(n, << >>) /\ handled' = Handled(n)
      /\ UNCHANGED << status, recvBuff, sent, tainted >>
  BY DEF PeerNotifyHandler, NextIs, MsgEvents
<1>2. fd \in FD BY <1>1, HeadFacts, EventFacts
<1> HIDE DEF fd
<1>3. handled' \in [Stream -> Seq(Message)] BY <1>1, HandledType
<1>4. queue' \in [Node -> Seq(Event)]
  <2>1. Pushes(n, << >>) BY EmptySeq DEF Pushes
  <2> QED BY <1>1, <2>1, PoppedOrder DEF IndInv, TypeOK, QueueFit
<1>5. CASE UNCHANGED << conn, sock, wire, cut >>
  <2>1. \A m \in Node : m # n => sock'[m] = sock[m] /\ (Running(m)' => Running(m))
    BY <1>1, <1>5 DEF Running
  <2>2. QueueFit' BY <1>1, <1>5, <2>1, PoppedNothing
  <2> QED BY <1>1, <1>3, <1>4, <1>5, <2>2, IdleKeeps
<1>6. CASE Mapped(n, fd) /\ DisconnectSocket(n, fd)
  <2>1. /\ CloseEnd(n, ConnOf(n, fd)) /\ sock' = [sock EXCEPT ![n][fd] = NoSocket]
        /\ cut' = cut \cup {<<ConnOf(n, fd), n>>} /\ sock[n][fd].type = "data"
    BY <1>6 DEF DisconnectSocket, Mapped
  <2>2. /\ TypeOK' /\ SocketsFit' /\ CutsFit' /\ RestsFit' /\ BuffersFit'
        /\ DOMAIN conn' = DOMAIN conn
        /\ \A m \in Node, g \in FD :
             \/ sock'[m][g].type = sock[m][g].type /\ sock'[m][g].conn = sock[m][g].conn
             \/ m = n /\ g = fd
    BY <1>1, <1>2, <1>3, <1>4, <2>1, GoneKeeps, ZenonT(40)
  <2>3. \A m \in Node : m # n => sock'[m] = sock[m] /\ (Running(m)' => Running(m))
    BY <1>1, <2>1 DEF Running
  <2>4. QueueFit' BY <1>1, <2>2, <2>3, PoppedNothing DEF fd
  <2> QED BY <2>2, <2>4 DEF IndInv
<1> QED BY <1>5, <1>6 DEF PeerNotifyHandler, fd

\* BL2's RecvMsgHandler keeps the invariant.
LEMMA RecvMsgKeeps ==
  ASSUME IndInv, NEW n \in Node, RecvMsgHandler(n)
  PROVE  IndInv'
<1> DEFINE e == Head(queue[n])
           f == [e EXCEPT !.type = "ProtocolRecvMsg"]
<1>1. /\ Running(n) /\ queue[n] # << >> /\ e.type = "PeerRecvMsg"
      /\ queue' = Popped(n, << f >>)
      /\ UNCHANGED << status, conn, sock, recvBuff, wire, sent, handled, cut, tainted >>
  BY DEF RecvMsgHandler, NextIs, ioVars, history
<1>2. e \in Event /\ e = queue[n][1] /\ 1 \in DOMAIN queue[n] BY <1>1, HeadFacts
<1> HIDE DEF e
<1>3. e \in [type : MsgEvents, fd : FD, conn : 1..MaxConn, msg : Message]
  BY <1>1, <1>2 DEF Event, Bare, Mined, Failures, SocketEvents
<1>4. f \in Event /\ f.type = "ProtocolRecvMsg" /\ f.fd = e.fd /\ f.conn = e.conn
  <2>1. f \in [type : MsgEvents, fd : FD, conn : 1..MaxConn, msg : Message]
    BY <1>3 DEF MsgEvents
  <2> QED BY <1>3, <2>1 DEF Event
<1> HIDE DEF f
<1>5. Rank(e) = 2 /\ Rank(f) = 3 BY <1>1, <1>2, <1>4, RankFacts
<1>6. DOMAIN << f >> = {1} /\ << f >>[1] = f /\ << f >> \in Seq(Event) BY <1>4
<1>7. Pushes(n, << f >>)
  <2>1. f.type \in MsgEvents /\ e.type \notin Bare BY <1>1, <1>4 DEF MsgEvents, Bare, Mined, Failures
  <2> QED BY <1>4, <1>5, <1>6, <2>1 DEF Pushes, e
<1>8. queue' \in [Node -> Seq(Event)] /\ RanksFit' /\ EventsFit'
  BY <1>1, <1>7, PoppedOrder DEF IndInv, TypeOK, QueueFit
<1>9. LiveFit' /\ MessagesFit'
  <2>1. e.type \in MsgEvents /\ f.type \in MsgEvents /\ f.type \notin {"SocketRecv", "PeerSocketClose"}
    BY <1>1, <1>4 DEF MsgEvents
  <2>2. Live(sock'[n], f) BY <1>4 DEF Live
  <2>3. /\ f.conn \in DOMAIN conn
        /\ \A i \in DOMAIN queue[n] : queue[n][i].type \in {"SocketRecv", "PeerSocketClose"}
                                        => f.conn # ConnOf(n, queue[n][i].fd)
    BY <1>2, <1>4, <2>1 DEF IndInv, QueueFit, MessagesFit
  <2>4. \A m \in Node : m # n => sock'[m] = sock[m] /\ (Running(m)' => Running(m)) BY <1>1 DEF Running
  <2>5. queue \in [Node -> Seq(Event)] /\ EventsFit /\ LiveFit /\ MessagesFit
    BY DEF IndInv, TypeOK, QueueFit
  <2> QED BY <1>1, <1>6, <1>7, <2>1, <2>2, <2>3, <2>4, <2>5, PoppedSockets
<1>10. handled' \in [Stream -> Seq(Message)] BY <1>1 DEF IndInv, TypeOK
<1> QED BY <1>1, <1>8, <1>9, <1>10, IdleKeeps DEF QueueFit

\* The end of a process.
LEMMA StopFacts ==
  ASSUME TypeOK, NEW n \in Node, NEW w \in [Stream -> Pipe],
         NEW why \in Endings, Stop(n, why, w)
  PROVE  /\ status' \in [Node -> {"running"} \cup Endings]
         /\ \A m \in Node : Running(m)' => Running(m)
         /\ conn' \in Seq(Connection) /\ Len(conn') = Len(conn) /\ DOMAIN conn' = DOMAIN conn
         /\ \A c \in DOMAIN conn : /\ conn'[c].from = conn[c].from /\ conn'[c].to = conn[c].to
                                   /\ conn'[c].accepted = conn[c].accepted
         /\ wire' \in [Stream -> Pipe]
<1>1. status' = [status EXCEPT ![n] = why] BY DEF Stop
<1>2. status' \in [Node -> {"running"} \cup Endings]
  BY <1>1 DEF TypeOK
<1>3. ASSUME NEW m \in Node, Running(m)' PROVE Running(m)
  <2>1. status \in [Node -> {"running"} \cup Endings]
    BY DEF TypeOK
  <2>2. why # "running" BY DEF Endings
  <2> QED BY <1>1, <1>3, <2>1, <2>2 DEF Running
<1>4. /\ conn' \in Seq(Connection) /\ Len(conn') = Len(conn) /\ DOMAIN conn' = DOMAIN conn
      /\ \A c \in DOMAIN conn : /\ conn'[c].from = conn[c].from /\ conn'[c].to = conn[c].to
                                /\ conn'[c].accepted = conn[c].accepted
  <2> DEFINE C == {c \in DOMAIN conn : n \in {conn[c].from, conn[c].to}}
  <2>1. conn' = ClosedEnds(n, C, w) BY DEF Stop
  <2> HIDE DEF C
  <2> QED BY <2>1, ClosedEndsFacts
<1>5. wire' \in [Stream -> Pipe]
  <2>1. \A s \in Stream : (IF s[2] = n THEN << >> ELSE w[s]) \in Pipe BY EmptyPipe
  <2> QED BY <2>1 DEF Stop
<1> QED BY <1>2, <1>3, <1>4, <1>5

\* A step that changes sockets only between open states, on connections that keep
\* their ends.
LEMMA StatesChange ==
  ASSUME IndInv,
         queue' \in [Node -> Seq(Event)],
         status' \in [Node -> {"running"} \cup Endings],
         conn' \in Seq(Connection), Len(conn') = Len(conn), DOMAIN conn' = DOMAIN conn,
         \A c \in DOMAIN conn : /\ conn'[c].from = conn[c].from /\ conn'[c].to = conn[c].to
                                /\ conn'[c].accepted = conn[c].accepted,
         sock' \in [Node -> [FD -> Socket]],
         \A m \in Node, fd \in FD :
           \/ sock'[m][fd] = sock[m][fd]
           \/ /\ sock[m][fd].type # "none" /\ sock'[m][fd].type # "none"
              /\ sock'[m][fd].conn = sock[m][fd].conn,
         recvBuff' \in [Node -> [FD -> Seq(Byte)]],
         \A m \in Node, fd \in FD :
           \/ recvBuff'[m][fd] = recvBuff[m][fd]
           \/ recvBuff'[m][fd] = << >>
           \/ sock'[m][fd].type = "data" /\ \E buf \in Seq(Byte) : recvBuff'[m][fd] = Remain(buf),
         \A m \in Node, fd \in FD :
           sock[m][fd].type = "data" => sock'[m][fd].type = "data" \/ recvBuff'[m][fd] = << >>,
         wire' \in [Stream -> Pipe],
         UNCHANGED << sent, handled, cut >>, tainted' \subseteq Stream
  PROVE  TypeOK' /\ SocketsFit' /\ CutsFit' /\ RestsFit' /\ BuffersFit'
<1> USE DEF IndInv
<1>1. TypeOK' BY DEF TypeOK
<1>2. SocketsFit' /\ CutsFit' /\ RestsFit'
  <2>1. \A m \in Node, fd \in FD :
          \/ sock'[m][fd] = NoSocket
          \/ /\ sock[m][fd].type # "none" /\ sock'[m][fd].type # "none"
             /\ sock'[m][fd].conn = sock[m][fd].conn
    BY DEF SocketsFit
  <2>2. \A m \in Node, fd \in FD :
          recvBuff'[m][fd] # << >> =>
            \/ sock'[m][fd].type = "data"
            \/ sock[m][fd].type # "data" /\ recvBuff[m][fd] # << >>
    OBVIOUS
  <2>3. cut' \subseteq Stream BY DEF TypeOK
  <2> HIDE DEF IndInv
  <2>4. TypeOK /\ SocketsFit /\ CutsFit /\ RestsFit BY DEF IndInv
  <2> QED BY <2>1, <2>2, <2>3, <2>4, SocketsKept
<1>3. BuffersFit' BY BuffersKept
<1> QED BY <1>1, <1>2, <1>3

\* SocketConnectHandler keeps the invariant.
LEMMA SocketConnectKeeps ==
  ASSUME IndInv, NEW n \in Node, SocketConnectHandler(n)
  PROVE  IndInv'
<1> DEFINE fd == Head(queue[n]).fd
<1>1. /\ Running(n) /\ queue[n] # << >> /\ Head(queue[n]).type = "PeerSocketConnect"
      /\ queue' = Popped(n, << >>)
      /\ UNCHANGED << status, conn, recvBuff, wire, handled, cut, tainted >>
  BY DEF SocketConnectHandler, NextIs
<1>2. PICK size \in Sizes : SendMsg(n, fd, size) BY DEF SocketConnectHandler
<1>3. fd \in FD /\ Head(queue[n]).type \in SocketEvents BY <1>1, HeadFacts, EventFacts DEF SocketEvents
<1>4. sock[n][fd].type = "data" BY <1>1, HeadFacts DEF Live
<1> HIDE DEF fd
<1>5. queue' \in [Node -> Seq(Event)]
  <2>1. Pushes(n, << >>) BY EmptySeq DEF Pushes
  <2> QED BY <1>1, <2>1, PoppedOrder DEF IndInv, TypeOK, QueueFit
<1>6. /\ TypeOK' /\ SocketsFit' /\ CutsFit' /\ RestsFit' /\ BuffersFit'
      /\ \A m \in Node, g \in FD : sock'[m][g].type = sock[m][g].type /\ sock'[m][g].conn = sock[m][g].conn
  BY <1>1, <1>2, <1>3, <1>4, <1>5, SendMsgKeeps
<1>7. \A m \in Node : m # n => sock'[m] = sock[m] /\ (Running(m)' => Running(m))
  <2>1. sock' = [sock EXCEPT ![n][fd].send = @ \o Frame([conn |-> ConnOf(n, fd),
                     num |-> Len(sent[<<ConnOf(n, fd), Far(ConnOf(n, fd), n)>>]) + 1, size |-> size]),
                             ![n][fd].writable = TRUE]
    BY <1>2 DEF SendMsg
  <2>2. sock \in [Node -> [FD -> Socket]] BY DEF IndInv, TypeOK
  <2>3. \A m \in Node : m # n => sock'[m] = sock[m] BY <2>1, <2>2
  <2> QED BY <1>1, <2>3 DEF Running
<1>8. QueueFit' BY <1>1, <1>6, <1>7, PoppedNothing
<1> QED BY <1>6, <1>8 DEF IndInv

\* A socket whose connection was made.
LEMMA DataSocketType ==
  ASSUME NEW c \in 1..MaxConn
  PROVE  DataSocket(c) \in Socket /\ DataSocket(c).type = "data" /\ DataSocket(c).conn = c
<1>1. NoSocket \in Socket BY Constants, EmptySeq DEF NoSocket, Socket
<1>2. c \in 0..MaxConn BY Constants
<1>3. DataSocket(c) = [NoSocket EXCEPT !.type = "data", !.conn = c] BY DEF DataSocket
<1> QED BY <1>1, <1>2, <1>3 DEF Socket

\* ConnectHandler keeps the invariant when the connect succeeded.
LEMMA ConnectSucceedsKeeps ==
  ASSUME IndInv, NEW n \in Node, ConnectHandler(n), ~ConnectFails(n, Head(queue[n]).fd)
  PROVE  IndInv'
<1> DEFINE fd == Head(queue[n]).fd
           c == ConnOf(n, fd)
           f == [type |-> "PeerSocketConnect", fd |-> fd]
<1>1. /\ Running(n) /\ queue[n] # << >> /\ Head(queue[n]).type = "SocketConnect"
      /\ queue' = Popped(n, << f >>) /\ sock' = [sock EXCEPT ![n][fd] = DataSocket(c)]
      /\ tainted' = tainted \cup OpenedOver(n, {<<fd, c>>})
      /\ UNCHANGED << status, conn, recvBuff, wire, sent, handled, cut >>
  BY DEF ConnectHandler, ConnectFails, NextIs
<1>2. fd \in FD /\ Head(queue[n]).type \in SocketEvents BY <1>1, HeadFacts, EventFacts DEF SocketEvents
<1>3. sock[n][fd].type = "connect" BY <1>1, HeadFacts DEF Live
<1>4. c \in DOMAIN conn /\ c \in 1..MaxConn /\ <<c, n>> \in Stream
  BY <1>2, <1>3, OpenFacts DEF IndInv
<1>5. DataSocket(c) \in Socket /\ DataSocket(c).type = "data" /\ DataSocket(c).conn = c
  BY <1>4, DataSocketType
<1>6. f \in Event /\ f.type = "PeerSocketConnect" /\ f.fd = fd BY <1>2 DEF Event, SocketEvents
<1>7. Head(queue[n]) \in Event BY <1>1, HeadFacts
<1>8. c = sock[n][fd].conn BY DEF ConnOf
<1> HIDE DEF c, f
<1>9. Pushes(n, << f >>)
  <2>1. DOMAIN << f >> = {1} /\ << f >>[1] = f /\ << f >> \in Seq(Event) BY <1>6
  <2>2. Rank(Head(queue[n])) = 1 /\ Rank(f) = 2 BY <1>1, <1>6, <1>7, RankFacts DEF Watched
  <2>3. Head(queue[n]).type \notin Bare /\ Head(queue[n]).type \notin MsgEvents
    BY <1>1 DEF Bare, Mined, Failures, MsgEvents
  <2> QED BY <1>6, <2>1, <2>2, <2>3 DEF Pushes
<1>10. queue' \in [Node -> Seq(Event)] /\ RanksFit' /\ EventsFit'
  BY <1>1, <1>9, PoppedOrder DEF IndInv, TypeOK, QueueFit
<1> HIDE DEF fd
<1>11. /\ sock' \in [Node -> [FD -> Socket]] /\ sock'[n][fd] = DataSocket(c)
       /\ \A m \in Node, g \in FD : m # n \/ g # fd => sock'[m][g] = sock[m][g]
       /\ \A m \in Node : m # n => sock'[m] = sock[m]
  BY <1>1, <1>2, <1>5 DEF IndInv, TypeOK
<1>12. tainted' \subseteq Stream
  <2>1. OpenedOver(n, {<<fd, c>>}) \subseteq {<<c, n>>} BY DEF OpenedOver
  <2> QED BY <1>1, <1>4, <2>1 DEF IndInv, TypeOK
<1>13. TypeOK' /\ SocketsFit' /\ CutsFit' /\ RestsFit' /\ BuffersFit'
  <2>1. \A m \in Node, g \in FD :
          \/ sock'[m][g] = sock[m][g]
          \/ /\ sock[m][g].type # "none" /\ sock'[m][g].type # "none"
             /\ sock'[m][g].conn = sock[m][g].conn
    BY <1>3, <1>5, <1>8, <1>11
  <2>2. \A m \in Node, g \in FD : sock[m][g].type = "data" => sock'[m][g].type = "data"
    BY <1>3, <1>11
  <2>3. /\ status' \in [Node -> {"running"} \cup Endings]
        /\ conn' \in Seq(Connection) /\ recvBuff' \in [Node -> [FD -> Seq(Byte)]]
        /\ wire' \in [Stream -> Pipe]
    BY <1>1 DEF IndInv, TypeOK
  <2> QED BY <1>1, <1>10, <1>11, <1>12, <2>1, <2>2, <2>3, StatesChange
<1>14. LiveFit' /\ MessagesFit'
  <2>1. \A m \in Node : m # n => sock'[m] = sock[m] /\ (Running(m)' => Running(m))
    BY <1>1, <1>11 DEF Running
  <2>2. Live(sock'[n], f) BY <1>5, <1>6, <1>11 DEF Live
  <2>3. f.type \notin MsgEvents /\ f.type \notin {"SocketRecv", "PeerSocketClose"} BY <1>6 DEF MsgEvents
  <2>4. \A k \in DOMAIN << f >> : << f >>[k] = f OBVIOUS
  <2>5. queue \in [Node -> Seq(Event)] /\ EventsFit /\ LiveFit /\ MessagesFit
    BY DEF IndInv, TypeOK, QueueFit
  <2>6. \A g \in FD :
          \/ sock'[n][g].type = sock[n][g].type /\ sock'[n][g].conn = sock[n][g].conn
          \/ Head(queue[n]).type \in SocketEvents \cup MsgEvents /\ g = Head(queue[n]).fd
    BY <1>2, <1>11 DEF fd
  <2> QED BY <1>1, <1>9, <2>1, <2>2, <2>3, <2>4, <2>5, <2>6, PoppedSockets
<1> QED BY <1>10, <1>13, <1>14 DEF IndInv, QueueFit

\* The event of a failed connect.
LEMMA PushesFailure ==
  ASSUME IndInv, NEW n \in Node, Running(n), queue[n] # << >>, NEW t \in Failures,
         Head(queue[n]).type =
           IF t = "SocketConnectFailed" THEN "SocketConnect" ELSE "SocketConnectFailed"
  PROVE  Pushes(n, << [type |-> t] >>)
<1> DEFINE e == Head(queue[n])
           f == [type |-> t]
<1>1. f \in Event /\ f.type = t /\ f.type \in Bare BY DEF Event, Bare
<1>2. e \in Event BY HeadFacts
<1> HIDE DEF f
<1>3. Rank(f) = Rank(e) + 1 BY <1>1, <1>2, RankFacts DEF Failures, Watched
<1>4. e.type \notin MsgEvents BY DEF Failures, MsgEvents
<1>5. DOMAIN << f >> = {1} /\ << f >>[1] = f /\ << f >> \in Seq(Event) BY <1>1
<1> HIDE DEF e
<1> QED BY <1>1, <1>3, <1>4, <1>5 DEF Pushes, e, f

\* The queues after a failed connect is passed on.
LEMMA FailureKeepsQueue ==
  ASSUME IndInv, NEW n \in Node, Running(n), queue[n] # << >>, NEW t \in Failures,
         Pushes(n, << [type |-> t] >>), queue' = Popped(n, << [type |-> t] >>),
         \A m \in Node : m # n => sock'[m] = sock[m] /\ (Running(m)' => Running(m)),
         \A fd \in FD :
           \/ sock'[n][fd].type = sock[n][fd].type /\ sock'[n][fd].conn = sock[n][fd].conn
           \/ Head(queue[n]).type \in SocketEvents \cup MsgEvents /\ fd = Head(queue[n]).fd,
         DOMAIN conn \subseteq DOMAIN conn'
  PROVE  QueueFit'
<1> DEFINE f == [type |-> t]
<1>1. RanksFit' /\ EventsFit' BY PoppedOrder DEF IndInv, TypeOK, QueueFit
<1>2. f.type \in Failures OBVIOUS
<1> HIDE DEF f
<1>3. /\ Live(sock'[n], f) /\ f.type \notin MsgEvents
      /\ f.type \notin {"SocketRecv", "PeerSocketClose"}
  BY <1>2 DEF Live, Failures, MsgEvents
<1>4. \A k \in DOMAIN << f >> : << f >>[k] = f OBVIOUS
<1>5. queue \in [Node -> Seq(Event)] /\ EventsFit /\ LiveFit /\ MessagesFit
  BY DEF IndInv, TypeOK, QueueFit
<1>6. Pushes(n, << f >>) /\ queue' = Popped(n, << f >>) BY DEF f
<1>7. LiveFit' /\ MessagesFit' BY <1>3, <1>4, <1>5, <1>6, PoppedSockets
<1> QED BY <1>1, <1>7 DEF QueueFit

\* ConnectHandler keeps the invariant when the connect failed.
LEMMA ConnectFailsKeeps ==
  ASSUME IndInv, NEW n \in Node, ConnectHandler(n), ConnectFails(n, Head(queue[n]).fd)
  PROVE  IndInv'
<1> DEFINE fd == Head(queue[n]).fd
<1>1. /\ Running(n) /\ queue[n] # << >> /\ Head(queue[n]).type = "SocketConnect"
      /\ queue' = Popped(n, << [type |-> "SocketConnectFailed"] >>)
      /\ CloseEnd(n, ConnOf(n, fd)) /\ sock' = [sock EXCEPT ![n][fd] = NoSocket]
      /\ UNCHANGED << status, recvBuff, sent, handled, cut, tainted >>
  BY DEF ConnectHandler, ConnectFails, NextIs
<1>2. fd \in FD /\ Head(queue[n]).type \in SocketEvents BY <1>1, HeadFacts, EventFacts DEF SocketEvents
<1>3. sock[n][fd].type = "connect" BY <1>1, HeadFacts DEF Live
<1>4. Pushes(n, << [type |-> "SocketConnectFailed"] >>) BY <1>1, PushesFailure DEF Failures
<1> HIDE DEF fd
<1>5. queue' \in [Node -> Seq(Event)] BY <1>1, <1>4, PoppedOrder DEF IndInv, TypeOK, QueueFit
<1>6. handled' \in [Stream -> Seq(Message)] BY <1>1 DEF IndInv, TypeOK
<1>7. /\ TypeOK' /\ SocketsFit' /\ CutsFit' /\ RestsFit' /\ BuffersFit'
      /\ DOMAIN conn' = DOMAIN conn
      /\ \A m \in Node, g \in FD :
           \/ sock'[m][g].type = sock[m][g].type /\ sock'[m][g].conn = sock[m][g].conn
           \/ m = n /\ g = fd
  BY <1>1, <1>2, <1>3, <1>5, <1>6, GoneKeeps, ZenonT(40)
<1>8. \A m \in Node : m # n => sock'[m] = sock[m] /\ (Running(m)' => Running(m)) BY <1>1 DEF Running
<1>9. QueueFit'
  <2>1. \A g \in FD :
          \/ sock'[n][g].type = sock[n][g].type /\ sock'[n][g].conn = sock[n][g].conn
          \/ Head(queue[n]).type \in SocketEvents \cup MsgEvents /\ g = Head(queue[n]).fd
    BY <1>2, <1>7 DEF fd
  <2>2. "SocketConnectFailed" \in Failures BY DEF Failures
  <2>3. DOMAIN conn \subseteq DOMAIN conn' BY <1>7
  <2> HIDE DEF IndInv
  <2> QED BY <1>1, <1>4, <1>8, <2>1, <2>2, <2>3, FailureKeepsQueue
<1> QED BY <1>7, <1>9 DEF IndInv

\* ConnectHandler keeps the invariant.
LEMMA ConnectKeeps ==
  ASSUME IndInv, NEW n \in Node, ConnectHandler(n)
  PROVE  IndInv'
BY ConnectSucceedsKeeps, ConnectFailsKeeps

\* ConnectFailedHandler keeps the invariant.
LEMMA ConnectFailedKeeps ==
  ASSUME IndInv, NEW n \in Node, ConnectFailedHandler(n)
  PROVE  IndInv'
<1>1. /\ Running(n) /\ queue[n] # << >> /\ Head(queue[n]).type = "SocketConnectFailed"
      /\ queue' = Popped(n, << [type |-> "PeerSocketConnectFailed"] >>)
      /\ UNCHANGED << status, conn, sock, recvBuff, wire, sent, handled, cut, tainted >>
  BY DEF ConnectFailedHandler, NextIs, ioVars, history
<1>2. "PeerSocketConnectFailed" \in Failures BY DEF Failures
<1>3. Pushes(n, << [type |-> "PeerSocketConnectFailed"] >>) BY <1>1, <1>2, PushesFailure
<1>4. queue' \in [Node -> Seq(Event)] BY <1>1, <1>3, PoppedOrder DEF IndInv, TypeOK, QueueFit
<1>5. QueueFit'
  <2>1. \A m \in Node : m # n => sock'[m] = sock[m] /\ (Running(m)' => Running(m)) BY <1>1 DEF Running
  <2> QED BY <1>1, <1>2, <1>3, <2>1, FailureKeepsQueue
<1>6. handled' \in [Stream -> Seq(Message)] BY <1>1 DEF IndInv, TypeOK
<1> QED BY <1>1, <1>4, <1>5, <1>6, IdleKeeps

\* What a write leaves to be sent, and what it puts on the wire.
LEMMA WriteFacts ==
  ASSUME NEW buff \in Seq(Byte), NEW w \in Pipe
  PROVE  /\ SubSeq(buff, Capacity - Len(w) + 1, Len(buff)) \in Seq(Byte)
         /\ w \o SubSeq(buff, 1, Len(buff) - Len(SubSeq(buff, Capacity - Len(w) + 1, Len(buff)))) \in Pipe
<1> DEFINE L == Len(buff)
           k == Capacity - Len(w)
           rest == SubSeq(buff, k + 1, L)
           head == SubSeq(buff, 1, L - Len(rest))
<1>1. L \in Nat /\ Len(w) \in Nat /\ k \in Nat /\ w \in Seq(Byte) BY Constants, LenProperties DEF Pipe
<1>2. \A i \in 1..L : buff[i] \in Byte BY ElementOfSeq
<1> HIDE DEF L, k
<1>3. rest \in Seq(Byte) /\ Len(rest) = IF k + 1 <= L THEN L - (k + 1) + 1 ELSE 0
  <2>1. \A i \in (k + 1)..L : buff[i] \in Byte BY <1>1, <1>2
  <2> QED BY <1>1, <2>1, SubSeqProperties
<1> HIDE DEF rest
<1>4. L - Len(rest) \in 0..L /\ L - Len(rest) <= k BY <1>1, <1>3
<1>5. head \in Seq(Byte) /\ Len(head) <= k
  <2>1. \A i \in 1..(L - Len(rest)) : buff[i] \in Byte BY <1>1, <1>2, <1>4
  <2>2. head \in Seq(Byte)
        /\ Len(head) = IF 1 <= L - Len(rest) THEN (L - Len(rest)) - 1 + 1 ELSE 0
    BY <1>1, <1>4, <2>1, SubSeqProperties
  <2> QED BY <1>1, <1>4, <2>2
<1> HIDE DEF head
<1>6. w \o head \in Seq(Byte) /\ Len(w \o head) = Len(w) + Len(head) BY <1>1, <1>5, ConcatProperties
<1>7. Len(w \o head) <= Capacity BY <1>1, <1>5, <1>6, LenProperties, Constants DEF k
<1> QED BY <1>3, <1>6, <1>7 DEF Pipe, head, rest, k, L

\* What is left on a wire after a read.
LEMMA ReadFacts ==
  ASSUME NEW w \in Pipe, NEW len \in 0..Len(w)
  PROVE  SubSeq(w, len + 1, Len(w)) \in Pipe /\ SubSeq(w, 1, len) \in Seq(Byte)
<1>1. w \in Seq(Byte) /\ Len(w) \in Nat /\ Len(w) <= Capacity BY LenProperties DEF Pipe
<1>2. \A i \in 1..Len(w) : w[i] \in Byte BY <1>1, ElementOfSeq
<1>3. SubSeq(w, 1, len) \in Seq(Byte)
  <2>1. \A i \in 1..len : w[i] \in Byte BY <1>1, <1>2
  <2> QED BY <1>1, <2>1, SubSeqProperties
<1>4. /\ SubSeq(w, len + 1, Len(w)) \in Seq(Byte)
      /\ Len(SubSeq(w, len + 1, Len(w))) = IF len + 1 <= Len(w) THEN Len(w) - (len + 1) + 1 ELSE 0
  <2>1. \A i \in (len + 1)..Len(w) : w[i] \in Byte BY <1>1, <1>2
  <2> QED BY <1>1, <2>1, SubSeqProperties
<1>5. Len(SubSeq(w, len + 1, Len(w))) <= Capacity BY <1>1, <1>4, Constants
<1> QED BY <1>3, <1>4, <1>5 DEF Pipe

\* WriteHandler keeps the invariant: the socket is there.
LEMMA WriteKeeps ==
  ASSUME IndInv, NEW n \in Node, WriteHandler(n)
  PROVE  IndInv'
<1> DEFINE fd == Head(queue[n]).fd
           c == ConnOf(n, fd)
           s == <<c, Far(c, n)>>
           buff == sock[n][fd].send
           rest == SubSeq(buff, Capacity - Len(wire[s]) + 1, Len(buff))
           gone == Far(c, n) \in conn[c].closed
           after == IF gone THEN wire ELSE [wire EXCEPT ![s] = @ \o SubSeq(buff, 1, Len(buff) - Len(rest))]
<1>1. /\ Running(n) /\ queue[n] # << >> /\ Head(queue[n]).type = "SocketWrite"
      /\ queue' = Popped(n, << >>) /\ UNCHANGED << recvBuff, sent, handled, cut, tainted >>
  BY DEF WriteHandler, NextIs, history
<1>2. fd \in FD /\ Head(queue[n]).type \in SocketEvents BY <1>1, HeadFacts, EventFacts DEF SocketEvents
<1>3. sock[n][fd].type = "data" BY <1>1, HeadFacts DEF Live
<1>4. c \in DOMAIN conn /\ s \in Stream /\ conn[c] \in Connection /\ Far(c, n) \in Node
  BY <1>2, <1>3, OpenFacts DEF IndInv
<1>5. /\ sock' = [sock EXCEPT ![n][fd].send = rest, ![n][fd].writable = ~AllSent(rest)]
      /\ \/ Stop(n, "writeError", after)
         \/ /\ wire' = after /\ UNCHANGED status
            /\ conn' = IF gone THEN [conn EXCEPT ![c].reset = @ \cup {n}] ELSE conn
  BY <1>3 DEF WriteHandler, Mapped
<1>6. buff \in Seq(Byte) /\ wire[s] \in Pipe BY <1>2, <1>4 DEF IndInv, TypeOK, Socket
<1>7. /\ rest \in Seq(Byte)
      /\ wire[s] \o SubSeq(buff, 1, Len(buff) - Len(rest)) \in Pipe
  BY <1>6, WriteFacts
<1>8. after \in [Stream -> Pipe] BY <1>4, <1>7 DEF IndInv, TypeOK
<1> HIDE DEF after, rest, buff, s, gone
<1>9. /\ sock' \in [Node -> [FD -> Socket]]
      /\ \A m \in Node, g \in FD :
           /\ sock'[m][g].type = sock[m][g].type /\ sock'[m][g].conn = sock[m][g].conn
           /\ m # n \/ g # fd => sock'[m][g] = sock[m][g]
      /\ \A m \in Node : m # n => sock'[m] = sock[m]
  <2> DEFINE new == [sock[n][fd] EXCEPT !.send = rest, !.writable = ~AllSent(rest)]
  <2>1. sock \in [Node -> [FD -> Socket]] /\ sock[n][fd] \in Socket BY <1>2 DEF IndInv, TypeOK
  <2>2. (~AllSent(rest)) \in BOOLEAN BY DEF AllSent
  <2>3. new \in Socket /\ new.type = sock[n][fd].type /\ new.conn = sock[n][fd].conn
    BY <1>7, <2>1, <2>2 DEF Socket
  <2>4. sock' = [sock EXCEPT ![n] = [sock[n] EXCEPT ![fd] = new]]
    BY <1>2, <1>5, <2>1 DEF Socket
  <2> HIDE DEF new
  <2> QED BY <1>2, <2>1, <2>3, <2>4
<1>10. /\ status' \in [Node -> {"running"} \cup Endings]
       /\ \A m \in Node : Running(m)' => Running(m)
       /\ conn' \in Seq(Connection) /\ Len(conn') = Len(conn) /\ DOMAIN conn' = DOMAIN conn
       /\ \A d \in DOMAIN conn : /\ conn'[d].from = conn[d].from /\ conn'[d].to = conn[d].to
                                 /\ conn'[d].accepted = conn[d].accepted
       /\ wire' \in [Stream -> Pipe]
  <2>1. CASE Stop(n, "writeError", after) BY <1>8, <2>1, StopFacts DEF IndInv, Endings
  <2>2. CASE /\ wire' = after /\ UNCHANGED status
             /\ conn' = IF gone THEN [conn EXCEPT ![c].reset = @ \cup {n}] ELSE conn
    <3>1. conn \in Seq(Connection) /\ DOMAIN conn = 1..Len(conn) BY LenProperties DEF IndInv, TypeOK
    <3> DEFINE new == [conn[c] EXCEPT !.reset = @ \cup {n}]
    <3>2. new \in Connection /\ new.from = conn[c].from /\ new.to = conn[c].to /\ new.accepted = conn[c].accepted
      BY <1>4 DEF Connection
    <3>3. conn' = conn \/ conn' = [conn EXCEPT ![c] = new] BY <2>2
    <3> HIDE DEF new
    <3>4. [conn EXCEPT ![c] = new] \in Seq(Connection) /\ Len([conn EXCEPT ![c] = new]) = Len(conn)
      BY <1>4, <3>1, <3>2, ExceptSeq
    <3>5. conn' \in Seq(Connection) /\ Len(conn') = Len(conn) BY <3>1, <3>3, <3>4
    <3>6. DOMAIN conn' = DOMAIN conn BY <3>3
    <3>7. \A d \in DOMAIN conn : conn'[d] = conn[d] \/ (d = c /\ conn'[d] = new) BY <1>4, <3>3
    <3>8. status' \in [Node -> {"running"} \cup Endings]
      BY <2>2 DEF IndInv, TypeOK
    <3> QED BY <1>8, <2>2, <3>2, <3>5, <3>6, <3>7, <3>8 DEF Running
  <2> QED BY <1>5, <2>1, <2>2
<1>11. queue' \in [Node -> Seq(Event)]
  <2>1. Pushes(n, << >>) BY EmptySeq DEF Pushes
  <2> QED BY <1>1, <2>1, PoppedOrder DEF IndInv, TypeOK, QueueFit
<1>12. TypeOK' /\ SocketsFit' /\ CutsFit' /\ RestsFit' /\ BuffersFit'
  <2>1. \A m \in Node, g \in FD :
          \/ sock'[m][g] = sock[m][g]
          \/ /\ sock[m][g].type # "none" /\ sock'[m][g].type # "none"
             /\ sock'[m][g].conn = sock[m][g].conn
    BY <1>3, <1>9
  <2>2. \A m \in Node, g \in FD : sock[m][g].type = "data" => sock'[m][g].type = "data"
    BY <1>9
  <2>3. recvBuff' \in [Node -> [FD -> Seq(Byte)]] /\ tainted' \subseteq Stream
    BY <1>1 DEF IndInv, TypeOK
  <2> QED BY <1>1, <1>9, <1>10, <1>11, <2>1, <2>2, <2>3, StatesChange
<1>13. QueueFit' BY <1>1, <1>9, <1>10, PoppedNothing
<1> QED BY <1>12, <1>13 DEF IndInv

\* The events for the messages of a buffer.
LEMMA MsgEventsType ==
  ASSUME NEW n \in Node, NEW fd \in FD, ConnOf(n, fd) \in 1..MaxConn, NEW msgs \in Seq(Message)
  PROVE  /\ [k \in DOMAIN msgs |-> MsgEvent(n, fd, msgs[k])] \in Seq(Event)
         /\ \A k \in DOMAIN msgs :
              /\ MsgEvent(n, fd, msgs[k]) \in Event
              /\ MsgEvent(n, fd, msgs[k]).type \in {"PeerRecvNotifyPeerId", "PeerRecvMsg"}
              /\ MsgEvent(n, fd, msgs[k]).fd = fd
              /\ MsgEvent(n, fd, msgs[k]).conn = ConnOf(n, fd)
<1>1. DOMAIN msgs = 1..Len(msgs) /\ Len(msgs) \in Nat BY LenProperties
<1>2. ASSUME NEW k \in DOMAIN msgs
      PROVE  /\ MsgEvent(n, fd, msgs[k]) \in Event
             /\ MsgEvent(n, fd, msgs[k]).type \in {"PeerRecvNotifyPeerId", "PeerRecvMsg"}
             /\ MsgEvent(n, fd, msgs[k]).fd = fd
             /\ MsgEvent(n, fd, msgs[k]).conn = ConnOf(n, fd)
  <2> DEFINE t == IF msgs[k].num = 1 /\ conn[ConnOf(n, fd)].to = n
                  THEN "PeerRecvNotifyPeerId" ELSE "PeerRecvMsg"
             f == [type |-> t, fd |-> fd, conn |-> ConnOf(n, fd), msg |-> msgs[k]]
  <2>1. MsgEvent(n, fd, msgs[k]) = f BY DEF MsgEvent
  <2>2. t \in {"PeerRecvNotifyPeerId", "PeerRecvMsg"} OBVIOUS
  <2>3. msgs[k] \in Message BY <1>1, ElementOfSeq
  <2> HIDE DEF t
  <2>4. f \in [type : MsgEvents, fd : FD, conn : 1..MaxConn, msg : Message]
    BY <2>2, <2>3 DEF MsgEvents
  <2>5. f \in Event BY <2>4 DEF Event
  <2> QED BY <2>1, <2>2, <2>5
<1>3. [k \in DOMAIN msgs |-> MsgEvent(n, fd, msgs[k])] \in [1..Len(msgs) -> Event]
  BY <1>1, <1>2
<1>4. [k \in DOMAIN msgs |-> MsgEvent(n, fd, msgs[k])] \in Seq(Event)
  BY <1>1, <1>3, SeqDef
<1> QED BY <1>2, <1>4

\* What RecvHandler finds: its socket, with a connection and its buffers.
LEMMA RecvFacts ==
  ASSUME IndInv, NEW n \in Node, NEW len, RecvHandler(n, len),
         NEW fd, fd = Head(queue[n]).fd
  PROVE  /\ Running(n) /\ queue[n] # << >> /\ Head(queue[n]).type = "SocketRecv"
         /\ Head(queue[n]) \in Event /\ Rank(Head(queue[n])) = 1
         /\ Head(queue[n]).type \in SocketEvents /\ Head(queue[n]).type \notin MsgEvents
         /\ Head(queue[n]).type \notin Bare
         /\ fd \in FD /\ sock[n][fd].type = "data"
         /\ ConnOf(n, fd) \in DOMAIN conn /\ ConnOf(n, fd) \in 1..MaxConn
         /\ <<ConnOf(n, fd), n>> \in Stream
         /\ [wire EXCEPT ![<<ConnOf(n, fd), n>>] = SubSeq(@, len + 1, Len(@))] \in [Stream -> Pipe]
         /\ recvBuff[n][fd] \o SubSeq(wire[<<ConnOf(n, fd), n>>], 1, len) \in Seq(Byte)
         /\ \A i \in DOMAIN queue[n] : \A j \in DOMAIN queue[n] :
              /\ queue[n][j].type \in MsgEvents => queue[n][j].conn # ConnOf(n, fd)
              /\ i # 1 /\ queue[n][i].type \in {"SocketRecv", "PeerSocketClose"}
                   => ConnOf(n, queue[n][i].fd) # ConnOf(n, fd)
<1> DEFINE e == Head(queue[n])
           c == ConnOf(n, fd)
<1>1. /\ Running(n) /\ queue[n] # << >> /\ e.type = "SocketRecv"
      /\ len \in 0..Len(wire[<<c, n>>])
  BY DEF RecvHandler, NextIs
<1>2. e \in Event /\ e = queue[n][1] /\ 1 \in DOMAIN queue[n] /\ Live(sock[n], e) BY <1>1, HeadFacts
<1>3. /\ e.type \in SocketEvents /\ e.type \notin MsgEvents /\ e.type \notin Bare /\ Rank(e) = 1
  BY <1>1, <1>2, RankFacts DEF SocketEvents, MsgEvents, Bare, Mined, Failures, Watched
<1>4. fd \in FD /\ sock[n][fd].type = "data" BY <1>1, <1>2, <1>3, EventFacts DEF Live
<1>5. c \in DOMAIN conn /\ c \in 1..MaxConn /\ <<c, n>> \in Stream BY <1>4, OpenFacts DEF IndInv
<1> HIDE DEF e, c
<1>6. wire \in [Stream -> Pipe] /\ recvBuff[n][fd] \in Seq(Byte) /\ wire[<<c, n>>] \in Pipe
  BY <1>4, <1>5 DEF IndInv, TypeOK
<1>7. /\ SubSeq(wire[<<c, n>>], len + 1, Len(wire[<<c, n>>])) \in Pipe
      /\ SubSeq(wire[<<c, n>>], 1, len) \in Seq(Byte)
  BY <1>1, <1>6, ReadFacts DEF c
<1>8. [wire EXCEPT ![<<c, n>>] = SubSeq(@, len + 1, Len(@))] \in [Stream -> Pipe] BY <1>5, <1>6, <1>7
<1>9. recvBuff[n][fd] \o SubSeq(wire[<<c, n>>], 1, len) \in Seq(Byte) BY <1>6, <1>7, ConcatProperties
<1>10. ASSUME NEW j \in DOMAIN queue[n], queue[n][j].type \in MsgEvents PROVE queue[n][j].conn # c
  BY <1>1, <1>2, <1>10 DEF IndInv, QueueFit, MessagesFit, e, c
<1>11. ASSUME NEW i \in DOMAIN queue[n], i # 1, queue[n][i].type \in {"SocketRecv", "PeerSocketClose"}
       PROVE  ConnOf(n, queue[n][i].fd) # c
  <2> DEFINE g == queue[n][i].fd
  <2>1. queue[n][i] \in Event /\ queue[n][i].type \in SocketEvents BY <1>1, <1>11, HeadFacts DEF SocketEvents
  <2>2. g \in FD BY <2>1, EventFacts
  <2>3. sock[n][g].type # "none"
    <3>1. Live(sock[n], queue[n][i]) BY <1>1 DEF IndInv, QueueFit, LiveFit
    <3> QED BY <1>11, <3>1 DEF Live
  <2>4. g # fd
    <3>1. queue[n][i].type \notin Bare /\ queue[n][i].type \notin MsgEvents BY <1>11 DEF Bare, Mined, Failures, MsgEvents
    <3> QED BY <1>2, <1>3, <1>11, <3>1 DEF IndInv, QueueFit, EventsFit, e
  <2> QED BY <1>4, <2>2, <2>3, <2>4 DEF IndInv, SocketsFit, c
<1> QED BY <1>1, <1>2, <1>3, <1>4, <1>5, <1>8, <1>9, <1>10, <1>11 DEF e, c

\* An end of file keeps the invariant.
LEMMA EndOfFileKeeps ==
  ASSUME IndInv, NEW n \in Node, NEW len, RecvHandler(n, len), NEW fd, fd = Head(queue[n]).fd,
         EndOfFile(n, fd), UNCHANGED << status, conn >>,
         wire' = [wire EXCEPT ![<<ConnOf(n, fd), n>>] = SubSeq(@, len + 1, Len(@))]
  PROVE  IndInv'
<1> DEFINE f == [type |-> "PeerSocketClose", fd |-> fd]
<1>1. /\ queue' = Popped(n, << f >>)
      /\ sock' = [sock EXCEPT ![n][fd].type = "closing"]
      /\ recvBuff' = [recvBuff EXCEPT ![n][fd] = << >>]
      /\ UNCHANGED << sent, handled, cut, tainted >>
  BY DEF EndOfFile, RecvHandler, history
<1>2. /\ Running(n) /\ queue[n] # << >> /\ Rank(Head(queue[n])) = 1
      /\ Head(queue[n]).type \in SocketEvents /\ Head(queue[n]).type \notin MsgEvents
      /\ Head(queue[n]).type \notin Bare
      /\ fd \in FD /\ sock[n][fd].type = "data"
      /\ wire' \in [Stream -> Pipe]
      /\ \A j \in DOMAIN queue[n] :
           queue[n][j].type \in MsgEvents => queue[n][j].conn # ConnOf(n, fd)
  BY RecvFacts
<1>3. f \in Event /\ f.type = "PeerSocketClose" /\ f.fd = fd BY <1>2 DEF Event, SocketEvents
<1> HIDE DEF f
<1>4. Pushes(n, << f >>)
  <2>1. DOMAIN << f >> = {1} /\ << f >>[1] = f /\ << f >> \in Seq(Event) BY <1>3
  <2>2. Rank(f) = 2 BY <1>3, RankFacts
  <2> QED BY <1>2, <1>3, <2>1, <2>2 DEF Pushes
<1>5. queue' \in [Node -> Seq(Event)] /\ RanksFit' /\ EventsFit'
  BY <1>1, <1>2, <1>4, PoppedOrder DEF IndInv, TypeOK, QueueFit
<1>6. /\ sock' \in [Node -> [FD -> Socket]]
      /\ sock'[n][fd].type = "closing" /\ sock'[n][fd].conn = sock[n][fd].conn
      /\ \A m \in Node, g \in FD : m # n \/ g # fd => sock'[m][g] = sock[m][g]
      /\ \A m \in Node : m # n => sock'[m] = sock[m]
  <2> DEFINE new == [sock[n][fd] EXCEPT !.type = "closing"]
  <2>1. sock \in [Node -> [FD -> Socket]] /\ sock[n][fd] \in Socket BY <1>2 DEF IndInv, TypeOK
  <2>2. new \in Socket /\ new.type = "closing" /\ new.conn = sock[n][fd].conn BY <2>1 DEF Socket
  <2>3. sock' = [sock EXCEPT ![n] = [sock[n] EXCEPT ![fd] = new]] BY <1>1
  <2> HIDE DEF new
  <2> QED BY <1>2, <2>1, <2>2, <2>3
<1>7. /\ recvBuff' \in [Node -> [FD -> Seq(Byte)]] /\ recvBuff'[n][fd] = << >>
      /\ \A m \in Node, g \in FD : recvBuff'[m][g] = recvBuff[m][g] \/ recvBuff'[m][g] = << >>
  <2>1. recvBuff \in [Node -> [FD -> Seq(Byte)]] /\ << >> \in Seq(Byte) BY EmptySeq DEF IndInv, TypeOK
  <2> QED BY <1>1, <1>2, <2>1
<1>8. TypeOK' /\ SocketsFit' /\ CutsFit' /\ RestsFit' /\ BuffersFit'
  <2>1. \A m \in Node, g \in FD :
          \/ sock'[m][g] = sock[m][g]
          \/ /\ sock[m][g].type # "none" /\ sock'[m][g].type # "none"
             /\ sock'[m][g].conn = sock[m][g].conn
    BY <1>2, <1>6
  <2>2. \A m \in Node, g \in FD :
          sock[m][g].type = "data" => sock'[m][g].type = "data" \/ recvBuff'[m][g] = << >>
    BY <1>6, <1>7
  <2>3. /\ status' \in [Node -> {"running"} \cup Endings]
        /\ conn' \in Seq(Connection) /\ tainted' \subseteq Stream
    BY <1>1 DEF IndInv, TypeOK
  <2>4. \A m \in Node, g \in FD :
          \/ recvBuff'[m][g] = recvBuff[m][g]
          \/ recvBuff'[m][g] = << >>
          \/ sock'[m][g].type = "data" /\ \E buf \in Seq(Byte) : recvBuff'[m][g] = Remain(buf)
    BY <1>7
  <2>5. Len(conn') = Len(conn) /\ DOMAIN conn' = DOMAIN conn
        /\ \A c \in DOMAIN conn : /\ conn'[c].from = conn[c].from /\ conn'[c].to = conn[c].to
                                  /\ conn'[c].accepted = conn[c].accepted
    OBVIOUS
  <2>6. wire' \in [Stream -> Pipe] BY <1>2
  <2>7. UNCHANGED << sent, handled, cut >> BY <1>1
  <2>8. queue' \in [Node -> Seq(Event)] BY <1>5
  <2>9. sock' \in [Node -> [FD -> Socket]] BY <1>6
  <2>10. recvBuff' \in [Node -> [FD -> Seq(Byte)]] BY <1>7
  <2> QED BY <2>1, <2>2, <2>3, <2>4, <2>5, <2>6, <2>7, <2>8, <2>9, <2>10, StatesChange
<1>9. LiveFit' /\ MessagesFit'
  <2>1. \A m \in Node : m # n => sock'[m] = sock[m] /\ (Running(m)' => Running(m)) BY <1>6 DEF Running
  <2>2. Live(sock'[n], f) BY <1>3, <1>6 DEF Live
  <2>3. f.type \notin MsgEvents BY <1>3 DEF MsgEvents
  <2>4. \A k \in DOMAIN << f >> : << f >>[k] = f OBVIOUS
  <2>5. queue \in [Node -> Seq(Event)] /\ EventsFit /\ LiveFit /\ MessagesFit
    BY DEF IndInv, TypeOK, QueueFit
  <2>6. \A j \in DOMAIN queue[n] : queue[n][j].type \in MsgEvents => queue[n][j].conn # sock'[n][f.fd].conn
    BY <1>2, <1>3, <1>6 DEF ConnOf
  <2>7. \A g \in FD :
          \/ sock'[n][g].type = sock[n][g].type /\ sock'[n][g].conn = sock[n][g].conn
          \/ Head(queue[n]).type \in SocketEvents \cup MsgEvents /\ g = Head(queue[n]).fd
    BY <1>2, <1>6
  <2>8. \A k \in DOMAIN << f >> :
          /\ Running(n)' => Live(sock'[n], << f >>[k])
          /\ << f >>[k].type \in MsgEvents =>
               /\ << f >>[k].conn \in DOMAIN conn
               /\ \A i \in DOMAIN queue[n] :
                    i # 1 /\ queue[n][i].type \in {"SocketRecv", "PeerSocketClose"}
                      => << f >>[k].conn # ConnOf(n, queue[n][i].fd)
          /\ << f >>[k].type \in {"SocketRecv", "PeerSocketClose"} =>
               \A j \in DOMAIN queue[n] :
                 queue[n][j].type \in MsgEvents => queue[n][j].conn # sock'[n][<< f >>[k].fd].conn
    <3> SUFFICES ASSUME NEW k \in DOMAIN << f >>
                 PROVE  /\ Live(sock'[n], f)
                        /\ f.type \notin MsgEvents
                        /\ \A j \in DOMAIN queue[n] :
                             queue[n][j].type \in MsgEvents => queue[n][j].conn # sock'[n][f.fd].conn
      BY <2>4
    <3> QED BY <2>2, <2>3, <2>6
  <2>9. queue' = Popped(n, << f >>) /\ Running(n) /\ queue[n] # << >> BY <1>1, <1>2
  <2>10. DOMAIN conn \subseteq DOMAIN conn' OBVIOUS
  <2> HIDE DEF Pushes
  <2> QED BY <1>4, <2>1, <2>5, <2>7, <2>8, <2>9, <2>10, PoppedSockets
<1> QED BY <1>5, <1>8, <1>9 DEF IndInv, QueueFit

\* Sockets, connections and buffers after a handler that parsed, or ended the
\* process, and left the sockets alone.
LEMMA ReadKeeps ==
  ASSUME IndInv, NEW n \in Node, NEW rest \in [Stream -> Pipe],
         UNCHANGED << sock, sent, handled, cut, tainted >>,
         queue' \in [Node -> Seq(Event)],
         recvBuff' \in [Node -> [FD -> Seq(Byte)]],
         \A m \in Node, g \in FD :
           \/ recvBuff'[m][g] = recvBuff[m][g]
           \/ sock[m][g].type = "data" /\ \E buf \in Seq(Byte) : recvBuff'[m][g] = Remain(buf),
         \/ wire' = rest /\ UNCHANGED << status, conn >>
         \/ \E why \in Endings : Stop(n, why, rest)
  PROVE  /\ TypeOK' /\ SocketsFit' /\ CutsFit' /\ RestsFit' /\ BuffersFit'
         /\ DOMAIN conn' = DOMAIN conn
         /\ \A m \in Node : Running(m)' => Running(m)
<1>1. /\ status' \in [Node -> {"running"} \cup Endings]
      /\ \A m \in Node : Running(m)' => Running(m)
      /\ conn' \in Seq(Connection) /\ Len(conn') = Len(conn) /\ DOMAIN conn' = DOMAIN conn
      /\ \A c \in DOMAIN conn : /\ conn'[c].from = conn[c].from /\ conn'[c].to = conn[c].to
                                /\ conn'[c].accepted = conn[c].accepted
      /\ wire' \in [Stream -> Pipe]
  <2>1. CASE wire' = rest /\ UNCHANGED << status, conn >>
    BY <2>1 DEF IndInv, TypeOK, Running
  <2>2. CASE \E why \in Endings : Stop(n, why, rest)
    BY <2>2, StopFacts DEF IndInv
  <2> QED BY <2>1, <2>2
<1>2. sock' \in [Node -> [FD -> Socket]] /\ tainted' \subseteq Stream BY DEF IndInv, TypeOK
<1>3. \A m \in Node, g \in FD : sock'[m][g] = sock[m][g] OBVIOUS
<1>4. \A m \in Node, g \in FD :
        \/ recvBuff'[m][g] = recvBuff[m][g]
        \/ recvBuff'[m][g] = << >>
        \/ sock'[m][g].type = "data" /\ \E buf \in Seq(Byte) : recvBuff'[m][g] = Remain(buf)
  OBVIOUS
<1> QED BY <1>1, <1>2, <1>3, <1>4, StatesChange

\* The parsing loop keeps the invariant.
LEMMA ParseKeeps ==
  ASSUME IndInv, NEW n \in Node, NEW len, RecvHandler(n, len), NEW fd, fd = Head(queue[n]).fd,
         Parse(n, fd, recvBuff[n][fd] \o SubSeq(wire[<<ConnOf(n, fd), n>>], 1, len),
               [wire EXCEPT ![<<ConnOf(n, fd), n>>] = SubSeq(@, len + 1, Len(@))])
  PROVE  IndInv'
<1> DEFINE buf == recvBuff[n][fd] \o SubSeq(wire[<<ConnOf(n, fd), n>>], 1, len)
           rest == [wire EXCEPT ![<<ConnOf(n, fd), n>>] = SubSeq(@, len + 1, Len(@))]
           msgs == Parsed(buf)
           evs == [k \in DOMAIN msgs |-> MsgEvent(n, fd, msgs[k])]
<1>1. /\ queue' = Popped(n, evs) /\ sock' = sock
      /\ recvBuff' = [recvBuff EXCEPT ![n][fd] = Remain(buf)]
      /\ \/ wire' = rest /\ UNCHANGED << status, conn >>
         \/ Stop(n, "badMessage", rest)
      /\ UNCHANGED << sent, handled, cut, tainted >>
  BY DEF Parse, RecvHandler, history
<1>2. /\ Running(n) /\ queue[n] # << >> /\ Rank(Head(queue[n])) = 1
      /\ Head(queue[n]).type \notin MsgEvents /\ Head(queue[n]).type \notin Bare
      /\ fd \in FD /\ sock[n][fd].type = "data"
      /\ ConnOf(n, fd) \in DOMAIN conn /\ ConnOf(n, fd) \in 1..MaxConn
      /\ rest \in [Stream -> Pipe] /\ buf \in Seq(Byte)
      /\ \A i \in DOMAIN queue[n] :
           i # 1 /\ queue[n][i].type \in {"SocketRecv", "PeerSocketClose"}
             => ConnOf(n, queue[n][i].fd) # ConnOf(n, fd)
  BY RecvFacts
<1> HIDE DEF buf, rest
<1>3. msgs \in Seq(Message) BY <1>2, ParsedType
<1> HIDE DEF msgs
<1>4. /\ evs \in Seq(Event) /\ DOMAIN evs = DOMAIN msgs
      /\ \A k \in DOMAIN evs :
           /\ evs[k] \in Event /\ evs[k].type \in {"PeerRecvNotifyPeerId", "PeerRecvMsg"}
           /\ evs[k].fd = fd /\ evs[k].conn = ConnOf(n, fd)
  BY <1>2, <1>3, MsgEventsType
<1> HIDE DEF evs
<1>5. \A k \in DOMAIN evs :
        /\ Rank(evs[k]) = 2 /\ evs[k].type \in MsgEvents
        /\ evs[k].type \notin {"SocketRecv", "PeerSocketClose"}
        /\ Live(sock'[n], evs[k])
  BY <1>4, RankFacts DEF MsgEvents, Live
<1>6. Pushes(n, evs) BY <1>2, <1>4, <1>5 DEF Pushes
<1>7. queue' \in [Node -> Seq(Event)] /\ RanksFit' /\ EventsFit'
  BY <1>1, <1>2, <1>6, PoppedOrder DEF IndInv, TypeOK, QueueFit
<1>8. /\ TypeOK' /\ SocketsFit' /\ CutsFit' /\ RestsFit' /\ BuffersFit'
      /\ DOMAIN conn' = DOMAIN conn /\ \A m \in Node : Running(m)' => Running(m)
  <2>1. recvBuff \in [Node -> [FD -> Seq(Byte)]] BY DEF IndInv, TypeOK
  <2>2. Remain(buf) \in Seq(Byte) BY <1>2, RemainFits
  <2>3. /\ recvBuff' \in [Node -> [FD -> Seq(Byte)]]
        /\ \A m \in Node, g \in FD :
             \/ recvBuff'[m][g] = recvBuff[m][g]
             \/ m = n /\ g = fd /\ recvBuff'[m][g] = Remain(buf)
    BY <1>1, <1>2, <2>1, <2>2
  <2>4. \A m \in Node, g \in FD :
          \/ recvBuff'[m][g] = recvBuff[m][g]
          \/ sock[m][g].type = "data" /\ \E b \in Seq(Byte) : recvBuff'[m][g] = Remain(b)
    BY <1>2, <2>3
  <2>5. \/ wire' = rest /\ UNCHANGED << status, conn >>
        \/ \E why \in Endings : Stop(n, why, rest)
    BY <1>1 DEF Endings
  <2> QED BY <1>1, <1>2, <1>7, <2>3, <2>4, <2>5, ReadKeeps
<1>9. LiveFit' /\ MessagesFit'
  <2>1. \A m \in Node : m # n => sock'[m] = sock[m] /\ (Running(m)' => Running(m)) BY <1>1, <1>8
  <2>2. queue \in [Node -> Seq(Event)] /\ EventsFit /\ LiveFit /\ MessagesFit
    BY DEF IndInv, TypeOK, QueueFit
  <2>3. \A k \in DOMAIN evs :
          /\ Running(n)' => Live(sock'[n], evs[k])
          /\ evs[k].type \in MsgEvents =>
               /\ evs[k].conn \in DOMAIN conn
               /\ \A i \in DOMAIN queue[n] :
                    i # 1 /\ queue[n][i].type \in {"SocketRecv", "PeerSocketClose"}
                      => evs[k].conn # ConnOf(n, queue[n][i].fd)
          /\ evs[k].type \in {"SocketRecv", "PeerSocketClose"} =>
               \A j \in DOMAIN queue[n] :
                 queue[n][j].type \in MsgEvents => queue[n][j].conn # sock'[n][evs[k].fd].conn
    <3> SUFFICES ASSUME NEW k \in DOMAIN evs
                 PROVE  /\ Live(sock'[n], evs[k])
                        /\ evs[k].conn \in DOMAIN conn
                        /\ \A i \in DOMAIN queue[n] :
                             i # 1 /\ queue[n][i].type \in {"SocketRecv", "PeerSocketClose"}
                               => evs[k].conn # ConnOf(n, queue[n][i].fd)
                        /\ evs[k].type \notin {"SocketRecv", "PeerSocketClose"}
      OBVIOUS
    <3> QED BY <1>2, <1>4, <1>5
  <2>4. \A g \in FD : sock'[n][g].type = sock[n][g].type /\ sock'[n][g].conn = sock[n][g].conn BY <1>1
  <2>5. DOMAIN conn \subseteq DOMAIN conn' BY <1>8
  <2>6. queue' = Popped(n, evs) /\ Running(n) /\ queue[n] # << >> BY <1>1, <1>2
  <2> HIDE DEF Pushes
  <2> QED BY <1>6, <2>1, <2>2, <2>3, <2>4, <2>5, <2>6, PoppedSockets
<1> QED BY <1>7, <1>8, <1>9 DEF IndInv, QueueFit

\* RecvHandler keeps the invariant.
LEMMA RecvKeeps ==
  ASSUME IndInv, NEW n \in Node, NEW len, RecvHandler(n, len)
  PROVE  IndInv'
<1> DEFINE fd == Head(queue[n]).fd
           s == <<ConnOf(n, fd), n>>
           rest == [wire EXCEPT ![s] = SubSeq(@, len + 1, Len(@))]
<1>1. CASE EndOfFile(n, fd) /\ wire' = rest /\ UNCHANGED << status, conn >>
  BY <1>1, EndOfFileKeeps
<1>2. CASE /\ Stop(n, "recvError", rest) /\ queue' = Popped(n, << >>)
           /\ UNCHANGED << sock, recvBuff >>
  <2>1. UNCHANGED << sent, handled, cut, tainted >> BY DEF RecvHandler, history
  <2>2. /\ Running(n) /\ queue[n] # << >> /\ rest \in [Stream -> Pipe] BY RecvFacts
  <2>3. queue' \in [Node -> Seq(Event)]
    <3>1. Pushes(n, << >>) BY EmptySeq DEF Pushes
    <3> QED BY <1>2, <2>2, <3>1, PoppedOrder DEF IndInv, TypeOK, QueueFit
  <2>4. recvBuff' \in [Node -> [FD -> Seq(Byte)]] BY <1>2 DEF IndInv, TypeOK
  <2> HIDE DEF rest
  <2>5. \E why \in Endings : Stop(n, why, rest)
    BY <1>2 DEF Endings
  <2>6. /\ TypeOK' /\ SocketsFit' /\ CutsFit' /\ RestsFit' /\ BuffersFit'
        /\ DOMAIN conn' = DOMAIN conn /\ \A m \in Node : Running(m)' => Running(m)
    BY <1>2, <2>1, <2>2, <2>3, <2>4, <2>5, ReadKeeps
  <2>7. QueueFit' BY <1>2, <2>2, <2>6, PoppedNothing
  <2> QED BY <2>6, <2>7 DEF IndInv
<1>3. CASE Parse(n, fd, recvBuff[n][fd] \o SubSeq(wire[s], 1, len), rest)
  BY <1>3, ParseKeeps
<1> QED BY <1>1, <1>2, <1>3 DEF RecvHandler

\* SocketConnectFailedHandler keeps the invariant.
LEMMA SocketConnectFailedKeeps ==
  ASSUME IndInv, NEW n \in Node, SocketConnectFailedHandler(n)
  PROVE  IndInv'
<1>1. /\ Running(n) /\ queue[n] # << >> /\ queue' = Popped(n, << >>)
      /\ UNCHANGED << sock, recvBuff, sent, handled, cut, tainted >>
  BY DEF SocketConnectFailedHandler, NextIs, history
<1>2. queue' \in [Node -> Seq(Event)]
  <2>1. Pushes(n, << >>) BY EmptySeq DEF Pushes
  <2> QED BY <1>1, <2>1, PoppedOrder DEF IndInv, TypeOK, QueueFit
<1>3. /\ recvBuff' \in [Node -> [FD -> Seq(Byte)]] /\ wire \in [Stream -> Pipe]
      /\ handled' \in [Stream -> Seq(Message)]
  BY <1>1 DEF IndInv, TypeOK
<1>4. CASE UNCHANGED << status, conn, wire >>
  <2>1. \A m \in Node : m # n => sock'[m] = sock[m] /\ (Running(m)' => Running(m))
    BY <1>1, <1>4 DEF Running
  <2>2. QueueFit' BY <1>1, <1>4, <2>1, PoppedNothing
  <2> QED BY <1>1, <1>2, <1>3, <1>4, <2>2, IdleKeeps
<1>5. CASE Stop(n, "connectFailed", wire)
  <2>1. \E why \in Endings : Stop(n, why, wire) BY <1>5 DEF Endings
  <2>2. /\ TypeOK' /\ SocketsFit' /\ CutsFit' /\ RestsFit' /\ BuffersFit'
        /\ DOMAIN conn' = DOMAIN conn /\ \A m \in Node : Running(m)' => Running(m)
    BY <1>1, <1>2, <1>3, <2>1, ReadKeeps
  <2>3. QueueFit' BY <1>1, <2>2, PoppedNothing
  <2> QED BY <2>2, <2>3 DEF IndInv
<1> QED BY <1>4, <1>5 DEF SocketConnectFailedHandler

\* Return keeps the invariant.
LEMMA ReturnKeeps ==
  ASSUME IndInv, NEW n \in Node, Return(n)
  PROVE  IndInv'
<1>1. Stop(n, "returned", wire) /\ UNCHANGED << queue, sock, recvBuff, sent, handled, cut, tainted >>
  BY DEF Return, history
<1>2. /\ queue' \in [Node -> Seq(Event)] /\ recvBuff' \in [Node -> [FD -> Seq(Byte)]]
      /\ wire \in [Stream -> Pipe]
  BY <1>1 DEF IndInv, TypeOK
<1>3. \E why \in Endings : Stop(n, why, wire)
  BY <1>1 DEF Endings
<1>4. /\ TypeOK' /\ SocketsFit' /\ CutsFit' /\ RestsFit' /\ BuffersFit'
      /\ DOMAIN conn' = DOMAIN conn /\ \A m \in Node : Running(m)' => Running(m)
  BY <1>1, <1>2, <1>3, ReadKeeps
<1>5. QueueFit' BY <1>1, <1>4, QueueKept DEF IndInv, TypeOK
<1> QED BY <1>4, <1>5 DEF IndInv

\* Free descriptors of a node get sockets, each with a connection that no socket of
\* the node has had: a new one, or one that waited for an accept.
LEMMA SocketsOpen ==
  ASSUME TypeOK, SocketsFit, CutsFit, RestsFit,
         DOMAIN conn \subseteq DOMAIN conn',
         \A c \in DOMAIN conn : /\ conn'[c].from = conn[c].from /\ conn'[c].to = conn[c].to
                                /\ conn[c].accepted => conn'[c].accepted,
         NEW n \in Node, NEW opened, opened \subseteq FD,
         \A m \in Node, fd \in FD : m # n \/ fd \notin opened => sock'[m][fd] = sock[m][fd],
         \A fd \in opened :
           /\ sock[n][fd] = NoSocket /\ sock'[n][fd].type # "none"
           /\ sock'[n][fd].conn \in DOMAIN conn'
           /\ n \in {conn'[sock'[n][fd].conn].from, conn'[sock'[n][fd].conn].to}
           /\ conn'[sock'[n][fd].conn].to = n => conn'[sock'[n][fd].conn].accepted
           /\ \/ sock'[n][fd].conn \notin DOMAIN conn
              \/ conn[sock'[n][fd].conn].to = n /\ ~conn[sock'[n][fd].conn].accepted,
         \A fd, g \in opened : sock'[n][fd].conn = sock'[n][g].conn => fd = g,
         UNCHANGED << recvBuff, cut >>
  PROVE  SocketsFit' /\ CutsFit' /\ RestsFit'
<1>1. \A fd \in opened : \A g \in FD : sock[n][g].type # "none" => sock[n][g].conn # sock'[n][fd].conn
  BY DEF SocketsFit, ConnOf
<1>2. SocketsFit'
  <2> SUFFICES ASSUME NEW m \in Node, NEW fd \in FD
               PROVE  /\ sock'[m][fd].type = "none" => sock'[m][fd] = NoSocket
                      /\ sock'[m][fd].type # "none" =>
                           /\ sock'[m][fd].conn \in DOMAIN conn'
                           /\ m \in {conn'[sock'[m][fd].conn].from, conn'[sock'[m][fd].conn].to}
                           /\ conn'[sock'[m][fd].conn].to = m => conn'[sock'[m][fd].conn].accepted
                           /\ \A g \in FD : sock'[m][g].type # "none" /\ sock'[m][g].conn = sock'[m][fd].conn
                                              => g = fd
    BY DEF SocketsFit, ConnOf, NoSocket
  <2>1. CASE m = n /\ fd \in opened
    <3>1. ASSUME NEW g \in FD, sock'[m][g].type # "none", sock'[m][g].conn = sock'[m][fd].conn PROVE g = fd
      <4>1. CASE g \in opened BY <2>1, <3>1, <4>1
      <4>2. CASE g \notin opened
        <5>1. sock'[m][g] = sock[m][g] BY <4>2
        <5> QED BY <1>1, <2>1, <3>1, <5>1
      <4> QED BY <4>1, <4>2
    <3> QED BY <2>1, <3>1
  <2>2. CASE ~ (m = n /\ fd \in opened)
    <3>1. sock'[m][fd] = sock[m][fd] BY <2>2
    <3>2. sock[m][fd].type = "none" => sock[m][fd] = NoSocket BY DEF SocketsFit
    <3>3. ASSUME sock[m][fd].type # "none"
          PROVE  /\ sock[m][fd].conn \in DOMAIN conn'
                 /\ m \in {conn'[sock[m][fd].conn].from, conn'[sock[m][fd].conn].to}
                 /\ conn'[sock[m][fd].conn].to = m => conn'[sock[m][fd].conn].accepted
                 /\ \A g \in FD : sock'[m][g].type # "none" /\ sock'[m][g].conn = sock[m][fd].conn
                                    => g = fd
      <4> DEFINE c == sock[m][fd].conn
      <4>1. /\ c \in DOMAIN conn /\ m \in {conn[c].from, conn[c].to}
            /\ conn[c].to = m => conn[c].accepted
            /\ \A g \in FD : sock[m][g].type # "none" /\ sock[m][g].conn = c => g = fd
        BY <3>3 DEF SocketsFit, ConnOf
      <4>2. ASSUME NEW g \in FD, sock'[m][g].type # "none", sock'[m][g].conn = c PROVE g = fd
        <5>1. CASE m = n /\ g \in opened BY <1>1, <3>3, <4>2, <5>1
        <5>2. CASE ~ (m = n /\ g \in opened)
          <6>1. sock'[m][g] = sock[m][g] BY <5>2
          <6> QED BY <4>1, <4>2, <6>1
        <5> QED BY <5>1, <5>2
      <4> QED BY <4>1, <4>2
    <3> QED BY <3>1, <3>2, <3>3
  <2> QED BY <2>1, <2>2
<1>3. CutsFit'
  <2> SUFFICES ASSUME NEW e \in cut
               PROVE  /\ e[1] \in DOMAIN conn'
                      /\ conn'[e[1]].to = e[2] => conn'[e[1]].accepted
                      /\ \A fd \in FD : sock'[e[2]][fd].type # "none" => sock'[e[2]][fd].conn # e[1]
    BY DEF CutsFit, ConnOf
  <2>1. e[2] \in Node BY DEF TypeOK, Stream
  <2>2. /\ e[1] \in DOMAIN conn
        /\ conn[e[1]].to = e[2] => conn[e[1]].accepted
        /\ \A fd \in FD : sock[e[2]][fd].type # "none" => sock[e[2]][fd].conn # e[1]
    BY DEF CutsFit, ConnOf
  <2>3. ASSUME NEW fd \in FD, sock'[e[2]][fd].type # "none" PROVE sock'[e[2]][fd].conn # e[1]
    <3>1. CASE e[2] = n /\ fd \in opened BY <2>2, <3>1
    <3>2. CASE ~ (e[2] = n /\ fd \in opened)
      <4>1. sock'[e[2]][fd] = sock[e[2]][fd] BY <2>1, <3>2
      <4> QED BY <2>2, <2>3, <4>1
    <3> QED BY <3>1, <3>2
  <2> QED BY <2>2, <2>3
<1>4. RestsFit'
  <2> SUFFICES ASSUME NEW m \in Node, NEW fd \in FD, sock'[m][fd].type # "data", recvBuff[m][fd] # << >>
               PROVE  \E c \in DOMAIN conn' : <<c, m>> \in cut
    BY DEF RestsFit, Mapped
  <2>1. sock[m][fd].type # "data"
    <3>1. CASE m = n /\ fd \in opened BY <3>1 DEF NoSocket
    <3>2. CASE ~ (m = n /\ fd \in opened) BY <3>2
    <3> QED BY <3>1, <3>2
  <2> QED BY <2>1 DEF RestsFit, Mapped
<1> QED BY <1>2, <1>3, <1>4

\* ConnectPeer keeps the invariant.
LEMMA ConnectPeerKeeps ==
  ASSUME IndInv, NEW n \in Node, NEW o \in Node, ConnectPeer(n, o)
  PROVE  IndInv'
<1> DEFINE cl == {o} \ {m \in Node : Running(m)}
           rs == IF Running(o) THEN {} ELSE {n}
           r == [from |-> n, to |-> o, accepted |-> FALSE, closed |-> cl, reset |-> rs]
           k == Len(conn) + 1
           s == [NoSocket EXCEPT !.type = "connect", !.conn = Len(conn) + 1]
<1>1. /\ Running(n) /\ <<n, o>> \in Dials /\ Len(conn) < MaxConn /\ conn' = Append(conn, r)
      /\ UNCHANGED << queue, status, recvBuff, wire, sent, handled, cut, tainted >>
  BY DEF ConnectPeer, history
<1>2. PICK new \in Free(n) : sock' = [sock EXCEPT ![n][new] = s] BY DEF ConnectPeer
<1>3. new \in FD /\ sock[n][new] = NoSocket BY DEF Free
<1>4. n # o BY <1>1, StreamAssumption
<1>5. r \in Connection /\ r.from = n /\ r.to = o
  <2>1. cl \in SUBSET Node /\ rs \in SUBSET Node OBVIOUS
  <2> HIDE DEF cl, rs
  <2> QED BY <2>1 DEF Connection
<1>6. /\ conn \in Seq(Connection) /\ Len(conn) \in Nat /\ DOMAIN conn = 1..Len(conn)
  BY LenProperties DEF IndInv, TypeOK
<1> HIDE DEF r
<1>7. /\ conn' \in Seq(Connection) /\ Len(conn') = k /\ DOMAIN conn' = 1..k
      /\ conn'[k] = r /\ \A c \in DOMAIN conn : conn'[c] = conn[c]
  <2>1. /\ conn' \in Seq(Connection) /\ Len(conn') = k
        /\ conn'[k] = r /\ \A c \in 1..Len(conn) : conn'[c] = conn[c]
    BY <1>1, <1>5, <1>6, AppendProperties
  <2> QED BY <1>6, <2>1, LenProperties
<1>8. k \in 1..MaxConn /\ k \notin DOMAIN conn BY <1>1, <1>6, Constants
<1>9. NoSocket \in Socket /\ NoSocket.type = "none" BY Constants, EmptySeq DEF NoSocket, Socket
<1>10. s \in Socket /\ s.type = "connect" /\ s.conn = k
  <2>1. k \in 0..MaxConn BY <1>8, Constants
  <2>2. s = [NoSocket EXCEPT !.type = "connect", !.conn = k] OBVIOUS
  <2> HIDE DEF s, k
  <2> QED BY <1>9, <2>1, <2>2 DEF Socket
<1> HIDE DEF s, k
<1>11. /\ sock' \in [Node -> [FD -> Socket]] /\ sock'[n][new] = s
       /\ \A l \in Node, g \in FD : l # n \/ g \notin {new} => sock'[l][g] = sock[l][g]
  BY <1>2, <1>3, <1>10 DEF IndInv, TypeOK
<1> DEFINE opened == {new}
<1>12. TypeOK'
  <2>1. Len(conn') <= MaxConn BY <1>7, <1>8
  <2> QED BY <1>1, <1>7, <1>11, <2>1 DEF IndInv, TypeOK
<1>13. SocketsFit' /\ CutsFit' /\ RestsFit'
  <2>1. DOMAIN conn \subseteq DOMAIN conn' BY <1>6, <1>7 DEF k
  <2>2. \A c \in DOMAIN conn : /\ conn'[c].from = conn[c].from /\ conn'[c].to = conn[c].to
                               /\ conn[c].accepted => conn'[c].accepted
    BY <1>7
  <2>3. ASSUME NEW fd \in opened
        PROVE  /\ sock[n][fd] = NoSocket /\ sock'[n][fd].type # "none"
               /\ sock'[n][fd].conn \in DOMAIN conn'
               /\ n \in {conn'[sock'[n][fd].conn].from, conn'[sock'[n][fd].conn].to}
               /\ conn'[sock'[n][fd].conn].to = n => conn'[sock'[n][fd].conn].accepted
               /\ \/ sock'[n][fd].conn \notin DOMAIN conn
                  \/ conn[sock'[n][fd].conn].to = n /\ ~conn[sock'[n][fd].conn].accepted
    <3>1. k \in DOMAIN conn' BY <1>6, <1>7 DEF k
    <3> QED BY <1>3, <1>4, <1>5, <1>7, <1>8, <1>10, <1>11, <3>1
  <2>4. ASSUME NEW fd \in opened, NEW g \in opened, sock'[n][fd].conn = sock'[n][g].conn PROVE fd = g
    OBVIOUS
  <2>5. TypeOK /\ SocketsFit /\ CutsFit /\ RestsFit BY DEF IndInv
  <2>6. \A m \in Node, fd \in FD : m # n \/ fd \notin opened => sock'[m][fd] = sock[m][fd] BY <1>11
  <2>7. UNCHANGED << recvBuff, cut >> BY <1>1
  <2>8. opened \subseteq FD BY <1>3
  <2> HIDE DEF opened
  <2> QED BY <2>8, <2>1, <2>2, <2>3, <2>4, <2>5, <2>6, <2>7, SocketsOpen
<1>14. BuffersFit' BY <1>1, BuffersKept DEF IndInv
<1>15. QueueFit'
  <2>1. \A l \in Node : Running(l)' => Running(l) BY <1>1 DEF Running
  <2>2. \A l \in Node, g \in FD :
          \/ sock'[l][g].type = sock[l][g].type /\ sock'[l][g].conn = sock[l][g].conn
          \/ sock[l][g].type = "none" /\ Running(l)
    BY <1>1, <1>3, <1>9, <1>11
  <2>3. DOMAIN conn \subseteq DOMAIN conn' BY <1>6, <1>7 DEF k
  <2> QED BY <1>1, <2>1, <2>2, <2>3, QueueKept DEF IndInv, TypeOK
<1> QED BY <1>12, <1>13, <1>14, <1>15 DEF IndInv

\* Elements of a finite set of numbers that have equally many smaller ones are equal.
LEMMA SameRank ==
  ASSUME NEW S, IsFiniteSet(S), S \subseteq Nat, NEW x \in S, NEW y \in S,
         Cardinality({z \in S : z < x}) = Cardinality({z \in S : z < y})
  PROVE  x = y
<1> DEFINE Below(v) == {z \in S : z < v}
<1>1. ASSUME NEW v \in S, NEW w \in S, v < w PROVE Cardinality(Below(v)) < Cardinality(Below(w))
  <2>1. IsFiniteSet(Below(w))
    <3>1. Below(w) \subseteq S OBVIOUS
    <3> QED BY <3>1, FS_Subset
  <2>2. Below(v) \subseteq Below(w)
    <3>1. \A z \in S : z < v => z < w BY <1>1
    <3> QED BY <3>1
  <2>3. v \in Below(w) /\ v \notin Below(v) BY <1>1
  <2>4. Below(v) # Below(w) BY <2>3
  <2> HIDE DEF Below
  <2>5. Cardinality(Below(v)) <= Cardinality(Below(w)) /\ IsFiniteSet(Below(v))
        /\ (Cardinality(Below(v)) = Cardinality(Below(w)) => Below(v) = Below(w))
    BY <2>1, <2>2, FS_Subset
  <2>6. Cardinality(Below(v)) \in Nat /\ Cardinality(Below(w)) \in Nat
    BY <2>1, <2>5, FS_CardinalityType
  <2> QED BY <2>4, <2>5, <2>6
<1>2. IsFiniteSet(Below(x)) /\ IsFiniteSet(Below(y))
  <2>1. Below(x) \subseteq S /\ Below(y) \subseteq S OBVIOUS
  <2> QED BY <2>1, FS_Subset
<1>3. Cardinality(Below(x)) = Cardinality(Below(y)) OBVIOUS
<1>4. x \in Nat /\ y \in Nat OBVIOUS
<1> HIDE DEF Below
<1>5. Cardinality(Below(x)) \in Nat BY <1>2, FS_CardinalityType
<1>6. ~ (x < y) BY <1>1, <1>3, <1>5
<1>7. ~ (y < x) BY <1>1, <1>3, <1>5
<1> QED BY <1>4, <1>6, <1>7

\* A loop of accepts gives every connection one free descriptor, and every
\* descriptor one connection.
LEMMA AcceptsFacts ==
  ASSUME TypeOK, NEW n \in Node
  PROVE  /\ Accepts(n) \subseteq Free(n) \X Backlog(n)
         /\ \A p, r \in Accepts(n) : p[1] = r[1] <=> p[2] = r[2]
<1>1. DOMAIN conn = 1..Len(conn) /\ Len(conn) \in Nat BY LenProperties DEF TypeOK
<1>2. Free(n) \subseteq FD /\ Backlog(n) \subseteq 1..Len(conn) BY <1>1 DEF Free, Backlog
<1>3. IsFiniteSet(FD) /\ FD \subseteq Nat BY Constants, FS_Interval DEF FD
<1>4. IsFiniteSet(1..Len(conn)) /\ 1..Len(conn) \subseteq Nat BY <1>1, FS_Interval
<1>5. IsFiniteSet(Free(n)) /\ IsFiniteSet(Backlog(n)) BY <1>2, <1>3, <1>4, FS_Subset
<1>6. Free(n) \subseteq Nat /\ Backlog(n) \subseteq Nat BY <1>2, <1>3, <1>4
<1>7. ASSUME NEW p \in Accepts(n), NEW r \in Accepts(n) PROVE p[1] = r[1] <=> p[2] = r[2]
  <2>1. /\ p[1] \in Free(n) /\ p[2] \in Backlog(n) /\ r[1] \in Free(n) /\ r[2] \in Backlog(n)
        /\ Cardinality({fd \in Free(n) : fd < p[1]}) = Cardinality({c \in Backlog(n) : c < p[2]})
        /\ Cardinality({fd \in Free(n) : fd < r[1]}) = Cardinality({c \in Backlog(n) : c < r[2]})
    BY DEF Accepts
  <2>2. ASSUME p[1] = r[1] PROVE p[2] = r[2]
    <3>1. Cardinality({c \in Backlog(n) : c < p[2]}) = Cardinality({c \in Backlog(n) : c < r[2]})
      BY <2>1, <2>2
    <3> QED BY <1>5, <1>6, <2>1, <3>1, SameRank
  <2>3. ASSUME p[2] = r[2] PROVE p[1] = r[1]
    <3>1. Cardinality({fd \in Free(n) : fd < p[1]}) = Cardinality({fd \in Free(n) : fd < r[1]})
      BY <2>1, <2>3
    <3> QED BY <1>5, <1>6, <2>1, <3>1, SameRank
  <2> QED BY <2>2, <2>3
<1> QED BY <1>7 DEF Accepts

\* AcceptHandler keeps the invariant.
LEMMA AcceptKeeps ==
  ASSUME IndInv, NEW n \in Node, AcceptHandler(n)
  PROVE  IndInv'
<1> DEFINE opened == {fd \in FD : \E p \in Accepts(n) : p[1] = fd}
           C(fd) == (CHOOSE p \in Accepts(n) : p[1] = fd)[2]
<1>1. /\ Running(n) /\ queue[n] # << >> /\ queue' = Popped(n, << >>)
      /\ conn' = [c \in DOMAIN conn |->
                IF c \in Backlog(n) THEN [conn[c] EXCEPT !.accepted = TRUE] ELSE conn[c]]
      /\ sock' = [sock EXCEPT ![n] = [fd \in FD |->
                IF fd \in opened THEN DataSocket(C(fd)) ELSE sock[n][fd]]]
      /\ tainted' = tainted \cup OpenedOver(n, Accepts(n))
      /\ UNCHANGED << status, recvBuff, wire, sent, handled, cut >>
  BY DEF AcceptHandler, NextIs
<1>2. /\ Accepts(n) \subseteq Free(n) \X Backlog(n)
      /\ \A p, r \in Accepts(n) : p[1] = r[1] <=> p[2] = r[2]
  BY AcceptsFacts DEF IndInv
<1>3. ASSUME NEW fd \in opened
      PROVE  /\ sock[n][fd] = NoSocket
             /\ C(fd) \in DOMAIN conn /\ conn[C(fd)].to = n /\ ~conn[C(fd)].accepted /\ C(fd) \in Backlog(n)
  <2>1. PICK p \in Accepts(n) : p = CHOOSE q \in Accepts(n) : q[1] = fd OBVIOUS
  <2>2. p[1] = fd /\ p[2] = C(fd) BY <2>1
  <2>3. p[1] \in Free(n) /\ p[2] \in Backlog(n) BY <1>2
  <2> QED BY <2>2, <2>3 DEF Free, Backlog
<1>4. ASSUME NEW fd \in opened, NEW g \in opened, C(fd) = C(g) PROVE fd = g
  <2>1. PICK p \in Accepts(n) : p[1] = fd /\ p[2] = C(fd)
    <3>1. \E q \in Accepts(n) : q[1] = fd OBVIOUS
    <3> QED BY <3>1
  <2>2. PICK r \in Accepts(n) : r[1] = g /\ r[2] = C(g)
    <3>1. \E q \in Accepts(n) : q[1] = g OBVIOUS
    <3> QED BY <3>1
  <2> QED BY <1>2, <1>4, <2>1, <2>2
<1>5. opened \subseteq FD OBVIOUS
<1>6. /\ conn \in Seq(Connection) /\ Len(conn) \in Nat /\ DOMAIN conn = 1..Len(conn)
      /\ Len(conn) <= MaxConn
  BY LenProperties DEF IndInv, TypeOK
<1> HIDE DEF opened, C
<1>7. ASSUME NEW c \in DOMAIN conn
      PROVE  /\ conn'[c] \in Connection /\ conn'[c].from = conn[c].from /\ conn'[c].to = conn[c].to
             /\ conn[c].accepted => conn'[c].accepted
             /\ c \in Backlog(n) => conn'[c].accepted
  <2>1. conn[c] \in Connection BY <1>6, ElementOfSeq
  <2>2. CASE c \in Backlog(n)
    <3>1. conn'[c] = [conn[c] EXCEPT !.accepted = TRUE] BY <1>1, <2>2
    <3> QED BY <2>1, <3>1 DEF Connection
  <2>3. CASE c \notin Backlog(n)
    <3>1. conn'[c] = conn[c] BY <1>1, <2>3
    <3> QED BY <2>1, <2>3, <3>1
  <2> QED BY <2>2, <2>3
<1>8. /\ conn' \in Seq(Connection) /\ Len(conn') = Len(conn) /\ DOMAIN conn' = DOMAIN conn
  <2>1. conn' \in [1..Len(conn) -> Connection] BY <1>1, <1>6, <1>7
  <2> QED BY <1>6, <2>1, SeqDef, LenProperties
<1>9. ASSUME NEW fd \in opened
      PROVE  DataSocket(C(fd)) \in Socket /\ DataSocket(C(fd)).type = "data" /\ DataSocket(C(fd)).conn = C(fd)
  <2>1. C(fd) \in 1..MaxConn BY <1>3, <1>6, Constants
  <2> QED BY <2>1, DataSocketType
<1>10. /\ sock' \in [Node -> [FD -> Socket]]
       /\ \A m \in Node : m # n => sock'[m] = sock[m]
       /\ \A fd \in FD : /\ fd \in opened => sock'[n][fd] = DataSocket(C(fd))
                         /\ fd \notin opened => sock'[n][fd] = sock[n][fd]
  <2>1. sock \in [Node -> [FD -> Socket]] BY DEF IndInv, TypeOK
  <2> DEFINE t == [fd \in FD |-> IF fd \in opened THEN DataSocket(C(fd)) ELSE sock[n][fd]]
  <2>2. t \in [FD -> Socket] BY <1>9, <2>1
  <2>3. sock' = [sock EXCEPT ![n] = t] BY <1>1
  <2>4. \A fd \in FD : /\ fd \in opened => t[fd] = DataSocket(C(fd))
                       /\ fd \notin opened => t[fd] = sock[n][fd]
    OBVIOUS
  <2> HIDE DEF t
  <2> QED BY <2>1, <2>2, <2>3, <2>4
<1>11. queue' \in [Node -> Seq(Event)]
  <2>1. Pushes(n, << >>) BY EmptySeq DEF Pushes
  <2> QED BY <1>1, <2>1, PoppedOrder DEF IndInv, TypeOK, QueueFit
<1>12. tainted' \subseteq Stream
  <2>1. \A p \in Accepts(n) : p[2] \in 1..MaxConn
    <3>1. \A p \in Accepts(n) : p[2] \in DOMAIN conn BY <1>2 DEF Backlog
    <3> QED BY <1>6, <3>1, Constants
  <2>2. OpenedOver(n, Accepts(n)) \subseteq Stream BY <2>1 DEF OpenedOver, Stream
  <2> QED BY <1>1, <2>2 DEF IndInv, TypeOK
<1>13. TypeOK' BY <1>1, <1>6, <1>8, <1>10, <1>11, <1>12 DEF IndInv, TypeOK
<1>14. SocketsFit' /\ CutsFit' /\ RestsFit'
  <2>1. DOMAIN conn \subseteq DOMAIN conn' BY <1>8
  <2>2. \A c \in DOMAIN conn : /\ conn'[c].from = conn[c].from /\ conn'[c].to = conn[c].to
                               /\ conn[c].accepted => conn'[c].accepted
    BY <1>7
  <2>3. ASSUME NEW fd \in opened
        PROVE  /\ sock[n][fd] = NoSocket /\ sock'[n][fd].type # "none"
               /\ sock'[n][fd].conn \in DOMAIN conn'
               /\ n \in {conn'[sock'[n][fd].conn].from, conn'[sock'[n][fd].conn].to}
               /\ conn'[sock'[n][fd].conn].to = n => conn'[sock'[n][fd].conn].accepted
               /\ \/ sock'[n][fd].conn \notin DOMAIN conn
                  \/ conn[sock'[n][fd].conn].to = n /\ ~conn[sock'[n][fd].conn].accepted
    <3>1. sock'[n][fd].type = "data" /\ sock'[n][fd].conn = C(fd) BY <1>5, <1>9, <1>10
    <3> QED BY <1>3, <1>7, <1>8, <3>1
  <2>4. ASSUME NEW fd \in opened, NEW g \in opened, sock'[n][fd].conn = sock'[n][g].conn PROVE fd = g
    <3>1. sock'[n][fd].conn = C(fd) /\ sock'[n][g].conn = C(g) BY <1>5, <1>9, <1>10
    <3> QED BY <1>4, <2>4, <3>1
  <2>5. TypeOK /\ SocketsFit /\ CutsFit /\ RestsFit BY DEF IndInv
  <2>6. \A m \in Node, fd \in FD : m # n \/ fd \notin opened => sock'[m][fd] = sock[m][fd] BY <1>10
  <2>7. UNCHANGED << recvBuff, cut >> BY <1>1
  <2> QED BY <1>5, <2>1, <2>2, <2>3, <2>4, <2>5, <2>6, <2>7, SocketsOpen
<1>15. BuffersFit' BY <1>1, BuffersKept DEF IndInv
<1>16. QueueFit'
  <2>1. \A m \in Node : m # n => sock'[m] = sock[m] /\ (Running(m)' => Running(m))
    BY <1>1, <1>10 DEF Running
  <2>2. \A fd \in FD : \/ sock'[n][fd].type = sock[n][fd].type /\ sock'[n][fd].conn = sock[n][fd].conn
                       \/ sock[n][fd].type = "none"
    BY <1>3, <1>10 DEF NoSocket
  <2>3. DOMAIN conn \subseteq DOMAIN conn' BY <1>8
  <2> QED BY <1>1, <2>1, <2>2, <2>3, PoppedNothing
<1> QED BY <1>13, <1>14, <1>15, <1>16 DEF IndInv

-----------------------------------------------------------------------------
(* The invariant and the theorems *)

\* At the start nothing is open, queued or buffered.
LEMMA InitIndInv == ASSUME Init PROVE IndInv
<1>1. TypeOK
  <2>1. NoSocket \in Socket BY Constants, EmptySeq DEF NoSocket, Socket
  <2>2. << >> \in Seq(Event) /\ << >> \in Seq(Connection) /\ << >> \in Seq(Byte) /\ << >> \in Seq(Message)
        /\ Len(<< >>) = 0
    BY EmptySeq
  <2> QED BY <2>1, <2>2, EmptyPipe, Constants DEF Init, EventInit, TypeOK
<1>2. \A n \in Node : DOMAIN queue[n] = {} BY DEF Init, EventInit
<1>3. SocketsFit BY DEF Init, SocketsFit, NoSocket
<1>4. CutsFit BY DEF Init, CutsFit
<1>5. QueueFit BY <1>2 DEF QueueFit, RanksFit, EventsFit, LiveFit, MessagesFit
<1>6. RestsFit BY DEF Init, RestsFit
<1>7. BuffersFit
  <2> SUFFICES ASSUME WholeFrame(<< >>, 0) PROVE FALSE BY DEF Init, BuffersFit
  <2>1. 0 + MagicSize + 1 <= Len(<< >>) BY DEF WholeFrame
  <2> QED BY <2>1, Constants
<1> QED BY <1>1, <1>3, <1>4, <1>5, <1>6, <1>7 DEF IndInv

\* Every step keeps the invariant.
LEMMA NextIndInv == ASSUME IndInv, [Next]_vars PROVE IndInv'
<1>1. CASE UNCHANGED vars
  <2>1. UNCHANGED << queue, status, conn, sock, recvBuff, wire, sent, handled, cut, tainted >>
    BY <1>1 DEF vars
  <2>2. TypeOK' BY <2>1 DEF IndInv, TypeOK
  <2>3. SocketsFit' BY <2>1 DEF IndInv, SocketsFit, ConnOf
  <2>4. CutsFit' BY <2>1 DEF IndInv, CutsFit, ConnOf
  <2>5. QueueFit'
    <3>1. \A m \in Node : Running(m)' => Running(m) BY <2>1 DEF Running
    <3>2. \A m \in Node, fd \in FD : sock'[m][fd].type = sock[m][fd].type /\ sock'[m][fd].conn = sock[m][fd].conn
      BY <2>1
    <3> QED BY <2>1, <3>1, <3>2, QueueKept DEF IndInv, TypeOK
  <2>6. RestsFit' BY <2>1 DEF IndInv, RestsFit, Mapped
  <2>7. BuffersFit' BY <2>1 DEF IndInv, BuffersFit, WholeFrame
  <2> QED BY <2>2, <2>3, <2>4, <2>5, <2>6, <2>7 DEF IndInv
<1>2. CASE Next
  <2>1. PICK n \in Node :
          \/ PollAny(n) \/ Handle(n)
          \/ \E m \in Node : ConnectPeer(n, m)
          \/ \E fd \in FD : SendMsgToPeer(n, fd) \/ DisconnectPeer(n, fd)
          \/ n \in Timed /\ Return(n)
    BY <1>2 DEF Next
  <2>2. CASE PollAny(n) BY <2>2, PollAnyKeeps
  <2>3. CASE AcceptHandler(n) BY <2>3, AcceptKeeps
  <2>4. CASE ConnectHandler(n) BY <2>4, ConnectKeeps
  <2>5. CASE WriteHandler(n) BY <2>5, WriteKeeps
  <2>6. CASE \E len \in 0..Capacity : RecvHandler(n, len) BY <2>6, RecvKeeps
  <2>7. CASE SocketConnectHandler(n) BY <2>7, SocketConnectKeeps
  <2>8. CASE SocketCloseHandler(n) BY <2>8, SocketCloseKeeps
  <2>9. CASE PeerNotifyHandler(n) BY <2>9, PeerNotifyKeeps
  <2>10. CASE RecvMsgHandler(n) BY <2>10, RecvMsgKeeps
  <2>11. CASE ProtocolRecvMsg(n) \/ MiningComplete(n) BY <2>11, UpperKeeps
  <2>12. CASE \E m \in Node : ConnectPeer(n, m) BY <2>12, ConnectPeerKeeps
  <2>13. CASE \E fd \in FD : SendMsgToPeer(n, fd) BY <2>13, SendMsgToPeerKeeps
  <2>14. CASE \E fd \in FD : DisconnectPeer(n, fd) BY <2>14, DisconnectPeerKeeps
  <2>15. CASE Return(n) BY <2>15, ReturnKeeps
  <2>16. CASE ConnectFailedHandler(n) BY <2>16, ConnectFailedKeeps
  <2>17. CASE SocketConnectFailedHandler(n) BY <2>17, SocketConnectFailedKeeps
  <2> QED BY <2>1, <2>2, <2>3, <2>4, <2>5, <2>6, <2>7, <2>8, <2>9, <2>10, <2>11, <2>12, <2>13, <2>14, <2>15,
             <2>16, <2>17
      DEF Handle
<1> QED BY <1>1, <1>2

\* The inductive invariant holds in every state.
THEOREM Invariance == Spec => []IndInv
<1>1. Init => IndInv BY InitIndInv
<1>2. IndInv /\ [Next]_vars => IndInv' BY NextIndInv
<1> QED BY <1>1, <1>2, PTL DEF Spec

\* Every variable has its type: in particular a wire never holds more than the
\* kernel takes, and a queued event names a descriptor and a connection there are.
THEOREM TypeCorrect == Spec => []TypeOK
<1>1. IndInv => TypeOK BY DEF IndInv
<1> QED BY <1>1, Invariance, PTL

\* The events of a round are handled layer by layer, a mined block first
\* (BL_MainEventManager.h, ev_run and PushAsyncEvent), and a failed connect one
\* layer later than its events say (SocketLayer_API.cpp:63): what the layers above
\* rely on when one callback with all that it leads to is one step.
THEOREM RoundsKeepOrder == Spec => []RoundsInOrder
<1>1. IndInv => RoundsInOrder BY DEF IndInv, QueueFit, RanksFit, RoundsInOrder
<1> QED BY <1>1, Invariance, PTL

\* The socket of a queued event is there when it is handled: WriteHandler's exit,
\* "dataSocket not exist for given (write) event", is never taken.
THEOREM EventsFindSockets == Spec => []EventsOfLiveSockets
<1>1. ASSUME IndInv PROVE EventsOfLiveSockets
  <2> SUFFICES ASSUME NEW n \in Node, Running(n), NEW i \in DOMAIN queue[n]
               PROVE  LET e == queue[n][i] IN
                      /\ e.type \in {"SocketRecv", "SocketWrite", "PeerSocketConnect"} => Mapped(n, e.fd)
                      /\ e.type = "SocketConnect" => sock[n][e.fd].type = "connect"
                      /\ e.type = "PeerSocketClose" => sock[n][e.fd].type = "closing"
    <3>1. \A n \in Node : \A e \in ToSet(queue[n]) : \E i \in DOMAIN queue[n] : e = queue[n][i]
      BY DEF ToSet
    <3> QED BY <3>1 DEF EventsOfLiveSockets
  <2> QED BY <1>1 DEF IndInv, QueueFit, LiveFit, Live, Mapped
<1> QED BY <1>1, Invariance, PTL

\* When BL2 handles the end of a connection, none of its messages waits in the
\* queue: none would meet a peer that is gone.
THEOREM ClosesComeLast == Spec => []CloseAfterMessages
<1>1. ASSUME IndInv PROVE CloseAfterMessages
  <2> SUFFICES ASSUME NEW n \in Node, NEW i \in DOMAIN queue[n], NEW j \in DOMAIN queue[n],
                      queue[n][i].type = "PeerSocketClose", queue[n][j].type \in MsgEvents
               PROVE  queue[n][j].conn # ConnOf(n, queue[n][i].fd)
    <3>1. \A n \in Node : \A e \in ToSet(queue[n]) : \E i \in DOMAIN queue[n] : e = queue[n][i]
      BY DEF ToSet
    <3> QED BY <3>1 DEF CloseAfterMessages, MsgEvents
  <2> QED BY <1>1 DEF IndInv, QueueFit, MessagesFit
<1> QED BY <1>1, Invariance, PTL

\* A connection gets bytes of another one only at a node that had disconnected one:
\* RecvHandler clears the buffer of a descriptor at the end of file, DisconnectSocket
\* does not.
THEOREM OnlyDisconnectsTaint == Spec => TaintedByDisconnect
<1>1. ASSUME IndInv, [Next]_vars
      PROVE  \A e \in tainted' \ tainted : \E c \in DOMAIN conn \ {e[1]} : <<c, e[2]>> \in cut
  <2> SUFFICES ASSUME NEW e \in tainted' \ tainted
               PROVE  \E c \in DOMAIN conn \ {e[1]} : <<c, e[2]>> \in cut
    OBVIOUS
  <2>1. ASSUME NEW n \in Node, NEW fd \in FD, ~Mapped(n, fd), recvBuff[n][fd] # << >>
        PROVE  \E c \in DOMAIN conn : /\ <<c, n>> \in cut
                                      /\ conn[c].to = n => conn[c].accepted
                                      /\ sock[n][fd].type # "none" => ConnOf(n, fd) # c
    <3>1. PICK c \in DOMAIN conn : <<c, n>> \in cut BY <1>1, <2>1 DEF IndInv, RestsFit
    <3>2. /\ conn[c].to = n => conn[c].accepted
          /\ \A g \in FD : sock[n][g].type # "none" => ConnOf(n, g) # c
      BY <1>1, <3>1 DEF IndInv, CutsFit
    <3> QED BY <3>1, <3>2
  <2>2. CASE UNCHANGED tainted BY <2>2
  <2>3. ASSUME NEW n \in Node, AcceptHandler(n) PROVE \E c \in DOMAIN conn \ {e[1]} : <<c, e[2]>> \in cut
    <3>1. e \in OpenedOver(n, Accepts(n)) BY <2>3 DEF AcceptHandler
    <3>2. PICK p \in Accepts(n) : e = <<p[2], n>> /\ recvBuff[n][p[1]] # << >> BY <3>1 DEF OpenedOver
    <3>3. p[1] \in Free(n) /\ p[2] \in Backlog(n) BY DEF Accepts
    <3>4. p[1] \in FD /\ sock[n][p[1]] = NoSocket /\ conn[p[2]].to = n /\ ~conn[p[2]].accepted
      BY <3>3 DEF Free, Backlog
    <3>5. ~Mapped(n, p[1]) BY <3>4 DEF Mapped, NoSocket
    <3>6. PICK c \in DOMAIN conn : <<c, n>> \in cut /\ (conn[c].to = n => conn[c].accepted)
      BY <2>1, <3>2, <3>4, <3>5
    <3>7. c # p[2] BY <3>4, <3>6
    <3> QED BY <3>2, <3>6, <3>7
  <2>4. ASSUME NEW n \in Node, ConnectHandler(n) PROVE \E c \in DOMAIN conn \ {e[1]} : <<c, e[2]>> \in cut
    <3> DEFINE fd == Head(queue[n]).fd
    <3>1. /\ Running(n) /\ queue[n] # << >> /\ Head(queue[n]).type = "SocketConnect"
          /\ e \in OpenedOver(n, {<<fd, ConnOf(n, fd)>>})
      BY <2>4 DEF ConnectHandler, ConnectFails, NextIs
    <3>2. fd \in FD BY <1>1, <3>1, HeadFacts, EventFacts DEF SocketEvents
    <3>3. sock[n][fd].type = "connect" BY <1>1, <3>1, HeadFacts DEF Live
    <3> HIDE DEF fd
    <3>4. e = <<ConnOf(n, fd), n>> /\ recvBuff[n][fd] # << >> BY <3>1 DEF OpenedOver
    <3>5. ~Mapped(n, fd) BY <3>3 DEF Mapped
    <3>6. PICK c \in DOMAIN conn : <<c, n>> \in cut /\ ConnOf(n, fd) # c BY <2>1, <3>2, <3>3, <3>4, <3>5
    <3> QED BY <3>4, <3>6
  <2>5. CASE \A n \in Node : ~AcceptHandler(n) /\ ~ConnectHandler(n)
    <3>1. UNCHANGED tainted
      <4>1. CASE UNCHANGED vars BY <4>1 DEF vars
      <4>2. CASE Next
        BY <2>5, <4>2, ZenonT(60) DEF Next, Handle, PollAny, Poll, ConnectFailedHandler,
           SocketConnectFailedHandler, WriteHandler, RecvHandler, SocketConnectHandler,
           SocketCloseHandler, PeerNotifyHandler, RecvMsgHandler, ProtocolRecvMsg, MiningComplete,
           ConnectPeer, SendMsgToPeer, DisconnectPeer, Return, history
      <4> QED BY <1>1, <4>1, <4>2
    <3> QED BY <2>2, <3>1
  <2> QED BY <2>3, <2>4, <2>5
<1> QED BY <1>1, Invariance, PTL DEF Spec, TaintedByDisconnect

\* A data socket is given up for its close only by a read that returned 0, which
\* took all that was on the wire.
LEMMA ClosingStep ==
  ASSUME IndInv, [Next]_vars, NEW n \in Node, NEW fd \in FD,
         sock[n][fd].type = "data", sock'[n][fd].type = "closing"
  PROVE  ReadsToEnd(n, fd, Len(wire[<<ConnOf(n, fd), n>>]))
<1>1. sock \in [Node -> [FD -> Socket]] /\ sock[n][fd] \in Socket BY DEF IndInv, TypeOK
<1>2. sock' # sock OBVIOUS
<1>3. Next BY <1>2 DEF vars
<1>4. PICK k \in Node :
        \/ PollAny(k) \/ Handle(k)
        \/ \E m \in Node : ConnectPeer(k, m)
        \/ \E g \in FD : SendMsgToPeer(k, g) \/ DisconnectPeer(k, g)
        \/ k \in Timed /\ Return(k)
  BY <1>3 DEF Next
<1>5. ASSUME NEW g, NEW size, SendMsg(k, g, size) PROVE FALSE
  <2> DEFINE b == sock[k][g].send \o Frame([conn |-> ConnOf(k, g),
                     num |-> Len(sent[<<ConnOf(k, g), Far(ConnOf(k, g), k)>>]) + 1, size |-> size])
  <2>1. sock' = [sock EXCEPT ![k][g].send = b, ![k][g].writable = TRUE] BY <1>5 DEF SendMsg
  <2> HIDE DEF b
  <2>2. sock'[n][fd].type = sock[n][fd].type BY <1>1, <2>1 DEF Socket
  <2> QED BY <2>2
<1>6. ASSUME NEW g, sock' = [sock EXCEPT ![k][g] = NoSocket] PROVE FALSE
  <2>1. sock'[n][fd] = sock[n][fd] \/ sock'[n][fd] = NoSocket BY <1>1, <1>6
  <2> QED BY <2>1 DEF NoSocket
<1>7. ASSUME NEW g, NEW c, sock' = [sock EXCEPT ![k][g] = DataSocket(c)] PROVE FALSE
  <2>1. sock'[n][fd] = sock[n][fd] \/ sock'[n][fd] = DataSocket(c) BY <1>1, <1>7
  <2> QED BY <2>1 DEF DataSocket, NoSocket
<1>8. CASE \/ PollAny(k) \/ ConnectFailedHandler(k) \/ SocketConnectFailedHandler(k)
           \/ RecvMsgHandler(k) \/ ProtocolRecvMsg(k) \/ MiningComplete(k) \/ Return(k)
  BY <1>2, <1>8 DEF PollAny, Poll, ConnectFailedHandler, SocketConnectFailedHandler, RecvMsgHandler, ProtocolRecvMsg, MiningComplete, Return, ioVars
<1>9. CASE AcceptHandler(k)
  <2> DEFINE C(g) == (CHOOSE p \in Accepts(k) : p[1] = g)[2]
             t == [g \in FD |-> IF \E p \in Accepts(k) : p[1] = g THEN DataSocket(C(g)) ELSE sock[k][g]]
  <2>1. sock' = [sock EXCEPT ![k] = t] BY <1>9 DEF AcceptHandler
  <2>2. sock'[n][fd] = sock[n][fd] \/ \E c : sock'[n][fd] = DataSocket(c)
    <3>1. t[fd] = sock[k][fd] \/ t[fd] = DataSocket(C(fd)) OBVIOUS
    <3> HIDE DEF t, C
    <3> QED BY <1>1, <2>1, <3>1
  <2> QED BY <2>2 DEF DataSocket, NoSocket
<1>10. CASE ConnectHandler(k) BY <1>6, <1>7, <1>10 DEF ConnectHandler, ConnectFails
<1>11. CASE WriteHandler(k)
  <2> DEFINE g == Head(queue[k]).fd
             free == Capacity - Len(wire[<<ConnOf(k, g), Far(ConnOf(k, g), k)>>])
             b == SubSeq(sock[k][g].send, free + 1, Len(sock[k][g].send))
             w == ~AllSent(b)
  <2>1. sock' = sock \/ sock' = [sock EXCEPT ![k][g].send = b, ![k][g].writable = w]
    BY <1>11 DEF WriteHandler
  <2> HIDE DEF g, b, w
  <2> DEFINE new == [sock[k][g] EXCEPT !.send = b, !.writable = w]
  <2>2. CASE n = k /\ fd = g
    <3>1. new.type = sock[n][fd].type BY <1>1, <2>2 DEF Socket
    <3>2. sock' = sock \/ sock' = [sock EXCEPT ![k] = [sock[k] EXCEPT ![g] = new]] BY <1>1, <2>1, <2>2
    <3> HIDE DEF new
    <3>3. sock'[n][fd] = sock[n][fd] \/ sock'[n][fd] = new BY <1>1, <2>2, <3>2
    <3> QED BY <3>1, <3>3
  <2>3. CASE ~ (n = k /\ fd = g)
    <3> HIDE DEF new
    <3>1. sock'[n][fd] = sock[n][fd] BY <1>1, <2>1, <2>3
    <3> QED BY <3>1
  <2> QED BY <2>2, <2>3
<1>12. CASE \E len \in 0..Capacity : RecvHandler(k, len)
  <2>1. PICK len \in 0..Capacity : RecvHandler(k, len) BY <1>12
  <2> DEFINE g == Head(queue[k]).fd
  <2>2. ReadsToEnd(k, g, len) /\ EndOfFile(k, g)
    BY <1>2, <2>1 DEF RecvHandler, Parse
  <2> HIDE DEF g
  <2>3. sock' = [sock EXCEPT ![k][g].type = "closing"] BY <2>2 DEF EndOfFile
  <2>4. n = k /\ fd = g
    <3>1. ~ (n = k /\ fd = g) => sock'[n][fd] = sock[n][fd] BY <1>1, <2>3
    <3> QED BY <3>1
  <2>5. len = Len(wire[<<ConnOf(n, fd), n>>]) BY <2>2, <2>4 DEF ReadsToEnd
  <2> QED BY <2>2, <2>4, <2>5
<1>13. CASE SocketConnectHandler(k) BY <1>5, <1>13 DEF SocketConnectHandler
<1>14. CASE SocketCloseHandler(k) BY <1>6, <1>14 DEF SocketCloseHandler
<1>15. CASE PeerNotifyHandler(k) BY <1>2, <1>6, <1>15 DEF PeerNotifyHandler, DisconnectSocket
<1>16. CASE \E m \in Node : ConnectPeer(k, m)
  <2>1. PICK m \in Node : ConnectPeer(k, m) BY <1>16
  <2> DEFINE s == [NoSocket EXCEPT !.type = "connect", !.conn = Len(conn) + 1]
  <2>2. PICK g \in Free(k) : sock' = [sock EXCEPT ![k][g] = s] BY <2>1 DEF ConnectPeer
  <2>3. s.type = "connect" BY DEF NoSocket
  <2> HIDE DEF s
  <2>4. sock'[n][fd] = sock[n][fd] \/ sock'[n][fd] = s BY <1>1, <2>2
  <2> QED BY <2>3, <2>4
<1>17. CASE \E g \in FD : SendMsgToPeer(k, g) BY <1>5, <1>17 DEF SendMsgToPeer
<1>18. CASE \E g \in FD : DisconnectPeer(k, g) BY <1>6, <1>18 DEF DisconnectPeer, DisconnectSocket
<1> QED BY <1>4, <1>8, <1>9, <1>10, <1>11, <1>12, <1>13, <1>14, <1>15, <1>16, <1>17, <1>18 DEF Handle

\* Messages that arrived whole before the close of the other end are lost only when
\* the last read filled the buffer ("if (n == 2000) continue"): then the end of file
\* is read before anything was parsed.
THEOREM OnlyFullReadsLose == Spec => LostOnlyAfterFullRead
<1>1. ASSUME IndInv, [Next]_vars
      PROVE  \A n \in Node : \A fd \in FD :
               LET came == wire[<<ConnOf(n, fd), n>>] IN
               /\ Mapped(n, fd) /\ sock'[n][fd].type = "closing"
               /\ WholeFrame(recvBuff[n][fd] \o came, 0)
               => came # << >> /\ Len(came) % ReadSize = 0
  <2> SUFFICES ASSUME NEW n \in Node, NEW fd \in FD,
                      sock[n][fd].type = "data", sock'[n][fd].type = "closing",
                      WholeFrame(recvBuff[n][fd] \o wire[<<ConnOf(n, fd), n>>], 0)
               PROVE  /\ wire[<<ConnOf(n, fd), n>>] # << >>
                      /\ Len(wire[<<ConnOf(n, fd), n>>]) % ReadSize = 0
    BY DEF Mapped
  <2>1. Len(wire[<<ConnOf(n, fd), n>>]) % ReadSize = 0
    BY <1>1, ClosingStep DEF ReadsToEnd
  <2>2. ASSUME wire[<<ConnOf(n, fd), n>>] = << >> PROVE FALSE
    <3>1. recvBuff[n][fd] \in Seq(Byte) BY <1>1 DEF IndInv, TypeOK
    <3>2. recvBuff[n][fd] \o << >> = recvBuff[n][fd] BY <3>1, ConcatEmptySeq
    <3>3. WholeFrame(recvBuff[n][fd], 0) BY <2>2, <3>2
    <3> QED BY <1>1, <3>3 DEF IndInv, BuffersFit
  <2> QED BY <2>1, <2>2
<1> QED BY <1>1, Invariance, PTL DEF Spec, LostOnlyAfterFullRead

=============================================================================
