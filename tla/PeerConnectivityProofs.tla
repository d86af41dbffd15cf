------------------------ MODULE PeerConnectivityProofs ------------------------
(***************************************************************************)
(* Proofs about PeerConnectivity: what the counters, the peer table and    *)
(* the sockets have to do with each other, and what ends a process.        *)
(***************************************************************************)
EXTENDS PeerConnectivity, SequenceTheorems, FiniteSetTheorems,
        NaturalsInduction, TLAPS

-----------------------------------------------------------------------------
(* The table of connections *)

Msg == {"notifyPeerId", "PING", "PONG"}
Connection == [from : Node, to : Node, accepted : BOOLEAN, closed : SUBSET Node,
               stream : [Node -> Seq(Msg)]]
Holds(s, msg) == \E i \in DOMAIN s : s[i] = msg

\* Table D has the connections of C, with the same ends.
SameEnds(C, D) ==
  /\ D \in Seq(Connection)
  /\ DOMAIN D = DOMAIN C
  /\ \A c \in DOMAIN C : /\ D[c].from = C[c].from /\ D[c].to = C[c].to
                         /\ D[c].accepted = C[c].accepted

\* A table is a function on 1..Len.
LEMMA TableFacts ==
  ASSUME NEW C \in Seq(Connection)
  PROVE  /\ Len(C) \in Nat /\ DOMAIN C = 1..Len(C)
         /\ \A c \in DOMAIN C : C[c] \in Connection
  BY LenProperties

\* The same connections are equally many.
LEMMA SameLength ==
  ASSUME NEW C \in Seq(Connection), NEW D, SameEnds(C, D)
  PROVE  Len(D) = Len(C)
<1> DEFINE a == Len(C)
           b == Len(D)
<1>1. a \in Nat /\ b \in Nat /\ DOMAIN C = 1..a /\ DOMAIN D = 1..b
  BY TableFacts DEF SameEnds
<1>2. 1..a = 1..b BY <1>1 DEF SameEnds
<1> HIDE DEF a, b
<1>3. ~(a < b)
  <2> SUFFICES ASSUME a < b PROVE FALSE OBVIOUS
  <2>1. b \in 1..b /\ b \notin 1..a BY <1>1
  <2> QED BY <1>2, <2>1
<1>4. ~(b < a)
  <2> SUFFICES ASSUME b < a PROVE FALSE OBVIOUS
  <2>1. a \in 1..a /\ a \notin 1..b BY <1>1
  <2> QED BY <1>2, <2>1
<1>5. a = b BY <1>1, <1>3, <1>4
<1> QED BY <1>5 DEF a, b

\* A table that is defined connection by connection over another one.
LEMMA TableOver ==
  ASSUME NEW C \in Seq(Connection), NEW D, NEW e(_), D = [c \in DOMAIN C |-> e(c)],
         \A c \in DOMAIN C : e(c) \in Connection
  PROVE  D \in Seq(Connection) /\ DOMAIN D = DOMAIN C
<1>1. Len(C) \in Nat /\ DOMAIN C = 1..Len(C) BY TableFacts
<1>2. [c \in 1..Len(C) |-> e(c)] \in Seq(Connection) BY <1>1, IsASeq
<1> QED BY <1>1, <1>2

\* What Append, Head and Tail do to the messages of a stream.
LEMMA StreamFacts ==
  ASSUME NEW s \in Seq(Msg)
  PROVE  /\ \A m \in Msg : /\ Append(s, m) \in Seq(Msg)
                           /\ \A x \in Msg : Holds(Append(s, m), x) <=> Holds(s, x) \/ x = m
         /\ s # << >> => /\ Tail(s) \in Seq(Msg)
                         /\ Holds(s, Head(s))
                         /\ \A x \in Msg : Holds(Tail(s), x) => Holds(s, x)
         /\ << >> \in Seq(Msg) /\ \A x \in Msg : ~Holds(<< >>, x)
<1>1. Len(s) \in Nat /\ DOMAIN s = 1..Len(s) BY LenProperties
<1>2. << >> \in Seq(Msg) /\ \A x \in Msg : ~Holds(<< >>, x)
  BY EmptySeq DEF Holds
<1>3. ASSUME NEW m \in Msg
      PROVE  /\ Append(s, m) \in Seq(Msg)
             /\ \A x \in Msg : Holds(Append(s, m), x) <=> Holds(s, x) \/ x = m
  <2> DEFINE a == Append(s, m)
  <2>1. /\ a \in Seq(Msg) /\ Len(a) = Len(s) + 1
        /\ \A i \in 1..Len(s) : a[i] = s[i]
        /\ a[Len(s) + 1] = m
    BY AppendProperties
  <2>2. DOMAIN a = 1..(Len(s) + 1) BY <2>1, LenProperties
  <2> HIDE DEF a
  <2>3. \A x \in Msg : Holds(a, x) <=> Holds(s, x) \/ x = m
    BY <1>1, <2>1, <2>2 DEF Holds
  <2> QED BY <2>1, <2>3 DEF a
<1>4. ASSUME s # << >>
      PROVE  /\ Tail(s) \in Seq(Msg)
             /\ Holds(s, Head(s))
             /\ \A x \in Msg : Holds(Tail(s), x) => Holds(s, x)
  <2> DEFINE t == Tail(s)
  <2>1. /\ t \in Seq(Msg) /\ Len(t) = Len(s) - 1
        /\ \A i \in 1..Len(t) : t[i] = s[i + 1]
    BY <1>4, HeadTailProperties
  <2>2. Len(s) # 0 /\ Head(s) = s[1]
    BY <1>1, <1>4, EmptySeq
  <2>3. DOMAIN t = 1..Len(t) BY <2>1, LenProperties
  <2> HIDE DEF t
  <2>4. Holds(s, Head(s)) BY <1>1, <2>2 DEF Holds
  <2>5. \A x \in Msg : Holds(t, x) => Holds(s, x)
    BY <1>1, <2>1, <2>2, <2>3 DEF Holds
  <2> QED BY <2>1, <2>4, <2>5 DEF t
<1> QED BY <1>2, <1>3, <1>4

\* Closing the ends of n of the connections in L.
LEMMA ClosedFacts ==
  ASSUME NEW C \in Seq(Connection), NEW n \in Node, NEW L
  PROVE  /\ SameEnds(C, Closed(C, n, L))
         /\ \A c \in DOMAIN C : \A x \in Node :
              /\ x \in Closed(C, n, L)[c].closed <=> x \in C[c].closed \/ (c \in L /\ x = n)
              /\ Closed(C, n, L)[c].stream[x] = IF c \in L /\ x = n THEN << >> ELSE C[c].stream[x]
<1> DEFINE e(c) == IF c \in L
                   THEN [C[c] EXCEPT !.closed = @ \cup {n}, !.stream[n] = << >>]
                   ELSE C[c]
           D == Closed(C, n, L)
<1>1. D = [c \in DOMAIN C |-> e(c)] BY DEF Closed
<1>2. \A c \in DOMAIN C : C[c] \in Connection BY TableFacts
<1>3. << >> \in Seq(Msg) BY EmptySeq
<1>4. \A c \in DOMAIN C :
        /\ e(c) \in Connection
        /\ e(c).from = C[c].from /\ e(c).to = C[c].to /\ e(c).accepted = C[c].accepted
        /\ \A x \in Node :
             /\ x \in e(c).closed <=> x \in C[c].closed \/ (c \in L /\ x = n)
             /\ e(c).stream[x] = IF c \in L /\ x = n THEN << >> ELSE C[c].stream[x]
  BY <1>2, <1>3 DEF Connection
<1>5. \A c \in DOMAIN C : D[c] = e(c) BY <1>1
<1> HIDE DEF D, e
<1>6. D \in Seq(Connection) /\ DOMAIN D = DOMAIN C BY <1>1, <1>4, TableOver
<1> QED BY <1>4, <1>5, <1>6 DEF SameEnds, D

\* Sending msg over the connections in L, whose ends are those of conn.
LEMMA SentFacts ==
  ASSUME NEW C \in Seq(Connection), NEW n \in Node, NEW L, NEW msg \in Msg,
         \A c \in DOMAIN C : Far(c, n) \in Node
  PROVE  /\ SameEnds(C, Sent(C, n, L, msg))
         /\ \A c \in DOMAIN C : \A x \in Node :
              /\ x \in Sent(C, n, L, msg)[c].closed <=> x \in C[c].closed
              /\ \/ Sent(C, n, L, msg)[c].stream[x] = C[c].stream[x]
                 \/ /\ c \in L /\ x = Far(c, n)
                    /\ Sent(C, n, L, msg)[c].stream[x] = Append(C[c].stream[x], msg)
<1> DEFINE e(c) == IF c \in L /\ Far(c, n) \notin C[c].closed /\ Running(Far(c, n))
                   THEN [C[c] EXCEPT !.stream[Far(c, n)] = Append(@, msg)]
                   ELSE C[c]
           D == Sent(C, n, L, msg)
<1>1. D = [c \in DOMAIN C |-> e(c)] BY DEF Sent
<1>2. \A c \in DOMAIN C : C[c] \in Connection BY TableFacts
<1>3. \A s \in Seq(Msg) : Append(s, msg) \in Seq(Msg) BY StreamFacts
<1>4. ASSUME NEW c \in DOMAIN C
      PROVE  /\ e(c) \in Connection
             /\ e(c).from = C[c].from /\ e(c).to = C[c].to /\ e(c).accepted = C[c].accepted
             /\ \A x \in Node :
                  /\ x \in e(c).closed <=> x \in C[c].closed
                  /\ \/ e(c).stream[x] = C[c].stream[x]
                     \/ /\ c \in L /\ x = Far(c, n)
                        /\ e(c).stream[x] = Append(C[c].stream[x], msg)
  <2> DEFINE y == Far(c, n)
  <2>1. y \in Node OBVIOUS
  <2> HIDE DEF y
  <2> DEFINE v == [C[c] EXCEPT !.stream[y] = Append(@, msg)]
  <2>2. /\ v \in Connection
        /\ v.from = C[c].from /\ v.to = C[c].to /\ v.accepted = C[c].accepted
        /\ v.closed = C[c].closed
        /\ \A x \in Node : v.stream[x] = IF x = y THEN Append(C[c].stream[x], msg)
                                         ELSE C[c].stream[x]
    BY <1>2, <1>3, <2>1 DEF Connection
  <2>3. CASE c \in L /\ y \notin C[c].closed /\ Running(y)
    <3>1. e(c) = v BY <2>3 DEF y
    <3> HIDE DEF e, v
    <3> QED BY <2>2, <2>3, <3>1 DEF y
  <2>4. CASE ~(c \in L /\ y \notin C[c].closed /\ Running(y))
    <3>1. e(c) = C[c] BY <2>4 DEF y
    <3> HIDE DEF e
    <3> QED BY <1>2, <3>1
  <2> QED BY <2>3, <2>4
<1>5. \A c \in DOMAIN C : D[c] = e(c) BY <1>1
<1> HIDE DEF D, e
<1>6. D \in Seq(Connection) /\ DOMAIN D = DOMAIN C BY <1>1, <1>4, TableOver
<1> QED BY <1>4, <1>5, <1>6 DEF SameEnds, D

\* Taking the first message of a stream.
LEMMA TakenFacts ==
  ASSUME conn \in Seq(Connection), NEW n \in Node, NEW fd, ConnOf(n, fd) \in DOMAIN conn,
         conn[ConnOf(n, fd)].stream[n] # << >>
  PROVE  /\ SameEnds(conn, Taken(n, fd))
         /\ \A c \in DOMAIN conn : \A x \in Node :
              /\ x \in Taken(n, fd)[c].closed <=> x \in conn[c].closed
              /\ Taken(n, fd)[c].stream[x] = IF c = ConnOf(n, fd) /\ x = n
                                             THEN Tail(conn[c].stream[x]) ELSE conn[c].stream[x]
<1> DEFINE k == ConnOf(n, fd)
           v == [conn[k] EXCEPT !.stream[n] = Tail(@)]
           D == [conn EXCEPT ![k] = v]
<1>1. D = Taken(n, fd) BY DEF Taken
<1>2. \A c \in DOMAIN conn : conn[c] \in Connection BY TableFacts
<1>3. k \in DOMAIN conn /\ conn[k].stream[n] # << >> OBVIOUS
<1> HIDE DEF k
<1>4. conn[k].stream \in [Node -> Seq(Msg)] BY <1>2, <1>3 DEF Connection
<1>5. Tail(conn[k].stream[n]) \in Seq(Msg) BY <1>3, <1>4, StreamFacts
<1>6. /\ v \in Connection
      /\ v.from = conn[k].from /\ v.to = conn[k].to /\ v.accepted = conn[k].accepted
      /\ v.closed = conn[k].closed
      /\ \A x \in Node :
           v.stream[x] = IF x = n THEN Tail(conn[k].stream[x]) ELSE conn[k].stream[x]
  BY <1>2, <1>3, <1>4, <1>5 DEF Connection
<1> HIDE DEF v
<1>7. k \in 1..Len(conn) BY <1>3, TableFacts
<1>8. D \in Seq(Connection) BY <1>6, <1>7, ExceptSeq
<1>9. DOMAIN D = DOMAIN conn /\ \A c \in DOMAIN conn : D[c] = IF c = k THEN v ELSE conn[c]
  OBVIOUS
<1> HIDE DEF D
<1> QED
  <2>1. SameEnds(conn, D) BY <1>6, <1>8, <1>9 DEF SameEnds
  <2>2. \A c \in DOMAIN conn : \A x \in Node :
              /\ x \in D[c].closed <=> x \in conn[c].closed
              /\ D[c].stream[x] = IF c = k /\ x = n
                                  THEN Tail(conn[c].stream[x]) ELSE conn[c].stream[x]
    BY <1>6, <1>9
  <2> QED BY <1>1, <2>1, <2>2 DEF k

\* Marking a connection as accepted.
LEMMA AcceptedFacts ==
  ASSUME conn \in Seq(Connection), NEW k \in DOMAIN conn,
         conn' = [conn EXCEPT ![k].accepted = TRUE]
  PROVE  /\ conn' \in Seq(Connection) /\ DOMAIN conn' = DOMAIN conn
         /\ \A c \in DOMAIN conn :
              /\ conn'[c].from = conn[c].from /\ conn'[c].to = conn[c].to
              /\ conn'[c].accepted = IF c = k THEN TRUE ELSE conn[c].accepted
              /\ conn'[c].closed = conn[c].closed /\ conn'[c].stream = conn[c].stream
<1> DEFINE v == [conn[k] EXCEPT !.accepted = TRUE]
<1>1. \A c \in DOMAIN conn : conn[c] \in Connection BY TableFacts
<1>2. /\ v \in Connection
      /\ v.from = conn[k].from /\ v.to = conn[k].to /\ v.accepted = TRUE
      /\ v.closed = conn[k].closed /\ v.stream = conn[k].stream
  BY <1>1 DEF Connection
<1>3. conn' = [conn EXCEPT ![k] = v] OBVIOUS
<1> HIDE DEF v
<1>4. k \in 1..Len(conn) BY TableFacts
<1>5. [conn EXCEPT ![k] = v] \in Seq(Connection) BY <1>2, <1>4, ExceptSeq
<1>6. DOMAIN conn' = DOMAIN conn /\ \A c \in DOMAIN conn : conn'[c] = IF c = k THEN v ELSE conn[c]
  BY <1>3
<1> QED BY <1>1, <1>2, <1>3, <1>5, <1>6

\* A new connection.
Dial(n, m) == [from |-> n, to |-> m, accepted |-> FALSE, closed |-> {},
               stream |-> [x \in Node |-> << >>]]
\* The table after a connect: the old connections and a new one.
LEMMA AppendedFacts ==
  ASSUME conn \in Seq(Connection), NEW n \in Node, NEW m \in Node, NEW D,
         D = Append(conn, Dial(n, m))
  PROVE  /\ D \in Seq(Connection) /\ Len(D) = Len(conn) + 1
         /\ DOMAIN D = DOMAIN conn \cup {Len(conn) + 1}
         /\ Len(conn) + 1 \notin DOMAIN conn
         /\ \A c \in DOMAIN conn : D[c] = conn[c]
         /\ D[Len(conn) + 1] = Dial(n, m)
<1>1. << >> \in Seq(Msg) BY EmptySeq
<1>2. Dial(n, m) \in Connection BY <1>1 DEF Dial, Connection
<1>3. Len(conn) \in Nat /\ DOMAIN conn = 1..Len(conn) BY TableFacts
<1>4. /\ D \in Seq(Connection) /\ Len(D) = Len(conn) + 1
      /\ \A i \in 1..Len(conn) : D[i] = conn[i]
      /\ D[Len(conn) + 1] = Dial(n, m)
  BY <1>2, AppendProperties
<1>5. DOMAIN D = 1..Len(D) BY <1>4, TableFacts
<1> QED BY <1>3, <1>4, <1>5

-----------------------------------------------------------------------------
(* What a step may be *)

Opens(n, m) == Running(n) /\ m # n /\ m \notin Peers(n) /\ ConnectPeer(n, m)
Drops(n, m) == Running(n) /\ m \in Peers(n) /\ DisconnectPeers(n, {m}, peers[n])
Answered(n, fd) ==
  /\ Receives(n, fd, "PONG")
  /\ Far(ConnOf(n, fd), n) \in Peers(n)
  /\ peers' = [peers EXCEPT ![n][Far(ConnOf(n, fd), n)].pongReceived = TRUE]
  /\ conn' = Taken(n, fd)
  /\ UNCHANGED << sock, status, inPeerNum, outPeerNum, addrs, failed >>
Pings(n) ==
  LET late == {m \in Peers(n) : ~peers[n][m].pongReceived}
      F == {SocketOfPeer(n, m) : m \in late}
  IN
  /\ Running(n) /\ late \cap Lost(n) = {}
  /\ conn' = SendMsgToPeers(Closed(conn, n, {ConnOf(n, fd) : fd \in F}), peers[n],
                            n, Peers(n) \ late, "PING")
  /\ sock' = [sock EXCEPT ![n] = [fd \in FD |-> IF fd \in F THEN NoSocket ELSE @[fd]]]
  /\ RemovePeers(n, late, Asked(n))
  /\ UNCHANGED << status, addrs, failed >>

\* Why a process ends, where a property asks for it.
Cause(n, why) ==
  /\ why \in HowItEnds \ {"running"}
  /\ why = "noProperPeer" =>
       \E fd \in FD : sock[n][fd].type = "connect" /\ Owners(n, fd) = {}
  /\ why = "noPeerForPong" =>
       \E fd \in FD : Receives(n, fd, "PONG") /\ Far(ConnOf(n, fd), n) \notin Peers(n)
  /\ why \in {"noDataSocket", "toBeImplemented"} => Lost(n) # {}
Ends(n, why) ==
  /\ Running(n) /\ Cause(n, why)
  /\ \E must : Stop(n, why, must)
  /\ UNCHANGED << peers, inPeerNum, outPeerNum, addrs, failed >>

OnSocket(n, fd) ==
  \/ SocketConnect(n, fd) \/ SocketConnectFailed(n, fd) \/ SocketClose(n, fd)
  \/ PeerNotify(n, fd) \/ RecvPing(n, fd) \/ Answered(n, fd)
Step(n) ==
  \/ \E m \in Node : Opens(n, m) \/ Drops(n, m) \/ RecvAddr(n, m)
  \/ \E why \in HowItEnds : Ends(n, why)
  \/ \E c \in DOMAIN conn : Accept(n, c)
  \/ \E fd \in FD : OnSocket(n, fd)
  \/ Pings(n)

\* No node is a peer of itself or knows its own address.
NoSelf == \A n \in Node : peers[n][n] = NoPeer /\ n \notin addrs[n]

\* Whatever takes down a process, takes it down as Ends says.
LEMMA EndsFacts ==
  ASSUME NEW n \in Node, NEW why, Running(n), Cause(n, why), Abort(n, why)
  PROVE  \E w \in HowItEnds : Ends(n, w)
<1>1. \E must : Stop(n, why, must)
  BY DEF Abort
<1> QED BY <1>1 DEF Abort, Ends, Cause

\* A step of the system is one of these.
LEMMA NextForms ==
  ASSUME Next, NoSelf, addrs \in [Node -> SUBSET Node]
  PROVE  \E n \in Node : Step(n)
<1>1. PICK n \in Node :
        \/ Program(n) \/ Connects(n) \/ Accepts(n) \/ Hears(n)
        \/ \E fd \in FD : Receive(n, fd)
        \/ PingTimer(n) \/ ConnectionTimer(n)
  BY DEF Next
<1>a. ASSUME \E w \in HowItEnds : Ends(n, w) PROVE Step(n) BY <1>a DEF Step
<1>2. CASE Program(n)
  <2>1. ASSUME NEW m \in Node, ProgramConnects(n, m) PROVE Step(n)
    <3>1. m # n BY <2>1, PeerAssumption DEF ProgramConnects
    <3> QED BY <2>1, <3>1 DEF ProgramConnects, Opens, Step
  <2>2. ASSUME NEW m \in Node, ProgramDisconnects(n, m) PROVE Step(n)
    <3>1. CASE DisconnectPeers(n, {m}, peers[n])
      BY <2>2, <3>1 DEF ProgramDisconnects, Drops, Step
    <3>2. CASE DisconnectAborts(n, {m})
      <4>1. Cause(n, "noDataSocket")
        BY <3>2 DEF DisconnectAborts, Cause, HowItEnds
      <4> QED BY <1>a, <2>2, <3>2, <4>1, EndsFacts DEF DisconnectAborts, ProgramDisconnects
    <3> QED BY <2>2, <3>1, <3>2 DEF ProgramDisconnects
  <2>3. CASE Shutdown(n)
    <3>1. CASE DisconnectAborts(n, Peers(n))
      <4>1. Cause(n, "noDataSocket")
        BY <3>1 DEF DisconnectAborts, Cause, HowItEnds
      <4> QED BY <1>a, <2>3, <3>1, <4>1, EndsFacts DEF DisconnectAborts, Shutdown
    <3>2. CASE ~DisconnectAborts(n, Peers(n))
      <4>1. Cause(n, "exited") BY DEF Cause, HowItEnds
      <4>2. /\ Running(n)
            /\ Stop(n, "exited", {ConnOf(n, SocketOfPeer(n, m)) : m \in Peers(n)})
            /\ UNCHANGED << peers, inPeerNum, outPeerNum, addrs, failed >>
        BY <2>3, <3>2 DEF Shutdown
      <4>3. \E must : Stop(n, "exited", must) BY <4>2
      <4> QED BY <1>a, <4>1, <4>2, <4>3 DEF Ends, HowItEnds
    <3> QED BY <3>1, <3>2
  <2>4. CASE Exit(n)
    <3>1. Cause(n, "exited") BY DEF Cause, HowItEnds
    <3>2. \E must : Stop(n, "exited", must) BY <2>4 DEF Exit
    <3> QED BY <1>a, <2>4, <3>1, <3>2 DEF Ends, HowItEnds, Exit
  <2> QED BY <1>2, <2>1, <2>2, <2>3, <2>4 DEF Program
<1>3. CASE Connects(n)
  <2>1. PICK fd \in FD : \/ SocketConnect(n, fd) \/ SocketConnectAborts(n, fd)
                         \/ SocketConnectFailed(n, fd) \/ SocketConnectFailedAborts(n, fd)
                         \/ SocketConnectErrorMissed(n, fd)
    BY <1>3 DEF Connects
  <2>2. CASE SocketConnect(n, fd) \/ SocketConnectFailed(n, fd)
    BY <2>2 DEF Step, OnSocket
  <2>3. CASE SocketConnectAborts(n, fd)
    <3>1. Cause(n, "noProperPeer")
      BY <2>3 DEF SocketConnectAborts, CanConnect, Cause, HowItEnds
    <3> QED BY <1>a, <2>3, <3>1, EndsFacts DEF SocketConnectAborts
  <2>4. CASE SocketConnectFailedAborts(n, fd)
    <3>1. Cause(n, "failedForValidPeer") /\ Cause(n, "nullSocket") BY DEF Cause, HowItEnds
    <3> QED BY <1>a, <2>4, <3>1, EndsFacts DEF SocketConnectFailedAborts, ConnectFails
  <2>5. CASE SocketConnectErrorMissed(n, fd)
    <3>1. Cause(n, "ioError") BY DEF Cause, HowItEnds
    <3> QED BY <1>a, <2>5, <3>1, EndsFacts DEF SocketConnectErrorMissed, ConnectFails
  <2> QED BY <2>1, <2>2, <2>3, <2>4, <2>5
<1>4. CASE Accepts(n) BY <1>4 DEF Accepts, Step
<1>5. CASE Hears(n) BY <1>5 DEF Hears, Step
<1>6. ASSUME NEW fd \in FD, Receive(n, fd) PROVE Step(n)
  <2>1. CASE SocketClose(n, fd) \/ PeerNotify(n, fd) \/ RecvPing(n, fd)
    BY <2>1 DEF Step, OnSocket
  <2>2. CASE RecvPong(n, fd)
    <3>1. CASE Far(ConnOf(n, fd), n) \in Peers(n)
      BY <2>2, <3>1 DEF RecvPong, Answered, Step, OnSocket
    <3>2. CASE Far(ConnOf(n, fd), n) \notin Peers(n)
      <4>1. Cause(n, "noPeerForPong")
        BY <2>2, <3>2 DEF RecvPong, Cause, HowItEnds
      <4> QED BY <1>a, <2>2, <3>2, <4>1, EndsFacts DEF RecvPong, Receives
    <3> QED BY <3>1, <3>2
  <2> QED BY <1>6, <2>1, <2>2 DEF Receive
<1>7. CASE PingTimer(n)
  <2> DEFINE late == {m \in Peers(n) : ~peers[n][m].pongReceived}
  <2>1. CASE DisconnectAborts(n, late)
    <3>1. Cause(n, "noDataSocket")
      BY <2>1 DEF DisconnectAborts, Cause, HowItEnds
    <3> QED BY <1>7, <1>a, <2>1, <3>1, EndsFacts DEF DisconnectAborts, PingTimer
  <2>2. CASE ~DisconnectAborts(n, late)
    <3>1. Pings(n) BY <1>7, <2>2 DEF PingTimer, Pings
    <3> QED BY <3>1 DEF Step
  <2> QED BY <2>1, <2>2
<1>8. CASE ConnectionTimer(n)
  <2>1. PICK m \in addrs[n] : \/ m \notin Peers(n) /\ ConnectPeer(n, m)
                              \/ m \in Lost(n) /\ Abort(n, "toBeImplemented")
    BY <1>8 DEF ConnectionTimer
  <2>2. CASE m \notin Peers(n) /\ ConnectPeer(n, m)
    <3>1. m # n /\ m \in Node BY <2>1 DEF NoSelf
    <3> QED BY <1>8, <2>2, <3>1 DEF ConnectionTimer, Opens, Step
  <2>3. CASE m \in Lost(n) /\ Abort(n, "toBeImplemented")
    <3>1. Cause(n, "toBeImplemented") BY <2>3 DEF Cause, HowItEnds
    <3> QED BY <1>8, <1>a, <2>3, <3>1, EndsFacts DEF ConnectionTimer
  <2> QED BY <2>1, <2>2, <2>3
<1> QED BY <1>1, <1>2, <1>3, <1>4, <1>5, <1>6, <1>7, <1>8

-----------------------------------------------------------------------------
(* Sockets and connections *)

Socket == [type : {"none", "connect", "data"}, conn : 0..MaxConn]
Open(n, fd) == sock[n][fd] # NoSocket

\* An open socket belongs to one end of a connection, and no other does.
SocketFits(n, fd) ==
  /\ sock[n][fd].type \in {"connect", "data"}
  /\ ConnOf(n, fd) \in DOMAIN conn
  /\ n \in {conn[ConnOf(n, fd)].from, conn[ConnOf(n, fd)].to}
  /\ sock[n][fd].type = "connect" => conn[ConnOf(n, fd)].from = n
  /\ conn[ConnOf(n, fd)].to = n => conn[ConnOf(n, fd)].accepted
  /\ Running(n) => n \notin conn[ConnOf(n, fd)].closed
OneDescriptor(n) ==
  \A fd, g \in FD : Open(n, fd) /\ Open(n, g) /\ ConnOf(n, fd) = ConnOf(n, g) => fd = g
SocketsFit ==
  \A n \in Node : OneDescriptor(n) /\ \A fd \in FD : Open(n, fd) => SocketFits(n, fd)
ConnFits(c) ==
  /\ conn[c].from # conn[c].to
  /\ Running(conn[c].to) /\ ~conn[c].accepted => conn[c].to \notin conn[c].closed
ConnsFit == Len(conn) <= MaxConn /\ \A c \in DOMAIN conn : ConnFits(c)

SocketInv ==
  /\ sock \in [Node -> [FD -> Socket]]
  /\ conn \in Seq(Connection)
  /\ status \in [Node -> HowItEnds]
  /\ ConnsFit /\ SocketsFit

\* The lowest free descriptor is free.
LEMMA FreeFDFacts ==
  ASSUME NEW n \in Node, \E fd \in FD : sock[n][fd] = NoSocket
  PROVE  FreeFD(n) \in FD /\ sock[n][FreeFD(n)] = NoSocket
<1> DEFINE T == {fd \in FD : sock[n][fd] = NoSocket}
<1>1. T \subseteq Nat /\ T # {} BY SocketAssumption DEF FD
<1>2. PICK fd \in T : \A g \in T : ~(<<g, fd>> \in OpToRel(<, Nat))
  BY <1>1, NatLessThanWellFounded, WFMin
<1>3. \A g \in T : fd <= g
  <2> SUFFICES ASSUME NEW g \in T PROVE fd <= g OBVIOUS
  <2>1. fd \in Nat /\ g \in Nat BY <1>1
  <2>2. ~(g < fd) BY <1>2, <2>1 DEF OpToRel
  <2> QED BY <2>1, <2>2
<1>4. \E x \in FD : sock[n][x] = NoSocket /\ \A g \in FD : sock[n][g] = NoSocket => x <= g
  BY <1>3
<1> QED BY <1>4 DEF FreeFD

\* A node whose connections are fewer than its descriptors has a free one.
LEMMA RoomLeft ==
  ASSUME SocketInv, NEW n \in Node, NEW S, IsFiniteSet(S), Cardinality(S) < MaxConn,
         \A fd \in FD : Open(n, fd) => ConnOf(n, fd) \in S
  PROVE  FreeFD(n) \in FD /\ sock[n][FreeFD(n)] = NoSocket
<1>1. IsFiniteSet(FD) /\ Cardinality(FD) = MaxConn
  BY SocketAssumption, FS_Interval DEF FD
<1>2. \E fd \in FD : sock[n][fd] = NoSocket
  <2> SUFFICES ASSUME \A fd \in FD : Open(n, fd) PROVE FALSE BY DEF Open
  <2> DEFINE f == [fd \in FD |-> ConnOf(n, fd)]
  <2>1. f \in [FD -> S] OBVIOUS
  <2> HIDE DEF f
  <2>2. \E x, y \in FD : x # y /\ f[x] = f[y] BY <1>1, <2>1, FS_PigeonHole
  <2> QED BY <2>2 DEF f, SocketInv, SocketsFit, OneDescriptor
<1> QED BY <1>2, FreeFDFacts

\* The other end of an open socket.
LEMMA FarFacts ==
  ASSUME SocketInv, NEW n \in Node, NEW fd \in FD, Open(n, fd)
  PROVE  /\ ConnOf(n, fd) \in DOMAIN conn
         /\ Far(ConnOf(n, fd), n) \in Node /\ Far(ConnOf(n, fd), n) # n
         /\ \/ /\ conn[ConnOf(n, fd)].from = n
               /\ conn[ConnOf(n, fd)].to = Far(ConnOf(n, fd), n)
            \/ /\ conn[ConnOf(n, fd)].to = n
               /\ conn[ConnOf(n, fd)].from = Far(ConnOf(n, fd), n)
<1>1. \A c \in DOMAIN conn : conn[c] \in Connection
  BY TableFacts DEF SocketInv
<1>2. SocketFits(n, fd) BY DEF SocketInv, SocketsFit
<1> DEFINE c == ConnOf(n, fd)
<1>3. /\ c \in DOMAIN conn /\ conn[c].from \in Node /\ conn[c].to \in Node
      /\ conn[c].from # conn[c].to /\ n \in {conn[c].from, conn[c].to}
  BY <1>1, <1>2 DEF SocketInv, SocketFits, ConnsFit, ConnFits, Connection
<1> HIDE DEF c
<1>4. /\ Far(c, n) \in Node /\ Far(c, n) # n
      /\ \/ conn[c].from = n /\ conn[c].to = Far(c, n)
         \/ conn[c].to = n /\ conn[c].from = Far(c, n)
  BY <1>3 DEF Far
<1> QED BY <1>3, <1>4 DEF c

\* Sockets stay fit when they stay, connections keep their ends, and nobody closes.
LEMMA StreamsMove ==
  ASSUME SocketInv, SameEnds(conn, conn'), sock' = sock, status' = status,
         \A c \in DOMAIN conn : \A x \in Node :
            x \in conn'[c].closed => x \in conn[c].closed
  PROVE  SocketInv'
<1>1. Len(conn') = Len(conn) BY SameLength DEF SocketInv
<1>c. \A c \in DOMAIN conn : conn[c] \in Connection BY TableFacts DEF SocketInv
<1>2. ConnsFit' BY <1>1, <1>c DEF SocketInv, ConnsFit, ConnFits, Running, Connection, SameEnds
<1>3. ASSUME NEW x \in Node, NEW fd \in FD, Open(x, fd)' PROVE SocketFits(x, fd)'
  <2>1. SocketFits(x, fd) BY <1>3 DEF SocketInv, SocketsFit, Open
  <2> QED BY <2>1 DEF SocketFits, ConnOf, Running, SameEnds
<1>4. ASSUME NEW x \in Node PROVE OneDescriptor(x)'
  <2>1. OneDescriptor(x) BY DEF SocketInv, SocketsFit
  <2> QED BY <2>1 DEF OneDescriptor, Open, ConnOf
<1> QED BY <1>2, <1>3, <1>4 DEF SocketInv, SocketsFit, SameEnds

\* ... and when n closes descriptors, with their connections.
LEMMA ClosingSockets ==
  ASSUME SocketInv, NEW n \in Node, NEW F \in SUBSET FD,
         sock' = [sock EXCEPT ![n] = [fd \in FD |-> IF fd \in F THEN NoSocket ELSE @[fd]]],
         SameEnds(conn, conn'), status' = status,
         \A c \in DOMAIN conn : \A x \in Node :
            x \in conn'[c].closed =>
              x \in conn[c].closed \/ (x = n /\ c \in {ConnOf(n, fd) : fd \in F})
  PROVE  SocketInv'
<1>1. Len(conn') = Len(conn) BY SameLength DEF SocketInv
<1>2. ConnsFit'
  <2>c. \A c \in DOMAIN conn : conn[c] \in Connection BY TableFacts DEF SocketInv
  <2>1. ASSUME NEW c \in DOMAIN conn, c \in {ConnOf(n, fd) : fd \in F}, conn[c].to = n
        PROVE  conn[c].accepted
    <3>1. PICK fd \in F : c = ConnOf(n, fd) BY <2>1
    <3>2. Open(n, fd)
      <4>1. c # 0 BY TableFacts DEF SocketInv
      <4> QED BY <3>1, <4>1 DEF Open, ConnOf, NoSocket
    <3>3. SocketFits(n, fd) BY <3>2 DEF SocketInv, SocketsFit
    <3> QED BY <2>1, <3>1, <3>3 DEF SocketFits
  <2>2. ASSUME NEW c \in DOMAIN conn PROVE ConnFits(c)'
    <3>1. ConnFits(c) BY DEF SocketInv, ConnsFit
    <3> QED BY <2>c, <2>1, <3>1 DEF ConnFits, Running, SameEnds, Connection
  <2> QED BY <1>1, <2>2 DEF SocketInv, ConnsFit, SameEnds
<1>3. NoSocket \in Socket BY SocketAssumption DEF NoSocket, Socket
<1>4. sock' \in [Node -> [FD -> Socket]] BY <1>3 DEF SocketInv
<1>5. \A x \in Node : \A fd \in FD :
        sock'[x][fd] = IF x = n /\ fd \in F THEN NoSocket ELSE sock[x][fd]
  BY DEF SocketInv
<1>6. ASSUME NEW x \in Node, NEW fd \in FD, Open(x, fd)' PROVE SocketFits(x, fd)'
  <2>1. sock'[x][fd] = sock[x][fd] /\ Open(x, fd) /\ ~(x = n /\ fd \in F)
    BY <1>5, <1>6 DEF Open
  <2>2. SocketFits(x, fd) BY <2>1 DEF SocketInv, SocketsFit
  <2>3. ConnOf(x, fd) \in DOMAIN conn BY <2>2 DEF SocketFits
  <2>4. x = n => ConnOf(x, fd) \notin {ConnOf(n, g) : g \in F}
    <3> SUFFICES ASSUME x = n, NEW g \in F, ConnOf(n, fd) = ConnOf(n, g) PROVE FALSE
      OBVIOUS
    <3>1. Open(n, g)
      <4>1. ConnOf(n, fd) # 0 BY <2>3, TableFacts DEF SocketInv
      <4> QED BY <4>1 DEF Open, ConnOf, NoSocket
    <3> QED BY <2>1, <3>1 DEF SocketInv, SocketsFit, OneDescriptor
  <2> QED BY <2>1, <2>2, <2>3, <2>4 DEF SocketFits, ConnOf, Running, SameEnds
<1>7. ASSUME NEW x \in Node PROVE OneDescriptor(x)'
  <2>1. OneDescriptor(x) BY DEF SocketInv, SocketsFit
  <2> QED BY <1>5, <2>1 DEF OneDescriptor, Open, ConnOf
<1> QED BY <1>2, <1>4, <1>6, <1>7 DEF SocketInv, SocketsFit, SameEnds

\* An interval from 1 is as long as its last number.
LEMMA UpTo ==
  ASSUME NEW k \in Nat
  PROVE  IsFiniteSet(1..k) /\ Cardinality(1..k) = k
<1>1. IsFiniteSet(1..k) /\ Cardinality(1..k) = IF 1 > k THEN 0 ELSE k - 1 + 1
  BY FS_Interval
<1> QED BY <1>1

\* ConnectSocket opens a connection at a free descriptor.
LEMMA OpeningSockets ==
  ASSUME SocketInv, NEW n \in Node, NEW m \in Node, n # m,
         ConnectSocket(n, m), status' = status
  PROVE  /\ SocketInv'
         /\ FreeFD(n) \in FD /\ sock[n][FreeFD(n)] = NoSocket
         /\ \A x \in Node : \A g \in FD :
              sock'[x][g] = IF x = n /\ g = FreeFD(n)
                            THEN [type |-> "connect", conn |-> Len(conn) + 1] ELSE sock[x][g]
         /\ DOMAIN conn' = DOMAIN conn \cup {Len(conn) + 1}
         /\ Len(conn) + 1 \notin DOMAIN conn
         /\ \A c \in DOMAIN conn : conn'[c] = conn[c]
         /\ conn'[Len(conn) + 1] = Dial(n, m)
<1> DEFINE k == Len(conn) + 1
           fd == FreeFD(n)
           s == [type |-> "connect", conn |-> k]
<1>1. /\ Len(conn) < MaxConn /\ conn' = Append(conn, Dial(n, m))
      /\ sock' = [sock EXCEPT ![n][fd] = s]
  BY DEF ConnectSocket, Dial
<1>2. Len(conn) \in Nat /\ DOMAIN conn = 1..Len(conn) BY TableFacts DEF SocketInv
<1>3. fd \in FD /\ sock[n][fd] = NoSocket
  <2>1. IsFiniteSet(1..Len(conn)) /\ Cardinality(1..Len(conn)) = Len(conn)
    BY <1>2, UpTo
  <2>2. \A g \in FD : Open(n, g) => ConnOf(n, g) \in 1..Len(conn)
    BY <1>2 DEF SocketInv, SocketsFit, SocketFits
  <2>3. Cardinality(1..Len(conn)) < MaxConn BY <1>1, <2>1
  <2> QED BY <2>1, <2>2, <2>3, RoomLeft
<1>4. /\ conn' \in Seq(Connection) /\ Len(conn') = k
      /\ DOMAIN conn' = DOMAIN conn \cup {k}
      /\ k \notin DOMAIN conn
      /\ \A c \in DOMAIN conn : conn'[c] = conn[c]
      /\ conn'[k] = Dial(n, m)
  BY <1>1, AppendedFacts DEF SocketInv
<1>5. s \in Socket /\ s.type = "connect" /\ s.conn = k /\ s # NoSocket
  BY <1>1, <1>2, SocketAssumption DEF Socket, NoSocket
<1>6. k \in Nat /\ k <= MaxConn BY <1>1, <1>2, SocketAssumption
<1> HIDE DEF k, fd, s
<1>7. /\ sock' \in [Node -> [FD -> Socket]]
      /\ \A x \in Node : \A g \in FD : sock'[x][g] = IF x = n /\ g = fd THEN s ELSE sock[x][g]
  BY <1>1, <1>3, <1>5 DEF SocketInv
<1>8. ConnsFit'
  <2>1. ASSUME NEW c, c = k PROVE ConnFits(c)'
    BY <1>4, <2>1 DEF ConnFits, Dial
  <2>2. ASSUME NEW c \in DOMAIN conn PROVE ConnFits(c)'
    <3>1. ConnFits(c) BY DEF SocketInv, ConnsFit
    <3> QED BY <1>4, <3>1 DEF ConnFits, Running
  <2> QED BY <1>4, <1>6, <2>1, <2>2 DEF ConnsFit
<1>9. ASSUME NEW x \in Node, NEW g \in FD, Open(x, g)' PROVE SocketFits(x, g)'
  <2>1. CASE x = n /\ g = fd
    BY <1>4, <1>5, <1>7, <2>1 DEF SocketFits, ConnOf, Dial
  <2>2. CASE ~(x = n /\ g = fd)
    <3>1. SocketFits(x, g) BY <1>7, <1>9, <2>2 DEF SocketInv, SocketsFit, Open
    <3> QED BY <1>4, <1>7, <2>2, <3>1 DEF SocketFits, ConnOf, Running
  <2> QED BY <2>1, <2>2
<1>10. ASSUME NEW x \in Node PROVE OneDescriptor(x)'
  <2>1. OneDescriptor(x) /\ \A g \in FD : Open(x, g) => ConnOf(x, g) # k
    BY <1>4 DEF SocketInv, SocketsFit, SocketFits
  <2> QED BY <1>5, <1>7, <2>1 DEF OneDescriptor, Open, ConnOf
<1>11. SocketInv' BY <1>4, <1>7, <1>8, <1>9, <1>10 DEF SocketInv, SocketsFit
<1> QED BY <1>3, <1>4, <1>7, <1>11 DEF k, fd, s

\* AcceptHandler opens a data socket for the other end.
LEMMA AcceptingSockets ==
  ASSUME SocketInv, NEW n \in Node, NEW c \in DOMAIN conn, AcceptHandler(n, c)
  PROVE  /\ SocketInv'
         /\ FreeFD(n) \in FD /\ sock[n][FreeFD(n)] = NoSocket
         /\ \A x \in Node : \A g \in FD :
              sock'[x][g] = IF x = n /\ g = FreeFD(n)
                            THEN [type |-> "data", conn |-> c] ELSE sock[x][g]
         /\ DOMAIN conn' = DOMAIN conn
         /\ \A d \in DOMAIN conn : /\ conn'[d].from = conn[d].from /\ conn'[d].to = conn[d].to
                                   /\ conn'[d].closed = conn[d].closed
                                   /\ conn'[d].stream = conn[d].stream
         /\ \A g \in FD : Open(n, g) => ConnOf(n, g) # c
<1> DEFINE fd == FreeFD(n)
           s == [type |-> "data", conn |-> c]
<1>1. /\ Running(n) /\ conn[c].to = n /\ ~conn[c].accepted
      /\ conn' = [conn EXCEPT ![c].accepted = TRUE]
      /\ sock' = [sock EXCEPT ![n][fd] = s]
      /\ status' = status
  BY DEF AcceptHandler
<1>2. Len(conn) \in Nat /\ DOMAIN conn = 1..Len(conn) BY TableFacts DEF SocketInv
<1>3. \A g \in FD : Open(n, g) => ConnOf(n, g) \in DOMAIN conn /\ ConnOf(n, g) # c
  BY <1>1 DEF SocketInv, SocketsFit, SocketFits
<1>4. fd \in FD /\ sock[n][fd] = NoSocket
  <2> DEFINE S == 1..Len(conn)
  <2>1. IsFiniteSet(S) /\ Cardinality(S) = Len(conn) /\ c \in S
    BY <1>2, UpTo
  <2>2. IsFiniteSet(S \ {c}) /\ Cardinality(S \ {c}) = Len(conn) - 1
    <3> HIDE DEF S
    <3> QED BY <2>1, FS_RemoveElement
  <2>3. \A g \in FD : Open(n, g) => ConnOf(n, g) \in S \ {c} BY <1>2, <1>3
  <2>4. Cardinality(S \ {c}) < MaxConn
    BY <1>2, <2>2, SocketAssumption DEF SocketInv, ConnsFit
  <2> HIDE DEF S
  <2> QED BY <2>2, <2>3, <2>4, RoomLeft
<1>5. /\ conn' \in Seq(Connection) /\ DOMAIN conn' = DOMAIN conn
      /\ \A d \in DOMAIN conn :
           /\ conn'[d].from = conn[d].from /\ conn'[d].to = conn[d].to
           /\ conn'[d].accepted = IF d = c THEN TRUE ELSE conn[d].accepted
           /\ conn'[d].closed = conn[d].closed /\ conn'[d].stream = conn[d].stream
  <2>1. conn \in Seq(Connection) BY DEF SocketInv
  <2>2. conn' = [conn EXCEPT ![c].accepted = TRUE] BY <1>1
  <2> QED BY <2>1, <2>2, AcceptedFacts
<1>6. s \in Socket /\ s.type = "data" /\ s.conn = c /\ s # NoSocket
  <2>1. c \in 0..MaxConn BY <1>2, SocketAssumption DEF SocketInv, ConnsFit
  <2> QED BY <2>1 DEF Socket, NoSocket
<1> HIDE DEF fd, s
<1>7. /\ sock' \in [Node -> [FD -> Socket]]
      /\ \A x \in Node : \A g \in FD : sock'[x][g] = IF x = n /\ g = fd THEN s ELSE sock[x][g]
  BY <1>1, <1>4, <1>6 DEF SocketInv
<1>8. ConnsFit'
  <2> DEFINE a == Len(conn)
             b == Len(conn')
  <2>1. b \in Nat /\ DOMAIN conn' = 1..b BY <1>5, TableFacts
  <2>2. a \in Nat /\ 1..a = 1..b /\ a <= MaxConn BY <1>2, <1>5, <2>1 DEF SocketInv, ConnsFit
  <2> HIDE DEF a, b
  <2>3. b <= MaxConn
    <3>1. CASE b = 0 BY <3>1, SocketAssumption
    <3>2. CASE b # 0
      <4>1. b \in 1..b BY <2>1, <3>2
      <4>2. b \in 1..a BY <2>2, <4>1
      <4> QED BY <2>1, <2>2, <4>2, SocketAssumption
    <3> QED BY <3>1, <3>2
  <2>4. ASSUME NEW d \in DOMAIN conn PROVE ConnFits(d)'
    <3>1. ConnFits(d) BY DEF SocketInv, ConnsFit
    <3> QED BY <1>1, <1>5, <3>1 DEF ConnFits, Running
  <2> QED BY <1>5, <2>3, <2>4 DEF ConnsFit, b
<1>9. ASSUME NEW g \in FD, g = fd PROVE SocketFits(n, g)'
  <2>1. ConnFits(c) BY DEF SocketInv, ConnsFit
  <2>2. n \notin conn'[c].closed BY <1>1, <1>5, <2>1 DEF ConnFits
  <2> QED BY <1>1, <1>5, <1>6, <1>7, <1>9, <2>2, ZenonT(40) DEF SocketFits, ConnOf
<1>10. ASSUME NEW x \in Node, NEW g \in FD, Open(x, g)', ~(x = n /\ g = fd)
       PROVE  SocketFits(x, g)'
  <2>1. SocketFits(x, g) BY <1>7, <1>10 DEF SocketInv, SocketsFit, Open
  <2> QED BY <1>1, <1>5, <1>7, <1>10, <2>1 DEF SocketFits, ConnOf, Running
<1>11. ASSUME NEW x \in Node PROVE OneDescriptor(x)'
  <2>1. OneDescriptor(x) BY DEF SocketInv, SocketsFit
  <2> QED BY <1>3, <1>6, <1>7, <2>1 DEF OneDescriptor, Open, ConnOf
<1>12. SocketInv'
  BY <1>1, <1>5, <1>7, <1>8, <1>9, <1>10, <1>11 DEF SocketInv, SocketsFit
<1> QED BY <1>3, <1>4, <1>5, <1>7, <1>12 DEF fd, s

\* A connect socket becomes a data socket.
LEMMA ConnectedSocket ==
  ASSUME SocketInv, NEW n \in Node, NEW fd \in FD, sock[n][fd].type = "connect",
         BecomesData(n, fd), SameEnds(conn, conn'), status' = status,
         \A c \in DOMAIN conn : \A x \in Node :
            x \in conn'[c].closed => x \in conn[c].closed
  PROVE  /\ SocketInv'
         /\ \A x \in Node : \A g \in FD :
              sock'[x][g] = IF x = n /\ g = fd
                            THEN [type |-> "data", conn |-> ConnOf(n, fd)] ELSE sock[x][g]
         /\ Open(n, fd)
<1>1. sock[n][fd] \in Socket BY DEF SocketInv
<1>2. [sock[n][fd] EXCEPT !.type = "data"] = [type |-> "data", conn |-> ConnOf(n, fd)]
  BY <1>1 DEF Socket, ConnOf
<1>3. sock' = [sock EXCEPT ![n][fd] = [type |-> "data", conn |-> ConnOf(n, fd)]]
  <2>1. sock' = [sock EXCEPT ![n][fd] = [sock[n][fd] EXCEPT !.type = "data"]]
    BY DEF BecomesData, SocketInv
  <2> QED BY <1>2, <2>1
<1>4. PICK s : s = [type |-> "data", conn |-> ConnOf(n, fd)] OBVIOUS
<1>5. s \in Socket /\ s.type = "data" /\ s.conn = ConnOf(n, fd) /\ s # NoSocket
  BY <1>1, <1>4 DEF Socket, ConnOf, NoSocket
<1>6. /\ sock' \in [Node -> [FD -> Socket]]
      /\ \A x \in Node : \A g \in FD : sock'[x][g] = IF x = n /\ g = fd THEN s ELSE sock[x][g]
  BY <1>3, <1>4, <1>5 DEF SocketInv
<1>7. Open(n, fd) BY DEF Open, NoSocket
<1>8. Len(conn') = Len(conn) BY SameLength DEF SocketInv
<1>9. \A c \in DOMAIN conn : conn[c] \in Connection BY TableFacts DEF SocketInv
<1>10. ConnsFit' BY <1>8, <1>9 DEF SocketInv, ConnsFit, ConnFits, Running, Connection, SameEnds
<1>11. ASSUME NEW x \in Node, NEW g \in FD, Open(x, g)' PROVE SocketFits(x, g)'
  <2>1. Open(x, g) BY <1>6, <1>7, <1>11 DEF Open
  <2>2. SocketFits(x, g) BY <2>1 DEF SocketInv, SocketsFit
  <2>3. sock'[x][g].conn = sock[x][g].conn BY <1>5, <1>6 DEF ConnOf
  <2>4. sock'[x][g].type = sock[x][g].type \/ sock'[x][g].type = "data" BY <1>5, <1>6
  <2> QED BY <2>2, <2>3, <2>4 DEF SocketFits, ConnOf, Running, SameEnds
<1>12. ASSUME NEW x \in Node PROVE OneDescriptor(x)'
  <2>1. OneDescriptor(x) BY DEF SocketInv, SocketsFit
  <2>2. \A g \in FD : /\ Open(x, g)' => Open(x, g)
                      /\ sock'[x][g].conn = sock[x][g].conn
    BY <1>5, <1>6, <1>7 DEF Open, ConnOf
  <2> QED BY <2>1, <2>2 DEF OneDescriptor, ConnOf
<1>13. SocketInv' BY <1>6, <1>10, <1>11, <1>12 DEF SocketInv, SocketsFit, SameEnds
<1> QED BY <1>4, <1>6, <1>7, <1>13

\* The end of a process leaves its descriptors and empties its streams.
LEMMA Stopping ==
  ASSUME SocketInv, NEW n \in Node, NEW why \in HowItEnds, why # "running",
         NEW must, Stop(n, why, must)
  PROVE  /\ SocketInv'
         /\ sock' = sock /\ SameEnds(conn, conn')
         /\ status' = [status EXCEPT ![n] = why]
         /\ \A c \in DOMAIN conn : \A x \in Node :
              /\ x \in conn'[c].closed => x \in conn[c].closed \/ x = n
              /\ x \in conn[c].closed => x \in conn'[c].closed
              /\ conn'[c].stream[x] = IF x = n THEN << >> ELSE conn[c].stream[x]
<1>1. PICK L : conn' = [c \in DOMAIN conn |-> [Closed(conn, n, L)[c] EXCEPT !.stream[n] = << >>]]
  BY DEF Stop
<1>2. sock' = sock /\ status' = [status EXCEPT ![n] = why] BY DEF Stop
<1>3. conn \in Seq(Connection) BY DEF SocketInv
<1> DEFINE D == Closed(conn, n, L)
           e(c) == [D[c] EXCEPT !.stream[n] = << >>]
<1>4. /\ SameEnds(conn, D)
      /\ \A c \in DOMAIN conn : \A x \in Node :
              /\ x \in D[c].closed <=> x \in conn[c].closed \/ (c \in L /\ x = n)
              /\ D[c].stream[x] = IF c \in L /\ x = n THEN << >> ELSE conn[c].stream[x]
  BY <1>3, ClosedFacts
<1>5. \A c \in DOMAIN conn : conn'[c] = e(c) BY <1>1
<1>6. conn' = [c \in DOMAIN conn |-> e(c)] BY <1>1
<1> HIDE DEF D
<1>7. << >> \in Seq(Msg) BY EmptySeq
<1>8. \A c \in DOMAIN conn : D[c] \in Connection BY <1>4, TableFacts DEF SameEnds
<1>9. \A c \in DOMAIN conn :
        /\ e(c) \in Connection
        /\ e(c).from = D[c].from /\ e(c).to = D[c].to /\ e(c).accepted = D[c].accepted
        /\ e(c).closed = D[c].closed
        /\ \A x \in Node : e(c).stream[x] = IF x = n THEN << >> ELSE D[c].stream[x]
  BY <1>7, <1>8 DEF Connection
<1> HIDE DEF e
<1>10. conn' \in Seq(Connection) /\ DOMAIN conn' = DOMAIN conn
  BY <1>3, <1>6, <1>9, TableOver
<1>11. SameEnds(conn, conn') BY <1>4, <1>5, <1>9, <1>10 DEF SameEnds
<1>12. \A c \in DOMAIN conn : \A x \in Node :
              /\ x \in conn'[c].closed => x \in conn[c].closed \/ x = n
              /\ x \in conn[c].closed => x \in conn'[c].closed
              /\ conn'[c].stream[x] = IF x = n THEN << >> ELSE conn[c].stream[x]
  BY <1>4, <1>5, <1>9
<1>13. status' \in [Node -> HowItEnds] /\ ~Running(n)'
       /\ \A x \in Node : Running(x)' => Running(x) /\ x # n
  BY <1>2 DEF SocketInv, Running
<1>14. Len(conn') = Len(conn) BY <1>11, SameLength DEF SocketInv
<1>15. ConnsFit'
  <2>1. \A c \in DOMAIN conn : conn[c] \in Connection BY TableFacts DEF SocketInv
  <2>2. ASSUME NEW c \in DOMAIN conn PROVE ConnFits(c)'
    <3>1. ConnFits(c) BY DEF SocketInv, ConnsFit
    <3>2. /\ conn'[c].from = conn[c].from /\ conn'[c].to = conn[c].to
          /\ conn'[c].accepted = conn[c].accepted /\ conn[c].to \in Node
      BY <1>11, <2>1 DEF SameEnds, Connection
    <3>3. Running(conn[c].to)' => Running(conn[c].to) /\ conn[c].to # n
      BY <1>2, <3>2 DEF Running, SocketInv
    <3> QED BY <1>12, <3>1, <3>2, <3>3 DEF ConnFits, Running
  <2> QED BY <1>11, <1>14, <2>2 DEF SocketInv, ConnsFit, SameEnds
<1>16. ASSUME NEW x \in Node, NEW fd \in FD, Open(x, fd)' PROVE SocketFits(x, fd)'
  <2>1. SocketFits(x, fd) BY <1>2, <1>16 DEF SocketInv, SocketsFit, Open
  <2> QED BY <1>2, <1>11, <1>12, <1>13, <2>1 DEF SocketFits, ConnOf, SameEnds
<1>17. ASSUME NEW x \in Node PROVE OneDescriptor(x)'
  <2>1. OneDescriptor(x) BY DEF SocketInv, SocketsFit
  <2> QED BY <1>2, <2>1 DEF OneDescriptor, Open, ConnOf
<1>18. SocketInv' BY <1>2, <1>10, <1>13, <1>15, <1>16, <1>17 DEF SocketInv, SocketsFit
<1> QED BY <1>2, <1>11, <1>12, <1>18

-----------------------------------------------------------------------------
(* The peer table and its counters *)

\* Incoming peers are active; outgoing ones keep a descriptor and get their data
\* socket when they stop connecting.
PeerFits(p) ==
  /\ p.type = "none" => p = NoPeer
  /\ p.type = "in" => p.dataSocket # NoFD /\ ~p.tryConnect
  /\ p.type = "out" => p.connSocket \in FD
  /\ p.tryConnect => p.type = "out" /\ p.dataSocket = NoFD
TableInv ==
  /\ peers \in [Node -> [Node -> PeerRecord]]
  /\ addrs \in [Node -> SUBSET Node]
  /\ failed \in 0..MaxFailed
  /\ NoSelf
  /\ \A n, m \in Node : PeerFits(peers[n][m])

CountersInv ==
  /\ inPeerNum \in [Node -> Int] /\ outPeerNum \in [Node -> Int]
  /\ \A n \in Node : IsFiniteSet(OfType(n, "in")) /\ IsFiniteSet(OfType(n, "out"))
  /\ CountersAgree

Fits == SocketInv /\ TableInv /\ CountersInv

\* The counters follow the table when a peer that is not active is added ...
LEMMA AddPeerCounts ==
  ASSUME TableInv, CountersInv, NEW n \in Node, NEW m \in Node, NEW p \in PeerRecord,
         AddPeer(n, m, p), m \notin Active(n), p.type \in {"in", "out"},
         p.type = "in" => inPeerNum[n] < MaxIncoming
  PROVE  CountersInv'
<1> DEFINE in == OfType(n, "in")
           out == OfType(n, "out")
<1>1. m \notin in BY DEF TableInv, PeerFits, Active, OfType
<1>2. \A x \in Node : \A y \in Node :
        peers'[x][y].type = IF x = n /\ y = m THEN p.type ELSE peers[x][y].type
  BY DEF AddPeer, TableInv
<1>3. \A x \in Node : x # n => /\ OfType(x, "in")' = OfType(x, "in")
                               /\ OfType(x, "out")' = OfType(x, "out")
  BY <1>2 DEF OfType
<1>4. /\ IsFiniteSet(in) /\ IsFiniteSet(out)
      /\ inPeerNum[n] = Cardinality(in) /\ inPeerNum[n] <= MaxIncoming
      /\ outPeerNum[n] >= Cardinality(out)
      /\ inPeerNum[n] \in Int /\ outPeerNum[n] \in Int
  BY DEF CountersInv, CountersAgree
<1>5. /\ inPeerNum' \in [Node -> Int] /\ outPeerNum' \in [Node -> Int]
      /\ \A x \in Node : x # n => inPeerNum'[x] = inPeerNum[x] /\ outPeerNum'[x] = outPeerNum[x]
      /\ inPeerNum'[n] = IF p.type = "in" THEN inPeerNum[n] + 1 ELSE inPeerNum[n]
      /\ outPeerNum'[n] = IF p.type = "out" THEN outPeerNum[n] + 1 ELSE outPeerNum[n]
  BY DEF AddPeer, CountersInv
<1>6. /\ IsFiniteSet(OfType(n, "in")') /\ IsFiniteSet(OfType(n, "out")')
      /\ inPeerNum'[n] = Cardinality(OfType(n, "in")')
      /\ inPeerNum'[n] <= MaxIncoming
      /\ outPeerNum'[n] >= Cardinality(OfType(n, "out")')
  <2>a. MaxIncoming \in Int BY PeerAssumption
  <2>1. CASE p.type = "in"
    <3>1. OfType(n, "in")' = in \cup {m} /\ OfType(n, "out")' = out \ {m}
      BY <1>2, <2>1 DEF OfType
    <3>2. IsFiniteSet(in \cup {m}) /\ Cardinality(in \cup {m}) = Cardinality(in) + 1
      <4> HIDE DEF in
      <4> QED BY <1>1, <1>4, FS_AddElement
    <3>3. /\ IsFiniteSet(out \ {m})
          /\ Cardinality(out \ {m}) = Cardinality(out) \/ Cardinality(out \ {m}) = Cardinality(out) - 1
      <4> HIDE DEF out
      <4> QED BY <1>4, FS_RemoveElement
    <3>4. Cardinality(out) \in Nat /\ Cardinality(in) \in Nat
      BY <1>4, FS_CardinalityType
    <3> HIDE DEF in, out
    <3>5. /\ IsFiniteSet(in \cup {m}) /\ IsFiniteSet(out \ {m})
          /\ inPeerNum'[n] = Cardinality(in \cup {m})
          /\ inPeerNum'[n] <= MaxIncoming
          /\ outPeerNum'[n] >= Cardinality(out \ {m})
      BY <1>4, <1>5, <2>1, <2>a, <3>2, <3>3, <3>4
    <3> QED BY <3>1, <3>5
  <2>2. CASE p.type = "out"
    <3>1. OfType(n, "in")' = in /\ OfType(n, "out")' = out \cup {m}
      BY <1>1, <1>2, <2>2 DEF OfType
    <3>2. /\ IsFiniteSet(out \cup {m})
          /\ Cardinality(out \cup {m}) = Cardinality(out) \/ Cardinality(out \cup {m}) = Cardinality(out) + 1
      <4> HIDE DEF out
      <4> QED BY <1>4, FS_AddElement
    <3>3. Cardinality(out) \in Nat BY <1>4, FS_CardinalityType
    <3> HIDE DEF in, out
    <3>4. /\ IsFiniteSet(in) /\ IsFiniteSet(out \cup {m})
          /\ inPeerNum'[n] = Cardinality(in)
          /\ inPeerNum'[n] <= MaxIncoming
          /\ outPeerNum'[n] >= Cardinality(out \cup {m})
      BY <1>4, <1>5, <2>2, <3>2, <3>3
    <3> QED BY <3>1, <3>4
  <2> QED BY <2>1, <2>2
<1>7. \A x \in Node : /\ IsFiniteSet(OfType(x, "in")') /\ IsFiniteSet(OfType(x, "out")')
                      /\ inPeerNum'[x] = Cardinality(OfType(x, "in")')
                      /\ inPeerNum'[x] <= MaxIncoming
                      /\ outPeerNum'[x] >= Cardinality(OfType(x, "out")')
  <2> SUFFICES ASSUME NEW x \in Node
               PROVE  /\ IsFiniteSet(OfType(x, "in")') /\ IsFiniteSet(OfType(x, "out")')
                      /\ inPeerNum'[x] = Cardinality(OfType(x, "in")')
                      /\ inPeerNum'[x] <= MaxIncoming
                      /\ outPeerNum'[x] >= Cardinality(OfType(x, "out")')
    OBVIOUS
  <2>1. CASE x = n BY <1>6, <2>1
  <2>2. CASE x # n BY <1>3, <1>5, <2>2 DEF CountersInv, CountersAgree
  <2> QED BY <2>1, <2>2
<1> QED BY <1>5, <1>7 DEF CountersInv, CountersAgree

\* ... when peers are removed ...
LEMMA RemovePeersCount ==
  ASSUME TableInv, CountersInv, NEW n \in Node, NEW D, NEW rest, RemovePeers(n, D, rest),
         \A m \in Node : rest[m].type = peers[n][m].type
  PROVE  CountersInv'
<1> DEFINE in == OfType(n, "in")
           out == OfType(n, "out")
<1>2. \A x \in Node : \A y \in Node :
        peers'[x][y].type = IF x = n /\ y \in D THEN "none" ELSE peers[x][y].type
  BY DEF RemovePeers, TableInv, NoPeer
<1>3. \A x \in Node : x # n => /\ OfType(x, "in")' = OfType(x, "in")
                               /\ OfType(x, "out")' = OfType(x, "out")
  BY <1>2 DEF OfType
<1>4. /\ IsFiniteSet(in) /\ IsFiniteSet(out)
      /\ inPeerNum[n] = Cardinality(in) /\ inPeerNum[n] <= MaxIncoming
      /\ outPeerNum[n] >= Cardinality(out)
      /\ inPeerNum[n] \in Int /\ outPeerNum[n] \in Int
  BY DEF CountersInv, CountersAgree
<1>c. D \cap in = in \cap D /\ D \cap out = out \cap D OBVIOUS
<1>d. ASSUME NEW S, IsFiniteSet(S)
      PROVE  /\ IsFiniteSet(S \ D) /\ Cardinality(S \ D) = Cardinality(S) - Cardinality(S \cap D)
             /\ Cardinality(S) \in Nat /\ Cardinality(S \cap D) \in Nat
  BY <1>d, FS_Difference, FS_Intersection, FS_CardinalityType
<1>5. /\ inPeerNum' = [inPeerNum EXCEPT ![n] = @ - Cardinality(D \cap in)]
      /\ outPeerNum' = [outPeerNum EXCEPT ![n] = @ - Cardinality(D \cap out)]
  BY DEF RemovePeers
<1>6. OfType(n, "in")' = in \ D /\ OfType(n, "out")' = out \ D
  BY <1>2 DEF OfType
<1> HIDE DEF in, out
<1>7. /\ IsFiniteSet(in \ D) /\ Cardinality(in \ D) = Cardinality(in) - Cardinality(D \cap in)
      /\ Cardinality(in) \in Nat /\ Cardinality(D \cap in) \in Nat
  BY <1>4, <1>c, <1>d
<1>8. /\ IsFiniteSet(out \ D) /\ Cardinality(out \ D) = Cardinality(out) - Cardinality(D \cap out)
      /\ Cardinality(out) \in Nat /\ Cardinality(D \cap out) \in Nat
  BY <1>4, <1>c, <1>d
<1>9. /\ inPeerNum' \in [Node -> Int] /\ outPeerNum' \in [Node -> Int]
      /\ \A x \in Node : x # n => inPeerNum'[x] = inPeerNum[x] /\ outPeerNum'[x] = outPeerNum[x]
      /\ inPeerNum'[n] = inPeerNum[n] - Cardinality(D \cap in)
      /\ outPeerNum'[n] = outPeerNum[n] - Cardinality(D \cap out)
  BY <1>5, <1>7, <1>8 DEF CountersInv
<1>10. /\ inPeerNum'[n] = Cardinality(in \ D)
       /\ inPeerNum'[n] <= MaxIncoming
       /\ outPeerNum'[n] >= Cardinality(out \ D)
  <2>a. MaxIncoming \in Int BY PeerAssumption
  <2> QED BY <1>4, <1>7, <1>8, <1>9, <2>a
<1>11. \A x \in Node : /\ IsFiniteSet(OfType(x, "in")') /\ IsFiniteSet(OfType(x, "out")')
                      /\ inPeerNum'[x] = Cardinality(OfType(x, "in")')
                      /\ inPeerNum'[x] <= MaxIncoming
                      /\ outPeerNum'[x] >= Cardinality(OfType(x, "out")')
  <2> SUFFICES ASSUME NEW x \in Node
               PROVE  /\ IsFiniteSet(OfType(x, "in")') /\ IsFiniteSet(OfType(x, "out")')
                      /\ inPeerNum'[x] = Cardinality(OfType(x, "in")')
                      /\ inPeerNum'[x] <= MaxIncoming
                      /\ outPeerNum'[x] >= Cardinality(OfType(x, "out")')
    OBVIOUS
  <2>1. CASE x = n BY <1>6, <1>7, <1>8, <1>10, <2>1
  <2>2. CASE x # n BY <1>3, <1>9, <2>2 DEF CountersInv, CountersAgree
  <2> QED BY <2>1, <2>2
<1> QED BY <1>9, <1>11 DEF CountersInv, CountersAgree

\* ... and when peers change but for their type.
LEMMA SameTypesCount ==
  ASSUME CountersInv, inPeerNum' = inPeerNum, outPeerNum' = outPeerNum,
         \A x \in Node : \A y \in Node : peers'[x][y].type = peers[x][y].type
  PROVE  CountersInv'
<1>1. \A x \in Node : /\ OfType(x, "in")' = OfType(x, "in")
                      /\ OfType(x, "out")' = OfType(x, "out")
  BY DEF OfType
<1> QED BY <1>1 DEF CountersInv, CountersAgree

-----------------------------------------------------------------------------
(* What a step does to sockets and streams *)

\* The step closes the descriptors F of n and no other.
Closes(n, F) ==
  /\ \A x \in Node : \A g \in FD :
       sock'[x][g] = IF x = n /\ g \in F THEN NoSocket ELSE sock[x][g]
  /\ SameEnds(conn, conn')
  /\ \A c \in DOMAIN conn : \A x \in Node :
       x \in conn'[c].closed <=> x \in conn[c].closed \/ (x = n /\ \E fd \in F : c = ConnOf(n, fd))

\* No message is added but msg, by n over the connections in L.
Sends(n, L, msg) ==
  \A c \in DOMAIN conn : \A x \in Node : \A w \in Msg :
    Holds(conn'[c].stream[x], w) =>
      Holds(conn[c].stream[x], w) \/ (w = msg /\ c \in L /\ x = Far(c, n))

\* CloseSockets closes descriptors, empties what their ends had to read, and keeps
\* the invariant of the sockets.
LEMMA ClosesFacts ==
  ASSUME SocketInv, NEW n \in Node, NEW F \in SUBSET FD, CloseSockets(n, F),
         status' = status
  PROVE  SocketInv' /\ Closes(n, F) /\ Sends(n, {}, "PING")
<1> DEFINE L == {ConnOf(n, fd) : fd \in F}
<1>1. conn' = Closed(conn, n, L)
      /\ sock' = [sock EXCEPT ![n] = [fd \in FD |-> IF fd \in F THEN NoSocket ELSE @[fd]]]
  BY DEF CloseSockets
<1>2. conn \in Seq(Connection) BY DEF SocketInv
<1>3. \A c : c \in L <=> \E fd \in F : c = ConnOf(n, fd) OBVIOUS
<1> HIDE DEF L
<1>4. /\ SameEnds(conn, conn')
      /\ \A c \in DOMAIN conn : \A x \in Node :
            /\ x \in conn'[c].closed <=> x \in conn[c].closed \/ (c \in L /\ x = n)
            /\ conn'[c].stream[x] = IF c \in L /\ x = n THEN << >> ELSE conn[c].stream[x]
  BY <1>1, <1>2, ClosedFacts
<1>5. Closes(n, F)
  <2>1. \A x \in Node : \A g \in FD :
          sock'[x][g] = IF x = n /\ g \in F THEN NoSocket ELSE sock[x][g]
    BY <1>1 DEF SocketInv
  <2> QED BY <1>3, <1>4, <2>1 DEF Closes
<1>6. Sends(n, {}, "PING")
  <2>1. \A w \in Msg : ~Holds(<< >>, w) BY DEF Holds
  <2> QED BY <1>4, <2>1 DEF Sends
<1>7. SocketInv' BY <1>1, <1>4, ClosingSockets, ZenonT(40) DEF L
<1> QED BY <1>5, <1>6, <1>7

\* The ends and the streams of a connection.
LEMMA TableTypes ==
  ASSUME conn \in Seq(Connection), NEW n \in Node
  PROVE  \A c \in DOMAIN conn :
           /\ conn[c].from \in Node /\ conn[c].to \in Node /\ Far(c, n) \in Node
           /\ \A x \in Node : conn[c].stream[x] \in Seq(Msg)
<1>1. \A c \in DOMAIN conn : conn[c] \in Connection BY TableFacts
<1> QED BY <1>1 DEF Connection, Far

\* The streams after a message was sent over a table that is derived from conn.
LEMMA SendsFacts ==
  ASSUME conn \in Seq(Connection), NEW n \in Node, NEW L, NEW msg \in Msg,
         NEW D, SameEnds(conn, D), conn' = Sent(D, n, L, msg),
         \A c \in DOMAIN conn : \A x \in Node : \A w \in Msg :
            Holds(D[c].stream[x], w) => Holds(conn[c].stream[x], w)
  PROVE  /\ SameEnds(conn, conn') /\ Sends(n, L, msg)
         /\ \A c \in DOMAIN conn : \A x \in Node : x \in conn'[c].closed <=> x \in D[c].closed
<1>1. D \in Seq(Connection) /\ DOMAIN D = DOMAIN conn BY DEF SameEnds
<1>2. \A c \in DOMAIN D : Far(c, n) \in Node BY <1>1, TableTypes
<1>3. /\ SameEnds(D, conn')
      /\ \A c \in DOMAIN D : \A x \in Node :
              /\ x \in conn'[c].closed <=> x \in D[c].closed
              /\ \/ conn'[c].stream[x] = D[c].stream[x]
                 \/ /\ c \in L /\ x = Far(c, n)
                    /\ conn'[c].stream[x] = Append(D[c].stream[x], msg)
  BY <1>1, <1>2, SentFacts
<1>4. SameEnds(conn, conn') BY <1>1, <1>3 DEF SameEnds
<1>5. Sends(n, L, msg)
  <2> SUFFICES ASSUME NEW c \in DOMAIN conn, NEW x \in Node, NEW w \in Msg,
                      Holds(conn'[c].stream[x], w), ~Holds(conn[c].stream[x], w)
               PROVE  w = msg /\ c \in L /\ x = Far(c, n)
    BY DEF Sends
  <2>1. D[c] \in Connection BY <1>1, TableFacts
  <2>2. D[c].stream[x] \in Seq(Msg) BY <2>1 DEF Connection
  <2>3. ~Holds(D[c].stream[x], w) OBVIOUS
  <2>4. c \in L /\ x = Far(c, n) /\ conn'[c].stream[x] = Append(D[c].stream[x], msg)
    BY <1>1, <1>3, <2>3
  <2>5. Holds(Append(D[c].stream[x], msg), w) <=> Holds(D[c].stream[x], w) \/ w = msg
    BY <2>2, StreamFacts
  <2> QED BY <2>3, <2>4, <2>5
<1> QED BY <1>1, <1>3, <1>4, <1>5

\* A handler takes a message from an open socket of a running process.
LEMMA ReceivesFacts ==
  ASSUME SocketInv, NEW n \in Node, NEW fd \in FD, NEW msg \in Msg, Receives(n, fd, msg)
  PROVE  /\ Open(n, fd) /\ Running(n) /\ ConnOf(n, fd) \in DOMAIN conn
         /\ Holds(conn[ConnOf(n, fd)].stream[n], msg)
         /\ SameEnds(conn, Taken(n, fd))
         /\ \A c \in DOMAIN conn : \A x \in Node :
              x \in Taken(n, fd)[c].closed <=> x \in conn[c].closed
         /\ \A c \in DOMAIN conn : \A x \in Node : \A w \in Msg :
              Holds(Taken(n, fd)[c].stream[x], w) => Holds(conn[c].stream[x], w)
<1>1. /\ Running(n) /\ sock[n][fd].type = "data"
      /\ conn[ConnOf(n, fd)].stream[n] # << >>
      /\ Head(conn[ConnOf(n, fd)].stream[n]) = msg
  BY DEF Receives
<1>2. Open(n, fd) BY <1>1 DEF Open, NoSocket
<1>3. ConnOf(n, fd) \in DOMAIN conn /\ conn \in Seq(Connection)
  BY <1>2, FarFacts DEF SocketInv
<1>4. /\ SameEnds(conn, Taken(n, fd))
      /\ \A c \in DOMAIN conn : \A x \in Node :
           /\ x \in Taken(n, fd)[c].closed <=> x \in conn[c].closed
           /\ Taken(n, fd)[c].stream[x] = IF c = ConnOf(n, fd) /\ x = n
                                          THEN Tail(conn[c].stream[x]) ELSE conn[c].stream[x]
  BY <1>1, <1>3, TakenFacts
<1>5. conn[ConnOf(n, fd)].stream[n] \in Seq(Msg) BY <1>3, TableTypes
<1>6. Holds(conn[ConnOf(n, fd)].stream[n], msg) BY <1>1, <1>5, StreamFacts
<1>7. \A w \in Msg : Holds(Tail(conn[ConnOf(n, fd)].stream[n]), w)
                       => Holds(conn[ConnOf(n, fd)].stream[n], w)
  BY <1>1, <1>5, StreamFacts
<1>8. \A c \in DOMAIN conn : \A x \in Node : \A w \in Msg :
        Holds(Taken(n, fd)[c].stream[x], w) => Holds(conn[c].stream[x], w)
  BY <1>4, <1>7
<1> QED BY <1>1, <1>2, <1>3, <1>4, <1>6, <1>8

\* A message is taken, and nothing else happens to the sockets.
LEMMA TakesFacts ==
  ASSUME SocketInv, NEW n \in Node, NEW fd \in FD, NEW msg \in Msg, Receives(n, fd, msg),
         conn' = Taken(n, fd), sock' = sock, status' = status
  PROVE  SocketInv' /\ Closes(n, {}) /\ Sends(n, {}, "PING")
<1>1. /\ SameEnds(conn, conn')
      /\ \A c \in DOMAIN conn : \A x \in Node :
              x \in conn'[c].closed <=> x \in conn[c].closed
      /\ \A c \in DOMAIN conn : \A x \in Node : \A w \in Msg :
              Holds(conn'[c].stream[x], w) => Holds(conn[c].stream[x], w)
  BY ReceivesFacts
<1>2. SocketInv' BY <1>1, StreamsMove
<1> QED BY <1>1, <1>2 DEF Closes, Sends

-----------------------------------------------------------------------------
(* What each step does to the peer table *)

\* The records that AddPeer and RemovePeer put into the table.
LEMMA PeerRecords ==
  /\ NoPeer \in PeerRecord /\ PeerFits(NoPeer) /\ NoPeer.type = "none"
  /\ \A fd \in FD : /\ OutgoingPeer(fd) \in PeerRecord /\ PeerFits(OutgoingPeer(fd))
                    /\ OutgoingPeer(fd).type = "out" /\ OutgoingPeer(fd).tryConnect = TRUE
                    /\ OutgoingPeer(fd).connSocket = fd /\ OutgoingPeer(fd).dataSocket = NoFD
  /\ \A fd \in FD : \A stale \in StaleFD :
                    /\ IncomingPeer(fd, stale) \in PeerRecord /\ PeerFits(IncomingPeer(fd, stale))
                    /\ IncomingPeer(fd, stale).type = "in" /\ IncomingPeer(fd, stale).tryConnect = FALSE
                    /\ IncomingPeer(fd, stale).connSocket = stale
                    /\ IncomingPeer(fd, stale).dataSocket = fd
<1>1. \A fd \in FD : fd # NoFD BY SocketAssumption DEF FD, NoFD
<1> QED BY <1>1 DEF NoPeer, OutgoingPeer, IncomingPeer, PeerRecord, PeerFits

\* AddPeer changes one peer ...
LEMMA AddedPeer ==
  ASSUME TableInv, NEW n \in Node, NEW m \in Node, m # n,
         NEW p \in PeerRecord, PeerFits(p), AddPeer(n, m, p), addrs' = addrs, failed' = failed
  PROVE  /\ TableInv'
         /\ \A x, y \in Node : peers'[x][y] = IF x = n /\ y = m THEN p ELSE peers[x][y]
<1>1. /\ peers' \in [Node -> [Node -> PeerRecord]]
      /\ \A x, y \in Node : peers'[x][y] = IF x = n /\ y = m THEN p ELSE peers[x][y]
  BY DEF AddPeer, TableInv
<1>2. NoSelf' BY <1>1 DEF TableInv, NoSelf
<1> QED BY <1>1, <1>2 DEF TableInv

\* ... RemovePeers those of D, and what rest says of the others ...
LEMMA RemovedPeers ==
  ASSUME TableInv, NEW n \in Node, NEW D, NEW rest, RemovePeers(n, D, rest),
         \A m \in Node : rest[m] \in PeerRecord /\ PeerFits(rest[m]),
         rest[n] = NoPeer, addrs' = addrs, failed' = failed
  PROVE  /\ TableInv'
         /\ \A x, y \in Node :
              peers'[x][y] = IF x = n THEN IF y \in D THEN NoPeer ELSE rest[y] ELSE peers[x][y]
<1>1. NoPeer \in PeerRecord /\ PeerFits(NoPeer) BY PeerRecords
<1>2. /\ peers' \in [Node -> [Node -> PeerRecord]]
      /\ \A x, y \in Node :
           peers'[x][y] = IF x = n THEN IF y \in D THEN NoPeer ELSE rest[y] ELSE peers[x][y]
  BY <1>1 DEF RemovePeers, TableInv
<1>3. NoSelf' BY <1>2 DEF TableInv, NoSelf
<1> QED BY <1>1, <1>2, <1>3 DEF TableInv

\* ... and a step that does neither keeps the invariant of the table.
LEMMA SameTable ==
  ASSUME TableInv, peers' = peers, addrs' = addrs, failed' = failed
  PROVE  TableInv'
  BY DEF TableInv, NoSelf

\* A disconnect closes a descriptor, as no peer is lost.
LEMMA SocketOfPeerFacts ==
  ASSUME TableInv, NEW n \in Node, NEW m \in Peers(n), m \notin Lost(n)
  PROVE  /\ SocketOfPeer(n, m) \in FD
         /\ peers[n][m].tryConnect => SocketOfPeer(n, m) = peers[n][m].connSocket
         /\ ~peers[n][m].tryConnect => SocketOfPeer(n, m) = peers[n][m].dataSocket
<1>1. m \in Node /\ peers[n][m] \in PeerRecord /\ PeerFits(peers[n][m])
  BY DEF TableInv, Peers
<1>2. peers[n][m].tryConnect \/ peers[n][m].dataSocket # NoFD
  BY <1>1 DEF Lost, Active, Trying
<1> QED BY <1>1, <1>2 DEF PeerRecord, PeerFits, SocketOfPeer

\* A connect makes a connecting peer.
LEMMA OpensFacts ==
  ASSUME Fits, NEW n \in Node, NEW m \in Node, Opens(n, m)
  PROVE  /\ Fits'
         /\ \A x, y \in Node : peers'[x][y] = IF x = n /\ y = m THEN OutgoingPeer(FreeFD(n))
                                              ELSE peers[x][y]
         /\ failed' = failed /\ status' = status
<1>1. /\ m # n /\ m \notin Active(n) /\ ConnectSocket(n, m)
      /\ AddPeer(n, m, OutgoingPeer(FreeFD(n)))
      /\ status' = status /\ addrs' = addrs /\ failed' = failed
  BY DEF Opens, ConnectPeer
<1>2. SocketInv' /\ FreeFD(n) \in FD BY <1>1, OpeningSockets DEF Fits
<1>3. PICK p : p = OutgoingPeer(FreeFD(n)) OBVIOUS
<1>4. p \in PeerRecord /\ PeerFits(p) /\ p.type = "out" BY <1>2, <1>3, PeerRecords
<1>5. AddPeer(n, m, p) BY <1>1, <1>3
<1>6. /\ TableInv'
      /\ \A x, y \in Node : peers'[x][y] = IF x = n /\ y = m THEN p ELSE peers[x][y]
  BY <1>1, <1>4, <1>5, AddedPeer DEF Fits
<1>7. CountersInv' BY <1>1, <1>4, <1>5, AddPeerCounts DEF Fits
<1> QED BY <1>1, <1>2, <1>3, <1>6, <1>7 DEF Fits

\* A disconnect removes the peer and closes its socket.
LEMMA DropsFacts ==
  ASSUME Fits, NEW n \in Node, NEW m \in Node, Drops(n, m)
  PROVE  /\ Fits'
         /\ m \in Peers(n) \ Lost(n) /\ SocketOfPeer(n, m) \in FD
         /\ Closes(n, {SocketOfPeer(n, m)}) /\ Sends(n, {}, "PING")
         /\ \A x, y \in Node : peers'[x][y] = IF x = n /\ y = m THEN NoPeer ELSE peers[x][y]
         /\ failed' = failed /\ status' = status
<1>1. /\ m \in Peers(n) /\ {m} \cap Lost(n) = {}
      /\ CloseSockets(n, {SocketOfPeer(n, x) : x \in {m}})
      /\ RemovePeers(n, {m}, peers[n])
      /\ status' = status /\ addrs' = addrs /\ failed' = failed
  BY DEF Drops, DisconnectPeers
<1>2. m \notin Lost(n) /\ {SocketOfPeer(n, x) : x \in {m}} = {SocketOfPeer(n, m)}
  BY <1>1
<1>3. SocketOfPeer(n, m) \in FD BY <1>1, <1>2, SocketOfPeerFacts DEF Fits
<1>4. PICK F : F = {SocketOfPeer(n, m)} OBVIOUS
<1>5. F \in SUBSET FD /\ CloseSockets(n, F) BY <1>1, <1>2, <1>3, <1>4
<1>6. SocketInv' /\ Closes(n, F) /\ Sends(n, {}, "PING")
  BY <1>1, <1>5, ClosesFacts DEF Fits
<1>7. /\ \A y \in Node : peers[n][y] \in PeerRecord /\ PeerFits(peers[n][y])
      /\ peers[n][n] = NoPeer
  BY DEF Fits, TableInv, NoSelf
<1>8. /\ TableInv'
      /\ \A x, y \in Node :
           peers'[x][y] = IF x = n THEN IF y \in {m} THEN NoPeer ELSE peers[n][y] ELSE peers[x][y]
  BY <1>1, <1>7, RemovedPeers DEF Fits
<1>9. CountersInv' BY <1>1, RemovePeersCount DEF Fits
<1> QED BY <1>1, <1>2, <1>3, <1>4, <1>6, <1>8, <1>9 DEF Fits

\* A process that ends keeps its table; some of its ends are closed for it.
LEMMA EndsSteps ==
  ASSUME Fits, NEW n \in Node, NEW why \in HowItEnds, Ends(n, why)
  PROVE  /\ Fits'
         /\ sock' = sock /\ SameEnds(conn, conn')
         /\ status' = [status EXCEPT ![n] = why]
         /\ \A c \in DOMAIN conn : \A x \in Node :
              /\ x \in conn'[c].closed => x \in conn[c].closed \/ x = n
              /\ x \in conn[c].closed => x \in conn'[c].closed
         /\ Sends(n, {}, "PING")
         /\ peers' = peers /\ failed' = failed
<1>1. /\ why # "running" /\ peers' = peers /\ inPeerNum' = inPeerNum /\ outPeerNum' = outPeerNum
      /\ addrs' = addrs /\ failed' = failed
  BY DEF Ends, Cause
<1>2. PICK must : Stop(n, why, must) BY DEF Ends
<1>3. /\ SocketInv'
      /\ sock' = sock /\ SameEnds(conn, conn')
      /\ status' = [status EXCEPT ![n] = why]
      /\ \A c \in DOMAIN conn : \A x \in Node :
           /\ x \in conn'[c].closed => x \in conn[c].closed \/ x = n
           /\ x \in conn[c].closed => x \in conn'[c].closed
           /\ conn'[c].stream[x] = IF x = n THEN << >> ELSE conn[c].stream[x]
  BY <1>1, <1>2, Stopping DEF Fits
<1>4. Sends(n, {}, "PING")
  <2>1. \A w \in Msg : ~Holds(<< >>, w) BY DEF Holds
  <2> QED BY <1>3, <2>1 DEF Sends
<1>5. TableInv' BY <1>1, SameTable DEF Fits
<1>6. CountersInv' BY <1>1, SameTypesCount DEF Fits
<1> QED BY <1>1, <1>3, <1>4, <1>5, <1>6 DEF Fits

\* An accepted connection is nobody's yet.
LEMMA AcceptFacts ==
  ASSUME Fits, NEW n \in Node, NEW c \in DOMAIN conn, Accept(n, c)
  PROVE  /\ Fits' /\ AcceptHandler(n, c)
         /\ peers' = peers /\ failed' = failed /\ status' = status
<1>1. /\ peers' = peers /\ inPeerNum' = inPeerNum /\ outPeerNum' = outPeerNum
      /\ addrs' = addrs /\ failed' = failed /\ status' = status /\ AcceptHandler(n, c)
  BY DEF Accept, AcceptHandler
<1>2. SocketInv' BY <1>1, AcceptingSockets DEF Fits
<1>3. TableInv' BY <1>1, SameTable DEF Fits
<1>4. CountersInv' BY <1>1, SameTypesCount DEF Fits
<1> QED BY <1>1, <1>2, <1>3, <1>4 DEF Fits

\* A connected socket becomes the data socket of one of its owners, which is sent
\* an introduction.
LEMMA SocketConnectFacts ==
  ASSUME Fits, NEW n \in Node, NEW fd \in FD, SocketConnect(n, fd)
  PROVE  /\ Fits'
         /\ sock[n][fd].type = "connect" /\ Open(n, fd)
         /\ \A x \in Node : \A g \in FD :
              sock'[x][g] = IF x = n /\ g = fd
                            THEN [type |-> "data", conn |-> ConnOf(n, fd)] ELSE sock[x][g]
         /\ SameEnds(conn, conn')
         /\ \A c \in DOMAIN conn : \A x \in Node : x \in conn'[c].closed <=> x \in conn[c].closed
         /\ Sends(n, {ConnOf(n, fd)}, "notifyPeerId")
         /\ \E m \in Owners(n, fd) :
              \A x, y \in Node :
                peers'[x][y] = IF x = n /\ y = m
                               THEN [peers[n][m] EXCEPT !.tryConnect = FALSE, !.dataSocket = fd]
                               ELSE peers[x][y]
         /\ failed' = failed /\ status' = status
<1>1. PICK m \in Owners(n, fd) :
        /\ peers' = [peers EXCEPT ![n] = [peers[n] EXCEPT ![m].tryConnect = FALSE,
                                                          ![m].dataSocket = fd]]
        /\ conn' = Sent(conn, n, {ConnOf(n, fd)}, "notifyPeerId")
        /\ addrs' = [addrs EXCEPT ![n] = @ \cup {m}]
  BY DEF SocketConnect
<1>2. /\ sock[n][fd].type = "connect" /\ BecomesData(n, fd)
      /\ inPeerNum' = inPeerNum /\ outPeerNum' = outPeerNum /\ failed' = failed /\ status' = status
  BY DEF SocketConnect, CanConnect
<1>3. conn \in Seq(Connection) BY DEF Fits, SocketInv
<1>4. SameEnds(conn, conn) BY <1>3 DEF SameEnds
<1>5. "notifyPeerId" \in Msg BY DEF Msg
<1>6. /\ SameEnds(conn, conn') /\ Sends(n, {ConnOf(n, fd)}, "notifyPeerId")
      /\ \A c \in DOMAIN conn : \A x \in Node : x \in conn'[c].closed <=> x \in conn[c].closed
  BY <1>1, <1>3, <1>4, <1>5, SendsFacts
<1>7. /\ SocketInv' /\ Open(n, fd)
      /\ \A x \in Node : \A g \in FD :
              sock'[x][g] = IF x = n /\ g = fd
                            THEN [type |-> "data", conn |-> ConnOf(n, fd)] ELSE sock[x][g]
  BY <1>2, <1>6, ConnectedSocket DEF Fits
<1> DEFINE p == [peers[n][m] EXCEPT !.tryConnect = FALSE, !.dataSocket = fd]
<1>8. /\ m \in Node /\ peers[n][m] \in PeerRecord /\ PeerFits(peers[n][m]) /\ peers[n][m] # NoPeer
      /\ m # n /\ peers[n][n] = NoPeer
  BY DEF Owners, Peers, Fits, TableInv, NoSelf
<1>9. fd # NoFD BY SocketAssumption DEF FD, NoFD
<1>10. /\ p \in PeerRecord /\ PeerFits(p) /\ p.type = peers[n][m].type
  BY <1>8, <1>9 DEF PeerRecord, PeerFits
<1>11. peers' = [peers EXCEPT ![n] = [peers[n] EXCEPT ![m] = p]]
  BY <1>1, <1>8 DEF Fits, TableInv
<1> HIDE DEF p
<1>12. /\ peers' \in [Node -> [Node -> PeerRecord]]
       /\ \A x, y \in Node : peers'[x][y] = IF x = n /\ y = m THEN p ELSE peers[x][y]
  BY <1>8, <1>10, <1>11 DEF Fits, TableInv
<1>13. TableInv'
  <2>1. NoSelf' /\ addrs' \in [Node -> SUBSET Node]
    BY <1>1, <1>8, <1>12 DEF Fits, TableInv, NoSelf
  <2> QED BY <1>2, <1>10, <1>12, <2>1 DEF Fits, TableInv
<1>14. CountersInv' BY <1>2, <1>10, <1>12, SameTypesCount DEF Fits
<1> QED BY <1>1, <1>2, <1>6, <1>7, <1>12, <1>13, <1>14 DEF Fits, p

\* A failed connect closes the socket and leaves a peer without one.
LEMMA ConnectFailedFacts ==
  ASSUME Fits, NEW n \in Node, NEW fd \in FD, SocketConnectFailed(n, fd)
  PROVE  /\ Fits' /\ Open(n, fd) /\ sock[n][fd].type = "connect"
         /\ Closes(n, {fd}) /\ Sends(n, {}, "PING")
         /\ \A x, y \in Node :
              peers'[x][y] = IF x = n /\ y = conn[ConnOf(n, fd)].to
                             THEN [peers[x][y] EXCEPT !.tryConnect = FALSE] ELSE peers[x][y]
         /\ failed \in Nat /\ failed' = failed + 1 /\ status' = status
<1> DEFINE m == conn[ConnOf(n, fd)].to
<1>1. /\ sock[n][fd].type = "connect" /\ failed < MaxFailed /\ failed' = failed + 1
      /\ CloseSockets(n, {fd})
      /\ peers' = [peers EXCEPT ![n][m].tryConnect = FALSE]
      /\ inPeerNum' = inPeerNum /\ outPeerNum' = outPeerNum /\ addrs' = addrs /\ status' = status
  BY DEF SocketConnectFailed, ConnectFails
<1>2. Open(n, fd) BY <1>1 DEF Open, NoSocket
<1>3. PICK F \in SUBSET FD : F = {fd} OBVIOUS
<1>4. SocketInv' /\ Closes(n, F) /\ Sends(n, {}, "PING")
  BY <1>1, <1>3, ClosesFacts DEF Fits
<1>5. m \in Node
  <2>1. ConnOf(n, fd) \in DOMAIN conn /\ conn \in Seq(Connection)
    BY <1>2, FarFacts DEF Fits, SocketInv
  <2> QED BY <2>1, TableTypes
<1> HIDE DEF m
<1> DEFINE p == [peers[n][m] EXCEPT !.tryConnect = FALSE]
<1>6. /\ peers[n][m] \in PeerRecord /\ PeerFits(peers[n][m]) /\ peers[n][n] = NoPeer
  BY <1>5 DEF Fits, TableInv, NoSelf
<1>7. /\ p \in PeerRecord /\ PeerFits(p) /\ p.type = peers[n][m].type
      /\ peers[n][m] = NoPeer => p = NoPeer
  <2>1. peers[n][m] = NoPeer => p = NoPeer
    <3> SUFFICES ASSUME peers[n][m] = NoPeer PROVE [NoPeer EXCEPT !.tryConnect = FALSE] = NoPeer
      OBVIOUS
    <3>1. NoPeer \in PeerRecord /\ NoPeer.tryConnect = FALSE
      BY PeerRecords DEF NoPeer
    <3> QED BY <3>1 DEF PeerRecord
  <2>2. /\ p \in PeerRecord /\ p.type = peers[n][m].type
        /\ p.connSocket = peers[n][m].connSocket /\ p.dataSocket = peers[n][m].dataSocket
        /\ p.tryConnect = FALSE
    BY <1>6 DEF PeerRecord
  <2> HIDE DEF p
  <2> QED BY <1>6, <2>1, <2>2 DEF PeerFits
<1>8. peers' = [peers EXCEPT ![n][m] = p]
  BY <1>1
<1> HIDE DEF p
<1>9. /\ peers' \in [Node -> [Node -> PeerRecord]]
      /\ \A x, y \in Node : peers'[x][y] = IF x = n /\ y = m THEN p ELSE peers[x][y]
  BY <1>5, <1>7, <1>8 DEF Fits, TableInv
<1>10. TableInv'
  <2>1. NoSelf' BY <1>1, <1>7, <1>9 DEF Fits, TableInv, NoSelf
  <2>2. failed' \in 0..MaxFailed BY <1>1, PeerAssumption DEF Fits, TableInv
  <2> QED BY <1>1, <1>7, <1>9, <2>1, <2>2 DEF Fits, TableInv
<1>11. CountersInv' BY <1>1, <1>7, <1>9, SameTypesCount DEF Fits
<1>12. failed \in Nat BY PeerAssumption DEF Fits, TableInv
<1>13. \A x, y \in Node :
         peers'[x][y] = IF x = n /\ y = m
                        THEN [peers[x][y] EXCEPT !.tryConnect = FALSE] ELSE peers[x][y]
  BY <1>9 DEF p
<1> QED BY <1>1, <1>2, <1>3, <1>4, <1>10, <1>11, <1>12, <1>13 DEF Fits, m

\* An end of file closes the socket and removes one peer that has it, if any.
LEMMA SocketCloseFacts ==
  ASSUME Fits, NEW n \in Node, NEW fd \in FD, SocketClose(n, fd)
  PROVE  /\ Fits' /\ Open(n, fd) /\ sock[n][fd].type = "data"
         /\ Closes(n, {fd}) /\ Sends(n, {}, "PING")
         /\ \/ /\ peers' = peers
               /\ \A m \in Node : peers[n][m].dataSocket # fd
            \/ \E m \in Node :
                 /\ peers[n][m].dataSocket = fd
                 /\ \A x, y \in Node :
                      peers'[x][y] = IF x = n /\ y = m THEN NoPeer ELSE peers[x][y]
         /\ failed' = failed /\ status' = status
<1>1. /\ sock[n][fd].type = "data" /\ CloseSockets(n, {fd})
      /\ addrs' = addrs /\ failed' = failed /\ status' = status
  BY DEF SocketClose, ReadsEndOfFile
<1>2. Open(n, fd) BY <1>1 DEF Open, NoSocket
<1>3. PICK F \in SUBSET FD : F = {fd} OBVIOUS
<1>4. SocketInv' /\ Closes(n, F) /\ Sends(n, {}, "PING")
  BY <1>1, <1>3, ClosesFacts DEF Fits
<1> DEFINE D == {m \in Node : peers[n][m].dataSocket = fd}
<1>5. \/ D = {} /\ UNCHANGED peerVars
      \/ \E m \in D : RemovePeers(n, {m}, peers[n])
  BY DEF SocketClose
<1>6. CASE D = {} /\ UNCHANGED peerVars
  <2>1. peers' = peers /\ inPeerNum' = inPeerNum /\ outPeerNum' = outPeerNum
    BY <1>6 DEF peerVars
  <2>2. TableInv' BY <1>1, <2>1, SameTable DEF Fits
  <2>3. CountersInv' BY <2>1, SameTypesCount DEF Fits
  <2> QED BY <1>1, <1>2, <1>3, <1>4, <1>6, <2>1, <2>2, <2>3 DEF Fits
<1>7. ASSUME NEW m \in D, RemovePeers(n, {m}, peers[n])
      PROVE  /\ TableInv' /\ CountersInv'
             /\ \A x, y \in Node :
                  peers'[x][y] = IF x = n /\ y = m THEN NoPeer ELSE peers[x][y]
  <2>1. /\ \A y \in Node : peers[n][y] \in PeerRecord /\ PeerFits(peers[n][y])
        /\ peers[n][n] = NoPeer
    BY DEF Fits, TableInv, NoSelf
  <2>2. /\ TableInv'
        /\ \A x, y \in Node :
             peers'[x][y] = IF x = n THEN IF y \in {m} THEN NoPeer ELSE peers[n][y] ELSE peers[x][y]
    BY <1>1, <1>7, <2>1, RemovedPeers DEF Fits
  <2>3. CountersInv' BY <1>7, RemovePeersCount DEF Fits
  <2> QED BY <2>2, <2>3
<1> QED BY <1>1, <1>2, <1>3, <1>4, <1>5, <1>6, <1>7 DEF Fits

\* An introduction is ignored, turned away, or makes an incoming peer.
Ignored(n, fd) ==
  /\ Far(ConnOf(n, fd), n) \in Active(n)
  /\ Closes(n, {}) /\ peers' = peers
TurnedAway(n, fd) ==
  /\ Far(ConnOf(n, fd), n) \notin Active(n) /\ inPeerNum[n] >= MaxIncoming
  /\ Closes(n, {fd}) /\ peers' = peers
Introduced(n, fd) ==
  /\ Far(ConnOf(n, fd), n) \notin Active(n)
  /\ Closes(n, {})
  /\ \E stale \in StaleFD : \A x, y \in Node :
       peers'[x][y] = IF x = n /\ y = Far(ConnOf(n, fd), n) THEN IncomingPeer(fd, stale)
                                                            ELSE peers[x][y]
\* An introduction sends nothing and has one of the three outcomes.
LEMMA PeerNotifyFacts ==
  ASSUME Fits, NEW n \in Node, NEW fd \in FD, PeerNotify(n, fd)
  PROVE  /\ Fits' /\ Open(n, fd) /\ sock[n][fd].type = "data"
         /\ Holds(conn[ConnOf(n, fd)].stream[n], "notifyPeerId")
         /\ Sends(n, {}, "PING")
         /\ Ignored(n, fd) \/ TurnedAway(n, fd) \/ Introduced(n, fd)
         /\ failed' = failed /\ status' = status
<1> DEFINE m == Far(ConnOf(n, fd), n)
<1>1. /\ Receives(n, fd, "notifyPeerId") /\ sock[n][fd].type = "data"
      /\ addrs' = addrs /\ failed' = failed /\ status' = status
  BY DEF PeerNotify, Receives
<1>2. "notifyPeerId" \in Msg BY DEF Msg
<1>3. Open(n, fd) /\ Holds(conn[ConnOf(n, fd)].stream[n], "notifyPeerId")
  BY <1>1, <1>2, ReceivesFacts DEF Fits
<1>4. m \in Node /\ m # n BY <1>3, FarFacts DEF Fits
<1>5. CASE m \in Active(n) /\ conn' = Taken(n, fd) /\ UNCHANGED << sock, peerVars >>
  <2>1. sock' = sock /\ peers' = peers /\ inPeerNum' = inPeerNum /\ outPeerNum' = outPeerNum
    BY <1>5 DEF peerVars
  <2>2. SocketInv' /\ Closes(n, {}) /\ Sends(n, {}, "PING")
    BY <1>1, <1>2, <1>5, <2>1, TakesFacts DEF Fits
  <2>3. TableInv' BY <1>1, <2>1, SameTable DEF Fits
  <2>4. CountersInv' BY <2>1, SameTypesCount DEF Fits
  <2> QED BY <1>1, <1>3, <1>5, <2>1, <2>2, <2>3, <2>4 DEF Fits, Ignored
<1>6. CASE /\ m \notin Active(n) /\ inPeerNum[n] >= MaxIncoming
           /\ CloseSockets(n, {fd}) /\ UNCHANGED peerVars
  <2>1. peers' = peers /\ inPeerNum' = inPeerNum /\ outPeerNum' = outPeerNum
    BY <1>6 DEF peerVars
  <2>2. PICK F \in SUBSET FD : F = {fd} OBVIOUS
  <2>3. SocketInv' /\ Closes(n, F) /\ Sends(n, {}, "PING")
    BY <1>1, <1>6, <2>2, ClosesFacts DEF Fits
  <2>4. TableInv' BY <1>1, <2>1, SameTable DEF Fits
  <2>5. CountersInv' BY <2>1, SameTypesCount DEF Fits
  <2> QED BY <1>1, <1>3, <1>6, <2>1, <2>2, <2>3, <2>4, <2>5 DEF Fits, TurnedAway
<1>7. CASE /\ m \notin Active(n) /\ inPeerNum[n] < MaxIncoming
           /\ \E stale \in StaleFD : AddPeer(n, m, IncomingPeer(fd, stale))
           /\ conn' = Taken(n, fd) /\ UNCHANGED sock
  <2>1. sock' = sock BY <1>7
  <2>2. SocketInv' /\ Closes(n, {}) /\ Sends(n, {}, "PING")
    BY <1>1, <1>2, <1>7, <2>1, TakesFacts DEF Fits
  <2>3. PICK stale \in StaleFD : AddPeer(n, m, IncomingPeer(fd, stale)) BY <1>7
  <2>4. PICK p : p = IncomingPeer(fd, stale) OBVIOUS
  <2>5. p \in PeerRecord /\ PeerFits(p) /\ p.type = "in" BY <2>4, PeerRecords
  <2>6. AddPeer(n, m, p) BY <2>3, <2>4
  <2> HIDE DEF m
  <2>7. /\ TableInv'
        /\ \A x, y \in Node : peers'[x][y] = IF x = n /\ y = m THEN p ELSE peers[x][y]
    BY <1>1, <1>4, <2>5, <2>6, AddedPeer DEF Fits
  <2>8. CountersInv' BY <1>4, <1>7, <2>5, <2>6, AddPeerCounts DEF Fits
  <2>9. Introduced(n, fd) BY <1>7, <2>2, <2>4, <2>7 DEF Introduced, m
  <2> QED BY <1>1, <1>3, <2>2, <2>7, <2>8, <2>9 DEF Fits
<1> QED BY <1>5, <1>6, <1>7 DEF PeerNotify

\* The PONG for a PING goes to the socket of the peer, if there is one.
LEMMA RecvPingFacts ==
  ASSUME Fits, NEW n \in Node, NEW fd \in FD, RecvPing(n, fd)
  PROVE  /\ Fits' /\ Open(n, fd) /\ Running(n)
         /\ Holds(conn[ConnOf(n, fd)].stream[n], "PING")
         /\ Closes(n, {})
         /\ \E L : /\ Sends(n, L, "PONG")
                   /\ \A c \in L :
                        /\ peers[n][Far(ConnOf(n, fd), n)].dataSocket # NoFD
                        /\ c = ConnOf(n, peers[n][Far(ConnOf(n, fd), n)].dataSocket)
         /\ peers' = peers /\ failed' = failed /\ status' = status
<1> DEFINE m == Far(ConnOf(n, fd), n)
           L == {ConnOf(n, peers[n][x].dataSocket) : x \in {x \in {m} : peers[n][x].dataSocket # NoFD}}
<1>1. /\ Receives(n, fd, "PING") /\ conn' = Sent(Taken(n, fd), n, L, "PONG")
      /\ sock' = sock /\ peers' = peers /\ inPeerNum' = inPeerNum /\ outPeerNum' = outPeerNum
      /\ addrs' = addrs /\ failed' = failed /\ status' = status
  BY DEF RecvPing, SendMsgToPeers
<1>2. \A c \in L : peers[n][m].dataSocket # NoFD /\ c = ConnOf(n, peers[n][m].dataSocket)
  OBVIOUS
<1> HIDE DEF L
<1>3. "PING" \in Msg /\ "PONG" \in Msg BY DEF Msg
<1> DEFINE D == Taken(n, fd)
<1>4. /\ Open(n, fd) /\ Running(n) /\ Holds(conn[ConnOf(n, fd)].stream[n], "PING")
      /\ SameEnds(conn, D)
      /\ \A c \in DOMAIN conn : \A x \in Node : x \in D[c].closed <=> x \in conn[c].closed
      /\ \A c \in DOMAIN conn : \A x \in Node : \A w \in Msg :
              Holds(D[c].stream[x], w) => Holds(conn[c].stream[x], w)
  BY <1>1, <1>3, ReceivesFacts DEF Fits
<1>5. conn' = Sent(D, n, L, "PONG") BY <1>1
<1> HIDE DEF D
<1>6. conn \in Seq(Connection) BY DEF Fits, SocketInv
<1>7. /\ SameEnds(conn, conn') /\ Sends(n, L, "PONG")
      /\ \A c \in DOMAIN conn : \A x \in Node : x \in conn'[c].closed <=> x \in D[c].closed
  BY <1>3, <1>4, <1>5, <1>6, SendsFacts
<1>8. /\ SocketInv' /\ Closes(n, {})
  <2>1. \A c \in DOMAIN conn : \A x \in Node : x \in conn'[c].closed <=> x \in conn[c].closed
    BY <1>4, <1>7
  <2>2. SocketInv' BY <1>1, <1>7, <2>1, StreamsMove DEF Fits
  <2> QED BY <1>1, <1>7, <2>1, <2>2 DEF Closes
<1>9. TableInv' BY <1>1, SameTable DEF Fits
<1>10. CountersInv' BY <1>1, SameTypesCount DEF Fits
<1> QED BY <1>1, <1>2, <1>4, <1>7, <1>8, <1>9, <1>10 DEF Fits

\* A PONG changes nothing of a peer but that it answered.
LEMMA AnsweredFacts ==
  ASSUME Fits, NEW n \in Node, NEW fd \in FD, Answered(n, fd)
  PROVE  /\ Fits' /\ Closes(n, {}) /\ Sends(n, {}, "PING")
         /\ \A x, y \in Node :
              /\ peers'[x][y].type = peers[x][y].type
              /\ peers'[x][y].connSocket = peers[x][y].connSocket
              /\ peers'[x][y].dataSocket = peers[x][y].dataSocket
              /\ peers'[x][y].tryConnect = peers[x][y].tryConnect
         /\ failed' = failed /\ status' = status
<1> DEFINE m == Far(ConnOf(n, fd), n)
<1>1. /\ Receives(n, fd, "PONG") /\ m \in Peers(n)
      /\ peers' = [peers EXCEPT ![n][m].pongReceived = TRUE]
      /\ conn' = Taken(n, fd)
      /\ sock' = sock /\ inPeerNum' = inPeerNum /\ outPeerNum' = outPeerNum
      /\ addrs' = addrs /\ failed' = failed /\ status' = status
  BY DEF Answered
<1>2. "PONG" \in Msg BY DEF Msg
<1>3. SocketInv' /\ Closes(n, {}) /\ Sends(n, {}, "PING")
  BY <1>1, <1>2, TakesFacts DEF Fits
<1> HIDE DEF m
<1>4. m \in Node /\ m # n BY <1>1 DEF Peers, Fits, TableInv, NoSelf
<1> DEFINE p == [peers[n][m] EXCEPT !.pongReceived = TRUE]
<1>5. peers[n][m] \in PeerRecord /\ PeerFits(peers[n][m]) /\ peers[n][m] # NoPeer
  BY <1>1, <1>4 DEF Fits, TableInv, Peers
<1>6. /\ p \in PeerRecord /\ p.type = peers[n][m].type
      /\ p.connSocket = peers[n][m].connSocket /\ p.dataSocket = peers[n][m].dataSocket
      /\ p.tryConnect = peers[n][m].tryConnect
  BY <1>5 DEF PeerRecord
<1>7. peers' = [peers EXCEPT ![n][m] = p] BY <1>1
<1> HIDE DEF p
<1>8. PeerFits(p) BY <1>5, <1>6 DEF PeerFits
<1>9. /\ peers' \in [Node -> [Node -> PeerRecord]]
      /\ \A x, y \in Node : peers'[x][y] = IF x = n /\ y = m THEN p ELSE peers[x][y]
  BY <1>4, <1>6, <1>7 DEF Fits, TableInv
<1>10. TableInv'
  <2>1. NoSelf' BY <1>1, <1>4, <1>9 DEF Fits, TableInv, NoSelf
  <2> QED BY <1>1, <1>8, <1>9, <2>1 DEF Fits, TableInv
<1>11. \A x, y \in Node :
              /\ peers'[x][y].type = peers[x][y].type
              /\ peers'[x][y].connSocket = peers[x][y].connSocket
              /\ peers'[x][y].dataSocket = peers[x][y].dataSocket
              /\ peers'[x][y].tryConnect = peers[x][y].tryConnect
  BY <1>6, <1>9
<1>12. CountersInv' BY <1>1, <1>11, SameTypesCount DEF Fits
<1> QED BY <1>1, <1>3, <1>10, <1>11, <1>12 DEF Fits

\* An ADDR message changes neither sockets nor peers.
LEMMA RecvAddrFacts ==
  ASSUME Fits, NEW n \in Node, NEW m \in Node, RecvAddr(n, m)
  PROVE  /\ Fits'
         /\ sock' = sock /\ conn' = conn /\ peers' = peers /\ failed' = failed /\ status' = status
<1>1. /\ addrs' = [addrs EXCEPT ![n] = @ \cup {m}] /\ m # n
      /\ sock' = sock /\ conn' = conn /\ peers' = peers /\ failed' = failed /\ status' = status
      /\ inPeerNum' = inPeerNum /\ outPeerNum' = outPeerNum
  BY DEF RecvAddr
<1>2. SameEnds(conn, conn') BY <1>1 DEF SameEnds, Fits, SocketInv
<1>3. SocketInv' BY <1>1, <1>2, StreamsMove DEF Fits
<1>4. TableInv'
  <2>1. addrs' \in [Node -> SUBSET Node] /\ NoSelf'
    BY <1>1 DEF Fits, TableInv, NoSelf
  <2> QED BY <1>1, <2>1 DEF Fits, TableInv
<1>5. CountersInv' BY <1>1, SameTypesCount DEF Fits
<1> QED BY <1>1, <1>3, <1>4, <1>5 DEF Fits

\* The peers of n that did not answer, and their sockets.
Late(n) == {m \in Peers(n) : ~peers[n][m].pongReceived}
LateSockets(n) == {SocketOfPeer(n, m) : m \in Late(n)}
\* The ping timer removes the late peers with their sockets and asks the others over
\* theirs.
LEMMA PingsFacts ==
  ASSUME Fits, NEW n \in Node, Pings(n)
  PROVE  /\ Fits' /\ Running(n)
         /\ Late(n) \cap Lost(n) = {}
         /\ LateSockets(n) \in SUBSET FD /\ Closes(n, LateSockets(n))
         /\ \E L : /\ Sends(n, L, "PING")
                   /\ \A c \in L : \E m \in Peers(n) \ Late(n) :
                        peers[n][m].dataSocket # NoFD /\ c = ConnOf(n, peers[n][m].dataSocket)
         /\ \A x, y \in Node :
              IF x = n /\ y \in Late(n) THEN peers'[x][y] = NoPeer
              ELSE /\ peers'[x][y].type = peers[x][y].type
                   /\ peers'[x][y].connSocket = peers[x][y].connSocket
                   /\ peers'[x][y].dataSocket = peers[x][y].dataSocket
                   /\ peers'[x][y].tryConnect = peers[x][y].tryConnect
         /\ failed' = failed /\ status' = status
<1> DEFINE F == LateSockets(n)
           M == {ConnOf(n, fd) : fd \in F}
           L == {ConnOf(n, peers[n][m].dataSocket) :
                   m \in {m \in Peers(n) \ Late(n) : peers[n][m].dataSocket # NoFD}}
           D == Closed(conn, n, M)
<1>1. /\ Running(n) /\ Late(n) \cap Lost(n) = {}
      /\ conn' = Sent(D, n, L, "PING")
      /\ sock' = [sock EXCEPT ![n] = [fd \in FD |-> IF fd \in F THEN NoSocket ELSE @[fd]]]
      /\ RemovePeers(n, Late(n), Asked(n))
      /\ addrs' = addrs /\ failed' = failed /\ status' = status
  BY DEF Pings, SendMsgToPeers, Late, LateSockets
<1>2. \A c \in L : \E m \in Peers(n) \ Late(n) :
        peers[n][m].dataSocket # NoFD /\ c = ConnOf(n, peers[n][m].dataSocket)
  OBVIOUS
<1>3. \A c : c \in M <=> \E fd \in F : c = ConnOf(n, fd) OBVIOUS
<1>4. F \in SUBSET FD
  <2> SUFFICES ASSUME NEW m \in Late(n) PROVE SocketOfPeer(n, m) \in FD BY DEF LateSockets
  <2>1. m \in Peers(n) /\ m \notin Lost(n) BY <1>1 DEF Late
  <2> QED BY <2>1, SocketOfPeerFacts DEF Fits
<1>5. conn \in Seq(Connection) BY DEF Fits, SocketInv
<1>m. SocketInv BY DEF Fits
<1> HIDE DEF L, M, D, F
<1>6. /\ SameEnds(conn, D)
      /\ \A c \in DOMAIN conn : \A x \in Node :
            /\ x \in D[c].closed <=> x \in conn[c].closed \/ (c \in M /\ x = n)
            /\ D[c].stream[x] = IF c \in M /\ x = n THEN << >> ELSE conn[c].stream[x]
  BY <1>5, ClosedFacts DEF D
<1>7. \A c \in DOMAIN conn : \A x \in Node : \A w \in Msg :
        Holds(D[c].stream[x], w) => Holds(conn[c].stream[x], w)
  <2>1. \A w \in Msg : ~Holds(<< >>, w) BY DEF Holds
  <2> QED BY <1>6, <2>1
<1>8. "PING" \in Msg BY DEF Msg
<1>9. /\ SameEnds(conn, conn') /\ Sends(n, L, "PING")
      /\ \A c \in DOMAIN conn : \A x \in Node : x \in conn'[c].closed <=> x \in D[c].closed
  BY <1>1, <1>5, <1>6, <1>7, <1>8, SendsFacts
<1>10. \A c \in DOMAIN conn : \A x \in Node :
         x \in conn'[c].closed <=> x \in conn[c].closed \/ (x = n /\ c \in M)
  BY <1>6, <1>9
<1>11. Closes(n, F)
  <2>1. \A x \in Node : \A g \in FD :
          sock'[x][g] = IF x = n /\ g \in F THEN NoSocket ELSE sock[x][g]
    BY <1>1 DEF Fits, SocketInv
  <2> QED BY <1>3, <1>9, <1>10, <2>1 DEF Closes
<1>12. SocketInv' BY <1>1, <1>4, <1>9, <1>10, <1>m, ClosingSockets DEF M
<1>13. \A m \in Node :
         /\ Asked(n)[m] \in PeerRecord /\ PeerFits(Asked(n)[m])
         /\ Asked(n)[m].type = peers[n][m].type
         /\ Asked(n)[m].connSocket = peers[n][m].connSocket
         /\ Asked(n)[m].dataSocket = peers[n][m].dataSocket
         /\ Asked(n)[m].tryConnect = peers[n][m].tryConnect
  <2> SUFFICES ASSUME NEW m \in Node
               PROVE  /\ Asked(n)[m] \in PeerRecord /\ PeerFits(Asked(n)[m])
                      /\ Asked(n)[m].type = peers[n][m].type
                      /\ Asked(n)[m].connSocket = peers[n][m].connSocket
                      /\ Asked(n)[m].dataSocket = peers[n][m].dataSocket
                      /\ Asked(n)[m].tryConnect = peers[n][m].tryConnect
    OBVIOUS
  <2> DEFINE p == [peers[n][m] EXCEPT !.pongReceived = FALSE]
  <2>1. peers[n][m] \in PeerRecord /\ PeerFits(peers[n][m]) BY DEF Fits, TableInv
  <2>2. Asked(n)[m] = IF m \in Peers(n) THEN p ELSE NoPeer BY DEF Asked
  <2>3. /\ p \in PeerRecord /\ p.type = peers[n][m].type
        /\ p.connSocket = peers[n][m].connSocket /\ p.dataSocket = peers[n][m].dataSocket
        /\ p.tryConnect = peers[n][m].tryConnect
    BY <2>1 DEF PeerRecord
  <2> HIDE DEF p
  <2>4. CASE m \in Peers(n)
    <3>1. PeerFits(p) BY <2>1, <2>3, <2>4 DEF PeerFits, Peers
    <3> QED BY <2>2, <2>3, <2>4, <3>1
  <2>5. CASE m \notin Peers(n)
    <3>1. peers[n][m] = NoPeer BY <2>5 DEF Peers
    <3> QED BY <2>1, <2>2, <2>5, <3>1
  <2> QED BY <2>4, <2>5
<1>14. Asked(n)[n] = NoPeer BY DEF Asked, Peers, Fits, TableInv, NoSelf
<1>15. /\ TableInv'
       /\ \A x, y \in Node :
            peers'[x][y] = IF x = n THEN IF y \in Late(n) THEN NoPeer ELSE Asked(n)[y]
                           ELSE peers[x][y]
  BY <1>1, <1>13, <1>14, RemovedPeers DEF Fits
<1>16. CountersInv' BY <1>1, <1>13, RemovePeersCount DEF Fits
<1>17. \A x, y \in Node :
              IF x = n /\ y \in Late(n) THEN peers'[x][y] = NoPeer
              ELSE /\ peers'[x][y].type = peers[x][y].type
                   /\ peers'[x][y].connSocket = peers[x][y].connSocket
                   /\ peers'[x][y].dataSocket = peers[x][y].dataSocket
                   /\ peers'[x][y].tryConnect = peers[x][y].tryConnect
  BY <1>13, <1>15
<1> QED BY <1>1, <1>2, <1>4, <1>9, <1>11, <1>12, <1>15, <1>16, <1>17 DEF Fits, F

-----------------------------------------------------------------------------
(* Types and counters *)

\* The initial state satisfies Fits.
LEMMA FitsInit == ASSUME Init PROVE Fits
<1>1. /\ sock = [n \in Node |-> [fd \in FD |-> NoSocket]] /\ conn = << >>
      /\ status = [n \in Node |-> "running"]
      /\ peers = [n \in Node |-> [m \in Node |-> NoPeer]]
      /\ inPeerNum = [n \in Node |-> 0] /\ outPeerNum = [n \in Node |-> 0]
      /\ addrs = [n \in Node |-> {}] /\ failed = 0
  BY DEF Init, SocketInit
<1>2. SocketInv
  <2>1. conn \in Seq(Connection) /\ Len(conn) = 0 BY <1>1, EmptySeq
  <2>2. DOMAIN conn = 1..Len(conn) BY <2>1, TableFacts
  <2>3. ConnsFit BY <2>1, <2>2, SocketAssumption DEF ConnsFit
  <2>4. NoSocket \in Socket BY SocketAssumption DEF NoSocket, Socket
  <2>5. SocketsFit BY <1>1 DEF SocketsFit, OneDescriptor, Open
  <2> QED BY <1>1, <2>1, <2>3, <2>4, <2>5 DEF SocketInv, HowItEnds
<1>3. TableInv
  <2>1. NoPeer \in PeerRecord /\ PeerFits(NoPeer) BY PeerRecords
  <2> QED BY <1>1, <2>1, PeerAssumption DEF TableInv, NoSelf
<1>4. CountersInv
  <2>1. \A n \in Node : OfType(n, "in") = {} /\ OfType(n, "out") = {}
    BY <1>1, PeerRecords DEF OfType
  <2>2. IsFiniteSet({}) /\ Cardinality({}) = 0 BY FS_EmptySet
  <2>3. inPeerNum \in [Node -> Int] /\ outPeerNum \in [Node -> Int] BY <1>1
  <2>4. \A n \in Node : inPeerNum[n] = 0 /\ outPeerNum[n] = 0 BY <1>1
  <2>5. MaxIncoming >= 0 BY PeerAssumption
  <2>6. CountersAgree BY <2>1, <2>2, <2>4, <2>5 DEF CountersAgree
  <2> QED BY <2>1, <2>2, <2>3, <2>6 DEF CountersInv
<1> QED BY <1>2, <1>3, <1>4 DEF Fits

\* Every step of the system keeps Fits.
LEMMA FitsStep == ASSUME Fits, [Next]_vars PROVE Fits'
<1>1. CASE UNCHANGED vars
  <2>1. /\ sock' = sock /\ conn' = conn /\ status' = status /\ peers' = peers
        /\ inPeerNum' = inPeerNum /\ outPeerNum' = outPeerNum /\ addrs' = addrs /\ failed' = failed
    BY <1>1 DEF vars
  <2>2. SameEnds(conn, conn') BY <2>1 DEF SameEnds, Fits, SocketInv
  <2>3. SocketInv' BY <2>1, <2>2, StreamsMove DEF Fits
  <2>4. TableInv' BY <2>1, SameTable DEF Fits
  <2>5. CountersInv' BY <2>1, SameTypesCount DEF Fits
  <2> QED BY <2>3, <2>4, <2>5 DEF Fits
<1>2. CASE Next
  <2>1. PICK n \in Node : Step(n) BY <1>2, NextForms DEF Fits, TableInv
  <2>2. ASSUME NEW m \in Node, Opens(n, m) PROVE Fits' BY <2>2, OpensFacts
  <2>3. ASSUME NEW m \in Node, Drops(n, m) PROVE Fits' BY <2>3, DropsFacts
  <2>4. ASSUME NEW m \in Node, RecvAddr(n, m) PROVE Fits' BY <2>4, RecvAddrFacts
  <2>5. ASSUME NEW why \in HowItEnds, Ends(n, why) PROVE Fits' BY <2>5, EndsSteps
  <2>6. ASSUME NEW c \in DOMAIN conn, Accept(n, c) PROVE Fits' BY <2>6, AcceptFacts
  <2>7. ASSUME NEW fd \in FD, OnSocket(n, fd) PROVE Fits'
    BY <2>7, SocketConnectFacts, ConnectFailedFacts, SocketCloseFacts, PeerNotifyFacts,
       RecvPingFacts, AnsweredFacts DEF OnSocket
  <2>8. CASE Pings(n) BY <2>8, PingsFacts
  <2> QED BY <2>1, <2>2, <2>3, <2>4, <2>5, <2>6, <2>7, <2>8 DEF Step
<1> QED BY <1>1, <1>2

\* Fits holds in every state of the system.
LEMMA FitsInvariance == Spec => []Fits
<1>1. Init => Fits BY FitsInit
<1>2. Fits /\ [Next]_vars => Fits' BY FitsStep
<1> QED BY <1>1, <1>2, PTL DEF Spec

\* Every variable has the type of the member it stands for: ConnectSocket and
\* AcceptHandler find a free descriptor, whatever was opened and closed before.
THEOREM TypeCorrect == Spec => []TypeOK
<1>1. Fits => TypeOK
  BY DEF Fits, SocketInv, TableInv, CountersInv, TypeOK, Socket, Connection, Msg
<1> QED BY <1>1, FitsInvariance, PTL

\* The counters of PeerManager follow its table on every path that overwrites
\* or removes peers (PeerManager.cpp:17-46).
THEOREM CountersFollowTable == Spec => []CountersAgree
<1>1. Fits => CountersAgree BY DEF Fits, CountersInv
<1> QED BY <1>1, FitsInvariance, PTL

\* Only a node with as many incoming peers as it may have turns a connection
\* away (PeerConnectivityLayer_API.cpp:251).
THEOREM OnlyFullNodesTurnAway == Spec => TurnedAwayWhenFull
<1> DEFINE A == \A n \in Node : \A fd \in FD :
                  PeerNotify(n, fd) /\ sock'[n][fd] = NoSocket
                    => Cardinality(OfType(n, "in")) >= MaxIncoming
<1>1. Fits /\ [Next]_vars => [A]_vars
  <2> SUFFICES ASSUME Fits, NEW n \in Node, NEW fd \in FD, PeerNotify(n, fd),
                      sock'[n][fd] = NoSocket
               PROVE  Cardinality(OfType(n, "in")) >= MaxIncoming
    OBVIOUS
  <2>1. /\ Open(n, fd)
        /\ Ignored(n, fd) \/ TurnedAway(n, fd) \/ Introduced(n, fd)
    BY PeerNotifyFacts
  <2>2. ~Closes(n, {}) BY <2>1 DEF Closes, Open
  <2>3. inPeerNum[n] >= MaxIncoming
    BY <2>1, <2>2 DEF Ignored, TurnedAway, Introduced
  <2> QED BY <2>3 DEF Fits, CountersInv, CountersAgree
<1> QED BY <1>1, FitsInvariance, PTL DEF Spec, TurnedAwayWhenFull

-----------------------------------------------------------------------------
(* Whose socket it is: what ends a process *)

\* A node introduces itself to the one it dialed.
NotifyFits ==
  \A c \in DOMAIN conn : \A x \in Node :
    Holds(conn[c].stream[x], "notifyPeerId") => conn[c].to = x

\* The socket with which n dialed a node that did not dial n is the one its peer
\* knows: the peer is not overwritten, and whatever removes it closes the socket.
Owned(n, fd) ==
  Open(n, fd) /\ conn[ConnOf(n, fd)].from = n /\ ~Dialed(conn[ConnOf(n, fd)].to, n) =>
    LET p == peers[n][conn[ConnOf(n, fd)].to] IN
    /\ p.type = "out" /\ p.connSocket = fd
    /\ sock[n][fd].type = "connect" => p.tryConnect
    /\ p.tryConnect \/ p.dataSocket = fd
DialedOwned == \A n \in Node : \A fd \in FD : Owned(n, fd)

\* Only a failed connect leaves a peer that neither connects nor has a socket.
LostExplained == failed = 0 => \A n \in Node : Lost(n) = {}

OwnerInv == Fits /\ NotifyFits /\ DialedOwned /\ LostExplained

\* Connections stay, with their ends.
ConnsStay ==
  \A c \in DOMAIN conn : /\ c \in DOMAIN conn'
                         /\ conn'[c].from = conn[c].from /\ conn'[c].to = conn[c].to
\* What every step has in common.
LEMMA StepFacts ==
  ASSUME Fits, NEW n \in Node, Step(n)
  PROVE  /\ Fits' /\ ConnsStay
         /\ failed \in Nat /\ failed' \in {failed, failed + 1}
         /\ status' = status \/ \E why \in HowItEnds : Ends(n, why)
<1>1. ASSUME NEW m \in Node, Opens(n, m)
      PROVE  Fits' /\ ConnsStay /\ failed' = failed /\ status' = status
  <2>1. n # m /\ ConnectSocket(n, m) BY <1>1 DEF Opens, ConnectPeer
  <2>2. Fits' /\ failed' = failed /\ status' = status BY <1>1, OpensFacts
  <2>3. /\ DOMAIN conn' = DOMAIN conn \cup {Len(conn) + 1}
        /\ \A c \in DOMAIN conn : conn'[c] = conn[c]
    BY <2>1, <2>2, OpeningSockets DEF Fits
  <2> QED BY <2>2, <2>3 DEF ConnsStay
<1>2. ASSUME NEW m \in Node, Drops(n, m)
      PROVE  Fits' /\ ConnsStay /\ failed' = failed /\ status' = status
  BY <1>2, DropsFacts DEF Closes, SameEnds, ConnsStay
<1>3. ASSUME NEW m \in Node, RecvAddr(n, m)
      PROVE  Fits' /\ ConnsStay /\ failed' = failed /\ status' = status
  BY <1>3, RecvAddrFacts DEF ConnsStay
<1>4. ASSUME NEW why \in HowItEnds, Ends(n, why)
      PROVE  Fits' /\ ConnsStay /\ failed' = failed
  BY <1>4, EndsSteps DEF SameEnds, ConnsStay
<1>5. ASSUME NEW c \in DOMAIN conn, Accept(n, c)
      PROVE  Fits' /\ ConnsStay /\ failed' = failed /\ status' = status
  <2>1. Fits' /\ failed' = failed /\ status' = status /\ AcceptHandler(n, c)
    BY <1>5, AcceptFacts
  <2>2. /\ DOMAIN conn' = DOMAIN conn
        /\ \A d \in DOMAIN conn : conn'[d].from = conn[d].from /\ conn'[d].to = conn[d].to
    BY <2>1, AcceptingSockets DEF Fits
  <2> QED BY <2>1, <2>2 DEF ConnsStay
<1>6. ASSUME NEW fd \in FD, OnSocket(n, fd)
      PROVE  Fits' /\ ConnsStay /\ failed' \in {failed, failed + 1} /\ status' = status
  <2>1. CASE SocketConnect(n, fd) BY <2>1, SocketConnectFacts DEF SameEnds, ConnsStay
  <2>2. CASE SocketConnectFailed(n, fd)
    BY <2>2, ConnectFailedFacts DEF Closes, SameEnds, ConnsStay
  <2>3. CASE SocketClose(n, fd) BY <2>3, SocketCloseFacts DEF Closes, SameEnds, ConnsStay
  <2>4. CASE PeerNotify(n, fd)
    BY <2>4, PeerNotifyFacts DEF Ignored, TurnedAway, Introduced, Closes, SameEnds, ConnsStay
  <2>5. CASE RecvPing(n, fd) BY <2>5, RecvPingFacts DEF Closes, SameEnds, ConnsStay
  <2>6. CASE Answered(n, fd) BY <2>6, AnsweredFacts DEF Closes, SameEnds, ConnsStay
  <2> QED BY <1>6, <2>1, <2>2, <2>3, <2>4, <2>5, <2>6 DEF OnSocket
<1>7. CASE Pings(n)
  BY <1>7, PingsFacts, PeerAssumption DEF Closes, SameEnds, ConnsStay, Fits, TableInv
<1>8. failed \in Nat BY PeerAssumption DEF Fits, TableInv
<1>9. CASE \E m \in Node : Opens(n, m) \/ Drops(n, m) \/ RecvAddr(n, m)
  BY <1>1, <1>2, <1>3, <1>8, <1>9
<1> QED BY <1>4, <1>5, <1>6, <1>7, <1>8, <1>9 DEF Step

\* Who dialed whom is not forgotten.
LEMMA DialedStays ==
  ASSUME ConnsStay, NEW n, NEW m, Dialed(n, m)
  PROVE  Dialed(n, m)'
  BY DEF ConnsStay, Dialed

\* Only a connected socket introduces its node, to the other end.
LEMMA NotifyStep ==
  ASSUME OwnerInv, NEW n \in Node, Step(n)
  PROVE  NotifyFits'
<1>1. ASSUME NEW L, NEW w \in Msg, w # "notifyPeerId" \/ L = {}, Sends(n, L, w),
             SameEnds(conn, conn')
      PROVE  NotifyFits'
  <2>1. "notifyPeerId" \in Msg BY DEF Msg
  <2> QED BY <1>1, <2>1 DEF OwnerInv, NotifyFits, Sends, SameEnds
<1>m. "PING" \in Msg /\ "PONG" \in Msg /\ "notifyPeerId" \in Msg BY DEF Msg
<1>f. Fits BY DEF OwnerInv
<1>2. ASSUME NEW m \in Node, Opens(n, m) PROVE NotifyFits'
  <2>1. n # m /\ ConnectSocket(n, m) /\ status' = status
    BY <1>2, <1>f, OpensFacts DEF Opens, ConnectPeer
  <2>2. /\ DOMAIN conn' = DOMAIN conn \cup {Len(conn) + 1}
        /\ \A c \in DOMAIN conn : conn'[c] = conn[c]
        /\ conn'[Len(conn) + 1] = Dial(n, m)
    BY <1>f, <2>1, OpeningSockets DEF Fits
  <2>3. \A x \in Node : ~Holds(Dial(n, m).stream[x], "notifyPeerId")
    BY DEF Dial, Holds
  <2> QED BY <2>2, <2>3 DEF OwnerInv, NotifyFits
<1>3. ASSUME NEW m \in Node, Drops(n, m) PROVE NotifyFits'
  BY <1>1, <1>3, <1>f, <1>m, DropsFacts DEF Closes
<1>4. ASSUME NEW m \in Node, RecvAddr(n, m) PROVE NotifyFits'
  BY <1>4, <1>f, RecvAddrFacts DEF OwnerInv, NotifyFits
<1>5. ASSUME NEW why \in HowItEnds, Ends(n, why) PROVE NotifyFits'
  BY <1>1, <1>5, <1>f, <1>m, EndsSteps
<1>6. ASSUME NEW c \in DOMAIN conn, Accept(n, c) PROVE NotifyFits'
  <2>1. /\ DOMAIN conn' = DOMAIN conn
        /\ \A d \in DOMAIN conn : conn'[d].to = conn[d].to /\ conn'[d].stream = conn[d].stream
    BY <1>6, <1>f, AcceptFacts, AcceptingSockets DEF Fits
  <2> QED BY <2>1 DEF OwnerInv, NotifyFits
<1>7. ASSUME NEW fd \in FD, OnSocket(n, fd) PROVE NotifyFits'
  <2>1. CASE SocketConnect(n, fd)
    <3>1. /\ SameEnds(conn, conn') /\ Sends(n, {ConnOf(n, fd)}, "notifyPeerId")
          /\ sock[n][fd].type = "connect" /\ Open(n, fd)
      BY <1>f, <2>1, SocketConnectFacts
    <3>2. conn[ConnOf(n, fd)].from = n
      BY <1>f, <3>1 DEF Fits, SocketInv, SocketsFit, SocketFits
    <3>3. Far(ConnOf(n, fd), n) = conn[ConnOf(n, fd)].to BY <3>2 DEF Far
    <3> QED BY <1>m, <3>1, <3>3 DEF OwnerInv, NotifyFits, Sends, SameEnds
  <2>2. CASE SocketConnectFailed(n, fd)
    BY <1>1, <1>f, <1>m, <2>2, ConnectFailedFacts DEF Closes
  <2>3. CASE SocketClose(n, fd) BY <1>1, <1>f, <1>m, <2>3, SocketCloseFacts DEF Closes
  <2>4. CASE PeerNotify(n, fd)
    BY <1>1, <1>f, <1>m, <2>4, PeerNotifyFacts DEF Ignored, TurnedAway, Introduced, Closes
  <2>5. CASE RecvPing(n, fd) BY <1>1, <1>f, <1>m, <2>5, RecvPingFacts DEF Closes
  <2>6. CASE Answered(n, fd) BY <1>1, <1>f, <1>m, <2>6, AnsweredFacts DEF Closes
  <2> QED BY <1>7, <2>1, <2>2, <2>3, <2>4, <2>5, <2>6 DEF OnSocket
<1>8. CASE Pings(n) BY <1>1, <1>8, <1>f, <1>m, PingsFacts DEF Closes
<1> QED BY <1>2, <1>3, <1>4, <1>5, <1>6, <1>7, <1>8 DEF Step

\* Only a failed connect loses a peer: whatever else removes a socket removes its peer.
LEMMA LostStep ==
  ASSUME OwnerInv, NEW n \in Node, Step(n)
  PROVE  LostExplained'
<1> SUFFICES ASSUME failed' = 0, NEW x \in Node, NEW y \in Node, y \in Lost(x)'
             PROVE  FALSE
  BY DEF LostExplained, Lost, Peers
<1>f. Fits /\ Fits' BY StepFacts DEF OwnerInv
<1>1. peers'[x][y].type # "none" /\ peers'[x][y].dataSocket = NoFD /\ ~peers'[x][y].tryConnect
  BY <1>f DEF Lost, Peers, Active, Trying, Fits, TableInv, PeerFits
<1>2. ASSUME failed' = failed,
             /\ peers'[x][y].type = peers[x][y].type
             /\ peers'[x][y].dataSocket = peers[x][y].dataSocket
             /\ peers'[x][y].tryConnect = peers[x][y].tryConnect
      PROVE  FALSE
  <2>1. y \in Lost(x)
    BY <1>1, <1>2, PeerRecords DEF Lost, Peers, Active, Trying
  <2> QED BY <1>2, <2>1 DEF OwnerInv, LostExplained
<1>3. ASSUME NEW m \in Node, Opens(n, m) PROVE FALSE
  <2>1. /\ failed' = failed
        /\ peers'[x][y] = IF x = n /\ y = m THEN OutgoingPeer(FreeFD(n)) ELSE peers[x][y]
    BY <1>3, <1>f, OpensFacts
  <2>2. OutgoingPeer(FreeFD(n)).tryConnect = TRUE BY DEF OutgoingPeer, NoPeer
  <2> QED BY <1>1, <1>2, <2>1, <2>2
<1>4. ASSUME NEW m \in Node, Drops(n, m) PROVE FALSE
  <2>1. /\ failed' = failed
        /\ \A a, b \in Node : peers'[a][b] = IF a = n /\ b = m THEN NoPeer ELSE peers[a][b]
    BY <1>4, <1>f, DropsFacts, Zenon
  <2>2. NoPeer.type = "none" BY PeerRecords
  <2> QED BY <1>1, <1>2, <2>1, <2>2
<1>5. ASSUME NEW m \in Node, RecvAddr(n, m) PROVE FALSE
  BY <1>2, <1>5, <1>f, RecvAddrFacts
<1>6. ASSUME NEW why \in HowItEnds, Ends(n, why) PROVE FALSE
  BY <1>2, <1>6, <1>f, EndsSteps
<1>7. ASSUME NEW c \in DOMAIN conn, Accept(n, c) PROVE FALSE
  BY <1>2, <1>7, <1>f, AcceptFacts
<1>8. ASSUME NEW fd \in FD, OnSocket(n, fd) PROVE FALSE
  <2>n. fd # NoFD BY SocketAssumption DEF FD, NoFD
  <2>1. CASE SocketConnect(n, fd)
    <3>1. failed' = failed BY <1>f, <2>1, SocketConnectFacts
    <3>2. PICK m \in Owners(n, fd) :
              \A a, b \in Node :
                peers'[a][b] = IF a = n /\ b = m
                               THEN [peers[n][m] EXCEPT !.tryConnect = FALSE, !.dataSocket = fd]
                               ELSE peers[a][b]
      BY <1>f, <2>1, SocketConnectFacts, ZenonT(40)
    <3>3. peers[n][m] \in PeerRecord BY <1>f DEF Owners, Peers, Fits, TableInv
    <3>4. [peers[n][m] EXCEPT !.tryConnect = FALSE, !.dataSocket = fd].dataSocket = fd
      BY <3>3 DEF PeerRecord
    <3> QED BY <1>1, <1>2, <2>n, <3>1, <3>2, <3>4
  <2>2. CASE SocketConnectFailed(n, fd)
    <3>1. failed \in Nat /\ failed' = failed + 1 BY <1>f, <2>2, ConnectFailedFacts
    <3> QED BY <3>1
  <2>3. CASE SocketClose(n, fd)
    <3>1. /\ failed' = failed
          /\ \/ peers' = peers /\ \A m \in Node : peers[n][m].dataSocket # fd
             \/ \E m \in Node :
                 /\ peers[n][m].dataSocket = fd
                 /\ \A a, b \in Node :
                      peers'[a][b] = IF a = n /\ b = m THEN NoPeer ELSE peers[a][b]
      BY <1>f, <2>3, SocketCloseFacts, Zenon
    <3>2. NoPeer.type = "none" BY PeerRecords
    <3> QED BY <1>1, <1>2, <3>1, <3>2
  <2>4. CASE PeerNotify(n, fd)
    <3>1. failed' = failed /\ (Ignored(n, fd) \/ TurnedAway(n, fd) \/ Introduced(n, fd))
      BY <1>f, <2>4, PeerNotifyFacts
    <3>2. CASE peers' = peers BY <1>2, <3>1, <3>2
    <3>3. CASE Introduced(n, fd)
      <4>1. PICK stale \in StaleFD :
              peers'[x][y] = IF x = n /\ y = Far(ConnOf(n, fd), n) THEN IncomingPeer(fd, stale)
                                                                   ELSE peers[x][y]
        BY <3>3 DEF Introduced
      <4>2. IncomingPeer(fd, stale).dataSocket = fd BY PeerRecords
      <4> QED BY <1>1, <1>2, <2>n, <3>1, <4>1, <4>2
    <3> QED BY <3>1, <3>2, <3>3 DEF Ignored, TurnedAway
  <2>5. CASE RecvPing(n, fd) BY <1>2, <1>f, <2>5, RecvPingFacts
  <2>6. CASE Answered(n, fd) BY <1>2, <1>f, <2>6, AnsweredFacts
  <2> QED BY <1>8, <2>1, <2>2, <2>3, <2>4, <2>5, <2>6 DEF OnSocket
<1>9. CASE Pings(n)
  <2>1. /\ failed' = failed
        /\ IF x = n /\ y \in Late(n) THEN peers'[x][y] = NoPeer
              ELSE /\ peers'[x][y].type = peers[x][y].type
                   /\ peers'[x][y].connSocket = peers[x][y].connSocket
                   /\ peers'[x][y].dataSocket = peers[x][y].dataSocket
                   /\ peers'[x][y].tryConnect = peers[x][y].tryConnect
    BY <1>9, <1>f, PingsFacts
  <2> QED BY <1>1, <1>2, <2>1, PeerRecords
<1> QED BY <1>3, <1>4, <1>5, <1>6, <1>7, <1>8, <1>9 DEF Step

\* A step of n keeps the sockets owned: the peer of a socket is overwritten only by an
\* introduction, and that comes from a node that dialed.
LEMMA OwnedStep ==
  ASSUME OwnerInv, NEW n \in Node, Step(n), NEW x \in Node, NEW fd \in FD
  PROVE  Owned(x, fd)'
<1>f. Fits /\ Fits' /\ ConnsStay BY StepFacts DEF OwnerInv
<1> SUFFICES ASSUME NEW k, k = ConnOf(x, fd), NEW y, y = conn[k].to
             PROVE  Owned(x, fd)'
  OBVIOUS
<1>o. ASSUME Open(x, fd)
      PROVE  /\ k \in DOMAIN conn /\ y \in Node
             /\ sock[x][fd].type \in {"connect", "data"}
             /\ sock[x][fd].type = "connect" => conn[k].from = x
  <2>1. SocketFits(x, fd) /\ conn \in Seq(Connection)
    BY <1>f, <1>o DEF Fits, SocketInv, SocketsFit
  <2>2. k \in DOMAIN conn BY <2>1 DEF SocketFits
  <2>3. y \in Node BY <2>1, <2>2, TableTypes
  <2> QED BY <2>1, <2>2, <2>3 DEF SocketFits
\* A socket that stays is owned as long as its peer stays.
<1>1. ASSUME sock'[x][fd] = sock[x][fd],
             Open(x, fd) /\ conn[k].from = x /\ ~Dialed(y, x) =>
               /\ peers'[x][y].type = peers[x][y].type
               /\ peers'[x][y].connSocket = peers[x][y].connSocket
               /\ peers'[x][y].dataSocket = peers[x][y].dataSocket
               /\ peers'[x][y].tryConnect = peers[x][y].tryConnect
      PROVE  Owned(x, fd)'
  <2> SUFFICES ASSUME (Open(x, fd) /\ conn[ConnOf(x, fd)].from = x
                         /\ ~Dialed(conn[ConnOf(x, fd)].to, x))'
               PROVE  Owned(x, fd)'
    BY DEF Owned
  <2>1. Open(x, fd) /\ ConnOf(x, fd)' = k BY <1>1 DEF Open, ConnOf
  <2>2. k \in DOMAIN conn /\ y \in Node BY <1>o, <2>1
  <2>3. conn[k].from = x /\ conn'[k].to = y BY <1>f, <2>1, <2>2 DEF ConnsStay
  <2>4. ~Dialed(y, x) BY <1>f, <2>1, <2>3, DialedStays
  <2>5. Owned(x, fd) BY DEF OwnerInv, DialedOwned
  <2> QED BY <1>1, <2>1, <2>3, <2>4, <2>5 DEF Owned
\* So is any socket of a node whose table does not change.
<1>2. ASSUME sock'[x][fd] = sock[x][fd], peers'[x] = peers[x] PROVE Owned(x, fd)'
  BY <1>1, <1>2
\* A socket that is closed is owned.
<1>3. ASSUME NEW F, Closes(n, F), x = n, fd \in F PROVE Owned(x, fd)'
  <2>1. sock'[x][fd] = NoSocket BY <1>3 DEF Closes
  <2> QED BY <2>1 DEF Owned, Open
\* Nobody but n changes anything.
<1>4. ASSUME NEW F, Closes(n, F), ~(x = n /\ fd \in F) PROVE sock'[x][fd] = sock[x][fd]
  BY <1>4 DEF Closes
<1>w. ASSUME Open(x, fd) /\ conn[k].from = x /\ ~Dialed(y, x)
      PROVE  /\ y \in Peers(x)
             /\ peers[x][y].type = "out" /\ peers[x][y].connSocket = fd
             /\ sock[x][fd].type = "connect" => peers[x][y].tryConnect
             /\ peers[x][y].tryConnect \/ peers[x][y].dataSocket = fd
             /\ peers[x][y].tryConnect => peers[x][y].dataSocket = NoFD
  <2>1. Owned(x, fd) BY DEF OwnerInv, DialedOwned
  <2>2. PeerFits(peers[x][y]) BY <1>o, <1>w, <1>f DEF Fits, TableInv
  <2>3. y \in Peers(x) BY <1>o, <1>w, <2>1, PeerRecords DEF Owned, Peers
  <2> QED BY <1>w, <2>1, <2>2, <2>3 DEF Owned, PeerFits
\* A disconnect closes the socket the peer knows.
<1>d. ASSUME Open(x, fd) /\ conn[k].from = x /\ ~Dialed(y, x), y \notin Lost(x)
      PROVE  SocketOfPeer(x, y) = fd
  <2>1. y \in Peers(x) BY <1>d, <1>w
  <2> QED BY <1>d, <1>f, <1>w, <2>1, SocketOfPeerFacts DEF Fits
<1>5. ASSUME NEW m \in Node, Opens(n, m) PROVE Owned(x, fd)'
  <2> DEFINE g == FreeFD(n)
  <2>1. m # n /\ m \notin Peers(n) /\ ConnectSocket(n, m) /\ status' = status
    BY <1>5, <1>f, OpensFacts DEF Opens, ConnectPeer
  <2>2. \A a, b \in Node : peers'[a][b] = IF a = n /\ b = m THEN OutgoingPeer(g) ELSE peers[a][b]
    BY <1>5, <1>f, OpensFacts
  <2>3. /\ g \in FD
        /\ sock'[x][fd] = IF x = n /\ fd = g
                          THEN [type |-> "connect", conn |-> Len(conn) + 1] ELSE sock[x][fd]
        /\ conn'[Len(conn) + 1] = Dial(n, m)
    BY <1>f, <2>1, OpeningSockets DEF Fits
  <2>4. CASE x = n /\ fd = g
    <3>1. ConnOf(x, fd)' = Len(conn) + 1 BY <2>3, <2>4 DEF ConnOf
    <3>2. conn'[ConnOf(x, fd)'].to = m BY <2>3, <3>1 DEF Dial
    <3>3. peers'[x][m] = OutgoingPeer(fd) BY <2>2, <2>4
    <3>4. /\ peers'[x][m].type = "out" /\ peers'[x][m].connSocket = fd
          /\ peers'[x][m].tryConnect
      BY <2>3, <2>4, <3>3, PeerRecords
    <3> QED BY <3>2, <3>4 DEF Owned
  <2>5. CASE ~(x = n /\ fd = g)
    <3>1. Open(x, fd) /\ conn[k].from = x /\ ~Dialed(y, x) => peers'[x][y] = peers[x][y]
      BY <1>o, <1>w, <2>1, <2>2
    <3> QED BY <1>1, <2>3, <2>5, <3>1
  <2> QED BY <2>4, <2>5
<1>6. ASSUME NEW m \in Node, Drops(n, m) PROVE Owned(x, fd)'
  <2>1. /\ m \in Peers(n) /\ m \notin Lost(n) /\ Closes(n, {SocketOfPeer(n, m)})
        /\ \A a, b \in Node : peers'[a][b] = IF a = n /\ b = m THEN NoPeer ELSE peers[a][b]
    BY <1>6, <1>f, DropsFacts
  <2>2. CASE x = n /\ fd \in {SocketOfPeer(n, m)} BY <1>3, <2>1, <2>2
  <2>3. CASE ~(x = n /\ fd \in {SocketOfPeer(n, m)})
    <3>1. Open(x, fd) /\ conn[k].from = x /\ ~Dialed(y, x) => peers'[x][y] = peers[x][y]
      BY <1>d, <1>o, <2>1, <2>3
    <3> QED BY <1>1, <1>4, <2>1, <2>3, <3>1
  <2> QED BY <2>2, <2>3
<1>7. ASSUME NEW m \in Node, RecvAddr(n, m) PROVE Owned(x, fd)'
  BY <1>2, <1>7, <1>f, RecvAddrFacts
<1>8. ASSUME NEW why \in HowItEnds, Ends(n, why) PROVE Owned(x, fd)'
  BY <1>2, <1>8, <1>f, EndsSteps
<1>9. ASSUME NEW c \in DOMAIN conn, Accept(n, c) PROVE Owned(x, fd)'
  <2>1. AcceptHandler(n, c) /\ peers' = peers BY <1>9, <1>f, AcceptFacts
  <2>2. sock'[x][fd] = IF x = n /\ fd = FreeFD(n) THEN [type |-> "data", conn |-> c] ELSE sock[x][fd]
    BY <1>f, <2>1, AcceptingSockets DEF Fits
  <2>3. CASE x = n /\ fd = FreeFD(n)
    <3>1. ConnOf(x, fd)' = c BY <2>2, <2>3 DEF ConnOf
    <3>2. conn[c].to = n BY <2>1 DEF AcceptHandler
    <3>3. conn[c].from # n BY <3>2, <1>f DEF Fits, SocketInv, ConnsFit, ConnFits
    <3>4. conn'[c].from # x BY <1>f, <2>3, <3>3 DEF ConnsStay
    <3> QED BY <3>1, <3>4 DEF Owned
  <2>4. CASE ~(x = n /\ fd = FreeFD(n)) BY <1>2, <2>1, <2>2, <2>4
  <2> QED BY <2>3, <2>4
<1>10. ASSUME NEW g \in FD, OnSocket(n, g) PROVE Owned(x, fd)'
  <2>n. g # NoFD /\ fd # NoFD BY SocketAssumption DEF FD, NoFD
  <2>1. CASE SocketConnect(n, g)
    <3>1. /\ sock[n][g].type = "connect" /\ Open(n, g)
          /\ \A a \in Node : \A b \in FD :
               sock'[a][b] = IF a = n /\ b = g THEN [type |-> "data", conn |-> ConnOf(n, g)]
                             ELSE sock[a][b]
      BY <1>f, <2>1, SocketConnectFacts, ZenonT(40)
    <3>2. PICK m \in Owners(n, g) :
              \A a, b \in Node :
                peers'[a][b] = IF a = n /\ b = m
                               THEN [peers[n][m] EXCEPT !.tryConnect = FALSE, !.dataSocket = g]
                               ELSE peers[a][b]
      BY <1>f, <2>1, SocketConnectFacts, ZenonT(40)
    <3>3. m \in Node /\ peers[n][m].connSocket = g /\ peers[n][m] \in PeerRecord
      BY <1>f DEF Owners, Peers, Fits, TableInv
    <3>4. CASE x = n /\ fd = g
      <4>1. ConnOf(x, fd)' = k /\ sock'[x][fd].type = "data" /\ Open(x, fd)
        BY <3>1, <3>4 DEF ConnOf
      <4>2. k \in DOMAIN conn /\ y \in Node /\ conn[k].from = x
            /\ conn'[k].from = x /\ conn'[k].to = y
        BY <1>f, <1>o, <3>1, <3>4, <4>1 DEF ConnsStay
      <4>3. ASSUME ~Dialed(y, x)'
            PROVE  LET p == peers'[x][y] IN
                   p.type = "out" /\ p.connSocket = fd /\ (p.tryConnect \/ p.dataSocket = fd)
        <5>1. ~Dialed(y, x) BY <1>f, <4>3, DialedStays
        <5>2. /\ peers[x][y].type = "out" /\ peers[x][y].connSocket = fd
              /\ peers[x][y].tryConnect
          BY <1>w, <3>1, <3>4, <4>1, <4>2, <5>1
        <5>3. CASE y = m
          <6>1. peers'[x][y] = [peers[n][m] EXCEPT !.tryConnect = FALSE, !.dataSocket = g]
            BY <3>2, <3>4, <4>2, <5>3
          <6>2. /\ peers'[x][y].type = peers[n][m].type
                /\ peers'[x][y].connSocket = peers[n][m].connSocket
                /\ peers'[x][y].dataSocket = g
            BY <3>3, <6>1 DEF PeerRecord
          <6> QED BY <3>4, <5>2, <5>3, <6>2
        <5>4. CASE y # m
          <6>1. peers'[x][y] = peers[x][y] BY <3>2, <3>4, <4>2, <5>4
          <6> QED BY <5>2, <6>1
        <5> QED BY <5>3, <5>4
      <4> QED BY <4>1, <4>2, <4>3 DEF Owned
    <3>5. CASE ~(x = n /\ fd = g)
      <4>1. Open(x, fd) /\ conn[k].from = x /\ ~Dialed(y, x) => peers'[x][y] = peers[x][y]
        BY <1>o, <1>w, <3>2, <3>3, <3>5
      <4> QED BY <1>1, <3>1, <3>5, <4>1
    <3> QED BY <3>4, <3>5
  <2>2. CASE SocketConnectFailed(n, g)
    <3>1. /\ Open(n, g) /\ sock[n][g].type = "connect" /\ Closes(n, {g})
          /\ \A a, b \in Node :
               peers'[a][b] = IF a = n /\ b = conn[ConnOf(n, g)].to
                              THEN [peers[a][b] EXCEPT !.tryConnect = FALSE] ELSE peers[a][b]
      BY <1>f, <2>2, ConnectFailedFacts
    <3>2. CASE x = n /\ fd \in {g} BY <1>3, <3>1, <3>2
    <3>3. CASE ~(x = n /\ fd \in {g})
      <4>1. ASSUME Open(x, fd) /\ conn[k].from = x /\ ~Dialed(y, x)
            PROVE  peers'[x][y] = peers[x][y]
        <5>1. SUFFICES ASSUME x = n, y = conn[ConnOf(n, g)].to PROVE FALSE
          BY <1>o, <3>1, <4>1
        <5>2. Owned(n, g) BY DEF OwnerInv, DialedOwned
        <5>3. conn[ConnOf(n, g)].from = n
          BY <1>f, <3>1 DEF Fits, SocketInv, SocketsFit, SocketFits
        <5>4. peers[n][y].connSocket = g BY <3>1, <4>1, <5>1, <5>2, <5>3 DEF Owned
        <5> QED BY <1>w, <3>3, <4>1, <5>1, <5>4
      <4> QED BY <1>1, <1>4, <3>1, <3>3, <4>1
    <3> QED BY <3>2, <3>3
  <2>3. CASE SocketClose(n, g)
    <3>1. /\ Closes(n, {g})
          /\ \/ peers' = peers
             \/ \E m \in Node :
                 /\ peers[n][m].dataSocket = g
                 /\ \A a, b \in Node :
                      peers'[a][b] = IF a = n /\ b = m THEN NoPeer ELSE peers[a][b]
      BY <1>f, <2>3, SocketCloseFacts
    <3>2. CASE x = n /\ fd \in {g} BY <1>3, <3>1, <3>2
    <3>3. CASE ~(x = n /\ fd \in {g})
      <4>1. CASE peers' = peers BY <1>2, <1>4, <3>1, <3>3, <4>1
      <4>2. ASSUME NEW m \in Node, peers[n][m].dataSocket = g,
                   \A a, b \in Node :
                      peers'[a][b] = IF a = n /\ b = m THEN NoPeer ELSE peers[a][b]
            PROVE  Owned(x, fd)'
        <5>1. ASSUME Open(x, fd) /\ conn[k].from = x /\ ~Dialed(y, x)
              PROVE  peers'[x][y] = peers[x][y]
          <6>1. SUFFICES ASSUME x = n, y = m PROVE FALSE BY <1>o, <4>2, <5>1
          <6>2. peers[x][y].dataSocket = g /\ g # NoFD /\ g # fd BY <2>n, <3>3, <4>2, <6>1
          <6> QED BY <1>w, <5>1, <6>2
        <5> QED BY <1>1, <1>4, <3>1, <3>3, <5>1
      <4> QED BY <3>1, <4>1, <4>2
    <3> QED BY <3>2, <3>3
  <2>4. CASE PeerNotify(n, g)
    <3>1. /\ Open(n, g) /\ Holds(conn[ConnOf(n, g)].stream[n], "notifyPeerId")
          /\ Ignored(n, g) \/ TurnedAway(n, g) \/ Introduced(n, g)
      BY <1>f, <2>4, PeerNotifyFacts
    <3>2. CASE Ignored(n, g)
      <4>1. sock'[x][fd] = sock[x][fd] /\ peers' = peers BY <1>4, <3>2 DEF Ignored
      <4> QED BY <1>2, <4>1
    <3>3. CASE TurnedAway(n, g)
      <4>1. Closes(n, {g}) /\ peers' = peers BY <3>3 DEF TurnedAway
      <4>2. CASE x = n /\ fd \in {g} BY <1>3, <4>1, <4>2
      <4>3. CASE ~(x = n /\ fd \in {g}) BY <1>2, <1>4, <4>1, <4>3
      <4> QED BY <4>2, <4>3
    <3>4. CASE Introduced(n, g)
      <4> DEFINE c == ConnOf(n, g)
                 m == Far(c, n)
      <4>1. sock'[x][fd] = sock[x][fd] BY <1>4, <3>4 DEF Introduced
      <4>2. PICK stale \in StaleFD : \A a, b \in Node :
              peers'[a][b] = IF a = n /\ b = m THEN IncomingPeer(g, stale) ELSE peers[a][b]
        BY <3>4 DEF Introduced
      <4>3. /\ c \in DOMAIN conn /\ m # n
            /\ \/ conn[c].from = n /\ conn[c].to = m
               \/ conn[c].to = n /\ conn[c].from = m
        BY <1>f, <3>1, FarFacts DEF Fits
      <4>4. conn[c].to = n BY <3>1, <4>3 DEF OwnerInv, NotifyFits
      <4>5. Dialed(m, n) BY <4>3, <4>4 DEF Dialed
      <4> HIDE DEF c, m
      <4>6. Open(x, fd) /\ conn[k].from = x /\ ~Dialed(y, x) => peers'[x][y] = peers[x][y]
        BY <1>o, <4>2, <4>5
      <4> QED BY <1>1, <4>1, <4>6
    <3> QED BY <3>1, <3>2, <3>3, <3>4
  <2>5. CASE RecvPing(n, g)
    <3>1. Closes(n, {}) /\ peers' = peers BY <1>f, <2>5, RecvPingFacts
    <3>2. sock'[x][fd] = sock[x][fd] BY <1>4, <3>1
    <3> QED BY <1>2, <3>1, <3>2
  <2>6. CASE Answered(n, g)
    <3>1. /\ Closes(n, {})
          /\ \A a, b \in Node :
               /\ peers'[a][b].type = peers[a][b].type
               /\ peers'[a][b].connSocket = peers[a][b].connSocket
               /\ peers'[a][b].dataSocket = peers[a][b].dataSocket
               /\ peers'[a][b].tryConnect = peers[a][b].tryConnect
      BY <1>f, <2>6, AnsweredFacts
    <3>2. sock'[x][fd] = sock[x][fd] BY <1>4, <3>1
    <3> QED BY <1>1, <1>o, <3>1, <3>2
  <2> QED BY <1>10, <2>1, <2>2, <2>3, <2>4, <2>5, <2>6 DEF OnSocket
<1>11. CASE Pings(n)
  <2>1. /\ Late(n) \cap Lost(n) = {} /\ Closes(n, LateSockets(n))
        /\ \A a, b \in Node :
             IF a = n /\ b \in Late(n) THEN peers'[a][b] = NoPeer
              ELSE /\ peers'[a][b].type = peers[a][b].type
                   /\ peers'[a][b].connSocket = peers[a][b].connSocket
                   /\ peers'[a][b].dataSocket = peers[a][b].dataSocket
                   /\ peers'[a][b].tryConnect = peers[a][b].tryConnect
    BY <1>11, <1>f, PingsFacts
  <2>2. CASE x = n /\ fd \in LateSockets(n) BY <1>3, <2>1, <2>2
  <2>3. CASE ~(x = n /\ fd \in LateSockets(n))
    <3>1. Open(x, fd) /\ conn[k].from = x /\ ~Dialed(y, x) => ~(x = n /\ y \in Late(n))
      BY <1>d, <2>1, <2>3 DEF LateSockets
    <3> QED BY <1>1, <1>4, <1>o, <2>1, <2>3, <3>1
  <2> QED BY <2>2, <2>3
<1> QED BY <1>5, <1>6, <1>7, <1>8, <1>9, <1>10, <1>11 DEF Step

-----------------------------------------------------------------------------
(* What ends a process, without regard to who the owners are *)

\* Connected by both, or only after a failed connect: see AbortExplained.
EndsExplained ==
  \A n \in Node :
    /\ status[n] = "noProperPeer" => \E m \in Node : Dialed(n, m) /\ Dialed(m, n)
    /\ status[n] \in {"noDataSocket", "toBeImplemented"} => failed # 0

\* A process that finds no peer for its connected socket has connected to a node
\* that connected to it.
LEMMA NoProperPeer ==
  ASSUME OwnerInv, NEW n \in Node, NEW fd \in FD,
         sock[n][fd].type = "connect", Owners(n, fd) = {}
  PROVE  \E m \in Node : Dialed(n, m) /\ Dialed(m, n)
<1>1. Open(n, fd) BY DEF Open, NoSocket
<1>2. SocketFits(n, fd) /\ conn \in Seq(Connection)
  BY <1>1 DEF OwnerInv, Fits, SocketInv, SocketsFit
<1> SUFFICES ASSUME NEW m, m = conn[ConnOf(n, fd)].to PROVE Dialed(n, m) /\ Dialed(m, n) /\ m \in Node
  OBVIOUS
<1>3. conn[ConnOf(n, fd)].from = n /\ m \in Node /\ ConnOf(n, fd) \in DOMAIN conn
  BY <1>2, TableTypes DEF SocketFits
<1>4. Dialed(n, m) BY <1>3 DEF Dialed
<1>5. ASSUME ~Dialed(m, n) PROVE FALSE
  <2>1. Owned(n, fd) BY DEF OwnerInv, DialedOwned
  <2>2. peers[n][m].type = "out" /\ peers[n][m].connSocket = fd
    BY <1>1, <1>3, <1>5, <2>1 DEF Owned
  <2>3. m \in Peers(n) BY <1>3, <2>2, PeerRecords DEF Peers
  <2> QED BY <2>2, <2>3 DEF Owners
<1> QED BY <1>3, <1>4, <1>5

\* A step keeps EndsExplained.
LEMMA EndsExplainedStep ==
  ASSUME OwnerInv, EndsExplained, NEW n \in Node, Step(n)
  PROVE  EndsExplained'
<1>1. /\ ConnsStay
      /\ failed \in Nat /\ failed' \in {failed, failed + 1}
      /\ status' = status \/ \E why \in HowItEnds : Ends(n, why)
  BY StepFacts DEF OwnerInv
<1>2. \A x \in Node : (\E m \in Node : Dialed(x, m) /\ Dialed(m, x))
                        => (\E m \in Node : Dialed(x, m) /\ Dialed(m, x))'
  BY <1>1, DialedStays
<1>3. failed # 0 => failed' # 0 BY <1>1
<1> SUFFICES ASSUME NEW x \in Node
             PROVE  /\ status'[x] = "noProperPeer" => (\E m \in Node : Dialed(x, m) /\ Dialed(m, x))'
                    /\ status'[x] \in {"noDataSocket", "toBeImplemented"} => failed' # 0
  BY DEF EndsExplained
<1>4. CASE status'[x] = status[x] BY <1>2, <1>3, <1>4 DEF EndsExplained
<1>5. ASSUME NEW why \in HowItEnds, Ends(n, why), x = n
      PROVE  /\ status'[x] = "noProperPeer" => (\E m \in Node : Dialed(x, m) /\ Dialed(m, x))'
             /\ status'[x] \in {"noDataSocket", "toBeImplemented"} => failed' # 0
  <2>1. status'[x] = why
    BY <1>5, EndsSteps DEF OwnerInv, Fits, SocketInv
  <2>2. CASE why = "noProperPeer"
    <3>1. PICK fd \in FD : sock[n][fd].type = "connect" /\ Owners(n, fd) = {}
      BY <1>5, <2>2 DEF Ends, Cause
    <3>2. \E m \in Node : Dialed(x, m) /\ Dialed(m, x) BY <1>5, <3>1, NoProperPeer
    <3> QED BY <1>2, <2>1, <2>2, <3>2
  <2>3. CASE why \in {"noDataSocket", "toBeImplemented"}
    <3>1. Lost(n) # {} BY <1>5, <2>3 DEF Ends, Cause
    <3>2. failed # 0 BY <3>1 DEF OwnerInv, LostExplained
    <3> QED BY <1>3, <2>1, <2>3, <3>2
  <2> QED BY <2>1, <2>2, <2>3
<1>6. status'[x] = status[x] \/ (x = n /\ \E why \in HowItEnds : Ends(n, why))
  BY <1>1, EndsSteps DEF OwnerInv, Fits, SocketInv
<1> QED BY <1>4, <1>5, <1>6

\* The initial state and every step satisfy the invariant.
LEMMA OwnerInitial == ASSUME Init PROVE OwnerInv /\ EndsExplained
<1>1. Fits BY FitsInit
<1>2. DOMAIN conn = {} BY DEF Init, SocketInit
<1>3. \A n \in Node : \A fd \in FD : ~Open(n, fd)
  BY DEF Init, SocketInit, Open
<1>4. \A n \in Node : Lost(n) = {} BY DEF Init, Lost, Peers
<1>5. \A n \in Node : status[n] = "running" BY DEF Init, SocketInit
<1> QED BY <1>1, <1>2, <1>3, <1>4, <1>5
        DEF OwnerInv, NotifyFits, DialedOwned, Owned, LostExplained, EndsExplained

\* Every step of the system keeps OwnerInv and EndsExplained ...
LEMMA OwnerStep ==
  ASSUME OwnerInv, EndsExplained, [Next]_vars
  PROVE  OwnerInv' /\ EndsExplained'
<1>1. CASE Next
  <2>1. PICK n \in Node : Step(n)
    BY <1>1, NextForms DEF OwnerInv, Fits, TableInv
  <2>2. Fits' BY <2>1, StepFacts DEF OwnerInv
  <2>3. NotifyFits' BY <2>1, NotifyStep
  <2>4. LostExplained' BY <2>1, LostStep
  <2>5. DialedOwned'
    <3>1. \A x \in Node : \A fd \in FD : Owned(x, fd)' BY <2>1, OwnedStep
    <3> QED BY <3>1 DEF DialedOwned
  <2>6. EndsExplained' BY <2>1, EndsExplainedStep
  <2> QED BY <2>2, <2>3, <2>4, <2>5, <2>6 DEF OwnerInv
<1>2. CASE UNCHANGED vars
  <2>1. /\ sock' = sock /\ conn' = conn /\ status' = status /\ peers' = peers
        /\ failed' = failed
    BY <1>2 DEF vars
  <2>2. Fits' BY FitsStep DEF OwnerInv
  <2>3. NotifyFits' BY <2>1 DEF OwnerInv, NotifyFits
  <2>4. LostExplained'
    BY <2>1 DEF OwnerInv, LostExplained, Lost, Peers, Active, Trying
  <2>5. DialedOwned'
    <3>1. ASSUME NEW x \in Node, NEW fd \in FD, Owned(x, fd) PROVE Owned(x, fd)'
      BY <2>1, <3>1 DEF Owned, Open, ConnOf, Dialed
    <3> QED BY <3>1 DEF OwnerInv, DialedOwned
  <2>6. EndsExplained' BY <2>1 DEF EndsExplained, Dialed
  <2> QED BY <2>2, <2>3, <2>4, <2>5, <2>6 DEF OwnerInv
<1> QED BY <1>1, <1>2

\* ... so they hold in every state.
LEMMA OwnerInvariance == Spec => [](OwnerInv /\ EndsExplained)
<1>1. Init => OwnerInv /\ EndsExplained BY OwnerInitial
<1>2. (OwnerInv /\ EndsExplained) /\ [Next]_vars => (OwnerInv /\ EndsExplained)'
  BY OwnerStep
<1> QED BY <1>1, <1>2, PTL DEF Spec

-----------------------------------------------------------------------------
(* As long as the owners are certain *)

\* A peer has a socket with its node: the connecting one, or its data socket.
PeerHolds(n, m) ==
  m \in Peers(n) =>
    /\ sock[n][SocketOfPeer(n, m)].type = IF peers[n][m].tryConnect THEN "connect" ELSE "data"
    /\ Far(ConnOf(n, SocketOfPeer(n, m)), n) = m
    /\ peers[n][m].type = "out" /\ ~peers[n][m].tryConnect
         => peers[n][m].connSocket = peers[n][m].dataSocket
    /\ peers[n][m].type = "in" => peers[n][m].connSocket \in StaleFD
PeersHold == OwnersCertain => \A n, m \in Node : PeerHolds(n, m)

\* A PING that the node at the other end asked, and the PONG it gets, travel over
\* the connection of its peer, unless both nodes connected.
PongFits(c) ==
  /\ ~Dialed(conn[c].to, conn[c].from) /\ conn[c].to \notin conn[c].closed
  /\ Holds(conn[c].stream[conn[c].from], "PING") \/ Holds(conn[c].stream[conn[c].to], "PONG")
  => /\ conn[c].from \in Active(conn[c].to)
     /\ ConnOf(conn[c].to, peers[conn[c].to][conn[c].from].dataSocket) = c
PongsFit == OwnersCertain => \A c \in DOMAIN conn : PongFits(c)

\* What PeersHold says of a peer while the owners are certain.
LEMMA PeerHoldsFacts ==
  ASSUME OwnerInv, PeersHold, OwnersCertain, NEW n \in Node, NEW m \in Peers(n)
  PROVE  /\ PeerHolds(n, m) /\ m \in Node /\ m \notin Lost(n)
         /\ SocketOfPeer(n, m) \in FD /\ Open(n, SocketOfPeer(n, m))
         /\ ConnOf(n, SocketOfPeer(n, m)) \in DOMAIN conn
         /\ peers[n][m].tryConnect => SocketOfPeer(n, m) = peers[n][m].connSocket
         /\ ~peers[n][m].tryConnect => SocketOfPeer(n, m) = peers[n][m].dataSocket
         /\ m \in Active(n) => SocketOfPeer(n, m) = peers[n][m].dataSocket
         /\ peers[n][m].tryConnect <=> m \notin Active(n)
<1>1. m \in Node BY DEF Peers
<1>2. PeerHolds(n, m) BY <1>1 DEF PeersHold
<1>3. m \notin Lost(n) BY DEF OwnerInv, LostExplained, OwnersCertain
<1>4. /\ SocketOfPeer(n, m) \in FD
      /\ peers[n][m].tryConnect => SocketOfPeer(n, m) = peers[n][m].connSocket
      /\ ~peers[n][m].tryConnect => SocketOfPeer(n, m) = peers[n][m].dataSocket
  BY <1>3, SocketOfPeerFacts DEF OwnerInv, Fits
<1>5. Open(n, SocketOfPeer(n, m))
  BY <1>2 DEF PeerHolds, Open, NoSocket
<1>6. ConnOf(n, SocketOfPeer(n, m)) \in DOMAIN conn
  BY <1>4, <1>5 DEF OwnerInv, Fits, SocketInv, SocketsFit, SocketFits
<1>7. PeerFits(peers[n][m]) BY <1>1 DEF OwnerInv, Fits, TableInv
<1>8. peers[n][m].tryConnect <=> m \notin Active(n)
  BY <1>1, <1>3, <1>7 DEF PeerFits, Active, Lost, Trying, Peers
<1>9. m \in Active(n) => SocketOfPeer(n, m) = peers[n][m].dataSocket
  BY <1>4, <1>8
<1> QED BY <1>1, <1>2, <1>3, <1>4, <1>5, <1>6, <1>8, <1>9

\* Two peers of a node have two sockets.
LEMMA OneSocketEach ==
  ASSUME OwnerInv, PeersHold, OwnersCertain, NEW n \in Node,
         NEW a \in Peers(n), NEW b \in Peers(n), SocketOfPeer(n, a) = SocketOfPeer(n, b)
  PROVE  a = b
<1>1. PeerHolds(n, a) /\ PeerHolds(n, b) BY PeerHoldsFacts
<1> QED BY <1>1 DEF PeerHolds

\* A peer that a step leaves alone, with its socket, still holds it.
LEMMA PeerKept ==
  ASSUME OwnerInv, PeersHold, OwnersCertain, ConnsStay,
         NEW n \in Node, NEW m \in Peers(n),
         peers'[n][m].type = peers[n][m].type,
         peers'[n][m].connSocket = peers[n][m].connSocket,
         peers'[n][m].dataSocket = peers[n][m].dataSocket,
         peers'[n][m].tryConnect = peers[n][m].tryConnect,
         sock'[n][SocketOfPeer(n, m)] = sock[n][SocketOfPeer(n, m)]
  PROVE  PeerHolds(n, m)'
<1>1. /\ PeerHolds(n, m) /\ ConnOf(n, SocketOfPeer(n, m)) \in DOMAIN conn
  BY PeerHoldsFacts
<1>2. SocketOfPeer(n, m)' = SocketOfPeer(n, m) BY DEF SocketOfPeer
<1> SUFFICES ASSUME NEW fd, fd = SocketOfPeer(n, m), NEW c, c = ConnOf(n, fd)
             PROVE  PeerHolds(n, m)'
  OBVIOUS
<1>3. ConnOf(n, fd)' = c BY DEF ConnOf
<1>4. conn'[c].from = conn[c].from /\ conn'[c].to = conn[c].to
  BY <1>1 DEF ConnsStay
<1>5. (IF conn'[c].from = n THEN conn'[c].to ELSE conn'[c].from) = Far(c, n)
  BY <1>4 DEF Far
<1>6. Far(ConnOf(n, SocketOfPeer(n, m)), n)' = Far(c, n)
  BY <1>2, <1>3, <1>5 DEF Far
<1>7. sock'[n][SocketOfPeer(n, m)'] = sock[n][fd] BY <1>2
<1> QED BY <1>1, <1>2, <1>6, <1>7 DEF PeerHolds

\* A step of n keeps PeersHold.
LEMMA PeerHoldsStep ==
  ASSUME OwnerInv, PeersHold, OwnersCertain, failed' = failed, NEW n \in Node, Step(n),
         NEW x \in Node, NEW y \in Node
  PROVE  PeerHolds(x, y)'
<1>f. Fits /\ Fits' /\ ConnsStay BY StepFacts DEF OwnerInv
<1>d. FD \cap StaleFD = {} /\ failed = 0 BY DEF OwnersCertain
<1> SUFFICES ASSUME NEW s, s = SocketOfPeer(x, y) PROVE PeerHolds(x, y)'
  OBVIOUS
<1>p. ASSUME y \in Peers(x)
      PROVE  /\ s \in FD /\ Open(x, s) /\ Far(ConnOf(x, s), x) = y
             /\ sock[x][s].type = IF peers[x][y].tryConnect THEN "connect" ELSE "data"
             /\ sock[x][s].type = "data" => peers[x][y].dataSocket = s
             /\ sock[x][s].type = "connect" => y \notin Active(x)
  <2>1. PeerHolds(x, y) /\ s \in FD /\ Open(x, s) BY <1>p, PeerHoldsFacts
  <2>2. peers[x][y].tryConnect <=> y \notin Active(x) BY <1>p, PeerHoldsFacts
  <2>3. y \in Active(x) => s = peers[x][y].dataSocket BY <1>p, PeerHoldsFacts
  <2> QED BY <1>p, <2>1, <2>2, <2>3 DEF PeerHolds
\* A peer that stays, with its socket.
<1>1. ASSUME peers'[x][y].type = peers[x][y].type,
             peers'[x][y].connSocket = peers[x][y].connSocket,
             peers'[x][y].dataSocket = peers[x][y].dataSocket,
             peers'[x][y].tryConnect = peers[x][y].tryConnect,
             y \in Peers(x) => sock'[x][s] = sock[x][s]
      PROVE  PeerHolds(x, y)'
  <2>1. CASE y \in Peers(x) BY <1>1, <1>f, <2>1, PeerKept
  <2>2. CASE y \notin Peers(x)
    <3>1. peers'[x][y].type = "none" BY <1>1, <2>2, PeerRecords DEF Peers
    <3>2. PeerFits(peers'[x][y]) BY <1>f DEF Fits, TableInv
    <3>3. peers'[x][y] = NoPeer BY <3>1, <3>2 DEF PeerFits
    <3> QED BY <3>3 DEF PeerHolds, Peers
  <2> QED BY <2>1, <2>2
<1>2. ASSUME peers'[x][y] = NoPeer PROVE PeerHolds(x, y)'
  BY <1>2 DEF PeerHolds, Peers
<1>3. ASSUME peers' = peers, y \in Peers(x) => sock'[x][s] = sock[x][s] PROVE PeerHolds(x, y)'
  BY <1>1, <1>3
<1>4. ASSUME NEW F, Closes(n, F), ~(x = n /\ s \in F), y \in Peers(x)
      PROVE  sock'[x][s] = sock[x][s]
  BY <1>4, <1>p DEF Closes
<1>5. ASSUME NEW m \in Node, Opens(n, m) PROVE PeerHolds(x, y)'
  <2>1. m # n /\ ConnectSocket(n, m) /\ status' = status
    BY <1>5, <1>f, OpensFacts DEF Opens, ConnectPeer
  <2> SUFFICES ASSUME NEW g, g = FreeFD(n), NEW c, c = Len(conn) + 1 PROVE PeerHolds(x, y)'
    OBVIOUS
  <2>2. /\ g \in FD /\ sock[n][g] = NoSocket
        /\ \A a \in Node : \A fd \in FD :
             sock'[a][fd] = IF a = n /\ fd = g THEN [type |-> "connect", conn |-> c] ELSE sock[a][fd]
        /\ conn'[c] = Dial(n, m)
    BY <1>f, <2>1, OpeningSockets DEF Fits
  <2>3. \A a, b \in Node : peers'[a][b] = IF a = n /\ b = m THEN OutgoingPeer(g) ELSE peers[a][b]
    BY <1>5, <1>f, OpensFacts
  <2>4. CASE x = n /\ y = m
    <3>1. peers'[x][y] = OutgoingPeer(g) BY <2>3, <2>4
    <3>2. /\ peers'[x][y].type = "out" /\ peers'[x][y].tryConnect = TRUE
          /\ peers'[x][y].connSocket = g
      BY <2>2, <3>1, PeerRecords
    <3>3. SocketOfPeer(x, y)' = g BY <3>2 DEF SocketOfPeer
    <3>4. sock'[x][g] = [type |-> "connect", conn |-> c] BY <2>2, <2>4
    <3>5. ConnOf(x, g)' = c /\ sock'[x][g].type = "connect" BY <3>4 DEF ConnOf
    <3>6. conn'[c].from = x /\ conn'[c].to = y BY <2>2, <2>4 DEF Dial
    <3>7. Far(ConnOf(x, SocketOfPeer(x, y)), x)' = y
      BY <3>3, <3>5, <3>6 DEF Far
    <3> QED BY <3>2, <3>3, <3>5, <3>7 DEF PeerHolds
  <2>5. CASE ~(x = n /\ y = m)
    <3>1. peers'[x][y] = peers[x][y] BY <2>3, <2>5
    <3>2. y \in Peers(x) => sock'[x][s] = sock[x][s]
      BY <1>p, <2>2 DEF Open
    <3> QED BY <1>1, <3>1, <3>2
  <2> QED BY <2>4, <2>5
<1>6. ASSUME NEW m \in Node, Drops(n, m) PROVE PeerHolds(x, y)'
  <2>1. /\ m \in Peers(n) /\ Closes(n, {SocketOfPeer(n, m)})
        /\ \A a, b \in Node : peers'[a][b] = IF a = n /\ b = m THEN NoPeer ELSE peers[a][b]
    BY <1>6, <1>f, DropsFacts
  <2>2. CASE x = n /\ y = m BY <1>2, <2>1, <2>2
  <2>3. CASE ~(x = n /\ y = m)
    <3>1. peers'[x][y] = peers[x][y] BY <2>1, <2>3
    <3>2. y \in Peers(x) => ~(x = n /\ s \in {SocketOfPeer(n, m)})
      BY <2>1, <2>3, OneSocketEach
    <3>3. y \in Peers(x) => sock'[x][s] = sock[x][s] BY <1>4, <2>1, <3>2
    <3> QED BY <1>1, <3>1, <3>3
  <2> QED BY <2>2, <2>3
<1>7. ASSUME NEW m \in Node, RecvAddr(n, m) PROVE PeerHolds(x, y)'
  BY <1>3, <1>7, <1>f, RecvAddrFacts
<1>8. ASSUME NEW why \in HowItEnds, Ends(n, why) PROVE PeerHolds(x, y)'
  BY <1>3, <1>8, <1>f, EndsSteps
<1>9. ASSUME NEW c \in DOMAIN conn, Accept(n, c) PROVE PeerHolds(x, y)'
  <2>1. AcceptHandler(n, c) /\ peers' = peers BY <1>9, <1>f, AcceptFacts
  <2>2. /\ sock[n][FreeFD(n)] = NoSocket
        /\ \A a \in Node : \A fd \in FD :
            sock'[a][fd] = IF a = n /\ fd = FreeFD(n) THEN [type |-> "data", conn |-> c]
                           ELSE sock[a][fd]
    BY <1>f, <2>1, AcceptingSockets DEF Fits
  <2>3. y \in Peers(x) => sock'[x][s] = sock[x][s] BY <1>p, <2>2 DEF Open
  <2> QED BY <1>3, <2>1, <2>3
<1>10. ASSUME NEW g \in FD, OnSocket(n, g) PROVE PeerHolds(x, y)'
  <2>n. g # NoFD BY SocketAssumption DEF FD, NoFD
  <2>1. CASE SocketConnect(n, g)
    <3> SUFFICES ASSUME NEW c, c = ConnOf(n, g) PROVE PeerHolds(x, y)'
      OBVIOUS
    <3>1. /\ sock[n][g].type = "connect"
          /\ \A a \in Node : \A b \in FD :
               sock'[a][b] = IF a = n /\ b = g THEN [type |-> "data", conn |-> ConnOf(n, g)]
                             ELSE sock[a][b]
      BY <1>f, <2>1, SocketConnectFacts, ZenonT(40)
    <3>2. PICK m \in Owners(n, g) :
              \A a, b \in Node :
                peers'[a][b] = IF a = n /\ b = m
                               THEN [peers[n][m] EXCEPT !.tryConnect = FALSE, !.dataSocket = g]
                               ELSE peers[a][b]
      BY <1>f, <2>1, SocketConnectFacts, ZenonT(40)
    <3>3. m \in Peers(n) /\ m \in Node /\ peers[n][m].connSocket = g /\ peers[n][m] \in PeerRecord
      BY <1>f DEF Owners, Peers, Fits, TableInv
    <3>4. PeerHolds(n, m) /\ PeerFits(peers[n][m]) /\ peers[n][m] # NoPeer
      BY <1>f, <3>3, PeerHoldsFacts DEF Fits, TableInv, Peers
    <3>5. peers[n][m].type = "out"
      <4>1. peers[n][m].type # "in" BY <1>d, <3>3, <3>4 DEF PeerHolds
      <4> QED BY <3>3, <3>4, <4>1 DEF PeerFits, PeerRecord
    <3>6. SocketOfPeer(n, m) = g
      <4>1. ~peers[n][m].tryConnect => peers[n][m].dataSocket = g
        BY <3>3, <3>4, <3>5 DEF PeerHolds
      <4> QED BY <3>3, <4>1 DEF SocketOfPeer
    <3>7. CASE x = n /\ y = m
      <4>1. peers'[x][y] = [peers[n][m] EXCEPT !.tryConnect = FALSE, !.dataSocket = g]
        BY <3>2, <3>7
      <4>2. /\ peers'[x][y].type = "out" /\ peers'[x][y].tryConnect = FALSE
            /\ peers'[x][y].connSocket = g /\ peers'[x][y].dataSocket = g
        BY <3>3, <3>5, <4>1 DEF PeerRecord
      <4>3. SocketOfPeer(x, y)' = g BY <4>2 DEF SocketOfPeer
      <4>4. sock'[x][g] = [type |-> "data", conn |-> c] BY <3>1, <3>7
      <4>5. ConnOf(x, g)' = c /\ sock'[x][g].type = "data" BY <4>4 DEF ConnOf
      <4>6. c \in DOMAIN conn /\ Far(c, x) = y BY <3>3, <3>4, <3>6, <3>7, PeerHoldsFacts DEF PeerHolds
      <4>7. conn'[c].from = conn[c].from /\ conn'[c].to = conn[c].to
        BY <1>f, <4>6 DEF ConnsStay
      <4>8. Far(ConnOf(x, SocketOfPeer(x, y)), x)' = y
        BY <4>3, <4>5, <4>6, <4>7 DEF Far
      <4> QED BY <4>2, <4>3, <4>5, <4>8 DEF PeerHolds
    <3>8. CASE ~(x = n /\ y = m)
      <4>1. peers'[x][y] = peers[x][y] BY <3>2, <3>8
      <4>2. y \in Peers(x) => ~(x = n /\ s = g)
        BY <3>3, <3>6, <3>8, OneSocketEach
      <4>3. y \in Peers(x) => sock'[x][s] = sock[x][s] BY <1>p, <3>1, <4>2
      <4> QED BY <1>1, <4>1, <4>3
    <3> QED BY <3>7, <3>8
  <2>2. CASE SocketConnectFailed(n, g)
    <3>1. failed' = failed + 1 BY <1>f, <2>2, ConnectFailedFacts
    <3> QED BY <1>d, <3>1
  <2>3. CASE SocketClose(n, g)
    <3>1. /\ Closes(n, {g}) /\ sock[n][g].type = "data"
          /\ \/ peers' = peers /\ \A m \in Node : peers[n][m].dataSocket # g
             \/ \E m \in Node :
                 /\ peers[n][m].dataSocket = g
                 /\ \A a, b \in Node :
                      peers'[a][b] = IF a = n /\ b = m THEN NoPeer ELSE peers[a][b]
      BY <1>f, <2>3, SocketCloseFacts, Zenon
    <3>2. CASE peers' = peers /\ \A m \in Node : peers[n][m].dataSocket # g
      <4>1. y \in Peers(x) => ~(x = n /\ s \in {g}) BY <1>p, <3>1, <3>2
      <4>2. y \in Peers(x) => sock'[x][s] = sock[x][s] BY <1>4, <3>1, <4>1
      <4> QED BY <1>3, <3>2, <4>2
    <3>3. ASSUME NEW m \in Node, peers[n][m].dataSocket = g,
                 \A a, b \in Node :
                    peers'[a][b] = IF a = n /\ b = m THEN NoPeer ELSE peers[a][b]
          PROVE  PeerHolds(x, y)'
      <4>1. m \in Active(n) /\ m \in Peers(n)
        BY <2>n, <3>3 DEF Active, Peers, NoPeer
      <4>2. SocketOfPeer(n, m) = g BY <3>3, <4>1, PeerHoldsFacts
      <4>3. CASE x = n /\ y = m BY <1>2, <3>3, <4>3
      <4>4. CASE ~(x = n /\ y = m)
        <5>1. peers'[x][y] = peers[x][y] BY <3>3, <4>4
        <5>2. y \in Peers(x) => ~(x = n /\ s \in {g})
          BY <4>1, <4>2, <4>4, OneSocketEach
        <5>3. y \in Peers(x) => sock'[x][s] = sock[x][s] BY <1>4, <3>1, <5>2
        <5> QED BY <1>1, <5>1, <5>3
      <4> QED BY <4>3, <4>4
    <3> QED BY <3>1, <3>2, <3>3
  <2>4. CASE PeerNotify(n, g)
    <3> SUFFICES ASSUME NEW m, m = Far(ConnOf(n, g), n) PROVE PeerHolds(x, y)'
      OBVIOUS
    <3>1. /\ Open(n, g) /\ sock[n][g].type = "data"
          /\ Ignored(n, g) \/ TurnedAway(n, g) \/ Introduced(n, g)
      BY <1>f, <2>4, PeerNotifyFacts
    <3>2. CASE Ignored(n, g)
      <4>1. Closes(n, {}) /\ peers' = peers BY <3>2 DEF Ignored
      <4> QED BY <1>3, <1>4, <4>1
    <3>3. CASE TurnedAway(n, g)
      <4>1. Closes(n, {g}) /\ peers' = peers /\ m \notin Active(n) BY <3>3 DEF TurnedAway
      <4>2. y \in Peers(x) => ~(x = n /\ s \in {g})
        <5>1. SUFFICES ASSUME y \in Peers(x), x = n, s = g PROVE FALSE OBVIOUS
        <5>2. y = m /\ peers[x][y].dataSocket = g BY <1>p, <3>1, <5>1
        <5> QED BY <2>n, <4>1, <5>1, <5>2 DEF Active
      <4>3. y \in Peers(x) => sock'[x][s] = sock[x][s] BY <1>4, <4>1, <4>2
      <4> QED BY <1>3, <4>1, <4>3
    <3>4. CASE Introduced(n, g)
      <4>1. Closes(n, {}) BY <3>4 DEF Introduced
      <4>2. PICK stale \in StaleFD : \A a, b \in Node :
              peers'[a][b] = IF a = n /\ b = m THEN IncomingPeer(g, stale) ELSE peers[a][b]
        BY <3>4 DEF Introduced
      <4>3. CASE x = n /\ y = m
        <5>1. peers'[x][y] = IncomingPeer(g, stale) BY <4>2, <4>3
        <5>2. /\ peers'[x][y].type = "in" /\ peers'[x][y].tryConnect = FALSE
              /\ peers'[x][y].connSocket = stale /\ peers'[x][y].dataSocket = g
          BY <5>1, PeerRecords
        <5>3. SocketOfPeer(x, y)' = g BY <5>2 DEF SocketOfPeer
        <5>4. sock'[x][g] = sock[x][g] BY <4>1 DEF Closes
        <5> SUFFICES ASSUME NEW c, c = ConnOf(n, g) PROVE PeerHolds(x, y)'
          OBVIOUS
        <5>5. ConnOf(x, g)' = c /\ sock'[x][g].type = "data" BY <3>1, <4>3, <5>4 DEF ConnOf
        <5>6. c \in DOMAIN conn /\ Far(c, x) = y BY <1>f, <3>1, <4>3, FarFacts DEF Fits
        <5>7. conn'[c].from = conn[c].from /\ conn'[c].to = conn[c].to
          BY <1>f, <5>6 DEF ConnsStay
        <5>8. Far(ConnOf(x, SocketOfPeer(x, y)), x)' = y
          BY <5>3, <5>5, <5>6, <5>7 DEF Far
        <5> QED BY <5>2, <5>3, <5>5, <5>8 DEF PeerHolds
      <4>4. CASE ~(x = n /\ y = m)
        <5>1. peers'[x][y] = peers[x][y] BY <4>2, <4>4
        <5> QED BY <1>1, <1>4, <4>1, <5>1
      <4> QED BY <4>3, <4>4
    <3> QED BY <3>1, <3>2, <3>3, <3>4
  <2>5. CASE RecvPing(n, g)
    <3>1. Closes(n, {}) /\ peers' = peers BY <1>f, <2>5, RecvPingFacts
    <3> QED BY <1>3, <1>4, <3>1
  <2>6. CASE Answered(n, g)
    <3>1. /\ Closes(n, {})
          /\ \A a, b \in Node :
               /\ peers'[a][b].type = peers[a][b].type
               /\ peers'[a][b].connSocket = peers[a][b].connSocket
               /\ peers'[a][b].dataSocket = peers[a][b].dataSocket
               /\ peers'[a][b].tryConnect = peers[a][b].tryConnect
      BY <1>f, <2>6, AnsweredFacts
    <3> QED BY <1>1, <1>4, <3>1
  <2> QED BY <1>10, <2>1, <2>2, <2>3, <2>4, <2>5, <2>6 DEF OnSocket
<1>11. CASE Pings(n)
  <2>1. /\ Closes(n, LateSockets(n))
        /\ \A a, b \in Node :
             IF a = n /\ b \in Late(n) THEN peers'[a][b] = NoPeer
              ELSE /\ peers'[a][b].type = peers[a][b].type
                   /\ peers'[a][b].connSocket = peers[a][b].connSocket
                   /\ peers'[a][b].dataSocket = peers[a][b].dataSocket
                   /\ peers'[a][b].tryConnect = peers[a][b].tryConnect
    BY <1>11, <1>f, PingsFacts
  <2>2. CASE x = n /\ y \in Late(n) BY <1>2, <2>1, <2>2
  <2>3. CASE ~(x = n /\ y \in Late(n))
    <3>1. y \in Peers(x) => ~(x = n /\ s \in LateSockets(n))
      BY <2>3, OneSocketEach DEF LateSockets, Late
    <3>2. y \in Peers(x) => sock'[x][s] = sock[x][s] BY <1>4, <2>1, <3>1
    <3> QED BY <1>1, <2>1, <2>3, <3>2
  <2> QED BY <2>2, <2>3
<1> QED BY <1>5, <1>6, <1>7, <1>8, <1>9, <1>10, <1>11 DEF Step

\* A step of z keeps PongsFit: a PONG goes back the way its PING came, because
\* the node that dialed has one socket for it, and a PING leaves over the socket
\* of its peer.
LEMMA PongStep ==
  ASSUME OwnerInv, PeersHold, PongsFit, OwnersCertain, failed' = failed,
         NEW z \in Node, Step(z), NEW c \in DOMAIN conn'
  PROVE  PongFits(c)'
<1>f. Fits /\ Fits' /\ ConnsStay BY StepFacts DEF OwnerInv
<1>t. "PING" \in Msg /\ "PONG" \in Msg /\ "PING" # "PONG" /\ "PING" # "notifyPeerId"
      /\ "PONG" # "notifyPeerId"
  BY DEF Msg
<1> SUFFICES ASSUME NEW m, m = conn'[c].from, NEW n, n = conn'[c].to
             PROVE  PongFits(c)'
  OBVIOUS
<1>m. m \in Node /\ n \in Node
  <2>1. conn' \in Seq(Connection) BY <1>f DEF Fits, SocketInv
  <2>2. conn'[c] \in Connection BY <2>1, TableFacts
  <2> QED BY <2>2 DEF Connection
<1> SUFFICES ASSUME ~Dialed(n, m)', n \notin conn'[c].closed,
                    Holds(conn'[c].stream[m], "PING") \/ Holds(conn'[c].stream[n], "PONG")
             PROVE  peers'[n][m].dataSocket # NoFD /\ sock'[n][peers'[n][m].dataSocket].conn = c
  BY <1>m DEF PongFits, Active, ConnOf
<1>1. ASSUME c \in DOMAIN conn
      PROVE  /\ conn[c].from = m /\ conn[c].to = n /\ m \in Node /\ n \in Node /\ m # n
             /\ ~Dialed(n, m)
  <2>1. conn[c].from = m /\ conn[c].to = n BY <1>1, <1>f DEF ConnsStay
  <2>2. m \in Node /\ n \in Node /\ m # n
    BY <1>1, <1>f, <2>1, TableTypes DEF Fits, SocketInv, ConnsFit, ConnFits
  <2> QED BY <1>f, <2>1, <2>2, DialedStays
\* The message was there before the step.
<1> DEFINE Before == Holds(conn[c].stream[m], "PING") \/ Holds(conn[c].stream[n], "PONG")
<1>2. ASSUME c \in DOMAIN conn, Before, n \notin conn[c].closed
      PROVE  /\ m \in Active(n) /\ ConnOf(n, peers[n][m].dataSocket) = c
             /\ m \in Peers(n) /\ SocketOfPeer(n, m) = peers[n][m].dataSocket
             /\ peers[n][m].dataSocket \in FD /\ Open(n, peers[n][m].dataSocket)
             /\ ~peers[n][m].tryConnect
  <2>1. PongFits(c) BY <1>2 DEF PongsFit
  <2>2. m \in Active(n) /\ ConnOf(n, peers[n][m].dataSocket) = c
    BY <1>1, <1>2, <2>1 DEF PongFits
  <2>3. m \in Peers(n) BY <2>2 DEF Active, Peers, NoPeer
  <2>4. /\ SocketOfPeer(n, m) \in FD /\ Open(n, SocketOfPeer(n, m))
        /\ m \in Active(n) => SocketOfPeer(n, m) = peers[n][m].dataSocket
        /\ peers[n][m].tryConnect <=> m \notin Active(n)
    BY <1>1, <1>2, <2>3, PeerHoldsFacts
  <2>5. SocketOfPeer(n, m) = peers[n][m].dataSocket BY <2>2, <2>4
  <2> QED BY <2>2, <2>3, <2>4, <2>5
<1>3. ASSUME c \in DOMAIN conn, Before, n \notin conn[c].closed,
             peers'[n][m].dataSocket = peers[n][m].dataSocket,
             sock'[n][peers[n][m].dataSocket] = sock[n][peers[n][m].dataSocket]
      PROVE  peers'[n][m].dataSocket # NoFD /\ sock'[n][peers'[n][m].dataSocket].conn = c
  <2>1. peers[n][m].dataSocket # NoFD BY <1>2, <1>3 DEF Active
  <2> QED BY <1>2, <1>3, <2>1 DEF ConnOf
\* An end that n still has was not closed by the step.
<1>4. ASSUME NEW F, Closes(z, F), Before
      PROVE  /\ c \in DOMAIN conn /\ n \notin conn[c].closed
             /\ ~(n = z /\ peers[n][m].dataSocket \in F)
             /\ sock'[n][peers[n][m].dataSocket] = sock[n][peers[n][m].dataSocket]
  <2>1. c \in DOMAIN conn BY <1>4 DEF Closes, SameEnds
  <2>2. n \notin conn[c].closed BY <1>1, <1>4, <2>1 DEF Closes
  <2>3. /\ ConnOf(n, peers[n][m].dataSocket) = c /\ peers[n][m].dataSocket \in FD
    BY <1>2, <1>4, <2>1, <2>2
  <2>4. ~(n = z /\ peers[n][m].dataSocket \in F)
    BY <1>1, <1>4, <2>1, <2>3 DEF Closes
  <2>5. sock'[n][peers[n][m].dataSocket] = sock[n][peers[n][m].dataSocket]
    BY <1>1, <1>4, <2>1, <2>3, <2>4 DEF Closes
  <2> QED BY <2>1, <2>2, <2>4, <2>5
<1>5. ASSUME NEW L, NEW w, Sends(z, L, w), w = "notifyPeerId" \/ L = {}, c \in DOMAIN conn
      PROVE  Before
  <2>1. m \in Node /\ n \in Node BY <1>1, <1>5
  <2>2. /\ Holds(conn'[c].stream[m], "PING") => Holds(conn[c].stream[m], "PING")
        /\ Holds(conn'[c].stream[n], "PONG") => Holds(conn[c].stream[n], "PONG")
    BY <1>5, <1>t, <2>1 DEF Sends
  <2> QED BY <2>2
<1>6. ASSUME NEW F, Closes(z, F), Sends(z, {}, "PING"),
             Before => peers'[n][m].dataSocket = peers[n][m].dataSocket
      PROVE  peers'[n][m].dataSocket # NoFD /\ sock'[n][peers'[n][m].dataSocket].conn = c
  <2>1. c \in DOMAIN conn BY <1>6 DEF Closes, SameEnds
  <2>2. Before BY <1>5, <1>6, <2>1
  <2> QED BY <1>3, <1>4, <1>6, <2>1, <2>2
<1> DEFINE Goal == peers'[n][m].dataSocket # NoFD /\ sock'[n][peers'[n][m].dataSocket].conn = c
<1>7. ASSUME NEW w \in Node, Opens(z, w) PROVE Goal
  <2>1. w # z /\ ConnectSocket(z, w) /\ status' = status
    BY <1>7, <1>f, OpensFacts DEF Opens, ConnectPeer
  <2> SUFFICES ASSUME NEW g, g = FreeFD(z), NEW e, e = Len(conn) + 1 PROVE Goal
    OBVIOUS
  <2>2. /\ g \in FD /\ sock[z][g] = NoSocket
        /\ \A a \in Node : \A fd \in FD :
             sock'[a][fd] = IF a = z /\ fd = g THEN [type |-> "connect", conn |-> e] ELSE sock[a][fd]
        /\ conn'[e] = Dial(z, w)
        /\ DOMAIN conn' = DOMAIN conn \cup {e}
        /\ \A d \in DOMAIN conn : conn'[d] = conn[d]
    <3>1. SocketInv BY <1>f DEF Fits
    <3>2. /\ FreeFD(z) \in FD /\ sock[z][FreeFD(z)] = NoSocket
          /\ \A a \in Node : \A fd \in FD :
               sock'[a][fd] = IF a = z /\ fd = FreeFD(z)
                              THEN [type |-> "connect", conn |-> Len(conn) + 1] ELSE sock[a][fd]
          /\ DOMAIN conn' = DOMAIN conn \cup {Len(conn) + 1}
          /\ \A d \in DOMAIN conn : conn'[d] = conn[d]
          /\ conn'[Len(conn) + 1] = Dial(z, w)
      BY <2>1, <3>1, OpeningSockets, Zenon
    <3> QED BY <3>2
  <2>3. \A a, b \in Node : peers'[a][b] = IF a = z /\ b = w THEN OutgoingPeer(g) ELSE peers[a][b]
    BY <1>7, <1>f, OpensFacts
  <2>4. c # e
    <3>1. SUFFICES ASSUME c = e PROVE FALSE OBVIOUS
    <3>2. m \in Node /\ n \in Node BY <2>1, <2>2, <3>1 DEF Dial
    <3> QED BY <2>2, <3>1, <3>2 DEF Dial, Holds
  <2>5. c \in DOMAIN conn /\ conn'[c] = conn[c] BY <2>2, <2>4
  <2>6. Before /\ n \notin conn[c].closed BY <2>5
  <2>7. ~(n = z /\ m = w)
    <3>1. SUFFICES ASSUME n = z, m = w PROVE FALSE OBVIOUS
    <3>2. e \in DOMAIN conn' /\ conn'[e].from = n /\ conn'[e].to = m
      BY <2>2, <3>1 DEF Dial
    <3>3. Dialed(n, m)' BY <3>2 DEF Dialed
    <3> QED BY <3>3
  <2>8. peers'[n][m] = peers[n][m] BY <1>1, <2>3, <2>5, <2>7
  <2>9. sock'[n][peers[n][m].dataSocket] = sock[n][peers[n][m].dataSocket]
    BY <1>1, <1>2, <2>2, <2>5, <2>6 DEF Open
  <2> QED BY <1>3, <2>5, <2>6, <2>8, <2>9
<1>8. ASSUME NEW w \in Node, Drops(z, w) PROVE Goal
  <2>1. /\ Closes(z, {SocketOfPeer(z, w)}) /\ Sends(z, {}, "PING")
        /\ \A a, b \in Node : peers'[a][b] = IF a = z /\ b = w THEN NoPeer ELSE peers[a][b]
    BY <1>8, <1>f, DropsFacts
  <2>2. ASSUME Before PROVE peers'[n][m].dataSocket = peers[n][m].dataSocket
    <3>1. c \in DOMAIN conn /\ n \notin conn[c].closed
          /\ ~(n = z /\ peers[n][m].dataSocket \in {SocketOfPeer(z, w)})
      BY <1>4, <2>1, <2>2
    <3>2. ~(n = z /\ m = w) BY <1>2, <2>2, <3>1
    <3> QED BY <1>1, <2>1, <3>1, <3>2
  <2> QED BY <1>6, <2>1, <2>2
<1>9. ASSUME NEW w \in Node, RecvAddr(z, w) PROVE Goal
  <2>1. sock' = sock /\ conn' = conn /\ peers' = peers BY <1>9, <1>f, RecvAddrFacts
  <2> QED BY <1>3, <2>1
<1>10. ASSUME NEW why \in HowItEnds, Ends(z, why) PROVE Goal
  <2>1. /\ sock' = sock /\ SameEnds(conn, conn') /\ Sends(z, {}, "PING") /\ peers' = peers
        /\ \A d \in DOMAIN conn : \A x \in Node : x \in conn[d].closed => x \in conn'[d].closed
    BY <1>10, <1>f, EndsSteps
  <2>2. c \in DOMAIN conn BY <2>1 DEF SameEnds
  <2>3. Before /\ n \notin conn[c].closed BY <1>1, <1>5, <2>1, <2>2
  <2> QED BY <1>3, <2>1, <2>2, <2>3
<1>11. ASSUME NEW d \in DOMAIN conn, Accept(z, d) PROVE Goal
  <2>1. AcceptHandler(z, d) /\ peers' = peers BY <1>11, <1>f, AcceptFacts
  <2>2. /\ sock[z][FreeFD(z)] = NoSocket
        /\ \A a \in Node : \A fd \in FD :
            sock'[a][fd] = IF a = z /\ fd = FreeFD(z) THEN [type |-> "data", conn |-> d]
                           ELSE sock[a][fd]
        /\ DOMAIN conn' = DOMAIN conn
        /\ \A e \in DOMAIN conn : conn'[e].closed = conn[e].closed /\ conn'[e].stream = conn[e].stream
    BY <1>f, <2>1, AcceptingSockets DEF Fits
  <2>3. c \in DOMAIN conn /\ Before /\ n \notin conn[c].closed BY <2>2
  <2>4. sock'[n][peers[n][m].dataSocket] = sock[n][peers[n][m].dataSocket]
    BY <1>1, <1>2, <2>2, <2>3 DEF Open
  <2> QED BY <1>3, <2>1, <2>3, <2>4
<1>12. ASSUME NEW g \in FD, OnSocket(z, g) PROVE Goal
  <2>n. g # NoFD BY SocketAssumption DEF FD, NoFD
  <2>1. CASE SocketConnect(z, g)
    <3>1. /\ sock[z][g].type = "connect"
          /\ \A a \in Node : \A b \in FD :
               sock'[a][b] = IF a = z /\ b = g THEN [type |-> "data", conn |-> ConnOf(z, g)]
                             ELSE sock[a][b]
          /\ SameEnds(conn, conn')
          /\ \A d \in DOMAIN conn : \A x \in Node : x \in conn'[d].closed <=> x \in conn[d].closed
          /\ Sends(z, {ConnOf(z, g)}, "notifyPeerId")
      BY <1>f, <2>1, SocketConnectFacts, ZenonT(40)
    <3>2. PICK w \in Owners(z, g) :
              \A a, b \in Node :
                peers'[a][b] = IF a = z /\ b = w
                               THEN [peers[z][w] EXCEPT !.tryConnect = FALSE, !.dataSocket = g]
                               ELSE peers[a][b]
      BY <1>f, <2>1, SocketConnectFacts, ZenonT(40)
    <3>3. c \in DOMAIN conn BY <3>1 DEF SameEnds
    <3>4. n \notin conn[c].closed BY <1>m, <3>1, <3>3
    <3>5. Before BY <1>5, <3>1, <3>3
    <3>6. ~(n = z /\ peers[n][m].dataSocket = g)
      <4>1. PeerHolds(n, m) BY <1>2, <1>m, <3>3, <3>4, <3>5 DEF PeersHold
      <4> QED BY <1>2, <3>1, <3>3, <3>4, <3>5, <4>1 DEF PeerHolds
    <3>7. ~(n = z /\ m = w)
      <4>1. SUFFICES ASSUME n = z, m = w PROVE FALSE OBVIOUS
      <4>2. peers[n][m].connSocket = g /\ peers[n][m].connSocket \notin StaleFD
        BY <4>1 DEF Owners, OwnersCertain
      <4>3. PeerHolds(n, m) BY <1>m DEF PeersHold
      <4>4. peers[n][m].type = "in" \/ peers[n][m].connSocket = peers[n][m].dataSocket
        <5>1. peers[n][m] \in PeerRecord /\ PeerFits(peers[n][m]) BY <1>f, <1>m DEF Fits, TableInv
        <5>2. m \in Peers(n) /\ ~peers[n][m].tryConnect BY <1>2, <3>3, <3>4, <3>5
        <5> QED BY <4>3, <5>1, <5>2 DEF PeerHolds, PeerFits, PeerRecord, Peers
      <4>5. m \in Peers(n) BY <1>2, <3>3, <3>4, <3>5
      <4> QED BY <3>6, <4>1, <4>2, <4>3, <4>4, <4>5 DEF PeerHolds
    <3>8. peers'[n][m] = peers[n][m] BY <1>m, <3>2, <3>7
    <3>9. sock'[n][peers[n][m].dataSocket] = sock[n][peers[n][m].dataSocket]
      BY <1>2, <1>m, <3>1, <3>3, <3>4, <3>5, <3>6
    <3> QED BY <1>3, <3>3, <3>4, <3>5, <3>8, <3>9
  <2>2. CASE SocketConnectFailed(z, g)
    <3>1. failed' = failed + 1 /\ failed \in Nat BY <1>f, <2>2, ConnectFailedFacts
    <3> QED BY <3>1
  <2>3. CASE SocketClose(z, g)
    <3>1. /\ Closes(z, {g}) /\ Sends(z, {}, "PING")
          /\ \/ peers' = peers /\ \A w \in Node : peers[z][w].dataSocket # g
             \/ \E w \in Node :
                 /\ peers[z][w].dataSocket = g
                 /\ \A a, b \in Node :
                      peers'[a][b] = IF a = z /\ b = w THEN NoPeer ELSE peers[a][b]
      BY <1>f, <2>3, SocketCloseFacts, Zenon
    <3>2. CASE peers' = peers BY <1>6, <3>1, <3>2
    <3>3. ASSUME NEW w \in Node, peers[z][w].dataSocket = g,
                 \A a, b \in Node :
                    peers'[a][b] = IF a = z /\ b = w THEN NoPeer ELSE peers[a][b]
          PROVE  Goal
      <4>1. ASSUME Before PROVE peers'[n][m].dataSocket = peers[n][m].dataSocket
        <5>1. c \in DOMAIN conn /\ ~(n = z /\ peers[n][m].dataSocket \in {g})
          BY <1>4, <3>1, <4>1
        <5>2. ~(n = z /\ m = w) BY <3>3, <5>1
        <5> QED BY <1>1, <3>3, <5>1, <5>2
      <4> QED BY <1>6, <3>1, <4>1
    <3> QED BY <3>1, <3>2, <3>3
  <2>4. CASE PeerNotify(z, g)
    <3>1. /\ Sends(z, {}, "PING")
          /\ Ignored(z, g) \/ TurnedAway(z, g) \/ Introduced(z, g)
      BY <1>f, <2>4, PeerNotifyFacts
    <3>2. CASE Ignored(z, g) BY <1>6, <3>1, <3>2 DEF Ignored
    <3>3. CASE TurnedAway(z, g) BY <1>6, <3>1, <3>3 DEF TurnedAway
    <3>4. CASE Introduced(z, g)
      <4>1. Closes(z, {}) BY <3>4 DEF Introduced
      <4>2. PICK w : w \notin Active(z) /\ \E stale \in StaleFD : \A a, b \in Node :
              peers'[a][b] = IF a = z /\ b = w THEN IncomingPeer(g, stale) ELSE peers[a][b]
        BY <3>4 DEF Introduced
      <4>3. ASSUME Before PROVE peers'[n][m].dataSocket = peers[n][m].dataSocket
        <5>1. c \in DOMAIN conn /\ n \notin conn[c].closed BY <1>4, <4>1, <4>3
        <5>2. m \in Active(n) BY <1>2, <4>3, <5>1
        <5> QED BY <1>1, <4>2, <5>1, <5>2
      <4> QED BY <1>6, <3>1, <4>1, <4>3
    <3> QED BY <3>1, <3>2, <3>3, <3>4
  <2>5. CASE RecvPing(z, g)
    <3> SUFFICES ASSUME NEW e, e = ConnOf(z, g), NEW w, w = Far(e, z) PROVE Goal
      OBVIOUS
    <3>1. /\ Open(z, g) /\ Holds(conn[e].stream[z], "PING")
          /\ Closes(z, {}) /\ peers' = peers
      BY <1>f, <2>5, RecvPingFacts
    <3>2. PICK L : /\ Sends(z, L, "PONG")
                   /\ \A d \in L : peers[z][w].dataSocket # NoFD
                                   /\ d = ConnOf(z, peers[z][w].dataSocket)
      BY <1>f, <2>5, RecvPingFacts
    <3>3. c \in DOMAIN conn BY <3>1 DEF Closes, SameEnds
    <3>4. CASE Before BY <1>3, <1>4, <3>1, <3>3, <3>4
    \* A new PONG: its PING came over the same connection.
    <3>5. CASE ~Before
      <4>1. c \in L /\ n = Far(c, z) BY <1>m, <1>t, <3>2, <3>3, <3>5 DEF Sends
      <4> SUFFICES ASSUME NEW d, d = peers[z][w].dataSocket PROVE FALSE
        OBVIOUS
      <4>2. d # NoFD /\ c = ConnOf(z, d) BY <3>2, <4>1
      <4>3. e \in DOMAIN conn /\ w \in Node /\ w # z
            /\ \/ conn[e].from = z /\ conn[e].to = w
               \/ conn[e].to = z /\ conn[e].from = w
        <5>1. /\ ConnOf(z, g) \in DOMAIN conn
              /\ Far(ConnOf(z, g), z) \in Node /\ Far(ConnOf(z, g), z) # z
              /\ \/ /\ conn[ConnOf(z, g)].from = z
                    /\ conn[ConnOf(z, g)].to = Far(ConnOf(z, g), z)
                 \/ /\ conn[ConnOf(z, g)].to = z
                    /\ conn[ConnOf(z, g)].from = Far(ConnOf(z, g), z)
          BY <1>f, <3>1, FarFacts DEF Fits
        <5> QED BY <5>1
      <4>4. w \in Active(z) /\ w \in Peers(z) BY <4>2, <4>3 DEF Active, Peers, NoPeer
      <4>5. PeerHolds(z, w) /\ SocketOfPeer(z, w) = d /\ d \in FD /\ Open(z, d)
        BY <4>4, PeerHoldsFacts
      <4>6. w = n BY <4>1, <4>2, <4>4, <4>5 DEF PeerHolds
      <4>7. z \in {m, n}
        <5>1. SocketFits(z, d) BY <1>f, <4>5 DEF Fits, SocketInv, SocketsFit
        <5> QED BY <1>1, <3>3, <4>2, <5>1 DEF SocketFits
      <4>8. z = m BY <4>3, <4>6, <4>7
      <4>9. conn[e].from = z
        <5>1. SUFFICES ASSUME conn[e].from = n, conn[e].to = m PROVE FALSE
          BY <4>3, <4>6, <4>8
        <5> QED BY <1>1, <3>3, <4>3, <5>1 DEF Dialed
      <4>10. Owned(z, g) /\ Owned(z, d) BY <4>5 DEF OwnerInv, DialedOwned
      <4>11. peers[z][w].connSocket = g
        BY <1>1, <3>1, <3>3, <4>3, <4>6, <4>8, <4>9, <4>10 DEF Owned
      <4>12. peers[z][w].connSocket = d
        BY <1>1, <3>3, <4>2, <4>5, <4>6, <4>8, <4>10 DEF Owned
      <4>13. e = c BY <4>2, <4>11, <4>12
      <4> QED BY <3>1, <3>5, <4>8, <4>13
    <3> QED BY <3>4, <3>5
  <2>6. CASE Answered(z, g)
    <3>1. /\ Closes(z, {}) /\ Sends(z, {}, "PING")
          /\ \A a, b \in Node :
               /\ peers'[a][b].type = peers[a][b].type
               /\ peers'[a][b].connSocket = peers[a][b].connSocket
               /\ peers'[a][b].dataSocket = peers[a][b].dataSocket
               /\ peers'[a][b].tryConnect = peers[a][b].tryConnect
      BY <1>f, <2>6, AnsweredFacts
    <3>2. ASSUME Before PROVE peers'[n][m].dataSocket = peers[n][m].dataSocket
      BY <1>1, <1>4, <3>1, <3>2
    <3> QED BY <1>6, <3>1, <3>2
  <2> QED BY <1>12, <2>1, <2>2, <2>3, <2>4, <2>5, <2>6 DEF OnSocket
<1>13. CASE Pings(z)
  <2>1. /\ Closes(z, LateSockets(z))
        /\ \A a, b \in Node :
             IF a = z /\ b \in Late(z) THEN peers'[a][b] = NoPeer
              ELSE /\ peers'[a][b].type = peers[a][b].type
                   /\ peers'[a][b].connSocket = peers[a][b].connSocket
                   /\ peers'[a][b].dataSocket = peers[a][b].dataSocket
                   /\ peers'[a][b].tryConnect = peers[a][b].tryConnect
    BY <1>13, <1>f, PingsFacts
  <2>2. PICK L : /\ Sends(z, L, "PING")
                 /\ \A d \in L : \E w \in Peers(z) \ Late(z) :
                      peers[z][w].dataSocket # NoFD /\ d = ConnOf(z, peers[z][w].dataSocket)
    BY <1>13, <1>f, PingsFacts
  <2>3. c \in DOMAIN conn BY <2>1 DEF Closes, SameEnds
  <2>4. CASE Before
    <3>1. n \notin conn[c].closed
          /\ ~(n = z /\ peers[n][m].dataSocket \in LateSockets(z))
          /\ sock'[n][peers[n][m].dataSocket] = sock[n][peers[n][m].dataSocket]
      BY <1>4, <2>1, <2>4
    <3>2. SocketOfPeer(n, m) = peers[n][m].dataSocket BY <1>2, <2>3, <2>4, <3>1
    <3>3. ~(n = z /\ m \in Late(z)) BY <3>1, <3>2 DEF LateSockets
    <3>4. peers'[n][m].dataSocket = peers[n][m].dataSocket BY <1>m, <2>1, <3>3
    <3> QED BY <1>3, <2>3, <2>4, <3>1, <3>4
  \* A new PING: it went to the peer.
  <2>5. CASE ~Before
    <3>1. c \in L /\ m = Far(c, z) BY <1>m, <1>t, <2>2, <2>3, <2>5 DEF Sends
    <3>2. PICK w \in Peers(z) \ Late(z) :
             peers[z][w].dataSocket # NoFD /\ c = ConnOf(z, peers[z][w].dataSocket)
      BY <2>2, <3>1
    <3> SUFFICES ASSUME NEW d, d = peers[z][w].dataSocket PROVE Goal
      OBVIOUS
    <3>3. w \in Node /\ w \in Active(z) BY <3>2 DEF Peers, Active
    <3>4. PeerHolds(z, w) /\ SocketOfPeer(z, w) = d /\ d \in FD /\ Open(z, d)
      BY <3>2, <3>3, PeerHoldsFacts
    <3>5. w = m BY <3>1, <3>2, <3>4 DEF PeerHolds
    <3>6. z \in {m, n}
      <4>1. SocketFits(z, d) BY <1>f, <3>4 DEF Fits, SocketInv, SocketsFit
      <4> QED BY <1>1, <2>3, <3>2, <4>1 DEF SocketFits
    <3>7. z = n
      <4>1. SUFFICES ASSUME z = m PROVE FALSE BY <3>6
      <4>2. Far(c, z) = n BY <1>1, <2>3, <4>1 DEF Far
      <4> QED BY <1>1, <2>3, <3>1, <4>2
    <3>8. d \notin LateSockets(z)
      BY <3>2, <3>4, OneSocketEach DEF LateSockets, Late
    <3>9. sock'[z][d] = sock[z][d] BY <2>1, <3>4, <3>8 DEF Closes
    <3>10. peers'[z][w].dataSocket = d BY <2>1, <3>2, <3>3
    <3> QED BY <3>2, <3>5, <3>7, <3>9, <3>10 DEF ConnOf
  <2> QED BY <2>4, <2>5
<1> QED BY <1>7, <1>8, <1>9, <1>10, <1>11, <1>12, <1>13 DEF Step

\* A PONG of a node that is no peer: both nodes connected.
LEMMA NoPeerForPong ==
  ASSUME OwnerInv, PeersHold, PongsFit, OwnersCertain, NEW n \in Node, NEW fd \in FD,
         Receives(n, fd, "PONG"), Far(ConnOf(n, fd), n) \notin Peers(n)
  PROVE  \E m \in Node : Dialed(n, m) /\ Dialed(m, n)
<1>1. Open(n, fd) /\ Running(n) BY DEF Receives, Open, NoSocket
<1> SUFFICES ASSUME NEW c, c = ConnOf(n, fd), NEW m, m = Far(c, n)
             PROVE  \E k \in Node : Dialed(n, k) /\ Dialed(k, n)
  OBVIOUS
<1>2. /\ c \in DOMAIN conn /\ m \in Node
      /\ \/ conn[c].from = n /\ conn[c].to = m
         \/ conn[c].to = n /\ conn[c].from = m
  BY <1>1, FarFacts DEF OwnerInv, Fits
<1>3. n \notin conn[c].closed
  BY <1>1 DEF OwnerInv, Fits, SocketInv, SocketsFit, SocketFits
<1>4. Holds(conn[c].stream[n], "PONG")
  <2>1. conn[c].stream[n] \in Seq(Msg) BY <1>2, TableTypes DEF OwnerInv, Fits, SocketInv
  <2>2. conn[c].stream[n] # << >> /\ Head(conn[c].stream[n]) = "PONG" BY DEF Receives
  <2> QED BY <2>1, <2>2, StreamFacts DEF Holds
<1>5. CASE conn[c].from = n /\ conn[c].to = m
  <2>1. Dialed(n, m) BY <1>2, <1>5 DEF Dialed
  <2>2. Dialed(m, n)
    <3>1. SUFFICES ASSUME ~Dialed(m, n) PROVE FALSE OBVIOUS
    <3>2. Owned(n, fd) BY DEF OwnerInv, DialedOwned
    <3>3. peers[n][m].type = "out" BY <1>1, <1>5, <3>1, <3>2 DEF Owned
    <3>4. m \in Peers(n) BY <1>2, <3>3, PeerRecords DEF Peers
    <3> QED BY <3>4
  <2> QED BY <1>2, <2>1, <2>2
<1>6. CASE conn[c].to = n /\ conn[c].from = m
  <2>1. Dialed(m, n) BY <1>2, <1>6 DEF Dialed
  <2>2. Dialed(n, m)
    <3>1. SUFFICES ASSUME ~Dialed(n, m) PROVE FALSE OBVIOUS
    <3>2. PongFits(c) BY <1>2 DEF PongsFit
    <3>3. m \in Active(n) BY <1>3, <1>4, <1>6, <3>1, <3>2 DEF PongFits
    <3>4. m \in Peers(n) BY <3>3 DEF Active, Peers, NoPeer
    <3> QED BY <3>4
  <2> QED BY <1>2, <2>1, <2>2
<1> QED BY <1>2, <1>5, <1>6

PongEnds ==
  \A n \in Node : status[n] = "noPeerForPong" /\ OwnersCertain =>
    \E m \in Node : Dialed(n, m) /\ Dialed(m, n)

\* The invariant of the system, and what it says of the two properties.
CertainInv == OwnerInv /\ EndsExplained /\ PeersHold /\ PongsFit /\ PongEnds

\* Every step of the system keeps CertainInv ...
LEMMA CertainStep == ASSUME CertainInv, [Next]_vars PROVE CertainInv'
<1>o. OwnerInv /\ EndsExplained /\ PeersHold /\ PongsFit /\ PongEnds BY DEF CertainInv
<1>1. OwnerInv' /\ EndsExplained' BY <1>o, OwnerStep
<1>2. CASE UNCHANGED vars
  <2>1. /\ sock' = sock /\ conn' = conn /\ status' = status /\ peers' = peers
        /\ failed' = failed
    BY <1>2 DEF vars
  <2>2. PeersHold'
    <3>1. ASSUME NEW x \in Node, NEW y \in Node, PeerHolds(x, y) PROVE PeerHolds(x, y)'
      BY <2>1, <3>1 DEF PeerHolds, SocketOfPeer, ConnOf, Far, Peers
    <3> QED BY <1>o, <2>1, <3>1 DEF PeersHold, OwnersCertain
  <2>3. PongsFit'
    <3>1. ASSUME NEW c \in DOMAIN conn, PongFits(c) PROVE PongFits(c)'
      BY <2>1, <3>1 DEF PongFits, ConnOf, Dialed, Active
    <3> QED BY <1>o, <2>1, <3>1 DEF PongsFit, OwnersCertain
  <2>4. PongEnds' BY <1>o, <2>1 DEF PongEnds, Dialed, OwnersCertain
  <2> QED BY <1>1, <2>2, <2>3, <2>4 DEF CertainInv
<1>3. CASE Next
  <2>1. PICK n \in Node : Step(n)
    BY <1>3, <1>o, NextForms DEF OwnerInv, Fits, TableInv
  <2>2. /\ ConnsStay
        /\ failed \in Nat /\ failed' \in {failed, failed + 1}
        /\ status' = status \/ \E why \in HowItEnds : Ends(n, why)
    BY <1>o, <2>1, StepFacts DEF OwnerInv
  <2>3. OwnersCertain' => OwnersCertain /\ failed' = failed
    BY <2>2 DEF OwnersCertain
  <2>4. PeersHold'
    <3>1. ASSUME OwnersCertain, failed' = failed, NEW x \in Node, NEW y \in Node
          PROVE  PeerHolds(x, y)'
      BY <1>o, <2>1, <3>1, PeerHoldsStep
    <3> QED BY <2>3, <3>1 DEF PeersHold
  <2>5. PongsFit'
    <3>1. ASSUME OwnersCertain, failed' = failed, NEW c \in DOMAIN conn'
          PROVE  PongFits(c)'
      BY <1>o, <2>1, <3>1, PongStep
    <3> QED BY <2>3, <3>1 DEF PongsFit
  <2>6. PongEnds'
    <3> SUFFICES ASSUME NEW x \in Node, status'[x] = "noPeerForPong", OwnersCertain
                 PROVE  (\E m \in Node : Dialed(x, m) /\ Dialed(m, x))'
      BY <2>3 DEF PongEnds
    <3>1. \E m \in Node : Dialed(x, m) /\ Dialed(m, x)
      <4>1. CASE status[x] = "noPeerForPong" BY <1>o, <4>1 DEF PongEnds
      <4>2. CASE status[x] # "noPeerForPong"
        <5>1. PICK why \in HowItEnds : Ends(n, why) BY <2>2, <4>2
        <5>2. status' = [status EXCEPT ![n] = why] /\ status \in [Node -> HowItEnds]
          BY <1>o, <5>1, EndsSteps DEF OwnerInv, Fits, SocketInv
        <5>3. x = n /\ why = "noPeerForPong" BY <4>2, <5>2
        <5>4. PICK fd \in FD : Receives(n, fd, "PONG") /\ Far(ConnOf(n, fd), n) \notin Peers(n)
          BY <5>1, <5>3 DEF Ends, Cause
        <5> QED BY <1>o, <5>3, <5>4, NoPeerForPong
      <4> QED BY <4>1, <4>2
    <3> QED BY <2>2, <3>1, DialedStays
  <2> QED BY <1>1, <2>4, <2>5, <2>6 DEF CertainInv
<1> QED BY <1>2, <1>3

\* ... so it holds in every state.
LEMMA CertainInvariance == Spec => []CertainInv
<1>1. Init => CertainInv
  <2> SUFFICES ASSUME Init PROVE CertainInv OBVIOUS
  <2>1. OwnerInv /\ EndsExplained BY OwnerInitial
  <2>2. DOMAIN conn = {} BY DEF Init, SocketInit
  <2>3. \A n, m \in Node : m \notin Peers(n) BY DEF Init, Peers
  <2>4. \A n \in Node : status[n] = "running" BY DEF Init, SocketInit
  <2> QED BY <2>1, <2>2, <2>3, <2>4 DEF CertainInv, PeersHold, PeerHolds, PongsFit, PongEnds
<1>2. CertainInv /\ [Next]_vars => CertainInv' BY CertainStep
<1> QED BY <1>1, <1>2, PTL DEF Spec

\* A peer that is active has an open data socket, and it leads to that peer: no
\* descriptor that is closed, used again, or taken for another peer's socket gets
\* into the table (PeerConnectivityLayer_Handler.cpp, SocketConnectHandler,
\* PeerNotifyHandler, SocketCloseHandler), as long as the owners are certain.
THEOREM SocketsBelong == Spec => []SocketOfItsPeer
<1>1. CertainInv => SocketOfItsPeer
  <2> SUFFICES ASSUME CertainInv, OwnersCertain, NEW n \in Node, NEW m \in Active(n)
               PROVE  /\ sock[n][peers[n][m].dataSocket].type = "data"
                      /\ Far(ConnOf(n, peers[n][m].dataSocket), n) = m
    BY DEF SocketOfItsPeer
  <2>o. OwnerInv /\ PeersHold BY DEF CertainInv
  <2>1. m \in Peers(n) BY DEF Active, Peers, NoPeer
  <2>2. /\ PeerHolds(n, m) /\ SocketOfPeer(n, m) = peers[n][m].dataSocket
        /\ ~peers[n][m].tryConnect
    BY <2>o, <2>1, PeerHoldsFacts
  <2> QED BY <2>1, <2>2 DEF PeerHolds
<1> QED BY <1>1, CertainInvariance, PTL

\* What ends a process: SocketConnectHandler:66 and, with certain owners,
\* RecvMsgHandler:230 only after two nodes connected to each other; DisconnectPeer
\* and _timerCallback only after a failed connect.
THEOREM AbortsExplained == Spec => []AbortExplained
<1>1. CertainInv => AbortExplained
  <2>1. failed # 0 /\ CertainInv => failed > 0
    BY PeerAssumption DEF CertainInv, OwnerInv, Fits, TableInv
  <2> QED BY <2>1 DEF CertainInv, EndsExplained, PongEnds, AbortExplained
<1> QED BY <1>1, CertainInvariance, PTL

-----------------------------------------------------------------------------
(* What is under way stays under way *)

\* What z took off its sockets in this step.
TakesOff(z, c, msg) ==
  \E fd \in FD :
    /\ c = ConnOf(z, fd)
    /\ \/ PeerNotify(z, fd) /\ msg = "notifyPeerId"
       \/ RecvPing(z, fd) /\ msg = "PING"
       \/ Answered(z, fd) /\ msg = "PONG"

\* No message is lost, but those taken and those for an end or a process that is
\* gone after the step.
Kept(z) ==
  \A c \in DOMAIN conn : \A x \in Node : \A w \in Msg :
    Holds(conn[c].stream[x], w) =>
      \/ Holds(conn'[c].stream[x], w)
      \/ x = z /\ (x \in conn'[c].closed \/ status'[x] # "running" \/ TakesOff(z, c, w))

\* Closed ends stay closed, and processes that are gone do not come back.
ClosedStay ==
  /\ \A c \in DOMAIN conn : \A x \in Node : x \in conn[c].closed => x \in conn'[c].closed
  /\ \A x \in Node : status'[x] = "running" => status[x] = "running"

\* Of a stream only the first message is taken.
LEMMA RestStays ==
  ASSUME NEW s \in Seq(Msg), s # << >>, NEW w \in Msg, w # Head(s), Holds(s, w)
  PROVE  Holds(Tail(s), w)
<1> DEFINE t == Tail(s)
<1>1. /\ t \in Seq(Msg) /\ Len(t) = Len(s) - 1
      /\ \A i \in 1..Len(t) : t[i] = s[i + 1]
  BY HeadTailProperties
<1>2. /\ Len(s) \in Nat /\ DOMAIN s = 1..Len(s) /\ DOMAIN t = 1..Len(t)
      /\ Head(s) = s[1]
  BY <1>1, LenProperties
<1> HIDE DEF t
<1>3. PICK i \in 1..Len(s) : s[i] = w BY <1>2 DEF Holds
<1>4. i # 1 BY <1>2, <1>3
<1>5. i - 1 \in 1..Len(t) /\ (i - 1) + 1 = i BY <1>1, <1>2, <1>3, <1>4
<1>6. t[i - 1] = w BY <1>1, <1>3, <1>5
<1> QED BY <1>2, <1>5, <1>6 DEF Holds, t

\* A table that sends over one that keeps its messages keeps them.
LEMMA SendingKeeps ==
  ASSUME conn \in Seq(Connection), NEW n \in Node, NEW L, NEW msg \in Msg,
         NEW D, SameEnds(conn, D), conn' = Sent(D, n, L, msg)
  PROVE  \A c \in DOMAIN conn : \A x \in Node : \A w \in Msg :
           Holds(D[c].stream[x], w) => Holds(conn'[c].stream[x], w)
<1>1. D \in Seq(Connection) /\ DOMAIN D = DOMAIN conn BY DEF SameEnds
<1>2. \A c \in DOMAIN D : Far(c, n) \in Node BY <1>1, TableTypes
<1>3. \A c \in DOMAIN D : \A x \in Node :
        \/ conn'[c].stream[x] = D[c].stream[x]
        \/ conn'[c].stream[x] = Append(D[c].stream[x], msg)
  BY <1>1, <1>2, SentFacts, SMTT(20)
<1>4. \A c \in DOMAIN D : \A x \in Node : D[c].stream[x] \in Seq(Msg)
  <2>1. \A c \in DOMAIN D : D[c] \in Connection BY <1>1, TableFacts
  <2> QED BY <2>1 DEF Connection
<1>5. \A c \in DOMAIN D : \A x \in Node : \A w \in Msg :
        Holds(D[c].stream[x], w) => Holds(Append(D[c].stream[x], msg), w)
  BY <1>4, StreamFacts
<1> QED BY <1>1, <1>3, <1>5

\* A message that is sent arrives where the other end is open and its process runs.
LEMMA SendingArrives ==
  ASSUME conn \in Seq(Connection), NEW n \in Node, NEW L, NEW msg \in Msg,
         NEW D, SameEnds(conn, D), conn' = Sent(D, n, L, msg),
         NEW c \in L, c \in DOMAIN conn, Far(c, n) \notin D[c].closed, Running(Far(c, n))
  PROVE  Holds(conn'[c].stream[Far(c, n)], msg)
<1> SUFFICES ASSUME NEW y, y = Far(c, n) PROVE Holds(conn'[c].stream[y], msg)
  OBVIOUS
<1>1. D \in Seq(Connection) /\ c \in DOMAIN D BY DEF SameEnds
<1>2. y \in Node BY TableTypes
<1>3. D[c] \in Connection BY <1>1, TableFacts
<1>4. D[c].stream[y] \in Seq(Msg) BY <1>2, <1>3 DEF Connection
<1>5. conn'[c] = [D[c] EXCEPT !.stream[y] = Append(@, msg)] BY <1>1 DEF Sent
<1>6. conn'[c].stream[y] = Append(D[c].stream[y], msg) BY <1>2, <1>3, <1>5 DEF Connection
<1>7. Holds(Append(D[c].stream[y], msg), msg) BY <1>4, StreamFacts
<1> QED BY <1>6, <1>7

\* Taking a message.
LEMMA TakingKeeps ==
  ASSUME SocketInv, NEW n \in Node, NEW fd \in FD, NEW msg \in Msg, Receives(n, fd, msg)
  PROVE  /\ SameEnds(conn, Taken(n, fd))
         /\ \A c \in DOMAIN conn : \A x \in Node : x \in Taken(n, fd)[c].closed <=> x \in conn[c].closed
         /\ \A c \in DOMAIN conn : \A x \in Node : \A w \in Msg :
              Holds(conn[c].stream[x], w) =>
                Holds(Taken(n, fd)[c].stream[x], w) \/ (x = n /\ c = ConnOf(n, fd) /\ w = msg)
<1>1. /\ conn[ConnOf(n, fd)].stream[n] # << >>
      /\ Head(conn[ConnOf(n, fd)].stream[n]) = msg
  BY DEF Receives
<1>2. ConnOf(n, fd) \in DOMAIN conn /\ conn \in Seq(Connection)
  BY ReceivesFacts DEF SocketInv
<1>3. /\ SameEnds(conn, Taken(n, fd))
      /\ \A c \in DOMAIN conn : \A x \in Node :
           /\ x \in Taken(n, fd)[c].closed <=> x \in conn[c].closed
           /\ Taken(n, fd)[c].stream[x] = IF c = ConnOf(n, fd) /\ x = n
                                          THEN Tail(conn[c].stream[x]) ELSE conn[c].stream[x]
  BY <1>1, <1>2, TakenFacts
<1>4. conn[ConnOf(n, fd)].stream[n] \in Seq(Msg) BY <1>2, TableTypes
<1>5. \A w \in Msg : w # msg /\ Holds(conn[ConnOf(n, fd)].stream[n], w)
        => Holds(Tail(conn[ConnOf(n, fd)].stream[n]), w)
  BY <1>1, <1>4, RestStays
<1> QED BY <1>3, <1>5

\* Closing sockets loses what came to them, and nothing else.
LEMMA ClosingKeeps ==
  ASSUME conn \in Seq(Connection), NEW n \in Node, NEW F, CloseSockets(n, F),
         status' = status
  PROVE  Kept(n) /\ ClosedStay
<1> DEFINE L == {ConnOf(n, fd) : fd \in F}
<1>1. conn' = Closed(conn, n, L) BY DEF CloseSockets
<1> HIDE DEF L
<1>2. \A c \in DOMAIN conn : \A x \in Node :
         /\ x \in conn'[c].closed <=> x \in conn[c].closed \/ (c \in L /\ x = n)
         /\ conn'[c].stream[x] = IF c \in L /\ x = n THEN << >> ELSE conn[c].stream[x]
  BY <1>1, ClosedFacts
<1> QED BY <1>2 DEF Kept, ClosedStay

\* No step loses a message that can still be taken.
LEMMA KeptStep ==
  ASSUME Fits, NEW n \in Node, Step(n)
  PROVE  Kept(n) /\ ClosedStay
<1>s. SocketInv /\ conn \in Seq(Connection) BY DEF Fits, SocketInv
<1>e. SameEnds(conn, conn) BY <1>s DEF SameEnds
<1>m. "notifyPeerId" \in Msg /\ "PING" \in Msg /\ "PONG" \in Msg BY DEF Msg
<1>0. ASSUME \A c \in DOMAIN conn : conn'[c] = conn[c], status' = status
      PROVE  Kept(n) /\ ClosedStay
  BY <1>0 DEF Kept, ClosedStay
<1>1. ASSUME NEW m \in Node, Opens(n, m) PROVE Kept(n) /\ ClosedStay
  <2>1. n # m /\ ConnectSocket(n, m) BY <1>1 DEF Opens, ConnectPeer
  <2>2. status' = status BY <1>1, OpensFacts
  <2>3. \A c \in DOMAIN conn : conn'[c] = conn[c] BY <1>s, <2>1, <2>2, OpeningSockets
  <2> QED BY <1>0, <2>2, <2>3
<1>2. ASSUME NEW m \in Node, Drops(n, m) PROVE Kept(n) /\ ClosedStay
  <2>1. \E F : CloseSockets(n, F) BY <1>2 DEF Drops, DisconnectPeers
  <2>2. status' = status BY <1>2, DropsFacts
  <2> QED BY <1>s, <2>1, <2>2, ClosingKeeps
<1>3. ASSUME NEW m \in Node, RecvAddr(n, m) PROVE Kept(n) /\ ClosedStay
  BY <1>0, <1>3, RecvAddrFacts
<1>4. ASSUME NEW why \in HowItEnds, Ends(n, why) PROVE Kept(n) /\ ClosedStay
  <2>1. /\ status' = [status EXCEPT ![n] = why] /\ status \in [Node -> HowItEnds]
        /\ why # "running"
        /\ \A c \in DOMAIN conn : \A x \in Node : x \in conn[c].closed => x \in conn'[c].closed
    BY <1>4, <1>s, EndsSteps DEF SocketInv, Ends, Cause
  <2>2. PICK L : conn' = [c \in DOMAIN conn |-> [Closed(conn, n, L)[c] EXCEPT !.stream[n] = << >>]]
    BY <1>4 DEF Ends, Stop
  <2> DEFINE D == Closed(conn, n, L)
  <2>3. /\ SameEnds(conn, D)
        /\ \A c \in DOMAIN conn : \A x \in Node :
             D[c].stream[x] = IF c \in L /\ x = n THEN << >> ELSE conn[c].stream[x]
    BY <1>s, ClosedFacts
  <2> HIDE DEF D
  <2>4. \A c \in DOMAIN conn : D[c] \in Connection
    BY <2>3, TableFacts DEF SameEnds
  <2>5. \A c \in DOMAIN conn : \A x \in Node : x # n => conn'[c].stream[x] = conn[c].stream[x]
    BY <2>2, <2>3, <2>4 DEF D, Connection
  <2>6. status'[n] # "running" /\ \A x \in Node : x # n => status'[x] = status[x] BY <2>1
  <2>7. Kept(n) BY <2>5, <2>6 DEF Kept
  <2>8. ClosedStay BY <2>1, <2>6 DEF ClosedStay
  <2> QED BY <2>7, <2>8
<1>5. ASSUME NEW k \in DOMAIN conn, Accept(n, k) PROVE Kept(n) /\ ClosedStay
  <2>1. AcceptHandler(n, k) /\ status' = status BY <1>5, AcceptFacts
  <2>2. \A c \in DOMAIN conn : conn'[c].closed = conn[c].closed /\ conn'[c].stream = conn[c].stream
    BY <1>s, <2>1, AcceptingSockets
  <2> QED BY <2>1, <2>2 DEF Kept, ClosedStay
<1>6. ASSUME NEW fd \in FD, SocketConnect(n, fd) PROVE Kept(n) /\ ClosedStay
  <2>1. /\ \A c \in DOMAIN conn : \A x \in Node : x \in conn'[c].closed <=> x \in conn[c].closed
        /\ status' = status
    BY <1>6, SocketConnectFacts
  <2>2. conn' = Sent(conn, n, {ConnOf(n, fd)}, "notifyPeerId") BY <1>6 DEF SocketConnect
  <2>3. \A c \in DOMAIN conn : \A x \in Node : \A w \in Msg :
          Holds(conn[c].stream[x], w) => Holds(conn'[c].stream[x], w)
    BY <1>s, <1>e, <1>m, <2>2, SendingKeeps
  <2> QED BY <2>1, <2>3 DEF Kept, ClosedStay
<1>7. ASSUME NEW fd \in FD, SocketConnectFailed(n, fd) PROVE Kept(n) /\ ClosedStay
  <2>1. CloseSockets(n, {fd}) /\ status' = status BY <1>7 DEF SocketConnectFailed
  <2> QED BY <1>s, <2>1, ClosingKeeps
<1>8. ASSUME NEW fd \in FD, SocketClose(n, fd) PROVE Kept(n) /\ ClosedStay
  <2>1. CloseSockets(n, {fd}) /\ status' = status BY <1>8 DEF SocketClose
  <2> QED BY <1>s, <2>1, ClosingKeeps
\* A message is taken, and perhaps another one sent.
<1>9. ASSUME NEW fd \in FD, NEW msg \in Msg, Receives(n, fd, msg), status' = status,
             TakesOff(n, ConnOf(n, fd), msg),
             \/ conn' = Taken(n, fd)
             \/ \E L : conn' = Sent(Taken(n, fd), n, L, "PONG")
      PROVE  Kept(n) /\ ClosedStay
  <2> DEFINE D == Taken(n, fd)
  <2>1. /\ SameEnds(conn, D)
        /\ \A c \in DOMAIN conn : \A x \in Node : x \in D[c].closed <=> x \in conn[c].closed
        /\ \A c \in DOMAIN conn : \A x \in Node : \A w \in Msg :
             Holds(conn[c].stream[x], w) =>
               Holds(D[c].stream[x], w) \/ (x = n /\ c = ConnOf(n, fd) /\ w = msg)
    BY <1>9, <1>s, TakingKeeps
  <2>2. conn' = D \/ \E L : conn' = Sent(D, n, L, "PONG") BY <1>9
  <2> HIDE DEF D
  <2>3. \A c \in DOMAIN conn : \A x \in Node : \A w \in Msg :
          Holds(D[c].stream[x], w) => Holds(conn'[c].stream[x], w)
    BY <1>s, <1>m, <2>1, <2>2, SendingKeeps
  <2>4. \A c \in DOMAIN conn : \A x \in Node : x \in conn'[c].closed <=> x \in D[c].closed
    <3>1. ASSUME NEW L, conn' = Sent(D, n, L, "PONG")
          PROVE  \A c \in DOMAIN conn : \A x \in Node : x \in conn'[c].closed <=> x \in D[c].closed
      <4>1. D \in Seq(Connection) /\ DOMAIN D = DOMAIN conn BY <2>1 DEF SameEnds
      <4>2. \A c \in DOMAIN D : Far(c, n) \in Node BY <1>s, <4>1, TableTypes
      <4> QED BY <1>m, <3>1, <4>1, <4>2, SentFacts
    <3> QED BY <2>2, <3>1
  <2>5. Kept(n) BY <1>9, <2>1, <2>3 DEF Kept
  <2>6. ClosedStay BY <1>9, <2>1, <2>4 DEF ClosedStay
  <2> QED BY <2>5, <2>6
<1>10. ASSUME NEW fd \in FD, PeerNotify(n, fd) PROVE Kept(n) /\ ClosedStay
  <2>1. Receives(n, fd, "notifyPeerId") /\ status' = status /\ (conn' = Taken(n, fd) \/ CloseSockets(n, {fd}))
    BY <1>10 DEF PeerNotify
  <2>2. TakesOff(n, ConnOf(n, fd), "notifyPeerId") BY <1>10 DEF TakesOff
  <2> QED BY <1>9, <1>m, <1>s, <2>1, <2>2, ClosingKeeps
<1>11. ASSUME NEW fd \in FD, RecvPing(n, fd) PROVE Kept(n) /\ ClosedStay
  <2>1. Receives(n, fd, "PING") /\ status' = status /\ \E L : conn' = Sent(Taken(n, fd), n, L, "PONG")
    BY <1>11 DEF RecvPing, SendMsgToPeers
  <2>2. TakesOff(n, ConnOf(n, fd), "PING") BY <1>11 DEF TakesOff
  <2> QED BY <1>9, <1>m, <2>1, <2>2
<1>12. ASSUME NEW fd \in FD, Answered(n, fd) PROVE Kept(n) /\ ClosedStay
  <2>1. Receives(n, fd, "PONG") /\ status' = status /\ conn' = Taken(n, fd)
    BY <1>12 DEF Answered
  <2>2. TakesOff(n, ConnOf(n, fd), "PONG") BY <1>12 DEF TakesOff
  <2> QED BY <1>9, <1>m, <2>1, <2>2
<1>13. CASE Pings(n)
  <2>1. PICK L, M : conn' = Sent(Closed(conn, n, M), n, L, "PING") /\ status' = status
    BY <1>13 DEF Pings, SendMsgToPeers
  <2> DEFINE D == Closed(conn, n, M)
  <2>2. /\ SameEnds(conn, D)
        /\ \A c \in DOMAIN conn : \A x \in Node :
             /\ x \in D[c].closed <=> x \in conn[c].closed \/ (c \in M /\ x = n)
             /\ D[c].stream[x] = IF c \in M /\ x = n THEN << >> ELSE conn[c].stream[x]
    BY <1>s, ClosedFacts
  <2>3. conn' = Sent(D, n, L, "PING") BY <2>1
  <2> HIDE DEF D
  <2>4. \A c \in DOMAIN conn : \A x \in Node : \A w \in Msg :
          Holds(D[c].stream[x], w) => Holds(conn'[c].stream[x], w)
    BY <1>s, <1>m, <2>2, <2>3, SendingKeeps
  <2>5. \A c \in DOMAIN conn : \A x \in Node : x \in conn'[c].closed <=> x \in D[c].closed
    <3>1. D \in Seq(Connection) /\ DOMAIN D = DOMAIN conn BY <2>2 DEF SameEnds
    <3>2. \A c \in DOMAIN D : Far(c, n) \in Node BY <1>s, <3>1, TableTypes
    <3> QED BY <1>m, <2>3, <3>1, <3>2, SentFacts
  <2>6. Kept(n) BY <2>2, <2>4, <2>5 DEF Kept
  <2>7. ClosedStay BY <2>1, <2>2, <2>5 DEF ClosedStay
  <2> QED BY <2>6, <2>7
<1>14. CASE \E m \in Node : Opens(n, m) \/ Drops(n, m) \/ RecvAddr(n, m)
  BY <1>1, <1>2, <1>3, <1>14
<1>15. CASE \E fd \in FD : OnSocket(n, fd)
  BY <1>6, <1>7, <1>8, <1>10, <1>11, <1>12, <1>15 DEF OnSocket
<1> QED BY <1>4, <1>5, <1>13, <1>14, <1>15 DEF Step

-----------------------------------------------------------------------------
(* How a step moves sockets and peers *)

\* What a step of z makes of a descriptor.
Accepted(x, g) ==
  /\ sock[x][g] = NoSocket /\ sock'[x][g].type = "data"
  /\ sock'[x][g].conn \in DOMAIN conn /\ conn[sock'[x][g].conn].to = x
Connected(x, g) ==
  /\ SocketConnect(x, g) /\ sock[x][g].type = "connect"
  /\ sock'[x][g] = [type |-> "data", conn |-> ConnOf(x, g)]
SocketMoves(z, x, g) ==
  \/ sock'[x][g] = sock[x][g]
  \/ x = z /\ sock'[x][g] = NoSocket
  \/ x = z /\ sock[x][g] = NoSocket /\ sock'[x][g].type = "connect"
  \/ x = z /\ Accepted(x, g)
  \/ x = z /\ Connected(x, g)

\* Every step moves descriptors like that.
LEMMA SocketsMove ==
  ASSUME Fits, NEW z \in Node, Step(z), NEW x \in Node, NEW g \in FD
  PROVE  SocketMoves(z, x, g)
<1>s. SocketInv BY DEF Fits
<1>0. ASSUME NEW F, Closes(z, F) PROVE SocketMoves(z, x, g)
  BY <1>0 DEF Closes, SocketMoves
<1>1. ASSUME NEW m \in Node, Opens(z, m) PROVE SocketMoves(z, x, g)
  <2>1. z # m /\ ConnectSocket(z, m) BY <1>1 DEF Opens, ConnectPeer
  <2>2. status' = status BY <1>1, OpensFacts
  <2>3. /\ sock[z][FreeFD(z)] = NoSocket
        /\ sock'[x][g] = IF x = z /\ g = FreeFD(z)
                         THEN [type |-> "connect", conn |-> Len(conn) + 1] ELSE sock[x][g]
    BY <1>s, <2>1, <2>2, OpeningSockets
  <2> QED BY <2>3 DEF SocketMoves
<1>2. ASSUME NEW m \in Node, Drops(z, m) PROVE SocketMoves(z, x, g)
  BY <1>0, <1>2, DropsFacts
<1>3. ASSUME NEW m \in Node, RecvAddr(z, m) PROVE SocketMoves(z, x, g)
  BY <1>3, RecvAddrFacts DEF SocketMoves
<1>4. ASSUME NEW why \in HowItEnds, Ends(z, why) PROVE SocketMoves(z, x, g)
  BY <1>4, EndsSteps DEF SocketMoves
<1>5. ASSUME NEW k \in DOMAIN conn, Accept(z, k) PROVE SocketMoves(z, x, g)
  <2>1. AcceptHandler(z, k) BY <1>5, AcceptFacts
  <2>2. /\ sock[z][FreeFD(z)] = NoSocket
        /\ sock'[x][g] = IF x = z /\ g = FreeFD(z)
                         THEN [type |-> "data", conn |-> k] ELSE sock[x][g]
    BY <1>s, <2>1, AcceptingSockets
  <2>3. conn[k].to = z BY <2>1 DEF AcceptHandler
  <2> QED BY <2>2, <2>3 DEF SocketMoves, Accepted
<1>6. ASSUME NEW fd \in FD, OnSocket(z, fd) PROVE SocketMoves(z, x, g)
  <2>1. CASE SocketConnect(z, fd)
    <3>1. /\ sock[z][fd].type = "connect"
          /\ \A a \in Node : \A h \in FD :
               sock'[a][h] = IF a = z /\ h = fd
                             THEN [type |-> "data", conn |-> ConnOf(z, fd)] ELSE sock[a][h]
      BY <2>1, SocketConnectFacts, ZenonT(40)
    <3> QED BY <2>1, <3>1 DEF SocketMoves, Connected
  <2>2. CASE SocketConnectFailed(z, fd) BY <1>0, <2>2, ConnectFailedFacts
  <2>3. CASE SocketClose(z, fd) BY <1>0, <2>3, SocketCloseFacts
  <2>4. CASE PeerNotify(z, fd)
    BY <1>0, <2>4, PeerNotifyFacts DEF Ignored, TurnedAway, Introduced
  <2>5. CASE RecvPing(z, fd) BY <1>0, <2>5, RecvPingFacts
  <2>6. CASE Answered(z, fd) BY <1>0, <2>6, AnsweredFacts
  <2> QED BY <1>6, <2>1, <2>2, <2>3, <2>4, <2>5, <2>6 DEF OnSocket
<1>7. CASE Pings(z) BY <1>0, <1>7, PingsFacts
<1>8. CASE \E m \in Node : Opens(z, m) \/ Drops(z, m) \/ RecvAddr(z, m)
  BY <1>1, <1>2, <1>3, <1>8
<1> QED BY <1>4, <1>5, <1>6, <1>7, <1>8 DEF Step

\* What a step of z makes of a peer.
SamePeer(x, y) ==
  /\ peers'[x][y].type = peers[x][y].type
  /\ peers'[x][y].connSocket = peers[x][y].connSocket
  /\ peers'[x][y].dataSocket = peers[x][y].dataSocket
  /\ peers'[x][y].tryConnect = peers[x][y].tryConnect
Introduces(x, y) ==
  \E fd \in FD :
    /\ Open(x, fd) /\ sock'[x][fd] = sock[x][fd]
    /\ Far(ConnOf(x, fd), x) = y /\ conn[ConnOf(x, fd)].to = x
    /\ peers'[x][y].dataSocket = fd /\ peers'[x][y].pongReceived = TRUE
PeerMoves(z, x, y) ==
  \/ SamePeer(x, y) /\ (peers'[x][y].pongReceived = peers[x][y].pongReceived
                          \/ peers'[x][y].pongReceived = TRUE)
  \/ x = z /\ SamePeer(x, y) /\ Pings(z) /\ y \notin Late(z)
  \/ /\ x = z /\ peers'[x][y] = NoPeer
     /\ y \in Peers(x) => sock'[x][SocketOfPeer(x, y)] = NoSocket
  \/ x = z /\ y \notin Active(x) /\ peers'[x][y].type = "out"
  \/ x = z /\ y \notin Active(x) /\ Introduces(x, y)

\* The end of a socket leaves a peer alone or removes it.
LEMMA ClosePeerFacts ==
  ASSUME Fits, NEW n \in Node, NEW fd \in FD, SocketClose(n, fd),
         NEW x \in Node, NEW y \in Node
  PROVE  \/ peers'[x][y] = peers[x][y]
         \/ x = n /\ peers[x][y].dataSocket = fd /\ peers'[x][y] = NoPeer
<1> DEFINE D == {m \in Node : peers[n][m].dataSocket = fd}
<1>1. peers \in [Node -> [Node -> PeerRecord]] BY DEF Fits, TableInv
<1>2. CASE peers' = peers BY <1>2
<1>3. ASSUME NEW m \in D, RemovePeers(n, {m}, peers[n])
      PROVE  \/ peers'[x][y] = peers[x][y]
             \/ x = n /\ peers[x][y].dataSocket = fd /\ peers'[x][y] = NoPeer
  BY <1>1, <1>3 DEF RemovePeers
<1> QED BY <1>2, <1>3 DEF SocketClose, peerVars

\* Every step moves peers like that, as long as the owners are certain.
LEMMA PeersMove ==
  ASSUME OwnerInv, PeersHold, OwnersCertain, failed' = failed, NEW z \in Node, Step(z),
         NEW x \in Node, NEW y \in Node
  PROVE  PeerMoves(z, x, y)
<1>f. Fits /\ NotifyFits /\ failed \in Nat BY PeerAssumption DEF OwnerInv, Fits, TableInv
<1>0. ASSUME peers'[x][y] = peers[x][y] PROVE PeerMoves(z, x, y)
  BY <1>0 DEF PeerMoves, SamePeer
<1>n. ASSUME NEW F, Closes(z, F), x = z, peers'[x][y] = NoPeer,
             y \in Peers(x) => SocketOfPeer(x, y) \in F /\ SocketOfPeer(x, y) \in FD
      PROVE  PeerMoves(z, x, y)
  BY <1>n DEF PeerMoves, Closes
<1>1. ASSUME NEW m \in Node, Opens(z, m) PROVE PeerMoves(z, x, y)
  <2>1. m # z /\ m \notin Active(z) /\ ConnectSocket(z, m) BY <1>1 DEF Opens, ConnectPeer
  <2>2. /\ peers'[x][y] = IF x = z /\ y = m THEN OutgoingPeer(FreeFD(z)) ELSE peers[x][y]
        /\ status' = status
    BY <1>1, <1>f, OpensFacts
  <2>3. FreeFD(z) \in FD BY <1>f, <2>1, <2>2, OpeningSockets DEF Fits
  <2>4. OutgoingPeer(FreeFD(z)).type = "out" BY <2>3, PeerRecords
  <2>5. CASE x = z /\ y = m BY <2>1, <2>2, <2>4, <2>5 DEF PeerMoves
  <2>6. CASE ~(x = z /\ y = m) BY <1>0, <2>2, <2>6
  <2> QED BY <2>5, <2>6
<1>2. ASSUME NEW m \in Node, Drops(z, m) PROVE PeerMoves(z, x, y)
  <2>1. /\ Closes(z, {SocketOfPeer(z, m)}) /\ SocketOfPeer(z, m) \in FD
        /\ peers'[x][y] = IF x = z /\ y = m THEN NoPeer ELSE peers[x][y]
    BY <1>2, <1>f, DropsFacts
  <2>2. CASE x = z /\ y = m BY <1>n, <2>1, <2>2
  <2>3. CASE ~(x = z /\ y = m) BY <1>0, <2>1, <2>3
  <2> QED BY <2>2, <2>3
<1>3. ASSUME NEW m \in Node, RecvAddr(z, m) PROVE PeerMoves(z, x, y)
  BY <1>0, <1>3, <1>f, RecvAddrFacts
<1>4. ASSUME NEW why \in HowItEnds, Ends(z, why) PROVE PeerMoves(z, x, y)
  BY <1>0, <1>4, <1>f, EndsSteps
<1>5. ASSUME NEW k \in DOMAIN conn, Accept(z, k) PROVE PeerMoves(z, x, y)
  BY <1>0, <1>5, <1>f, AcceptFacts
<1>6. ASSUME NEW fd \in FD, SocketConnect(z, fd) PROVE PeerMoves(z, x, y)
  <2>1. sock[z][fd].type = "connect" BY <1>6, <1>f, SocketConnectFacts
  <2>2. PICK m \in Owners(z, fd) : \A a, b \in Node :
          peers'[a][b] = IF a = z /\ b = m
                         THEN [peers[z][m] EXCEPT !.tryConnect = FALSE, !.dataSocket = fd]
                         ELSE peers[a][b]
    BY <1>6, <1>f, SocketConnectFacts, ZenonT(40)
  <2>3. m \in Peers(z) /\ m \in Node /\ peers[z][m].connSocket = fd
    BY DEF Owners, Peers
  <2>4. m \notin Active(z) /\ peers[z][m].type = "out"
    <3>1. /\ PeerHolds(z, m) /\ (peers[z][m].tryConnect <=> m \notin Active(z))
          /\ ~peers[z][m].tryConnect => SocketOfPeer(z, m) = peers[z][m].dataSocket
      BY <2>3, PeerHoldsFacts
    <3>2. PeerFits(peers[z][m]) /\ peers[z][m] # NoPeer /\ peers[z][m] \in PeerRecord
      BY <1>f, <2>3 DEF Fits, TableInv, Peers
    <3>3. peers[z][m].type # "in"
      BY <2>3, <3>1 DEF PeerHolds, OwnersCertain
    <3>4. peers[z][m].type = "out" BY <3>2, <3>3 DEF PeerFits, PeerRecord
    <3>5. peers[z][m].tryConnect BY <2>1, <2>3, <3>1, <3>4 DEF PeerHolds
    <3> QED BY <3>1, <3>4, <3>5
  <2>5. [peers[z][m] EXCEPT !.tryConnect = FALSE, !.dataSocket = fd].type = peers[z][m].type
    BY <1>f, <2>3 DEF Fits, TableInv, PeerRecord
  <2>6. CASE x = z /\ y = m BY <2>2, <2>4, <2>5, <2>6 DEF PeerMoves
  <2>7. CASE ~(x = z /\ y = m) BY <1>0, <2>2, <2>7
  <2> QED BY <2>6, <2>7
<1>7. ASSUME NEW fd \in FD, SocketConnectFailed(z, fd) PROVE PeerMoves(z, x, y)
  <2>1. failed' = failed + 1 BY <1>7, <1>f, ConnectFailedFacts
  <2> QED BY <1>f, <2>1
<1>8. ASSUME NEW fd \in FD, SocketClose(z, fd) PROVE PeerMoves(z, x, y)
  <2>1. Closes(z, {fd}) BY <1>8, <1>f, SocketCloseFacts
  <2>2. CASE peers'[x][y] = peers[x][y] BY <1>0, <2>2
  <2>3. CASE x = z /\ peers[x][y].dataSocket = fd /\ peers'[x][y] = NoPeer
    <3>1. fd # NoFD BY SocketAssumption DEF FD, NoFD
    <3>2. y \in Active(z) BY <2>3, <3>1 DEF Active
    <3>3. y \in Peers(x) => SocketOfPeer(x, y) = fd BY <2>3, <3>2, PeerHoldsFacts
    <3> QED BY <1>n, <2>1, <2>3, <3>3
  <2> QED BY <1>8, <1>f, <2>2, <2>3, ClosePeerFacts
<1>9. ASSUME NEW fd \in FD, PeerNotify(z, fd) PROVE PeerMoves(z, x, y)
  <2>1. /\ Open(z, fd) /\ Holds(conn[ConnOf(z, fd)].stream[z], "notifyPeerId")
        /\ Ignored(z, fd) \/ TurnedAway(z, fd) \/ Introduced(z, fd)
    BY <1>9, <1>f, PeerNotifyFacts
  <2> SUFFICES ASSUME NEW m, m = Far(ConnOf(z, fd), z) PROVE PeerMoves(z, x, y)
    OBVIOUS
  <2>2. ConnOf(z, fd) \in DOMAIN conn /\ m \in Node BY <1>f, <2>1, FarFacts DEF Fits
  <2>3. conn[ConnOf(z, fd)].to = z BY <1>f, <2>1, <2>2 DEF NotifyFits
  <2>4. CASE Ignored(z, fd) \/ TurnedAway(z, fd) BY <1>0, <2>4 DEF Ignored, TurnedAway
  <2>5. CASE Introduced(z, fd)
    <3>1. Closes(z, {}) /\ m \notin Active(z) BY <2>5 DEF Introduced
    <3>2. PICK stale \in StaleFD :
            peers'[x][y] = IF x = z /\ y = m THEN IncomingPeer(fd, stale) ELSE peers[x][y]
      BY <2>5 DEF Introduced
    <3>3. /\ IncomingPeer(fd, stale).dataSocket = fd
          /\ IncomingPeer(fd, stale).pongReceived = TRUE
      BY DEF IncomingPeer, NoPeer
    <3>4. sock'[z][fd] = sock[z][fd] BY <3>1 DEF Closes
    <3>5. CASE x = z /\ y = m
      <4>1. Introduces(x, y) BY <2>1, <2>3, <3>2, <3>3, <3>4, <3>5 DEF Introduces
      <4> QED BY <3>1, <3>5, <4>1 DEF PeerMoves
    <3>6. CASE ~(x = z /\ y = m) BY <1>0, <3>2, <3>6
    <3> QED BY <3>5, <3>6
  <2> QED BY <2>1, <2>4, <2>5
<1>10. ASSUME NEW fd \in FD, RecvPing(z, fd) PROVE PeerMoves(z, x, y)
  BY <1>0, <1>10, <1>f, RecvPingFacts
<1>11. ASSUME NEW fd \in FD, Answered(z, fd) PROVE PeerMoves(z, x, y)
  <2>1. SamePeer(x, y) BY <1>11, <1>f, AnsweredFacts DEF SamePeer
  <2>2. peers' = [peers EXCEPT ![z][Far(ConnOf(z, fd), z)].pongReceived = TRUE]
    BY <1>11 DEF Answered
  <2>3. peers \in [Node -> [Node -> PeerRecord]] BY <1>f DEF Fits, TableInv
  <2>4. peers'[x][y].pongReceived \in {peers[x][y].pongReceived, TRUE}
    <3>1. peers[x][y] \in PeerRecord BY <2>3
    <3>2. \/ peers'[x][y] = peers[x][y]
          \/ peers'[x][y] = [peers[x][y] EXCEPT !.pongReceived = TRUE]
      BY <2>2, <2>3
    <3> QED BY <3>1, <3>2 DEF PeerRecord
  <2> QED BY <2>1, <2>4 DEF PeerMoves
<1>12. CASE Pings(z)
  <2>1. /\ Closes(z, LateSockets(z)) /\ LateSockets(z) \in SUBSET FD
        /\ IF x = z /\ y \in Late(z) THEN peers'[x][y] = NoPeer ELSE SamePeer(x, y)
    BY <1>12, <1>f, PingsFacts DEF SamePeer
  <2>2. CASE x = z /\ y \in Late(z)
    <3>1. SocketOfPeer(x, y) \in LateSockets(z) BY <2>2 DEF LateSockets
    <3> QED BY <1>n, <2>1, <2>2, <3>1
  <2>3. CASE x = z /\ y \notin Late(z) BY <1>12, <2>1, <2>3 DEF PeerMoves
  <2>4. CASE x # z
    <3>1. peers'[x] = peers[x]
      BY <1>12, <1>f, <2>4 DEF Pings, RemovePeers, Fits, TableInv
    <3> QED BY <1>0, <3>1
  <2> QED BY <2>2, <2>3, <2>4
<1>13. CASE \E m \in Node : Opens(z, m) \/ Drops(z, m) \/ RecvAddr(z, m)
  BY <1>1, <1>2, <1>3, <1>13
<1>14. CASE \E fd \in FD : OnSocket(z, fd)
  BY <1>6, <1>7, <1>8, <1>9, <1>10, <1>11, <1>14 DEF OnSocket
<1> QED BY <1>4, <1>5, <1>12, <1>13, <1>14 DEF Step

-----------------------------------------------------------------------------
(* Who is asked, answers: the ping timer *)

\* The data socket of a connection that n dialed is the one its peer has.
Known(n, fd) ==
  sock[n][fd].type = "data" /\ conn[ConnOf(n, fd)].from = n
    => peers[n][conn[ConnOf(n, fd)].to].dataSocket = fd
\* An incoming peer dialed the connection of its data socket.
DialedIn(n, m) ==
  peers[n][m].type = "in" => conn[ConnOf(n, peers[n][m].dataSocket)].from = m
\* As long as an incoming peer did not answer, its PING or its PONG is under way
\* over its connection, if its end is not closed.
UnderWay(n, m) ==
  LET c == ConnOf(n, peers[n][m].dataSocket) IN
  /\ Running(n) /\ Running(m)
  /\ peers[n][m].type = "in" /\ ~peers[n][m].pongReceived
  /\ m \notin conn[c].closed
  => Holds(conn[c].stream[m], "PING") \/ Holds(conn[c].stream[n], "PONG")

AskedInv ==
  OwnersCertain => \A n, m \in Node :
    (\A fd \in FD : Known(n, fd)) /\ DialedIn(n, m) /\ UnderWay(n, m)

\* An incoming peer has an open data socket, which leads to it.
LEMMA IncomingSocket ==
  ASSUME OwnerInv, PeersHold, OwnersCertain, NEW n \in Node, NEW m \in Node,
         peers[n][m].type = "in"
  PROVE  /\ m \in Peers(n) /\ m \in Active(n) /\ peers[n][m].dataSocket \in FD
         /\ SocketOfPeer(n, m) = peers[n][m].dataSocket
         /\ sock[n][peers[n][m].dataSocket].type = "data"
         /\ Open(n, peers[n][m].dataSocket)
         /\ ConnOf(n, peers[n][m].dataSocket) \in DOMAIN conn
         /\ Far(ConnOf(n, peers[n][m].dataSocket), n) = m
<1>1. m \in Peers(n) BY DEF Peers, NoPeer
<1>2. PeerFits(peers[n][m]) BY DEF OwnerInv, Fits, TableInv
<1>3. m \in Active(n) /\ ~peers[n][m].tryConnect BY <1>2 DEF PeerFits, Active
<1> QED BY <1>1, <1>3, PeerHoldsFacts DEF PeerHolds

\* A step keeps what the dialing side knows.
LEMMA KnownStep ==
  ASSUME OwnerInv, PeersHold, OwnersCertain, failed' = failed, ConnsStay,
         NEW z \in Node, Step(z), NEW x \in Node, NEW g \in FD, Known(x, g)
  PROVE  Known(x, g)'
<1>f. Fits /\ SocketInv /\ conn \in Seq(Connection) BY DEF OwnerInv, Fits, SocketInv
<1> DEFINE d == sock'[x][g].conn
<1> SUFFICES ASSUME sock'[x][g].type = "data", conn'[d].from = x
             PROVE  peers'[x][conn'[d].to].dataSocket = g
  BY DEF Known, ConnOf
<1>g. g # NoFD BY SocketAssumption DEF FD, NoFD
<1>1. SocketMoves(z, x, g) BY <1>f, SocketsMove
<1>2. CASE sock'[x][g] = sock[x][g]
  <2>1. Open(x, g) /\ d = ConnOf(x, g) BY <1>2 DEF Open, NoSocket, ConnOf
  <2>2. d \in DOMAIN conn BY <1>f, <2>1, FarFacts
  <2>3. conn'[d].from = conn[d].from /\ conn'[d].to = conn[d].to BY <2>2 DEF ConnsStay
  <2> SUFFICES ASSUME NEW m, m = conn[d].to PROVE peers'[x][m].dataSocket = g
    BY <2>3
  <2>4. m \in Node BY <1>f, <2>2, TableFacts DEF Connection
  <2>5. peers[x][m].dataSocket = g BY <1>2, <2>1, <2>3 DEF Known
  <2>6. m \in Active(x) /\ m \in Peers(x) BY <1>g, <2>4, <2>5 DEF Active, Peers, NoPeer
  <2>7. SocketOfPeer(x, m) = g BY <2>5, <2>6, PeerHoldsFacts
  <2>8. PeerMoves(z, x, m) BY <2>4, PeersMove
  <2>9. sock'[x][g] # NoSocket BY DEF NoSocket
  <2> QED BY <2>5, <2>6, <2>7, <2>8, <2>9 DEF PeerMoves, SamePeer
<1>3. CASE Accepted(x, g)
  <2>1. d \in DOMAIN conn /\ conn[d].to = x BY <1>3 DEF Accepted
  <2>2. conn[d].from = x BY <2>1 DEF ConnsStay
  <2> QED BY <1>f, <2>1, <2>2 DEF SocketInv, ConnsFit, ConnFits
<1>4. CASE Connected(x, g)
  <2>1. SocketConnect(x, g) /\ sock[x][g].type = "connect" /\ d = ConnOf(x, g)
    BY <1>4 DEF Connected
  <2>2. Open(x, g) BY <2>1 DEF Open, NoSocket
  <2>3. d \in DOMAIN conn BY <1>f, <2>1, <2>2, FarFacts
  <2>4. conn'[d].to = conn[d].to /\ conn[d].from = x BY <2>3 DEF ConnsStay
  <2>5. Far(d, x) = conn[d].to BY <2>4 DEF Far
  <2>6. PICK m \in Owners(x, g) : \A a, b \in Node :
          peers'[a][b] = IF a = x /\ b = m
                         THEN [peers[x][m] EXCEPT !.tryConnect = FALSE, !.dataSocket = g]
                         ELSE peers[a][b]
    BY <1>f, <2>1, SocketConnectFacts, ZenonT(40)
  <2>7. m \in Peers(x) /\ m \in Node /\ peers[x][m].connSocket = g
    BY DEF Owners, Peers
  <2>8. SocketOfPeer(x, m) = g
    <3>1. /\ PeerHolds(x, m)
          /\ peers[x][m].tryConnect => SocketOfPeer(x, m) = peers[x][m].connSocket
          /\ ~peers[x][m].tryConnect => SocketOfPeer(x, m) = peers[x][m].dataSocket
      BY <2>7, PeerHoldsFacts
    <3>2. PeerFits(peers[x][m]) /\ peers[x][m] # NoPeer /\ peers[x][m] \in PeerRecord
      BY <1>f, <2>7 DEF Fits, TableInv, Peers
    <3>3. peers[x][m].type # "in"
      BY <2>7, <3>1 DEF PeerHolds, OwnersCertain
    <3>4. peers[x][m].type = "out" BY <3>2, <3>3 DEF PeerFits, PeerRecord
    <3> QED BY <2>7, <3>1, <3>4 DEF PeerHolds
  <2>9. m = conn[d].to BY <2>1, <2>5, <2>7, <2>8, PeerHoldsFacts DEF PeerHolds
  <2>10. peers'[x][m] = [peers[x][m] EXCEPT !.tryConnect = FALSE, !.dataSocket = g]
    BY <2>6, <2>7
  <2>11. peers[x][m] \in PeerRecord BY <1>f, <2>7 DEF Fits, TableInv
  <2>12. peers'[x][m].dataSocket = g BY <2>10, <2>11 DEF PeerRecord
  <2> QED BY <2>4, <2>9, <2>12
<1> QED BY <1>1, <1>2, <1>3, <1>4, SMTT(20) DEF SocketMoves, NoSocket

\* A peer that stays, stays with its connection.
LEMMA SameConnection ==
  ASSUME OwnerInv, PeersHold, OwnersCertain, failed' = failed, ConnsStay, PeersHold', OwnerInv',
         NEW z \in Node, Step(z), NEW x \in Node, NEW y \in Node,
         peers'[x][y].type = "in", SamePeer(x, y),
         NEW fd, fd = peers[x][y].dataSocket
  PROVE  /\ peers[x][y].type = "in" /\ peers'[x][y].dataSocket = fd
         /\ fd \in FD /\ Open(x, fd) /\ Open(x, fd)' /\ sock'[x][fd] = sock[x][fd]
         /\ ConnOf(x, fd) \in DOMAIN conn /\ Far(ConnOf(x, fd), x) = y
         /\ sock'[x][fd].type = "data"
         /\ SocketFits(x, fd)'
<1>1. peers[x][y].type = "in" /\ peers'[x][y].dataSocket = fd BY DEF SamePeer
<1>2. /\ fd \in FD /\ sock[x][fd].type = "data" /\ Open(x, fd)
      /\ ConnOf(x, fd) \in DOMAIN conn /\ Far(ConnOf(x, fd), x) = y
  BY <1>1, IncomingSocket
<1>3. OwnersCertain' BY DEF OwnersCertain
<1>4. sock'[x][fd].type = "data"
  <2>1. y \in Peers(x)' BY DEF Peers, NoPeer
  <2>2. PeerFits(peers[x][y])' BY DEF OwnerInv, Fits, TableInv
  <2>3. ~peers'[x][y].tryConnect BY <2>2 DEF PeerFits
  <2>4. PeerHolds(x, y)' BY <1>3 DEF PeersHold
  <2> QED BY <1>1, <2>1, <2>3, <2>4 DEF PeerHolds, SocketOfPeer
<1>5. SocketMoves(z, x, fd) BY <1>2, SocketsMove DEF OwnerInv
<1>6. sock'[x][fd] = sock[x][fd]
  BY <1>2, <1>4, <1>5 DEF SocketMoves, Accepted, Connected, NoSocket
<1>7. Open(x, fd)' BY <1>4 DEF Open, NoSocket
<1>8. SocketFits(x, fd)'
  <2>1. SocketsFit' BY DEF OwnerInv, Fits, SocketInv
  <2> QED BY <1>2, <1>7, <2>1 DEF SocketsFit
<1> QED BY <1>1, <1>2, <1>4, <1>6, <1>7, <1>8

\* A step keeps who dialed the connection of an incoming peer.
LEMMA DialedInStep ==
  ASSUME OwnerInv, PeersHold, OwnersCertain, failed' = failed, ConnsStay, PeersHold', OwnerInv',
         NEW z \in Node, Step(z), NEW x \in Node, NEW y \in Node, DialedIn(x, y)
  PROVE  DialedIn(x, y)'
<1> SUFFICES ASSUME peers'[x][y].type = "in",
                    NEW fd, fd = peers'[x][y].dataSocket
             PROVE  conn'[sock'[x][fd].conn].from = y
  BY DEF DialedIn, ConnOf
<1>1. PeerMoves(z, x, y) BY PeersMove
<1>2. CASE SamePeer(x, y)
  <2>1. /\ peers[x][y].type = "in" /\ fd = peers[x][y].dataSocket
        /\ sock'[x][fd] = sock[x][fd] /\ ConnOf(x, fd) \in DOMAIN conn
    BY <1>2, SameConnection
  <2>2. conn[ConnOf(x, fd)].from = y BY <2>1 DEF DialedIn
  <2> QED BY <2>1, <2>2 DEF ConnsStay, ConnOf
<1>3. CASE Introduces(x, y)
  <2>1. /\ fd \in FD /\ Open(x, fd) /\ sock'[x][fd] = sock[x][fd]
        /\ Far(ConnOf(x, fd), x) = y /\ conn[ConnOf(x, fd)].to = x
    BY <1>3 DEF Introduces
  <2>2. ConnOf(x, fd) \in DOMAIN conn /\ conn[ConnOf(x, fd)].from = y
    BY <2>1, FarFacts DEF OwnerInv, Fits
  <2> QED BY <2>1, <2>2 DEF ConnsStay, ConnOf
<1> QED BY <1>1, <1>2, <1>3 DEF PeerMoves, NoPeer

\* A PING or PONG stays under way until it is taken, and whoever takes the PING of
\* the node it dialed sends the PONG over the same connection.
LEMMA UnderWayStep ==
  ASSUME OwnerInv, PeersHold, OwnersCertain, failed' = failed, ConnsStay, PeersHold', OwnerInv',
         NEW z \in Node, Step(z), NEW x \in Node, NEW y \in Node,
         DialedIn(x, y), UnderWay(x, y), \A fd \in FD : Known(y, fd)
  PROVE  UnderWay(x, y)'
<1> SUFFICES ASSUME NEW fd, fd = peers'[x][y].dataSocket,
                    NEW c, c = sock'[x][fd].conn,
                    Running(x)', Running(y)', peers'[x][y].type = "in",
                    ~peers'[x][y].pongReceived, y \notin conn'[c].closed
             PROVE  Holds(conn'[c].stream[y], "PING") \/ Holds(conn'[c].stream[x], "PONG")
  BY DEF UnderWay, ConnOf, Holds
<1>f. Fits /\ SocketInv /\ conn \in Seq(Connection) BY DEF OwnerInv, Fits, SocketInv
<1>m. "PING" \in Msg /\ "PONG" \in Msg BY DEF Msg
<1>1. PeerMoves(z, x, y) BY PeersMove
<1>2. SamePeer(x, y)
  BY <1>1 DEF PeerMoves, Introduces, NoPeer
<1>3. /\ peers[x][y].type = "in" /\ peers[x][y].dataSocket = fd
      /\ fd \in FD /\ Open(x, fd) /\ Open(x, fd)' /\ c = ConnOf(x, fd)
      /\ c \in DOMAIN conn /\ Far(c, x) = y
      /\ SocketFits(x, fd)' /\ ConnOf(x, fd)' = c
  BY <1>2, SameConnection DEF SamePeer, ConnOf
<1>4. /\ x # y /\ conn[c].from = y /\ conn[c].to = x
  BY <1>3, <1>f, FarFacts DEF DialedIn
<1>k. Kept(z) /\ ClosedStay BY <1>f, KeptStep
<1>5. /\ Running(x) /\ Running(y) /\ y \notin conn[c].closed
  BY <1>k, <1>3 DEF ClosedStay, Running
<1>6. x \notin conn'[c].closed BY <1>3 DEF SocketFits, Running
<1>7. x \notin conn[c].closed BY <1>3, <1>6, <1>k DEF ClosedStay
<1>8. CASE peers[x][y].pongReceived
  <2>1. x = z /\ Pings(x) /\ y \notin Late(x)
    <3>1. peers'[x][y].pongReceived # peers[x][y].pongReceived /\ peers'[x][y].pongReceived # TRUE
      BY <1>8
    <3> QED BY <1>1, <1>2, <1>3, <3>1 DEF PeerMoves, Introduces, NoPeer
  <2>2. y \in Peers(x) \ Late(x) /\ fd # NoFD
    BY <1>3, <2>1, SocketAssumption DEF Peers, NoPeer, FD, NoFD
  <2> DEFINE L == {ConnOf(x, peers[x][m].dataSocket) : m \in {m \in Peers(x) \ Late(x) : peers[x][m].dataSocket # NoFD}}
  <2>3. c \in L BY <1>3, <2>2
  <2>4. PICK M : conn' = Sent(Closed(conn, x, M), x, L, "PING")
    BY <2>1 DEF Pings, SendMsgToPeers, Late
  <2> HIDE DEF L
  <2> DEFINE D == Closed(conn, x, M)
  <2>5. SameEnds(conn, D) /\ (y \in D[c].closed <=> y \in conn[c].closed)
    BY <1>f, <1>3, <1>4, ClosedFacts
  <2>6. conn' = Sent(D, x, L, "PING") BY <2>4
  <2> HIDE DEF D
  <2> QED BY <1>f, <1>m, <1>3, <1>5, <2>3, <2>5, <2>6, SendingArrives
<1>9. CASE Holds(conn[c].stream[y], "PING")
  <2>1. CASE TakesOff(y, c, "PING")
    <3>1. PICK g \in FD : c = ConnOf(y, g) /\ RecvPing(y, g)
      BY <2>1 DEF TakesOff
    <3>2. Receives(y, g, "PING") BY <3>1 DEF RecvPing
    <3>3. sock[y][g].type = "data" BY <3>2 DEF Receives
    <3>4. peers[y][x].dataSocket = g BY <1>4, <3>1, <3>3 DEF Known
    <3>5. g # NoFD BY SocketAssumption DEF FD, NoFD
    <3>6. Far(c, y) = x BY <1>4 DEF Far
    <3> DEFINE L == {ConnOf(y, peers[y][m].dataSocket) : m \in {m \in {x} : peers[y][m].dataSocket # NoFD}}
    <3>7. c \in L BY <3>1, <3>4, <3>5
    <3>8. conn' = Sent(Taken(y, g), y, L, "PONG")
      BY <3>1, <3>6 DEF RecvPing, SendMsgToPeers
    <3> HIDE DEF L
    <3> DEFINE D == Taken(y, g)
    <3>9. SameEnds(conn, D) /\ (x \in D[c].closed <=> x \in conn[c].closed)
      BY <1>f, <1>m, <1>3, <3>2, TakingKeeps
    <3>10. conn' = Sent(D, y, L, "PONG") BY <3>8
    <3> HIDE DEF D
    <3>11. Holds(conn'[c].stream[x], "PONG")
      BY <1>f, <1>m, <1>3, <1>5, <1>7, <3>6, <3>7, <3>9, <3>10, SendingArrives
    <3> QED BY <3>11
  <2>2. CASE ~TakesOff(y, c, "PING")
    <3>1. /\ status'[y] = "running" BY DEF Running
    <3>2. Holds(conn'[c].stream[y], "PING") BY <1>9, <1>k, <1>m, <1>3, <2>2, <3>1 DEF Kept
    <3> QED BY <3>2
  <2> QED BY <2>1, <2>2
<1>10. CASE Holds(conn[c].stream[x], "PONG")
  <2>1. ~(x = z /\ TakesOff(x, c, "PONG"))
    <3> SUFFICES ASSUME TakesOff(x, c, "PONG") PROVE FALSE OBVIOUS
    <3>1. PICK g \in FD : c = ConnOf(x, g) /\ Answered(x, g)
      BY DEF TakesOff
    <3>2. peers' = [peers EXCEPT ![x][y].pongReceived = TRUE]
      BY <1>3, <3>1 DEF Answered
    <3>3. peers \in [Node -> [Node -> PeerRecord]] BY <1>f DEF Fits, TableInv
    <3>4. peers'[x][y] = [peers[x][y] EXCEPT !.pongReceived = TRUE] /\ peers[x][y] \in PeerRecord
      BY <3>2, <3>3
    <3> QED BY <3>4 DEF PeerRecord
  <2>2. status'[x] = "running" BY DEF Running
  <2> QED BY <1>10, <1>k, <1>m, <1>3, <1>6, <2>1, <2>2 DEF Kept
<1>11. CASE ~peers[x][y].pongReceived
  BY <1>3, <1>5, <1>9, <1>10, <1>11 DEF UnderWay
<1> QED BY <1>8, <1>11

\* Every step of the system keeps AskedInv ...
LEMMA AskedStep == ASSUME CertainInv, AskedInv, [Next]_vars PROVE AskedInv'
<1>o. OwnerInv /\ PeersHold BY DEF CertainInv
<1>p. CertainInv' /\ OwnerInv' /\ PeersHold' BY CertainStep DEF CertainInv
<1>1. CASE UNCHANGED vars
  <2>1. /\ sock' = sock /\ conn' = conn /\ status' = status /\ peers' = peers
        /\ failed' = failed
    BY <1>1 DEF vars
  <2>2. ASSUME NEW x \in Node, NEW g \in FD, Known(x, g) PROVE Known(x, g)'
    BY <2>1, <2>2 DEF Known, ConnOf
  <2>3. ASSUME NEW x \in Node, NEW y \in Node, DialedIn(x, y) /\ UnderWay(x, y)
        PROVE  DialedIn(x, y)' /\ UnderWay(x, y)'
    BY <2>1, <2>3 DEF DialedIn, UnderWay, ConnOf, Running, Holds
  <2> QED BY <2>1, <2>2, <2>3 DEF AskedInv, OwnersCertain
<1>2. CASE Next
  <2>1. PICK n \in Node : Step(n)
    BY <1>2, <1>o, NextForms DEF OwnerInv, Fits, TableInv
  <2>2. ConnsStay /\ failed \in Nat /\ failed' \in {failed, failed + 1}
    BY <1>o, <2>1, StepFacts DEF OwnerInv
  <2>3. OwnersCertain' => OwnersCertain /\ failed' = failed
    BY <2>2 DEF OwnersCertain
  <2>4. ASSUME OwnersCertain, failed' = failed, NEW x \in Node, NEW g \in FD
        PROVE  Known(x, g)'
    <3>1. Known(x, g) BY <2>4 DEF AskedInv
    <3> QED BY <1>o, <2>1, <2>2, <2>4, <3>1, KnownStep
  <2>5. ASSUME OwnersCertain, failed' = failed, NEW x \in Node, NEW y \in Node
        PROVE  DialedIn(x, y)' /\ UnderWay(x, y)'
    <3>1. DialedIn(x, y) /\ UnderWay(x, y) /\ \A fd \in FD : Known(y, fd)
      BY <2>5 DEF AskedInv
    <3>2. DialedIn(x, y)' BY <1>o, <1>p, <2>1, <2>2, <2>5, <3>1, DialedInStep
    <3>3. UnderWay(x, y)' BY <1>o, <1>p, <2>1, <2>2, <2>5, <3>1, UnderWayStep
    <3> QED BY <3>2, <3>3
  <2> QED BY <2>3, <2>4, <2>5 DEF AskedInv
<1> QED BY <1>1, <1>2

\* ... so it holds in every state.
LEMMA AskedInvariance == Spec => [](CertainInv /\ AskedInv)
<1>1. Init => AskedInv
  BY DEF Init, SocketInit, AskedInv, Known, DialedIn, UnderWay, NoPeer, NoSocket
<1>2. AskedInv /\ CertainInv /\ [Next]_vars => AskedInv' BY AskedStep
<1> QED BY <1>1, <1>2, CertainInvariance, PTL DEF Spec

\* The ping timer disconnects no incoming peer that runs and has the same connection
\* for its own (PeerConnectivityLayer_API.h:74): its PING or PONG would be under way.
THEOREM AnsweringPeersKept == Spec => AnsweringPeerKept
<1> DEFINE A == \A n, m \in Node :
                  Healthy(n, m) /\ peers[n][m].type = "in" /\ OwnersCertain /\ peers'[n][m] = NoPeer
                    => ~PingTimer(n)
<1>1. CertainInv /\ AskedInv /\ [Next]_vars => [A]_vars
  <2> SUFFICES ASSUME CertainInv, AskedInv, OwnersCertain, NEW n \in Node, NEW m \in Node,
                      PingTimer(n), Healthy(n, m), peers[n][m].type = "in",
                      peers'[n][m] = NoPeer
               PROVE  FALSE
    OBVIOUS
  <2>o. OwnerInv /\ PeersHold /\ Fits BY DEF CertainInv, OwnerInv
  <2> DEFINE fd == peers[n][m].dataSocket
             c == ConnOf(n, fd)
             g == peers[m][n].dataSocket
  <2>1. /\ m \in Peers(n) /\ fd \in FD /\ Open(n, fd) /\ c \in DOMAIN conn /\ Far(c, n) = m
    BY <2>o, IncomingSocket
  <2>2. n # m /\ conn[c].from = m /\ conn[c].to = n
    BY <2>1, <2>o, FarFacts DEF AskedInv, DialedIn, Fits
  <2>3. Running(n) /\ Running(m) /\ n \in Active(m) /\ c = ConnOf(m, g)
    BY DEF Healthy
  <2>4. m \notin conn[c].closed
    <3>1. n \in Peers(m) BY <2>3 DEF Active, Peers, NoPeer
    <3>2. g \in FD /\ Open(m, g) BY <2>o, <2>3, <3>1, PeerHoldsFacts
    <3>3. SocketFits(m, g) BY <2>o, <3>2 DEF Fits, SocketInv, SocketsFit
    <3> QED BY <2>3, <3>3 DEF SocketFits
  <2>5. PingPongDone(n) BY DEF PingTimer
  <2> HIDE DEF c
  <2>6. ~Holds(conn[c].stream[m], "PING") /\ ~Holds(conn[c].stream[n], "PONG")
    BY <2>1, <2>2, <2>5 DEF PingPongDone, Holds
  <2>7. peers[n][m].pongReceived
    BY <2>3, <2>4, <2>6 DEF AskedInv, UnderWay, c
  <2>8. m \notin Late(n) BY <2>7 DEF Late
  <2>9. CASE Pings(n)
    <3>1. peers'[n][m].type = peers[n][m].type BY <2>o, <2>8, <2>9, PingsFacts
    <3> QED BY <3>1 DEF NoPeer
  <2>10. CASE peers' = peers BY <2>10 DEF NoPeer
  <2> QED BY <2>9, <2>10 DEF PingTimer, Pings, DisconnectAborts, Abort
<1> QED BY <1>1, AskedInvariance, PTL DEF Spec, AnsweringPeerKept
=============================================================================
