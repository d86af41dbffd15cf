----------------------------- MODULE SocketStream -----------------------------
(***************************************************************************)
(* BL1_socket in detail: data sockets with their watchers and send         *)
(* buffers, receive buffers by descriptor, and the frames in which         *)
(* messages travel, under the loop of MainEventManager.  BL2 and BL3 are   *)
(* reduced to what they do with a socket: they send on it, disconnect it,  *)
(* and handle what comes from it.                                          *)
(*                                                                         *)
(* A frame is a magic value, the length of the body and the body.  A byte  *)
(* says what it is part of: <<"magic", i>>, <<"len", size>> (the four      *)
(* bytes of the length as one) or <<"body", m, i>>.  The kernel keeps what *)
(* was sent in order until it is read; a byte counts as arrived whenever   *)
(* that suits the reader.  An end that is closed drops what it did not     *)
(* read, and answers what it can no longer take with a reset.              *)
(***************************************************************************)
EXTENDS MainEventManager, FiniteSets

CONSTANTS Dials,        \* the pairs <<n, m>>: the program of n connects to m
          Miners,       \* the nodes that mine: a timer fires now and then
          Timed,        \* the nodes whose program waits with a timeout
          MayCut,       \* the nodes that disconnect peers (ping timer, program)
          MaxConn,      \* bound: connections ever opened
          MaxMsg,       \* bound: MaxMsg[n] messages from n on a connection
          MaxTalk,      \* bound: the later connections carry introductions only
          Sizes,        \* the sizes of message bodies
          MagicSize,    \* BLEEP_MAGIC_SIZE
          ReadSize,     \* how much RecvHandler reads at a time (2000)
          Capacity      \* what the kernel holds of one direction

ASSUME StreamAssumption ==
  /\ Dials \subseteq {p \in Node \X Node : p[1] # p[2]}
  /\ Miners \cup Timed \cup MayCut \subseteq Node
  /\ MaxConn \in Nat /\ MaxMsg \in [Node -> Nat] /\ MaxTalk \in Nat
  /\ {MagicSize, ReadSize, Capacity} \cup Sizes \subseteq Nat \ {0}

VARIABLES conn,         \* the connections opened so far, and who closed them
          sock,         \* sock[n][fd]: a ConnectSocket or DataSocket, _sendBuff included
          recvBuff,     \* recvBuff[n][fd]: _recvBuffMap
          wire,         \* wire[<<c, n>>]: sent on c to n and not read yet
          sent,         \* history: the messages given to SendMsgToPeer
          handled,      \* history: the messages handled by their layer
          cut,          \* history: the ends closed by DisconnectSocket
          tainted       \* history: the ends opened over an old receive buffer

ioVars == << conn, sock, recvBuff, wire >>
history == << sent, handled, cut, tainted >>
vars == << queue, status, conn, sock, recvBuff, wire, sent, handled, cut, tainted >>

FD == 1..MaxConn
Stream == (1..MaxConn) \X Node
NoSocket == [type |-> "none", conn |-> 0, writable |-> FALSE, send |-> << >>]
DataSocket(c) == [NoSocket EXCEPT !.type = "data", !.conn = c]
Far(c, n) == IF conn[c].from = n THEN conn[c].to ELSE conn[c].from
ConnOf(n, fd) == sock[n][fd].conn
Mapped(n, fd) == sock[n][fd].type = "data"    \* GetDataSocket finds it

Init ==
  /\ EventInit
  /\ conn = << >>
  /\ sock = [n \in Node |-> [fd \in FD |-> NoSocket]]
  /\ recvBuff = [n \in Node |-> [fd \in FD |-> << >>]]
  /\ wire = [s \in Stream |-> << >>]
  /\ sent = [s \in Stream |-> << >>] /\ handled = [s \in Stream |-> << >>]
  /\ cut = {} /\ tainted = {}

-----------------------------------------------------------------------------
(* Frames *)

Frame(m) ==
  [i \in 1..MagicSize |-> <<"magic", i>>] \o << <<"len", m.size>> >>
    \o [i \in 1..m.size |-> <<"body", m, i>>]

\* Every part of a frame is a WriteMsg of its own.
BeginsWriteMsg(b) == b = <<"magic", 1>> \/ b[1] = "len" \/ (b[1] = "body" /\ b[3] = 1)

\* A frame begins after the first p bytes of buf and is complete.  (Taken for a
\* length, the first bytes of the magic value are far beyond any buffer.)
WholeFrame(buf, p) ==
  LET q == p + MagicSize + 1 IN
  /\ q <= Len(buf)
  /\ \A i \in 1..MagicSize : buf[p + i] = <<"magic", i>>
  /\ buf[q][1] = "len"
  /\ q + buf[q][2] <= Len(buf)

\* Where the parsing loop stands after k frames (or when no more can be had).
FrameEnd(buf) ==
  LET next == [p \in 0..Len(buf) |->
                 IF WholeFrame(buf, p) THEN p + MagicSize + 1 + buf[p + MagicSize + 1][2] ELSE p]
      end[k \in 0..Len(buf)] == IF k = 0 THEN 0 ELSE next[end[k - 1]]
  IN  end

Garbled == [conn |-> 0, num |-> 0, size |-> 0]

\* Deserialisation of a body.
Content(body) ==
  LET m == body[1][2] IN
  IF body[1][1] = "body" /\ body = [i \in 1..Len(body) |-> <<"body", m, i>>]
  THEN m ELSE Garbled

\* The messages that RecvHandler takes off buf, and what it leaves.
Parsed(buf) ==
  LET end == FrameEnd(buf)
      frames == Cardinality({k \in 1..Len(buf) : end[k] > end[k - 1]})
  IN  [k \in 1..frames |-> Content(SubSeq(buf, end[k - 1] + MagicSize + 2, end[k]))]

\* Mutant of Remain: the last frame stays in the buffer.
RemainKept(buf) ==
  LET end == FrameEnd(buf) IN
  SubSeq(buf, Max({0} \cup {end[k] : k \in {k \in DOMAIN end : end[k] < end[Len(buf)]}}) + 1, Len(buf))
Remain(buf) == SubSeq(buf, FrameEnd(buf)[Len(buf)] + 1, Len(buf))

-----------------------------------------------------------------------------
(* Calls of the upper layers, from a timer, a handler or the program *)

\* The history and the socket after n sent a message on fd: SendMsgToPeer, three
\* times AppendToSendBuff.
SendMsg(n, fd, size) ==
  LET c == ConnOf(n, fd)
      s == <<c, Far(c, n)>>
      m == [conn |-> c, num |-> Len(sent[s]) + 1, size |-> size]
  IN
  /\ Len(sent[s]) < MaxMsg[n]
  /\ sent' = [sent EXCEPT ![s] = Append(@, m)]
  /\ sock' = [sock EXCEPT ![n][fd].send = @ \o Frame(m), ![n][fd].writable = TRUE]

\* The peer of this socket is active: introduced to the other end or by it.
ActivePeer(n, fd) ==
  /\ sock[n][fd].type \in {"data", "closing"}
  /\ LET c == ConnOf(n, fd) IN
     IF conn[c].from = n THEN sent[<<c, conn[c].to>>] # << >> ELSE handled[<<c, n>>] # << >>

SendMsgToPeer(n, fd) ==
  /\ Running(n) /\ ActivePeer(n, fd) /\ ConnOf(n, fd) <= MaxTalk
  /\ \E size \in Sizes : SendMsg(n, fd, size)
  /\ UNCHANGED << queue, status, conn, recvBuff, wire, handled, cut, tainted >>

\* The connections after n closed its ends of those in C, when w is on the wires:
\* the kernel resets the other end of one that has bytes nobody will read, or that
\* nobody will accept.
ClosedEnds(n, C, w) ==
  [c \in DOMAIN conn |->
     IF c \notin C THEN conn[c]
     ELSE [conn[c] EXCEPT !.closed = @ \cup {n},
                          !.reset = IF w[<<c, n>>] = << >> /\ (conn[c].to = n => conn[c].accepted)
                                    THEN @ ELSE @ \cup {Far(c, n)}]]
CloseEnd(n, c) ==
  /\ conn' = ClosedEnds(n, {c}, wire)
  /\ wire' = [wire EXCEPT ![<<c, n>>] = << >>]

\* The process of n ends, when w is on the wires.
Stop(n, why, w) ==
  /\ status' = [status EXCEPT ![n] = why]
  /\ conn' = ClosedEnds(n, {c \in DOMAIN conn : n \in {conn[c].from, conn[c].to}}, w)
  /\ wire' = [s \in Stream |-> IF s[2] = n THEN << >> ELSE w[s]]

\* DisconnectSocket: the socket goes, its receive buffer stays.
DisconnectSocket(n, fd) ==
  /\ CloseEnd(n, ConnOf(n, fd))
  /\ sock' = [sock EXCEPT ![n][fd] = NoSocket]
  /\ cut' = cut \cup {<<ConnOf(n, fd), n>>}

\* DisconnectPeer, called when no event is queued: from a timer.
DisconnectPeer(n, fd) ==
  /\ n \in MayCut /\ Polls(n)
  /\ Mapped(n, fd) /\ ActivePeer(n, fd)
  /\ DisconnectSocket(n, fd)
  /\ UNCHANGED << queue, status, recvBuff, sent, handled, tainted >>

\* The free descriptors: a new socket gets the lowest.
Free(n) == {fd \in FD : sock[n][fd] = NoSocket}

\* CreateNonblockConnectSocket.  Where a process has ended its host resets.
ConnectPeer(n, m) ==
  /\ Running(n) /\ <<n, m>> \in Dials
  /\ m \notin {Far(ConnOf(n, fd), n) : fd \in {fd \in FD : sock[n][fd] # NoSocket}}
  /\ Len(conn) < MaxConn
  /\ conn' = Append(conn, [from |-> n, to |-> m, accepted |-> FALSE,
                          closed |-> {m} \ {o \in Node : Running(o)},
                          reset |-> IF Running(m) THEN {} ELSE {n}])
  /\ \E fd \in Free(n) :
       /\ \A g \in Free(n) : fd <= g
       /\ sock' = [sock EXCEPT ![n][fd] = [NoSocket EXCEPT !.type = "connect", !.conn = Len(conn) + 1]]
  /\ UNCHANGED << queue, status, recvBuff, wire, history >>

-----------------------------------------------------------------------------
(* One round of libev *)

\* The connections that wait for an accept, the oldest first.
Backlog(n) == {c \in DOMAIN conn : conn[c].to = n /\ ~conn[c].accepted}

Readable(n, fd) ==
  /\ Mapped(n, fd)
  /\ wire[<<ConnOf(n, fd), n>>] # << >> \/ Far(ConnOf(n, fd), n) \in conn[ConnOf(n, fd)].closed
Writable(n, fd) ==
  LET s == <<ConnOf(n, fd), Far(ConnOf(n, fd), n)>> IN
  Mapped(n, fd) /\ sock[n][fd].writable /\ Len(wire[s]) < Capacity

\* What the watchers may report.
Fires(n) ==
  [type : {"SocketAccept"}, fd : {0 : c \in Backlog(n)}]
  \cup [type : {"SocketConnect"}, fd : {fd \in FD : sock[n][fd].type = "connect"}]
  \cup [type : {"SocketRecv"}, fd : {fd \in FD : Readable(n, fd)}]
  \cup [type : {"SocketWrite"}, fd : {fd \in FD : Writable(n, fd)}]

\* Mutant of OneEach: reading and writing are reported together.
BothEach(events) == TRUE

\* _dataSocketIOCallback: a socket that can be read is not reported as writable.
OneEach(events) == \A e, f \in events : e.fd = f.fd => e = f

\* ev_run: the mining timer may come first; then any of what fires, in any order.
Poll(n, events) ==
  /\ OneEach(ToSet(events))
  /\ \/ events # << >> /\ Polled(n, << >>, events)
     \/ n \in Miners /\ Polled(n, << [type |-> "EmuBlockMiningComplete"] >>, events)
  /\ UNCHANGED << status, ioVars, history >>

PollAny(n) == Polls(n) /\ \E events \in SetToAllKPermutations(Fires(n)) : Poll(n, events)

-----------------------------------------------------------------------------
(* Handlers of BL1 *)

\* The ends of the connections that get a descriptor with bytes of an earlier one,
\* when opened is the set of new pairs of descriptor and connection.
OpenedOver(n, opened) == {<<p[2], n>> : p \in {p \in opened : recvBuff[n][p[1]] # << >>}}

\* What a loop of accepts opens: the first connection that waits gets the lowest
\* free descriptor, the second the next one, and so on.
Accepts(n) ==
  {p \in Free(n) \X Backlog(n) :
     Cardinality({fd \in Free(n) : fd < p[1]}) = Cardinality({c \in Backlog(n) : c < p[2]})}

\* AcceptHandler: accept until nothing waits.
AcceptHandler(n) ==
  /\ NextIs(n, "SocketAccept")
  /\ queue' = Popped(n, << >>)
  /\ conn' = [c \in DOMAIN conn |->
                IF c \in Backlog(n) THEN [conn[c] EXCEPT !.accepted = TRUE] ELSE conn[c]]
  /\ sock' = [sock EXCEPT ![n] = [fd \in FD |->
                IF \E p \in Accepts(n) : p[1] = fd
                THEN DataSocket((CHOOSE p \in Accepts(n) : p[1] = fd)[2]) ELSE @[fd]]]
  /\ tainted' = tainted \cup OpenedOver(n, Accepts(n))
  /\ UNCHANGED << status, recvBuff, wire, sent, handled, cut >>

\* ConnectHandler, of a connect that failed: the event of the failure is one of this
\* very layer, and goes behind whatever else is queued.
ConnectFails(n, fd) ==
  /\ n \in conn[ConnOf(n, fd)].reset
  /\ queue' = Popped(n, << [type |-> "SocketConnectFailed"] >>)
  /\ CloseEnd(n, ConnOf(n, fd))
  /\ sock' = [sock EXCEPT ![n][fd] = NoSocket]
  /\ UNCHANGED tainted

\* ConnectHandler.  SO_ERROR may be clear although the connect failed: the watcher
\* has asked for it before.
ConnectHandler(n) ==
  LET fd == Head(queue[n]).fd IN
  /\ NextIs(n, "SocketConnect")
  /\ \/ ConnectFails(n, fd)
     \/ /\ queue' = Popped(n, << [type |-> "PeerSocketConnect", fd |-> fd] >>)
        /\ sock' = [sock EXCEPT ![n][fd] = DataSocket(ConnOf(n, fd))]
        /\ tainted' = tainted \cup OpenedOver(n, {<<fd, ConnOf(n, fd)>>})
        /\ UNCHANGED << conn, wire >>
  /\ UNCHANGED << status, recvBuff, sent, handled, cut >>

ConnectFailedHandler(n) ==
  /\ NextIs(n, "SocketConnectFailed")
  /\ queue' = Popped(n, << [type |-> "PeerSocketConnectFailed"] >>)
  /\ UNCHANGED << status, ioVars, history >>

\* The event for a message that came on fd: the introduction carries the socket.
MsgEvent(n, fd, m) ==
  [type |-> IF m.num = 1 /\ conn[ConnOf(n, fd)].to = n THEN "PeerRecvNotifyPeerId" ELSE "PeerRecvMsg",
   fd |-> fd, conn |-> ConnOf(n, fd), msg |-> m]

\* Mutant of ReadsToEnd: reading goes on after a part of a buffer.
ReadsToEndAlways(n, fd, len) ==
  LET c == ConnOf(n, fd) IN
  len = Len(wire[<<c, n>>]) /\ Far(c, n) \in conn[c].closed

\* recv is called again only after a full buffer: it then returns 0 if nothing
\* is left and the other end is closed.  (The end of file may arrive later.)
ReadsToEnd(n, fd, len) ==
  LET c == ConnOf(n, fd) IN
  len = Len(wire[<<c, n>>]) /\ len % ReadSize = 0 /\ Far(c, n) \in conn[c].closed

\* Mutant of EndOfFile: the receive buffer stays.
EndOfFileKeeping(n, fd) ==
  /\ queue' = Popped(n, << [type |-> "PeerSocketClose", fd |-> fd] >>)
  /\ sock' = [sock EXCEPT ![n][fd].type = "closing"]
  /\ UNCHANGED recvBuff

\* Mutant of EndOfFile: what is buffered is still parsed, after the event.
EndOfFileParsing(n, fd) ==
  LET buf == recvBuff[n][fd] \o wire[<<ConnOf(n, fd), n>>] IN
  /\ queue' = Popped(n, << [type |-> "PeerSocketClose", fd |-> fd] >>
                          \o [k \in DOMAIN Parsed(buf) |-> MsgEvent(n, fd, Parsed(buf)[k])])
  /\ sock' = [sock EXCEPT ![n][fd].type = "closing"]
  /\ recvBuff' = [recvBuff EXCEPT ![n][fd] = << >>]

\* recv returned 0: the socket is forgotten, with all that was read from it.  The
\* event keeps it, and its descriptor, until it is handled.
EndOfFile(n, fd) ==
  /\ queue' = Popped(n, << [type |-> "PeerSocketClose", fd |-> fd] >>)
  /\ sock' = [sock EXCEPT ![n][fd].type = "closing"]
  /\ recvBuff' = [recvBuff EXCEPT ![n][fd] = << >>]

\* The parsing loop of RecvHandler, over what is buffered.  A body put together
\* from two frames ends the process, if it is noticed.
Parse(n, fd, buf, rest) ==
  LET msgs == Parsed(buf) IN
  /\ queue' = Popped(n, [k \in DOMAIN msgs |-> MsgEvent(n, fd, msgs[k])])
  /\ recvBuff' = [recvBuff EXCEPT ![n][fd] = Remain(buf)]
  /\ sock' = sock
  /\ \/ wire' = rest /\ UNCHANGED << status, conn >>
     \/ Garbled \in ToSet(msgs) /\ Stop(n, "badMessage", rest)

\* RecvHandler, when len bytes have arrived.
RecvHandler(n, len) ==
  LET fd == Head(queue[n]).fd
      s == <<ConnOf(n, fd), n>>
      rest == [wire EXCEPT ![s] = SubSeq(@, len + 1, Len(@))]
  IN
  /\ NextIs(n, "SocketRecv")
  /\ len \in 0..Len(wire[s])
  /\ \/ /\ ReadsToEnd(n, fd, len)
        /\ \/ EndOfFile(n, fd) /\ wire' = rest /\ UNCHANGED << status, conn >>
           \* A reset came first: recv fails, and the process ends.
           \/ /\ n \in conn[s[1]].reset
              /\ Stop(n, "recvError", rest)
              /\ queue' = Popped(n, << >>)
              /\ UNCHANGED << sock, recvBuff >>
     \/ len > 0 /\ Parse(n, fd, recvBuff[n][fd] \o SubSeq(wire[s], 1, len), rest)
  /\ UNCHANGED history

\* Mutant of AllSent: one message, one call of send.
AllSentOne(rest) == TRUE
AllSent(rest) == rest = << >>

\* WriteHandler and DoSend: as much as the kernel takes.  Where that ends with a
\* WriteMsg the next call of send fails, as does one after a reset; both end the
\* process.
WriteHandler(n) ==
  LET fd == Head(queue[n]).fd
      c == ConnOf(n, fd)
      s == <<c, Far(c, n)>>
      buff == sock[n][fd].send
      free == Capacity - Len(wire[s])
      rest == SubSeq(buff, free + 1, Len(buff))
      full == rest # << >> /\ BeginsWriteMsg(rest[1])
      gone == Far(c, n) \in conn[c].closed
  IN
  /\ NextIs(n, "SocketWrite")
  /\ queue' = Popped(n, << >>)
  /\ IF ~Mapped(n, fd)
     THEN Stop(n, "noDataSocket", wire) /\ UNCHANGED sock
     ELSE LET after == IF gone THEN wire ELSE [wire EXCEPT ![s] = @ \o SubSeq(buff, 1, Len(buff) - Len(rest))]
          IN
          /\ sock' = [sock EXCEPT ![n][fd].send = rest, ![n][fd].writable = ~AllSent(rest)]
          /\ \/ /\ full \/ n \in conn[c].reset
                /\ Stop(n, "writeError", after)
             \/ /\ ~full
                /\ wire' = after
                /\ conn' = IF gone THEN [conn EXCEPT ![c].reset = @ \cup {n}] ELSE conn
                /\ UNCHANGED status
  /\ UNCHANGED << recvBuff, history >>

-----------------------------------------------------------------------------
(* Handlers of BL2 and BL3 *)

\* SocketConnectHandler: introduce this node.
SocketConnectHandler(n) ==
  /\ NextIs(n, "PeerSocketConnect")
  /\ \E size \in Sizes : SendMsg(n, Head(queue[n]).fd, size)
  /\ queue' = Popped(n, << >>)
  /\ UNCHANGED << status, conn, recvBuff, wire, handled, cut, tainted >>

\* SocketConnectFailedHandler, and SocketCloseHandler without a socket, for want of
\* a break: an active peer may be the one that should be connecting (the assertion)
\* or have its socket compared with none, and both end the process.  (The socket of
\* an introduction that was ignored is no peer's.)
SocketConnectFailedHandler(n) ==
  /\ NextIs(n, "PeerSocketConnectFailed")
  /\ queue' = Popped(n, << >>)
  /\ \/ UNCHANGED << status, conn, wire >>
     \/ (\E fd \in FD : ActivePeer(n, fd)) /\ Stop(n, "connectFailed", wire)
  /\ UNCHANGED << sock, recvBuff, history >>

\* SocketCloseHandler: the peer and the event let go of the socket.
SocketCloseHandler(n) ==
  LET fd == Head(queue[n]).fd IN
  /\ NextIs(n, "PeerSocketClose")
  /\ CloseEnd(n, ConnOf(n, fd))
  /\ sock' = [sock EXCEPT ![n][fd] = NoSocket]
  /\ queue' = Popped(n, << >>)
  /\ UNCHANGED << status, recvBuff, history >>

Handled(n) == LET e == Head(queue[n]) IN [handled EXCEPT ![<<e.conn, n>>] = Append(@, e.msg)]

\* PeerNotifyHandler: a peer for the socket, or no room for another one.
PeerNotifyHandler(n) ==
  LET fd == Head(queue[n]).fd IN
  /\ NextIs(n, "PeerRecvNotifyPeerId")
  /\ queue' = Popped(n, << >>)
  /\ handled' = Handled(n)
  /\ \/ UNCHANGED << conn, sock, wire, cut >>
     \/ n \in MayCut /\ Mapped(n, fd) /\ DisconnectSocket(n, fd)
  /\ UNCHANGED << status, recvBuff, sent, tainted >>

\* BL2's RecvMsgHandler: messages of the protocol are passed on.
RecvMsgHandler(n) ==
  /\ NextIs(n, "PeerRecvMsg")
  /\ queue' = Popped(n, << [Head(queue[n]) EXCEPT !.type = "ProtocolRecvMsg"] >>)
  /\ UNCHANGED << status, ioVars, history >>

\* BL3's RecvMsgHandler.
ProtocolRecvMsg(n) ==
  /\ NextIs(n, "ProtocolRecvMsg")
  /\ queue' = Popped(n, << >>)
  /\ handled' = Handled(n)
  /\ UNCHANGED << status, ioVars, sent, cut, tainted >>

MiningComplete(n) ==
  /\ NextIs(n, "EmuBlockMiningComplete")
  /\ queue' = Popped(n, << >>)
  /\ UNCHANGED << status, ioVars, history >>

\* A program that waits with a timeout (_timercallback) goes on when the queue is
\* empty, and ends.
Return(n) ==
  /\ Polls(n)
  /\ Stop(n, "returned", wire)
  /\ UNCHANGED << queue, sock, recvBuff, history >>

-----------------------------------------------------------------------------
Handle(n) ==
  \/ AcceptHandler(n) \/ ConnectHandler(n) \/ ConnectFailedHandler(n) \/ WriteHandler(n)
  \/ \E len \in 0..Capacity : RecvHandler(n, len)
  \/ SocketConnectHandler(n) \/ SocketConnectFailedHandler(n) \/ SocketCloseHandler(n)
  \/ PeerNotifyHandler(n) \/ RecvMsgHandler(n)
  \/ ProtocolRecvMsg(n) \/ MiningComplete(n)

Next == \E n \in Node :
  \/ PollAny(n) \/ Handle(n)
  \/ \E m \in Node : ConnectPeer(n, m)
  \/ \E fd \in FD : SendMsgToPeer(n, fd) \/ DisconnectPeer(n, fd)
  \/ n \in Timed /\ Return(n)

Spec == Init /\ [][Next]_vars

\* The loop drains its queue, and a round reports every descriptor that is ready,
\* now and then with nothing on its way that is not ready yet: the watchers are
\* level-triggered.  Nobody has to send, connect, disconnect or end.
ReportsAll(n) ==
  /\ Polls(n) /\ Fires(n) # {}
  /\ \E events \in SetToAllKPermutations(Fires(n)) :
       /\ {e.fd : e \in Fires(n)} = {e.fd : e \in ToSet(events)}
       /\ Poll(n, events)
Fairness == \A n \in Node : WF_vars(Handle(n)) /\ SF_vars(ReportsAll(n))
FairSpec == Spec /\ Fairness

-----------------------------------------------------------------------------
(* Properties *)

Num == UNION {1..MaxMsg[n] : n \in Node}
Message == [conn : 0..MaxConn, num : {0} \cup Num, size : {0} \cup Sizes]

\* The events of a round are handled layer by layer, and a mined block before them
\* all: no message is handled by BL2 while a socket of the round is unread, none by
\* BL3 while BL2 has one or an end of file, and no block mined in the round comes
\* behind its messages.  Only a failed connect comes later than its layers say: its
\* first event, of BL1, is pushed by a handler (SocketLayer_API.cpp:63) behind those
\* of BL2, and is handled among them, the second one among those of BL3.
LayerOf(e) == CASE e.type \in Mined -> 0 [] e.type \in Layer1 -> 1
                [] e.type \in Layer2 -> 2 [] OTHER -> 3
Failures == {"SocketConnectFailed", "PeerSocketConnectFailed"}
Rank(e) == LayerOf(e) + (IF e.type \in Failures THEN 1 ELSE 0)
RoundsInOrder ==
  \A n \in Node : \A i, j \in DOMAIN queue[n] :
    i < j => Rank(queue[n][i]) <= Rank(queue[n][j])

\* WriteHandler:212 ("dataSocket not exist for given (write) event") and the recv
\* of RecvHandler: whatever a handler does, the sockets of queued events are there.
EventsOfLiveSockets ==
  \A n \in Node : Running(n) =>
    \A e \in ToSet(queue[n]) :
      /\ e.type \in {"SocketRecv", "SocketWrite", "PeerSocketConnect"} => Mapped(n, e.fd)
      /\ e.type = "SocketConnect" => sock[n][e.fd].type = "connect"
      /\ e.type = "PeerSocketClose" => sock[n][e.fd].type = "closing"

\* When BL2 learns of the end of a connection it has had all its messages: none
\* is queued for BL2 or BL3 that would meet a missing peer.
CloseAfterMessages ==
  \A n \in Node : \A e, f \in ToSet(queue[n]) :
    e.type = "PeerSocketClose" /\ f.type \in {"PeerRecvNotifyPeerId", "PeerRecvMsg", "ProtocolRecvMsg"}
      => f.conn # ConnOf(n, e.fd)

\* A connection starts with bytes that are not its own only at a node that itself
\* had disconnected another one before: an end of file cleans up.
TaintedByDisconnect ==
  [][\A e \in tainted' \ tainted :
       \E c \in DOMAIN conn \ {e[1]} : <<c, e[2]>> \in cut]_vars

\* Of a connection that the other end closed, whole messages that arrived are lost
\* only if the reading ended with a full buffer ("if (n == 2000) continue").
LostOnlyAfterFullRead ==
  [][\A n \in Node : \A fd \in FD :
       LET came == wire[<<ConnOf(n, fd), n>>] IN
       /\ Mapped(n, fd) /\ sock'[n][fd].type = "closing"
       /\ WholeFrame(recvBuff[n][fd] \o came, 0)
       => came # << >> /\ Len(came) % ReadSize = 0]_vars

\* Whatever the sizes of reads and writes, a connection carries messages: each end
\* handles what the other sent, in order and nothing twice, unless it was opened
\* over the receive buffer of another one.
Streams == INSTANCE MessageStream WITH
  handled <- [s \in Stream |-> IF s \in tainted THEN << >> ELSE handled[s]]
ImplementsMessageStream == Streams!Spec

\* In the end, when the nodes have sent what they send, every message has been
\* handled, except those of connections that ended.
Ended(s) == \/ ~Running(s[2]) \/ s \in tainted
            \/ s[1] \in DOMAIN conn /\ \/ conn[s[1]].closed # {}
                                       \/ ~Running(Far(s[1], s[2]))
EverythingHandled == <>[](\A s \in Stream : Len(handled[s]) = Len(sent[s]) \/ Ended(s))
=============================================================================
