--------------------------- MODULE PeerConnectivity ---------------------------
(***************************************************************************)
(* BL2_peer_connectivity: the peer table, its connects and disconnects,    *)
(* the ping timer and the periodic outgoing connection update of           *)
(* BL_PeerConnectivityLayer_API, over the sockets of SocketLayer.          *)
(*                                                                         *)
(* An action is one callback of libev, or one call of the program, with    *)
(* the queued events it leads to: the timers of a round run before its     *)
(* sockets, and the queue is empty before the next round.  Where the code  *)
(* takes the first match in key order the model takes any: the ids of the  *)
(* peers are arbitrary.                                                    *)
(***************************************************************************)
EXTENDS SocketLayer

CONSTANTS Neighbors,     \* the pairs <<n, m>>: n connects to m on its own
          MayExit,       \* the nodes whose process may end by itself
          MaxFailed,     \* bound: connects that are reported as failed (the
                         \* others to a process that is gone never return)
          MaxOutgoing,   \* MAX_OUTGOINGPEER_NUM
          MaxIncoming,   \* MAX_INCOMINGPEER_NUM
          StaleFD        \* what the uninitialised _connSocket of an incoming
                         \* peer may hold

ASSUME PeerAssumption ==
  /\ Neighbors \subseteq {p \in Node \X Node : p[1] # p[2]}
  /\ MayExit \subseteq Node
  /\ {MaxFailed, MaxOutgoing, MaxIncoming} \subseteq Nat
  /\ StaleFD \subseteq Nat

VARIABLES peers,         \* peers[n][m]: PeerManager::_peers
          inPeerNum,     \* PeerManager::_inPeerNum
          outPeerNum,    \* PeerManager::_outPeerNum
          addrs,         \* addrs[n]: AddrManager::mapAddr
          failed         \* failed connects so far (for the bound)

peerVars == << peers, inPeerNum, outPeerNum >>
vars == << sock, conn, status, peers, inPeerNum, outPeerNum, addrs, failed >>

NoPeer == [type |-> "none", connSocket |-> NoFD, tryConnect |-> FALSE,
           dataSocket |-> NoFD, pongReceived |-> TRUE]
\* Mutant of OutgoingPeer: the descriptor is not kept.
OutgoingPeerUnset(fd) == [NoPeer EXCEPT !.type = "out", !.connSocket = -1, !.tryConnect = TRUE]
OutgoingPeer(fd) == [NoPeer EXCEPT !.type = "out", !.connSocket = fd, !.tryConnect = TRUE]
\* Mutant of IncomingPeer: it counts as asked and not answered.
IncomingPeerUnanswered(fd, stale) ==
  [NoPeer EXCEPT !.type = "in", !.connSocket = stale, !.dataSocket = fd, !.pongReceived = FALSE]
IncomingPeer(fd, stale) == [NoPeer EXCEPT !.type = "in", !.connSocket = stale, !.dataSocket = fd]

Peers(n) == {m \in Node : peers[n][m] # NoPeer}
Active(n) == {m \in Node : peers[n][m].dataSocket # NoFD}
Trying(n) == {m \in Node : peers[n][m].tryConnect}
OfType(n, type) == {m \in Node : peers[n][m].type = type}

\* The counters are not initialised either, but the 256 kB object they are part
\* of is allocated in fresh, zeroed pages.
Init ==
  /\ SocketInit
  /\ peers = [n \in Node |-> [m \in Node |-> NoPeer]]
  /\ inPeerNum = [n \in Node |-> 0]
  /\ outPeerNum = [n \in Node |-> 0]
  /\ addrs = [n \in Node |-> {}]
  /\ failed = 0

-----------------------------------------------------------------------------
(* PeerManager *)

\* AddPeer: an inactive peer of this id is overwritten, and stays counted.
AddPeer(n, m, p) ==
  /\ peers' = [peers EXCEPT ![n][m] = p]
  /\ inPeerNum' = IF p.type = "in" THEN [inPeerNum EXCEPT ![n] = @ + 1] ELSE inPeerNum
  /\ outPeerNum' = IF p.type = "out" THEN [outPeerNum EXCEPT ![n] = @ + 1] ELSE outPeerNum

\* Mutant of RemovePeers: incoming peers stay counted.
RemovePeersUncounted(n, D, rest) ==
  /\ peers' = [peers EXCEPT ![n] = [m \in Node |-> IF m \in D THEN NoPeer ELSE rest[m]]]
  /\ outPeerNum' = [outPeerNum EXCEPT ![n] = @ - Cardinality(D \cap OfType(n, "out"))]
  /\ UNCHANGED inPeerNum

\* RemovePeer for the peers of D; the table of the others is rest.
RemovePeers(n, D, rest) ==
  /\ peers' = [peers EXCEPT ![n] = [m \in Node |-> IF m \in D THEN NoPeer ELSE rest[m]]]
  /\ inPeerNum' = [inPeerNum EXCEPT ![n] = @ - Cardinality(D \cap OfType(n, "in"))]
  /\ outPeerNum' = [outPeerNum EXCEPT ![n] = @ - Cardinality(D \cap OfType(n, "out"))]

\* SendMsgToPeer to the peers of D with peer table P: dropped unless active.
SendMsgToPeers(C, P, n, D, msg) ==
  Sent(C, n, {ConnOf(n, P[m].dataSocket) : m \in {m \in D : P[m].dataSocket # NoFD}}, msg)

\* The process ends at a failed assertion or a null pointer.
Abort(n, why) == Stop(n, why, {}) /\ UNCHANGED << peers, inPeerNum, outPeerNum, addrs, failed >>

-----------------------------------------------------------------------------
(* The public API *)

\* ConnectPeer for a peer that is not active.
ConnectPeer(n, m) ==
  /\ m \notin Active(n)
  /\ ConnectSocket(n, m)
  /\ AddPeer(n, m, OutgoingPeer(FreeFD(n)))
  /\ UNCHANGED << status, addrs, failed >>

\* The socket a disconnect of m closes: the connecting one is abandoned.
SocketOfPeer(n, m) ==
  IF peers[n][m].tryConnect THEN peers[n][m].connSocket ELSE peers[n][m].dataSocket

\* Peers that neither connect nor have a data socket: their connect failed.
Lost(n) == Peers(n) \ (Active(n) \cup Trying(n))

\* Mutant of DisconnectPeers: a connecting socket is not abandoned.
DisconnectPeersConnecting(n, D, rest) ==
  /\ D \cap Lost(n) = {}
  /\ CloseSockets(n, {SocketOfPeer(n, m) : m \in D \ Trying(n)})
  /\ RemovePeers(n, D, rest)
  /\ UNCHANGED << status, addrs, failed >>

\* DisconnectPeer for all of D; the assertion that a peer which is not
\* connecting has a data socket ends the process.
DisconnectPeers(n, D, rest) ==
  /\ D \cap Lost(n) = {}
  /\ CloseSockets(n, {SocketOfPeer(n, m) : m \in D})
  /\ RemovePeers(n, D, rest)
  /\ UNCHANGED << status, addrs, failed >>
DisconnectAborts(n, D) == D \cap Lost(n) # {} /\ Abort(n, "noDataSocket")

\* The repository's programs connect to a neighbour once, so never to one that is
\* still connecting or whose connect failed.  ConnectPeer itself turns away active
\* peers only, and would overwrite the others.
ProgramConnects(n, m) ==
  /\ Running(n)
  /\ <<n, m>> \in Neighbors /\ m \notin Peers(n)
  /\ ConnectPeer(n, m)

ProgramDisconnects(n, m) ==
  /\ Running(n)
  /\ <<n, m>> \in Neighbors /\ m \in Peers(n)
  /\ DisconnectPeers(n, {m}, peers[n]) \/ DisconnectAborts(n, {m})

\* Shutdown: disconnect everybody and exit.
Shutdown(n) ==
  /\ Running(n) /\ n \in MayExit
  /\ \/ DisconnectAborts(n, Peers(n))
     \/ /\ Lost(n) = {}
        /\ Stop(n, "exited", {ConnOf(n, SocketOfPeer(n, m)) : m \in Peers(n)})
        /\ UNCHANGED << peers, inPeerNum, outPeerNum, addrs, failed >>

Exit(n) ==
  /\ Running(n) /\ n \in MayExit
  /\ Stop(n, "exited", {})
  /\ UNCHANGED << peers, inPeerNum, outPeerNum, addrs, failed >>

-----------------------------------------------------------------------------
(* Sockets *)

Accept(n, c) == AcceptHandler(n, c) /\ UNCHANGED << peers, inPeerNum, outPeerNum, addrs, failed >>

\* Mutant of Owners: some peer that is connecting.
OwnersTrying(n, fd) == Trying(n)

\* The peers that SocketConnectHandler may take for the owner of fd.
Owners(n, fd) == {m \in Peers(n) : peers[n][m].connSocket = fd}

\* ConnectHandler and SocketConnectHandler: the peer gets its data socket and
\* is introduced to this node (GETADDR has no effect at the other side).
SocketConnect(n, fd) ==
  /\ Running(n) /\ CanConnect(n, fd)
  /\ \E m \in Owners(n, fd) :
       LET P == [peers[n] EXCEPT ![m].tryConnect = FALSE, ![m].dataSocket = fd] IN
       /\ peers' = [peers EXCEPT ![n] = P]
       /\ conn' = Sent(conn, n, {ConnOf(n, fd)}, "notifyPeerId")
       /\ addrs' = [addrs EXCEPT ![n] = @ \cup {m}]
  /\ BecomesData(n, fd)
  /\ UNCHANGED << status, inPeerNum, outPeerNum, failed >>

\* SocketConnectHandler: no proper peer exists for the connected socket.
SocketConnectAborts(n, fd) ==
  /\ Running(n) /\ CanConnect(n, fd)
  /\ Owners(n, fd) = {}
  /\ Abort(n, "noProperPeer")

\* ConnectHandler with an error, ConnectFailedHandler, SocketConnectFailedHandler
\* and, for want of a break, SocketCloseHandler without a socket: it ends the
\* process as soon as some peer has a data socket.
ConnectFails(n, fd) ==
  /\ Running(n)
  /\ sock[n][fd].type = "connect"
  /\ ~CanConnect(n, fd)
SocketConnectFailed(n, fd) ==
  LET m == conn[ConnOf(n, fd)].to IN
  /\ ConnectFails(n, fd)
  /\ failed < MaxFailed
  /\ failed' = failed + 1
  /\ Active(n) = {}
  /\ CloseSockets(n, {fd})
  /\ peers' = [peers EXCEPT ![n][m].tryConnect = FALSE]
  /\ UNCHANGED << status, inPeerNum, outPeerNum, addrs >>
SocketConnectFailedAborts(n, fd) ==
  /\ ConnectFails(n, fd)
  /\ failed < MaxFailed
  /\ Active(n) # {}
  /\ Abort(n, IF conn[ConnOf(n, fd)].to \in Active(n) THEN "failedForValidPeer" ELSE "nullSocket")

\* Where reading SO_ERROR clears it, the callback of the watcher has already
\* taken the error when ConnectHandler asks: the socket counts as connected, and
\* the first read or write on it ends the process.
SocketConnectErrorMissed(n, fd) ==
  /\ ConnectFails(n, fd)
  /\ failed < MaxFailed
  /\ Abort(n, "ioError")

\* SocketCloseHandler: the peer of the closed socket, if any, is removed.
SocketClose(n, fd) ==
  /\ ReadsEndOfFile(n, fd)
  /\ CloseSockets(n, {fd})
  /\ LET D == {m \in Node : peers[n][m].dataSocket = fd} IN
     \/ D = {} /\ UNCHANGED peerVars
     \/ \E m \in D : RemovePeers(n, {m}, peers[n])
  /\ UNCHANGED << status, addrs, failed >>

-----------------------------------------------------------------------------
(* Messages *)

\* Mutant of PeerNotify: active peers are not looked up.
PeerNotifyAgain(n, fd) ==
  LET m == Far(ConnOf(n, fd), n) IN
  /\ Receives(n, fd, "notifyPeerId")
  /\ inPeerNum[n] < MaxIncoming
  /\ AddPeer(n, m, IncomingPeer(fd, NoFD))
  /\ conn' = Taken(n, fd)
  /\ UNCHANGED << sock, status, addrs, failed >>

\* PeerNotifyHandler: a connection of an active peer is left alone, one too
\* many is closed, any other becomes an incoming peer.
PeerNotify(n, fd) ==
  LET m == Far(ConnOf(n, fd), n) IN
  /\ Receives(n, fd, "notifyPeerId")
  /\ \/ /\ m \in Active(n)
        /\ conn' = Taken(n, fd)
        /\ UNCHANGED << sock, peerVars >>
     \/ /\ m \notin Active(n)
        /\ inPeerNum[n] >= MaxIncoming
        /\ CloseSockets(n, {fd})
        /\ UNCHANGED peerVars
     \/ /\ m \notin Active(n)
        /\ inPeerNum[n] < MaxIncoming
        /\ \E stale \in StaleFD : AddPeer(n, m, IncomingPeer(fd, stale))
        /\ conn' = Taken(n, fd)
        /\ UNCHANGED sock
  /\ UNCHANGED << status, addrs, failed >>

\* Mutant of RecvPing: the PONG goes back where the PING came from.
RecvPingSameSocket(n, fd) ==
  /\ Receives(n, fd, "PING")
  /\ conn' = Sent(Taken(n, fd), n, {ConnOf(n, fd)}, "PONG")
  /\ UNCHANGED << sock, status, peers, inPeerNum, outPeerNum, addrs, failed >>

\* RecvMsgHandler for PING: the PONG goes to the socket of the peer, which may
\* be another one, and nowhere if there is no such peer.
RecvPing(n, fd) ==
  /\ Receives(n, fd, "PING")
  /\ conn' = SendMsgToPeers(Taken(n, fd), peers[n], n, {Far(ConnOf(n, fd), n)}, "PONG")
  /\ UNCHANGED << sock, status, peers, inPeerNum, outPeerNum, addrs, failed >>

\* RecvMsgHandler for PONG: the peer is not checked.
RecvPong(n, fd) ==
  LET m == Far(ConnOf(n, fd), n) IN
  /\ Receives(n, fd, "PONG")
  /\ \/ /\ m \in Peers(n)
        /\ peers' = [peers EXCEPT ![n][m].pongReceived = TRUE]
        /\ conn' = Taken(n, fd)
        /\ UNCHANGED << sock, status, inPeerNum, outPeerNum, addrs, failed >>
     \/ m \notin Peers(n) /\ Abort(n, "noPeerForPong")

\* RecvMsgHandler for ADDR: every node advertises itself to those it connects
\* to, and addresses are relayed, so any address may arrive from anybody.
RecvAddr(n, m) ==
  /\ Running(n)
  /\ \E fd \in FD : sock[n][fd].type = "data"
  /\ m # n
  /\ addrs' = [addrs EXCEPT ![n] = @ \cup {m}]
  /\ UNCHANGED << sock, conn, status, peers, inPeerNum, outPeerNum, failed >>

-----------------------------------------------------------------------------
(* Timers *)

\* Every PING of n and its PONG were handled: a minute is longer than that.
PingPongDone(n) ==
  \A c \in DOMAIN conn : n \in {conn[c].from, conn[c].to} =>
    /\ \A i \in DOMAIN conn[c].stream[n] : conn[c].stream[n][i] # "PONG"
    /\ \A i \in DOMAIN conn[c].stream[Far(c, n)] : conn[c].stream[Far(c, n)][i] # "PING"

\* Mutant of Asked: the flags are not cleared.
AskedBefore(n) == peers[n]

\* The peer table after every peer was asked: the flag of a peer that is still
\* connecting, to which no PING goes, is cleared as well.
Asked(n) == [m \in Node |-> IF m \in Peers(n) THEN [peers[n][m] EXCEPT !.pongReceived = FALSE]
                                             ELSE NoPeer]

\* _pingtimerCallback: disconnect whoever did not answer, then ask the rest.
PingTimer(n) ==
  LET late == {m \in Peers(n) : ~peers[n][m].pongReceived}
      F == {SocketOfPeer(n, m) : m \in late}
  IN
  /\ Running(n) /\ Peers(n) # {} /\ PingPongDone(n)
  /\ \/ DisconnectAborts(n, late)
     \/ /\ late \cap Lost(n) = {}
        /\ conn' = SendMsgToPeers(Closed(conn, n, {ConnOf(n, fd) : fd \in F}), peers[n],
                                  n, Peers(n) \ late, "PING")
        /\ sock' = [sock EXCEPT ![n] = [fd \in FD |-> IF fd \in F THEN NoSocket ELSE @[fd]]]
        /\ RemovePeers(n, late, Asked(n))
        /\ UNCHANGED << status, addrs, failed >>

\* _timerCallback: connect to a known address that is no peer.
ConnectionTimer(n) ==
  /\ Running(n)
  /\ outPeerNum[n] < MaxOutgoing
  /\ \E m \in addrs[n] :
       \/ m \notin Peers(n) /\ ConnectPeer(n, m)
       \/ m \in Lost(n) /\ Abort(n, "toBeImplemented")

-----------------------------------------------------------------------------
Program(n) == \/ \E m \in Node : ProgramConnects(n, m) \/ ProgramDisconnects(n, m)
              \/ Shutdown(n) \/ Exit(n)
Connects(n) == \E fd \in FD : \/ SocketConnect(n, fd) \/ SocketConnectAborts(n, fd)
                              \/ SocketConnectFailed(n, fd) \/ SocketConnectFailedAborts(n, fd)
                              \/ SocketConnectErrorMissed(n, fd)
Accepts(n) == \E c \in DOMAIN conn : Accept(n, c)
Receive(n, fd) == \/ SocketClose(n, fd)
                  \/ PeerNotify(n, fd) \/ RecvPing(n, fd) \/ RecvPong(n, fd)
Hears(n) == \E m \in Node : RecvAddr(n, m)

Next == \E n \in Node :
          \/ Program(n) \/ Connects(n) \/ Accepts(n) \/ Hears(n)
          \/ \E fd \in FD : Receive(n, fd)
          \/ PingTimer(n) \/ ConnectionTimer(n)

Spec == Init /\ [][Next]_vars

\* The loop of MainEventManager serves every socket and the ping timer of a
\* running process.  Nothing forces the program or the peers it may learn of.
Fairness == \A n \in Node :
  /\ WF_vars(Connects(n)) /\ WF_vars(Accepts(n)) /\ WF_vars(PingTimer(n))
  /\ \A fd \in FD : WF_vars(Receive(n, fd))
FairSpec == Spec /\ Fairness

-----------------------------------------------------------------------------
(* Properties *)

PeerRecord == [type : {"none", "in", "out"}, connSocket : FD \cup StaleFD \cup {NoFD},
               tryConnect : BOOLEAN, dataSocket : FD \cup {NoFD}, pongReceived : BOOLEAN]
HowItEnds == {"running", "exited", "noDataSocket", "noProperPeer", "failedForValidPeer",
              "nullSocket", "ioError", "noPeerForPong", "toBeImplemented"}

\* Every variable has the type of the member it stands for.
TypeOK ==
  /\ sock \in [Node -> [FD -> [type : {"none", "connect", "data"}, conn : 0..MaxConn]]]
  /\ conn \in Seq([from : Node, to : Node, accepted : BOOLEAN, closed : SUBSET Node,
                    stream : [Node -> Seq({"notifyPeerId", "PING", "PONG"})]])
  /\ status \in [Node -> HowItEnds]
  /\ peers \in [Node -> [Node -> PeerRecord]]
  /\ inPeerNum \in [Node -> Int] /\ outPeerNum \in [Node -> Int]
  /\ addrs \in [Node -> SUBSET Node]
  /\ failed \in 0..MaxFailed

\* PeerManager.cpp:40,43 ("wrong peernum"): whatever overwrites and removes
\* peers, the incoming counter is the number of incoming peers, within its
\* limit, and the outgoing one is never too low.
CountersAgree ==
  \A n \in Node :
    /\ inPeerNum[n] = Cardinality(OfType(n, "in"))
    /\ inPeerNum[n] <= MaxIncoming
    /\ outPeerNum[n] >= Cardinality(OfType(n, "out"))

\* A peer is the owner of a connect socket by its number.  A failed connect
\* leaves a peer with a number that is used again, and the number of an incoming
\* peer is any: so far neither has happened, or can.
OwnersCertain == failed = 0 /\ StaleFD \cap FD = {}

\* SocketConnectHandler assigns "a given (valid) datasocket": the data socket of
\* a peer is open, is a connection with that peer and with no other.
SocketOfItsPeer ==
  \A n \in Node : Running(n) /\ OwnersCertain =>
    \A m \in Active(n) :
      /\ sock[n][peers[n][m].dataSocket].type = "data"
      /\ Far(ConnOf(n, peers[n][m].dataSocket), n) = m

\* A node that turns a connection away has as many incoming peers as it may
\* have (PeerConnectivityLayer_API.cpp:251: "Check whether the number of
\* incoming connection exceeds the limit").
TurnedAwayWhenFull ==
  [][\A n \in Node : \A fd \in FD :
       PeerNotify(n, fd) /\ sock'[n][fd] = NoSocket
         => Cardinality(OfType(n, "in")) >= MaxIncoming]_vars

\* SocketConnectHandler:66: whoever connects has a peer for the socket.
ConnectedSocketHasPeer == \A n \in Node : status[n] # "noProperPeer"

\* SocketConnectHandler:66 ends a process only if two nodes connected to each
\* other, and so does RecvMsgHandler:230 (a PONG of a peer that is no longer
\* there) as long as the owners are certain; DisconnectPeer:350 ("valid peer
\* should have valid data socket") and _timerCallback:116 ("when it is happened?")
\* only after a failed connect: disconnects, reconnects, ignored introductions and
\* lost ends do not suffice.
Dialed(n, m) == \E c \in DOMAIN conn : conn[c].from = n /\ conn[c].to = m
AbortExplained ==
  \A n \in Node :
    /\ status[n] = "noProperPeer" => \E m \in Node : Dialed(n, m) /\ Dialed(m, n)
    /\ status[n] = "noPeerForPong" /\ OwnersCertain =>
         \E m \in Node : Dialed(n, m) /\ Dialed(m, n)
    /\ status[n] \in {"noDataSocket", "toBeImplemented"} => failed > 0

\* The ping timer (PeerConnectivityLayer_API.h:74, "ping-pong did not worked for
\* this peer") disconnects nobody that answers: not an incoming peer that runs and
\* has the same connection for its own, as long as the owners are certain.  (An
\* outgoing one that was still connecting at the last tick got no PING, and is
\* disconnected; so may be an incoming one that was given the socket of a connect.)
Healthy(n, m) ==
  /\ Running(n) /\ Running(m)
  /\ m \in Active(n) /\ n \in Active(m)
  /\ ConnOf(n, peers[n][m].dataSocket) = ConnOf(m, peers[m][n].dataSocket)
AnsweringPeerKept ==
  [][\A n, m \in Node :
       Healthy(n, m) /\ peers[n][m].type = "in" /\ OwnersCertain /\ peers'[n][m] = NoPeer
         => ~PingTimer(n)]_vars

\* A peer whose process is gone leaves the table, also when its sockets were
\* never closed: the ping timer finds it.
DeadPeerDropped ==
  \A n, m \in Node :
    (m \in Active(n) /\ ~Running(m)) ~> (m \notin Active(n) \/ ~Running(n))

\* Once there are no more connects (MaxConn), two running nodes agree for good
\* whether they are peers: an introduction that was ignored, or an end that
\* was turned away, is noticed.
PeersAgree ==
  <>[](\A n, m \in Node : Running(n) /\ Running(m) =>
         (m \in Active(n) <=> n \in Active(m)))
=============================================================================
