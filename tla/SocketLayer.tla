------------------------------ MODULE SocketLayer ------------------------------
(***************************************************************************)
(* BL1_socket: the descriptors of every node and the TCP connections       *)
(* between them.  The operators are the calls and handlers of              *)
(* BL_SocketLayer_API; PeerConnectivity completes them to actions.         *)
(*                                                                         *)
(* A connection is known by its number, a descriptor is the lowest free    *)
(* one of its process (so it is used again).  A message is its type, its   *)
(* source the node that sent it.  What the kernel does is external: data   *)
(* arrives in order, a closed end is seen by the other one as end of file. *)
(* A message still in _sendBuff when its socket is destroyed is lost, so a *)
(* reader may meet the end of file before messages that were under way.    *)
(***************************************************************************)
EXTENDS Integers, Sequences, FiniteSets

CONSTANTS Node,
          MaxConn        \* bound: connections opened in a behaviour

ASSUME SocketAssumption == MaxConn \in Nat \ {0}

VARIABLES sock,          \* sock[n][fd]: _connectSockets and _dataSockets
          conn,          \* the connections ever opened
          status         \* status[n]: "running", or how the process ended

socketVars == << sock, conn, status >>

FD == 1..MaxConn
NoFD == 0                \* a null std::shared_ptr<DataSocket>
NoSocket == [type |-> "none", conn |-> 0]
Running(n) == status[n] = "running"

SocketInit ==
  /\ sock = [n \in Node |-> [fd \in FD |-> NoSocket]]
  /\ conn = << >>
  /\ status = [n \in Node |-> "running"]

Far(c, n) == IF conn[c].from = n THEN conn[c].to ELSE conn[c].from
ConnOf(n, fd) == sock[n][fd].conn
FreeFD(n) == CHOOSE fd \in FD : /\ sock[n][fd] = NoSocket
                                /\ \A g \in FD : sock[n][g] = NoSocket => fd <= g

\* CreateNonblockConnectSocket: the descriptor is FreeFD(n).
ConnectSocket(n, m) ==
  /\ Len(conn) < MaxConn
  /\ conn' = Append(conn, [from |-> n, to |-> m, accepted |-> FALSE, closed |-> {},
                           stream |-> [x \in Node |-> << >>]])
  /\ sock' = [sock EXCEPT ![n][FreeFD(n)] = [type |-> "connect", conn |-> Len(conn) + 1]]

\* The first half of ConnectHandler without an error: the connect socket gives
\* way to a data socket with the same descriptor.
CanConnect(n, fd) ==
  /\ sock[n][fd].type = "connect"
  /\ Running(conn[ConnOf(n, fd)].to) \/ conn[ConnOf(n, fd)].accepted
BecomesData(n, fd) == sock' = [sock EXCEPT ![n][fd].type = "data"]

\* AcceptHandler: a data socket for a connection that waits in the backlog.
AcceptHandler(n, c) ==
  /\ Running(n)
  /\ conn[c].to = n /\ ~conn[c].accepted
  /\ conn' = [conn EXCEPT ![c].accepted = TRUE]
  /\ sock' = [sock EXCEPT ![n][FreeFD(n)] = [type |-> "data", conn |-> c]]
  /\ UNCHANGED status

\* The connections of table C after n sent msg on those of L: it is lost when
\* the other end is closed or its process is gone.
Sent(C, n, L, msg) ==
  [c \in DOMAIN C |->
     IF c \in L /\ Far(c, n) \notin C[c].closed /\ Running(Far(c, n))
     THEN [C[c] EXCEPT !.stream[Far(c, n)] = Append(@, msg)]
     ELSE C[c]]

\* The connections of table C after n closed its ends of those in L.
Closed(C, n, L) ==
  [c \in DOMAIN C |->
     IF c \in L THEN [C[c] EXCEPT !.closed = @ \cup {n}, !.stream[n] = << >>]
     ELSE C[c]]

\* DisconnectSocket, AbandonConnectSocket: n closes the descriptors of F.
CloseSockets(n, F) ==
  /\ conn' = Closed(conn, n, {ConnOf(n, fd) : fd \in F})
  /\ sock' = [sock EXCEPT ![n] = [fd \in FD |-> IF fd \in F THEN NoSocket ELSE @[fd]]]

\* RecvHandler: the next message on fd is msg.
Receives(n, fd, msg) ==
  /\ Running(n)
  /\ sock[n][fd].type = "data"
  /\ conn[ConnOf(n, fd)].stream[n] # << >>
  /\ Head(conn[ConnOf(n, fd)].stream[n]) = msg
Taken(n, fd) == [conn EXCEPT ![ConnOf(n, fd)].stream[n] = Tail(@)]

\* RecvHandler: recv returns 0.
ReadsEndOfFile(n, fd) ==
  /\ Running(n)
  /\ sock[n][fd].type = "data"
  /\ Far(ConnOf(n, fd), n) \in conn[ConnOf(n, fd)].closed

\* The process of n ends.  Of its open connections those in must are closed; of
\* the others the kernel closes any ("exit doesn't close socket" in Shadow), the
\* rest is silent for ever.
Stop(n, why, must) ==
  LET open == {ConnOf(n, fd) : fd \in {fd \in FD : sock[n][fd] # NoSocket}} IN
  /\ status' = [status EXCEPT ![n] = why]
  /\ \E L \in SUBSET open :
       /\ must \subseteq L
       /\ conn' = [c \in DOMAIN conn |-> [Closed(conn, n, L)[c] EXCEPT !.stream[n] = << >>]]
  /\ UNCHANGED sock
=============================================================================
