------------------------------ MODULE PeerLinks ------------------------------
(***************************************************************************)
(* The service of the peer connectivity layer (BL2) as the protocol layer  *)
(* (BL3) sees it: GetNeighborPeerIds, SendMsgToPeer and the                *)
(* ProtocolRecvMsg events.  A connection is a TCP stream, so each          *)
(* direction is a FIFO queue; it also stands for the receive buffer and    *)
(* the event queue of the receiver, which keep the order.                  *)
(*                                                                         *)
(* The two ends learn of a connection, and of its loss, at different       *)
(* times.  After one end dropped its peer the other may still send: what   *)
(* it sends stays in the queue until its own end is dropped.               *)
(***************************************************************************)
EXTENDS Naturals, Sequences

CONSTANTS Node,         \* the peers
          Link,         \* the pairs <<a, b>> for which a connects to b
          UpLink,       \* those already connected at the start
          MaxLinkDown   \* bound: how often an end of a connection is dropped

ASSUME LinkAssumption ==
  /\ Link \subseteq {l \in Node \X Node : l[1] # l[2]}
  /\ UpLink \subseteq Link
  /\ MaxLinkDown \in Nat

VARIABLES nbr,          \* nbr[n]: the active peers of n
          chan,         \* chan[<<a, b>>]: messages from a that b has not handled
          linkDowns     \* ends dropped so far (for the bound)

linkVars == << nbr, chan, linkDowns >>

LinkMessage == [type : {"notifyPeerId"}]

LinkInit ==
  /\ nbr = [n \in Node |-> {m \in Node : <<n, m>> \in UpLink \/ <<m, n>> \in UpLink}]
  /\ chan = [l \in Node \X Node |-> << >>]
  /\ linkDowns = 0

\* The oldest message from s that n has not handled is of this type.
HasMsg(s, n, type) == chan[<<s, n>>] # << >> /\ Head(chan[<<s, n>>]).type = type

\* The channels after n took the head message of s.
Taken(s, n) == [chan EXCEPT ![<<s, n>>] = Tail(@)]

\* The channels ch after n put m into those to D.
Put(ch, n, D, m) ==
  [l \in Node \X Node |-> IF l[1] = n /\ l[2] \in D THEN Append(ch[l], m) ELSE ch[l]]

\* SendMsgToPeer to every peer of D: dropped for a peer that is not active.
Sent(ch, n, D, m) == Put(ch, n, D \cap nbr[n], m)

\* SocketConnectHandler: m accepted the connection of n.  It is active at n,
\* whose first message introduces n to m.
LinkUp(n, m) ==
  /\ <<n, m>> \in Link
  /\ m \notin nbr[n]
  /\ nbr' = [nbr EXCEPT ![n] = @ \cup {m}]
  /\ chan' = Put(chan, n, {m}, [type |-> "notifyPeerId"])
  /\ UNCHANGED linkDowns

\* PeerNotifyHandler: the connection is active at n too (if n is connected with
\* s already the new connection is ignored).
LinkNotify(n, s) ==
  /\ HasMsg(s, n, "notifyPeerId")
  /\ nbr' = [nbr EXCEPT ![n] = @ \cup {s}]
  /\ chan' = Taken(s, n)
  /\ UNCHANGED linkDowns

\* SocketCloseHandler, DisconnectPeer: n drops its peer m.  Of the messages
\* under way a prefix has already been read or will still arrive, the rest is
\* gone.
LinkDown(n, m) ==
  /\ <<n, m>> \in Link \/ <<m, n>> \in Link
  /\ m \in nbr[n]
  /\ linkDowns < MaxLinkDown
  /\ linkDowns' = linkDowns + 1
  /\ nbr' = [nbr EXCEPT ![n] = @ \ {m}]
  /\ \E i \in 0..Len(chan[<<n, m>>]), j \in 0..Len(chan[<<m, n>>]) :
       chan' = [chan EXCEPT ![<<n, m>>] = SubSeq(@, 1, i),
                            ![<<m, n>>] = SubSeq(@, 1, j)]
=============================================================================
