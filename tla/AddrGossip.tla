------------------------------ MODULE AddrGossip ------------------------------
(***************************************************************************)
(* AddrManager, AdvertisementManager and what BL_PeerConnectivityLayer_API *)
(* does with them: how the addresses of nodes spread over connections, and *)
(* how known addresses become connections.                                 *)
(*                                                                         *)
(* An address is a node.  A vector of addresses is a set: which of two     *)
(* addresses for one slot comes first is left open.  GETADDR, which is     *)
(* never answered, is left out, and so are failing connects and two nodes  *)
(* that connect to each other at once (PeerConnectivity).                  *)
(***************************************************************************)
EXTENDS PeerLinks, FiniteSets

CONSTANTS Slot,          \* Slot[a]: GetNewBucket and GetBucketPosition of a
          Neighbors,     \* the pairs <<n, m>>: n connects to m on its own
          MaxRelayed     \* the largest ADDR message that is relayed (10)

ASSUME AddrAssumption ==
  /\ Slot \in [Node -> Nat]
  /\ Neighbors \subseteq Link
  /\ MaxRelayed \in Nat

VARIABLES tryConnect,    \* tryConnect[n]: the peers n is connecting to
          addrs,         \* addrs[n]: AddrManager::mapAddr
          addrToSend,    \* addrToSend[n][m]: _addrToSend
          addrKnown,     \* addrKnown[n][m]: _addrKnown
          dialed,        \* history: <<n, m>> once n has connected to m
          interrupted    \* history: <<n, m>> once n had no connection for what
                         \* it had to send to m, or either lost theirs

vars == << linkVars, tryConnect, addrs, addrToSend, addrKnown, dialed, interrupted >>

Peers(n) == nbr[n] \cup tryConnect[n]
Nobody == [m \in Node |-> {}]

Init ==
  /\ LinkInit
  /\ tryConnect = [n \in Node |-> {}]
  /\ addrs = [n \in Node |-> {}]
  /\ addrToSend = [n \in Node |-> Nobody]
  /\ addrKnown = [n \in Node |-> Nobody]
  /\ dialed = UpLink /\ interrupted = {}

-----------------------------------------------------------------------------
(* AddrManager *)

SlotTaken(n, a) == \E b \in addrs[n] : Slot[b] = Slot[a]
OnePerSlot(S) == \A a, b \in S : Slot[a] = Slot[b] => a = b

\* What Add may insert for the addresses of A: the first one for every slot that
\* is free.  Nothing is replaced.
Insertions(n, A) ==
  LET free == {a \in A : ~SlotTaken(n, a)} IN
  {K \in SUBSET free : OnePerSlot(K) /\ \A a \in free : \E b \in K : Slot[b] = Slot[a]}

-----------------------------------------------------------------------------
(* Connections *)

\* ConnectPeer, for a node that is not about to connect to n itself.
ConnectPeer(n, m) ==
  /\ <<n, m>> \in Link
  /\ m \notin Peers(n)
  /\ n \notin tryConnect[m] /\ ~HasMsg(m, n, "notifyPeerId")
  /\ tryConnect' = [tryConnect EXCEPT ![n] = @ \cup {m}]
  /\ UNCHANGED << linkVars, addrs, addrToSend, addrKnown, dialed, interrupted >>

ProgramConnects(n, m) == <<n, m>> \in Neighbors /\ ConnectPeer(n, m)

\* _timerCallback: SelectAddressFromTable.  Its copy of the random generator gives
\* the same address in all ten trials.
ConnectionTimer(n) == \E m \in addrs[n] : ConnectPeer(n, m)

\* AdvertiseLocal: _addrKnown does not learn of it.
AdvertiseLocal(n, m) == [addrToSend EXCEPT ![n][m] = @ \cup {n}]

\* SocketConnectHandler: introduce this node, add the address of the other, and
\* reserve an advertisement of this one.
SocketConnectHandler(n, m) ==
  /\ m \in tryConnect[n]
  /\ LinkUp(n, m)
  /\ tryConnect' = [tryConnect EXCEPT ![n] = @ \ {m}]
  /\ \E K \in Insertions(n, {m}) : addrs' = [addrs EXCEPT ![n] = @ \cup K]
  /\ addrToSend' = AdvertiseLocal(n, m)
  /\ dialed' = dialed \cup {<<n, m>>}
  /\ UNCHANGED << addrKnown, interrupted >>

PeerNotifyHandler(n, s) ==
  /\ LinkNotify(n, s)
  /\ UNCHANGED << tryConnect, addrs, addrToSend, addrKnown, dialed, interrupted >>

\* SocketCloseHandler, DisconnectPeer.
PeerLost(n, m) ==
  /\ LinkDown(n, m)
  /\ interrupted' = interrupted \cup {<<n, m>>, <<m, n>>}
  /\ UNCHANGED << tryConnect, addrs, addrToSend, addrKnown, dialed >>

-----------------------------------------------------------------------------
(* Advertisements *)

\* Mutant of Learned: it is not noted who was told what.
LearnedNothing(n, D, A) == addrKnown

\* PushAddr of the addresses A for the peers D: what each of them is to be sent,
\* and what it is taken to know from then on.
Pushed(n, D, A) ==
  [addrToSend EXCEPT ![n] = [m \in Node |->
     IF m \in D THEN @[m] \cup (A \ addrKnown[n][m]) ELSE @[m]]]
Learned(n, D, A) ==
  [addrKnown EXCEPT ![n] = [m \in Node |-> IF m \in D THEN @[m] \cup A ELSE @[m]]]

\* The peers that one or two draws may give, and that did not send the message.
\* The generator is copied for every address: all get the same draws.
Relayees(n, s) == {D \ {s} : D \in {D \in SUBSET Peers(n) : Cardinality(D) \in {1, 2}}}

\* Mutant of Fresh: the own address counts too.
FreshWithOwn(n, A) == A
Fresh(n, A) == A \ {n}

\* RecvMsgHandler for ADDR.  The sender's own address may be listed more than
\* once, and make a message too long to be relayed.
RecvAddr(n, s) ==
  LET A == Head(chan[<<s, n>>]).addrs IN
  /\ HasMsg(s, n, "ADDR")
  /\ s \in nbr[n]
  /\ \E K \in Insertions(n, Fresh(n, A)) : addrs' = [addrs EXCEPT ![n] = @ \cup K]
  /\ \/ /\ Cardinality(A) <= MaxRelayed
        /\ \E D \in Relayees(n, s) : /\ addrToSend' = Pushed(n, D, A)
                                     /\ addrKnown' = Learned(n, D, A)
     \/ /\ Cardinality(A) > MaxRelayed \/ s \in A
        /\ UNCHANGED << addrToSend, addrKnown >>
  /\ chan' = Taken(s, n)
  /\ UNCHANGED << nbr, linkDowns, tryConnect, dialed, interrupted >>

\* What was sent on a connection that n dropped is never read.
Unread(n, s) ==
  /\ HasMsg(s, n, "ADDR")
  /\ s \notin nbr[n]
  /\ chan' = Taken(s, n)
  /\ UNCHANGED << nbr, linkDowns, tryConnect, addrs, addrToSend, addrKnown, dialed,
                  interrupted >>

Dests(n) == {m \in Node : addrToSend[n][m] # {}}

\* Mutant of Advertised: only one peer is sent its message.
AdvertisedFirst(n) ==
  LET m == CHOOSE m \in Dests(n) : TRUE IN
  Sent(chan, n, {m}, [type |-> "ADDR", addrs |-> addrToSend[n][m]])

\* An ADDR message of its own for everybody.
Advertised(n) ==
  [l \in Node \X Node |->
     IF l[1] = n /\ l[2] \in Dests(n) \cap nbr[n]
     THEN Append(chan[l], [type |-> "ADDR", addrs |-> addrToSend[n][l[2]]]) ELSE chan[l]]

\* SendAdToPeers: send everything and forget it, also what is for a peer that is
\* not active.
SendAdToPeers(n) ==
  /\ Dests(n) # {}
  /\ chan' = Advertised(n)
  /\ interrupted' = interrupted \cup {<<n, m>> : m \in Dests(n) \ nbr[n]}
  /\ addrToSend' = [addrToSend EXCEPT ![n] = Nobody]
  /\ UNCHANGED << nbr, linkDowns, tryConnect, addrs, addrKnown, dialed >>

-----------------------------------------------------------------------------
Receive(n, s) == PeerNotifyHandler(n, s) \/ RecvAddr(n, s) \/ Unread(n, s)

Next ==
  \/ \E n \in Node : ConnectionTimer(n) \/ SendAdToPeers(n)
  \/ \E n, m \in Node :
       \/ ProgramConnects(n, m) \/ SocketConnectHandler(n, m)
       \/ Receive(n, m) \/ PeerLost(n, m)

Spec == Init /\ [][Next]_vars

\* The advertisement timer is periodic, connects to running nodes succeed, and
\* the event loop gets to every message.  Nobody has to connect.
Fairness ==
  /\ \A n \in Node : WF_vars(SendAdToPeers(n))
  /\ \A n, m \in Node : WF_vars(SocketConnectHandler(n, m)) /\ WF_vars(Receive(n, m))
FairSpec == Spec /\ Fairness

-----------------------------------------------------------------------------
(* Properties *)

AddrMessage == [type : {"ADDR"}, addrs : SUBSET Node]

\* Every variable has the type of the member it stands for.
TypeOK ==
  /\ nbr \in [Node -> SUBSET Node]
  /\ chan \in [Node \X Node -> Seq(LinkMessage \cup AddrMessage)]
  /\ linkDowns \in Nat
  /\ tryConnect \in [Node -> SUBSET Node]
  /\ addrs \in [Node -> SUBSET Node]
  /\ addrToSend \in [Node -> [Node -> SUBSET Node]]
  /\ addrKnown \in [Node -> [Node -> SUBSET Node]]
  /\ dialed \subseteq Node \X Node /\ interrupted \subseteq Node \X Node

\* Carried(s, n): the addresses on the way from s to n.
Carried(s, n) ==
  UNION {chan[<<s, n>>][i].addrs : i \in {i \in DOMAIN chan[<<s, n>>] : chan[<<s, n>>][i].type = "ADDR"}}

\* A table fits its buckets, and no node ever connects to itself: its own address,
\* which comes back to it with the gossip, is not in its table (AddrManager::Add,
\* PeerConnectivityLayer_API.cpp:193).
TableOfOthers == \A n \in Node : n \notin addrs[n] /\ OnePerSlot(addrs[n])

\* Only who connects to somebody becomes known to others than those who connect
\* to him: an outgoing connection is advertised, its other end is not.
OnlyDialersSpread ==
  \A n \in Node : \A a \in addrs[n] : <<n, a>> \in dialed \/ \E m \in Node : <<a, m>> \in dialed

\* What m is taken to know it was told, or will be: _addrKnown keeps nothing from m
\* unless a connection was lost or was not there yet when it was to be sent.
ToldWhatItKnows ==
  \A n, m \in Node : \A a \in addrKnown[n][m] :
    \/ a \in addrToSend[n][m] \/ a \in Carried(n, m)
    \/ a = m \/ SlotTaken(m, a)
    \/ <<n, m>> \in interrupted

\* A node is known to whom it connected, if there is room in the table and the
\* connection lasts.
OwnAddressArrives ==
  \A n, m \in Node : <<n, m>> \in dialed ~> SlotTaken(m, n) \/ <<n, m>> \in interrupted

\* The relaying of addresses comes to an end, in cycles too.
AdvertisingQuiets ==
  <>[](\A n \in Node : Dests(n) = {} /\ \A m \in Node : Carried(n, m) = {})
=============================================================================
