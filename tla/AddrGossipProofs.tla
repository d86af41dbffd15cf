--------------------------- MODULE AddrGossipProofs ---------------------------
(***************************************************************************)
(* Theorems about AddrGossip, for every set of nodes, links, tables and    *)
(* losses.                                                                 *)
(***************************************************************************)
EXTENDS AddrGossip, PeerLinksProofs

Message == LinkMessage \cup AddrMessage

\* Who ever connected to somebody.
Dialers == {a \in Node : \E m \in Node : <<a, m>> \in dialed}

\* Whatever is under way, or about to be sent, is the address of a dialer.
AdvertisedDialers ==
  /\ \A p, q \in Node : \A x \in ToSet(chan[<<p, q>>]) : x.type = "ADDR" => x.addrs \subseteq Dialers
  /\ \A n, m \in Node : addrToSend[n][m] \subseteq Dialers

\* The inductive invariant behind TableOfOthers and OnlyDialersSpread.
TableInv == TypeOK /\ TableOfOthers /\ OnlyDialersSpread /\ AdvertisedDialers

-----------------------------------------------------------------------------
\* Messages.

\* The messages of the model, and what an ADDR message carries.
LEMMA MessageTypes ==
  /\ [type |-> "notifyPeerId"] \in Message
  /\ \A A \in SUBSET Node : [type |-> "ADDR", addrs |-> A] \in Message
  /\ \A x \in Message : x.type = "ADDR" => x.addrs \in SUBSET Node
BY DEF Message, LinkMessage, AddrMessage

\* The type invariant says what travels on the channels.
LEMMA TypedChannels == TypeOK => chan \in Channels(Message)
BY DEF TypeOK, Message, Channels

\* An ADDR message a handler takes carries addresses of nodes.
LEMMA ReceivedAddresses ==
  ASSUME TypeOK, NEW n \in Node, NEW s \in Node, HasMsg(s, n, "ADDR")
  PROVE  /\ chan[<<s, n>>] # << >>
         /\ Head(chan[<<s, n>>]) \in ToSet(chan[<<s, n>>])
         /\ Head(chan[<<s, n>>]).type = "ADDR"
         /\ Head(chan[<<s, n>>]).addrs \in SUBSET Node
<1>1. chan[<<s, n>>] # << >> /\ Head(chan[<<s, n>>]).type = "ADDR" BY DEF HasMsg
<1>2. Head(chan[<<s, n>>]) \in Message /\ Head(chan[<<s, n>>]) \in ToSet(chan[<<s, n>>])
  BY <1>1, TypedChannels, TakenMessages
<1> QED BY <1>1, <1>2, MessageTypes

\* SendAdToPeers appends to each channel at most what was reserved for it.
LEMMA AdvertisedMessages ==
  ASSUME TypeOK, NEW n \in Node
  PROVE  /\ Advertised(n) \in Channels(Message)
         /\ \A p, q \in Node :
              IF p = n /\ q \in Dests(n) \cap nbr[n]
              THEN Advertised(n)[<<p, q>>]
                     = Append(chan[<<p, q>>], [type |-> "ADDR", addrs |-> addrToSend[p][q]])
              ELSE Advertised(n)[<<p, q>>] = chan[<<p, q>>]
         /\ \A p, q \in Node : \A x \in ToSet(Advertised(n)[<<p, q>>]) :
              \/ x \in ToSet(chan[<<p, q>>])
              \/ x = [type |-> "ADDR", addrs |-> addrToSend[p][q]]
<1> DEFINE D == Dests(n) \cap nbr[n]
           v(q) == [type |-> "ADDR", addrs |-> addrToSend[n][q]]
           S == Advertised(n)
<1>1. chan \in Channels(Message) BY TypedChannels
<1>2. \A q \in Node : addrToSend[n][q] \in SUBSET Node BY DEF TypeOK
<1>3. \A q \in Node : v(q) \in Message BY <1>2, MessageTypes
<1>4. /\ S = [l \in Node \X Node |-> IF l[1] = n /\ l[2] \in D THEN Append(chan[l], v(l[2])) ELSE chan[l]]
      /\ \A p, q \in Node : S[<<p, q>>] = IF p = n /\ q \in D THEN Append(chan[<<p, q>>], v(q))
                                                               ELSE chan[<<p, q>>]
  BY DEF Advertised
<1>5. \A l \in Node \X Node : S[l] \in Seq(Message)
  <2> SUFFICES ASSUME NEW p \in Node, NEW q \in Node PROVE S[<<p, q>>] \in Seq(Message) OBVIOUS
  <2>1. chan[<<p, q>>] \in Seq(Message) BY <1>1 DEF Channels
  <2>2. v(q) \in Message BY <1>3
  <2> HIDE DEF v, D, S
  <2>3. Append(chan[<<p, q>>], v(q)) \in Seq(Message) BY <2>1, <2>2, AppendProperties
  <2> QED BY <1>4, <2>1, <2>3
<1>6. ASSUME NEW p \in Node, NEW q \in Node, NEW x \in ToSet(S[<<p, q>>])
      PROVE  x \in ToSet(chan[<<p, q>>]) \/ x = [type |-> "ADDR", addrs |-> addrToSend[p][q]]
  <2>1. CASE p = n /\ q \in D
    <3>1. PICK m \in Message : m = v(q) BY <1>3
    <3>2. Put(chan, n, {q}, m)[<<p, q>>] = Append(chan[<<p, q>>], m) BY <2>1 DEF Put
    <3>3. S[<<p, q>>] = Put(chan, n, {q}, m)[<<p, q>>]
      <4> HIDE DEF v, D, S
      <4> QED BY <1>4, <2>1, <3>1, <3>2
    <3>4. x \in ToSet(chan[<<p, q>>]) \/ x = m
      <4> HIDE DEF v, D, S
      <4> QED BY <1>1, <1>6, <3>3, PutMessages
    <3> QED BY <2>1, <3>1, <3>4
  <2>2. CASE ~(p = n /\ q \in D)
    <3> HIDE DEF v, D, S
    <3> QED BY <1>4, <1>6, <2>2
  <2> QED BY <2>1, <2>2
<1>7. S \in Channels(Message)
  <2> HIDE DEF v, D
  <2> QED BY <1>4, <1>5 DEF Channels
<1> QED BY <1>4, <1>6, <1>7

\* What a step puts into a channel: an introduction, or what was reserved for it.
LEMMA ChannelStep ==
  ASSUME TypeOK, [Next]_vars
  PROVE  /\ chan' \in Channels(Message)
         /\ \A p, q \in Node : \A x \in ToSet(chan'[<<p, q>>]) :
              \/ x \in ToSet(chan[<<p, q>>])
              \/ x.type = "notifyPeerId"
              \/ x = [type |-> "ADDR", addrs |-> addrToSend[p][q]]
<1> DEFINE Good ==
             /\ chan' \in Channels(Message)
             /\ \A p, q \in Node : \A x \in ToSet(chan'[<<p, q>>]) :
                  \/ x \in ToSet(chan[<<p, q>>])
                  \/ x.type = "notifyPeerId"
                  \/ x = [type |-> "ADDR", addrs |-> addrToSend[p][q]]
<1>1. chan \in Channels(Message) BY TypedChannels
<1>2. CASE UNCHANGED chan BY <1>1, <1>2
<1>3. CASE UNCHANGED vars BY <1>2, <1>3 DEF vars, linkVars
<1>4. ASSUME NEW n \in Node, ConnectionTimer(n) PROVE Good
  BY <1>2, <1>4 DEF ConnectionTimer, ConnectPeer, linkVars
<1>5. ASSUME NEW n \in Node, SendAdToPeers(n) PROVE Good
  BY <1>5, AdvertisedMessages DEF SendAdToPeers
<1>6. ASSUME NEW n \in Node, NEW m \in Node, ProgramConnects(n, m) PROVE Good
  BY <1>2, <1>6 DEF ProgramConnects, ConnectPeer, linkVars
<1>7. ASSUME NEW n \in Node, NEW m \in Node, SocketConnectHandler(n, m) PROVE Good
  <2>1. PICK v \in Message : v = [type |-> "notifyPeerId"] BY MessageTypes
  <2>2. chan' = Put(chan, n, {m}, v) BY <1>7, <2>1 DEF SocketConnectHandler, LinkUp
  <2>3. /\ chan' \in Channels(Message)
        /\ \A p, q \in Node : \A x \in ToSet(chan'[<<p, q>>]) :
             x \in ToSet(chan[<<p, q>>]) \/ (p = n /\ q \in {m} /\ x = v)
    BY <1>1, <2>2, PutMessages
  <2> QED BY <2>1, <2>3
<1>8. ASSUME NEW n \in Node, NEW s \in Node, Receive(n, s) PROVE Good
  <2>1. chan[<<s, n>>] # << >> /\ chan' = Taken(s, n)
    BY <1>8 DEF Receive, PeerNotifyHandler, LinkNotify, RecvAddr, Unread, HasMsg
  <2> QED BY <1>1, <2>1, TakenMessages
<1>9. ASSUME NEW n \in Node, NEW m \in Node, PeerLost(n, m) PROVE Good
  BY <1>1, <1>9, DownMessages DEF PeerLost
<1> QED BY <1>3, <1>4, <1>5, <1>6, <1>7, <1>8, <1>9 DEF Next

-----------------------------------------------------------------------------
\* Tables and lists.

\* A table grows by addresses of others, of which the node dialled one or which
\* came in a message.
LEMMA TableStep ==
  ASSUME TypeOK, AdvertisedDialers, [Next]_vars, NEW n \in Node
  PROVE  \/ addrs'[n] = addrs[n]
         \/ \E A \in SUBSET Node : \E K \in Insertions(n, A) :
              /\ addrs'[n] = addrs[n] \cup K
              /\ n \notin A
              /\ \A a \in A : <<n, a>> \in dialed' \/ a \in Dialers
<1> DEFINE Good ==
             \/ addrs'[n] = addrs[n]
             \/ \E A \in SUBSET Node : \E K \in Insertions(n, A) :
                  /\ addrs'[n] = addrs[n] \cup K
                  /\ n \notin A
                  /\ \A a \in A : <<n, a>> \in dialed' \/ a \in Dialers
<1>1. addrs \in [Node -> SUBSET Node] BY DEF TypeOK
<1>2. CASE UNCHANGED addrs BY <1>2
<1>3. ASSUME NEW p \in Node, NEW m \in Node, SocketConnectHandler(p, m) PROVE Good
  <2>1. /\ p # m /\ <<p, m>> \in dialed'
        /\ \E K \in Insertions(p, {m}) : addrs' = [addrs EXCEPT ![p] = addrs[p] \cup K]
    BY <1>3, LinkAssumption DEF SocketConnectHandler, LinkUp
  <2>2. PICK K \in Insertions(p, {m}) : addrs' = [addrs EXCEPT ![p] = addrs[p] \cup K] BY <2>1
  <2>3. CASE p = n
    <3>1. addrs'[n] = addrs[n] \cup K BY <1>1, <2>2, <2>3
    <3>2. {m} \in SUBSET Node OBVIOUS
    <3> QED BY <2>1, <2>2, <2>3, <3>1, <3>2
  <2>4. CASE p # n BY <1>1, <2>2, <2>4
  <2> QED BY <2>3, <2>4
<1>4. ASSUME NEW p \in Node, NEW s \in Node, RecvAddr(p, s) PROVE Good
  <2> DEFINE A == Head(chan[<<s, p>>]).addrs
  <2>1. /\ HasMsg(s, p, "ADDR")
        /\ \E K \in Insertions(p, Fresh(p, A)) : addrs' = [addrs EXCEPT ![p] = addrs[p] \cup K]
    BY <1>4 DEF RecvAddr
  <2>2. A \in SUBSET Node /\ A \subseteq Dialers
    BY <2>1, ReceivedAddresses DEF AdvertisedDialers
  <2> HIDE DEF A
  <2>3. PICK K \in Insertions(p, Fresh(p, A)) : addrs' = [addrs EXCEPT ![p] = addrs[p] \cup K]
    BY <2>1
  <2>4. CASE p = n
    <3>1. addrs'[n] = addrs[n] \cup K BY <1>1, <2>3, <2>4
    <3>2. /\ Fresh(n, A) \in SUBSET Node
          /\ n \notin Fresh(n, A)
          /\ \A a \in Fresh(n, A) : a \in Dialers
      BY <2>2 DEF Fresh
    <3> QED BY <2>3, <2>4, <3>1, <3>2
  <2>5. CASE p # n BY <1>1, <2>3, <2>5
  <2> QED BY <2>4, <2>5
<1>5. CASE UNCHANGED vars BY <1>2, <1>5 DEF vars
<1>6. ASSUME NEW p \in Node, NEW m \in Node,
             \/ ConnectionTimer(p) \/ SendAdToPeers(p) \/ ProgramConnects(p, m)
             \/ PeerNotifyHandler(p, m) \/ Unread(p, m) \/ PeerLost(p, m)
      PROVE  UNCHANGED addrs
  BY <1>6 DEF ConnectionTimer, ConnectPeer, SendAdToPeers, ProgramConnects, PeerNotifyHandler,
              Unread, PeerLost
<1> QED BY <1>2, <1>3, <1>4, <1>5, <1>6 DEF Next, Receive

\* Nobody stops having dialled, and only addresses of dialers are reserved.
LEMMA ListStep ==
  ASSUME TypeOK, AdvertisedDialers, [Next]_vars
  PROVE  /\ dialed \subseteq dialed' /\ Dialers \subseteq Dialers'
         /\ dialed' \subseteq Node \X Node
         /\ addrToSend' \in [Node -> [Node -> SUBSET Node]]
         /\ \A n, m \in Node : addrToSend'[n][m] \subseteq addrToSend[n][m] \cup Dialers'
<1> DEFINE Good ==
             /\ dialed \subseteq dialed' /\ Dialers \subseteq Dialers'
             /\ dialed' \subseteq Node \X Node
             /\ addrToSend' \in [Node -> [Node -> SUBSET Node]]
             /\ \A n, m \in Node : addrToSend'[n][m] \subseteq addrToSend[n][m] \cup Dialers'
<1>1. addrToSend \in [Node -> [Node -> SUBSET Node]] /\ dialed \subseteq Node \X Node BY DEF TypeOK
<1>2. CASE UNCHANGED << dialed, addrToSend >> BY <1>1, <1>2 DEF Dialers
<1>3. CASE UNCHANGED vars BY <1>2, <1>3 DEF vars
<1>4. ASSUME NEW n \in Node, SendAdToPeers(n) PROVE Good
  <2>1. dialed' = dialed /\ addrToSend' = [addrToSend EXCEPT ![n] = [m \in Node |-> {}]]
    BY <1>4 DEF SendAdToPeers, Nobody
  <2>2. addrToSend' \in [Node -> [Node -> SUBSET Node]]
        /\ \A p, m \in Node : addrToSend'[p][m] \subseteq addrToSend[p][m]
    BY <1>1, <2>1
  <2> QED BY <1>1, <2>1, <2>2 DEF Dialers
<1>5. ASSUME NEW n \in Node, NEW m \in Node, SocketConnectHandler(n, m) PROVE Good
  <2>1. dialed' = dialed \cup {<<n, m>>} /\ addrToSend' = [addrToSend EXCEPT ![n][m] = addrToSend[n][m] \cup {n}]
    BY <1>5 DEF SocketConnectHandler, AdvertiseLocal
  <2>2. n \in Dialers' /\ Dialers \subseteq Dialers' BY <2>1 DEF Dialers
  <2>3. /\ addrToSend' \in [Node -> [Node -> SUBSET Node]]
        /\ \A p, q \in Node : addrToSend'[p][q] \subseteq addrToSend[p][q] \cup {n}
    BY <1>1, <2>1
  <2> QED BY <1>1, <2>1, <2>2, <2>3
<1>6. ASSUME NEW n \in Node, NEW s \in Node, RecvAddr(n, s) PROVE Good
  <2> DEFINE A == Head(chan[<<s, n>>]).addrs
  <2>1. HasMsg(s, n, "ADDR") /\ dialed' = dialed BY <1>6 DEF RecvAddr
  <2>2. A \in SUBSET Node /\ A \subseteq Dialers
    BY <2>1, ReceivedAddresses DEF AdvertisedDialers
  <2>3. UNCHANGED addrToSend \/ \E D \in Relayees(n, s) : addrToSend' = Pushed(n, D, A)
    BY <1>6 DEF RecvAddr
  <2> HIDE DEF A
  <2>4. ASSUME NEW D, addrToSend' = Pushed(n, D, A) PROVE Good
    <3>1. /\ addrToSend' \in [Node -> [Node -> SUBSET Node]]
          /\ \A p, q \in Node : addrToSend'[p][q] \subseteq addrToSend[p][q] \cup A
      BY <1>1, <2>2, <2>4 DEF Pushed
    <3>2. Dialers' = Dialers BY <2>1 DEF Dialers
    <3> QED BY <1>1, <2>1, <2>2, <3>1, <3>2
  <2> QED BY <1>2, <2>1, <2>3, <2>4
<1>7. ASSUME NEW p \in Node, NEW m \in Node,
             \/ ConnectionTimer(p) \/ ProgramConnects(p, m)
             \/ PeerNotifyHandler(p, m) \/ Unread(p, m) \/ PeerLost(p, m)
      PROVE  UNCHANGED << dialed, addrToSend >>
  BY <1>7 DEF ConnectionTimer, ConnectPeer, ProgramConnects, PeerNotifyHandler, Unread, PeerLost
<1> QED BY <1>2, <1>3, <1>4, <1>5, <1>6, <1>7 DEF Next, Receive

-----------------------------------------------------------------------------
\* The type invariant, and whose addresses go where.

\* A step keeps the types.
LEMMA TypeStep ==
  ASSUME TableInv, [Next]_vars
  PROVE  TypeOK'
<1> USE DEF TableInv
<1>1. chan' \in [Node \X Node -> Seq(LinkMessage \cup AddrMessage)]
  BY ChannelStep DEF Message, Channels
<1>2. addrToSend' \in [Node -> [Node -> SUBSET Node]] /\ dialed' \subseteq Node \X Node
  BY ListStep
<1> DEFINE Rest ==
             /\ nbr' \in [Node -> SUBSET Node]
             /\ linkDowns' \in Nat
             /\ tryConnect' \in [Node -> SUBSET Node]
             /\ addrs' \in [Node -> SUBSET Node]
             /\ addrKnown' \in [Node -> [Node -> SUBSET Node]]
             /\ interrupted' \subseteq Node \X Node
<1> SUFFICES Rest BY <1>1, <1>2 DEF TypeOK
<1> USE DEF TypeOK
<1>3. CASE UNCHANGED vars BY <1>3 DEF vars, linkVars
<1>4. ASSUME NEW n \in Node, NEW m \in Node, ConnectPeer(n, m) PROVE Rest
  BY <1>4 DEF ConnectPeer, linkVars
<1>5. ASSUME NEW n \in Node, ConnectionTimer(n) PROVE Rest
  BY <1>4, <1>5 DEF ConnectionTimer
<1>6. ASSUME NEW n \in Node, SendAdToPeers(n) PROVE Rest
  BY <1>6 DEF SendAdToPeers, Dests
<1>7. ASSUME NEW n \in Node, NEW m \in Node, ProgramConnects(n, m) PROVE Rest
  BY <1>4, <1>7 DEF ProgramConnects
<1>8. ASSUME NEW n \in Node, NEW A \in SUBSET Node, NEW K \in Insertions(n, A)
      PROVE  [addrs EXCEPT ![n] = addrs[n] \cup K] \in [Node -> SUBSET Node]
  BY DEF Insertions
<1>9. ASSUME NEW n \in Node, NEW m \in Node, SocketConnectHandler(n, m) PROVE Rest
  <2>1. {m} \in SUBSET Node OBVIOUS
  <2>2. \E K \in Insertions(n, {m}) : addrs' = [addrs EXCEPT ![n] = addrs[n] \cup K]
    BY <1>9 DEF SocketConnectHandler
  <2>3. addrs' \in [Node -> SUBSET Node] BY <1>8, <2>1, <2>2
  <2> QED BY <1>9, <2>3 DEF SocketConnectHandler, LinkUp
<1>10. ASSUME NEW n \in Node, NEW s \in Node, RecvAddr(n, s) PROVE Rest
  <2> DEFINE A == Head(chan[<<s, n>>]).addrs
  <2>1. A \in SUBSET Node BY <1>10, ReceivedAddresses DEF RecvAddr
  <2>2. Fresh(n, A) \in SUBSET Node BY <2>1 DEF Fresh
  <2>3. addrs' \in [Node -> SUBSET Node]
    <3>1. \E K \in Insertions(n, Fresh(n, A)) : addrs' = [addrs EXCEPT ![n] = addrs[n] \cup K]
      BY <1>10 DEF RecvAddr
    <3> HIDE DEF A
    <3> QED BY <1>8, <2>2, <3>1
  <2>4. addrKnown' \in [Node -> [Node -> SUBSET Node]]
    <3>1. addrKnown' = addrKnown \/ \E D : addrKnown' = Learned(n, D, A) BY <1>10 DEF RecvAddr
    <3> HIDE DEF A
    <3>2. ASSUME NEW D PROVE Learned(n, D, A) \in [Node -> [Node -> SUBSET Node]]
      BY <2>1 DEF Learned
    <3> QED BY <3>1, <3>2
  <2>5. UNCHANGED << nbr, linkDowns, tryConnect, interrupted >> BY <1>10 DEF RecvAddr
  <2> QED BY <2>3, <2>4, <2>5
<1>11. ASSUME NEW n \in Node, NEW m \in Node, PeerNotifyHandler(n, m) \/ Unread(n, m) PROVE Rest
  <2>1. CASE PeerNotifyHandler(n, m)
    <3>1. UNCHANGED << linkDowns, tryConnect, addrs, addrKnown, interrupted >>
      BY <2>1 DEF PeerNotifyHandler, LinkNotify
    <3>2. nbr' = [nbr EXCEPT ![n] = nbr[n] \cup {m}] BY <2>1 DEF PeerNotifyHandler, LinkNotify
    <3> QED BY <3>1, <3>2
  <2>2. CASE Unread(n, m) BY <2>2 DEF Unread
  <2> QED BY <1>11, <2>1, <2>2
<1>12. ASSUME NEW n \in Node, NEW m \in Node, PeerLost(n, m) PROVE Rest
  BY <1>12 DEF PeerLost, LinkDown
<1> QED
  BY <1>3, <1>5, <1>6, <1>7, <1>9, <1>10, <1>11, <1>12 DEF Next, Receive

\* The address tables of the initial state are empty.
LEMMA InitTableInv == ASSUME Init PROVE TableInv
<1> USE DEF Init, LinkInit, Nobody
<1>1. UpLink \subseteq Node \X Node BY LinkAssumption
<1>2. \A p, q \in Node : chan[<<p, q>>] = << >> OBVIOUS
<1>3. TypeOK BY <1>1 DEF TypeOK
<1>4. TableOfOthers /\ OnlyDialersSpread
  BY DEF TableOfOthers, OnlyDialersSpread, OnePerSlot
<1>5. AdvertisedDialers BY <1>2 DEF AdvertisedDialers, ToSet
<1> QED BY <1>3, <1>4, <1>5 DEF TableInv

\* A step keeps the address tables as they should be.
LEMMA NextTableInv == ASSUME TableInv, [Next]_vars PROVE TableInv'
<1> USE DEF TableInv
<1>1. TypeOK' BY TypeStep
<1>2. /\ dialed \subseteq dialed' /\ Dialers \subseteq Dialers' BY ListStep
<1>3. ASSUME NEW n \in Node
      PROVE  /\ n \notin addrs'[n] /\ OnePerSlot(addrs'[n])
             /\ \A a \in addrs'[n] : <<n, a>> \in dialed' \/ a \in Dialers'
  <2>1. /\ n \notin addrs[n] /\ OnePerSlot(addrs[n])
        /\ \A a \in addrs[n] : <<n, a>> \in dialed \/ a \in Dialers
    <3>1. addrs[n] \subseteq Node BY DEF TypeOK
    <3> QED BY <3>1 DEF TableOfOthers, OnlyDialersSpread, Dialers
  <2>2. CASE addrs'[n] = addrs[n] BY <1>2, <2>1, <2>2
  <2>3. ASSUME NEW A \in SUBSET Node, NEW K \in Insertions(n, A),
               addrs'[n] = addrs[n] \cup K, n \notin A,
               \A a \in A : <<n, a>> \in dialed' \/ a \in Dialers
        PROVE  /\ n \notin addrs'[n] /\ OnePerSlot(addrs'[n])
               /\ \A a \in addrs'[n] : <<n, a>> \in dialed' \/ a \in Dialers'
    <3>1. /\ K \subseteq A /\ OnePerSlot(K)
          /\ \A a \in K : ~SlotTaken(n, a)
      BY <2>3 DEF Insertions
    <3>2. OnePerSlot(addrs[n] \cup K) BY <2>1, <3>1 DEF OnePerSlot, SlotTaken
    <3> QED BY <1>2, <2>1, <2>3, <3>1, <3>2
  <2> QED BY <2>2, <2>3, TableStep
<1>4. TableOfOthers' BY <1>3 DEF TableOfOthers, OnePerSlot
<1>5. OnlyDialersSpread'
  <2>1. ASSUME NEW a \in Dialers' PROVE \E m \in Node : <<a, m>> \in dialed' BY DEF Dialers
  <2> QED BY <1>3, <2>1 DEF OnlyDialersSpread
<1>6. AdvertisedDialers'
  <2>1. ASSUME NEW p \in Node, NEW q \in Node, NEW x \in ToSet(chan'[<<p, q>>]), x.type = "ADDR"
        PROVE  x.addrs \subseteq Dialers'
    <3>1. CASE x \in ToSet(chan[<<p, q>>]) BY <1>2, <2>1, <3>1 DEF AdvertisedDialers
    <3>2. CASE x = [type |-> "ADDR", addrs |-> addrToSend[p][q]]
      BY <1>2, <3>2 DEF AdvertisedDialers
    <3> QED BY <2>1, <3>1, <3>2, ChannelStep
  <2>2. \A n, m \in Node : addrToSend'[n][m] \subseteq Dialers'
    BY <1>2, ListStep DEF AdvertisedDialers
  <2> QED BY <2>1, <2>2 DEF AdvertisedDialers
<1> QED BY <1>1, <1>4, <1>5, <1>6

\* The invariant of the address tables holds in every state.
LEMMA AlwaysTableInv == Spec => []TableInv
<1>1. Init => TableInv BY InitTableInv
<1>2. TableInv /\ [Next]_vars => TableInv' BY NextTableInv
<1> QED BY <1>1, <1>2, PTL DEF Spec

\* Whatever connections are made and lost, the state of every node keeps its
\* type, and only typed messages are under way (BL_PeerConnectivityLayer_API).
THEOREM TypeCorrect == Spec => []TypeOK
<1>1. TableInv => TypeOK BY DEF TableInv
<1> QED BY <1>1, AlwaysTableInv, PTL

\* AddrManager::Add and the test for the own address (RecvMsgHandler) keep every
\* table to one address for a slot and its own address out of it.
THEOREM TablesOfOthers == Spec => []TableOfOthers
<1>1. TableInv => TableOfOthers BY DEF TableInv
<1> QED BY <1>1, AlwaysTableInv, PTL

\* AdvertiseLocal is the only source of addresses: gossip spreads who connected to
\* somebody, and a node that only accepts is known to those who connected to it.
THEOREM OnlyDialersAreSpread == Spec => []OnlyDialersSpread
<1>1. TableInv => OnlyDialersSpread BY DEF TableInv
<1> QED BY <1>1, AlwaysTableInv, PTL

-----------------------------------------------------------------------------
\* What was told: ToldWhatItKnows.

\* n and m lost their connection at some time.
Lost(n, m) == <<n, m>> \in interrupted /\ <<m, n>> \in interrupted

Introduces(n, m) == \E x \in ToSet(chan[<<n, m>>]) : x.type = "notifyPeerId"

\* The two ends of a connection: who introduces itself is connected, who is
\* connected is known at the other end or about to be, and until then the
\* introduction is what the other end reads first.
Met(n, m) ==
  \/ Lost(n, m)
  \/ /\ Introduces(n, m) => m \in nbr[n]
     /\ m \in nbr[n] => n \in nbr[m] \/ Introduces(n, m)
     /\ n \notin nbr[m] /\ chan[<<n, m>>] # << >> => Head(chan[<<n, m>>]).type = "notifyPeerId"
Introduced == \A n, m \in Node : Met(n, m)

\* The inductive invariant behind ToldWhatItKnows.
ToldInv == TypeOK /\ Introduced /\ ToldWhatItKnows

\* What is first in a channel that a message was added to.
LEMMA AppendedHead ==
  ASSUME NEW M, NEW c \in Seq(M), NEW m \in M
  PROVE  /\ Append(c, m) # << >>
         /\ c = << >> => Head(Append(c, m)) = m
         /\ c # << >> => Head(Append(c, m)) = Head(c)
<1> DEFINE d == Append(c, m)
<1>1. /\ d \in Seq(M) /\ Len(d) = Len(c) + 1 /\ Len(c) \in Nat
      /\ \A i \in 1..Len(c) : d[i] = c[i]
      /\ d[Len(c) + 1] = m
  BY AppendProperties, LenProperties
<1> HIDE DEF d
<1>2. d # << >> BY <1>1, EmptySeq
<1>3. Head(d) = d[1] BY <1>1, <1>2, HeadTailProperties
<1>4. CASE c = << >>
  <2>1. Len(c) = 0 BY <1>4, EmptySeq
  <2> QED BY <1>1, <1>2, <1>3, <1>4, <2>1 DEF d
<1>5. CASE c # << >>
  <2>1. Len(c) # 0 /\ Head(c) = c[1] BY <1>5, EmptySeq, HeadTailProperties
  <2> QED BY <1>1, <1>2, <1>3, <1>5, <2>1 DEF d
<1> QED BY <1>4, <1>5

\* Nothing is forgotten of the losses.
LEMMA InterruptedStep ==
  ASSUME [Next]_vars
  PROVE  interrupted \subseteq interrupted' /\ \A n, m \in Node : Lost(n, m) => Lost(n, m)'
<1>1. interrupted \subseteq interrupted'
  <2>1. CASE UNCHANGED vars BY <2>1 DEF vars
  <2>2. ASSUME NEW n \in Node, NEW m \in Node,
               \/ ConnectionTimer(n) \/ SendAdToPeers(n) \/ ProgramConnects(n, m)
               \/ SocketConnectHandler(n, m) \/ PeerNotifyHandler(n, m) \/ RecvAddr(n, m)
               \/ Unread(n, m) \/ PeerLost(n, m)
        PROVE  interrupted \subseteq interrupted'
    BY <2>2 DEF ConnectionTimer, ConnectPeer, SendAdToPeers, ProgramConnects,
                SocketConnectHandler, PeerNotifyHandler, RecvAddr, Unread, PeerLost
  <2> QED BY <2>1, <2>2 DEF Next, Receive
<1> QED BY <1>1 DEF Lost

\* The connection of a pair that a step does not touch.
LEMMA UntouchedPair ==
  ASSUME [Next]_vars, NEW p \in Node, NEW q \in Node, Met(p, q),
         chan'[<<p, q>>] = chan[<<p, q>>],
         q \in nbr'[p] <=> q \in nbr[p], p \in nbr'[q] <=> p \in nbr[q]
  PROVE  Met(p, q)'
<1>1. Lost(p, q) => Lost(p, q)' BY InterruptedStep
<1>2. Introduces(p, q)' <=> Introduces(p, q) BY DEF Introduces
<1> QED BY <1>1, <1>2 DEF Met

\* A step keeps that whoever knows a neighbour was introduced to it.
LEMMA IntroducedStep ==
  ASSUME TypeOK, Introduced, [Next]_vars
  PROVE  Introduced'
<1>1. chan \in Channels(Message) /\ nbr \in [Node -> SUBSET Node] BY TypedChannels DEF TypeOK
<1>2. \A p, q \in Node : Met(p, q) BY DEF Introduced
<1> SUFFICES ASSUME NEW p \in Node, NEW q \in Node PROVE Met(p, q)' BY DEF Introduced
<1>3. chan[<<p, q>>] \in Seq(Message) BY <1>1 DEF Channels
<1>4. CASE UNCHANGED << nbr, chan >> BY <1>2, <1>4, UntouchedPair
<1>5. ASSUME NEW n \in Node, SendAdToPeers(n) PROVE Met(p, q)'
  <2>1. chan' = Advertised(n) /\ nbr' = nbr BY <1>5 DEF SendAdToPeers
  <2>2. CASE p = n /\ q \in nbr[n] /\ q \in Dests(n) /\ ~Lost(p, q)
    <3>1. addrToSend[p][q] \in SUBSET Node BY DEF TypeOK
    <3>2. PICK v \in Message : v = [type |-> "ADDR", addrs |-> addrToSend[p][q]]
      BY <3>1, MessageTypes
    <3>3. /\ chan'[<<p, q>>] = Append(chan[<<p, q>>], v)
          /\ \A x \in ToSet(chan'[<<p, q>>]) : x \in ToSet(chan[<<p, q>>]) \/ x = v
      BY <2>1, <2>2, <3>2, AdvertisedMessages
    <3>4. \A x \in ToSet(chan[<<p, q>>]) : x \in ToSet(chan'[<<p, q>>])
      <4>1. Put(chan, p, {q}, v)[<<p, q>>] = Append(chan[<<p, q>>], v) BY DEF Put
      <4> QED BY <1>1, <3>3, <4>1, PutKeeps
    <3>5. Introduces(p, q)' <=> Introduces(p, q)
      <4>1. v.type # "notifyPeerId" BY <3>2
      <4>2. Introduces(p, q)' => Introduces(p, q) BY <3>3, <4>1 DEF Introduces
      <4>3. Introduces(p, q) => Introduces(p, q)' BY <3>4 DEF Introduces
      <4> QED BY <4>2, <4>3
    <3>6. p \in nbr[q] \/ Introduces(p, q) BY <1>2, <2>2 DEF Met
    <3>7. Introduces(p, q) => chan[<<p, q>>] # << >>
      <4>1. ASSUME chan[<<p, q>>] = << >> PROVE ToSet(chan[<<p, q>>]) = {} BY <4>1 DEF ToSet
      <4> QED BY <4>1 DEF Introduces
    <3>8. chan[<<p, q>>] # << >> => Head(chan'[<<p, q>>]) = Head(chan[<<p, q>>])
      BY <1>3, <3>3, AppendedHead
    <3> QED BY <1>2, <2>1, <2>2, <3>5, <3>6, <3>7, <3>8 DEF Met
  <2>3. CASE ~(p = n /\ q \in nbr[n] /\ q \in Dests(n))
    <3>1. IF p = n /\ q \in Dests(n) \cap nbr[n]
          THEN Advertised(n)[<<p, q>>]
                 = Append(chan[<<p, q>>], [type |-> "ADDR", addrs |-> addrToSend[p][q]])
          ELSE Advertised(n)[<<p, q>>] = chan[<<p, q>>]
      BY AdvertisedMessages
    <3>2. ~(p = n /\ q \in Dests(n) \cap nbr[n]) BY <2>3
    <3>3. chan'[<<p, q>>] = chan[<<p, q>>] BY <2>1, <3>1, <3>2
    <3> QED BY <1>2, <2>1, <3>3, UntouchedPair
  <2>4. CASE Lost(p, q) BY <2>4, InterruptedStep DEF Met
  <2> QED BY <2>2, <2>3, <2>4
<1>6. ASSUME NEW n \in Node, NEW m \in Node, SocketConnectHandler(n, m) PROVE Met(p, q)'
  <2>1. PICK v \in Message : v = [type |-> "notifyPeerId"] BY MessageTypes
  <2>2. /\ chan' = Put(chan, n, {m}, v) /\ nbr' = [nbr EXCEPT ![n] = nbr[n] \cup {m}]
        /\ m \notin nbr[n]
    BY <1>6, <2>1 DEF SocketConnectHandler, LinkUp
  <2>3. n # m BY <1>6, LinkAssumption DEF SocketConnectHandler, LinkUp
  <2>4. m \in nbr'[n] BY <1>1, <2>2
  <2>5. CASE p = n /\ q = m
    <3>1. chan'[<<p, q>>] = Append(chan[<<p, q>>], v) BY <2>2, <2>5 DEF Put
    <3>2. v \in ToSet(chan'[<<p, q>>]) BY <1>1, <2>2, <2>5, PutKeeps
    <3>3. Introduces(p, q)' BY <2>1, <3>2 DEF Introduces
    <3>4. nbr'[q] = nbr[q] BY <1>1, <2>2, <2>3, <2>5
    <3>5. CASE chan[<<p, q>>] = << >>
      <4>1. Head(chan'[<<p, q>>]) = v BY <1>3, <3>1, <3>5, AppendedHead
      <4> QED BY <2>1, <2>4, <2>5, <3>3, <4>1 DEF Met
    <3>6. CASE chan[<<p, q>>] # << >>
      <4>1. Head(chan'[<<p, q>>]) = Head(chan[<<p, q>>]) BY <1>3, <3>1, <3>6, AppendedHead
      <4>2. Lost(p, q) \/ p \in nbr[q] \/ Head(chan[<<p, q>>]).type = "notifyPeerId"
        BY <1>2, <3>6 DEF Met
      <4> QED BY <2>4, <2>5, <3>3, <3>4, <4>1, <4>2, InterruptedStep DEF Met
    <3> QED BY <3>5, <3>6
  <2>6. CASE ~(p = n /\ q = m)
    <3>1. chan'[<<p, q>>] = chan[<<p, q>>] BY <2>2, <2>6 DEF Put
    <3>2. CASE p = m /\ q = n
      <4>1. nbr'[p] = nbr[p] BY <1>1, <2>2, <2>3, <3>2
      <4>2. Introduces(p, q)' <=> Introduces(p, q) BY <3>1 DEF Introduces
      <4>3. Lost(p, q) => Lost(p, q)' BY InterruptedStep
      <4> QED BY <1>2, <2>4, <3>2, <4>1, <4>2, <4>3 DEF Met
    <3>3. CASE ~(p = m /\ q = n)
      <4>1. (q \in nbr'[p] <=> q \in nbr[p]) /\ (p \in nbr'[q] <=> p \in nbr[q])
        BY <1>1, <2>2, <2>6, <3>3
      <4> QED BY <1>2, <3>1, <4>1, UntouchedPair
    <3> QED BY <3>2, <3>3
  <2> QED BY <2>5, <2>6
<1>7. ASSUME NEW n \in Node, NEW s \in Node, chan[<<s, n>>] # << >>, chan' = Taken(s, n)
      PROVE  /\ \A x \in ToSet(chan'[<<p, q>>]) : x \in ToSet(chan[<<p, q>>])
             /\ ~(p = s /\ q = n) => chan'[<<p, q>>] = chan[<<p, q>>]
  <2>1. ~(p = s /\ q = n) => chan'[<<p, q>>] = chan[<<p, q>>] BY <1>1, <1>7 DEF Taken, Channels
  <2> QED BY <1>1, <1>7, <2>1, TakenMessages
<1>8. ASSUME NEW n \in Node, NEW s \in Node, PeerNotifyHandler(n, s) PROVE Met(p, q)'
  <2>1. /\ chan[<<s, n>>] # << >> /\ chan' = Taken(s, n)
        /\ Head(chan[<<s, n>>]).type = "notifyPeerId"
        /\ nbr' = [nbr EXCEPT ![n] = nbr[n] \cup {s}]
    BY <1>8 DEF PeerNotifyHandler, LinkNotify, HasMsg
  <2>2. s \in nbr'[n] /\ \A a \in Node : nbr[a] \subseteq nbr'[a] BY <1>1, <2>1
  <2>3. Introduces(s, n) BY <1>1, <2>1, TakenMessages DEF Introduces
  <2>4. Lost(p, q) => Lost(p, q)' BY InterruptedStep
  <2>5. CASE p = s /\ q = n
    <3>1. Introduces(p, q)' => Introduces(p, q) BY <1>7, <2>1, <2>5 DEF Introduces
    <3> QED BY <1>2, <2>2, <2>4, <2>5, <3>1 DEF Met
  <2>6. CASE p = n /\ q = s /\ p # q
    <3>1. Lost(q, p) => Lost(p, q) BY DEF Lost
    <3>2. Lost(p, q) \/ p \in nbr'[q] BY <1>2, <2>2, <2>3, <2>6, <3>1 DEF Met
    <3> QED BY <2>2, <2>4, <2>6, <3>2 DEF Met
  <2>7. CASE ~(p = s /\ q = n) /\ ~(p = n /\ q = s)
    <3>1. (q \in nbr'[p] <=> q \in nbr[p]) /\ (p \in nbr'[q] <=> p \in nbr[q])
      BY <1>1, <2>1, <2>7
    <3> QED BY <1>2, <1>7, <2>1, <2>7, <3>1, UntouchedPair
  <2> QED BY <2>5, <2>6, <2>7
<1>9. ASSUME NEW n \in Node, NEW s \in Node, RecvAddr(n, s) PROVE Met(p, q)'
  <2>1. chan[<<s, n>>] # << >> /\ chan' = Taken(s, n) /\ nbr' = nbr /\ s \in nbr[n]
    BY <1>9 DEF RecvAddr, HasMsg
  <2>2. CASE p = s /\ q = n
    <3>1. Introduces(p, q)' => Introduces(p, q) BY <1>7, <2>1, <2>2 DEF Introduces
    <3>2. Lost(p, q) => Lost(p, q)' BY InterruptedStep
    <3> QED BY <1>2, <2>1, <2>2, <3>1, <3>2 DEF Met
  <2>3. CASE ~(p = s /\ q = n) BY <1>2, <1>7, <2>1, <2>3, UntouchedPair
  <2> QED BY <2>2, <2>3
<1>10. ASSUME NEW n \in Node, NEW s \in Node, Unread(n, s) PROVE Met(p, q)'
  <2>1. /\ chan[<<s, n>>] # << >> /\ chan' = Taken(s, n) /\ nbr' = nbr /\ s \notin nbr[n]
        /\ Head(chan[<<s, n>>]).type = "ADDR"
    BY <1>10 DEF Unread, HasMsg
  <2>2. CASE p = s /\ q = n
    <3>1. Lost(p, q) BY <1>2, <2>1, <2>2 DEF Met
    <3> QED BY <3>1, InterruptedStep DEF Met
  <2>3. CASE ~(p = s /\ q = n) BY <1>2, <1>7, <2>1, <2>3, UntouchedPair
  <2> QED BY <2>2, <2>3
<1>11. ASSUME NEW n \in Node, NEW m \in Node, PeerLost(n, m) PROVE Met(p, q)'
  <2>1. /\ interrupted' = interrupted \cup {<<n, m>>, <<m, n>>}
        /\ nbr' = [nbr EXCEPT ![n] = nbr[n] \ {m}]
        /\ \E i \in 0..Len(chan[<<n, m>>]), j \in 0..Len(chan[<<m, n>>]) :
             chan' = [chan EXCEPT ![<<n, m>>] = SubSeq(@, 1, i), ![<<m, n>>] = SubSeq(@, 1, j)]
    BY <1>11 DEF PeerLost, LinkDown
  <2>2. CASE (p = n /\ q = m) \/ (p = m /\ q = n)
    <3>1. Lost(p, q)' BY <2>1, <2>2 DEF Lost
    <3> QED BY <3>1 DEF Met
  <2>3. CASE ~(p = n /\ q = m) /\ ~(p = m /\ q = n)
    <3>1. chan'[<<p, q>>] = chan[<<p, q>>] BY <1>1, <2>1, <2>3 DEF Channels
    <3>2. (q \in nbr'[p] <=> q \in nbr[p]) /\ (p \in nbr'[q] <=> p \in nbr[q])
      BY <1>1, <2>1, <2>3
    <3> QED BY <1>2, <3>1, <3>2, UntouchedPair
  <2> QED BY <2>2, <2>3
<1>12. CASE UNCHANGED vars BY <1>4, <1>12 DEF vars, linkVars
<1>13. ASSUME NEW n \in Node, NEW m \in Node, ConnectionTimer(n) \/ ProgramConnects(n, m)
       PROVE  Met(p, q)'
  BY <1>4, <1>13 DEF ConnectionTimer, ProgramConnects, ConnectPeer, linkVars
<1> QED BY <1>5, <1>6, <1>8, <1>9, <1>10, <1>11, <1>12, <1>13 DEF Next, Receive

\* An address is under way if some ADDR message of the channel carries it.
LEMMA CarriedMessages ==
  ASSUME NEW p \in Node, NEW q \in Node, NEW a
  PROVE  /\ a \in Carried(p, q) <=>
              \E x \in ToSet(chan[<<p, q>>]) : x.type = "ADDR" /\ a \in x.addrs
         /\ a \in Carried(p, q)' <=>
              \E x \in ToSet(chan'[<<p, q>>]) : x.type = "ADDR" /\ a \in x.addrs
BY DEF Carried, ToSet

\* No address leaves a table.
LEMMA TablesGrow ==
  ASSUME TypeOK, [Next]_vars, NEW n \in Node
  PROVE  addrs[n] \subseteq addrs'[n] /\ \A a : SlotTaken(n, a) => SlotTaken(n, a)'
<1>1. addrs \in [Node -> SUBSET Node] BY DEF TypeOK
<1>2. ASSUME NEW p \in Node, NEW A, \E K \in Insertions(p, A) : addrs' = [addrs EXCEPT ![p] = addrs[p] \cup K]
      PROVE  addrs[n] \subseteq addrs'[n]
  BY <1>1, <1>2
<1>3. ASSUME NEW p \in Node, NEW m \in Node, SocketConnectHandler(p, m)
      PROVE  addrs[n] \subseteq addrs'[n]
  <2>1. \E K \in Insertions(p, {m}) : addrs' = [addrs EXCEPT ![p] = addrs[p] \cup K]
    BY <1>3 DEF SocketConnectHandler
  <2> QED BY <1>2, <2>1
<1>4. ASSUME NEW p \in Node, NEW s \in Node, RecvAddr(p, s) PROVE addrs[n] \subseteq addrs'[n]
  <2> DEFINE A == Fresh(p, Head(chan[<<s, p>>]).addrs)
  <2>1. \E K \in Insertions(p, A) : addrs' = [addrs EXCEPT ![p] = addrs[p] \cup K]
    BY <1>4 DEF RecvAddr
  <2> HIDE DEF A
  <2> QED BY <1>2, <2>1
<1>5. ASSUME NEW p \in Node, NEW m \in Node,
             \/ ConnectionTimer(p) \/ SendAdToPeers(p) \/ ProgramConnects(p, m)
             \/ PeerNotifyHandler(p, m) \/ Unread(p, m) \/ PeerLost(p, m)
      PROVE  UNCHANGED addrs
  BY <1>5 DEF ConnectionTimer, ConnectPeer, SendAdToPeers, ProgramConnects, PeerNotifyHandler,
              Unread, PeerLost
<1>6. UNCHANGED vars => addrs[n] \subseteq addrs'[n] BY DEF vars
<1>7. addrs[n] \subseteq addrs'[n] BY <1>3, <1>4, <1>5, <1>6 DEF Next, Receive
<1> QED BY <1>7 DEF SlotTaken

\* What a peer is newly taken to know is reserved for it.
LEMMA KnownStep ==
  ASSUME TypeOK, [Next]_vars, NEW p \in Node, NEW q \in Node, NEW a \in addrKnown'[p][q]
  PROVE  a \in addrKnown[p][q] \/ a \in addrToSend'[p][q]
<1>1. /\ addrKnown \in [Node -> [Node -> SUBSET Node]]
      /\ addrToSend \in [Node -> [Node -> SUBSET Node]]
  BY DEF TypeOK
<1>2. CASE UNCHANGED addrKnown BY <1>2
<1>3. ASSUME NEW n \in Node, NEW s \in Node, RecvAddr(n, s)
      PROVE  a \in addrKnown[p][q] \/ a \in addrToSend'[p][q]
  <2> DEFINE A == Head(chan[<<s, n>>]).addrs
  <2>1. \/ UNCHANGED addrKnown
        \/ \E D : addrToSend' = Pushed(n, D, A) /\ addrKnown' = Learned(n, D, A)
    BY <1>3 DEF RecvAddr
  <2> HIDE DEF A
  <2>2. ASSUME NEW D, addrToSend' = Pushed(n, D, A), addrKnown' = Learned(n, D, A)
        PROVE  a \in addrKnown[p][q] \/ a \in addrToSend'[p][q]
    <3>1. CASE p = n /\ q \in D
      <4>1. addrKnown'[p][q] = addrKnown[p][q] \cup A BY <1>1, <2>2, <3>1 DEF Learned
      <4>2. addrToSend'[p][q] = addrToSend[p][q] \cup (A \ addrKnown[p][q])
        BY <1>1, <2>2, <3>1 DEF Pushed
      <4> QED BY <4>1, <4>2
    <3>2. CASE ~(p = n /\ q \in D) BY <1>1, <2>2, <3>2 DEF Learned
    <3> QED BY <3>1, <3>2
  <2> QED BY <1>2, <2>1, <2>2
<1>4. ASSUME NEW n \in Node, NEW m \in Node,
             \/ ConnectionTimer(n) \/ SendAdToPeers(n) \/ ProgramConnects(n, m)
             \/ SocketConnectHandler(n, m) \/ PeerNotifyHandler(n, m) \/ Unread(n, m)
             \/ PeerLost(n, m)
      PROVE  UNCHANGED addrKnown
  BY <1>4 DEF ConnectionTimer, ConnectPeer, SendAdToPeers, ProgramConnects,
              SocketConnectHandler, PeerNotifyHandler, Unread, PeerLost
<1>5. CASE UNCHANGED vars BY <1>2, <1>5 DEF vars
<1> QED BY <1>2, <1>3, <1>4, <1>5 DEF Next, Receive

\* What is reserved for a peer stays reserved until it is sent or given up.
LEMMA ReservedStep ==
  ASSUME TypeOK, [Next]_vars, NEW p \in Node, NEW q \in Node, NEW a \in addrToSend[p][q]
  PROVE  a \in addrToSend'[p][q] \/ a \in Carried(p, q)' \/ <<p, q>> \in interrupted'
<1> DEFINE Good == a \in addrToSend'[p][q] \/ a \in Carried(p, q)' \/ <<p, q>> \in interrupted'
<1>1. addrToSend \in [Node -> [Node -> SUBSET Node]] BY DEF TypeOK
<1>2. CASE UNCHANGED addrToSend BY <1>2
<1>3. ASSUME NEW n \in Node, SendAdToPeers(n) PROVE Good
  <2>1. /\ chan' = Advertised(n)
        /\ interrupted' = interrupted \cup {<<n, m>> : m \in Dests(n) \ nbr[n]}
        /\ addrToSend' = [addrToSend EXCEPT ![n] = Nobody]
    BY <1>3 DEF SendAdToPeers
  <2>2. CASE p # n BY <1>1, <2>1, <2>2
  <2>3. CASE p = n
    <3>1. q \in Dests(n) BY <2>3 DEF Dests
    <3>2. CASE q \notin nbr[n] BY <2>1, <2>3, <3>1, <3>2
    <3>3. CASE q \in nbr[n]
      <4>1. addrToSend[p][q] \in SUBSET Node BY <1>1
      <4>2. PICK v \in Message : v = [type |-> "ADDR", addrs |-> addrToSend[p][q]]
        BY <4>1, MessageTypes
      <4>3. chan'[<<p, q>>] = Append(chan[<<p, q>>], v)
        BY <2>1, <2>3, <3>1, <3>3, <4>2, AdvertisedMessages
      <4>4. Put(chan, p, {q}, v)[<<p, q>>] = Append(chan[<<p, q>>], v) BY DEF Put
      <4>5. v \in ToSet(chan'[<<p, q>>])
        <5>1. chan \in Channels(Message) BY TypedChannels
        <5>2. v \in ToSet(Put(chan, p, {q}, v)[<<p, q>>]) BY <5>1, PutKeeps
        <5> QED BY <4>3, <4>4, <5>2
      <4> QED BY <4>2, <4>5, CarriedMessages
    <3> QED BY <3>2, <3>3
  <2> QED BY <2>2, <2>3
<1>4. ASSUME NEW n \in Node, NEW m \in Node, SocketConnectHandler(n, m) PROVE Good
  <2>1. addrToSend' = [addrToSend EXCEPT ![n][m] = addrToSend[n][m] \cup {n}]
    BY <1>4 DEF SocketConnectHandler, AdvertiseLocal
  <2> QED BY <1>1, <2>1
<1>5. ASSUME NEW n \in Node, NEW s \in Node, RecvAddr(n, s) PROVE Good
  <2> DEFINE A == Head(chan[<<s, n>>]).addrs
  <2>1. UNCHANGED addrToSend \/ \E D : addrToSend' = Pushed(n, D, A) BY <1>5 DEF RecvAddr
  <2> HIDE DEF A
  <2>2. ASSUME NEW D, addrToSend' = Pushed(n, D, A) PROVE addrToSend[p][q] \subseteq addrToSend'[p][q]
    BY <1>1, <2>2 DEF Pushed
  <2> QED BY <1>2, <2>1, <2>2
<1>6. ASSUME NEW n \in Node, NEW m \in Node,
             \/ ConnectionTimer(n) \/ ProgramConnects(n, m)
             \/ PeerNotifyHandler(n, m) \/ Unread(n, m) \/ PeerLost(n, m)
      PROVE  UNCHANGED addrToSend
  BY <1>6 DEF ConnectionTimer, ConnectPeer, ProgramConnects, PeerNotifyHandler, Unread, PeerLost
<1>7. CASE UNCHANGED vars BY <1>2, <1>7 DEF vars
<1> QED BY <1>2, <1>3, <1>4, <1>5, <1>6, <1>7 DEF Next, Receive

\* An address that is on the way stays so until it is read, or lost; a reader that
\* knows the connection stores it, unless it is its own.
LEMMA CarriedStep ==
  ASSUME TypeOK, Introduced, [Next]_vars,
         NEW p \in Node, NEW q \in Node, NEW a \in Carried(p, q)
  PROVE  \/ a \in Carried(p, q)' \/ <<p, q>> \in interrupted'
         \/ a = q \/ SlotTaken(q, a)'
<1> DEFINE Good == \/ a \in Carried(p, q)' \/ <<p, q>> \in interrupted'
                   \/ a = q \/ SlotTaken(q, a)'
<1>1. chan \in Channels(Message) /\ addrs \in [Node -> SUBSET Node] BY TypedChannels DEF TypeOK
<1>2. PICK x \in ToSet(chan[<<p, q>>]) : x.type = "ADDR" /\ a \in x.addrs BY CarriedMessages
<1>3. ASSUME x \in ToSet(chan'[<<p, q>>]) PROVE Good BY <1>2, <1>3, CarriedMessages
<1>4. CASE UNCHANGED chan BY <1>3, <1>4
<1>5. ASSUME NEW n \in Node, SendAdToPeers(n) PROVE Good
  <2>1. addrToSend[p][q] \in SUBSET Node BY DEF TypeOK
  <2>2. PICK v \in Message : v = [type |-> "ADDR", addrs |-> addrToSend[p][q]]
    BY <2>1, MessageTypes
  <2>3. chan'[<<p, q>>] = Append(chan[<<p, q>>], v) \/ chan'[<<p, q>>] = chan[<<p, q>>]
    BY <1>5, <2>2, AdvertisedMessages DEF SendAdToPeers
  <2>4. Put(chan, p, {q}, v)[<<p, q>>] = Append(chan[<<p, q>>], v) BY DEF Put
  <2>5. x \in ToSet(Put(chan, p, {q}, v)[<<p, q>>]) BY <1>1, PutKeeps
  <2> QED BY <1>3, <2>3, <2>4, <2>5
<1>6. ASSUME NEW n \in Node, NEW m \in Node, SocketConnectHandler(n, m) PROVE Good
  <2>1. PICK v \in Message : v = [type |-> "notifyPeerId"] BY MessageTypes
  <2>2. chan' = Put(chan, n, {m}, v) BY <1>6, <2>1 DEF SocketConnectHandler, LinkUp
  <2> QED BY <1>1, <1>3, <2>2, PutKeeps
<1>13. ASSUME NEW n \in Node, NEW s \in Node, chan[<<s, n>>] # << >>
       PROVE  \/ x \in ToSet(Taken(s, n)[<<p, q>>])
              \/ p = s /\ q = n /\ x = Head(chan[<<s, n>>])
  <2>1. \A u, v \in Node : \A y \in ToSet(chan[<<u, v>>]) :
          y \in ToSet(Taken(s, n)[<<u, v>>]) \/ (u = s /\ v = n /\ y = Head(chan[<<s, n>>]))
    BY <1>1, <1>13, TakenKeeps
  <2> QED BY <2>1
<1>7. ASSUME NEW n \in Node, NEW s \in Node, PeerNotifyHandler(n, s) PROVE Good
  <2>1. /\ chan[<<s, n>>] # << >> /\ chan' = Taken(s, n)
        /\ Head(chan[<<s, n>>]).type = "notifyPeerId"
    BY <1>7 DEF PeerNotifyHandler, LinkNotify, HasMsg
  <2> QED BY <1>2, <1>3, <1>13, <2>1
<1>8. ASSUME NEW n \in Node, NEW s \in Node, RecvAddr(n, s) PROVE Good
  <2> DEFINE A == Head(chan[<<s, n>>]).addrs
  <2>1. /\ chan[<<s, n>>] # << >> /\ chan' = Taken(s, n)
        /\ \E K \in Insertions(n, Fresh(n, A)) : addrs' = [addrs EXCEPT ![n] = addrs[n] \cup K]
    BY <1>8 DEF RecvAddr, HasMsg
  <2>2. CASE x \in ToSet(Taken(s, n)[<<p, q>>]) BY <1>3, <2>1, <2>2
  <2>3. CASE p = s /\ q = n /\ x = Head(chan[<<s, n>>]) /\ a # q
    <3>1. a \in Fresh(n, A) BY <1>2, <2>3 DEF Fresh
    <3> HIDE DEF A
    <3>2. PICK K \in Insertions(n, Fresh(n, A)) : addrs' = [addrs EXCEPT ![n] = addrs[n] \cup K]
      BY <2>1
    <3>3. addrs'[n] = addrs[n] \cup K BY <1>1, <3>2
    <3>4. SlotTaken(n, a) \/ \E b \in K : Slot[b] = Slot[a] BY <3>1 DEF Insertions
    <3> QED BY <2>3, <3>3, <3>4 DEF SlotTaken
  <2> QED BY <1>13, <2>1, <2>2, <2>3
<1>9. ASSUME NEW n \in Node, NEW s \in Node, Unread(n, s) PROVE Good
  <2>1. /\ chan[<<s, n>>] # << >> /\ chan' = Taken(s, n) /\ s \notin nbr[n]
        /\ Head(chan[<<s, n>>]).type = "ADDR"
    BY <1>9 DEF Unread, HasMsg
  <2>2. CASE x \in ToSet(Taken(s, n)[<<p, q>>]) BY <1>3, <2>1, <2>2
  <2>3. CASE p = s /\ q = n
    <3>1. Lost(p, q) BY <2>1, <2>3 DEF Introduced, Met
    <3> QED BY <3>1, InterruptedStep DEF Lost
  <2> QED BY <1>13, <2>1, <2>2, <2>3
<1>10. ASSUME NEW n \in Node, NEW m \in Node, PeerLost(n, m) PROVE Good
  <2>1. /\ interrupted' = interrupted \cup {<<n, m>>, <<m, n>>}
        /\ \E i \in 0..Len(chan[<<n, m>>]), j \in 0..Len(chan[<<m, n>>]) :
             chan' = [chan EXCEPT ![<<n, m>>] = SubSeq(@, 1, i), ![<<m, n>>] = SubSeq(@, 1, j)]
    BY <1>10 DEF PeerLost, LinkDown
  <2>2. CASE (p = n /\ q = m) \/ (p = m /\ q = n) BY <2>1, <2>2
  <2>3. CASE ~(p = n /\ q = m) /\ ~(p = m /\ q = n)
    <3>1. chan'[<<p, q>>] = chan[<<p, q>>] BY <1>1, <2>1, <2>3 DEF Channels
    <3> QED BY <1>3, <3>1
  <2> QED BY <2>2, <2>3
<1>11. CASE UNCHANGED vars BY <1>4, <1>11 DEF vars, linkVars
<1>12. ASSUME NEW n \in Node, NEW m \in Node, ConnectionTimer(n) \/ ProgramConnects(n, m)
       PROVE  Good
  BY <1>4, <1>12 DEF ConnectionTimer, ProgramConnects, ConnectPeer, linkVars
<1> QED BY <1>5, <1>6, <1>7, <1>8, <1>9, <1>10, <1>11, <1>12 DEF Next, Receive

\* Nobody was told anything in the initial state.
LEMMA InitToldInv == ASSUME Init PROVE ToldInv
<1>1. TypeOK BY InitTableInv DEF TableInv
<1> USE DEF Init, LinkInit, Nobody
<1>2. \A p, q \in Node : chan[<<p, q>>] = << >> /\ (q \in nbr[p] <=> p \in nbr[q]) OBVIOUS
<1>3. ASSUME NEW p \in Node, NEW q \in Node PROVE ~Introduces(p, q)
  <2>1. chan[<<p, q>>] = << >> BY <1>2
  <2>2. ToSet(chan[<<p, q>>]) = {} BY <2>1 DEF ToSet
  <2> QED BY <2>2 DEF Introduces
<1>4. Introduced BY <1>2, <1>3 DEF Introduced, Met
<1>5. ToldWhatItKnows BY DEF ToldWhatItKnows
<1> QED BY <1>1, <1>4, <1>5 DEF ToldInv

\* A step keeps what was told, and to whom.
LEMMA NextToldInv == ASSUME ToldInv, TypeOK', [Next]_vars PROVE ToldInv'
<1> USE DEF ToldInv
<1>1. Introduced' BY IntroducedStep
<1>2. ASSUME NEW p \in Node, NEW q \in Node, NEW a \in addrKnown'[p][q]
      PROVE  \/ a \in addrToSend'[p][q] \/ a \in Carried(p, q)'
             \/ a = q \/ SlotTaken(q, a)' \/ <<p, q>> \in interrupted'
  <2>1. CASE a \in addrKnown[p][q]
    <3>1. \/ a \in addrToSend[p][q] \/ a \in Carried(p, q)
          \/ a = q \/ SlotTaken(q, a) \/ <<p, q>> \in interrupted
      BY <2>1 DEF ToldWhatItKnows
    <3>2. CASE a \in addrToSend[p][q] BY <3>2, ReservedStep
    <3>3. CASE a \in Carried(p, q) BY <3>3, CarriedStep
    <3>4. CASE SlotTaken(q, a) BY <3>4, TablesGrow
    <3>5. CASE <<p, q>> \in interrupted BY <3>5, InterruptedStep
    <3> QED BY <3>1, <3>2, <3>3, <3>4, <3>5
  <2>2. CASE a \in addrToSend'[p][q] BY <2>2
  <2> QED BY <1>2, <2>1, <2>2, KnownStep
<1>3. ToldWhatItKnows' BY <1>2 DEF ToldWhatItKnows
<1> QED BY <1>1, <1>3

\* PushAddr sends an address to a peer once: _addrKnown only holds what
\* SendAdToPeers has delivered or will deliver, as long as the connection is not
\* interrupted (AdvertisementManager, BL_PeerConnectivityLayer_API).
THEOREM PeersAreTold == Spec => []ToldWhatItKnows
<1>1. Init => ToldInv BY InitToldInv
<1>2. TableInv /\ TableInv' /\ ToldInv /\ [Next]_vars => ToldInv'
  BY NextToldInv DEF TableInv
<1>3. ToldInv => ToldWhatItKnows BY DEF ToldInv
<1> QED BY <1>1, <1>2, <1>3, AlwaysTableInv, PTL DEF Spec
=============================================================================
