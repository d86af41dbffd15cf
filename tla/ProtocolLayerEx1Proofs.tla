----------------------- MODULE ProtocolLayerEx1Proofs -----------------------
(***************************************************************************)
(* Theorems about ProtocolLayerEx1: the gossip speaks only of transactions *)
(* it can deliver, and between peers that stay connected it forgets none.  *)
(***************************************************************************)
EXTENDS ProtocolLayerEx1, PeerLinksProofs

Message == LinkMessage \cup TxMessage

-----------------------------------------------------------------------------
\* The inductive invariant behind AnnouncedHeld.

\* What a message from p to q may carry, given their pools: an introduction
\* belongs to a connection that p made.
MsgHeld(p, q, from, to, m) ==
  /\ m.type = "notifyPeerId" => <<p, q>> \in Link
  /\ m.type \in {"TXGOSSIP-INV", "TXGOSSIP-TXS"} => m.txs \subseteq from
  /\ m.type = "TXGOSSIP-GETDATA" => m.txs \subseteq to

MessagesHeld ==
  \A p, q \in Node : \A m \in ToSet(chan[<<p, q>>]) : MsgHeld(p, q, txPool[p], txPool[q], m)

\* What is to be announced is in the pool.
ListHeld == \A n \in Node : txToBroadcast[n] \subseteq txPool[n]

HeldInv == TypeOK /\ MessagesHeld /\ ListHeld

\* No step takes a transaction out of a pool.
PoolsGrow == \A n \in Node : txPool[n] \subseteq txPool'[n]

-----------------------------------------------------------------------------
\* Messages.

\* A message of the transaction gossip carries transactions.
LEMMA MessageFields ==
  ASSUME NEW m \in Message
  PROVE  m.type \in {"TXGOSSIP-INV", "TXGOSSIP-GETDATA", "TXGOSSIP-TXS"} => m.txs \in SUBSET Tx
BY DEF Message, LinkMessage, TxMessage

\* The message a handler takes is one of the invariant's.
LEMMA ReceivedMessage ==
  ASSUME HeldInv, NEW n \in Node, NEW s \in Node,
         NEW type \in {"TXGOSSIP-INV", "TXGOSSIP-GETDATA", "TXGOSSIP-TXS"}, HasMsg(s, n, type)
  PROVE  /\ Head(chan[<<s, n>>]).type = type
         /\ Head(chan[<<s, n>>]).txs \in SUBSET Tx
         /\ MsgHeld(s, n, txPool[s], txPool[n], Head(chan[<<s, n>>]))
<1>1. chan \in Channels(Message) BY DEF HeldInv, TypeOK, Message, Channels
<1>2. chan[<<s, n>>] # << >> /\ Head(chan[<<s, n>>]).type = type BY DEF HasMsg
<1>3. Head(chan[<<s, n>>]) \in Message /\ Head(chan[<<s, n>>]) \in ToSet(chan[<<s, n>>])
  BY <1>1, <1>2, TakenMessages
<1>4. MsgHeld(s, n, txPool[s], txPool[n], Head(chan[<<s, n>>])) BY <1>3 DEF HeldInv, MessagesHeld
<1> QED BY <1>2, <1>3, <1>4, MessageFields

\* The invariant's messages stay good while pools grow and new ones are good.
LEMMA MessagesGrow ==
  ASSUME HeldInv, PoolsGrow,
         \A p, q \in Node : \A x \in ToSet(chan'[<<p, q>>]) :
           x \in ToSet(chan[<<p, q>>]) \/ MsgHeld(p, q, txPool'[p], txPool'[q], x)
  PROVE  MessagesHeld'
<1> SUFFICES ASSUME NEW p \in Node, NEW q \in Node, NEW x \in ToSet(chan'[<<p, q>>])
             PROVE  MsgHeld(p, q, txPool'[p], txPool'[q], x)
  BY DEF MessagesHeld
<1>1. CASE x \in ToSet(chan[<<p, q>>])
  <2>1. MsgHeld(p, q, txPool[p], txPool[q], x) BY <1>1 DEF HeldInv, MessagesHeld
  <2>2. txPool[p] \subseteq txPool'[p] /\ txPool[q] \subseteq txPool'[q] BY DEF PoolsGrow
  <2> QED BY <2>1, <2>2 DEF MsgHeld
<1> QED BY <1>1

\* What a handler of n does with the message of s: take it, or also send m.
TakesAndSends(n, s, D, m) == chan' = Taken(s, n) \/ chan' = Sent(Taken(s, n), n, D, m)

\* A handler that takes a message and sends one whose transactions both ends
\* account for keeps the invariant of the messages.
LEMMA HandlerMessages ==
  ASSUME HeldInv, PoolsGrow, NEW n \in Node, NEW s \in Node, NEW D, NEW m \in Message,
         chan[<<s, n>>] # << >>, TakesAndSends(n, s, D, m),
         \A q \in Node \cap D : MsgHeld(n, q, txPool'[n], txPool'[q], m)
  PROVE  chan' \in Channels(Message) /\ MessagesHeld'
<1>1. chan \in Channels(Message) BY DEF HeldInv, TypeOK, Message, Channels
<1>2. PICK ch \in Channels(Message) : ch = Taken(s, n) BY <1>1, TakenMessages
<1>3. \A p, q \in Node : ToSet(ch[<<p, q>>]) \subseteq ToSet(chan[<<p, q>>])
  BY <1>1, <1>2, TakenMessages
<1>4. CASE chan' = Taken(s, n) BY <1>2, <1>3, <1>4, MessagesGrow
<1>5. CASE chan' = Sent(Taken(s, n), n, D, m)
  <2>1. chan' = Sent(ch, n, D, m) BY <1>2, <1>5
  <2>2. /\ chan' \in Channels(Message)
        /\ \A p, q \in Node : \A x \in ToSet(chan'[<<p, q>>]) :
             x \in ToSet(ch[<<p, q>>]) \/ (p = n /\ q \in D /\ x = m)
    BY <2>1, SentMessages
  <2>3. \A p, q \in Node : \A x \in ToSet(chan'[<<p, q>>]) :
          x \in ToSet(chan[<<p, q>>]) \/ MsgHeld(p, q, txPool'[p], txPool'[q], x)
    BY <1>3, <2>2
  <2> QED BY <2>2, <2>3, MessagesGrow
<1> QED BY <1>4, <1>5 DEF TakesAndSends

-----------------------------------------------------------------------------
\* The steps.

\* No step shrinks a pool, and the other variables keep their types.
LEMMA TypesStep ==
  ASSUME HeldInv, [Next]_vars
  PROVE  /\ PoolsGrow
         /\ nbr' \in [Node -> SUBSET Node] /\ linkDowns' \in Nat
         /\ txPool' \in [Node -> SUBSET Tx] /\ txToBroadcast' \in [Node -> SUBSET Tx]
         /\ txGenTimer' \in [Node -> BOOLEAN] /\ txGenNum' \in [Node -> Nat]
<1> USE DEF PoolsGrow
<1> DEFINE Types ==
             /\ nbr \in [Node -> SUBSET Node] /\ linkDowns \in Nat
             /\ txPool \in [Node -> SUBSET Tx] /\ txToBroadcast \in [Node -> SUBSET Tx]
             /\ txGenTimer \in [Node -> BOOLEAN] /\ txGenNum \in [Node -> Nat]
<1>1. Types BY DEF HeldInv, TypeOK
<1>2. CASE UNCHANGED vars BY <1>1, <1>2 DEF vars, linkVars, txVars, genVars
<1>3. ASSUME NEW n \in Node, InitiateProtocol(n) PROVE PoolsGrow /\ Types'
  BY <1>1, <1>3 DEF InitiateProtocol, linkVars, txVars
<1>4. ASSUME NEW n \in Node, NEW t \in Tx, TxGenTimer(n, t) PROVE PoolsGrow /\ Types'
  BY <1>1, <1>4 DEF TxGenTimer, GenerateTx, linkVars
<1>5. ASSUME NEW n \in Node, TxBroadcastTimer(n) PROVE PoolsGrow /\ Types'
  BY <1>1, <1>5 DEF TxBroadcastTimer, BroadcastTimer, genVars
<1>6. ASSUME NEW n \in Node, NEW s \in Node, RecvMsgHandler(n, s) PROVE PoolsGrow /\ Types'
  <2>1. CASE LinkNotify(n, s) /\ UNCHANGED txVars
    BY <1>1, <1>6, <2>1 DEF RecvMsgHandler, LinkNotify, genVars, txVars
  <2>2. CASE RecvInventoryHandler(n, s) \/ RecvGetdataHandler(n, s)
    BY <1>1, <1>6, <2>2 DEF RecvMsgHandler, RecvInventoryHandler, RecvGetdataHandler, genVars
  <2>3. CASE RecvTxsHandler(n, s)
    <3>1. Head(chan[<<s, n>>]).txs \in SUBSET Tx BY <2>3, ReceivedMessage DEF RecvTxsHandler
    <3>2. txPool' = [txPool EXCEPT ![n] = txPool[n] \cup Head(chan[<<s, n>>]).txs]
      BY <2>3 DEF RecvTxsHandler
    <3>3. PoolsGrow /\ txPool' \in [Node -> SUBSET Tx] BY <1>1, <3>1, <3>2
    <3>4. UNCHANGED << nbr, linkDowns, txToBroadcast, txGenTimer, txGenNum >>
      BY <1>6, <2>3 DEF RecvMsgHandler, RecvTxsHandler, genVars
    <3> QED BY <1>1, <3>3, <3>4
  <2> QED BY <1>6, <2>1, <2>2, <2>3 DEF RecvMsgHandler
<1>7. ASSUME NEW n \in Node, NEW s \in Node, PeerConnected(n, s) \/ PeerLost(n, s)
      PROVE  PoolsGrow /\ Types'
  <2>1. /\ UNCHANGED << txPool, txToBroadcast, txGenTimer, txGenNum >>
        /\ linkDowns' \in {linkDowns, linkDowns + 1}
        /\ nbr' = [nbr EXCEPT ![n] = @ \cup {s}] \/ nbr' = [nbr EXCEPT ![n] = @ \ {s}]
    BY <1>7 DEF PeerConnected, LinkUp, PeerLost, LinkDown, txVars, genVars
  <2>2. linkDowns' \in Nat /\ nbr' \in [Node -> SUBSET Node] BY <1>1, <2>1
  <2> QED BY <1>1, <2>1, <2>2
<1> QED BY <1>2, <1>3, <1>4, <1>5, <1>6, <1>7 DEF Next

\* A transaction enters the broadcast list together with the pool.
LEMMA ListStep ==
  ASSUME HeldInv, [Next]_vars, PoolsGrow
  PROVE  ListHeld'
<1>1. ASSUME NEW n \in Node, txToBroadcast'[n] \subseteq txToBroadcast[n]
      PROVE  txToBroadcast'[n] \subseteq txPool'[n]
  BY <1>1 DEF HeldInv, ListHeld, PoolsGrow
<1>2. CASE UNCHANGED txToBroadcast BY <1>1, <1>2 DEF ListHeld
<1>3. ASSUME NEW n \in Node, NEW t \in Tx, TxGenTimer(n, t) PROVE ListHeld'
  <2>1. txPool \in [Node -> SUBSET Tx] /\ txToBroadcast \in [Node -> SUBSET Tx]
    BY DEF HeldInv, TypeOK
  <2>2. /\ txPool' = [txPool EXCEPT ![n] = txPool[n] \cup {t}]
        /\ \/ UNCHANGED txToBroadcast
           \/ txToBroadcast' = [txToBroadcast EXCEPT ![n] = txToBroadcast[n] \cup {t}]
    BY <1>3 DEF TxGenTimer, GenerateTx
  <2> QED BY <2>1, <2>2 DEF HeldInv, ListHeld
<1>4. ASSUME NEW n \in Node, TxBroadcastTimer(n) PROVE ListHeld'
  <2>1. txToBroadcast \in [Node -> SUBSET Tx] BY DEF HeldInv, TypeOK
  <2>2. txToBroadcast' = [txToBroadcast EXCEPT ![n] = {}]
    BY <1>4 DEF TxBroadcastTimer, BroadcastTimer
  <2> QED BY <1>1, <2>1, <2>2 DEF ListHeld
<1>5. ASSUME NEW n \in Node, NEW s \in Node,
             \/ InitiateProtocol(n) \/ RecvMsgHandler(n, s)
             \/ PeerConnected(n, s) \/ PeerLost(n, s)
      PROVE  UNCHANGED txToBroadcast
  BY <1>5 DEF InitiateProtocol, RecvMsgHandler, RecvInventoryHandler, RecvGetdataHandler,
              RecvTxsHandler, PeerConnected, PeerLost, txVars
<1>6. CASE UNCHANGED vars BY <1>2, <1>6 DEF vars, txVars
<1> QED BY <1>2, <1>3, <1>4, <1>5, <1>6 DEF Next

\* Every step keeps the messages good.
LEMMA MessagesStep ==
  ASSUME HeldInv, [Next]_vars
  PROVE  chan' \in Channels(Message) /\ MessagesHeld'
<1> DEFINE Good == chan' \in Channels(Message) /\ MessagesHeld'
<1>1. PoolsGrow /\ chan \in Channels(Message)
  BY TypesStep DEF HeldInv, TypeOK, Message, Channels
<1>2. CASE UNCHANGED chan
  <2>1. \A p, q \in Node : \A x \in ToSet(chan'[<<p, q>>]) : x \in ToSet(chan[<<p, q>>]) BY <1>2
  <2> QED BY <1>1, <1>2, <2>1, MessagesGrow
<1>3. ASSUME NEW n \in Node, TxBroadcastTimer(n) PROVE Good
  <2> DEFINE v == [type |-> "TXGOSSIP-INV", txs |-> txToBroadcast[n]]
  <2>1. v \in Message BY DEF HeldInv, TypeOK, Message, TxMessage
  <2>2. chan' = Sent(chan, n, Node, v) BY <1>3 DEF TxBroadcastTimer, BroadcastTimer
  <2>3. \A q \in Node : MsgHeld(n, q, txPool'[n], txPool'[q], v)
    <3>1. txToBroadcast[n] \subseteq txPool'[n] BY <1>1 DEF PoolsGrow, HeldInv, ListHeld
    <3> QED BY <3>1 DEF MsgHeld
  <2> HIDE DEF v
  <2>4. PICK m \in Message : m = v BY <2>1
  <2>5. /\ chan' \in Channels(Message)
        /\ \A p, q \in Node : \A x \in ToSet(chan'[<<p, q>>]) :
             x \in ToSet(chan[<<p, q>>]) \/ (p = n /\ q \in Node /\ x = m)
    BY <1>1, <2>2, <2>4, SentMessages
  <2>6. \A p, q \in Node : \A x \in ToSet(chan'[<<p, q>>]) :
          x \in ToSet(chan[<<p, q>>]) \/ MsgHeld(p, q, txPool'[p], txPool'[q], x)
    BY <2>3, <2>4, <2>5
  <2> QED BY <1>1, <2>5, <2>6, MessagesGrow
<1>4. ASSUME NEW n \in Node, NEW s \in Node, RecvMsgHandler(n, s) PROVE Good
  <2> DEFINE h == Head(chan[<<s, n>>])
  <2>1. CASE LinkNotify(n, s)
    <3>1. chan[<<s, n>>] # << >> /\ chan' = Taken(s, n) BY <2>1 DEF LinkNotify, HasMsg
    <3>2. /\ chan' \in Channels(Message)
          /\ \A p, q \in Node : ToSet(chan'[<<p, q>>]) \subseteq ToSet(chan[<<p, q>>])
      BY <1>1, <3>1, TakenMessages
    <3> QED BY <1>1, <3>2, MessagesGrow
  <2>2. CASE RecvInventoryHandler(n, s)
    <3> DEFINE v == [type |-> "TXGOSSIP-GETDATA", txs |-> h.txs \ txPool[n]]
    <3>1. HasMsg(s, n, "TXGOSSIP-INV") /\ chan[<<s, n>>] # << >>
      BY <2>2 DEF RecvInventoryHandler, HasMsg
    <3>2. h.txs \in SUBSET Tx /\ h.txs \subseteq txPool[s] BY <3>1, ReceivedMessage DEF MsgHeld
    <3>3. v \in Message BY <3>2 DEF Message, TxMessage
    <3>4. TakesAndSends(n, s, {s}, v) BY <2>2 DEF RecvInventoryHandler, TakesAndSends
    <3>5. \A q \in {s} : MsgHeld(n, q, txPool'[n], txPool'[q], v)
      <4>1. h.txs \ txPool[n] \subseteq txPool'[s] BY <1>1, <3>2 DEF PoolsGrow
      <4> QED BY <4>1 DEF MsgHeld
    <3> HIDE DEF v
    <3>6. PICK m \in Message : m = v BY <3>3
    <3> QED BY <1>1, <3>1, <3>4, <3>5, <3>6, HandlerMessages
  <2>3. CASE RecvGetdataHandler(n, s)
    <3> DEFINE v == [type |-> "TXGOSSIP-TXS", txs |-> h.txs \cap txPool[n]]
    <3>1. HasMsg(s, n, "TXGOSSIP-GETDATA") /\ chan[<<s, n>>] # << >>
      BY <2>3 DEF RecvGetdataHandler, HasMsg
    <3>2. h.txs \in SUBSET Tx BY <3>1, ReceivedMessage
    <3>3. v \in Message BY <3>2 DEF Message, TxMessage
    <3>4. TakesAndSends(n, s, {s}, v) BY <2>3 DEF RecvGetdataHandler, TakesAndSends
    <3>5. \A q \in {s} : MsgHeld(n, q, txPool'[n], txPool'[q], v)
      <4>1. h.txs \cap txPool[n] \subseteq txPool'[n] BY <1>1 DEF PoolsGrow
      <4> QED BY <4>1 DEF MsgHeld
    <3> HIDE DEF v
    <3>6. PICK m \in Message : m = v BY <3>3
    <3> QED BY <1>1, <3>1, <3>4, <3>5, <3>6, HandlerMessages
  <2>4. CASE RecvTxsHandler(n, s)
    <3> DEFINE v == [type |-> "TXGOSSIP-INV", txs |-> h.txs]
    <3>1. HasMsg(s, n, "TXGOSSIP-TXS") /\ chan[<<s, n>>] # << >>
      BY <2>4 DEF RecvTxsHandler, HasMsg
    <3>2. h.txs \in SUBSET Tx BY <3>1, ReceivedMessage
    <3>3. v \in Message BY <3>2 DEF Message, TxMessage
    <3>4. TakesAndSends(n, s, Node \ {s}, v) BY <2>4 DEF RecvTxsHandler, TakesAndSends
    <3>5. \A q \in Node : MsgHeld(n, q, txPool'[n], txPool'[q], v)
      <4>1. txPool \in [Node -> SUBSET Tx] /\ txPool' = [txPool EXCEPT ![n] = txPool[n] \cup h.txs]
        BY <2>4 DEF RecvTxsHandler, HeldInv, TypeOK
      <4>2. h.txs \subseteq txPool'[n] BY <4>1
      <4> QED BY <4>2 DEF MsgHeld
    <3> HIDE DEF v
    <3>6. PICK m \in Message : m = v BY <3>3
    <3> QED BY <1>1, <3>1, <3>4, <3>5, <3>6, HandlerMessages
  <2> QED BY <1>4, <2>1, <2>2, <2>3, <2>4 DEF RecvMsgHandler
<1>5. ASSUME NEW n \in Node, NEW s \in Node, PeerConnected(n, s) PROVE Good
  <2> DEFINE v == [type |-> "notifyPeerId"]
  <2>1. v \in Message BY DEF Message, LinkMessage
  <2>2. chan' = Put(chan, n, {s}, v) BY <1>5 DEF PeerConnected, LinkUp
  <2>3. MsgHeld(n, s, txPool'[n], txPool'[s], v)
    BY <1>5 DEF MsgHeld, PeerConnected, LinkUp
  <2> HIDE DEF v
  <2>4. PICK m \in Message : m = v BY <2>1
  <2>5. /\ chan' \in Channels(Message)
        /\ \A p, q \in Node : \A x \in ToSet(chan'[<<p, q>>]) :
             x \in ToSet(chan[<<p, q>>]) \/ (p = n /\ q \in {s} /\ x = m)
    BY <1>1, <2>2, <2>4, PutMessages
  <2>6. \A p, q \in Node : \A x \in ToSet(chan'[<<p, q>>]) :
          x \in ToSet(chan[<<p, q>>]) \/ MsgHeld(p, q, txPool'[p], txPool'[q], x)
    BY <2>3, <2>4, <2>5
  <2> QED BY <1>1, <2>5, <2>6, MessagesGrow
<1>6. ASSUME NEW n \in Node, NEW s \in Node, PeerLost(n, s) PROVE Good
  <2>1. /\ chan' \in Channels(Message)
        /\ \A p, q \in Node : \A x \in ToSet(chan'[<<p, q>>]) : x \in ToSet(chan[<<p, q>>])
    BY <1>1, <1>6, DownMessages DEF PeerLost
  <2> QED BY <1>1, <2>1, MessagesGrow
<1>7. ASSUME NEW n \in Node, NEW t, InitiateProtocol(n) \/ TxGenTimer(n, t) PROVE UNCHANGED chan
  BY <1>7 DEF InitiateProtocol, TxGenTimer, linkVars
<1>8. CASE UNCHANGED vars BY <1>2, <1>8 DEF vars, linkVars
<1> QED BY <1>2, <1>3, <1>4, <1>5, <1>6, <1>7, <1>8 DEF Next

\* No message is under way in the initial state.
LEMMA InitHeldInv == Init => HeldInv
<1> SUFFICES ASSUME Init PROVE HeldInv OBVIOUS
<1> USE DEF Init, LinkInit, TxInit
<1>1. << >> \in Seq(LinkMessage \cup TxMessage) BY EmptySeq
<1>2. TypeOK BY <1>1 DEF TypeOK
<1>3. MessagesHeld BY DEF MessagesHeld, ToSet
<1> QED BY <1>2, <1>3 DEF HeldInv, ListHeld

\* A step keeps that messages are about transactions their sender holds.
LEMMA NextHeldInv == HeldInv /\ [Next]_vars => HeldInv'
<1> SUFFICES ASSUME HeldInv, [Next]_vars PROVE HeldInv' OBVIOUS
<1>1. chan' \in [Node \X Node -> Seq(LinkMessage \cup TxMessage)] /\ MessagesHeld'
  BY MessagesStep DEF Channels, Message
<1>2. ListHeld' BY TypesStep, ListStep
<1> QED BY <1>1, <1>2, TypesStep DEF HeldInv, TypeOK

\* The invariant behind the properties of the gossip.
THEOREM Held == Spec => []HeldInv
BY InitHeldInv, NextHeldInv, PTL DEF Spec

\* The variables keep their types.
THEOREM TypeCorrect == Spec => []TypeOK
<1>1. HeldInv => TypeOK BY DEF HeldInv
<1> QED BY <1>1, Held, PTL

\* Whatever connections are made and lost: what a node announced or delivered
\* is in its pool, and it is only asked for what its pool has.
THEOREM AnnouncedAlwaysHeld == Spec => []AnnouncedHeld
<1>1. HeldInv => AnnouncedHeld BY DEF HeldInv, MessagesHeld, MsgHeld, AnnouncedHeld, Carried
<1> QED BY <1>1, Held, PTL

-----------------------------------------------------------------------------
\* Connections that stay: every link is up from the start and none is lost.

Static == UpLink = Link

\* The active peers are those of the start.
NbrsFixed == nbr = [n \in Node |-> {m \in Node : <<n, m>> \in UpLink \/ <<m, n>> \in UpLink}]

StaticInv == HeldInv /\ NbrsFixed /\ EveryTxPending

\* What holds in every state, after a loss too.
ForgetInv == HeldInv /\ (linkDowns = 0 => NbrsFixed /\ EveryTxPending)

\* What is in store for transaction t, which n has and m lacks.
Pending(t, n, m) ==
  \/ t \in txToBroadcast[n]
  \/ Carried(t, n, m, "TXGOSSIP-INV")
  \/ Carried(t, m, n, "TXGOSSIP-GETDATA")
  \/ Carried(t, n, m, "TXGOSSIP-TXS")

\* The links are symmetric.
LEMMA NbrsSymmetric ==
  ASSUME NbrsFixed
  PROVE  /\ \A n \in Node : nbr[n] \subseteq Node
         /\ \A n, m \in Node : m \in nbr[n] => n \in nbr[m]
BY DEF NbrsFixed

\* Sending loses nothing and reaches every active peer of D.
LEMMA SentKeeps ==
  ASSUME NEW M, NEW ch \in Channels(M), NEW n \in Node, NEW D, NEW m \in M
  PROVE  /\ \A p, q \in Node : ToSet(ch[<<p, q>>]) \subseteq ToSet(Sent(ch, n, D, m)[<<p, q>>])
         /\ \A q \in Node \cap D \cap nbr[n] : m \in ToSet(Sent(ch, n, D, m)[<<n, q>>])
<1> DEFINE E == D \cap nbr[n]
<1>1. Sent(ch, n, D, m) = Put(ch, n, E, m) BY DEF Sent
<1>2. \A q \in Node \cap D \cap nbr[n] : q \in Node /\ q \in E OBVIOUS
<1> HIDE DEF E
<1> QED BY <1>1, <1>2, PutKeeps

\* A handler of n keeps all messages but the one it takes, and if it sends m
\* then m is on its way to every peer in D.
LEMMA HandlerKeeps ==
  ASSUME HeldInv, NEW n \in Node, NEW s \in Node, NEW D, NEW m \in Message,
         chan[<<s, n>>] # << >>
  PROVE  /\ TakesAndSends(n, s, D, m) =>
              \A p, q \in Node : \A x \in ToSet(chan[<<p, q>>]) :
                x \in ToSet(chan'[<<p, q>>]) \/ (p = s /\ q = n /\ x = Head(chan[<<s, n>>]))
         /\ chan' = Sent(Taken(s, n), n, D, m) =>
              \A q \in Node \cap D \cap nbr[n] : m \in ToSet(chan'[<<n, q>>])
<1>1. chan \in Channels(Message) BY DEF HeldInv, TypeOK, Message, Channels
<1>2. PICK ch \in Channels(Message) : ch = Taken(s, n) BY <1>1, TakenMessages
<1>3. \A p, q \in Node : \A x \in ToSet(chan[<<p, q>>]) :
        x \in ToSet(ch[<<p, q>>]) \/ (p = s /\ q = n /\ x = Head(chan[<<s, n>>]))
  <2>1. \A p, q \in Node : \A x \in ToSet(chan[<<p, q>>]) :
          x \in ToSet(Taken(s, n)[<<p, q>>]) \/ (p = s /\ q = n /\ x = Head(chan[<<s, n>>]))
    BY <1>1, TakenKeeps
  <2> QED BY <1>2, <2>1
<1>4. CASE chan' = Taken(s, n) /\ chan' # Sent(Taken(s, n), n, D, m) BY <1>2, <1>3, <1>4
<1>5. CASE chan' = Sent(Taken(s, n), n, D, m)
  <2>1. /\ \A p, q \in Node : ToSet(ch[<<p, q>>]) \subseteq ToSet(chan'[<<p, q>>])
        /\ \A q \in Node \cap D \cap nbr[n] : m \in ToSet(chan'[<<n, q>>])
    BY <1>2, <1>5, SentKeeps
  <2> QED BY <1>3, <2>1
<1> QED BY <1>4, <1>5 DEF TakesAndSends

\* What is pending stays pending while nothing is lost.
LEMMA PendingKept ==
  ASSUME NEW t, NEW n \in Node, NEW m \in Node, Pending(t, n, m),
         txToBroadcast[n] \subseteq txToBroadcast'[n],
         ToSet(chan[<<n, m>>]) \subseteq ToSet(chan'[<<n, m>>]),
         ToSet(chan[<<m, n>>]) \subseteq ToSet(chan'[<<m, n>>])
  PROVE  Pending(t, n, m)'
BY DEF Pending, Carried

\* A message of type under way that carries t.
LEMMA CarriedBy ==
  ASSUME NEW t, NEW p, NEW q, NEW type, NEW m \in ToSet(chan'[<<p, q>>]),
         m.type = type, t \in m.txs
  PROVE  Carried(t, p, q, type)'
BY DEF Carried

\* The handlers: a handled announcement turns into a request, a request into a
\* delivery, and a delivery fills the receiver's pool and is announced on.
LEMMA HandlerForgetsNothing ==
  ASSUME StaticInv, NEW k \in Node, NEW s \in Node, RecvMsgHandler(k, s), UNCHANGED nbr,
         NEW n \in Node, NEW m \in nbr[n], NEW t \in txPool'[n] \ txPool'[m]
  PROVE  Pending(t, n, m)'
<1> DEFINE h == Head(chan[<<s, k>>])
<1>1. HeldInv /\ txPool \in [Node -> SUBSET Tx] /\ m \in Node /\ n \in nbr[m]
  BY NbrsSymmetric DEF StaticInv, HeldInv, TypeOK
<1>2. UNCHANGED txToBroadcast
  BY DEF RecvMsgHandler, RecvInventoryHandler, RecvGetdataHandler, RecvTxsHandler, txVars
<1>3. PoolsGrow
  <2>1. [Next]_vars BY DEF Next
  <2> QED BY <1>1, <2>1, TypesStep
<1>4. t \notin txPool[m] BY <1>1, <1>3 DEF PoolsGrow
<1>5. t \in txPool[n] => Pending(t, n, m)
  BY <1>1, <1>4 DEF StaticInv, EveryTxPending, Pending
<1>6. CASE LinkNotify(k, s) /\ UNCHANGED txVars
  <2>1. chan[<<s, k>>] # << >> /\ chan' = Taken(s, k) /\ h.type = "notifyPeerId"
    BY <1>6 DEF LinkNotify, HasMsg
  <2>2. chan \in Channels(Message) BY <1>1 DEF HeldInv, TypeOK, Message, Channels
  <2>3. \A p, q \in Node : \A x \in ToSet(chan[<<p, q>>]) :
          x \in ToSet(Taken(s, k)[<<p, q>>]) \/ (p = s /\ q = k /\ x = h)
    BY <2>1, <2>2, TakenKeeps
  <2>4. \A p, q \in Node : \A x \in ToSet(chan[<<p, q>>]) :
          x \in ToSet(chan'[<<p, q>>]) \/ (p = s /\ q = k /\ x = h)
    BY <2>1, <2>3
  <2>5. Pending(t, n, m) BY <1>5, <1>6 DEF txVars
  <2> HIDE DEF h
  <2> QED BY <1>1, <1>2, <2>1, <2>4, <2>5 DEF Pending, Carried
<1>7. CASE RecvInventoryHandler(k, s)
  <2> DEFINE v == [type |-> "TXGOSSIP-GETDATA", txs |-> h.txs \ txPool[k]]
  <2>1. HasMsg(s, k, "TXGOSSIP-INV") /\ chan[<<s, k>>] # << >> /\ UNCHANGED txPool
    BY <1>7 DEF RecvInventoryHandler, HasMsg
  <2>2. h.txs \in SUBSET Tx /\ h.type = "TXGOSSIP-INV" BY <1>1, <2>1, ReceivedMessage
  <2>3. v \in Message BY <2>2 DEF Message, TxMessage
  <2>4. /\ TakesAndSends(k, s, {s}, v)
        /\ h.txs \ txPool[k] # {} => chan' = Sent(Taken(s, k), k, {s}, v)
    BY <1>7 DEF RecvInventoryHandler, TakesAndSends
  <2>5. Pending(t, n, m) BY <1>5, <2>1
  <2>6. v.type = "TXGOSSIP-GETDATA" /\ v.txs = h.txs \ txPool[k] OBVIOUS
  <2> HIDE DEF v
  <2>7. PICK w \in Message : w = v BY <2>3
  <2>8. \A p, q \in Node : \A x \in ToSet(chan[<<p, q>>]) :
          x \in ToSet(chan'[<<p, q>>]) \/ (p = s /\ q = k /\ x = h)
    BY <1>1, <2>1, <2>4, <2>7, HandlerKeeps
  <2> HIDE DEF h
  <2>9. CASE n = s /\ m = k /\ t \in h.txs
    <3>1. t \in w.txs BY <1>4, <2>6, <2>7, <2>9
    <3>2. w \in ToSet(chan'[<<k, s>>])
      <4>1. chan' = Sent(Taken(s, k), k, {s}, w) BY <2>4, <2>6, <2>7, <3>1
      <4>2. s \in Node \cap {s} \cap nbr[k] BY <1>1, <2>9
      <4> QED BY <1>1, <2>1, <4>1, <4>2, HandlerKeeps, ZenonT(40)
    <3>3. Carried(t, m, n, "TXGOSSIP-GETDATA")' BY <2>6, <2>7, <2>9, <3>1, <3>2, CarriedBy
    <3> QED BY <3>3 DEF Pending
  <2>10. CASE ~ (n = s /\ m = k /\ t \in h.txs)
    BY <1>1, <1>2, <2>2, <2>5, <2>8, <2>10 DEF Pending, Carried
  <2> QED BY <2>9, <2>10
<1>8. CASE RecvGetdataHandler(k, s)
  <2> DEFINE v == [type |-> "TXGOSSIP-TXS", txs |-> h.txs \cap txPool[k]]
  <2>1. HasMsg(s, k, "TXGOSSIP-GETDATA") /\ chan[<<s, k>>] # << >> /\ UNCHANGED txPool
    BY <1>8 DEF RecvGetdataHandler, HasMsg
  <2>2. h.txs \in SUBSET Tx /\ h.type = "TXGOSSIP-GETDATA" BY <1>1, <2>1, ReceivedMessage
  <2>3. v \in Message BY <2>2 DEF Message, TxMessage
  <2>4. /\ TakesAndSends(k, s, {s}, v)
        /\ h.txs \cap txPool[k] # {} => chan' = Sent(Taken(s, k), k, {s}, v)
    BY <1>8 DEF RecvGetdataHandler, TakesAndSends
  <2>5. Pending(t, n, m) BY <1>5, <2>1
  <2>6. v.type = "TXGOSSIP-TXS" /\ v.txs = h.txs \cap txPool[k] OBVIOUS
  <2> HIDE DEF v
  <2>7. PICK w \in Message : w = v BY <2>3
  <2>8. \A p, q \in Node : \A x \in ToSet(chan[<<p, q>>]) :
          x \in ToSet(chan'[<<p, q>>]) \/ (p = s /\ q = k /\ x = h)
    BY <1>1, <2>1, <2>4, <2>7, HandlerKeeps
  <2> HIDE DEF h
  <2>9. CASE n = k /\ m = s /\ t \in h.txs
    <3>1. t \in w.txs BY <2>1, <2>6, <2>7, <2>9
    <3>2. w \in ToSet(chan'[<<k, s>>])
      <4>1. chan' = Sent(Taken(s, k), k, {s}, w) BY <2>4, <2>6, <2>7, <3>1
      <4>2. s \in Node \cap {s} \cap nbr[k] BY <1>1, <2>9
      <4> QED BY <1>1, <2>1, <4>1, <4>2, HandlerKeeps, ZenonT(40)
    <3>3. Carried(t, n, m, "TXGOSSIP-TXS")' BY <2>6, <2>7, <2>9, <3>1, <3>2, CarriedBy
    <3> QED BY <3>3 DEF Pending
  <2>10. CASE ~ (n = k /\ m = s /\ t \in h.txs)
    BY <1>1, <1>2, <2>2, <2>5, <2>8, <2>10 DEF Pending, Carried
  <2> QED BY <2>9, <2>10
<1>9. CASE RecvTxsHandler(k, s)
  <2> DEFINE v == [type |-> "TXGOSSIP-INV", txs |-> h.txs]
  <2>1. HasMsg(s, k, "TXGOSSIP-TXS") /\ chan[<<s, k>>] # << >>
    BY <1>9 DEF RecvTxsHandler, HasMsg
  <2>2. h.txs \in SUBSET Tx /\ h.type = "TXGOSSIP-TXS" /\ h.txs \subseteq txPool[s]
    BY <1>1, <2>1, ReceivedMessage DEF MsgHeld
  <2>3. v \in Message BY <2>2 DEF Message, TxMessage
  <2>4. chan' = Sent(Taken(s, k), k, Node \ {s}, v) BY <1>9 DEF RecvTxsHandler
  <2>5. txPool' = [txPool EXCEPT ![k] = txPool[k] \cup h.txs] BY <1>9 DEF RecvTxsHandler
  <2>6. v.type = "TXGOSSIP-INV" /\ v.txs = h.txs OBVIOUS
  <2> HIDE DEF v
  <2>7. PICK w \in Message : w = v BY <2>3
  <2>8. \A p, q \in Node : \A x \in ToSet(chan[<<p, q>>]) :
          x \in ToSet(chan'[<<p, q>>]) \/ (p = s /\ q = k /\ x = h)
    <3>1. TakesAndSends(k, s, Node \ {s}, w) BY <2>4, <2>7 DEF TakesAndSends
    <3> QED BY <1>1, <2>1, <3>1, HandlerKeeps
  <2>9. \A q \in Node \cap (Node \ {s}) \cap nbr[k] : w \in ToSet(chan'[<<k, q>>])
    <3> DEFINE D == Node \ {s}
    <3>1. chan' = Sent(Taken(s, k), k, D, w) BY <2>4, <2>7
    <3> HIDE DEF D
    <3>2. \A q \in Node \cap D \cap nbr[k] : w \in ToSet(chan'[<<k, q>>])
      BY <1>1, <2>1, <3>1, HandlerKeeps
    <3> QED BY <3>2 DEF D
  <2> HIDE DEF h
  <2>10. CASE t \in txPool[n]
    <3>1. Pending(t, n, m) BY <1>5, <2>10
    <3>2. ~ (n = s /\ m = k /\ t \in h.txs) BY <1>1, <2>5
    <3> QED BY <1>1, <1>2, <2>2, <2>8, <3>1, <3>2 DEF Pending, Carried
  <2>11. CASE t \notin txPool[n]
    <3>1. n = k /\ t \in h.txs BY <1>1, <2>5, <2>11
    <3>2. m # s BY <1>4, <2>2, <3>1
    <3>3. w \in ToSet(chan'[<<n, m>>]) BY <1>1, <2>9, <3>1, <3>2
    <3>4. Carried(t, n, m, "TXGOSSIP-INV")' BY <2>6, <2>7, <3>1, <3>3, CarriedBy
    <3> QED BY <3>4 DEF Pending
  <2> QED BY <2>10, <2>11
<1> QED BY <1>6, <1>7, <1>8, <1>9 DEF RecvMsgHandler

\* The timers: a new transaction enters pool and list together, and leaves the
\* list when it is announced to every active peer.
LEMMA TimersForgetNothing ==
  ASSUME StaticInv, NEW k \in Node, NEW x \in Tx,
         TxGenTimer(k, x) \/ TxBroadcastTimer(k),
         NEW n \in Node, NEW m \in nbr[n], NEW t \in txPool'[n] \ txPool'[m]
  PROVE  Pending(t, n, m)'
<1>1. /\ HeldInv /\ m \in Node
      /\ txPool \in [Node -> SUBSET Tx] /\ txToBroadcast \in [Node -> SUBSET Tx]
  BY NbrsSymmetric DEF StaticInv, HeldInv, TypeOK
<1>2. t \notin txPool[m]
  <2>1. [Next]_vars /\ PoolsGrow
    <3>1. Next BY DEF Next
    <3> QED BY <1>1, <3>1, TypesStep
  <2> QED BY <1>1, <2>1 DEF PoolsGrow
<1>3. t \in txPool[n] => Pending(t, n, m)
  BY <1>1, <1>2 DEF StaticInv, EveryTxPending, Pending
<1>4. CASE TxGenTimer(k, x)
  <2>1. /\ txPool' = [txPool EXCEPT ![k] = txPool[k] \cup {x}]
        /\ x \notin txPool[k] => txToBroadcast' = [txToBroadcast EXCEPT ![k] = txToBroadcast[k] \cup {x}]
        /\ x \in txPool[k] => UNCHANGED txToBroadcast
        /\ UNCHANGED chan
    BY <1>4 DEF TxGenTimer, GenerateTx, linkVars
  <2>2. CASE t \in txPool[n]
    <3>1. txToBroadcast[n] \subseteq txToBroadcast'[n] BY <1>1, <2>1
    <3> QED BY <1>1, <1>3, <2>1, <2>2, <3>1, PendingKept
  <2>3. CASE t \notin txPool[n]
    <3>1. n = k /\ t = x BY <1>1, <2>1, <2>3
    <3> QED BY <1>1, <2>1, <2>3, <3>1 DEF Pending
  <2> QED BY <2>2, <2>3
<1>5. CASE TxBroadcastTimer(k)
  <2> DEFINE v == [type |-> "TXGOSSIP-INV", txs |-> txToBroadcast[k]]
  <2>1. /\ chan' = Sent(chan, k, Node, v) /\ UNCHANGED txPool
        /\ txToBroadcast' = [txToBroadcast EXCEPT ![k] = {}]
    BY <1>5 DEF TxBroadcastTimer, BroadcastTimer
  <2>2. v \in Message BY <1>1 DEF Message, TxMessage
  <2>3. v.type = "TXGOSSIP-INV" /\ v.txs = txToBroadcast[k] OBVIOUS
  <2> HIDE DEF v
  <2>4. PICK w \in Message : w = v BY <2>2
  <2>5. chan \in Channels(Message) BY <1>1 DEF HeldInv, TypeOK, Message, Channels
  <2>6. /\ \A p, q \in Node : ToSet(chan[<<p, q>>]) \subseteq ToSet(chan'[<<p, q>>])
        /\ \A q \in Node \cap Node \cap nbr[k] : w \in ToSet(chan'[<<k, q>>])
    BY <2>1, <2>4, <2>5, SentKeeps
  <2>7. Pending(t, n, m) BY <1>3, <2>1
  <2>8. CASE n = k /\ t \in txToBroadcast[k]
    <3>1. w \in ToSet(chan'[<<n, m>>]) BY <1>1, <2>6, <2>8
    <3>2. Carried(t, n, m, "TXGOSSIP-INV")' BY <2>3, <2>4, <2>8, <3>1, CarriedBy
    <3> QED BY <3>2 DEF Pending
  <2>9. CASE ~ (n = k /\ t \in txToBroadcast[k])
    <3>1. t \in txToBroadcast[n] => t \in txToBroadcast'[n] BY <1>1, <2>1, <2>9
    <3> QED BY <1>1, <2>6, <2>7, <3>1 DEF Pending, Carried
  <2> QED BY <2>8, <2>9
<1> QED BY <1>4, <1>5

\* Static connections stay as they are.
LEMMA StaticNbrs ==
  ASSUME Static, StaticInv, [Next]_vars, linkDowns' = 0
  PROVE  /\ UNCHANGED nbr
         /\ \A n, s \in Node : ~ PeerConnected(n, s) /\ ~ PeerLost(n, s)
<1>1. HeldInv /\ NbrsFixed BY DEF StaticInv
<1>2. ASSUME NEW n \in Node, NEW s \in Node, PeerConnected(n, s) PROVE FALSE
  <2>1. <<n, s>> \in UpLink /\ s \notin nbr[n] BY <1>2 DEF PeerConnected, LinkUp, Static
  <2> QED BY <1>1, <2>1 DEF NbrsFixed
<1>3. ASSUME NEW n \in Node, NEW s \in Node, PeerLost(n, s) PROVE FALSE
  <2>1. linkDowns' = linkDowns + 1 BY <1>3 DEF PeerLost, LinkDown
  <2>2. linkDowns \in Nat BY <1>1 DEF HeldInv, TypeOK
  <2> QED BY <2>1, <2>2
<1>4. ASSUME NEW n \in Node, NEW s \in Node, LinkNotify(n, s) PROVE UNCHANGED nbr
  <2> DEFINE h == Head(chan[<<s, n>>])
  <2>1. /\ chan[<<s, n>>] # << >> /\ h.type = "notifyPeerId"
        /\ nbr' = [nbr EXCEPT ![n] = @ \cup {s}]
    BY <1>4 DEF LinkNotify, HasMsg
  <2>2. chan \in Channels(Message) BY <1>1 DEF HeldInv, TypeOK, Message, Channels
  <2>3. h \in ToSet(chan[<<s, n>>]) BY <2>1, <2>2, TakenMessages
  <2>4. <<s, n>> \in Link BY <1>1, <2>1, <2>3 DEF HeldInv, MessagesHeld, MsgHeld
  <2>5. s \in nbr[n] BY <1>1, <2>4 DEF NbrsFixed, Static
  <2> QED BY <1>1, <2>1, <2>5 DEF HeldInv, TypeOK
<1>5. ASSUME NEW n \in Node, NEW s \in Node, RecvMsgHandler(n, s) PROVE UNCHANGED nbr
  BY <1>4, <1>5 DEF RecvMsgHandler, RecvInventoryHandler, RecvGetdataHandler, RecvTxsHandler
<1>6. ASSUME NEW n \in Node, NEW t,
             InitiateProtocol(n) \/ TxGenTimer(n, t) \/ TxBroadcastTimer(n)
      PROVE  UNCHANGED nbr
  BY <1>6 DEF InitiateProtocol, TxGenTimer, TxBroadcastTimer, BroadcastTimer, linkVars
<1>7. CASE UNCHANGED vars BY <1>2, <1>3, <1>7 DEF vars, linkVars
<1> QED BY <1>2, <1>3, <1>5, <1>6, <1>7 DEF Next

\* Every step forgets nothing.
LEMMA StaticStep ==
  ASSUME Static, StaticInv, [Next]_vars, linkDowns' = 0
  PROVE  StaticInv'
<1>1. HeldInv' BY NextHeldInv DEF StaticInv
<1>2. UNCHANGED nbr BY StaticNbrs
<1>3. NbrsFixed' BY <1>2 DEF StaticInv, NbrsFixed
<1>4. SUFFICES ASSUME NEW n \in Node, NEW m \in nbr[n], NEW t \in txPool'[n] \ txPool'[m]
               PROVE  Pending(t, n, m)'
  BY <1>1, <1>2, <1>3 DEF StaticInv, EveryTxPending, Pending
<1>5. ASSUME NEW k \in Node, NEW s \in Node, RecvMsgHandler(k, s) PROVE Pending(t, n, m)'
  BY <1>2, <1>5, HandlerForgetsNothing
<1>6. ASSUME NEW k \in Node, NEW x \in Tx, TxGenTimer(k, x) PROVE Pending(t, n, m)'
  BY <1>6, TimersForgetNothing
<1>7. ASSUME NEW k \in Node, TxBroadcastTimer(k) PROVE Pending(t, n, m)'
  <2>1. m \in Node /\ txPool[n] \subseteq Tx /\ txPool'[n] \subseteq Tx
    BY <1>1, NbrsSymmetric DEF StaticInv, HeldInv, TypeOK
  <2>2. t \in Tx BY <2>1
  <2> QED BY <1>7, <2>2, TimersForgetNothing
<1>8. ASSUME NEW k \in Node, InitiateProtocol(k) \/ UNCHANGED vars PROVE Pending(t, n, m)'
  <2>1. m \in Node BY NbrsSymmetric DEF StaticInv
  <2>2. UNCHANGED << linkVars, txVars >> BY <1>8 DEF InitiateProtocol, vars
  <2>3. Pending(t, n, m) BY <2>2 DEF StaticInv, EveryTxPending, Pending, txVars
  <2> QED BY <2>1, <2>2, <2>3, PendingKept DEF linkVars, txVars
<1> QED BY <1>5, <1>6, <1>7, <1>8, StaticNbrs DEF Next

\* A loss is never forgotten: the count starts at 0 and only grows.
LEMMA LossesCounted ==
  ASSUME HeldInv, [Next]_vars, linkDowns' = 0
  PROVE  linkDowns = 0
<1>1. linkDowns \in Nat BY DEF HeldInv, TypeOK
<1>2. ASSUME NEW n \in Node, NEW s \in Node, PeerLost(n, s) PROVE FALSE
  BY <1>1, <1>2 DEF PeerLost, LinkDown
<1>3. ASSUME NEW n \in Node, NEW s \in Node, RecvMsgHandler(n, s) \/ PeerConnected(n, s)
      PROVE  UNCHANGED linkDowns
  BY <1>3 DEF RecvMsgHandler, LinkNotify, RecvInventoryHandler, RecvGetdataHandler,
              RecvTxsHandler, PeerConnected, LinkUp
<1>4. ASSUME NEW n \in Node, NEW t,
             InitiateProtocol(n) \/ TxGenTimer(n, t) \/ TxBroadcastTimer(n)
      PROVE  UNCHANGED linkDowns
  BY <1>4 DEF InitiateProtocol, TxGenTimer, TxBroadcastTimer, BroadcastTimer, linkVars
<1>5. CASE UNCHANGED vars BY <1>5 DEF vars, linkVars
<1> QED BY <1>2, <1>3, <1>4, <1>5 DEF Next

\* In a network whose connections stand at the start no transaction is forgotten
\* before the first loss: what a node has and its neighbour lacks is still to
\* be announced, requested or delivered.
THEOREM NothingForgotten ==
  ASSUME UpLink = Link
  PROVE  Spec => []NoTxForgotten
<1>1. Static BY DEF Static
<1>2. Init => ForgetInv
  <2>1. ASSUME Init PROVE NbrsFixed /\ EveryTxPending
    BY <2>1 DEF Init, LinkInit, TxInit, NbrsFixed, EveryTxPending
  <2> QED BY <2>1, InitHeldInv DEF ForgetInv
<1>3. ForgetInv /\ [Next]_vars => ForgetInv'
  <2> SUFFICES ASSUME ForgetInv, [Next]_vars PROVE ForgetInv' OBVIOUS
  <2>1. HeldInv' BY NextHeldInv DEF ForgetInv
  <2>2. ASSUME linkDowns' = 0 PROVE StaticInv'
    BY <1>1, <2>2, LossesCounted, StaticStep DEF ForgetInv, StaticInv
  <2> QED BY <2>1, <2>2 DEF ForgetInv, StaticInv
<1>4. ForgetInv => NoTxForgotten BY DEF ForgetInv, NoTxForgotten
<1> QED BY <1>2, <1>3, <1>4, PTL DEF Spec
=============================================================================
