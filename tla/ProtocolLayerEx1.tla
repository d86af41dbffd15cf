--------------------------- MODULE ProtocolLayerEx1 ---------------------------
(***************************************************************************)
(* BL3_protocol/ProtocolLayerEx1: the transaction gossip alone.  Nodes     *)
(* generate transactions and spread them with TxGossipProtocol; nothing    *)
(* ever leaves a pool.                                                     *)
(***************************************************************************)
EXTENDS TxGossipProtocol, SequencesExt

CONSTANTS Generators,     \* the nodes whose program calls InitiateProtocol
          MaxTxGen        \* bound: transactions generated per node

ASSUME Ex1Assumption == Generators \subseteq Node /\ MaxTxGen \in Nat

VARIABLES txGenTimer,     \* txGenTimer[n]: _txgentimer is running
          txGenNum        \* transactions generated so far (for the bound)

genVars == << txGenTimer, txGenNum >>
vars == << linkVars, txVars, genVars >>

Init ==
  /\ LinkInit
  /\ TxInit
  /\ txGenTimer = [n \in Node |-> FALSE]
  /\ txGenNum = [n \in Node |-> 0]

\* InitiateProtocol: starts the timer, or starts it again.
InitiateProtocol(n) ==
  /\ n \in Generators
  /\ txGenTimer' = [txGenTimer EXCEPT ![n] = TRUE]
  /\ UNCHANGED << linkVars, txVars, txGenNum >>

\* _txgentimerCallback.
TxGenTimer(n, t) ==
  /\ txGenTimer[n]
  /\ txGenNum[n] < MaxTxGen
  /\ txGenNum' = [txGenNum EXCEPT ![n] = @ + 1]
  /\ GenerateTx(n, t)
  /\ UNCHANGED << linkVars, txGenTimer >>

TxBroadcastTimer(n) == BroadcastTimer(n) /\ UNCHANGED genVars

\* Node n handles the oldest message of s: the peer layer's introduction, or a
\* message for RecvMsgHandler.
RecvMsgHandler(n, s) ==
  /\ \/ LinkNotify(n, s) /\ UNCHANGED txVars
     \/ RecvInventoryHandler(n, s)
     \/ RecvGetdataHandler(n, s)
     \/ RecvTxsHandler(n, s)
  /\ UNCHANGED genVars

\* Connections come and go without any handler of the protocol layer.
PeerConnected(n, s) == LinkUp(n, s) /\ UNCHANGED << txVars, genVars >>

PeerLost(n, s) == LinkDown(n, s) /\ UNCHANGED << txVars, genVars >>

Next ==
  \/ \E n \in Node :
       \/ InitiateProtocol(n)
       \/ \E t \in Tx : TxGenTimer(n, t)
       \/ TxBroadcastTimer(n)
  \/ \E n, s \in Node :
       \/ RecvMsgHandler(n, s)
       \/ PeerConnected(n, s)
       \/ PeerLost(n, s)

Spec == Init /\ [][Next]_vars

\* The broadcast timer is periodic and runs from the constructor on; the event
\* loop gets to every message that arrived.
Fairness ==
  /\ \A n \in Node : WF_vars(TxBroadcastTimer(n))
  /\ \A n, s \in Node : WF_vars(RecvMsgHandler(n, s))

FairSpec == Spec /\ Fairness
-----------------------------------------------------------------------------
\* Properties.

TypeOK ==
  /\ nbr \in [Node -> SUBSET Node]
  /\ chan \in [Node \X Node -> Seq(LinkMessage \cup TxMessage)]
  /\ linkDowns \in Nat
  /\ txPool \in [Node -> SUBSET Tx]
  /\ txToBroadcast \in [Node -> SUBSET Tx]
  /\ txGenTimer \in [Node -> BOOLEAN]
  /\ txGenNum \in [Node -> Nat]

\* Transaction t is in a message of the type on the way from s to n.
Carried(t, s, n, type) ==
  \E m \in ToSet(chan[<<s, n>>]) : m.type = type /\ t \in m.txs

\* Nobody speaks of a transaction that he cannot deliver: what a node announced
\* or delivered is in its pool, and it is only asked for what its pool has, so
\* no request goes unanswered, also across lost and renewed connections.
AnnouncedHeld ==
  \A s, n \in Node : \A t \in Tx :
    \/ Carried(t, s, n, "TXGOSSIP-INV")
    \/ Carried(t, s, n, "TXGOSSIP-TXS")
    \/ Carried(t, n, s, "TXGOSSIP-GETDATA")
    => t \in txPool[s]

\* What n has and its neighbour m lacks is still to be announced by n, or
\* announcement, request or delivery is under way between the two.
EveryTxPending ==
  \A n \in Node : \A m \in nbr[n] : \A t \in txPool[n] \ txPool[m] :
    \/ t \in txToBroadcast[n]
    \/ Carried(t, n, m, "TXGOSSIP-INV")
    \/ Carried(t, m, n, "TXGOSSIP-GETDATA")
    \/ Carried(t, n, m, "TXGOSSIP-TXS")

\* Between peers that stay connected no transaction is forgotten.  (A peer that
\* connects later is told nothing: the protocol layer has no handler for it.)
NoTxForgotten == linkDowns = 0 => EveryTxPending

\* A transaction that its generator is to broadcast reaches every pool of a
\* connected network, unless a connection is lost.
TxReachesAll == \A n \in Generators : \A t \in Tx :
  t \in txToBroadcast[n] ~> linkDowns > 0 \/ \A m \in Node : t \in txPool[m]

\* The gossip comes to an end, in networks with cycles and over lost and renewed
\* connections too: every delivery relays an announcement, but only what a pool
\* lacks is asked for.
GossipQuiets == <>[](\A l \in Node \X Node : chan[l] = << >>)
=============================================================================
