--------------------------- MODULE TxGossipProtocol ---------------------------
(***************************************************************************)
(* BL3_protocol/TxGossipProtocol and TxPool: transactions spread by        *)
(* inventory, getdata and txs messages.  The class is a part of both       *)
(* protocols (ProtocolLayerEx1 and ProtocolLayerPoW): the actions here are *)
(* its handlers, which the protocol modules complete.                      *)
(*                                                                         *)
(* A transaction is its id.  Ids are ordered (SimpleTransactionId::        *)
(* operator<) and a node may generate an id again: the id does not include *)
(* the hash or the time.                                                   *)
(***************************************************************************)
EXTENDS PeerLinks, FiniteSets

CONSTANTS Tx,             \* transaction ids
          TxBroadcasters  \* bound: the nodes whose 30 s broadcast timer
                          \* expires within the modelled time

ASSUME TxAssumption == Tx \subseteq Nat /\ TxBroadcasters \subseteq Node

VARIABLES txPool,         \* txPool[n]: TxPool::items
          txToBroadcast   \* txToBroadcast[n]: _txToBroadcast

txVars == << txPool, txToBroadcast >>

TxInit ==
  /\ txPool = [n \in Node |-> {}]
  /\ txToBroadcast = [n \in Node |-> {}]

TxMessage == [type : {"TXGOSSIP-INV", "TXGOSSIP-GETDATA", "TXGOSSIP-TXS"}, txs : SUBSET Tx]

\* TxPool::GetTxs: the first num pool entries in key order, none if too few.
GetTxs(pool, num) ==
  IF Cardinality(pool) < num THEN {}
  ELSE {t \in pool : Cardinality({u \in pool : u < t}) < num}

\* Mutant of GenerateTx: listed for broadcast, missing in the pool.
GenerateTxListOnly(n, t) ==
  /\ txToBroadcast' = [txToBroadcast EXCEPT ![n] = @ \cup {t}]
  /\ UNCHANGED txPool

\* The part of _txgentimerCallback that both protocols share: the new
\* transaction goes to the pool and to the broadcast list unless the pool
\* already has one with this id.
GenerateTx(n, t) ==
  /\ txPool' = [txPool EXCEPT ![n] = @ \cup {t}]
  /\ txToBroadcast' = IF t \in txPool[n] THEN txToBroadcast
                      ELSE [txToBroadcast EXCEPT ![n] = @ \cup {t}]

\* Mutant of BroadcastTimer: the ids travel under an unknown message type.
BroadcastTimerMistyped(n) ==
  /\ n \in TxBroadcasters
  /\ txToBroadcast[n] # {}
  /\ chan' = Sent(chan, n, Node, [type |-> "POWBLOCK-INV", txs |-> txToBroadcast[n]])
  /\ txToBroadcast' = [txToBroadcast EXCEPT ![n] = {}]
  /\ UNCHANGED << nbr, linkDowns, txPool >>

\* _txbroadcasttimerCallback: announce the list to the neighbours of this very
\* moment and forget it (also when there are none).
BroadcastTimer(n) ==
  /\ n \in TxBroadcasters
  /\ txToBroadcast[n] # {}
  /\ chan' = Sent(chan, n, Node, [type |-> "TXGOSSIP-INV", txs |-> txToBroadcast[n]])
  /\ txToBroadcast' = [txToBroadcast EXCEPT ![n] = {}]
  /\ UNCHANGED << nbr, linkDowns, txPool >>

\* Mutant of RecvInventoryHandler: ask for everything announced.
RecvInventoryHandlerAskAll(n, s) ==
  /\ HasMsg(s, n, "TXGOSSIP-INV")
  /\ chan' = Sent(Taken(s, n), n, {s},
                  [type |-> "TXGOSSIP-GETDATA", txs |-> Head(chan[<<s, n>>]).txs])
  /\ UNCHANGED << nbr, linkDowns, txPool, txToBroadcast >>

\* RecvInventoryHandler: ask the sender for what the pool lacks.
RecvInventoryHandler(n, s) ==
  /\ HasMsg(s, n, "TXGOSSIP-INV")
  /\ LET missing == Head(chan[<<s, n>>]).txs \ txPool[n]
     IN  chan' = IF missing = {} THEN Taken(s, n)
                 ELSE Sent(Taken(s, n), n, {s}, [type |-> "TXGOSSIP-GETDATA", txs |-> missing])
  /\ UNCHANGED << nbr, linkDowns, txPool, txToBroadcast >>

\* RecvGetdataHandler: answer with what the pool still has.
RecvGetdataHandler(n, s) ==
  /\ HasMsg(s, n, "TXGOSSIP-GETDATA")
  /\ LET held == Head(chan[<<s, n>>]).txs \cap txPool[n]
     IN  chan' = IF held = {} THEN Taken(s, n)
                 ELSE Sent(Taken(s, n), n, {s}, [type |-> "TXGOSSIP-TXS", txs |-> held])
  /\ UNCHANGED << nbr, linkDowns, txPool, txToBroadcast >>

\* Mutant of RecvTxsHandler: no relay.
RecvTxsHandlerNoRelay(n, s) ==
  /\ HasMsg(s, n, "TXGOSSIP-TXS")
  /\ txPool' = [txPool EXCEPT ![n] = @ \cup Head(chan[<<s, n>>]).txs]
  /\ chan' = Taken(s, n)
  /\ UNCHANGED << nbr, linkDowns, txToBroadcast >>

\* RecvTxsHandler: add every transaction, then relay the inventory to the
\* neighbours other than the sender.
RecvTxsHandler(n, s) ==
  /\ HasMsg(s, n, "TXGOSSIP-TXS")
  /\ LET txs == Head(chan[<<s, n>>]).txs
     IN  /\ txPool' = [txPool EXCEPT ![n] = @ \cup txs]
         /\ chan' = Sent(Taken(s, n), n, Node \ {s}, [type |-> "TXGOSSIP-INV", txs |-> txs])
  /\ UNCHANGED << nbr, linkDowns, txToBroadcast >>
=============================================================================
