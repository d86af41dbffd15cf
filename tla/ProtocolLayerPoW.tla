--------------------------- MODULE ProtocolLayerPoW ---------------------------
(***************************************************************************)
(* BL3_protocol/ProtocolLayerPoW with POWMiner, BlockTree, TxPool and      *)
(* TxGossipProtocol: a network of PoW nodes that generate transactions,    *)
(* emulate mining with a timer, and synchronise their block trees by       *)
(* POWBLOCK-INV, -GETBLOCKS, -GETDATA and -BLK messages.                   *)
(*                                                                         *)
(* Each node is one thread around MainEventManager::Wait: an ev_run round  *)
(* fires timers and socket watchers, then the event queue is drained       *)
(* before the next round.  Timer callbacks run inside ev_run.  The mining  *)
(* timer only queues an EmuBlockMiningComplete event: it is handled after  *)
(* the other timers of its round, and before every protocol message, since *)
(* a message reaches the queue only through handlers run by the drain.     *)
(***************************************************************************)
EXTENDS TxGossipProtocol, BlockTree

CONSTANTS TxNumPerBlock,  \* txNumPerBlock
          Initiators,     \* the nodes whose program calls InitiateProtocol
          MaxTxGen,       \* bound: transactions generated per node
          MaxBlocks       \* bound: blocks mined per node

ASSUME PoWAssumption ==
  /\ TxNumPerBlock \in Nat \ {0}
  /\ Initiators \subseteq Node
  /\ MaxTxGen \in Nat /\ MaxBlocks \in Nat

VARIABLES blocktree,      \* blocktree[n]: _blocktree
          processingInv,  \* processingInv[n]: _processingBlkinv while
                          \* _processing is set, << >> otherwise
          isMining,       \* isMining[n]: POWMiner::_isMining
          candidateBlk,   \* candidateBlk[n]: _candidateBlk while mining
          minedBlk,       \* minedBlk[n]: the block of the queued
                          \* EmuBlockMiningComplete event, or Genesis if none
          blkPoolSize,    \* blkPoolSize[n]: _blkPool.size()
          initiated,      \* initiated[n]: _initiated
          txGenNum        \* txGenNum[n]: _txGenNum

mineVars == << isMining, candidateBlk >>
genVars == << initiated, txGenNum >>
nodeVars == << blocktree, processingInv, isMining, candidateBlk, minedBlk,
               blkPoolSize, initiated, txGenNum >>
vars == << linkVars, txVars, nodeVars >>

-----------------------------------------------------------------------------
\* Blocks, candidates and messages.

Header == [nonce : Node \X Nat, idx : Nat, txs : SUBSET Tx]
Block == Seq(Header)
Candidate == [prev : Block, idx : Nat, txs : SUBSET Tx]
NoCandidate == [prev |-> Genesis, idx |-> 0, txs |-> {}]

BlkMessage ==
  [type : {"POWBLOCK-INV"}, hashes : Seq(Block)]
    \cup [type : {"POWBLOCK-GETBLOCKS"}, locator : Seq(Block)]
    \cup [type : {"POWBLOCK-GETDATA"}, hash : Block]
    \cup [type : {"POWBLOCK-BLK"}, blk : Block]

\* The transactions of a mined block.
BlockTxs(b) == b[Len(b)].txs

\* Mutant of MakeCandidateBlock: an index two below the height.
MakeCandidateBlockLow(tree, pool) ==
  [prev |-> tree.lasthash, idx |-> tree.treeheight - 2, txs |-> GetTxs(pool, TxNumPerBlock)]

\* _makeCandidateBlock: on top of the tip, from the first transactions.
MakeCandidateBlock(tree, pool) ==
  [prev |-> tree.lasthash, idx |-> tree.treeheight, txs |-> GetTxs(pool, TxNumPerBlock)]

\* POWMiner::_timerCallback builds the valid block from the candidate: a fresh
\* nonce makes it differ from every other block.
MinedBlock(c, nonce) == Append(c.prev, [nonce |-> nonce, idx |-> c.idx, txs |-> c.txs])

\* Mutants of StartMiningIfPending: mining is not stopped when the pool is too
\* small; the pool may be one short.
StartMiningNoStop(n, tree, pool) ==
  IF Cardinality(pool) >= TxNumPerBlock
  THEN /\ isMining' = [isMining EXCEPT ![n] = TRUE]
       /\ candidateBlk' = [candidateBlk EXCEPT ![n] = MakeCandidateBlock(tree, pool)]
  ELSE UNCHANGED mineVars
StartMiningShort(n, tree, pool) ==
  IF Cardinality(pool) + 1 >= TxNumPerBlock
  THEN /\ isMining' = [isMining EXCEPT ![n] = TRUE]
       /\ candidateBlk' = [candidateBlk EXCEPT ![n] = MakeCandidateBlock(tree, pool)]
  ELSE /\ isMining' = [isMining EXCEPT ![n] = FALSE]
       /\ candidateBlk' = [candidateBlk EXCEPT ![n] = NoCandidate]

\* AsyncEmulateBlockMining of a new candidate if the pool is large enough.
StartMiningIfPending(n, tree, pool) ==
  IF Cardinality(pool) >= TxNumPerBlock
  THEN /\ isMining' = [isMining EXCEPT ![n] = TRUE]
       /\ candidateBlk' = [candidateBlk EXCEPT ![n] = MakeCandidateBlock(tree, pool)]
  ELSE /\ isMining' = [isMining EXCEPT ![n] = FALSE]
       /\ candidateBlk' = [candidateBlk EXCEPT ![n] = NoCandidate]

\* The same, but only while no mining is under way.
StartMiningIfIdle(n, tree, pool) ==
  IF isMining[n] THEN UNCHANGED mineVars ELSE StartMiningIfPending(n, tree, pool)

-----------------------------------------------------------------------------
\* Timers and the mining event.

\* InitiateProtocol: starts the transaction timer once.
InitiateProtocol(n) ==
  /\ n \in Initiators
  /\ ~ initiated[n]
  /\ initiated' = [initiated EXCEPT ![n] = TRUE]
  /\ UNCHANGED << linkVars, txVars, blocktree, processingInv, isMining,
                  candidateBlk, minedBlk, blkPoolSize, txGenNum >>

\* _txgentimerCallback: a transaction that is new to the pool may start mining.
TxGenTimer(n, t) ==
  /\ initiated[n]
  /\ txGenNum[n] < MaxTxGen
  /\ txGenNum' = [txGenNum EXCEPT ![n] = @ + 1]
  /\ GenerateTx(n, t)
  /\ IF t \in txPool[n] THEN UNCHANGED mineVars
     ELSE StartMiningIfIdle(n, blocktree[n], txPool[n] \cup {t})
  /\ UNCHANGED << linkVars, blocktree, processingInv, minedBlk, blkPoolSize, initiated >>

\* TxGossipProtocol's broadcast timer.
TxBroadcastTimer(n) ==
  /\ BroadcastTimer(n)
  /\ UNCHANGED nodeVars

\* POWMiner::_timerCallback: the event is queued and the miner is idle again,
\* although the block is not in the tree yet.
MiningTimer(n) ==
  /\ isMining[n]
  /\ minedBlk[n] = Genesis
  /\ blkPoolSize[n] < MaxBlocks
  /\ minedBlk' = [minedBlk EXCEPT ![n] = MinedBlock(candidateBlk[n], <<n, blkPoolSize[n]>>)]
  /\ isMining' = [isMining EXCEPT ![n] = FALSE]
  /\ candidateBlk' = [candidateBlk EXCEPT ![n] = NoCandidate]
  /\ UNCHANGED << linkVars, txVars, blocktree, processingInv, blkPoolSize, genVars >>

\* The EmuBlockMiningComplete case of SwitchAsyncEventHandler.  The miner is
\* left alone: a mining started since the timer goes on, on the old tip.
MiningComplete(n) ==
  /\ minedBlk[n] # Genesis
  /\ LET b == minedBlk[n]
     IN  /\ blocktree' = [blocktree EXCEPT ![n] = AppendBlock(@, b)]
         /\ txPool' = [txPool EXCEPT ![n] = @ \ BlockTxs(b)]
         /\ chan' = Sent(chan, n, Node, [type |-> "POWBLOCK-INV", hashes |-> << b >>])
  /\ minedBlk' = [minedBlk EXCEPT ![n] = Genesis]
  /\ blkPoolSize' = [blkPoolSize EXCEPT ![n] = @ + 1]
  /\ UNCHANGED << nbr, linkDowns, txToBroadcast, processingInv, mineVars, genVars >>

-----------------------------------------------------------------------------
\* Protocol messages (RecvMsgHandler).

\* A queued mining event is handled before any message.
Ready(n) == minedBlk[n] = Genesis

RecvTxInv(n, s) ==
  /\ Ready(n)
  /\ RecvInventoryHandler(n, s)
  /\ UNCHANGED nodeVars

RecvTxGetdata(n, s) ==
  /\ Ready(n)
  /\ RecvGetdataHandler(n, s)
  /\ UNCHANGED nodeVars

\* New transactions may start mining.
RecvTxs(n, s) ==
  /\ Ready(n)
  /\ RecvTxsHandler(n, s)
  /\ StartMiningIfIdle(n, blocktree[n], txPool[n] \cup Head(chan[<<s, n>>]).txs)
  /\ UNCHANGED << blocktree, processingInv, minedBlk, blkPoolSize, genVars >>

\* The positions of hashes whose block is not in the ledger.
Missing(hashes, tree) == {i \in 1..Len(hashes) : ~ ContainBlock(tree, hashes[i])}

\* Mutant of FirstMissing: the newest block first.
LastMissing(hashes, tree) == hashes[Max(Missing(hashes, tree))]

\* The first block of hashes that is not in the ledger.
FirstMissing(hashes, tree) == hashes[Min(Missing(hashes, tree))]

\* The inventory needs no further block (containAll, invAllProcessed).
AllProcessed(hashes, tree) == Missing(hashes, tree) = {}

\* Mutant of HasProcessingInv: never seen.
NeverProcessing(n) == FALSE

\* _processing.
HasProcessingInv(n) == processingInv[n] # << >>

\* _RecvPOWBlockInvHandler: ignored while an inventory is being processed; if
\* the first hash is unknown ask for the chain; else process the inventory,
\* asking the sender for its first missing block.
RecvPOWBlockInv(n, s) ==
  /\ Ready(n)
  /\ HasMsg(s, n, "POWBLOCK-INV")
  /\ LET hashes == Head(chan[<<s, n>>]).hashes
         tree == blocktree[n]
     IN  \/ /\ HasProcessingInv(n)
            /\ chan' = Taken(s, n)
            /\ UNCHANGED processingInv
         \/ /\ ~ HasProcessingInv(n)
            /\ ~ ContainBlock(tree, hashes[1])
            /\ chan' = Sent(Taken(s, n), n, {s},
                            [type |-> "POWBLOCK-GETBLOCKS", locator |-> GetBlockLocator(tree)])
            /\ UNCHANGED processingInv
         \/ /\ ~ HasProcessingInv(n)
            /\ ContainBlock(tree, hashes[1])
            /\ ~ AllProcessed(hashes, tree)
            /\ chan' = Sent(Taken(s, n), n, {s},
                            [type |-> "POWBLOCK-GETDATA", hash |-> FirstMissing(hashes, tree)])
            /\ processingInv' = [processingInv EXCEPT ![n] = hashes]
         \/ /\ ~ HasProcessingInv(n)
            /\ ContainBlock(tree, hashes[1])
            /\ AllProcessed(hashes, tree)
            /\ chan' = Taken(s, n)
            /\ UNCHANGED processingInv
  /\ UNCHANGED << nbr, linkDowns, txVars, blocktree, mineVars, minedBlk, blkPoolSize, genVars >>

\* Mutant of ChainInventory: without the common block.
ChainInventoryAfterCommon(tree, locator) ==
  LET inv == Reverse(GetChainFromBlock(tree, FindCommonBlock(tree, locator)))
  IN  IF Len(inv) > 1 THEN Tail(inv) ELSE inv

\* The answer to GETBLOCKS: the main chain from the common block to the tip.
ChainInventory(tree, locator) ==
  Reverse(GetChainFromBlock(tree, FindCommonBlock(tree, locator)))

\* _RecvPOWBlockGetBlocksHandler.
RecvPOWBlockGetBlocks(n, s) ==
  /\ Ready(n)
  /\ HasMsg(s, n, "POWBLOCK-GETBLOCKS")
  /\ LET locator == Head(chan[<<s, n>>]).locator
     IN  chan' = Sent(Taken(s, n), n, {s},
                      [type |-> "POWBLOCK-INV", hashes |-> ChainInventory(blocktree[n], locator)])
  /\ UNCHANGED << nbr, linkDowns, txVars, nodeVars >>

\* _RecvPOWBlockGetDataHandler.  The code asserts that the ledger has the block.
RecvPOWBlockGetData(n, s) ==
  /\ Ready(n)
  /\ HasMsg(s, n, "POWBLOCK-GETDATA")
  /\ LET hash == Head(chan[<<s, n>>]).hash
     IN  /\ ContainBlock(blocktree[n], hash)
         /\ chan' = Sent(Taken(s, n), n, {s}, [type |-> "POWBLOCK-BLK", blk |-> hash])
  /\ UNCHANGED << nbr, linkDowns, txVars, nodeVars >>

\* _RecvPOWBlockBlkHandler: a new block's transactions leave the pool, then the
\* block is appended; a new tip restarts the miner; then the inventory under
\* processing is continued with the sender of this block, or, when complete,
\* relayed to the other neighbours.
RecvPOWBlockBlk(n, s) ==
  /\ Ready(n)
  /\ HasMsg(s, n, "POWBLOCK-BLK")
  /\ LET b == Head(chan[<<s, n>>]).blk
         new == ~ ContainBlock(blocktree[n], b)
         tree == IF new THEN AppendBlock(blocktree[n], b) ELSE blocktree[n]
         pool == IF new THEN txPool[n] \ BlockTxs(b) ELSE txPool[n]
         inv == processingInv[n]
     IN  /\ blocktree' = [blocktree EXCEPT ![n] = tree]
         /\ txPool' = [txPool EXCEPT ![n] = pool]
         /\ IF tree.lasthash = blocktree[n].lasthash THEN UNCHANGED mineVars
            ELSE StartMiningIfPending(n, tree, pool)
         /\ \/ /\ ~ AllProcessed(inv, tree)
               /\ chan' = Sent(Taken(s, n), n, {s},
                               [type |-> "POWBLOCK-GETDATA", hash |-> FirstMissing(inv, tree)])
               /\ UNCHANGED processingInv
            \/ /\ AllProcessed(inv, tree)
               /\ chan' = IF inv = << >> THEN Taken(s, n)
                          ELSE Sent(Taken(s, n), n, Node \ {s},
                                    [type |-> "POWBLOCK-INV", hashes |-> inv])
               /\ processingInv' = [processingInv EXCEPT ![n] = << >>]
  /\ UNCHANGED << nbr, linkDowns, txToBroadcast, minedBlk, blkPoolSize, genVars >>

-----------------------------------------------------------------------------
\* The peer layer connects and loses peers without telling the protocol layer:
\* a lost peer resets nothing here, not even an inventory under processing.

PeerConnected(n, s) == Ready(n) /\ LinkUp(n, s) /\ UNCHANGED << txVars, nodeVars >>

PeerNotified(n, s) == Ready(n) /\ LinkNotify(n, s) /\ UNCHANGED << txVars, nodeVars >>

PeerLost(n, s) == LinkDown(n, s) /\ UNCHANGED << txVars, nodeVars >>

-----------------------------------------------------------------------------
Init ==
  /\ LinkInit
  /\ TxInit
  /\ blocktree = [n \in Node |-> NewTree]
  /\ processingInv = [n \in Node |-> << >>]
  /\ isMining = [n \in Node |-> FALSE]
  /\ candidateBlk = [n \in Node |-> NoCandidate]
  /\ minedBlk = [n \in Node |-> Genesis]
  /\ blkPoolSize = [n \in Node |-> 0]
  /\ initiated = [n \in Node |-> FALSE]
  /\ txGenNum = [n \in Node |-> 0]

\* Node n handles the oldest message of s.
RecvMsg(n, s) ==
  \/ PeerNotified(n, s)
  \/ RecvTxInv(n, s)
  \/ RecvTxGetdata(n, s)
  \/ RecvTxs(n, s)
  \/ RecvPOWBlockInv(n, s)
  \/ RecvPOWBlockGetBlocks(n, s)
  \/ RecvPOWBlockGetData(n, s)
  \/ RecvPOWBlockBlk(n, s)

Next ==
  \/ \E n \in Node :
       \/ InitiateProtocol(n)
       \/ \E t \in Tx : TxGenTimer(n, t)
       \/ TxBroadcastTimer(n)
       \/ MiningTimer(n)
       \/ MiningComplete(n)
  \/ \E n, s \in Node :
       \/ RecvMsg(n, s)
       \/ PeerConnected(n, s)
       \/ PeerLost(n, s)

Spec == Init /\ [][Next]_vars

\* A node's loop always gets to a queued event and to a message that arrived.
Fairness ==
  /\ \A n \in Node : WF_vars(MiningComplete(n))
  /\ \A n, s \in Node : WF_vars(RecvMsg(n, s))

FairSpec == Spec /\ Fairness
-----------------------------------------------------------------------------
\* Properties.

TypeOK ==
  /\ nbr \in [Node -> SUBSET Node]
  /\ chan \in [Node \X Node -> Seq(LinkMessage \cup TxMessage \cup BlkMessage)]
  /\ linkDowns \in Nat
  /\ txPool \in [Node -> SUBSET Tx]
  /\ txToBroadcast \in [Node -> SUBSET Tx]
  /\ blocktree \in [Node -> [ledgermap : SUBSET Block, lasthash : Block, treeheight : Nat]]
  /\ processingInv \in [Node -> Seq(Block)]
  /\ isMining \in [Node -> BOOLEAN]
  /\ candidateBlk \in [Node -> Candidate]
  /\ minedBlk \in [Node -> Block]
  /\ blkPoolSize \in [Node -> Nat]
  /\ initiated \in [Node -> BOOLEAN]
  /\ txGenNum \in [Node -> Nat]

\* The messages of one type on the way from s to n.
InFlight(s, n, type) == {m \in ToSet(chan[<<s, n>>]) : m.type = type}

\* Every walk along previous hashes in a tree ends at genesis: the ledger holds
\* the parent of each of its blocks, and the tip (the assertions "ledger should
\* contain prevBlockHash" of BlockTree).
ParentsHeld == \A n \in Node : Rooted(blocktree[n])

\* The incrementally kept height, tip and block indexes agree with the tree:
\* each block's stored index is its distance from genesis, the tip is a
\* longest chain of the ledger, and the tree height is its length.
TipIsLongest == \A n \in Node : Longest(blocktree[n])

\* A block is only asked from a peer that has it: the assertions "hash must be
\* synchronized already." and "must have blockdata." of the GETDATA handler.
RequestedBlockHeld ==
  \A n, s \in Node : \A m \in InFlight(s, n, "POWBLOCK-GETDATA") :
    ContainBlock(blocktree[n], m.hash)

\* A block that arrives fits the receiver's tree: its parent is there, so the
\* handler never drops the block after it removed its transactions.
ArrivingBlockFits ==
  \A n, s \in Node : \A m \in InFlight(s, n, "POWBLOCK-BLK") :
    m.blk # Genesis /\ ContainBlock(blocktree[n], Prev(m.blk))

\* Each locator under way names a block of the receiver's main chain, so
\* FindCommonBlock returns before its walk passes genesis (its assertion "need
\* to be returned before reaching genesis block").
CommonBlockExists ==
  \A n, s \in Node : \A m \in InFlight(s, n, "POWBLOCK-GETBLOCKS") :
    \E k \in 0..Len(blocktree[n].lasthash) :
      Ancestor(blocktree[n].lasthash, k) \in ToSet(m.locator)

\* The block requests of n that are not settled: places in the channels where
\* a question of n or an answer to n is still under way.
Unsettled(n) ==
  UNION {  {<<n, s, i>> : i \in {j \in DOMAIN chan[<<n, s>>] :
                                  chan[<<n, s>>][j].type = "POWBLOCK-GETDATA"}}
             \cup {<<s, n, i>> : i \in {j \in DOMAIN chan[<<s, n>>] :
                                       chan[<<s, n>>][j].type = "POWBLOCK-BLK"}}
          : s \in Node}

\* A node has at most one block request under way, and only while it processes
\* an inventory: replies cannot be matched to the wrong inventory.
OneRequest ==
  \A n \in Node :
    /\ Cardinality(Unsettled(n)) <= 1
    /\ Unsettled(n) # {} => processingInv[n] # << >>

\* Every block carries exactly TxNumPerBlock transactions: GetTxs answers a
\* shortage with nothing, so each start of the miner depends on a pool count
\* that no handler since has invalidated.
BlocksFull ==
  \A n \in Node :
    /\ isMining[n] => Cardinality(candidateBlk[n].txs) = TxNumPerBlock
    /\ \A blk \in blocktree[n].ledgermap \ {Genesis} : Cardinality(BlockTxs(blk)) = TxNumPerBlock

\* The miner works on the tip or, when a transaction timer restarted it between
\* the mining timer and the handling of the mined block, on the tip's parent.
MinerAtMostOneBehind ==
  \A n \in Node : isMining[n] =>
    candidateBlk[n].prev \in {blocktree[n].lasthash, Prev(blocktree[n].lasthash)}

\* A tree never loses a block, and its tip moves only to a strictly longer chain
\* (a fork of equal length never displaces the chain seen first).
TipOnlyGrows ==
  [][\A n \in Node :
       /\ blocktree[n].ledgermap \subseteq blocktree'[n].ledgermap
       /\ blocktree'[n].lasthash # blocktree[n].lasthash =>
            Len(blocktree'[n].lasthash) > Len(blocktree[n].lasthash)]_vars

\* While connections hold, the processing of an inventory comes to its end
\* (_processing is reset), so later inventories are heard again.
ProcessingEnds ==
  \A n \in Node : processingInv[n] # << >> ~> processingInv[n] = << >>

\* Once nothing is generated any more the network falls silent: inventories,
\* requests and relays do not keep each other going.
NetworkQuiets == <>[](\A l \in Node \X Node : chan[l] = << >>)

\* The protocol does what LongestChain promises: blocks enter at their miner,
\* spread from peer to peer on known parents, and the first longest chain is
\* the tip.
Abstract == INSTANCE LongestChain WITH
  known <- [n \in Node |-> blocktree[n].ledgermap],
  tip <- [n \in Node |-> blocktree[n].lasthash]

ImplementsLongestChain == Abstract!Spec

\* The check of tests/regtest/2_BLEEPlib/3_PoW_treesync/test-treesync.py: when
\* an experiment is over, the longest chains of two connected nodes differ in
\* length by at most one block.
TreesInSync ==
  (/\ \A l \in Node \X Node : chan[l] = << >>
   /\ \A n \in Node : minedBlk[n] = Genesis /\ ~ isMining[n])
  => \A n \in Node : \A s \in nbr[n] :
       blocktree[n].treeheight <= blocktree[s].treeheight + 1
=============================================================================
