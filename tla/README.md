# BLEEP blockchain simulator: TLA+ models, checks and proofs

BLEEP runs real, single-threaded blockchain nodes inside the Shadow network
simulator. This directory models the nodes' own logic, which is in
`src/BLEEPlib/src` (6,758 lines of C++): what a proof-of-work node does with
blocks and transactions, how nodes synchronise, and the peer and socket layers,
the event loop and the arithmetic below. Every definition is translated from the C++ sources;
`PROJECT.json` ("map") gives the lines.

## 1. Inventory

A node is one thread around `MainEventManager`. Four layers call down directly
and call up only through events of one queue.

| Component | State | Operations | Hard behaviour |
|---|---|---|---|
| `BL_MainEventManager` | event queue, libev loop | `Wait`, `PushAsyncEvent`, `PopAsyncEvent`; the program dispatches each event to all layers | timers and watchers fire in `ev_run`; events are handled between two rounds, so callbacks can slip between a decision and its event |
| `BL1_socket` | listen/connect/data sockets with libev watchers, send buffers, receive buffers per descriptor | accept, connect, read (framing by magic and length), write, close | partial reads and writes, descriptor reuse, events of a closed socket |
| `BL2_peer_connectivity` | peer table (connecting, active, inactive; incoming, outgoing), counters | connect, disconnect, introduce (`notifyPeerId`), ping/pong, send, connection timer | both ends connect at once, one end learns of a loss before the other, limits, timeouts |
| `AddrManager`, `AdvertisementManager` (BL2) | address buckets; per peer, addresses to send and addresses known | add, select; advertise, relay, send every 30 s | cycles, peers that are not active when the timer fires, colliding slots |
| `TxPool`, `TxGossipProtocol` (BL3) | pool (map by id), broadcast list | broadcast timer (30 s), INV / GETDATA / TXS handlers | lost announcements, cycles, a pool that changes between announcement and request |
| `ProtocolLayerEx1` (BL3) | generation timer | the gossip alone | spreads to everybody and ends |
| `BlockTree` (BL3) | ledger, tip, height | `AppendBlock`, locator, common block, chain from a block | forks, ties, overtaking; assertions on missing parents |
| `POWMiner` (BL3) | mining flag, candidate, timer | start, stop, timer, which queues `EmuBlockMiningComplete` | idle before its block is in the tree |
| `ProtocolLayerPoW` (BL3) | the inventory under processing, the flag `_processing`, the generation timer, the above | four POWBLOCK handlers, three TXGOSSIP handlers, mining event, timers | interleaved inventories of several peers, stale candidates, pool and tree out of step |
| `UInt256`, `SHA256` | halves of a number; a block buffer | arithmetic, shifts, comparisons, division; update, final | carries, shifts by a whole word, the loop of the division, padding at the end of a block |
| `BL_ShadowLayer`, interfaces, other utilities, emulator programs, tests | – | I/O, options, drivers | – |

What makes each correct:

* BlockTree: the parent of each block is in the ledger; height, tip and stored
  indexes agree with the tree; a tip is displaced by a longer chain only.
* Block synchronisation: only held blocks are requested (the receiver asserts
  it), replies fit the tree they arrive at, a locator always meets the main
  chain, at most one block request of a node is open, processing ends, the
  network falls silent, and all this together implements "first longest chain".
* Mining: blocks carry the full number of transactions; the miner works on the
  tip or just behind it.
* Gossip: a node holds what it announced; between standing neighbours nothing is
  forgotten; everything reaches everybody; the relaying ends.
* BL2: the data socket of a peer is open and leads to that peer; the assertions of
  the handlers hold; the counters agree with the table and limits are kept; a dead
  peer is dropped and a healthy one is not; both ends agree in the end.
* Addresses: the table holds one foreign address per slot; what is noted as told was
  told; the own address spreads; the relaying ends.
* BL1 and the loop: the receiver handles exactly the messages sent, in order,
  whatever the sizes of reads and writes; what is buffered gets sent; the events of a round
  are handled layer by layer, and a queued event finds its socket.
* Numbers: operators agree with the values modulo the width; divisions end.

`PROJECT.json` lists every component with its status and every hazard with its
line and the property that covers it, or the reason why none does.

## 2. Modules

| Module | Models | Extends / uses |
|---|---|---|
| `BlockTree` | `BlockTree.cpp` as operators on a tree record | – |
| `PeerLinks` | what BL2 gives BL3: `GetNeighborPeerIds`, `SendMsgToPeer`, message events, connection up / introduction / down | – |
| `TxGossipProtocol` | `TxGossipProtocol`, `TxPool` | `PeerLinks` |
| `ProtocolLayerEx1` | `ProtocolLayerEx1` | `TxGossipProtocol` |
| `ProtocolLayerPoW` | `ProtocolLayerPoW`, `POWMiner`, blocks, messages | `TxGossipProtocol`, `BlockTree` |
| `LongestChain` | the abstract specification of the PoW protocol | `BlockTree` |
| `SocketLayer` | `BL1_socket`: descriptors, TCP connections, ends of processes | – |
| `PeerConnectivity` | `BL2_peer_connectivity` in detail: API, socket events, messages, timers | `SocketLayer` |
| `AddrGossip` | `AddrManager`, `AdvertisementManager` and their use in BL2 | `PeerLinks` |
| `MainEventManager` | the event queue and the rounds of libev | – |
| `SocketStream` | `BL1_socket` in detail, under the loop, with BL2 and BL3 reduced to what they do with sockets | `MainEventManager`, `MessageStream` |
| `MessageStream` | the abstract specification of a connection: messages in order, once | – |
| `UInt256`, `SHA256` | `UInt256.h/.cpp`; buffering and padding of `SHA256.cpp` | – |
| `HashNumber` | hash, number, remainder, as in `AddrManager` | `SHA256`, `UInt256` |
| `MC...` | link graphs, symmetry and value sets for TLC | the specification of the name |
| `PeerLinksProofs` | lemmas on the operators | `PeerLinks` |
| `ProtocolLayerPoWProofs`, `ProtocolLayerEx1Proofs`, `AddrGossipProofs`, `PeerConnectivityProofs`, `SocketStreamProofs`, `HashNumberProofs` | invariants and theorems | the module of the name |
| `MessageStreamProofs` | the proof that `SocketStream` implements `MessageStream` | `SocketStreamProofs` |

### How state and actions correspond to the code

*Blocks.* A block hash is a SHA-256 over nonce, transactions, index, the parent's
hash and the time. We assume no collisions; then a hash commits to the whole
chain below it, and a block (and its hash) is modelled as that chain: the
sequence of headers from the child of genesis upwards. Genesis is `<< >>`, the
parent drops the last header. A header has a nonce, unique by the pair (miner,
number of its block), the transactions and the *stored* index, which is what
`AppendBlock` compares with the height (`Overtakes`), so that a wrong index is a
possible state and `TipIsLongest` has something to say. The walk in
`GetBlockLocator` is given in closed form (`LocatorOffset`: strides of 1 up to
five entries, then 2, 4, ... 32).

*One action per handler, timer callback and event case.* `RecvPOWBlockBlk`, for
example, is the whole of `_RecvPOWBlockBlkHandler`: pool, tree, miner, next
request or relay. Messages sent by a handler are appended to the channels of the
peers active at that moment.

*The event loop* (`MainEventManager`, `SocketStream`). The queue is empty when
`ev_run` starts (`Polls`). A round pushes what its timers and then its sockets
report (`Polled`); the events are handled one by one, and their handlers push
more at the end (`Popped`). Whether `Wait` hands an event on itself or the
program pops it makes no difference to the order. A mined block is queued by a
timer, directly as an event of layer 3, while a message takes three hops
(socket event, peer event, protocol event); so a mined block is handled before any
message or connection event of the round. The PoW module keeps just that,
as the guard `Ready`, and `RoundsInOrder` checks it on the loop itself: the events of a round
are handled layer by layer. One event is an exception. When a connect fails,
`ConnectHandler` pushes `SocketConnectFailed`, an event of BL1, behind those of BL2 that
the round has led to so far (`SocketLayer_API.cpp:63`); it is handled among these, and its own event
of BL2 among those of BL3, but never ahead of anything. The generation, broadcast and ping timers,
however, can fire after the mining timer in the same round; these interleavings
are kept, and they are why the miner may be one block behind.

*Connections* (`PeerLinks`). One FIFO queue per direction stands for the send
buffer, TCP, the receive buffer and the receiver's event queue. The connecting
end is active first (`LinkUp`, `SocketConnectHandler`), its first message
`notifyPeerId` makes the other end active (`LinkNotify`, `PeerNotifyHandler`).
Either end drops the connection on its own (`LinkDown`: `SocketCloseHandler`
after an end of file, or `DisconnectPeer`, also from the ping timer); of both
queues a prefix survives, which is what has been read or will still arrive.
This over-approximates: after one end dropped, the other's messages stay queued
until its own end drops, where in reality they may be lost. It is also an
idealisation in three points: the successive connections of one pair are
served in order, there are no connection limits, and the crashes of BL2 that
`PeerConnectivity` exhibits are left out. That `PeerLinks` is what BL2
delivers otherwise is read off the code; no refinement states it (section 6).

*Sockets* (`SocketLayer`). A connection has a number and, for each end, the
messages on their way to it and whether the end was closed. `sock[n][fd]` joins the
maps `_connectSockets` and `_dataSockets`; a new socket gets the lowest free
descriptor, as POSIX demands, so numbers are used again. The kernel and the
network are external: order is kept, a closed end is seen as end of file, and a
connect succeeds whenever the process at the other end runs (also before it
accepts). The end of file may overtake messages, since what is still in
`_sendBuff` is lost with its socket. A process may end without its sockets being
closed, as the comments of `1_peer/test-peer.cpp` say of Shadow; then the other
end hears nothing. A connect to such a process may never return (the case
`testConnectPeerToVoid`), or be reported as failed, at most `MaxFailed` times.
Left out here, and modelled in `SocketStream`: resets that Linux sends when unread
data is closed or a connection that waits for an accept is, framing, and the order of the
queue.

*The peer table* (`PeerConnectivity`). `peers[n][m]` is the `Peer` object of n for
m, `NoPeer` if there is none. An action is one libev callback, or one call of the
program, with all the queued events it leads to: `SocketConnect`, for example, is
`ConnectHandler` of BL1 followed by `SocketConnectHandler`. This is
sound because libev runs the timers of a round before its sockets and the
queue is drained before the next round. Where one round has several sockets ready, BL1
reads them all before BL2 handles the first event; a descriptor stays open
until the event of its end of file is handled, so this makes no difference, but for
one case left out: messages read together with an introduction that is turned
away are still handled in the code and dropped in the model. Also
left out is a program that disconnects a peer while events of its socket are
queued (those of the repository do so at their start or from a timer), and one that connects
again to a peer that is still connecting or whose connect failed: `ProgramConnects` has
the guard that there is no such peer, which is how the repository's programs use
`ConnectPeer`; the function itself turns away active peers only
(`PeerConnectivityLayer_API.cpp:310-316`) and overwrites the others. Where the code takes the first peer in
key order that matches, the model takes any, as ids are arbitrary. `_connSocket` of an
incoming peer is never initialised and is any member of `StaleFD`; the counters
are not initialised either, but their 256 kB object lies in fresh, zeroed pages,
so they start at 0. `AddrManager` is a set: any address may be learnt while some
connection is open. A failed assertion or a null pointer ends the
process, with the reason in `status`. The ping timer fires when the PINGs and PONGs of
the node are handled (`PingPongDone`): its period is a minute, a round trip far
less.

*Bytes* (`SocketStream`). `sock[n][fd]` is the socket with its `_sendBuff`, `writable`
whether its watcher asks for `EV_WRITE`; `recvBuff` is `_recvBuffMap`, which goes by
descriptor and survives `DisconnectSocket`. A frame is the magic value, the length and
the body, and each of the three is a `WriteMsg` of its own. A byte is what it is part of.
`wire` is what the kernels hold of one direction, at most `Capacity`, and the `recv` of
a `RecvHandler` gets any part of it that has arrived. `DoSend` writes until the kernel is
full: inside a `WriteMsg` it returns, at the beginning of one `send` fails with
`EAGAIN`, which the code takes for an error (`writeError` ends the process). A
closed end that did not read everything answers with a reset, after which `recv`
or `send` of the other end fails and ends the process too. The four bytes of the length are
one; a body put together from two frames may or may not be noticed. A data socket
whose end of file was read is `closing`: it is out of the map, but the queued event
keeps it, and its descriptor, until it is handled. Of BL2 and BL3 there remain: the
introduction, messages, the close, disconnecting (`MayCut`), and that a node does not dial
one with which it has a socket. A connect fails when the process at the other end has
ended before it accepted; the host resets it. `ConnectHandler` then drops the
socket and goes the way of `SocketConnectFailed` and `PeerSocketConnectFailed`, or it
takes the connect for a success, as the watcher may have cleared `SO_ERROR` before
(`Socket.h:99`), and meets an end of file or an error later. Of the failure's handler in BL2, with the missing
`break` behind it (`PeerConnectivityLayer_API.cpp:283`), there remains that it may end a
process with an active peer (`connectFailed`). An abandoned connecting socket is in
`PeerConnectivity` alone.

*Addresses* (`AddrGossip`). An address is a node. `addrs[n]` is `mapAddr`, `Slot` the pair of
`GetNewBucket` and `GetBucketPosition`, so that two addresses can collide; a vector of
addresses is a set, and which of two for one slot comes first is open.
`AdvertiseLocal` does not go through `PushAddr`: the own address is sent again to a peer that
was told before. A message longer than ten addresses is not relayed; as vectors
may repeat an address (only the sender's own does), a short set with the sender's
address may or may not be relayed. The copied random generator gives all ten trials of the connection
timer the same address, and all addresses of a message the same one or two peers; both are
what the model has. Two nodes that dial each other at once, and failing
connects, are in `PeerConnectivity`.

*Numbers* (`UInt256`, `SHA256`, `HashNumber`). A `UINT128_t` is a pair of words, a
`UINT256_t` a pair of those, and each operator is built from the operators of the half as
the code builds it, carry and borrow included, with the cases of each shift. An iteration of
a division is a step (`Loop128`, `Loop256`). The width of a word is a constant. Of
SHA-256 there is the context with its buffer, which `sha256_init` does not clear, and the blocks
handed to `sha256_transform`; the mixing itself is left out, and a digest is any of `Digests`.

*Transactions.* A transaction is its id. The id does not include hash or time
(`SimpleTransactionId::operator<`), so a node can generate an id again; the
model does so, and a mined id can come back to the pool.

*Left out on purpose:* logging, serialisation, the shared-memory deduplication
of equal blocks (`memshare`), `GETADDR` (received, never answered), and the distribution of the mining delay (any
delay is possible).

### Constants and bounds

`Node`, `Link` (who connects to whom), `UpLink` (connections that stand at the
start), `Tx`, `TxNumPerBlock`, `Initiators` / `Generators` (whose program calls
`InitiateProtocol`) are parameters of the system. Bounds, all of them guards:
`MaxTxGen` transactions per node, `MaxBlocks` blocks mined per node,
`MaxLinkDown` lost ends in total, `TxBroadcasters`, the nodes whose 30 s broadcast timer
expires within the modelled time. In `PeerConnectivity`, `Neighbors` (whom the program
connects to), `MayExit`, the two limits and `StaleFD` are parameters; `MaxConn`
(connections ever opened) and `MaxFailed` (failed connects) are bounds. In
`AddrGossip`, `Slot`, `Neighbors` and `MaxRelayed` (10 in the code) are parameters. In `SocketStream`,
`Dials`, `Miners`, `Timed` (whose program waits with a timeout), `MayCut`, `Sizes`,
`MagicSize`, `ReadSize` (2000 in the code) and `Capacity` are; `MaxConn`, `MaxMsg` and `MaxTalk` (the
connections that carry more than introductions) are bounds. In
`HashNumber` the widths are parameters and the sets of bytes, digests and divisors bounds. The
`ASSUME`s only give their types.

## 3. What TLC checks

| Run | Instance | Properties | States |
|---|---|---|---|
| `PoWRelay` | line of 3, miners at both ends with 2 blocks each, 1 lost end | `TypeOK ParentsHeld TipIsLongest ArrivingBlockFits CommonBlockExists OneRequest MinerAtMostOneBehind RequestedBlockHeld`, refinement `ImplementsLongestChain` | 248,002 |
| `PoWGossip` | 2 nodes, two ids, blocks of 2, gossip on | `BlocksFull` | 209,855 |
| `PoWLive` | line of 3, standing once made, fair | `ProcessingEnds NetworkQuiets` | 23,206 |
| `PoWTreeSync` | pair, one miner, 3 blocks | `TreesInSync`, expected to be violated | – |
| `Ex1Ring` | ring of 4, standing at the start, 1 lost end, two ids, fair | `TypeOK AnnouncedHeld NoTxForgotten TxReachesAll GossipQuiets` | 117,201 |
| `PeerPair` | 2 nodes that both connect, 3 connections, 1 failed connect, one may exit | `TypeOK CountersAgree AbortExplained AnsweringPeerKept` | 1,086,197 |
| `PeerStar` | 3 nodes that connect to each other, room for 1 incoming peer | `SocketOfItsPeer TurnedAwayWhenFull` | 169,527 |
| `PeerLive` | 2 nodes that both connect, 2 connections, one may exit, fair | `DeadPeerDropped PeersAgree` | 44,779 |
| `PeerAbort` | 2 nodes that both connect | `ConnectedSocketHasPeer`, expected to be violated | – |
| `Stream` | 2 nodes that dial each other, 2 connections, 2 messages one way and 1 the other on the first, introductions on the second, fair | `RoundsInOrder EventsOfLiveSockets CloseAfterMessages TaintedByDisconnect LostOnlyAfterFullRead EverythingHandled`, refinement `ImplementsMessageStream` | 228,131 |
| `Addr` | 3 nodes in a line of dialers, two share a slot, up to 2 lost ends, fair | `TableOfOthers ToldWhatItKnows OwnAddressArrives AdvertisingQuiets` | 38,548 |
| `HashNumber` | words of 4 bits, blocks of 4 bytes, messages up to 6 bytes, fair | `HashesThePaddedMessage OperatorsAgree DivisionCorrect DivisionEnds` | 33,963 |

*Why the bounds are enough.*

* PoW. Two blocks on each of two miners are the smallest instance with a fork, a
  tie, an overtaking branch of length two, an inventory of several missing
  blocks, a locator that branches off the main chain, and inventories that cross an
  inventory under processing; the third node, in the middle, relays. A lost end at any
  point, followed by a new connection, puts old answers and new questions into the
  same queues. Two transactions per block are the smallest number for which a
  pool can be short by one.
* `Ex1Ring`. The ring has cycles and two paths to the far node, and losing an end
  turns it into a line for a while.
* BL2. Two connections are the least for a cross-connect, the third is a reconnect
  after one of them went; three nodes are the least for a limit of one and for
  a descriptor that passes from one peer to another. `PeerStar` uses the symmetry
  of its three nodes, which all play the same part, and checks safety only;
  elsewhere the links tell nodes apart.
* `Stream`. A frame is four bytes (one of magic, one of length, two of body), a `recv`
  has a buffer of two and the kernel holds four. `RecvHandler` gets any number of the bytes that wait, so a frame is
  cut at each of its boundaries, the second message may be in the same read as the first or
  partly so, a write is cut in the middle of a message, and a read may fill the buffer or not.
  Both nodes dial: the two connections may cross, or the second one, from either side, uses the descriptor
  and the receive buffer of the first, or fails as the other process has ended, in a round
  with messages of the first. It carries introductions only, which is enough for it to be
  garbled by an old rest.
  One node mines and waits with a timeout, the other may disconnect at any time.
* `Addr`. Three nodes are the least for an address that is relayed and for two that
  collide in a slot; the two ends of one line never dial each other on their own. With
  `MaxRelayed` of one there are messages on both sides of the limit.
* `HashNumber`. Six bytes of message cover the cases of padding on a block of four: the
  length still fits, it needs another block, the block ends with the message. A word of
  four bits is small enough to take all narrow divisors, and the wide ones and the
  digests at the edges of words and halves, where carries and shifts go wrong.

`Ex1Ring` and `HashNumber` are checked for deadlock (`InitiateProtocol` may restart its
timer at any time; a hash can always be begun). In the other runs the behaviours do
not have to go on: blocks, connections or messages are used up, or processes end. Hence
their `CHECK_DEADLOCK FALSE`.

*Fairness.* Timers of mining and generation, the program, exits and losses are never
forced, so no liveness result depends on a block being found.

* PoW: `MiningComplete` of each node is weakly fair, since the queue is drained
  before the loop goes on; the handling of the oldest message of each channel is
  too, since the loop always returns to its sockets and TCP delivers while
  the connection stands (no PoW run with liveness loses an end). The broadcast timer
  is not assumed.
* `Ex1Ring`: also the periodic broadcast timer, which the constructor starts. `TxReachesAll`
  speaks of behaviours that lose no end, `GossipQuiets` of all.
* `PeerLive`: the loop serves connects, accepts and every readable descriptor of a running
  process, and its periodic ping timer. `PeersAgree` is a statement about the time after
  the last connect, which `MaxConn` provides.
* `Stream`: `Handle` is weakly fair, as the loop drains its queue; `ReportsAll`, a round
  that reports every descriptor that is ready, is strongly fair: rounds start
  only when the queue is empty, but libev's watchers are level-triggered, so what stays ready
  is reported in the next round. A connect under way or bytes on the wire may be seen late, in
  any number of rounds, but not in all of them.
* `Addr`: the periodic advertisement timer, successful connects and the handling of each
  message. Nobody has to connect.
* `HashNumber`: an iteration of a division (`Loop`), as a thread runs on.

*The violated runs.* While a node processes an inventory it drops every other
POWBLOCK-INV (`ProtocolLayerPoW.cpp:62`) and nobody repeats it. `PoWTreeSync`
exhibits a pair where the miner finds two blocks while its neighbour fetches the
first: the network is silent, no mining is under way, and the trees differ by two
blocks; only a further block would repair it. The
regression test `tests/regtest/2_BLEEPlib/3_PoW_treesync/test-treesync.py:148`
takes a difference of more than one block as a failure.

`PeerAbort`: `PeerNotifyHandler` overwrites a peer that is
still connecting, so when two nodes connect to each other at the same time
the assertion at `PeerConnectivityLayer_API.cpp:66` ends one of them;
`AbortExplained`, in `PeerPair`, says that this needs a cross-connect.

*Where the holding properties are narrower than one would wish.* No document
promises more, so these are no violated runs:

* The ping timer clears the `_pongReceived` flag of a peer that is still
  connecting, to which no PING goes (`PeerConnectivityLayer_API.h:83-92`), so the
  next expiry may disconnect a healthy peer that was never asked. `AnsweringPeerKept` says
  what does hold: an incoming peer, which is asked from its first tick on, is kept as
  long as it runs and has the same connection for its own, while `OwnersCertain` (next item).
* A failed connect leaves the peer in the table with neither flag nor socket, and
  the next `DisconnectPeer` of it fails the assertion at line 350;
  `AbortExplained` says that nothing else leads to it. The peer also keeps the
  number of its closed descriptor, so the socket that gets the number next may be
  given to it. The same can happen when the uninitialised `_connSocket` of an
  incoming peer happens to be the number of a descriptor. `OwnersCertain` says that
  neither has happened or can; `SocketOfItsPeer`, the part of `AbortExplained` about a
  PONG without a peer, and `AnsweringPeerKept` hold under it and not without.
* `DoSend` takes `EAGAIN` for an error when the kernel's buffer is full at the
  beginning of a `WriteMsg`, and a reset is one as well; both end the process
  (`Socket.cpp:170`), and `EverythingHandled` leaves out connections to or from a process that ended.
* `DisconnectSocket` leaves the receive buffer of its descriptor behind, and the
  next connection with that number starts with the rest. Such connections are
  `tainted` in the model; `ImplementsMessageStream` excludes them, and
  `TaintedByDisconnect` says that there is no other way to become one: the node itself
  had disconnected another connection before.
* A read that fills the buffer is followed by another one, and an end of file
  found there discards the messages completed before it
  (`SocketLayer_API.cpp:94`). `LostOnlyAfterFullRead` says that messages that
  arrived are lost in this way only.

*Mutants.* For each property, `PROJECT.json` names a plausible bug in a mapped
definition under which TLC finds the property violated (for example `LastMissing` for
`ArrivingBlockFits`). The mutated definitions stand before the ones they mutate.

## 4. What is proved

For every set of nodes, links and bounds, from the `ASSUME`s of the modules alone
(finiteness of the node set is not needed):

| Theorem (module `ProtocolLayerPoWProofs`) | Says |
|---|---|
| `Invariance` | `Spec => []IndInv` |
| `TypeCorrect`, `ParentsAlwaysHeld`, `TipAlwaysLongest`, `ArrivingBlocksFit`, `CommonBlockAlwaysExists`, `MinerNeverFarBehind` | `TypeOK`, `ParentsHeld`, `TipIsLongest`, `ArrivingBlockFits`, `CommonBlockExists`, `MinerAtMostOneBehind` |
| `TipsOnlyGrow` | a tip is only ever replaced by a longer chain; in the runs this is part of the refinement |
| `Refinement` | `Spec => ImplementsLongestChain` |
| `BlocksAlwaysFull` | `BlocksFull`, a property of the handlers that start the miner: each counts the pool and takes from it in one go |
| `OneRequestAtATime` | `OneRequest`: at most one block request of a node is under way, with one peer and as one message |
| `RequestedBlocksHeld` | `RequestedBlockHeld`: it reaches a peer that has the block |

| Theorem (module `ProtocolLayerEx1Proofs`) | Says |
|---|---|
| `Held` | `Spec => []HeldInv` |
| `TypeCorrect`, `AnnouncedAlwaysHeld` | `TypeOK`, `AnnouncedHeld` |
| `NothingForgotten` | `NoTxForgotten`, if all links stand at the start (`UpLink = Link`); any number of ends may be lost, and until the first loss nothing is forgotten |

| Theorem (module `AddrGossipProofs`) | Says |
|---|---|
| `TypeCorrect`, `TablesOfOthers` | `TypeOK`, `TableOfOthers`: a table holds no own address and one address per slot |
| `OnlyDialersAreSpread` | an address that is stored or under way is that of a node that dials |
| `PeersAreTold` | `ToldWhatItKnows` |

| Theorem (module `PeerConnectivityProofs`) | Says |
|---|---|
| `TypeCorrect` | `TypeOK` |
| `CountersFollowTable` | `CountersAgree` |
| `OnlyFullNodesTurnAway` | `TurnedAwayWhenFull` |
| `SocketsBelong` | `SocketOfItsPeer` |
| `AbortsExplained` | `AbortExplained` |
| `AnsweringPeersKept` | the action property `AnsweringPeerKept` |

| Theorem (module `SocketStreamProofs`) | Says |
|---|---|
| `Invariance` | `Spec => []IndInv` |
| `TypeCorrect` | every variable has its type (`TypeOK` of this module): a wire holds no more than `Capacity`, a queued event names a descriptor and a connection there are |
| `RoundsKeepOrder`, `EventsFindSockets`, `ClosesComeLast` | `RoundsInOrder`, `EventsOfLiveSockets`, `CloseAfterMessages` |
| `OnlyDisconnectsTaint`, `OnlyFullReadsLose` | the action properties `TaintedByDisconnect`, `LostOnlyAfterFullRead` |

| Theorem (module `MessageStreamProofs`) | Says |
|---|---|
| `Refinement` | `Spec => ImplementsMessageStream`: for every size of frames, reads and kernel buffers, any number of nodes, connections and disconnects |

| Theorem (module `HashNumberProofs`) | Says |
|---|---|
| `PaddingCorrect` | `HashesThePaddedMessage`, for every size of a block and of a length and for messages of any length |
| `ComparisonsAgree` | `Order128` and `Order256`, which `OperatorsAgree` contains, for all numbers and every width of a word |
| `SumsAgree` | `Sums128` and `Sums256`, in the same way: sums and differences are those of the values modulo the width |

*The argument for PoW.* `IndInv` is `TypeOK`, `ParentsHeld`, `TipIsLongest` and four
parts that make these inductive:

* `MessagesOK`: every message fits both ends. An inventory is a chain without gaps,
  each block known to its sender; a locator names genesis; a block is asked for
  only if the asking node has its parent; a delivered block has its parent
  where it arrives. Trees only grow, so a message stays right while it waits, and
  a prefix of a queue (a lost end) stays right too.
* `ProcessingOK`: the inventory under processing is such a chain, whose first block
  the node has. With it, the *first missing* block always has its parent in the
  tree: this is what `LastMissing` breaks.
* `MinerOK`: candidate and queued mined block have the index of their height and
  extend the tip or the tip's parent, and while a mined block is queued a new
  candidate extends the tip. That last part is what keeps the miner from falling
  two blocks behind; with `TipIsLongest` the first makes `AppendBlock` keep height,
  index and tip in step.
* `NoncesOK`: the number of a node's own blocks bounds the nonces it used, so a
  new block is new everywhere. The refinement needs it: a mined block is a `Mine`
  step of `LongestChain`, never a `Learn` step.

Each action has a lemma of its own; the first part of the module has the facts on `AppendBlock`,
locators and common blocks, `PeerLinksProofs` those on queues that get, lose or
truncate messages.

*The argument for the gossip.* In `HeldInv` all announced, delivered and requested
ids of a node are in its pool, and so is its broadcast list; pools only grow in
`Ex1`. For `NoTxForgotten` the step from an announcement to a request needs that
the receiver answers to an active peer, which holds until the first end is lost, and
about what follows it the property says nothing.

*The argument for the addresses.* `TableInv` (`TypeOK`, `TableOfOthers`,
`OnlyDialersSpread`, `AdvertisedDialers`) is inductive: an address enters a table only
from a message or an introduction, and messages carry what the sender's advertisement
manager holds. `ToldWhatItKnows` compares a note of the sender with the table
of the receiver, so `ToldInv` follows the address between the two: it is noted, then
in the queue, then in the table, or the connection was lost. The difficulty is that
an ADDR message of a peer that is not active is ignored. `Introduced` rules it out on a
connection that was not lost: the introduction goes before everything else, so whoever reads
an address has met its sender.

*The argument for the requests.* `OneRequest` counts messages, which is not inductive. `RequestInv`
says where a request can be: over all channels of a node there is at most one question
or one answer to it (`AtMostOne`), and as long as there is one the node processes an inventory,
the block asked for is of that inventory, and the peer asked has all of it
(`HasInventory`). A new question is sent only by a handler that has taken the answer off, or
by one that found no inventory under processing, and then there is no other. The
inventory comes from the peer that is asked, and trees never shrink. A lost end leaves a
prefix of a queue, which has no more requests than the queue; a processing that
is stuck after it stays stuck, and asks nobody.

*The argument for full blocks.* `FullInv`: while a node mines, its candidate has
`TxNumPerBlock` transactions, and so have the mined block in the queue and all blocks of
all ledgers. The miner starts only when the pool has that many, on the pool as it is when
the candidate is taken. As cardinalities mean something for finite sets only, `PoolsFinite` and
`TxsFinite` are part of it.

*The argument for the peer layer.* It goes in three steps, each inductive over the one before.

* `Fits`: every socket has a connection of its node, no connection has two sockets at
  one end, and an accepted or closed end is one of a socket that is or was there; the
  two flags and two descriptors of a peer fit each other (an incoming one is never
  connecting, a connecting one has no data socket); the counter of incoming peers is
  their number, within the limit, and the counter of outgoing peers is at least
  theirs. This gives `CountersAgree` and `TurnedAwayWhenFull`. `AddPeer` overwrites a
  peer only while it is not active: an incoming one never is, and an outgoing one
  that is overwritten stays counted, which is why the second part is no equality.
* `OwnerInv`: the socket with which n dialed a node that never dialed n is the one
  that its peer knows (`DialedOwned`), because only an introduction can overwrite a
  connecting peer, and introductions come from those who dialed (`NotifyFits`). So a
  connected socket without a peer needs a cross-connect, and a peer without a socket a failed
  connect (`LostExplained`).
* `CertainInv`: while `OwnersCertain`, every peer has an open socket with its node, in the
  state its flag says (`PeersHold`), and a PING that was asked by the dialed node, or its PONG,
  travels over the connection of the peer it is counted for (`PongsFit`). Descriptors
  are used again, so the invariant cannot speak of numbers alone: it follows the connection.

`AnsweringPeersKept` needs one more, `AskedInv`, again while `OwnersCertain`: an incoming
peer dialed the connection of its data socket (`DialedIn`), the dialing side knows it by the
same connection (`Known`), and as long as it has not answered since the last tick and its end is open,
a PING to it or its PONG is on that connection (`UnderWay`). `KeptStep` shows for
every step that no message is lost but those taken by a handler and those for an end or a process that
is gone. The timer fires when no PING or PONG of the node is under way (`PingPongDone`), so
then every such peer has answered.

*The argument for sockets, events and buffers.* `IndInv` of `SocketStreamProofs`:

* `RanksFit`: the queue is ordered by `Rank`, which is the layer, one more for the two events
  of a failed connect, *and spans two ranks at most*. Without the
  second half, an event pushed by a handler could stand behind a later rank.
* `EventsFit`: two queued events of one descriptor are messages (those of a failed connect have
  none). It is why no handler can
  take the socket away from under an event that waits (`LiveFit`), and rests on `OneEach`:
  libev reports a descriptor as readable or as writable.
* `MessagesFit`: messages that wait are of connections whose socket has neither a read nor
  a close in the queue. It speaks of connections, as descriptors are used again, and
  `SocketsFit` has it that no two sockets of a node share one.
* `CutsFit` and `RestsFit`: a disconnected end never gets a socket again, and bytes without a data
  socket are left from one. For this, the loop of accepts must give different descriptors
  different connections (`AcceptsFacts`).
* `BuffersFit`: no whole frame stays in a receive buffer. The parsing loop is a recursive
  function; `FrameEnd` is shown to be defined, to stay in the buffer and to stop only
  where no frame follows by taking a least counterexample (`LeastNat`), which needs no induction theorem.

Each action has a lemma that it keeps the invariant; `PoppedOrder`, `PoppedSockets` and
`QueueKept` say once what a handler does to the queue.

*The argument for the streams.* `StreamInv` of `MessageStreamProofs`, inductive over `IndInv`,
follows the messages that one end of a connection sent from the send buffer to the handlers of the
other (`Flow`). At an end that is not tainted there is a number `h` such that

* the messages handled + 1 to `h` are in its queue (`Lined`). A message takes two
  hops there, so a later one may stand in front of an earlier one that is a layer further; within
  a layer they are in order, and `RanksFit` makes the earlier layer wait. So the next
  one that is handled is the next one that was sent (`HandledIsNext`).
* the receive buffer, the wire and the send buffer of the other end, one after the other,
  are the frames of the messages after `h` (`Bytes`). If the other end is gone, bytes at the end may be
  missing, and a cut frame is never completed. The concatenation of frames would be a recursive
  definition; `Framed` says instead, with the offset of every frame, which byte stands where.

A write moves bytes over a border inside the concatenation, a message sent adds a frame behind it,
and a read takes whole frames off it: `FramedParse` shows that the parsing loop finds just the
next messages, wherever the frames are cut, by the least counterexample again. The other parts of the
invariant (`SmallInv`, `NumbersFit`) say that nothing was sent or handled on a connection
before both ends are there, that a closed end is gone for good, that only the ends of a connection
have messages of it, and that messages are numbered as they are sent. A connection that starts over an old receive buffer is
`tainted` in the same step, so the invariant need not hold for it.

*The argument for the padding.* `PaddingInv`: while a message is taken in, what was transformed
is whole blocks and, with the first `datalen` bytes of the buffer behind it, the message
(`Buffered`); the rest of the buffer may hold anything, as `sha256_init` does not clear it.
`sha256_final` fills one block or two. That the number of zeros is the remainder by which the standard
defines it is a fact on `%` (`RemainderIs`); both results are then compared unit by unit (`PaddedIs`).

*The argument for the numbers.* A `UINT128_t` has two digits to the base of a word, a
`UINT256_t` two digits to the base of a `UINT128_t`. `DigitsOrder`, `SumDigits` and
`DifferenceDigits` are about two digits of any base, the carry read off the lower digit as the
code reads it; both widths follow from the same three lemmas. In `UINT256_t` the carry is
added in a step of its own, with a wrap of its own (`RemTwice`). Of exponents the proofs use
`WordRange` alone: a word has more than one value.

*Model-checked only.* The rest of `OperatorsAgree` (products, shifts, bits, numbers made of bytes) and
`DivisionCorrect`, which rest on the laws of exponents, on sums over sets of bits and on folds over
bytes, all by induction over data. Liveness (`ProcessingEnds`, `NetworkQuiets`, `TxReachesAll`, `GossipQuiets`,
`DeadPeerDropped`, `PeersAgree`, `EverythingHandled`, `OwnAddressArrives`, `AdvertisingQuiets`,
`DivisionEnds`) is out of the prover's reach everywhere.

## 5. Not modelled

The socket layer for Bitcoin nodes, the pipe of the Shadow layer and the functions Shadow
overrides, options, clock, logger and random source, the rounds of `sha256_transform`, the
printing of big integers, IPC, the emulator programs, tests and vendored code: see
`components` in `PROJECT.json`. They are I/O, drivers or fixed computations without a state
of their own. Nothing in the library is written to disk, so there is no recovery
to model; a process that ends takes its state with it (`PeerConnectivity`, `SocketStream`).

No property says what happens to
the processing flag after the peer that served it is lost: in the code it
stays set, the node is deaf to inventories from then on, and no document says
otherwise; `ProcessingEnds` therefore speaks of standing connections. Likewise
nothing in the code returns the transactions of an abandoned branch to the pool, or
keeps an id from being mined twice.

## 6. What is left

1. `PeerLinks` as abstract specification of `PeerConnectivity`, for the behaviours
   without cross-connects and failures.
2. `GetBlockLocator` walked entry by entry against its closed form over bounded chains.
