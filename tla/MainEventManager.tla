--------------------------- MODULE MainEventManager ---------------------------
(***************************************************************************)
(* BL_MainEventManager: the queue of events of a node and the two halves   *)
(* of its loop.  When the queue is empty Wait runs one round of libev      *)
(* (ev_run with EVRUN_ONCE), whose callbacks push events; then the events  *)
(* are handled one by one, and their handlers push more.  Whether Wait     *)
(* hands an event to its layer itself or returns, so that the program pops *)
(* it and hands it to all layers, makes no difference to the order.        *)
(***************************************************************************)
EXTENDS Naturals, Sequences, SequencesExt

CONSTANT Node

VARIABLES queue,      \* queue[n]: _eventQueue
          status      \* status[n]: "running", or how the process, or its wait, ended

Running(n) == status[n] = "running"

\* AsyncEventEnum: every layer has a range of event types of its own.
Layer1 == {"SocketAccept", "SocketConnect", "SocketConnectFailed", "SocketRecv", "SocketWrite"}
Layer2 == {"PeerSocketConnect", "PeerSocketConnectFailed", "PeerSocketClose", "PeerRecvMsg",
           "PeerRecvNotifyPeerId"}
Layer3 == {"ProtocolRecvMsg"}
Mined == {"EmuBlockMiningComplete"}   \* Layer 3 too, but pushed by a timer

EventInit ==
  /\ queue = [n \in Node |-> << >>]
  /\ status = [n \in Node |-> "running"]

\* Wait, PopAsyncEvent: the next event of n is of this type.
NextIs(n, type) == Running(n) /\ queue[n] # << >> /\ Head(queue[n]).type = type

\* The queue after the handler of the next event pushed these (PushAsyncEvent).
Popped(n, events) == [queue EXCEPT ![n] = Tail(@) \o events]

\* ev_run: only when everything is handled.  The callbacks of the timers run
\* before those of the sockets.
Polls(n) == Running(n) /\ queue[n] = << >>

\* Mutant of Polled: the timers come last.
PolledLate(n, timers, sockets) == queue' = [queue EXCEPT ![n] = sockets \o timers]
Polled(n, timers, sockets) == queue' = [queue EXCEPT ![n] = timers \o sockets]
=============================================================================
