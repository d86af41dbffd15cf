----------------------------- MODULE LongestChain -----------------------------
(***************************************************************************)
(* What the PoW protocol promises, without messages, miners or timers:     *)
(* every node knows a growing tree of blocks.  A block enters the network  *)
(* at one node, on a parent which that node knows, and spreads only from   *)
(* nodes that know it to nodes that know its parent.  A node's tip is the  *)
(* first of the longest chains it got to know.                             *)
(***************************************************************************)
EXTENDS BlockTree

CONSTANT Node

VARIABLES known,  \* known[n]: the blocks n knows
          tip     \* tip[n]: the end of n's main chain

Init ==
  /\ known = [n \in Node |-> {Genesis}]
  /\ tip = [n \in Node |-> Genesis]

\* Node n adds b to its tree and switches to it if that chain is longer.
Adopt(n, b) ==
  /\ b # Genesis
  /\ Prev(b) \in known[n]
  /\ known' = [known EXCEPT ![n] = @ \cup {b}]
  /\ tip' = [tip EXCEPT ![n] = IF Len(b) > Len(@) THEN b ELSE @]

\* n made the new block b.
Mine(n, b) ==
  /\ \A m \in Node : b \notin known[m]
  /\ Adopt(n, b)

\* n got b from another node.
Learn(n, b) ==
  /\ \E m \in Node \ {n} : b \in known[m]
  /\ Adopt(n, b)

\* The new block is the one that n knows after the step and not before it.
Next == \E n \in Node : \E b \in known'[n] \ known[n] : Mine(n, b) \/ Learn(n, b)

Spec == Init /\ [][Next]_<< known, tip >>
=============================================================================
