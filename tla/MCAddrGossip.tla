----------------------------- MODULE MCAddrGossip -----------------------------
(* Instances of AddrGossip for TLC. *)
EXTENDS AddrGossip

CONSTANTS n1, n2, n3

AllPairs == {l \in Node \X Node : l[1] # l[2]}
Line == {<<n1, n2>>, <<n2, n3>>}
SharedSlot == [n \in Node |-> IF n = n3 THEN 3 ELSE 2]
=============================================================================
