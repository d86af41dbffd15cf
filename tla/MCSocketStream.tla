---------------------------- MODULE MCSocketStream ----------------------------
(* Instances of SocketStream for TLC. *)
EXTENDS SocketStream, TLC

CONSTANTS n1, n2

TwoAndOne == n1 :> 2 @@ n2 :> 1
BothWays == {<<n1, n2>>, <<n2, n1>>}
=============================================================================
