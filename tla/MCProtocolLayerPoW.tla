------------------------ MODULE MCProtocolLayerPoW ------------------------
(* Instances of ProtocolLayerPoW for TLC. *)
EXTENDS ProtocolLayerPoW

CONSTANTS n1, n2, n3

Pair == {<<n1, n2>>}
Line == {<<n1, n2>>, <<n2, n3>>}
=============================================================================
