------------------------ MODULE MCProtocolLayerEx1 ------------------------
(* Instances of ProtocolLayerEx1 for TLC. *)
EXTENDS ProtocolLayerEx1

CONSTANTS n1, n2, n3, n4

Ring == {<<n1, n2>>, <<n2, n3>>, <<n3, n4>>, <<n4, n1>>}
=============================================================================
