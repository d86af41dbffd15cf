------------------------- MODULE MCPeerConnectivity -------------------------
(* Instances of PeerConnectivity for TLC. *)
EXTENDS PeerConnectivity, TLC

CONSTANTS n1, n2, n3

BothWays == {<<n1, n2>>, <<n2, n1>>}
Mesh == {p \in Node \X Node : p[1] # p[2]}
Symmetry == Permutations(Node)
=============================================================================
