------------------------ MODULE MCDiscoveryRpcGate ------------------------
(* DiscoveryRpcGate on small instances.                                    *)
EXTENDS DiscoveryRpcGate, TLC

Symmetric == Permutations(Tasks)
=============================================================================
