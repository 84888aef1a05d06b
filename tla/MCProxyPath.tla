---------------------------- MODULE MCProxyPath ----------------------------
(* ProxyPath on a small instance; players and nodes are interchangeable.   *)
EXTENDS ProxyPath, TLC

Symmetry == Permutations(Clients) \cup Permutations(Nodes)
=============================================================================
