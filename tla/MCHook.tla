------------------------------- MODULE MCHook -------------------------------
(* Hook on a small instance: the constants are model values and small      *)
(* numbers given in the .cfg files.                                        *)
EXTENDS Hook, TLC

\* Players are interchangeable, and so are nodes.
Symmetry == Permutations(Clients) \cup Permutations(Nodes)
=============================================================================
