----------------------------- MODULE MCA2SNode -----------------------------
(* A2SNode with the three refresh periods scaled from 20, 30 and 59        *)
(* seconds to 1, 2 and 3 ticks; the .cfg files give the values.            *)
EXTENDS A2SNode
=============================================================================
