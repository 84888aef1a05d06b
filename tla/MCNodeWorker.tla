---------------------------- MODULE MCNodeWorker ----------------------------
(* A shared port, and two ports with a second A2S port that wraps around.   *)
EXTENDS NodeWorker

MCSettings == {[a2sport |-> 0, proxyport |-> 0], [a2sport |-> 1, proxyport |-> 2]}
=============================================================================
