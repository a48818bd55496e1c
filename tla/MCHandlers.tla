------------------------------ MODULE MCHandlers ------------------------------
(* Instance of Handlers with two concurrent requests, which are alike.         *)
EXTENDS Handlers, TLC

Symmetry == Permutations(Conns)
=============================================================================
