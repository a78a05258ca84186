--------------------------- MODULE MCClientConfig ---------------------------
(* A finite instance of ClientConfig: the order of runs is of no matter.   *)
EXTENDS ClientConfig, TLC

Symmetry == Permutations(Process)
=============================================================================
