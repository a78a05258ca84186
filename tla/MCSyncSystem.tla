---------------------------- MODULE MCSyncSystem ----------------------------
(* Finite instances of SyncSystem for TLC.                                 *)
EXTENDS SyncSystemProofs, MCSessions

Symmetry == Permutations(Content)
=============================================================================
