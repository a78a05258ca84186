------------------------- MODULE MCSyncConsistency -------------------------
(* Finite instances of SyncSystem with its history for TLC.                *)
EXTENDS SyncConsistencyProofs, MCSessions

Symmetry == Permutations(Content)
=============================================================================
