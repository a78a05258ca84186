--------------------------- MODULE MCSyncSession ---------------------------
(* Finite instance of SyncSession for TLC, with the inductive invariant of *)
(* its proofs.                                                             *)
EXTENDS SyncSessionProofs
=============================================================================
