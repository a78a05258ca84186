---------------------------- MODULE MCDatabases ----------------------------
(* Finite instances of Databases, with the inductive invariant of its proofs. *)
EXTENDS DatabasesProofs, TLC

CONSTANTS o1, o2

\* The admins of two organizations, and a member of the first.
Sessions ==
  {[org |-> o1, role |-> "admin", exp |-> 2],
   [org |-> o2, role |-> "admin", exp |-> 1],
   [org |-> o1, role |-> "member", exp |-> 1]}

\* Identifiers are drawn at random, requests are alike.
Symmetry == Permutations(Call) \cup Permutations(DatabaseId)
=============================================================================
