----------------------------- MODULE MCAccounts -----------------------------
(* Finite instances of Accounts, with the inductive invariant of its proofs. *)
EXTENDS AccountsProofs, TLC

CONSTANTS x, y

\* One address in two spellings, and another.
Spellings ==
  {[addr |-> x, upper |-> FALSE], [addr |-> x, upper |-> TRUE],
   [addr |-> y, upper |-> FALSE]}

\* Two addresses in one spelling each.
Addresses == {[addr |-> x, upper |-> FALSE], [addr |-> y, upper |-> FALSE]}

\* Identifiers are drawn at random, requests are alike.
Symmetry ==
  Permutations(Call) \cup Permutations(UserId) \cup Permutations(OrgId)
    \cup Permutations(State)
=============================================================================
