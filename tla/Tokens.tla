------------------------------- MODULE Tokens -------------------------------
(***************************************************************************)
(* The two kinds of macaroon of worker/src/auth/tokens.rs.  One root key   *)
(* signs both: what tells them apart, and whatever else gives authority,   *)
(* is in the signed claims, which nobody can change.  Caveats anybody who  *)
(* holds a token can append; the only one that verifies is an expiry.      *)
(***************************************************************************)
EXTENDS Naturals

CONSTANTS
  DatabaseId,
  OrgId,
  None,    \* a claim that is not set
  Other    \* a caveat that is no expiry

ASSUME TokensAssumption ==
  /\ None \notin DatabaseId
  /\ Other \notin Nat

\* User, email and direction are left out: nothing here depends on them.
Claims ==
  [role : {"admin", "member"} \cup {None}, org_id : OrgId,
   database_id : DatabaseId \cup {None}, purpose : {"session", "sync"}]

\* An expiry is known by its time.
Caveat == Nat \cup {Other}

Macaroon == [claims : Claims, caveats : SUBSET Caveat]

\* The new macaroon has one caveat.
pack(claims, exp_unix) == [claims |-> claims, caveats |-> {exp_unix}]

\* What a holder may do: the signature covers the caveats in turn, so that
\* they can be added to and not taken away.
append(token, caveats) == [token EXCEPT !.caveats = @ \cup caveats]

\* Mutant: the latest expiry counts.
unpack_latest(token, now_unix) ==
  /\ Other \notin token.caveats
  /\ \E exp_unix \in token.caveats : exp_unix > now_unix

\* There is an expiry, every caveat is one, and the earliest is to come.
unpack(token, now_unix) ==
  /\ token.caveats # {} /\ Other \notin token.caveats
  /\ \A exp_unix \in token.caveats : exp_unix > now_unix

check_purpose(token, expected) == token.claims.purpose = expected

mint_session(org, role, exp_unix) ==
  pack([role |-> role, org_id |-> org, database_id |-> None,
        purpose |-> "session"], exp_unix)

verify_session(token, now_unix) ==
  /\ unpack(token, now_unix) /\ check_purpose(token, "session")
  /\ token.claims.role # None

mint_sync(org, database, exp_unix) ==
  pack([role |-> None, org_id |-> org, database_id |-> database,
        purpose |-> "sync"], exp_unix)

verify_sync(token, now_unix) ==
  /\ unpack(token, now_unix) /\ check_purpose(token, "sync")
  /\ token.claims.database_id # None
=============================================================================
