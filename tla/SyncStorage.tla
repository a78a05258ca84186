----------------------------- MODULE SyncStorage -----------------------------
(***************************************************************************)
(* SqlSyncStorage (worker/src/services/sync_storage.rs): the pages table   *)
(* of one DurableObject, as a function from the page numbers that have a   *)
(* row to their rows.  A query is an operator on that function; whether a  *)
(* query fails is decided by its callers.  The column updated_at_ms is     *)
(* left out: nothing reads it.                                             *)
(***************************************************************************)
EXTENDS SyncProtocol, FiniteSets

Row == [data : Content, hash : Hash]

Pages == UNION {[S -> Row] : S \in SUBSET PageNo}

\* Mutant: a page that has a row counts as equal.
get_page_hash_is_exists(st, p, h) == p \in DOMAIN st

\* stored.as_deref() == Some(hash)
get_page_hash_is(st, p, h) == p \in DOMAIN st /\ st[p].hash = h

\* INSERT OR REPLACE
put_page(st, p, d, h) ==
  [q \in DOMAIN st \cup {p} |->
     IF q = p THEN [data |-> d, hash |-> h] ELSE st[q]]

\* SELECT MAX(page_no), 0 for an empty table.
is_max_page(st, m) ==
  \/ m = 0 /\ DOMAIN st = {}
  \/ m \in DOMAIN st /\ \A q \in DOMAIN st : q <= m

\* ORDER BY page_no: the k-th of the page numbers in S.
ByPageNo(S, k) == CHOOSE n \in S : Cardinality({m \in S : m < n}) = k - 1

\* Mutant: the upper end of the range is left out.
combined_hash_exclusive(st, p, q) ==
  LET present == DOMAIN st \cap (p .. q - 1)
  IN  Digest([k \in 1 .. Cardinality(present) |->
                st[ByPageNo(present, k)].hash])

\* Digest over the hashes of the rows in p..q, ascending; a page without a
\* row contributes nothing.
combined_hash(st, p, q) ==
  LET present == DOMAIN st \cap (p .. q)
  IN  Digest([k \in 1 .. Cardinality(present) |->
                st[ByPageNo(present, k)].hash])
=============================================================================
