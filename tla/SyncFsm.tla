------------------------------- MODULE SyncFsm -------------------------------
(***************************************************************************)
(* The per-connection sync state machine (worker/src/services/sync_fsm.rs) *)
(* as operators.  A handler is given the SyncFsm f and the pages table st, *)
(* and yields the SET of its outcomes: one when nothing fails, one more    *)
(* for each storage call or emit of it that may return Err.                *)
(*                                                                         *)
(* An outcome is [fsm, pages, out, res]: the two states after the call,    *)
(* the frames it emitted, and how it returned:                             *)
(*   "ok"           Ok(())                                                 *)
(*   "err"          Err from a check or from storage                       *)
(*   "send_failed"  Err from emit: the frame was not accepted              *)
(*                                                                         *)
(* Two handlers loop, and the loop's position is kept in the FSM record so *)
(* that a step emits at most one frame: `rest` holds the entries of a      *)
(* PageDataBatch still to apply, `cursor` the next page of the walk in     *)
(* handle_complete (0 outside it).  apply has returned when Idle(f).       *)
(***************************************************************************)
EXTENDS SyncStorage

Direction == {"push", "pull"}

Fsm == [direction            : Direction,
        saw_hello            : BOOLEAN,
        completed_hash_phase : BOOLEAN,
        pending_requests     : SUBSET PageNo,
        client_seen          : SUBSET PageNo,
        server_max_page      : 0 .. LastPage,
        pages_transferred    : Nat,
        emitted_complete     : BOOLEAN,
        rest                 : Seq(PageDataEntry),
        cursor               : 0 .. LastPage + 1]

new(dir) ==
  [direction            |-> dir,
   saw_hello            |-> FALSE,
   completed_hash_phase |-> FALSE,
   pending_requests     |-> {},
   client_seen          |-> {},
   server_max_page      |-> 0,
   pages_transferred    |-> 0,
   emitted_complete     |-> FALSE,
   rest                 |-> <<>>,
   cursor               |-> 0]

Idle(f) == f.rest = <<>> /\ f.cursor = 0

done(f) == f.emitted_complete

Outcome(f, st, out, res) == [fsm |-> f, pages |-> st, out |-> out, res |-> res]

Ok(f, st, out) == Outcome(f, st, out, "ok")
Err(f, st) == Outcome(f, st, <<>>, "err")
SendFailed(f, st) == Outcome(f, st, <<>>, "send_failed")

\* emit(msg): accepted, or the call aborts with what was changed before it.
Emit(f, st, msg) == {Ok(f, st, <<msg>>), SendFailed(f, st)}

-----------------------------------------------------------------------------
(* The single emission gate.                                               *)

\* Mutant: pages still on their way do not hold SyncComplete back.
MayComplete_ignores_pending(f) ==
  ~f.emitted_complete /\ f.completed_hash_phase

MayComplete(f) ==
  /\ ~f.emitted_complete
  /\ f.completed_hash_phase
  /\ f.pending_requests = {}

maybe_emit_complete(f, st) ==
  IF MayComplete(f)
  THEN {Ok([f EXCEPT !.emitted_complete = TRUE], st,
           <<SyncComplete(f.pages_transferred)>>),
        SendFailed(f, st)}
  ELSE {Ok(f, st, <<>>)}

-----------------------------------------------------------------------------

\* The version is checked before saw_hello is set, max_page() after it.
handle_hello(f, st, msg) ==
  IF msg.protocol_version # PROTOCOL_VERSION
  THEN {Err(f, st)}
  ELSE LET f1 == [f EXCEPT !.saw_hello = TRUE]
       IN  {Err(f1, st)}
             \cup UNION {Emit([f1 EXCEPT !.server_max_page = m], st,
                              HelloReply(m)) :
                         m \in {n \in 0 .. LastPage : is_max_page(st, n)}}

\* Mutant: a mismatch of a pull asks for the page instead of sending it.
handle_page_hash_ignores_direction(f, st, msg) ==
  LET p  == msg.page_no
      f1 == [f EXCEPT !.client_seen = @ \cup {p}]
  IN  {Err(f1, st)}
        \cup IF get_page_hash_is(st, p, msg.hash)
             THEN {Ok(f1, st, <<>>)}
             ELSE Emit([f1 EXCEPT !.pending_requests = @ \cup {p}], st,
                       RequestPage(p))

\* Mutant: a matching page is waited for too, though nobody asks for it.
handle_page_hash_waits_for_match(f, st, msg) ==
  LET p  == msg.page_no
      f1 == [f EXCEPT !.client_seen = @ \cup {p},
                      !.pending_requests = @ \cup {p}]
  IN  {Err(f1, st)}
        \cup IF get_page_hash_is(st, p, msg.hash)
             THEN {Ok(f1, st, <<>>)}
             ELSE Emit(f1, st, RequestPage(p))

\* Mutant: a pull leaves a mismatching page to the walk, which passes over
\* the pages the client claimed.
handle_page_hash_no_inline(f, st, msg) ==
  LET p  == msg.page_no
      f1 == [f EXCEPT !.client_seen = @ \cup {p}]
  IN  {Err(f1, st)}
        \cup IF get_page_hash_is(st, p, msg.hash) \/ f.direction = "pull"
             THEN {Ok(f1, st, <<>>)}
             ELSE Emit([f1 EXCEPT !.pending_requests = @ \cup {p}], st,
                       RequestPage(p))

\* The page counts as seen whatever the comparison says.
handle_page_hash(f, st, msg) ==
  LET p  == msg.page_no
      f1 == [f EXCEPT !.client_seen = @ \cup {p}]
      on_mismatch ==
        CASE f.direction = "push" ->
               Emit([f1 EXCEPT !.pending_requests = @ \cup {p}], st,
                    RequestPage(p))
          [] f.direction = "pull" /\ p \in DOMAIN st ->
               Emit([f1 EXCEPT !.pages_transferred = @ + 1], st,
                    PageData(p, st[p].data))
          [] OTHER -> {Ok(f1, st, <<>>)}
  IN  {Err(f1, st)}
        \cup IF get_page_hash_is(st, p, msg.hash)
             THEN {Ok(f1, st, <<>>)}
             ELSE on_mismatch

handle_page_hash_batch(f, st, msg) ==
  LET range == msg.start_page .. msg.end_page
      f1    == [f EXCEPT !.client_seen = @ \cup range]
  IN  {Err(f1, st)}
        \cup IF combined_hash(st, msg.start_page, msg.end_page)
                  = msg.combined_hash
             THEN {Ok(f1, st, <<>>)}
             ELSE Emit(f1, st, HashMismatchBatch(range))

\* Mutant: the last page of a push does not try the gate.
handle_page_data_ungated(f, st, entry) ==
  LET f1 == [f EXCEPT !.pending_requests = @ \ {entry.page_no},
                      !.pages_transferred = @ + 1]
  IN  {Ok(f1, put_page(st, entry.page_no, entry.data, page_hash(entry.data)),
          <<>>)}

\* Either direction: the bytes are stored under the server's own hash of them.
handle_page_data(f, st, entry) ==
  LET f1 == [f EXCEPT !.pending_requests = @ \ {entry.page_no}]
      f2 == [f1 EXCEPT !.pages_transferred = @ + 1]
  IN  {Err(f1, st)}
        \cup maybe_emit_complete(f2,
               put_page(st, entry.page_no, entry.data, page_hash(entry.data)))

\* Mutant: the walk starts at page 2.
handle_complete_skips_first(f, st) ==
  LET f1 == [f EXCEPT !.completed_hash_phase = TRUE]
  IN  IF f.direction = "pull" /\ f.server_max_page > 0
      THEN {Ok([f1 EXCEPT !.cursor = 2], st, <<>>)}
      ELSE maybe_emit_complete(f1, st)

\* In a pull with pages to offer the walk over them comes before the gate.
handle_complete(f, st) ==
  LET f1 == [f EXCEPT !.completed_hash_phase = TRUE]
  IN  IF f.direction = "pull" /\ f.server_max_page > 0
      THEN {Ok([f1 EXCEPT !.cursor = 1], st, <<>>), Err(f1, st)}
      ELSE maybe_emit_complete(f1, st)

-----------------------------------------------------------------------------
(* The loops.                                                              *)

\* Mutant: the range of the walk excludes its upper end.
Unclaimed_exclusive(f, st) ==
  {p \in f.cursor .. f.server_max_page :
     p < f.server_max_page /\ p \in DOMAIN st \ f.client_seen}

\* Pages the walk has yet to offer: rows in range the client did not claim.
Unclaimed(f, st) ==
  {p \in f.cursor .. f.server_max_page : p \in DOMAIN st \ f.client_seen}

\* Mutants: pages the walk sends are not counted; the walk steps over the
\* page after the one it has sent.
walk_as(f, st, counted, step) ==
  LET todo == Unclaimed(f, st)
      next == {p \in todo : \A q \in todo : p <= q}
  IN  IF todo = {}
      THEN maybe_emit_complete([f EXCEPT !.cursor = 0], st)
      ELSE UNION {Emit([f EXCEPT !.pages_transferred = @ + counted,
                                 !.cursor = p + step],
                       st, PageData(p, st[p].data)) : p \in next}

walk_uncounted(f, st) == walk_as(f, st, 0, 1)
walk_steps_twice(f, st) == walk_as(f, st, 1, 2)

\* One turn of the callback of iter_pages_in_range, or the end of the walk.
\* The cursor can fail at any row, claimed rows included.
walk(f, st) ==
  LET todo    == Unclaimed(f, st)
      next    == {p \in todo : \A q \in todo : p <= q}
      sent(p) == [f EXCEPT !.pages_transferred = @ + 1, !.cursor = p + 1]
  IN  {Err(f, st)}
        \cup IF todo = {}
             THEN maybe_emit_complete([f EXCEPT !.cursor = 0], st)
             ELSE UNION {Emit(sent(p), st, PageData(p, st[p].data)) :
                           p \in next}

\* What is left of the apply that stopped at f: ~Idle(f).
resume(f, st) ==
  IF f.cursor # 0
  THEN walk(f, st)
  ELSE handle_page_data([f EXCEPT !.rest = Tail(@)], st, Head(f.rest))

\* One inbound message.  A PageDataBatch only queues its entries here.
apply(f, st, msg) ==
  CASE ~f.saw_hello /\ msg.kind = "Hello" -> handle_hello(f, st, msg)
    [] f.saw_hello /\ msg.kind = "PageHash" -> handle_page_hash(f, st, msg)
    [] f.saw_hello /\ msg.kind = "PageHashBatch" ->
         handle_page_hash_batch(f, st, msg)
    [] f.saw_hello /\ msg.kind = "PageData" -> handle_page_data(f, st, msg)
    [] f.saw_hello /\ msg.kind = "PageDataBatch" ->
         {Ok([f EXCEPT !.rest = msg.pages], st, <<>>)}
    [] f.saw_hello /\ msg.kind = "Complete" -> handle_complete(f, st)
    [] OTHER -> {Err(f, st)}

\* The peer is gone: the gate with an emit that drops the frame.
client_closed(f) ==
  IF f.saw_hello /\ MayComplete(f)
  THEN [f EXCEPT !.emitted_complete = TRUE]
  ELSE f
=============================================================================
