---------------------------- MODULE SyncFsmProofs ----------------------------
(***************************************************************************)
(* Lemmas about the operators of SyncFsm, for every page count and every   *)
(* Content.  Ready is what holds of an FSM whose task is open; Legal is    *)
(* what every outcome of apply and of resume satisfies from a Ready FSM.   *)
(* Proofs about sessions use Legal and look into no handler.               *)
(***************************************************************************)
EXTENDS SyncFsm, TLAPS

\* put_page yields a pages table again, with the stored page in it and no
\* row lost.
LEMMA PutPageType ==
  ASSUME NEW st \in Pages, NEW p \in PageNo, NEW d \in Content
  PROVE  /\ put_page(st, p, d, page_hash(d)) \in Pages
         /\ DOMAIN put_page(st, p, d, page_hash(d)) = DOMAIN st \cup {p}
<1> DEFINE S == DOMAIN st \cup {p}
           r == [data |-> d, hash |-> page_hash(d)]
<1>1. PICK T \in SUBSET PageNo : st \in [T -> Row]
  BY DEF Pages
<1>2. DOMAIN st = T
  BY <1>1
<1>3. S \in SUBSET PageNo
  BY <1>2
<1>4. r \in Row
  BY DEF Row, Hash
<1>5. put_page(st, p, d, page_hash(d)) \in [S -> Row]
  BY <1>1, <1>2, <1>4 DEF put_page
<1>6. QED
  BY <1>3, <1>5 DEF Pages, put_page

\* A row of a pages table holds page contents.
LEMMA RowData ==
  ASSUME NEW st \in Pages, NEW p \in DOMAIN st
  PROVE  p \in PageNo /\ st[p].data \in Content
BY DEF Pages, Row

-----------------------------------------------------------------------------

\* Holds of an FSM from its creation on, closed or not.
Shape(f) ==
  /\ f \in Fsm
  /\ f.direction = "pull" => f.pending_requests = {}
  /\ f.emitted_complete => f.completed_hash_phase /\ f.pending_requests = {}
  /\ f.rest # <<>> => f.cursor = 0
  /\ f.rest # <<>> /\ f.direction = "pull" => ~f.completed_hash_phase
  /\ f.cursor # 0 =>
       /\ f.direction = "pull" /\ f.completed_hash_phase
       /\ ~f.emitted_complete

\* Holds while the task is open.  Between two events the FSM has not
\* emitted, and if the client's hash phase is over it waits for pages.
Ready(f) ==
  /\ Shape(f)
  /\ Idle(f) => /\ ~f.emitted_complete
                /\ f.completed_hash_phase => f.pending_requests # {}

\* A decoded frame: its fields are what the message kind promises.
WellFormed(msg) ==
  /\ msg.kind = "PageHash" => msg.page_no \in PageNo
  /\ msg.kind = "PageHashBatch" =>
       msg.start_page \in PageNo /\ msg.end_page \in PageNo
  /\ msg.kind = "PageData" => msg.page_no \in PageNo /\ msg.data \in Content
  /\ msg.kind = "PageDataBatch" => msg.pages \in Seq(PageDataEntry)

\* An outcome o of a step from f over st.
Legal(f, st, o) ==
  /\ Shape(o.fsm) /\ o.fsm.direction = f.direction
  /\ o.pages \in Pages /\ DOMAIN st \subseteq DOMAIN o.pages
  /\ o.res \in {"ok", "err", "send_failed"}
  /\ o.out = <<>> \/ \E m \in ServerFrame : o.out = <<m>>
  \* An Ok that does not end the task leaves a Ready FSM.
  /\ o.res = "ok" /\ ~(Idle(o.fsm) /\ done(o.fsm)) => Ready(o.fsm)
  \* SyncComplete leaves with emitted_complete set, and nothing after it.
  /\ f.emitted_complete => o.out = <<>> /\ o.fsm.emitted_complete
  /\ \A m : o.out = <<m>> /\ m.kind = "SyncComplete" => o.fsm.emitted_complete
  \* A page is waited for once its request has left.
  /\ o.res = "ok" =>
       \A p \in o.fsm.pending_requests \ f.pending_requests :
         o.out = <<RequestPage(p)>>
  \* The walk passes a row that is claimed, or has just been sent.
  /\ f.client_seen \subseteq o.fsm.client_seen
  /\ o.res = "ok" /\ o.fsm.cursor # 0 =>
       /\ DOMAIN o.pages = DOMAIN st
       /\ \A p \in DOMAIN st : p < o.fsm.cursor =>
            \/ p < f.cursor \/ p \in f.client_seen
            \/ \E d : o.out = <<PageData(p, d)>>
  \* A pull completes once every row it promised is claimed or passed.
  /\ f.direction = "pull" /\ ~f.emitted_complete /\ o.fsm.emitted_complete =>
       \A p \in DOMAIN st :
         p <= f.server_max_page => p < f.cursor \/ p \in f.client_seen

-----------------------------------------------------------------------------

\* A fresh FSM is Ready.
LEMMA NewReady ==
  ASSUME NEW dir \in Direction
  PROVE  Ready(new(dir))
BY LastPageAssumption DEF new, Ready, Shape, Idle, Fsm

-----------------------------------------------------------------------------
(* The ways a handler ends.                                                *)

\* Emitting nothing is not emitting a frame.
LEMMA EmptyIsNoFrame == \A m : <<>> # <<m>>
OBVIOUS

\* An Err changes nothing that a later step relies on.
LEMMA FailedLegal ==
  ASSUME NEW f, NEW st, NEW g, NEW tt \in Pages,
         Shape(g), g.direction = f.direction,
         DOMAIN st \subseteq DOMAIN tt,
         f.client_seen \subseteq g.client_seen,
         g.emitted_complete = f.emitted_complete,
         NEW o \in {Err(g, tt), SendFailed(g, tt)}
  PROVE  Legal(f, st, o)
<1>1. /\ o.fsm = g /\ o.pages = tt /\ o.out = <<>>
      /\ o.res \in {"err", "send_failed"}
  BY DEF Err, SendFailed, Outcome
<1>2. \A m : o.out # <<m>>
  BY <1>1
<1>3. QED
  BY <1>1, <1>2 DEF Legal

\* An Ok without a frame.
LEMMA SilentLegal ==
  ASSUME NEW f, NEW st, NEW g, NEW tt \in Pages,
         Shape(g), g.direction = f.direction,
         DOMAIN st \subseteq DOMAIN tt,
         f.client_seen \subseteq g.client_seen,
         g.emitted_complete = f.emitted_complete,
         g.pending_requests \subseteq f.pending_requests,
         Idle(g) => g.emitted_complete \/ Ready(g),
         g.cursor # 0 =>
           DOMAIN tt = DOMAIN st
             /\ \A p \in DOMAIN st : p < g.cursor => p < f.cursor,
         NEW o, o = Ok(g, tt, <<>>)
  PROVE  Legal(f, st, o)
<1>1. o.fsm = g /\ o.pages = tt /\ o.out = <<>> /\ o.res = "ok"
  BY DEF Ok, Outcome
<1>2. \A m : o.out # <<m>>
  BY <1>1, EmptyIsNoFrame
<1>3. ~(Idle(g) /\ done(g)) => Ready(g)
  BY DEF Ready, done
<1>4. QED
  BY <1>1, <1>2, <1>3 DEF Legal

\* The gate: an Ok is a SyncComplete, or leaves a Ready FSM.
LEMMA GateLegal ==
  ASSUME NEW f, NEW st, NEW g, NEW tt \in Pages,
         Shape(g), g.direction = f.direction, g.cursor = 0,
         DOMAIN st \subseteq DOMAIN tt,
         f.client_seen \subseteq g.client_seen,
         g.emitted_complete = f.emitted_complete,
         g.pending_requests \subseteq f.pending_requests,
         f.direction = "pull" /\ MayComplete(g) =>
           \A p \in DOMAIN st :
             p <= f.server_max_page => p < f.cursor \/ p \in f.client_seen,
         NEW o \in maybe_emit_complete(g, tt)
  PROVE  Legal(f, st, o)
<1>1. CASE ~MayComplete(g)
  <2>1. o = Ok(g, tt, <<>>)
    BY <1>1 DEF maybe_emit_complete
  <2>2. Idle(g) => g.emitted_complete \/ Ready(g)
    BY <1>1 DEF MayComplete, Ready
  <2>3. QED
    BY <2>1, <2>2, SilentLegal
<1>2. CASE MayComplete(g) /\ o = SendFailed(g, tt)
  BY <1>2, FailedLegal
<1>3. CASE /\ MayComplete(g)
           /\ o = Ok([g EXCEPT !.emitted_complete = TRUE], tt,
                     <<SyncComplete(g.pages_transferred)>>)
  <2> DEFINE g1 == [g EXCEPT !.emitted_complete = TRUE]
             m1 == SyncComplete(g.pages_transferred)
  <2>1. /\ g1 \in Fsm /\ g1.emitted_complete
        /\ g1.direction = g.direction /\ g1.cursor = 0 /\ g1.rest = g.rest
        /\ g1.completed_hash_phase = g.completed_hash_phase
        /\ g1.pending_requests = g.pending_requests
        /\ g1.client_seen = g.client_seen
    BY DEF Shape, Fsm
  <2>2. Shape(g1)
    BY <1>3, <2>1 DEF Shape, MayComplete
  <2>3. ~Idle(g1) => Ready(g1)
    BY <2>2 DEF Ready
  <2>4. m1 \in ServerFrame /\ m1.kind = "SyncComplete"
    BY DEF ServerFrame, SyncComplete, Shape, Fsm
  <2>5. o.fsm = g1 /\ o.pages = tt /\ o.out = <<m1>> /\ o.res = "ok"
    BY <1>3 DEF Ok, Outcome
  <2>6. ~f.emitted_complete
    BY <1>3 DEF MayComplete
  <2> HIDE DEF g1, m1
  <2>7. QED
    BY <1>3, <2>1, <2>2, <2>3, <2>4, <2>5, <2>6 DEF Legal, done
<1>4. QED
  BY <1>1, <1>2, <1>3 DEF maybe_emit_complete

\* A frame other than SyncComplete is offered to the socket.
LEMMA EmitLegal ==
  ASSUME NEW f \in Fsm, NEW st \in Pages, NEW g, NEW m \in ServerFrame,
         Ready(g), g.direction = f.direction,
         ~f.emitted_complete, ~g.emitted_complete,
         f.client_seen \subseteq g.client_seen,
         m.kind # "SyncComplete",
         \A p \in g.pending_requests \ f.pending_requests :
           m = RequestPage(p),
         g.cursor # 0 =>
           \A p \in DOMAIN st : p < g.cursor =>
             \/ p < f.cursor \/ p \in f.client_seen
             \/ \E d : m = PageData(p, d),
         NEW o \in Emit(g, st, m)
  PROVE  Legal(f, st, o)
<1>1. CASE o = SendFailed(g, st)
  <2>1. Shape(g) /\ g.emitted_complete = f.emitted_complete
    <3>1. g.emitted_complete \in BOOLEAN /\ f.emitted_complete \in BOOLEAN
      BY DEF Ready, Shape, Fsm
    <3>2. QED
      BY <3>1 DEF Ready
  <2>2. QED
    BY <1>1, <2>1, FailedLegal
<1>2. CASE o = Ok(g, st, <<m>>)
  <2>1. o.fsm = g /\ o.pages = st /\ o.out = <<m>> /\ o.res = "ok"
    BY <1>2 DEF Ok, Outcome
  <2>2. \A n : o.out = <<n>> => n = m
    BY <2>1
  <2>3. Shape(g)
    BY DEF Ready
  <2>4. \A p \in g.pending_requests \ f.pending_requests :
          o.out = <<RequestPage(p)>>
    BY <2>1
  <2>5. g.cursor # 0 =>
          \A p \in DOMAIN st : p < g.cursor =>
            \/ p < f.cursor \/ p \in f.client_seen
            \/ \E d : o.out = <<PageData(p, d)>>
    BY <2>1
  <2>6. QED
    BY <2>1, <2>2, <2>3, <2>4, <2>5 DEF Legal
<1>3. QED
  BY <1>1, <1>2 DEF Emit

-----------------------------------------------------------------------------
(* The handlers, from an FSM between two events: f below.                  *)

Between(f) == Ready(f) /\ Idle(f)

\* Such an FSM is out of the loops, has not emitted, and is not a pull
\* past its hash phase.
LEMMA BetweenFacts ==
  ASSUME NEW f, Between(f)
  PROVE  /\ f \in Fsm /\ Shape(f)
         /\ f.rest = <<>> /\ f.cursor = 0 /\ ~f.emitted_complete
         /\ f.completed_hash_phase => f.pending_requests # {}
         /\ f.direction = "pull" =>
              f.pending_requests = {} /\ ~f.completed_hash_phase
BY DEF Between, Ready, Shape, Idle

\* Hello: its reply leaves, or the version or the storage fails.
LEMMA HelloLegal ==
  ASSUME NEW f, Between(f), NEW st \in Pages, NEW msg,
         NEW o \in handle_hello(f, st, msg)
  PROVE  Legal(f, st, o)
<1> DEFINE f1 == [f EXCEPT !.saw_hello = TRUE]
           g(m) == [f1 EXCEPT !.server_max_page = m]
<1>0. /\ f \in Fsm /\ Shape(f)
      /\ f.rest = <<>> /\ f.cursor = 0 /\ ~f.emitted_complete
      /\ f.completed_hash_phase => f.pending_requests # {}
  BY BetweenFacts
<1>1. /\ f1.direction = f.direction
      /\ f1.client_seen = f.client_seen
      /\ f1.emitted_complete = f.emitted_complete
  BY <1>0 DEF Fsm
<1>2. Shape(f1)
  BY <1>0 DEF Shape, Fsm
<1>3. CASE o = Err(f, st)
  BY <1>0, <1>3, FailedLegal
<1>4. CASE o = Err(f1, st)
  <2> HIDE DEF f1
  <2> QED
    BY <1>1, <1>2, <1>4, FailedLegal
<1>5. ASSUME NEW m \in 0 .. LastPage, o \in Emit(g(m), st, HelloReply(m))
      PROVE  Legal(f, st, o)
  <2>1. /\ g(m).direction = f.direction
        /\ g(m).client_seen = f.client_seen /\ ~g(m).emitted_complete
        /\ g(m).pending_requests = f.pending_requests
        /\ g(m).cursor = 0
    BY <1>0 DEF Fsm
  <2>2. Ready(g(m))
    BY <1>0 DEF Ready, Shape, Idle, Fsm
  <2>3. HelloReply(m) \in ServerFrame /\ HelloReply(m).kind # "SyncComplete"
    BY DEF HelloReply, ServerFrame
  <2> HIDE DEF g
  <2>4. QED
    BY <1>0, <1>5, <2>1, <2>2, <2>3, EmitLegal
<1>6. QED
  BY <1>3, <1>4, <1>5 DEF handle_hello

\* PageHash: the page counts as claimed; a push may request it, a pull may
\* send it.
LEMMA PageHashLegal ==
  ASSUME NEW f, Between(f), NEW st \in Pages, NEW msg, msg.page_no \in PageNo,
         NEW o \in handle_page_hash(f, st, msg)
  PROVE  Legal(f, st, o)
<1> DEFINE p  == msg.page_no
           f1 == [f EXCEPT !.client_seen = @ \cup {p}]
           g  == [f1 EXCEPT !.pending_requests = @ \cup {p}]
           h  == [f1 EXCEPT !.pages_transferred = @ + 1]
<1>0. /\ f \in Fsm /\ Shape(f)
      /\ f.rest = <<>> /\ f.cursor = 0 /\ ~f.emitted_complete
      /\ f.completed_hash_phase => f.pending_requests # {}
      /\ f.direction = "pull" =>
           f.pending_requests = {} /\ ~f.completed_hash_phase
  BY BetweenFacts
<1>1. /\ f1 \in Fsm /\ f1.direction = f.direction
      /\ f.client_seen \subseteq f1.client_seen
      /\ f1.pending_requests = f.pending_requests
      /\ f1.completed_hash_phase = f.completed_hash_phase
      /\ f1.emitted_complete = f.emitted_complete
      /\ f1.rest = <<>> /\ f1.cursor = 0
  BY <1>0 DEF Fsm
<1>2. Shape(f1) /\ Ready(f1)
  <2> HIDE DEF f1
  <2> QED
    BY <1>0, <1>1 DEF Shape, Ready
<1>3. CASE o = Err(f1, st)
  <2> HIDE DEF f1
  <2> QED
    BY <1>0, <1>1, <1>2, <1>3, FailedLegal
<1>4. CASE o = Ok(f1, st, <<>>)
  <2> HIDE DEF f1
  <2> QED
    BY <1>0, <1>1, <1>2, <1>4, SilentLegal
<1>5. CASE f.direction = "push" /\ o \in Emit(g, st, RequestPage(p))
  <2>1. /\ g \in Fsm /\ g.direction = f.direction
        /\ f.client_seen \subseteq g.client_seen
        /\ g.pending_requests = f.pending_requests \cup {p}
        /\ g.completed_hash_phase = f.completed_hash_phase
        /\ ~g.emitted_complete /\ g.rest = <<>> /\ g.cursor = 0
    <3> HIDE DEF f1
    <3> QED
      BY <1>0, <1>1 DEF Fsm
  <2> HIDE DEF g
  <2>2. Ready(g)
    BY <1>5, <2>1 DEF Shape, Ready
  <2>3. RequestPage(p) \in ServerFrame /\ RequestPage(p).kind # "SyncComplete"
    BY DEF RequestPage, ServerFrame
  <2>4. QED
    BY <1>0, <1>5, <2>1, <2>2, <2>3, EmitLegal
<1>6. CASE /\ f.direction = "pull" /\ p \in DOMAIN st
           /\ o \in Emit(h, st, PageData(p, st[p].data))
  <2>1. /\ h \in Fsm /\ h.direction = f.direction
        /\ f.client_seen \subseteq h.client_seen
        /\ h.pending_requests = f.pending_requests
        /\ h.completed_hash_phase = f.completed_hash_phase
        /\ ~h.emitted_complete /\ h.rest = <<>> /\ h.cursor = 0
    <3> HIDE DEF f1
    <3> QED
      BY <1>0, <1>1 DEF Fsm
  <2> HIDE DEF h
  <2>2. Ready(h)
    BY <1>0, <2>1 DEF Shape, Ready
  <2>3. st[p].data \in Content
    BY <1>6, RowData
  <2>4. /\ PageData(p, st[p].data) \in ServerFrame
        /\ PageData(p, st[p].data).kind # "SyncComplete"
    BY <2>3 DEF PageData, ServerFrame
  <2>5. QED
    BY <1>0, <1>6, <2>1, <2>2, <2>4, EmitLegal
<1>7. f.direction \in {"push", "pull"}
  BY <1>0 DEF Fsm, Direction
<1>8. QED
  <2>1. CASE o = Err(f1, st)
    BY <2>1, <1>3
  <2>2. CASE get_page_hash_is(st, p, msg.hash) /\ o # Err(f1, st)
    BY <2>2, <1>4 DEF handle_page_hash
  <2>3. CASE /\ ~get_page_hash_is(st, p, msg.hash) /\ o # Err(f1, st)
             /\ f.direction = "push"
    BY <2>3, <1>5 DEF handle_page_hash
  <2>4. CASE /\ ~get_page_hash_is(st, p, msg.hash) /\ o # Err(f1, st)
             /\ f.direction = "pull"
    BY <2>4, <1>4, <1>6 DEF handle_page_hash
  <2>5. QED
    BY <1>7, <2>1, <2>2, <2>3, <2>4

\* PageHashBatch: the range counts as claimed, nothing is waited for.
LEMMA PageHashBatchLegal ==
  ASSUME NEW f, Between(f), NEW st \in Pages, NEW msg,
         msg.start_page \in PageNo, msg.end_page \in PageNo,
         NEW o \in handle_page_hash_batch(f, st, msg)
  PROVE  Legal(f, st, o)
<1> DEFINE range == msg.start_page .. msg.end_page
           f1 == [f EXCEPT !.client_seen = @ \cup range]
<1>0. /\ f \in Fsm /\ Shape(f)
      /\ f.rest = <<>> /\ f.cursor = 0 /\ ~f.emitted_complete
      /\ f.completed_hash_phase => f.pending_requests # {}
  BY BetweenFacts
<1>1. range \subseteq PageNo
  BY LastPageAssumption DEF PageNo
<1>2. /\ f1 \in Fsm /\ f1.direction = f.direction
      /\ f.client_seen \subseteq f1.client_seen
      /\ f1.pending_requests = f.pending_requests
      /\ f1.completed_hash_phase = f.completed_hash_phase
      /\ f1.emitted_complete = f.emitted_complete
      /\ f1.rest = <<>> /\ f1.cursor = 0
  <2> HIDE DEF range
  <2> QED
    BY <1>0, <1>1 DEF Fsm
<1>3. o \in {Err(f1, st), Ok(f1, st, <<>>)}
        \cup Emit(f1, st, HashMismatchBatch(range))
  BY DEF handle_page_hash_batch
<1> HIDE DEF range, f1
<1>4. Shape(f1) /\ Ready(f1)
  BY <1>0, <1>2 DEF Shape, Ready
<1>5. /\ HashMismatchBatch(range) \in ServerFrame
      /\ HashMismatchBatch(range).kind # "SyncComplete"
  BY <1>1 DEF HashMismatchBatch, ServerFrame
<1>6. CASE o = Err(f1, st)
  BY <1>0, <1>2, <1>4, <1>6, FailedLegal
<1>7. CASE o = Ok(f1, st, <<>>)
  BY <1>0, <1>2, <1>4, <1>7, SilentLegal
<1>8. CASE o \in Emit(f1, st, HashMismatchBatch(range))
  BY <1>0, <1>2, <1>4, <1>5, <1>8, EmitLegal
<1>9. QED
  BY <1>3, <1>6, <1>7, <1>8

\* PageData, alone or an entry of a batch: storing it may open the gate.
\* A pull that could complete here is past its hash phase, which no entry
\* of a pull ever meets.
LEMMA PageDataLegal ==
  ASSUME NEW f, Shape(f), f.cursor = 0,
         f.direction = "pull" => ~f.completed_hash_phase,
         NEW st \in Pages, NEW entry,
         entry.page_no \in PageNo, entry.data \in Content,
         NEW o \in handle_page_data(f, st, entry)
  PROVE  Legal(f, st, o)
<1> DEFINE p  == entry.page_no
           f1 == [f EXCEPT !.pending_requests = @ \ {p}]
           f2 == [f1 EXCEPT !.pages_transferred = @ + 1]
           tt == put_page(st, p, entry.data, page_hash(entry.data))
<1>1. /\ f1 \in Fsm /\ f1.direction = f.direction
      /\ f1.client_seen = f.client_seen
      /\ f1.pending_requests \subseteq f.pending_requests
      /\ f1.completed_hash_phase = f.completed_hash_phase
      /\ f1.emitted_complete = f.emitted_complete
      /\ f1.rest = f.rest /\ f1.cursor = 0
  BY DEF Shape, Fsm
<1>2. /\ f2 \in Fsm /\ f2.direction = f.direction
      /\ f2.client_seen = f.client_seen
      /\ f2.pending_requests \subseteq f.pending_requests
      /\ f2.completed_hash_phase = f.completed_hash_phase
      /\ f2.emitted_complete = f.emitted_complete
      /\ f2.rest = f.rest /\ f2.cursor = 0
  <2> HIDE DEF f1
  <2> QED
    BY <1>1 DEF Fsm
<1>3. tt \in Pages /\ DOMAIN st \subseteq DOMAIN tt
  <2>1. p \in PageNo /\ entry.data \in Content
    OBVIOUS
  <2>2. tt \in Pages /\ DOMAIN tt = DOMAIN st \cup {p}
    <3> HIDE DEF p
    <3> QED
      BY <2>1, PutPageType
  <2>3. QED
    BY <2>2
<1>4. o = Err(f1, st) \/ o \in maybe_emit_complete(f2, tt)
  BY DEF handle_page_data
<1>5. f.direction \in {"push", "pull"}
  BY DEF Shape, Fsm, Direction
<1> HIDE DEF f1, f2, tt
<1>6. Shape(f1) /\ Shape(f2)
  BY <1>1, <1>2 DEF Shape
<1>7. CASE o = Err(f1, st)
  BY <1>1, <1>6, <1>7, FailedLegal
<1>8. CASE o \in maybe_emit_complete(f2, tt)
  <2>1. f.direction = "pull" => ~MayComplete(f2)
    BY <1>2 DEF MayComplete
  <2>2. f2.rest # <<>> /\ f.direction = "pull" => ~MayComplete(f2)
    BY <2>1
  <2>3. QED
    BY <1>2, <1>3, <1>6, <1>8, <2>1, GateLegal
<1>9. QED
  BY <1>4, <1>7, <1>8

\* Complete: the walk begins, or the gate is tried at once because there is
\* nothing to offer.
LEMMA CompleteLegal ==
  ASSUME NEW f, Between(f), NEW st \in Pages,
         NEW o \in handle_complete(f, st)
  PROVE  Legal(f, st, o)
<1> DEFINE f1 == [f EXCEPT !.completed_hash_phase = TRUE]
           g  == [f1 EXCEPT !.cursor = 1]
<1>0. /\ f \in Fsm /\ Shape(f)
      /\ f.rest = <<>> /\ f.cursor = 0 /\ ~f.emitted_complete
      /\ f.direction = "pull" => f.pending_requests = {}
  BY BetweenFacts
<1>1. /\ f1 \in Fsm /\ f1.direction = f.direction
      /\ f1.client_seen = f.client_seen
      /\ f1.pending_requests = f.pending_requests
      /\ f1.completed_hash_phase
      /\ f1.emitted_complete = f.emitted_complete
      /\ f1.rest = <<>> /\ f1.cursor = 0
  BY <1>0 DEF Fsm
<1>2. \A p \in DOMAIN st : p > 0
  BY RowData DEF PageNo
<1>3. CASE f.direction = "pull" /\ f.server_max_page > 0
  <2>1. o = Ok(g, st, <<>>) \/ o = Err(f1, st)
    BY <1>3 DEF handle_complete
  <2>2. /\ g \in Fsm /\ g.direction = f.direction
        /\ g.client_seen = f.client_seen
        /\ g.pending_requests = f.pending_requests
        /\ g.completed_hash_phase
        /\ g.emitted_complete = f.emitted_complete
        /\ g.rest = <<>> /\ g.cursor = 1
    <3> HIDE DEF f1
    <3> QED
      BY <1>1, LastPageAssumption DEF Fsm
  <2> HIDE DEF f1, g
  <2>3. Shape(f1) /\ Shape(g) /\ ~Idle(g)
    BY <1>0, <1>1, <1>3, <2>2 DEF Shape, Idle
  <2>4. CASE o = Ok(g, st, <<>>)
    <3>1. \A p \in DOMAIN st : ~(p < g.cursor)
      BY <1>2, <2>2, RowData DEF PageNo
    <3>2. QED
      BY <2>2, <2>3, <2>4, <3>1, SilentLegal
  <2>5. CASE o = Err(f1, st)
    BY <1>1, <2>3, <2>5, FailedLegal
  <2>6. QED
    BY <2>1, <2>4, <2>5
<1>4. CASE ~(f.direction = "pull" /\ f.server_max_page > 0)
  <2>1. o \in maybe_emit_complete(f1, st)
    BY <1>4 DEF handle_complete
  <2> HIDE DEF f1
  <2>2. Shape(f1)
    BY <1>0, <1>1 DEF Shape
  <2>3. f.direction = "pull" =>
          \A p \in DOMAIN st : ~(p <= f.server_max_page)
    <3>1. f.server_max_page \in Nat
      BY <1>0 DEF Fsm
    <3>2. QED
      BY <1>4, <3>1, RowData DEF PageNo
  <2>4. QED
    BY <1>0, <1>1, <2>1, <2>2, <2>3, GateLegal
<1>5. QED
  BY <1>3, <1>4

-----------------------------------------------------------------------------
(* The loops.                                                              *)

\* A turn of the walk sends the least row left to offer, and the walk ends
\* when none is left.
LEMMA WalkLegal ==
  ASSUME NEW f, Shape(f), f.cursor # 0, NEW st \in Pages,
         NEW o \in walk(f, st)
  PROVE  Legal(f, st, o)
<1> DEFINE todo == Unclaimed(f, st)
           next == {p \in todo : \A q \in todo : p <= q}
           g    == [f EXCEPT !.cursor = 0]
           h(p) == [f EXCEPT !.pages_transferred = @ + 1, !.cursor = p + 1]
<1>0. /\ f \in Fsm /\ f.rest = <<>> /\ f.direction = "pull"
      /\ f.completed_hash_phase /\ ~f.emitted_complete
      /\ f.pending_requests = {}
      /\ f.cursor \in Nat /\ f.server_max_page \in 0 .. LastPage
  BY LastPageAssumption DEF Shape, Fsm
<1>1. \A q \in DOMAIN st :
        \/ q \in todo \/ q < f.cursor \/ q \in f.client_seen
        \/ ~(q <= f.server_max_page)
  BY <1>0, RowData DEF Unclaimed, PageNo
<1>2. CASE todo = {} /\ o # Err(f, st)
  <2>1. o \in maybe_emit_complete(g, st)
    BY <1>2 DEF walk
  <2>2. /\ g \in Fsm /\ g.direction = f.direction
        /\ g.client_seen = f.client_seen
        /\ g.pending_requests = f.pending_requests
        /\ g.completed_hash_phase = f.completed_hash_phase
        /\ g.emitted_complete = f.emitted_complete
        /\ g.rest = f.rest /\ g.cursor = 0
    <3> HIDE DEF todo, next, h
    <3>1. 0 \in 0 .. LastPage + 1
      BY LastPageAssumption
    <3>2. QED
      BY <1>0, <3>1 DEF Fsm
  <2> HIDE DEF g
  <2>3. Shape(g)
    BY <1>0, <2>2 DEF Shape
  <2>4. \A p \in DOMAIN st :
          p <= f.server_max_page => p < f.cursor \/ p \in f.client_seen
    BY <1>1, <1>2
  <2>5. QED
    BY <2>1, <2>2, <2>3, <2>4, GateLegal
<1>3. CASE o = Err(f, st)
  BY <1>3, FailedLegal
<1>4. ASSUME NEW p \in next, o \in Emit(h(p), st, PageData(p, st[p].data))
      PROVE  Legal(f, st, o)
  <2>1. p \in DOMAIN st /\ p <= f.server_max_page
    BY <1>0 DEF Unclaimed
  <2>2. p \in PageNo /\ st[p].data \in Content
    BY <2>1, RowData
  <2>3. /\ h(p) \in Fsm /\ h(p).direction = f.direction
        /\ h(p).client_seen = f.client_seen
        /\ h(p).pending_requests = f.pending_requests
        /\ h(p).completed_hash_phase = f.completed_hash_phase
        /\ h(p).emitted_complete = f.emitted_complete
        /\ h(p).rest = f.rest /\ h(p).cursor = p + 1
    <3> HIDE DEF todo, next, g
    <3>1. p + 1 \in 0 .. LastPage + 1
      BY <2>2, LastPageAssumption DEF PageNo
    <3>2. f.pages_transferred + 1 \in Nat
      BY <1>0 DEF Fsm
    <3>3. QED
      BY <1>0, <3>1, <3>2 DEF Fsm
  <2>4. h(p).cursor # 0
    BY <2>2, <2>3 DEF PageNo
  <2> HIDE DEF h
  <2>5. Ready(h(p))
    BY <1>0, <2>3, <2>4 DEF Shape, Ready, Idle
  <2>6. \A q \in DOMAIN st : q < h(p).cursor =>
          \/ q < f.cursor \/ q \in f.client_seen
          \/ \E d : PageData(p, st[p].data) = PageData(q, d)
    <3> SUFFICES ASSUME NEW q \in DOMAIN st, q < p + 1
                 PROVE  \/ q < f.cursor \/ q \in f.client_seen \/ q = p
      BY <2>3
    <3>1. q \in Nat /\ p \in Nat
      BY <2>2, RowData DEF PageNo
    <3>2. CASE q \in todo
      BY <3>1, <3>2
    <3>3. CASE ~(q <= f.server_max_page)
      BY <1>0, <2>1, <3>1, <3>3
    <3>4. QED
      BY <1>1, <3>2, <3>3
  <2>7. /\ PageData(p, st[p].data) \in ServerFrame
        /\ PageData(p, st[p].data).kind # "SyncComplete"
    BY <2>2 DEF PageData, ServerFrame
  <2>8. QED
    BY <1>0, <1>4, <2>3, <2>5, <2>6, <2>7, EmitLegal
<1>5. QED
  BY <1>2, <1>3, <1>4 DEF walk

\* A turn of a PageDataBatch is a PageData from the FSM less that entry.
LEMMA BatchEntryLegal ==
  ASSUME NEW f, Shape(f), f.cursor = 0, f.rest # <<>>, NEW st \in Pages,
         NEW o \in handle_page_data([f EXCEPT !.rest = Tail(@)], st,
                                    Head(f.rest))
  PROVE  Legal(f, st, o)
<1> DEFINE g     == [f EXCEPT !.rest = Tail(@)]
           entry == Head(f.rest)
<1>1. f \in Fsm /\ f.rest \in Seq(PageDataEntry)
  BY DEF Shape, Fsm
<1>2. entry \in PageDataEntry /\ Tail(f.rest) \in Seq(PageDataEntry)
  BY <1>1
<1>3. entry.page_no \in PageNo /\ entry.data \in Content
  BY <1>2 DEF PageDataEntry
<1>4. /\ g \in Fsm /\ g.direction = f.direction
      /\ g.client_seen = f.client_seen
      /\ g.pending_requests = f.pending_requests
      /\ g.completed_hash_phase = f.completed_hash_phase
      /\ g.emitted_complete = f.emitted_complete
      /\ g.server_max_page = f.server_max_page
      /\ g.cursor = f.cursor
  BY <1>1, <1>2 DEF Fsm
<1> HIDE DEF g, entry
<1>5. Shape(g) /\ (g.direction = "pull" => ~g.completed_hash_phase)
  BY <1>4 DEF Shape
<1>6. o \in handle_page_data(g, st, entry)
  BY DEF g, entry
<1>7. Legal(g, st, o)
  BY <1>3, <1>4, <1>5, <1>6, PageDataLegal
<1>8. QED
  BY <1>4, <1>7 DEF Legal

\* resume, from the middle of an apply.
LEMMA ResumeLegal ==
  ASSUME NEW f, Shape(f), ~Idle(f), NEW st \in Pages, NEW o \in resume(f, st)
  PROVE  Legal(f, st, o)
<1>1. CASE f.cursor # 0
  BY <1>1, WalkLegal DEF resume
<1>2. CASE f.cursor = 0
  <2>1. f.rest # <<>>
    BY <1>2 DEF Idle
  <2>2. o \in handle_page_data([f EXCEPT !.rest = Tail(@)], st, Head(f.rest))
    BY <1>2 DEF resume
  <2>3. QED
    BY <1>2, <2>1, <2>2, BatchEntryLegal
<1>3. QED
  BY <1>1, <1>2

\* apply, from between two events.
LEMMA ApplyLegal ==
  ASSUME NEW f, Between(f), NEW st \in Pages, NEW msg, WellFormed(msg),
         NEW o \in apply(f, st, msg)
  PROVE  Legal(f, st, o)
<1>0. /\ f \in Fsm /\ Shape(f)
      /\ f.rest = <<>> /\ f.cursor = 0 /\ ~f.emitted_complete
      /\ f.completed_hash_phase => f.pending_requests # {}
      /\ f.direction = "pull" =>
           f.pending_requests = {} /\ ~f.completed_hash_phase
  BY BetweenFacts
<1>1. CASE ~f.saw_hello /\ msg.kind = "Hello"
  BY <1>1, HelloLegal DEF apply
<1>2. CASE f.saw_hello /\ msg.kind = "PageHash"
  BY <1>2, PageHashLegal DEF apply, WellFormed
<1>3. CASE f.saw_hello /\ msg.kind = "PageHashBatch"
  BY <1>3, PageHashBatchLegal DEF apply, WellFormed
<1>4. CASE f.saw_hello /\ msg.kind = "PageData"
  <2>1. o \in handle_page_data(f, st, msg)
    BY <1>4 DEF apply
  <2>2. QED
    BY <1>0, <1>4, <2>1, PageDataLegal DEF WellFormed
<1>5. CASE f.saw_hello /\ msg.kind = "PageDataBatch"
  <2> DEFINE g == [f EXCEPT !.rest = msg.pages]
  <2>1. o = Ok(g, st, <<>>)
    BY <1>5 DEF apply
  <2>2. /\ g \in Fsm /\ g.direction = f.direction
        /\ g.client_seen = f.client_seen
        /\ g.pending_requests = f.pending_requests
        /\ g.completed_hash_phase = f.completed_hash_phase
        /\ g.emitted_complete = f.emitted_complete
        /\ g.cursor = 0
    BY <1>0, <1>5 DEF Fsm, WellFormed
  <2> HIDE DEF g
  <2>3. Shape(g) /\ Ready(g)
    BY <1>0, <2>2 DEF Shape, Ready
  <2>4. QED
    BY <2>1, <2>2, <2>3, SilentLegal
<1>6. CASE f.saw_hello /\ msg.kind = "Complete"
  BY <1>6, CompleteLegal DEF apply
<1>7. CASE /\ ~(~f.saw_hello /\ msg.kind = "Hello")
           /\ ~(f.saw_hello /\ msg.kind = "PageHash")
           /\ ~(f.saw_hello /\ msg.kind = "PageHashBatch")
           /\ ~(f.saw_hello /\ msg.kind = "PageData")
           /\ ~(f.saw_hello /\ msg.kind = "PageDataBatch")
           /\ ~(f.saw_hello /\ msg.kind = "Complete")
  <2>1. o = Err(f, st)
    BY <1>7 DEF apply
  <2>2. QED
    BY <1>0, <2>1, FailedLegal
<1>8. QED
  BY <1>1, <1>2, <1>3, <1>4, <1>5, <1>6, <1>7

\* client_closed finds its gate shut between two events.
LEMMA ClientClosedNoop ==
  ASSUME NEW f, Between(f)
  PROVE  client_closed(f) = f
BY BetweenFacts DEF client_closed, MayComplete
=============================================================================
