----------------------------- MODULE SyncSession -----------------------------
(***************************************************************************)
(* One accepted /sync WebSocket (worker/src/do_sync_ws.rs): the task that  *)
(* feeds inbound frames to a SyncFsm, against a client that may send any   *)
(* sequence of frames and break off anywhere, a storage whose calls may    *)
(* fail, a socket that may refuse a frame, and other sessions of the same  *)
(* DurableObject that store pages between two events of this one.          *)
(*                                                                         *)
(* sent is the history of frames the socket accepted.  It is kept to state *)
(* properties, never read by an action except to bound the model.          *)
(***************************************************************************)
EXTENDS SyncFsm

CONSTANTS
  MaxSent,       \* bound: frames sent before the client falls silent
  MaxTransfers,  \* bound: page transfers before the client falls silent
  MaxBatch       \* bound: entries of one PageDataBatch

ASSUME BoundsAssumption ==
  MaxSent \in Nat /\ MaxTransfers \in Nat /\ MaxBatch \in Nat

VARIABLES
  fsm,    \* the SyncFsm of the connection
  pages,  \* the DurableObject's pages table
  task,   \* "open" while the spawned task runs, else how it ended
  sent    \* frames accepted by the socket, in order

vars == <<fsm, pages, task, sent>>

\* Close codes of the task's own closes, and the three silent ways out.
Ending == {"1000", "1002", "1003", "1011", "send_failed", "peer_closed",
           "event_error"}

TypeOK ==
  /\ fsm \in Fsm
  /\ pages \in Pages
  /\ task \in {"open"} \cup Ending
  /\ sent \in Seq(ServerFrame)

-----------------------------------------------------------------------------
(* Every frame a client can put on the wire, well-formed or not in its     *)
(* order.  RequestPage stands for the server-originated kinds.             *)

ClientDigest ==
  {Digest(hs) : hs \in UNION {[1 .. n -> Hash] : n \in 0 .. LastPage}}

ClientFrame ==
  {Hello(v) : v \in Version}
    \cup {PageHash(p, h) : p \in PageNo, h \in Hash}
    \cup {PageHashBatch(p, q, h) : p \in PageNo, q \in PageNo,
                                   h \in ClientDigest}
    \cup {RequestPage(p) : p \in PageNo}
    \cup [kind : {"PageData"}, page_no : PageNo, data : Content]
    \cup {PageDataBatch(es) :
            es \in UNION {[1 .. n -> PageDataEntry] : n \in 0 .. MaxBatch}}
    \cup {Complete}

Init ==
  /\ fsm \in {new(dir) : dir \in Direction}
  /\ pages \in Pages
  /\ task = "open"
  /\ sent = <<>>

\* Mutant: the task goes on reading after SyncComplete.
Settle_keeps_reading(o) ==
  /\ fsm' = o.fsm
  /\ pages' = o.pages
  /\ \/ o.res = "ok" /\ task' = "open" /\ sent' = sent \o o.out
     \/ o.res = "err" /\ task' = "1011" /\ sent' = Append(sent, Error)
     \/ o.res = "send_failed" /\ task' = "send_failed" /\ sent' = sent

\* How the task goes on after apply: return without a close if a frame was
\* refused; Error and 1011 on any other Err; 1000 once apply has returned
\* and the FSM is done; else wait for the next event.
Settle(o) ==
  /\ fsm' = o.fsm
  /\ pages' = o.pages
  /\ \/ /\ o.res = "ok"
        /\ task' = IF Idle(o.fsm) /\ done(o.fsm) THEN "1000" ELSE "open"
        /\ sent' = sent \o o.out
     \/ /\ o.res = "err"
        /\ task' = "1011"
        /\ sent' \in {sent, Append(sent, Error)}
     \/ /\ o.res = "send_failed"
        /\ task' = "send_failed"
        /\ sent' = sent

\* WebsocketEvent::Message with a frame that decodes.
Receive(msg) ==
  /\ task = "open" /\ Idle(fsm)
  /\ Len(sent) < MaxSent /\ fsm.pages_transferred < MaxTransfers
  /\ \E o \in apply(fsm, pages, msg) : Settle(o)

\* The same apply, one turn of its loop later.
Resume ==
  /\ task = "open" /\ ~Idle(fsm)
  /\ \E o \in resume(fsm, pages) : Settle(o)

\* A text frame (1003) or one decode_frame rejects (1002).  send_error
\* swallows a refused Error frame.
Reject(code) ==
  /\ task = "open" /\ Idle(fsm)
  /\ Len(sent) < MaxSent
  /\ task' = code
  /\ sent' \in {sent, Append(sent, Error)}
  /\ UNCHANGED <<fsm, pages>>

\* WebsocketEvent::Close.
PeerClose ==
  /\ task = "open" /\ Idle(fsm)
  /\ fsm' = client_closed(fsm)
  /\ task' = "peer_closed"
  /\ UNCHANGED <<pages, sent>>

\* Err from the event stream.
EventError ==
  /\ task = "open" /\ Idle(fsm)
  /\ task' = "event_error"
  /\ UNCHANGED <<fsm, pages, sent>>

\* Another session of the object stores a page; never in the middle of an
\* apply, which does not await.
ForeignPut(p, d) ==
  /\ task = "open" /\ Idle(fsm)
  /\ pages' = put_page(pages, p, d, page_hash(d))
  /\ UNCHANGED <<fsm, task, sent>>

Next ==
  \/ \E msg \in ClientFrame : Receive(msg)
  \/ Resume
  \/ \E code \in {"1002", "1003"} : Reject(code)
  \/ PeerClose
  \/ EventError
  \/ \E p \in PageNo, d \in Content : ForeignPut(p, d)

Spec == Init /\ [][Next]_vars

-----------------------------------------------------------------------------
(* Properties.                                                             *)

Completions == {i \in DOMAIN sent : sent[i].kind = "SyncComplete"}

\* SyncComplete is emitted at most once, whichever of the last PageData, a
\* batch entry or Complete opens the gate, and what follows it on the wire
\* can only be the Error of a failing rest of a batch: a client that stops
\* reading at SyncComplete misses no page and no request.
CompleteIsLast ==
  \A i \in Completions : \A j \in i + 1 .. Len(sent) : sent[j] = Error

\* No silent stall: a task that waits for an event after the client's
\* Complete still waits for page bytes.  (So the gate in client_closed
\* never has anything left to open.)
WaitsForPages ==
  task = "open" /\ Idle(fsm) /\ fsm.completed_hash_phase
    => fsm.pending_requests # {}

\* The FSM waits only for pages whose RequestPage left on the socket: a
\* push that ends its hash phase cannot stall on a request never made.
PendingWasRequested ==
  task = "open" =>
    \A p \in fsm.pending_requests :
      \E i \in DOMAIN sent : sent[i] = RequestPage(p)

\* SyncComplete means the hash phase is over and no page is outstanding;
\* later frames of the same batch cannot reopen the session.
CompleteMeansSettled ==
  Completions # {} => fsm.completed_hash_phase /\ fsm.pending_requests = {}

\* Claimed by the client, or sent to it.
Offered(p) ==
  \/ p \in fsm.client_seen
  \/ \E i \in DOMAIN sent : sent[i].kind = "PageData" /\ sent[i].page_no = p

\* In a pull, the step that puts SyncComplete on the wire finds every row
\* up to the max_page of the handshake claimed by the client or sent to it,
\* other sessions' writes during this one included.
PullOffersEveryPage ==
  [][ fsm.direction = "pull" /\ ~fsm.emitted_complete
        /\ fsm'.emitted_complete
      => \A p \in DOMAIN pages \cap (1 .. fsm.server_max_page) : Offered(p) ]_vars

\* What protocol/README.md says of the Drain phase of a push: before
\* SyncComplete, pages the client never claimed are reconciled as in a
\* pull, that is, each is sent to it.
PushReconcilesUnclaimed ==
  fsm.direction = "push" /\ task = "1000" =>
    \A p \in DOMAIN pages \cap (1 .. fsm.server_max_page) : Offered(p)
=============================================================================
