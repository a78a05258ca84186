----------------------------- MODULE SyncSystem -----------------------------
(***************************************************************************)
(* One database's DurableObject, the CLI processes that push to it and     *)
(* pull from it, and the WebSockets between them.                          *)
(*                                                                         *)
(*   host     a machine with one local SQLite file                         *)
(*   session  one run of `edgereplica sync push` or `sync pull`, with its  *)
(*            WebSocket and the SyncFsm task at the other end; a retry is  *)
(*            another session of the same host                             *)
(*                                                                         *)
(* Nothing compares the direction in a session's token with the command it *)
(* is given to: the object serves the one, the client runs the other.      *)
(*                                                                         *)
(* A host runs one CLI process at a time, but the server end of a session  *)
(* outlives its client: frames already sent may be applied after the       *)
(* client died and its retry has begun.  All sessions share the object's   *)
(* pages table; the object is single-threaded, so an apply is never        *)
(* interleaved with another (Free), although its frames leave one by one.  *)
(***************************************************************************)
EXTENDS SyncFsm

CONSTANTS
  Host,
  Session,
  Owner,          \* the host each session runs on
  Command,        \* the command each session runs, push or pull
  Tokens,         \* the directions its users may hand each session in a token
  Writers,        \* hosts whose application writes the local file
  MaxLocalWrites, \* bound: local writes, all hosts together
  Faults          \* which failures happen: see FaultKind

\* "client"   a CLI process dies or loses its connection
\* "storage"  a storage call of the object returns an error
\* "socket"   the server's socket refuses a frame
\* "restart"  the object is evicted: its tasks are gone, its table stays
FaultKind == {"client", "storage", "socket", "restart"}

ASSUME SystemAssumption ==
  /\ Owner \in [Session -> Host]
  /\ Command \in [Session -> Direction]
  /\ Tokens \subseteq [Session -> Direction]
  /\ Writers \subseteq Host
  /\ MaxLocalWrites \in Nat
  /\ Faults \subseteq FaultKind

VARIABLES
  pages,   \* the pages table of the object
  fsm,     \* fsm[s]: the SyncFsm of s, if its task is open
  task,    \* task[s]: "none" before the upgrade, "open", "closed"
  cli,     \* cli[s]: the CLI process of s
  c2s,     \* c2s[s]: frames on their way to the object, and
  s2c,     \* s2c[s]: on their way to the client
  file,    \* file[h]: the pages of h's local database
  writes   \* local writes so far

vars == <<pages, fsm, task, cli, c2s, s2c, file, writes>>

LocalFile == UNION {[S -> Content] : S \in SUBSET PageNo}

\* pc: idle, then hello (handshake sent), hash (hash phase), drain (push)
\* or recv (pull), and done or failed.  max and next are PageReader's;
\* queue is push's `pending`; txn is what PageWriter's transaction holds;
\* count is pull's pages_written, and for a push the pages it served.
Cli == [pc    : {"idle", "hello", "hash", "drain", "recv", "done", "failed"},
        max   : 0 .. LastPage,
        next  : 1 .. LastPage + 1,
        queue : Seq(PageNo),
        txn   : LocalFile,
        count : Nat]

\* A process that is not running: its variables are gone.
Exit(pc) ==
  [pc |-> pc, max |-> 0, next |-> 1, queue |-> <<>>, txn |-> <<>>, count |-> 0]

ClientFrame ==
  {Hello(PROTOCOL_VERSION), Complete}
    \cup [kind : {"PageHash"}, page_no : PageNo, hash : Hash]
    \cup [kind : {"PageData"}, page_no : PageNo, data : Content]

TypeOK ==
  /\ pages \in Pages
  /\ fsm \in [Session -> Fsm]
  /\ task \in [Session -> {"none", "open", "closed"}]
  /\ cli \in [Session -> Cli]
  /\ c2s \in [Session -> Seq(ClientFrame)]
  /\ s2c \in [Session -> Seq(ServerFrame)]
  /\ file \in [Host -> LocalFile]
  /\ writes \in 0 .. MaxLocalWrites

\* Pages 1..n: the pages of every SQLite file, and what the object holds
\* before the first session (or was left by earlier ones).
Prefixes(S) == UNION {[1 .. n -> S] : n \in 0 .. LastPage}

Init ==
  /\ \E f \in Prefixes(Content) :
       pages = [p \in DOMAIN f |-> [data |-> f[p], hash |-> page_hash(f[p])]]
  /\ \E token \in Tokens : fsm = [s \in Session |-> new(token[s])]
  /\ task = [s \in Session |-> "none"]
  /\ cli = [s \in Session |-> Exit("idle")]
  /\ c2s = [s \in Session |-> <<>>]
  /\ s2c = [s \in Session |-> <<>>]
  /\ file \in [Host -> Prefixes(Content)]
  /\ writes = 0

\* The token of s is of the direction its command goes.
Fits(s) == fsm[s].direction = Command[s]

Active(s) == cli[s].pc \in {"hello", "hash", "drain", "recv"}

Ended(s) == cli[s].pc \in {"done", "failed"}

\* SELECT IFNULL(MAX(pgno), 0): a local file's pages are 1..n.
file_max_page(h) == Cardinality(DOMAIN file[h])

\* What is sent to a closed task reaches nobody.
Send(s, msg) ==
  c2s' = [c2s EXCEPT ![s] = IF task[s] = "closed" THEN @ ELSE Append(@, msg)]

\* The next frame the client of s would read, if it reads now.
Arrived(s, kind) == s2c[s] # <<>> /\ Head(s2c[s]).kind = kind

Consume(s) == s2c' = [s2c EXCEPT ![s] = Tail(@)]

server == <<pages, fsm, task>>

-----------------------------------------------------------------------------
(* The CLI process: push and pull of client/src/sync_ws.rs.                *)

\* connect, open the local file, send Hello.  The upgrade is accepted.
Start(s) ==
  /\ cli[s].pc = "idle"
  /\ \A t \in Session : Owner[t] = Owner[s] => ~Active(t)
  /\ task' = [task EXCEPT ![s] = "open"]
  /\ cli' = [cli EXCEPT ![s].pc = "hello", ![s].max = file_max_page(Owner[s])]
  /\ Send(s, Hello(PROTOCOL_VERSION))
  /\ UNCHANGED <<pages, fsm, s2c, file, writes>>

\* A pull reopens its file after the handshake, unless there was none.
RecvHelloReply(s) ==
  /\ cli[s].pc = "hello" /\ Arrived(s, "HelloReply")
  /\ cli' = [cli EXCEPT
       ![s].pc = "hash",
       ![s].max = IF Command[s] = "pull" /\ @ > 0
                  THEN file_max_page(Owner[s]) ELSE @]
  /\ Consume(s)
  /\ UNCHANGED <<server, c2s, file, writes>>

\* next_hash reads and hashes the page as it is now.
SendHash(s) ==
  LET p == cli[s].next
  IN  /\ cli[s].pc = "hash" /\ p <= cli[s].max
      /\ Send(s, PageHash(p, page_hash(file[Owner[s]][p])))
      /\ cli' = [cli EXCEPT ![s].next = p + 1]
      /\ UNCHANGED <<server, s2c, file, writes>>

SendComplete(s) ==
  /\ cli[s].pc = "hash" /\ cli[s].next > cli[s].max
  /\ Send(s, Complete)
  /\ cli' = [cli EXCEPT
       ![s].pc = IF Command[s] = "push" THEN "drain" ELSE "recv"]
  /\ UNCHANGED <<server, s2c, file, writes>>

\* A push reads while it hashes (drain_ready takes what has arrived), and
\* after its Complete whenever it has nothing queued to serve.
PushReads(s) ==
  /\ Command[s] = "push"
  /\ \/ cli[s].pc = "hash"
     \/ cli[s].pc = "drain" /\ cli[s].queue = <<>>

\* Mutant: requests are served last in, first out.
RecvRequest_lifo(s) ==
  /\ PushReads(s) /\ Arrived(s, "RequestPage")
  /\ cli' = [cli EXCEPT ![s].queue = <<Head(s2c[s]).page_no>> \o @]
  /\ Consume(s)
  /\ UNCHANGED <<server, c2s, file, writes>>

RecvRequest(s) ==
  /\ PushReads(s) /\ Arrived(s, "RequestPage")
  /\ cli' = [cli EXCEPT ![s].queue = Append(@, Head(s2c[s]).page_no)]
  /\ Consume(s)
  /\ UNCHANGED <<server, c2s, file, writes>>

\* Mutant: a served request stays in the queue.
ServePage_peeks(s) ==
  LET p == Head(cli[s].queue)
  IN  /\ cli[s].pc = "drain" /\ cli[s].queue # <<>>
      /\ cli[s].count < LastPage
      /\ Send(s, PageData(p, file[Owner[s]][p]))
      /\ cli' = [cli EXCEPT ![s].count = @ + 1]
      /\ UNCHANGED <<server, s2c, file, writes>>

\* read_page reads the page again: its bytes may no longer be those hashed.
ServePage(s) ==
  LET p == Head(cli[s].queue)
  IN  /\ cli[s].pc = "drain" /\ cli[s].queue # <<>>
      /\ Send(s, PageData(p, file[Owner[s]][p]))
      /\ cli' = [cli EXCEPT ![s].queue = Tail(@), ![s].count = @ + 1]
      /\ UNCHANGED <<server, s2c, file, writes>>

\* Mutant: pages are written outside a transaction.
RecvPage_autocommit(s) ==
  LET m == Head(s2c[s])
      h == Owner[s]
  IN  /\ cli[s].pc = "recv" /\ Arrived(s, "PageData")
      /\ file' = [file EXCEPT
           ![h] = [q \in DOMAIN @ \cup {m.page_no} |->
                     IF q = m.page_no THEN m.data ELSE @[q]]]
      /\ cli' = [cli EXCEPT ![s].count = @ + 1]
      /\ Consume(s)
      /\ UNCHANGED <<server, c2s, writes>>

\* INSERT OR REPLACE inside the transaction PageWriter::open began.
RecvPage(s) ==
  LET m == Head(s2c[s])
  IN  /\ cli[s].pc = "recv" /\ Arrived(s, "PageData")
      /\ cli' = [cli EXCEPT
           ![s].txn = [q \in DOMAIN @ \cup {m.page_no} |->
                         IF q = m.page_no THEN m.data ELSE @[q]],
           ![s].count = @ + 1]
      /\ Consume(s)
      /\ UNCHANGED <<server, c2s, file, writes>>

\* A pull commits, a push has nothing left to do; both close.
RecvSyncComplete(s) ==
  /\ Arrived(s, "SyncComplete")
  /\ \/ cli[s].pc = "recv"
     \/ cli[s].pc = "drain" /\ cli[s].queue = <<>>
  /\ cli' = [cli EXCEPT ![s] = Exit("done")]
  /\ file' = [file EXCEPT ![Owner[s]] =
       [q \in DOMAIN @ \cup DOMAIN cli[s].txn |->
          IF q \in DOMAIN cli[s].txn THEN cli[s].txn[q] ELSE @[q]]]
  /\ Consume(s)
  /\ UNCHANGED <<server, c2s, writes>>

\* Every way out of push and pull but Ok: what the transaction holds is
\* rolled back when PageWriter is dropped.
Fail(s) ==
  /\ cli' = [cli EXCEPT ![s] = Exit("failed")]
  /\ s2c' = [s2c EXCEPT ![s] = <<>>]
  /\ UNCHANGED <<server, file, writes>>

\* The kinds that do not end the process where it reads.
Expected(s) ==
  CASE cli[s].pc = "hello" -> {"HelloReply"}
    [] cli[s].pc = "hash"  -> {"RequestPage"}
    [] cli[s].pc = "drain" -> {"RequestPage", "SyncComplete"}
    [] cli[s].pc = "recv"  -> {"PageData", "SyncComplete"}

Reads(s) == PushReads(s) \/ cli[s].pc \in {"hello", "recv"}

\* An Error, or a message out of place.
RecvOther(s) ==
  /\ Reads(s) /\ s2c[s] # <<>> /\ Head(s2c[s]).kind \notin Expected(s)
  /\ Fail(s) /\ UNCHANGED c2s

\* The server end is gone and everything it sent has been read.
RecvClosed(s) ==
  /\ Active(s) /\ task[s] = "closed" /\ s2c[s] = <<>>
  /\ Fail(s) /\ UNCHANGED c2s

\* Killed, or cut off: a suffix of what it sent is lost on the way.
ClientFails(s) ==
  /\ "client" \in Faults /\ Active(s)
  /\ Fail(s)
  /\ \E n \in 0 .. Len(c2s[s]) : c2s' = [c2s EXCEPT ![s] = SubSeq(@, 1, n)]

\* The application of a writing host commits a page, or a new last page;
\* not while a pull holds the write lock its first INSERT took.
LocalWrite(h, p, d) ==
  /\ h \in Writers /\ writes < MaxLocalWrites
  /\ p <= file_max_page(h) + 1
  /\ \A s \in Session : Owner[s] = h => cli[s].txn = <<>>
  /\ file' = [file EXCEPT ![h] =
       [q \in DOMAIN @ \cup {p} |-> IF q = p THEN d ELSE @[q]]]
  /\ writes' = writes + 1
  /\ UNCHANGED <<server, cli, c2s, s2c>>

-----------------------------------------------------------------------------
(* The object: the task of do_sync_ws.rs for each session.                 *)

\* No apply is in progress.
Free == \A s \in Session : task[s] = "open" => Idle(fsm[s])

\* The outcomes that can happen: an Err next to an Ok is a storage error.
Possible(outcomes) ==
  {o \in outcomes :
     /\ o.res = "send_failed" => "socket" \in Faults
     /\ o.res = "err" /\ (\E q \in outcomes : q.res = "ok")
          => "storage" \in Faults}

\* Mutant: a failed apply neither answers nor closes.
Settle_silent_on_err(s, o, unread) ==
  LET returns == Idle(o.fsm) /\ done(o.fsm)
  IN  /\ fsm' = [fsm EXCEPT ![s] = o.fsm]
      /\ pages' = o.pages
      /\ task' = [task EXCEPT ![s] = IF returns THEN "closed" ELSE "open"]
      /\ c2s' = [c2s EXCEPT ![s] = IF returns THEN <<>> ELSE unread]
      /\ s2c' = [s2c EXCEPT ![s] = IF Active(s) THEN @ \o o.out ELSE @]

\* The task returns when an apply has failed or left the FSM done; frames
\* after the one it was applying are then never read (unread: those frames).
\* The Error of a failed apply may be refused like any frame.
Settle(s, o, unread) ==
  LET returns == o.res # "ok" \/ (Idle(o.fsm) /\ done(o.fsm))
      sendable == IF o.res = "err"
                  THEN {<<Error>>} \cup {<<>> : k \in Faults \cap {"socket"}}
                  ELSE {o.out}
  IN  /\ fsm' = [fsm EXCEPT ![s] = o.fsm]
      /\ pages' = o.pages
      /\ task' = [task EXCEPT ![s] = IF returns THEN "closed" ELSE "open"]
      /\ c2s' = [c2s EXCEPT ![s] = IF returns THEN <<>> ELSE unread]
      /\ \E out \in sendable :
           s2c' = [s2c EXCEPT ![s] = IF Active(s) THEN @ \o out ELSE @]

Apply(s) ==
  /\ task[s] = "open" /\ Free /\ c2s[s] # <<>>
  /\ \E o \in Possible(apply(fsm[s], pages, Head(c2s[s]))) :
       Settle(s, o, Tail(c2s[s]))
  /\ UNCHANGED <<cli, file, writes>>

ResumeApply(s) ==
  /\ task[s] = "open" /\ ~Idle(fsm[s])
  /\ \E o \in Possible(resume(fsm[s], pages)) : Settle(s, o, c2s[s])
  /\ UNCHANGED <<cli, file, writes>>

\* The Close event, once everything that still arrived has been applied.
PeerClose(s) ==
  /\ task[s] = "open" /\ Free /\ Ended(s) /\ c2s[s] = <<>>
  /\ fsm' = [fsm EXCEPT ![s] = client_closed(@)]
  /\ task' = [task EXCEPT ![s] = "closed"]
  /\ UNCHANGED <<pages, cli, c2s, s2c, file, writes>>

\* Frames already sent still arrive; those not yet applied are lost.
Restart ==
  /\ "restart" \in Faults
  /\ \E s \in Session : task[s] = "open"
  /\ task' = [s \in Session |-> IF task[s] = "open" THEN "closed" ELSE task[s]]
  /\ c2s' = [s \in Session |-> <<>>]
  /\ UNCHANGED <<pages, fsm, cli, s2c, file, writes>>

-----------------------------------------------------------------------------

ClientStep(s) ==
  \/ RecvHelloReply(s) \/ SendHash(s) \/ SendComplete(s)
  \/ RecvRequest(s) \/ ServePage(s) \/ RecvPage(s)
  \/ RecvSyncComplete(s) \/ RecvOther(s) \/ RecvClosed(s)

ServerStep(s) == Apply(s) \/ ResumeApply(s) \/ PeerClose(s)

\* Everything has been run: the system rests.
Finished ==
  /\ \A s \in Session : Ended(s) /\ task[s] = "closed"
  /\ UNCHANGED vars

Next ==
  \/ \E s \in Session :
       Start(s) \/ ClientStep(s) \/ ServerStep(s) \/ ClientFails(s)
  \/ \E h \in Host, p \in PageNo, d \in Content : LocalWrite(h, p, d)
  \/ Restart
  \/ Finished

Spec == Init /\ [][Next]_vars

\* A process that can take its next step takes it: the client is a
\* sequential program, the object drains its event queues, and a closed
\* connection is reported to a reader.  Nobody has to start a session, and
\* no failure has to happen.
FairSpec ==
  Spec /\ \A s \in Session : WF_vars(ClientStep(s)) /\ WF_vars(ServerStep(s))

-----------------------------------------------------------------------------
(* Properties.                                                             *)

Occurrences(seq, x) == Cardinality({i \in DOMAIN seq : seq[i] = x})

\* The places a request of the FSM for page p can be: on its way to the
\* client, queued there, or answered by bytes on their way back.
InFlight(s, p) ==
  Occurrences(s2c[s], RequestPage(p)) + Occurrences(cli[s].queue, p)
    + Cardinality({i \in DOMAIN c2s[s] :
                     c2s[s][i].kind = "PageData" /\ c2s[s][i].page_no = p})

\* With a push token no request is lost or served twice, through the two
\* channels and the client's queue: a page the FSM waits for is in flight
\* exactly once, and no other page is.
RequestInOnePlace ==
  \A s \in Session :
    fsm[s].direction = "push" /\ task[s] = "open" /\ Active(s) =>
      \A p \in PageNo :
        InFlight(s, p) = IF p \in fsm[s].pending_requests THEN 1 ELSE 0

\* The frames of a session whose token is of direction dir.
FrameOf(dir) == IF dir = "push" THEN "RequestPage" ELSE "PageData"

\* The two programs agree on the phases: the only frame that can find a
\* client where it bails out on it is the Error of a failed server, or what
\* the object sends by a token that is not of the command's direction.
SurprisesAreErrors ==
  \A s \in Session :
    Reads(s) /\ s2c[s] # <<>> /\ Head(s2c[s]).kind \notin Expected(s)
      => \/ Head(s2c[s]) = Error
         \/ ~Fits(s) /\ Head(s2c[s]).kind = FrameOf(fsm[s].direction)

\* What SyncComplete reports is what the client did: the pages a push
\* served, the pages a pull wrote before it commits.
CountsAgree ==
  \A s \in Session :
    Reads(s) /\ Arrived(s, "SyncComplete")
      => Head(s2c[s]).pages_transferred = cli[s].count

IsPrefix1(S) == S = 1 .. Cardinality(S)

\* No session leaves a hole: the object and every file hold pages 1..n,
\* after pushes cut short at any frame and pulls raced by pushes too.
NoHoles ==
  /\ IsPrefix1(DOMAIN pages)
  /\ \A h \in Host : IsPrefix1(DOMAIN file[h])

\* The digest of a range of local pages, as the doc of PageHashBatch has it.
FileDigest(h, p, q) ==
  combined_hash([n \in DOMAIN file[h] |->
                   [data |-> file[h][n], hash |-> page_hash(file[h][n])]], p, q)

\* A range whose digests agree is identical on both sides, although the
\* digest skips pages without a row: it relies on neither side having holes.
BatchMatchMeansEqual ==
  \A h \in Host : \A p, q \in PageNo :
    combined_hash(pages, p, q) = FileDigest(h, p, q) =>
      \A n \in p .. q :
        /\ n \in DOMAIN pages <=> n \in DOMAIN file[h]
        /\ n \in DOMAIN pages => pages[n].data = file[h][n]

\* Every process that starts ends, and so does its task, whatever fails
\* in between: nobody waits for somebody who waits for him.
SessionsEnd ==
  \A s \in Session : Active(s) ~> Ended(s) /\ task[s] = "closed"

\* If nothing fails, every session that starts with a token for its command
\* succeeds, however the sessions of other hosts are interleaved with it.
SessionsSucceed ==
  \A s \in Session : Active(s) /\ Fits(s) ~> cli[s].pc = "done"

\* The claim of the comment on SyncFsm::server_max_page: from handshake to
\* the end of a pull the snapshot is the table's max_page().
ServerMaxPageStable ==
  \A s \in Session :
    fsm[s].direction = "pull" /\ task[s] = "open" /\ fsm[s].saw_hello
      => is_max_page(pages, fsm[s].server_max_page)
=============================================================================
