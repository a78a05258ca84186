-------------------------- MODULE SyncSystemProofs --------------------------
(***************************************************************************)
(* The inductive invariant of SyncSystem and what follows from it.         *)
(*                                                                         *)
(* Everything but the object's table and the local files belongs to one    *)
(* session, so the invariant is a predicate Linked of one session: of its  *)
(* two ends, of the frames between them, and of which pages the object (D) *)
(* and the local file (F) have.  D and F only grow, whoever makes them.    *)
(*                                                                         *)
(*   f, tk   the FSM of the session and the state of its task              *)
(*   c       its client                                                    *)
(*   up      the frames on their way to the object                         *)
(*   down    the frames on their way to the client                         *)
(***************************************************************************)
EXTENDS SyncSystem, SyncFsmProofs, FiniteSetTheorems, SequenceTheorems

IsData(m) == m.kind = "PageData"

Running(c) == c.pc \in {"hello", "hash", "drain", "recv"}

\* The handshake is over and the client still runs.
Syncing(c) == c.pc \in {"hash", "drain", "recv"}

-----------------------------------------------------------------------------
(* The two ends by themselves.                                             *)

\* No client sends a PageDataBatch, and nothing happens before Hello.
FsmOK(dir, tk, f) ==
  /\ Shape(f) /\ f.direction = dir /\ f.rest = <<>>
  /\ tk = "open" => Ready(f)
  /\ tk = "none" \/ (tk = "open" /\ ~f.saw_hello) => f = new(dir)

\* A client claims pages its file has, and is asked for no others.
ClientOK(dir, tk, c, down, F) ==
  /\ c.pc = "idle" <=> tk = "none"
  /\ ~Running(c) => c = Exit(c.pc) /\ down = <<>>
  /\ c.pc = "hello" =>
       c.next = 1 /\ c.count = 0 /\ c.queue = <<>> /\ DOMAIN c.txn = {}
  /\ c.pc = "hash" => c.next <= c.max + 1
  /\ Running(c) => 1 .. c.max \subseteq F
  /\ Running(c) /\ dir = "push" =>
       /\ DOMAIN c.txn = {}
       /\ c.pc = "hash" => c.count = 0
       /\ \A i \in DOMAIN c.queue : c.queue[i] <= c.max
       /\ \A i \in DOMAIN down :
            down[i].kind = "RequestPage" => down[i].page_no <= c.max
  /\ dir = "pull" => c.queue = <<>>

-----------------------------------------------------------------------------
(* The frames on their way to the object.                                  *)

\* Pages 1..n have been claimed.  A Hello travels alone; hashes go on from
\* page n + 1; then comes Complete, then the bytes that a push serves.
Upstream(dir, f, up, n) ==
  /\ f.client_seen = 1 .. n
  /\ \A i \in DOMAIN up :
       /\ up[i].kind = "Hello" <=> ~f.saw_hello
       /\ up[i].kind = "PageHash" => up[i].page_no = n + i
       /\ IsData(up[i]) => dir = "push"
       /\ ~IsData(up[i]) =>
            /\ ~f.completed_hash_phase
            /\ \A j \in 1 .. i - 1 : up[j].kind = "PageHash"

\* A page that was claimed has a row or is waited for.  The bytes on their
\* way were asked for, they come in ascending order, and whatever else is
\* waited for below them comes before them: no row is stored past a hole.
Requested(f, up, D) ==
  /\ f.client_seen \subseteq D \cup f.pending_requests
  /\ f.pending_requests \subseteq f.client_seen
  /\ \A i \in DOMAIN up : IsData(up[i]) =>
       /\ up[i].page_no \in f.pending_requests
       /\ \A j \in 1 .. i - 1 :
            IsData(up[j]) => up[j].page_no < up[i].page_no
       /\ \A p \in f.pending_requests : p < up[i].page_no =>
            \E j \in 1 .. i - 1 : IsData(up[j]) /\ up[j].page_no = p

-----------------------------------------------------------------------------
(* A client that runs and an object that listens.                          *)

Greeting(dir, tk, f, c, up, down) ==
  /\ tk = "open" /\ ~f.saw_hello =>
       up = <<Hello(PROTOCOL_VERSION)>> /\ down = <<>>
  /\ tk = "open" /\ f.saw_hello =>
       /\ up = <<>>
       /\ ~f.completed_hash_phase /\ f.client_seen = {}
       /\ f.pending_requests = {} /\ f.pages_transferred = 0
       /\ \E m \in 0 .. LastPage : down = <<HelloReply(m)>>
  /\ tk = "closed" =>
       \/ down = <<>> \/ down = <<Error>>
       \/ \E m \in 0 .. LastPage : down = <<HelloReply(m)>>

\* Both ends are in the same phase, and what a push has served is what the
\* object has stored and what is still on its way.
Phases(dir, f, c, up, n) ==
  /\ f.saw_hello
  /\ dir = "push" /\ ~f.completed_hash_phase => f.pages_transferred = 0
  /\ c.pc = "hash" =>
       /\ ~f.completed_hash_phase
       /\ c.next = n + Len(up) + 1
       /\ \A i \in DOMAIN up : up[i].kind = "PageHash"
  /\ c.pc # "hash" /\ ~f.completed_hash_phase =>
       \E i \in DOMAIN up :
         /\ up[i] = Complete
         /\ n + i = c.max + 1
         /\ dir = "push" => c.count = Len(up) - i
  /\ c.pc # "hash" /\ f.completed_hash_phase =>
       /\ n = c.max
       /\ dir = "push" => c.count = f.pages_transferred + Len(up)

\* Up to an Error or a SyncComplete, which come last, a push receives
\* requests and a pull receives pages.
Downstream(dir, tk, c, down) ==
  \A i \in DOMAIN down :
    \/ down[i].kind = (IF dir = "push" THEN "RequestPage" ELSE "PageData")
    \/ i = Len(down) /\ tk = "closed" /\ down[i] = Error
    \/ /\ i = Len(down) /\ tk = "closed" /\ down[i].kind = "SyncComplete"
       /\ c.pc # "hash"
       /\ IF dir = "push"
          THEN /\ Len(down) = 1 /\ c.queue = <<>>
               /\ down[i].pages_transferred = c.count
          ELSE down[i].pages_transferred + 1 = c.count + Len(down)

\* Every page waited for is in one place of three; each place is in
\* ascending order, and so are the places.
InOrder(f, c, up, down) ==
  /\ \A i \in DOMAIN c.queue :
       /\ c.queue[i] \in f.pending_requests
       /\ \A j \in 1 .. i - 1 : c.queue[j] < c.queue[i]
       /\ \A j \in DOMAIN up : IsData(up[j]) => up[j].page_no < c.queue[i]
  /\ \A i \in DOMAIN down :
       /\ down[i].page_no \in f.pending_requests
       /\ \A j \in 1 .. i - 1 : down[j].page_no < down[i].page_no
       /\ \A j \in DOMAIN c.queue : c.queue[j] < down[i].page_no
       /\ \A j \in DOMAIN up : IsData(up[j]) => up[j].page_no < down[i].page_no
  /\ \A p \in f.pending_requests :
       \/ \E i \in DOMAIN up : IsData(up[i]) /\ up[i].page_no = p
       \/ \E i \in DOMAIN c.queue : c.queue[i] = p
       \/ \E i \in DOMAIN down : down[i].page_no = p

\* Page p of a pull has been written, or is among the first k frames.
Brought(c, down, k, p) ==
  \/ p \in DOMAIN c.txn
  \/ \E j \in 1 .. k : IsData(down[j]) /\ down[j].page_no = p

\* Past the pages the client has, the object's come without a gap.
NoGap(c, down) ==
  /\ \A q \in DOMAIN c.txn : \A p \in c.max + 1 .. q - 1 : p \in DOMAIN c.txn
  /\ \A i \in DOMAIN down : IsData(down[i]) =>
       \A p \in c.max + 1 .. down[i].page_no - 1 : Brought(c, down, i - 1, p)

\* ... nor has the walk left one behind, and every page sent is counted.
Walked(f, c, down) ==
  /\ f.pages_transferred = c.count + Len(down)
  /\ f.cursor # 0 =>
       \A p \in c.max + 1 .. f.cursor - 1 : Brought(c, down, Len(down), p)

-----------------------------------------------------------------------------

Typed(dir, tk, f, c, up, down) ==
  /\ dir \in Direction /\ tk \in {"none", "open", "closed"}
  /\ f \in Fsm /\ c \in Cli
  /\ up \in Seq(ClientFrame) /\ down \in Seq(ServerFrame)

Linked(dir, tk, f, c, up, down, D, F) ==
  /\ FsmOK(dir, tk, f)
  /\ ClientOK(dir, tk, c, down, F)
  /\ tk # "open" => up = <<>>
  /\ tk = "open" =>
       \E n \in 0 .. LastPage :
         /\ Upstream(dir, f, up, n)
         /\ Syncing(c) => Phases(dir, f, c, up, n)
  /\ tk = "open" /\ dir = "push" => Requested(f, up, D)
  /\ tk = "open" /\ dir = "push" /\ Syncing(c) => InOrder(f, c, up, down)
  /\ tk = "open" /\ dir = "pull" /\ Syncing(c) => Walked(f, c, down)
  /\ c.pc = "hello" => Greeting(dir, tk, f, c, up, down)
  /\ Syncing(c) => Downstream(dir, tk, c, down)
  /\ Syncing(c) /\ dir = "pull" => NoGap(c, down)

LinkedAt(s) ==
  Linked(fsm[s].direction, task[s], fsm[s], cli[s], c2s[s], s2c[s],
         DOMAIN pages, DOMAIN file[Owner[s]])

\* A session at a time; and neither the table nor a file has a hole.
IInv ==
  /\ TypeOK
  /\ NoHoles
  /\ \A s \in Session : LinkedAt(s)

\* A push never waits for pages and a pull never serves them, whatever the
\* token: the client's program is its command's.
Commanded(s) ==
  /\ Command[s] = "push" => cli[s].pc # "recv" /\ DOMAIN cli[s].txn = {}
  /\ Command[s] = "pull" => cli[s].pc # "drain"

-----------------------------------------------------------------------------
(* Sequences and prefixes.                                                 *)

\* Taking the first frame off a queue.
LEMMA TailFacts ==
  ASSUME NEW S, NEW seq \in Seq(S), seq # <<>>
  PROVE  /\ Len(seq) \in Nat \ {0} /\ DOMAIN seq = 1 .. Len(seq)
         /\ Head(seq) = seq[1] /\ Head(seq) \in S
         /\ Tail(seq) \in Seq(S) /\ Len(Tail(seq)) = Len(seq) - 1
         /\ DOMAIN Tail(seq) = 1 .. Len(seq) - 1
         /\ \A i \in 1 .. Len(seq) - 1 : Tail(seq)[i] = seq[i + 1]
<1>1. Len(seq) \in Nat \ {0} /\ DOMAIN seq = 1 .. Len(seq)
  BY EmptySeq, LenProperties
<1>2. QED
  BY <1>1

\* Putting a frame at its end.
LEMMA AppendFacts ==
  ASSUME NEW S, NEW seq \in Seq(S), NEW x \in S
  PROVE  /\ Append(seq, x) \in Seq(S) /\ Len(Append(seq, x)) = Len(seq) + 1
         /\ Len(seq) \in Nat
         /\ DOMAIN seq = 1 .. Len(seq)
         /\ DOMAIN Append(seq, x) = 1 .. Len(seq) + 1
         /\ \A i \in 1 .. Len(seq) : Append(seq, x)[i] = seq[i]
         /\ Append(seq, x)[Len(seq) + 1] = x
         /\ seq \o <<x>> = Append(seq, x)
OBVIOUS

LEMMA NoFrames == DOMAIN <<>> = {} /\ Len(<<>>) = 0
OBVIOUS

\* A prefix of the page numbers is an interval from 1.
LEMMA PrefixInterval ==
  ASSUME NEW S \in SUBSET PageNo, IsPrefix1(S)
  PROVE  Cardinality(S) \in 0 .. LastPage /\ S = 1 .. Cardinality(S)
<1>1. IsFiniteSet(PageNo) /\ Cardinality(PageNo) = LastPage
  BY FS_Interval, LastPageAssumption DEF PageNo
<1>2. IsFiniteSet(S) /\ Cardinality(S) <= LastPage
  BY <1>1, FS_Subset
<1>3. Cardinality(S) \in Nat
  BY <1>2, FS_CardinalityType
<1>4. QED
  BY <1>2, <1>3, LastPageAssumption DEF IsPrefix1

LEMMA IntervalPrefix ==
  ASSUME NEW n \in Nat
  PROVE  IsPrefix1(1 .. n) /\ Cardinality(1 .. n) = n
<1>1. Cardinality(1 .. n) = n
  BY FS_Interval
<1>2. QED
  BY <1>1 DEF IsPrefix1

\* Page numbers that have all pages below them with them are a prefix.
LEMMA DownwardClosed ==
  ASSUME NEW S \in SUBSET PageNo, \A q \in S : \A p \in 1 .. q - 1 : p \in S
  PROVE  IsPrefix1(S)
<1> DEFINE n == Cardinality(S)
<1>1. IsFiniteSet(PageNo)
  BY FS_Interval, LastPageAssumption DEF PageNo
<1>2. IsFiniteSet(S) /\ n \in Nat
  BY <1>1, FS_Subset, FS_CardinalityType
<1>3. ASSUME NEW q \in S
      PROVE  q \in 1 .. n
  <2>1. q \in Nat /\ q >= 1
    BY LastPageAssumption DEF PageNo
  <2>2. 1 .. q \in SUBSET S
    BY <2>1
  <2>3. Cardinality(1 .. q) <= n
    BY <1>2, <2>2, FS_Subset
  <2>4. Cardinality(1 .. q) = q
    BY <2>1, IntervalPrefix
  <2>5. QED
    BY <1>2, <2>1, <2>3, <2>4
<1>4. IsFiniteSet(1 .. n) /\ Cardinality(1 .. n) = n
  BY <1>2, FS_Interval, IntervalPrefix
<1>5. S \in SUBSET (1 .. n)
  BY <1>3
<1> HIDE DEF n
<1>6. S = 1 .. n
  BY <1>4, <1>5, FS_Subset DEF n
<1>7. QED
  BY <1>6 DEF IsPrefix1, n

\* It stays one when the page put into it has all pages below it there.
LEMMA PrefixGrows ==
  ASSUME NEW S \in SUBSET PageNo, IsPrefix1(S), NEW p \in PageNo,
         \A q \in 1 .. p - 1 : q \in S
  PROVE  IsPrefix1(S \cup {p})
<1> DEFINE n == Cardinality(S)
<1>1. n \in 0 .. LastPage /\ S = 1 .. n
  BY PrefixInterval
<1>2. p \in 1 .. LastPage
  BY DEF PageNo
<1> HIDE DEF n
<1>3. n \in Nat /\ p \in Nat /\ p >= 1
  BY <1>1, <1>2, LastPageAssumption
<1>4. CASE p <= n
  <2>1. S \cup {p} = 1 .. n
    BY <1>1, <1>3, <1>4
  <2>2. QED
    BY <1>3, <2>1, IntervalPrefix
<1>5. CASE ~(p <= n)
  <2>1. p = n + 1
    <3>1. n + 1 \in 1 .. p - 1 => n + 1 \in 1 .. n
      BY <1>1
    <3>2. QED
      BY <1>3, <1>5, <3>1
  <2>2. S \cup {p} = 1 .. n + 1
    BY <1>1, <1>3, <2>1
  <2>3. n + 1 \in Nat
    BY <1>3
  <2>4. QED
    BY <2>2, <2>3, IntervalPrefix
<1>6. QED
  BY <1>4, <1>5

\* What a table or a file has are page numbers.
LEMMA DomainPages ==
  /\ \A st \in Pages : DOMAIN st \in SUBSET PageNo
  /\ \A st \in LocalFile : DOMAIN st \in SUBSET PageNo
BY DEF Pages, LocalFile

-----------------------------------------------------------------------------
(* What keeps a session linked: first what its own steps have no part in.  *)

\* Others may add rows to the table and pages to the file.
LEMMA LinkedMonotone ==
  ASSUME NEW dir, NEW tk, NEW f, NEW c, NEW up, NEW down,
         NEW D, NEW F, NEW D2, NEW F2, D \subseteq D2, F \subseteq F2,
         Linked(dir, tk, f, c, up, down, D, F)
  PROVE  Linked(dir, tk, f, c, up, down, D2, F2)
<1>1. ClientOK(dir, tk, c, down, F) => ClientOK(dir, tk, c, down, F2)
  BY DEF ClientOK
<1>2. Requested(f, up, D) => Requested(f, up, D2)
  BY DEF Requested
<1>3. QED
  BY <1>1, <1>2 DEF Linked

\* The frames of either channel by their fields.
LEMMA FrameFields ==
  /\ Hello(PROTOCOL_VERSION).kind = "Hello" /\ Complete.kind = "Complete"
  /\ Error.kind = "Error"
  /\ \A p, h : PageHash(p, h).kind = "PageHash" /\ PageHash(p, h).page_no = p
  /\ \A p, d : PageData(p, d).kind = "PageData" /\ PageData(p, d).page_no = p
  /\ \A p : RequestPage(p).kind = "RequestPage" /\ RequestPage(p).page_no = p
  /\ \A m : HelloReply(m).kind = "HelloReply" /\ HelloReply(m).max_page = m
  /\ \A n : /\ SyncComplete(n).kind = "SyncComplete"
            /\ SyncComplete(n).pages_transferred = n
BY DEF Hello, Complete, Error, PageHash, PageData, RequestPage, HelloReply,
       SyncComplete

LEMMA ClientFrames ==
  /\ Hello(PROTOCOL_VERSION) \in ClientFrame /\ Complete \in ClientFrame
  /\ \A p \in PageNo, h \in Hash : PageHash(p, h) \in ClientFrame
  /\ \A p \in PageNo, d \in Content : PageData(p, d) \in ClientFrame
  /\ \A m \in ClientFrame :
       m.kind \in {"Hello", "PageHash", "Complete", "PageData"}
  /\ \A m \in ClientFrame :
       m.kind \in {"PageHash", "PageData"} => m.page_no \in PageNo
  /\ \A m \in ClientFrame : m.kind = "PageData" => m.data \in Content
  /\ \A m \in ClientFrame : m.kind = "Hello" => m = Hello(PROTOCOL_VERSION)
  /\ \A m \in ClientFrame : m.kind = "Complete" => m = Complete
BY DEF ClientFrame, Hello, Complete, PageHash, PageData

LEMMA ServerFrames ==
  /\ Error \in ServerFrame
  /\ \A m \in ServerFrame :
       m.kind \in {"RequestPage", "PageData"} => m.page_no \in PageNo
  /\ \A m \in ServerFrame : m.kind = "PageData" => m.data \in Content
  /\ \A m \in ServerFrame :
       m.kind = "SyncComplete" => m.pages_transferred \in Nat
  /\ \A m \in ServerFrame :
       m.kind = "HelloReply" =>
         m.max_page \in 0 .. LastPage /\ m = HelloReply(m.max_page)
BY DEF ServerFrame, Error, HelloReply

\* A process that does not run.
LEMMA ExitType ==
  /\ <<>> \in LocalFile /\ DOMAIN <<>> = {}
  /\ \A pc \in {"idle", "done", "failed"} : Exit(pc) \in Cli
<1>1. <<>> \in [{} -> Content]
  OBVIOUS
<1>2. {} \in SUBSET PageNo
  OBVIOUS
<1>3. <<>> \in LocalFile
  BY <1>1, <1>2 DEF LocalFile
<1>4. DOMAIN <<>> = {}
  OBVIOUS
<1>5. QED
  BY <1>3, <1>4, LastPageAssumption DEF Exit, Cli

-----------------------------------------------------------------------------
(* The steps of a client.                                                  *)

\* The client has opened a file of m pages.
Opened(c, m, c2) == c2 = [c EXCEPT !.pc = "hello", !.max = m]

\* Start: the client's file has its pages 1..max, and a Hello is on its way.
LEMMA StartLinked ==
  ASSUME NEW dir, NEW tk, NEW f, NEW c, NEW up, NEW down,
         Typed(dir, tk, f, c, up, down),
         NEW D, NEW F \in SUBSET PageNo, IsPrefix1(F),
         Linked(dir, tk, f, c, up, down, D, F),
         c.pc = "idle",
         NEW c2, Opened(c, Cardinality(F), c2),
         NEW up2, up2 = Append(up, Hello(PROTOCOL_VERSION))
  PROVE  /\ Typed(dir, "open", f, c2, up2, down)
         /\ Linked(dir, "open", f, c2, up2, down, D, F)
<1> DEFINE m == Cardinality(F)
           H == Hello(PROTOCOL_VERSION)
<1>1. m \in 0 .. LastPage /\ F = 1 .. m
  BY PrefixInterval
<1>2. /\ c = Exit("idle") /\ tk = "none" /\ up = <<>> /\ down = <<>>
      /\ f = new(dir) /\ f.direction = dir /\ Ready(f) /\ Shape(f)
  <2>1. ClientOK(dir, tk, c, down, F) /\ FsmOK(dir, tk, f)
    BY DEF Linked
  <2>2. c = Exit("idle") /\ tk = "none" /\ down = <<>> /\ f = new(dir)
    BY <2>1 DEF ClientOK, FsmOK, Running
  <2>3. Ready(f)
    BY <2>2, NewReady DEF Typed
  <2>4. up = <<>>
    BY <2>2 DEF Linked
  <2>5. QED
    BY <2>1, <2>2, <2>3, <2>4 DEF Ready, FsmOK
<1>3. /\ ~f.saw_hello /\ ~f.completed_hash_phase /\ f.client_seen = {}
      /\ f.pending_requests = {} /\ f.pages_transferred = 0 /\ f.rest = <<>>
  BY <1>2 DEF new
<1>4. /\ c2.pc = "hello" /\ c2.max = m /\ c2.next = 1 /\ c2.queue = <<>>
      /\ DOMAIN c2.txn = {} /\ c2.count = 0
  BY <1>2, ExitType DEF Exit, Opened
<1>5. c2 \in Cli
  BY <1>1, <1>2, ExitType, LastPageAssumption DEF Exit, Cli, Opened
<1>6. up2 = <<H>> /\ up2 \in Seq(ClientFrame)
  BY <1>2, ClientFrames
<1>7. /\ DOMAIN up2 = {1} /\ up2[1] = H /\ H.kind = "Hello" /\ Len(up2) = 1
  BY <1>6, FrameFields
<1> HIDE DEF m, H
<1>8. ClientOK(dir, "open", c2, down, F)
  BY <1>1, <1>2, <1>4 DEF ClientOK, Running
<1>9. FsmOK(dir, "open", f)
  BY <1>2, <1>3 DEF FsmOK
<1>10. Upstream(dir, f, up2, 0)
  BY <1>3, <1>7 DEF Upstream, IsData
<1>11. Requested(f, up2, D)
  BY <1>3, <1>7 DEF Requested, IsData
<1>12. Greeting(dir, "open", f, c2, up2, down)
  BY <1>2, <1>3, <1>6 DEF Greeting, H
<1>13. ~Syncing(c2) /\ 0 \in 0 .. LastPage
  BY <1>4, LastPageAssumption DEF Syncing
<1>14. Typed(dir, "open", f, c2, up2, down)
  BY <1>5, <1>6 DEF Typed
<1>15. QED
  BY <1>8, <1>9, <1>10, <1>11, <1>12, <1>13, <1>14 DEF Linked

\* RecvHelloReply: nothing else was on its way; hashing begins at page 1.
LEMMA HelloReplyLinked ==
  ASSUME NEW dir, NEW tk, NEW f, NEW c, NEW up, NEW down,
         Typed(dir, tk, f, c, up, down),
         NEW D, NEW F \in SUBSET PageNo, IsPrefix1(F),
         Linked(dir, tk, f, c, up, down, D, F),
         c.pc = "hello", down # <<>>, Head(down).kind = "HelloReply",
         NEW m \in {c.max, Cardinality(F)},
         NEW c2 \in Cli, c2.pc = "hash", c2.max = m, c2.next = c.next,
         c2.queue = c.queue, c2.txn = c.txn, c2.count = c.count,
         NEW down2, down2 = Tail(down)
  PROVE  /\ Typed(dir, tk, f, c2, up, down2)
         /\ Linked(dir, tk, f, c2, up, down2, D, F)
<1>1. /\ FsmOK(dir, tk, f) /\ ClientOK(dir, tk, c, down, F)
      /\ Greeting(dir, tk, f, c, up, down) /\ tk # "none"
      /\ tk # "open" => up = <<>>
      /\ tk = "open" /\ dir = "push" => Requested(f, up, D)
  BY DEF Linked, ClientOK
<1>2. tk \in {"open", "closed"} /\ c.max \in 0 .. LastPage /\ c \in Cli
  BY <1>1 DEF Typed, Cli
<1>3. m \in 0 .. LastPage /\ 1 .. m \subseteq F
  <2>1. Cardinality(F) \in 0 .. LastPage /\ F = 1 .. Cardinality(F)
    BY PrefixInterval
  <2>2. 1 .. c.max \subseteq F
    BY <1>1 DEF ClientOK, Running
  <2>3. QED
    BY <1>2, <2>1, <2>2
<1>4. /\ c2.next = 1 /\ c2.queue = <<>> /\ DOMAIN c2.txn = {}
      /\ c2.count = 0
  BY <1>1 DEF ClientOK
<1>5. down2 = <<>> /\ (tk = "open" => f.saw_hello)
  <2>1. /\ down # <<Error>>
        /\ ~(tk = "open" /\ ~f.saw_hello)
    BY <1>1, FrameFields DEF Greeting
  <2>2. \E k \in 0 .. LastPage : down = <<HelloReply(k)>>
    BY <1>1, <1>2, <2>1 DEF Greeting
  <2>3. QED
    BY <1>1, <2>1, <2>2 DEF Greeting
<1>6. tk = "open" =>
        /\ up = <<>> /\ ~f.completed_hash_phase /\ f.client_seen = {}
        /\ f.pending_requests = {} /\ f.pages_transferred = 0
        /\ f.cursor = 0
  BY <1>1, <1>5 DEF Greeting, FsmOK, Shape
<1>7. DOMAIN down2 = {} /\ Len(down2) = 0 /\ DOMAIN c2.queue = {}
  BY <1>4, <1>5, NoFrames
<1>8. ClientOK(dir, tk, c2, down2, F)
  BY <1>1, <1>2, <1>3, <1>4, <1>7, LastPageAssumption DEF ClientOK, Running
<1>9. tk = "open" => Upstream(dir, f, up, 0)
  BY <1>5, <1>6 DEF Upstream
<1>10. tk = "open" => Phases(dir, f, c2, up, 0)
  BY <1>4, <1>5, <1>6 DEF Phases
<1>11. tk = "open" => InOrder(f, c2, up, down2) /\ Walked(f, c2, down2)
  <2>1. tk = "open" => InOrder(f, c2, up, down2)
    BY <1>6, <1>7 DEF InOrder
  <2>2. tk = "open" => Walked(f, c2, down2)
    <3>1. c2.count + Len(down2) = 0
      BY <1>4, <1>7
    <3>2. QED
      BY <1>6, <3>1 DEF Walked
  <2>3. QED
    BY <2>1, <2>2
<1>12. Downstream(dir, tk, c2, down2) /\ NoGap(c2, down2)
  BY <1>4, <1>7 DEF Downstream, NoGap
<1>13. Typed(dir, tk, f, c2, up, down2)
  BY <1>4, <1>5 DEF Typed
<1>14. 0 \in 0 .. LastPage /\ c2.pc # "hello"
  BY <1>4, LastPageAssumption
<1>15. QED
  BY <1>1, <1>8, <1>9, <1>10, <1>11, <1>12, <1>13, <1>14 DEF Linked

\* While it hashes, all that a client has sent is hashes.
LEMMA HashingFacts ==
  ASSUME NEW dir, NEW tk, NEW f, NEW c, NEW up, NEW down,
         Typed(dir, tk, f, c, up, down),
         NEW D, NEW F, Linked(dir, tk, f, c, up, down, D, F),
         c.pc = "hash"
  PROVE  /\ FsmOK(dir, tk, f) /\ ClientOK(dir, tk, c, down, F)
         /\ tk \in {"open", "closed"}
         /\ tk = "closed" => up = <<>>
         /\ Len(up) \in Nat /\ DOMAIN up = 1 .. Len(up)
         /\ tk = "open" =>
              /\ f.saw_hello /\ ~f.completed_hash_phase
              /\ \A i \in DOMAIN up : up[i].kind = "PageHash"
              /\ dir = "push" => f.pages_transferred = 0
              /\ \E n \in 0 .. LastPage :
                   Upstream(dir, f, up, n) /\ c.next = n + Len(up) + 1
              /\ dir = "push" => Requested(f, up, D) /\ InOrder(f, c, up, down)
              /\ dir = "pull" => Walked(f, c, down)
         /\ Downstream(dir, tk, c, down)
         /\ dir = "pull" => NoGap(c, down)
<1>1. Syncing(c)
  BY DEF Syncing
<1>2. FsmOK(dir, tk, f) /\ ClientOK(dir, tk, c, down, F)
  BY DEF Linked
<1>3. tk \in {"open", "closed"} /\ (tk = "closed" => up = <<>>)
  BY <1>2 DEF Linked, ClientOK, Typed
<1>4. Len(up) \in Nat /\ DOMAIN up = 1 .. Len(up)
  BY DEF Typed
<1>5. tk = "open" =>
        \E n \in 0 .. LastPage :
          Upstream(dir, f, up, n) /\ Phases(dir, f, c, up, n)
  BY <1>1 DEF Linked
<1>6. tk = "open" =>
        /\ f.saw_hello /\ ~f.completed_hash_phase
        /\ dir = "push" => f.pages_transferred = 0
        /\ \A i \in DOMAIN up : up[i].kind = "PageHash"
        /\ \E n \in 0 .. LastPage :
             Upstream(dir, f, up, n) /\ c.next = n + Len(up) + 1
  BY <1>5 DEF Phases
<1>7. /\ tk = "open" /\ dir = "push" =>
           Requested(f, up, D) /\ InOrder(f, c, up, down)
      /\ tk = "open" /\ dir = "pull" => Walked(f, c, down)
      /\ Downstream(dir, tk, c, down)
      /\ dir = "pull" => NoGap(c, down)
  BY <1>1 DEF Linked
<1>8. QED
  BY <1>2, <1>3, <1>4, <1>6, <1>7

\* SendHash: the next page after those claimed and those on their way.
LEMMA SendHashLinked ==
  ASSUME NEW dir, NEW tk, NEW f, NEW c, NEW up, NEW down,
         Typed(dir, tk, f, c, up, down),
         NEW D, NEW F, Linked(dir, tk, f, c, up, down, D, F),
         c.pc = "hash", c.next <= c.max, NEW h \in Hash,
         NEW c2 \in Cli, c2.next = c.next + 1, c2.pc = c.pc, c2.max = c.max,
         c2.queue = c.queue, c2.txn = c.txn, c2.count = c.count,
         NEW up2, tk = "closed" => up2 = up,
         tk # "closed" => up2 = Append(up, PageHash(c.next, h))
  PROVE  /\ Typed(dir, tk, f, c2, up2, down)
         /\ Linked(dir, tk, f, c2, up2, down, D, F)
<1>1. /\ FsmOK(dir, tk, f) /\ ClientOK(dir, tk, c, down, F)
      /\ tk \in {"open", "closed"}
      /\ tk = "closed" => up = <<>>
      /\ Len(up) \in Nat /\ DOMAIN up = 1 .. Len(up)
      /\ Downstream(dir, tk, c, down)
      /\ dir = "pull" => NoGap(c, down)
  BY HashingFacts
<1>2. c.next \in Nat /\ c.max \in Nat /\ c.next \in PageNo
  BY LastPageAssumption DEF Typed, Cli, PageNo
<1>3. PageHash(c.next, h) \in ClientFrame
  BY <1>2, ClientFrames
<1>4. Typed(dir, tk, f, c2, up2, down)
  BY <1>3, AppendFacts DEF Typed
<1>5. ClientOK(dir, tk, c2, down, F)
  <2> DEFINE k == c.next
             m == c.max
  <2>1. k \in Nat /\ m \in Nat /\ k <= m /\ c2.next = k + 1 /\ c2.max = m
    BY <1>2
  <2> HIDE DEF k, m
  <2>2. c2.next <= c2.max + 1
    BY <2>1
  <2>3. QED
    BY <1>1, <2>2 DEF ClientOK, Running
<1>6. Downstream(dir, tk, c2, down) /\ (dir = "pull" => NoGap(c2, down))
  BY <1>1 DEF Downstream, NoGap, Brought
<1>7. CASE tk = "closed"
  BY <1>1, <1>4, <1>5, <1>6, <1>7 DEF Linked, Syncing
<1>8. CASE tk = "open"
  <2>1. /\ f.saw_hello /\ ~f.completed_hash_phase
        /\ \A i \in DOMAIN up : up[i].kind = "PageHash"
        /\ dir = "push" => f.pages_transferred = 0
        /\ dir = "push" => Requested(f, up, D) /\ InOrder(f, c, up, down)
        /\ dir = "pull" => Walked(f, c, down)
    BY <1>8, HashingFacts
  <2>2. PICK n \in 0 .. LastPage :
          Upstream(dir, f, up, n) /\ c.next = n + Len(up) + 1
    BY <1>8, HashingFacts
  <2>3. /\ Len(up2) = Len(up) + 1 /\ DOMAIN up2 = 1 .. Len(up) + 1
        /\ \A i \in 1 .. Len(up) : up2[i] = up[i]
        /\ up2[Len(up) + 1].kind = "PageHash"
        /\ up2[Len(up) + 1].page_no = n + (Len(up) + 1)
    <3> DEFINE H == PageHash(c.next, h)
    <3>1. H.kind = "PageHash" /\ H.page_no = n + (Len(up) + 1)
      BY <1>1, <2>2, FrameFields
    <3> HIDE DEF H
    <3>2. up2 = Append(up, H) /\ H \in ClientFrame
      BY <1>3, <1>8 DEF H
    <3>3. QED
      BY <3>1, <3>2, AppendFacts DEF Typed
  <2>4. \A i \in DOMAIN up2 : up2[i].kind = "PageHash"
    BY <1>1, <2>1, <2>3
  <2>5. Upstream(dir, f, up2, n)
    <3>1. \A i \in DOMAIN up2 : up2[i].page_no = n + i
      BY <1>1, <2>1, <2>2, <2>3 DEF Upstream
    <3>2. f.client_seen = 1 .. n
      BY <2>2 DEF Upstream
    <3>3. \A i \in DOMAIN up2 : \A j \in 1 .. i - 1 : j \in DOMAIN up2
      BY <1>1, <2>3
    <3>4. QED
      BY <2>1, <2>4, <3>1, <3>2, <3>3 DEF Upstream, IsData
  <2>6. Phases(dir, f, c2, up2, n)
    BY <1>1, <1>2, <2>1, <2>2, <2>3, <2>4 DEF Phases
  <2>7. dir = "push" => Requested(f, up2, D)
    BY <2>1, <2>4 DEF Requested, IsData
  <2>8. dir = "push" => InOrder(f, c2, up2, down)
    BY <2>1, <2>4 DEF InOrder, IsData
  <2>9. dir = "pull" => Walked(f, c2, down)
    BY <2>1 DEF Walked, Brought
  <2>10. QED
    BY <1>1, <1>4, <1>5, <1>6, <1>8, <2>5, <2>6, <2>7, <2>8, <2>9 DEF Linked
<1>9. QED
  BY <1>1, <1>7, <1>8

\* SendComplete: the last hash has left; the phases change together.
LEMMA SendCompleteLinked ==
  ASSUME NEW dir, NEW tk, NEW f, NEW c, NEW up, NEW down,
         Typed(dir, tk, f, c, up, down),
         NEW D, NEW F, Linked(dir, tk, f, c, up, down, D, F),
         c.pc = "hash", c.next > c.max,
         NEW c2 \in Cli, c2.pc \in {"drain", "recv"},
         c2.next = c.next, c2.max = c.max,
         c2.queue = c.queue, c2.txn = c.txn, c2.count = c.count,
         NEW up2, tk = "closed" => up2 = up,
         tk # "closed" => up2 = Append(up, Complete)
  PROVE  /\ Typed(dir, tk, f, c2, up2, down)
         /\ Linked(dir, tk, f, c2, up2, down, D, F)
<1>1. /\ FsmOK(dir, tk, f) /\ ClientOK(dir, tk, c, down, F)
      /\ tk \in {"open", "closed"}
      /\ tk = "closed" => up = <<>>
      /\ Len(up) \in Nat /\ DOMAIN up = 1 .. Len(up)
      /\ Downstream(dir, tk, c, down)
      /\ dir = "pull" => NoGap(c, down)
  BY HashingFacts
<1>2. /\ c.next \in Nat /\ c.max \in Nat /\ c.next = c.max + 1
      /\ dir \in {"push", "pull"}
  BY <1>1, LastPageAssumption DEF Typed, Cli, ClientOK, Direction
<1>3. Typed(dir, tk, f, c2, up2, down)
  BY ClientFrames, AppendFacts DEF Typed
<1>4. ClientOK(dir, tk, c2, down, F)
  BY <1>1, <1>2 DEF ClientOK, Running
<1>5. Downstream(dir, tk, c2, down) /\ (dir = "pull" => NoGap(c2, down))
  BY <1>1 DEF Downstream, NoGap, Brought
<1>6. CASE tk = "closed"
  BY <1>1, <1>2, <1>3, <1>4, <1>5, <1>6 DEF Linked
<1>7. CASE tk = "open"
  <2>1. /\ f.saw_hello /\ ~f.completed_hash_phase
        /\ \A i \in DOMAIN up : up[i].kind = "PageHash"
        /\ dir = "push" => f.pages_transferred = 0
        /\ dir = "push" => Requested(f, up, D) /\ InOrder(f, c, up, down)
        /\ dir = "pull" => Walked(f, c, down)
    BY <1>7, HashingFacts
  <2>2. PICK n \in 0 .. LastPage :
          Upstream(dir, f, up, n) /\ c.next = n + Len(up) + 1
    BY <1>7, HashingFacts
  <2>3. /\ Len(up2) = Len(up) + 1 /\ DOMAIN up2 = 1 .. Len(up) + 1
        /\ \A i \in 1 .. Len(up) : up2[i] = up[i]
        /\ up2[Len(up) + 1] = Complete
        /\ up2[Len(up) + 1].kind = "Complete"
    <3>1. up2 = Append(up, Complete) /\ Complete \in ClientFrame
      BY <1>7, ClientFrames
    <3>2. Complete.kind = "Complete"
      BY FrameFields
    <3>3. QED
      BY <3>1, <3>2, AppendFacts DEF Typed
  <2>4. \A i \in DOMAIN up2 :
          /\ up2[i].kind # "Hello" /\ ~IsData(up2[i])
          /\ up2[i].kind = "PageHash" => i \in DOMAIN up
          /\ \A j \in 1 .. i - 1 : up2[j].kind = "PageHash"
    BY <1>1, <2>1, <2>3 DEF IsData
  <2>5. Upstream(dir, f, up2, n)
    BY <1>1, <2>1, <2>2, <2>3, <2>4 DEF Upstream
  <2>6. Phases(dir, f, c2, up2, n)
    <3>1. dir = "push" => c2.count = Len(up2) - (Len(up) + 1)
      BY <1>1, <2>3 DEF ClientOK, Running
    <3>2. Len(up) + 1 \in DOMAIN up2 /\ n + (Len(up) + 1) = c2.max + 1
      BY <1>1, <1>2, <2>2, <2>3
    <3>3. c2.pc # "hash"
      OBVIOUS
    <3>4. QED
      BY <2>1, <2>3, <3>1, <3>2, <3>3 DEF Phases
  <2>7. dir = "push" => Requested(f, up2, D)
    BY <2>1, <2>4 DEF Requested
  <2>8. dir = "push" => InOrder(f, c2, up2, down)
    BY <2>1, <2>4 DEF InOrder, IsData
  <2>9. dir = "pull" => Walked(f, c2, down)
    BY <2>1 DEF Walked, Brought
  <2>10. QED
    BY <1>1, <1>2, <1>3, <1>4, <1>5, <1>7, <2>5, <2>6, <2>7, <2>8, <2>9
    DEF Linked
<1>8. QED
  BY <1>1, <1>6, <1>7

\* Past the handshake, what a client receives goes by its token.
LEMMA FrameReceived ==
  ASSUME NEW dir, NEW tk, NEW f, NEW c, NEW up, NEW down,
         Typed(dir, tk, f, c, up, down),
         NEW D, NEW F, Linked(dir, tk, f, c, up, down, D, F),
         c.pc \in {"hash", "drain", "recv"}, down # <<>>
  PROVE  Head(down).kind \in {FrameOf(dir), "Error", "SyncComplete"}
<1>1. Downstream(dir, tk, c, down)
  BY DEF Linked, Syncing
<1>2. 1 \in DOMAIN down /\ Head(down) = down[1]
  BY TailFacts DEF Typed
<1>3. Error.kind = "Error"
  BY FrameFields
<1>4. QED
  BY <1>1, <1>2, <1>3 DEF Downstream, FrameOf

\* RecvRequest: the request moves from the channel to the client's queue.
LEMMA RecvRequestLinked ==
  ASSUME NEW dir, NEW tk, NEW f, NEW c, NEW up, NEW down,
         Typed(dir, tk, f, c, up, down),
         NEW D, NEW F, Linked(dir, tk, f, c, up, down, D, F),
         c.pc \in {"hash", "drain"},
         down # <<>>, Head(down).kind = "RequestPage",
         NEW c2 \in Cli, c2.queue = Append(c.queue, Head(down).page_no),
         c2.pc = c.pc, c2.max = c.max, c2.next = c.next,
         c2.txn = c.txn, c2.count = c.count,
         NEW down2, down2 = Tail(down)
  PROVE  /\ Typed(dir, tk, f, c2, up, down2)
         /\ Linked(dir, tk, f, c2, up, down2, D, F)
<1> DEFINE q == Head(down).page_no
<1>0. dir = "push"
  BY FrameReceived DEF Typed, Direction, FrameOf
<1>1. /\ FsmOK(dir, tk, f) /\ ClientOK(dir, tk, c, down, F)
      /\ Downstream(dir, tk, c, down)
      /\ tk = "open" => InOrder(f, c, up, down)
  BY <1>0 DEF Linked, Syncing
<1>2. /\ Len(down) \in Nat \ {0} /\ DOMAIN down = 1 .. Len(down)
      /\ Head(down) = down[1]
      /\ down2 \in Seq(ServerFrame) /\ Len(down2) = Len(down) - 1
      /\ DOMAIN down2 = 1 .. Len(down) - 1
      /\ \A i \in 1 .. Len(down) - 1 : down2[i] = down[i + 1]
  BY TailFacts DEF Typed
<1>3. q \in PageNo /\ 1 \in DOMAIN down /\ q = down[1].page_no
  BY <1>2, TailFacts, ServerFrames DEF Typed
<1>4. c.queue \in Seq(PageNo)
  BY DEF Typed, Cli
<1> HIDE DEF q
<1>5. /\ Len(c.queue) \in Nat /\ DOMAIN c.queue = 1 .. Len(c.queue)
      /\ DOMAIN c2.queue = 1 .. Len(c.queue) + 1
      /\ \A i \in 1 .. Len(c.queue) : c2.queue[i] = c.queue[i]
      /\ c2.queue[Len(c.queue) + 1] = q
  <2>1. c2.queue = Append(c.queue, q)
    BY DEF q
  <2>2. QED
    BY <1>3, <1>4, <2>1, AppendFacts
<1>6. \A i \in DOMAIN down2 : i + 1 \in DOMAIN down /\ down2[i] = down[i + 1]
  BY <1>2
<1>7. ClientOK(dir, tk, c2, down2, F)
  <2>1. q <= c.max
    BY <1>0, <1>1, <1>2, <1>3 DEF ClientOK, Running
  <2>2. \A i \in DOMAIN c2.queue : c2.queue[i] <= c2.max
    BY <1>0, <1>1, <1>5, <2>1 DEF ClientOK, Running
  <2>3. \A i \in DOMAIN down2 :
          down2[i].kind = "RequestPage" => down2[i].page_no <= c2.max
    BY <1>0, <1>1, <1>6 DEF ClientOK, Running
  <2>4. QED
    BY <1>0, <1>1, <2>2, <2>3 DEF ClientOK, Running
<1>8. tk = "open" => InOrder(f, c2, up, down2)
  <2> SUFFICES ASSUME tk = "open" PROVE InOrder(f, c2, up, down2)
    OBVIOUS
  <2>1. InOrder(f, c, up, down)
    BY <1>1
  <2>2. /\ q \in f.pending_requests
        /\ \A j \in DOMAIN c.queue : c.queue[j] < q
        /\ \A j \in DOMAIN up : IsData(up[j]) => up[j].page_no < q
    BY <1>3, <2>1 DEF InOrder
  <2>3. \A i \in DOMAIN c2.queue :
          /\ c2.queue[i] \in f.pending_requests
          /\ \A j \in 1 .. i - 1 : c2.queue[j] < c2.queue[i]
          /\ \A j \in DOMAIN up :
               IsData(up[j]) => up[j].page_no < c2.queue[i]
    <3>1. ASSUME NEW i \in DOMAIN c2.queue, i \in DOMAIN c.queue
          PROVE  \A j \in 1 .. i - 1 : c2.queue[j] < c2.queue[i]
      <4>1. \A j \in 1 .. i - 1 : j \in DOMAIN c.queue
        BY <1>5, <3>1
      <4>2. QED
        BY <1>5, <2>1, <3>1, <4>1 DEF InOrder
    <3>2. ASSUME NEW i \in DOMAIN c2.queue, i \notin DOMAIN c.queue
          PROVE  /\ c2.queue[i] = q
                 /\ \A j \in 1 .. i - 1 : j \in DOMAIN c.queue
      BY <1>5, <3>2
    <3>3. QED
      BY <1>5, <2>1, <2>2, <3>1, <3>2 DEF InOrder
  <2>4. \A i \in DOMAIN down2 :
          /\ down2[i].page_no \in f.pending_requests
          /\ \A j \in 1 .. i - 1 : down2[j].page_no < down2[i].page_no
          /\ \A j \in DOMAIN c2.queue : c2.queue[j] < down2[i].page_no
          /\ \A j \in DOMAIN up :
               IsData(up[j]) => up[j].page_no < down2[i].page_no
    <3> SUFFICES ASSUME NEW i \in DOMAIN down2
                 PROVE  /\ down2[i].page_no \in f.pending_requests
                        /\ \A j \in 1 .. i - 1 :
                             down2[j].page_no < down2[i].page_no
                        /\ \A j \in DOMAIN c2.queue :
                             c2.queue[j] < down2[i].page_no
                        /\ \A j \in DOMAIN up :
                             IsData(up[j]) => up[j].page_no < down2[i].page_no
      OBVIOUS
    <3>1. /\ i + 1 \in DOMAIN down /\ down2[i] = down[i + 1]
          /\ 1 \in 1 .. (i + 1) - 1
          /\ \A j \in 1 .. i - 1 :
               j + 1 \in 1 .. (i + 1) - 1 /\ down2[j] = down[j + 1]
      BY <1>2, <1>6
    <3>2. \A j \in 1 .. i - 1 : down2[j].page_no < down2[i].page_no
      BY <2>1, <3>1 DEF InOrder
    <3>3. q < down2[i].page_no
      BY <1>3, <2>1, <3>1 DEF InOrder
    <3>4. \A j \in DOMAIN c2.queue : c2.queue[j] < down2[i].page_no
      BY <1>5, <2>1, <3>1, <3>3 DEF InOrder
    <3>5. QED
      BY <2>1, <3>1, <3>2, <3>4 DEF InOrder
  <2>5. \A p \in f.pending_requests :
          \/ \E i \in DOMAIN up : IsData(up[i]) /\ up[i].page_no = p
          \/ \E i \in DOMAIN c2.queue : c2.queue[i] = p
          \/ \E i \in DOMAIN down2 : down2[i].page_no = p
    <3> SUFFICES ASSUME NEW p \in f.pending_requests
                 PROVE  \/ \E i \in DOMAIN up : IsData(up[i]) /\ up[i].page_no = p
                        \/ \E i \in DOMAIN c2.queue : c2.queue[i] = p
                        \/ \E i \in DOMAIN down2 : down2[i].page_no = p
      OBVIOUS
    <3>1. ASSUME NEW i \in DOMAIN down, down[i].page_no = p
          PROVE  \/ \E k \in DOMAIN c2.queue : c2.queue[k] = p
                 \/ \E k \in DOMAIN down2 : down2[k].page_no = p
      <4>1. CASE i = 1
        BY <1>3, <1>5, <3>1, <4>1
      <4>2. CASE i # 1
        <5>1. i - 1 \in DOMAIN down2 /\ down2[i - 1] = down[i]
          BY <1>2, <4>2
        <5>2. QED
          BY <3>1, <5>1
      <4>3. QED
        BY <4>1, <4>2
    <3>2. ASSUME NEW i \in DOMAIN c.queue, c.queue[i] = p
          PROVE  \E k \in DOMAIN c2.queue : c2.queue[k] = p
      BY <1>5, <3>2
    <3>3. QED
      BY <2>1, <3>1, <3>2 DEF InOrder
  <2>6. QED
    BY <2>3, <2>4, <2>5 DEF InOrder
<1>9. Downstream(dir, tk, c2, down2)
  <2> SUFFICES ASSUME NEW i \in DOMAIN down2
               PROVE  \/ down2[i].kind = "RequestPage"
                      \/ i = Len(down2) /\ tk = "closed" /\ down2[i] = Error
    BY <1>0 DEF Downstream
  <2>1. i + 1 \in DOMAIN down /\ down2[i] = down[i + 1] /\ i + 1 # 1
    BY <1>2
  <2>2. i + 1 = Len(down) => i = Len(down2) /\ Len(down) # 1
    BY <1>2, <2>1
  <2>3. QED
    BY <1>0, <1>1, <2>1, <2>2 DEF Downstream
<1>10. Typed(dir, tk, f, c2, up, down2)
  BY <1>2 DEF Typed
<1>11. \A n \in 0 .. LastPage :
         Phases(dir, f, c, up, n) => Phases(dir, f, c2, up, n)
  BY DEF Phases
<1>12. QED
  BY <1>0, <1>1, <1>7, <1>8, <1>9, <1>10, <1>11 DEF Linked, Syncing

\* ServePage: the bytes of the first request follow what was served before.
LEMMA ServePageLinked ==
  ASSUME NEW dir, NEW tk, NEW f, NEW c, NEW up, NEW down,
         Typed(dir, tk, f, c, up, down),
         NEW D, NEW F, Linked(dir, tk, f, c, up, down, D, F),
         c.pc = "drain", c.queue # <<>>, NEW d \in Content,
         NEW c2 \in Cli, c2.queue = Tail(c.queue), c2.count = c.count + 1,
         c2.pc = c.pc, c2.max = c.max, c2.next = c.next, c2.txn = c.txn,
         NEW up2, tk = "closed" => up2 = up,
         tk # "closed" => up2 = Append(up, PageData(Head(c.queue), d))
  PROVE  /\ Typed(dir, tk, f, c2, up2, down)
         /\ Linked(dir, tk, f, c2, up2, down, D, F)
<1> DEFINE q == Head(c.queue)
           M == PageData(q, d)
<1>1. /\ FsmOK(dir, tk, f) /\ ClientOK(dir, tk, c, down, F)
      /\ Downstream(dir, tk, c, down)
      /\ tk # "open" => up = <<>>
  BY DEF Linked, Syncing
<1>2. dir = "push" /\ tk \in {"open", "closed"}
  BY <1>1 DEF ClientOK, Typed, Direction
<1>3. /\ Len(c.queue) \in Nat \ {0} /\ DOMAIN c.queue = 1 .. Len(c.queue)
      /\ q \in PageNo /\ q = c.queue[1]
      /\ DOMAIN c2.queue = 1 .. Len(c.queue) - 1
      /\ \A i \in 1 .. Len(c.queue) - 1 : c2.queue[i] = c.queue[i + 1]
  BY TailFacts DEF Typed, Cli
<1>4. /\ M \in ClientFrame /\ IsData(M) /\ M.kind # "Hello"
      /\ M.kind # "PageHash" /\ M.page_no = q
  BY <1>3, ClientFrames, FrameFields DEF IsData
<1>5. /\ tk = "closed" => up2 = up
      /\ tk # "closed" => up2 = Append(up, M)
  OBVIOUS
<1> HIDE DEF M, q
<1>6. Typed(dir, tk, f, c2, up2, down)
  BY <1>4, <1>5, AppendFacts DEF Typed
<1>7. \A i \in DOMAIN c2.queue :
        i + 1 \in DOMAIN c.queue /\ c2.queue[i] = c.queue[i + 1]
  BY <1>3
<1>8. ClientOK(dir, tk, c2, down, F)
  BY <1>1, <1>2, <1>7 DEF ClientOK, Running
<1>9. Downstream(dir, tk, c2, down)
  BY <1>1, <1>2 DEF Downstream
<1>10. CASE tk = "closed"
  BY <1>1, <1>2, <1>5, <1>6, <1>8, <1>9, <1>10 DEF Linked
<1>11. CASE tk = "open"
  <2>1. /\ Len(up) \in Nat /\ DOMAIN up = 1 .. Len(up)
        /\ Len(up2) = Len(up) + 1 /\ DOMAIN up2 = 1 .. Len(up) + 1
        /\ \A i \in 1 .. Len(up) : up2[i] = up[i]
        /\ up2[Len(up) + 1] = M
    BY <1>4, <1>5, <1>11, AppendFacts DEF Typed
  <2>2. Requested(f, up, D) /\ InOrder(f, c, up, down)
    BY <1>2, <1>11 DEF Linked, Syncing
  <2>3. PICK n \in 0 .. LastPage :
          Upstream(dir, f, up, n) /\ Phases(dir, f, c, up, n)
    BY <1>11 DEF Linked, Syncing
  <2>4. /\ q \in f.pending_requests
        /\ \A j \in DOMAIN up : IsData(up[j]) => up[j].page_no < q
        /\ \A i \in DOMAIN c2.queue : q < c2.queue[i]
        /\ \A i \in DOMAIN down : q < down[i].page_no
    <3>1. 1 \in DOMAIN c.queue
      BY <1>3
    <3>2. \A i \in DOMAIN c2.queue : 1 \in 1 .. (i + 1) - 1
      BY <1>3
    <3>3. QED
      BY <1>3, <1>7, <2>2, <3>1, <3>2 DEF InOrder
  <2>5. /\ \A i \in DOMAIN up : i \in DOMAIN up2 /\ up2[i] = up[i]
        /\ Len(up) + 1 \in DOMAIN up2
        /\ \A i \in DOMAIN up2 :
             /\ i \in DOMAIN up \/ i = Len(up) + 1
             /\ \A j \in 1 .. i - 1 : j \in DOMAIN up
    BY <2>1
  <2>6. Upstream(dir, f, up2, n)
    <3>1. f.saw_hello
      BY <2>3 DEF Phases
    <3>2. QED
      BY <1>2, <1>4, <2>1, <2>3, <2>5, <3>1 DEF Upstream
  <2>7. \A p \in f.pending_requests : p < q =>
          \E j \in DOMAIN up : IsData(up[j]) /\ up[j].page_no = p
    <3> SUFFICES ASSUME NEW p \in f.pending_requests, p < q
                 PROVE  \E j \in DOMAIN up : IsData(up[j]) /\ up[j].page_no = p
      OBVIOUS
    <3>1. p \in Nat /\ q \in Nat
      BY <1>3 DEF Typed, Fsm, PageNo
    <3>2. ASSUME NEW i \in DOMAIN c.queue, c.queue[i] = p PROVE FALSE
      <4>1. i # 1
        BY <1>3, <3>1, <3>2
      <4>2. i - 1 \in DOMAIN c2.queue /\ c2.queue[i - 1] = c.queue[i]
        BY <1>3, <4>1
      <4>3. q < p
        BY <2>4, <3>2, <4>2
      <4>4. QED
        BY <3>1, <4>3
    <3>3. ASSUME NEW i \in DOMAIN down, down[i].page_no = p PROVE FALSE
      <4>1. q < p
        BY <2>4, <3>3
      <4>2. QED
        BY <3>1, <4>1
    <3>4. QED
      BY <2>2, <3>2, <3>3 DEF InOrder
  <2>8. Requested(f, up2, D)
    <3>1. ASSUME NEW i \in DOMAIN up2, IsData(up2[i])
          PROVE  /\ up2[i].page_no \in f.pending_requests
                 /\ \A j \in 1 .. i - 1 :
                      IsData(up2[j]) => up2[j].page_no < up2[i].page_no
                 /\ \A p \in f.pending_requests : p < up2[i].page_no =>
                      \E j \in 1 .. i - 1 :
                        IsData(up2[j]) /\ up2[j].page_no = p
      <4>1. CASE i \in DOMAIN up
        <5>1. up2[i] = up[i] /\ (\A j \in 1 .. i - 1 : up2[j] = up[j])
          BY <2>5, <4>1
        <5>2. /\ up[i].page_no \in f.pending_requests
              /\ \A j \in 1 .. i - 1 :
                   IsData(up[j]) => up[j].page_no < up[i].page_no
              /\ \A p \in f.pending_requests : p < up[i].page_no =>
                   \E j \in 1 .. i - 1 : IsData(up[j]) /\ up[j].page_no = p
          BY <2>2, <3>1, <4>1, <5>1 DEF Requested
        <5>3. QED
          BY <5>1, <5>2
      <4>2. CASE i = Len(up) + 1
        <5>1. 1 .. i - 1 = DOMAIN up
          BY <2>1, <4>2
        <5>2. QED
          BY <1>4, <2>1, <2>4, <2>5, <2>7, <4>2, <5>1
      <4>3. QED
        BY <2>5, <4>1, <4>2
    <3>2. QED
      BY <2>2, <3>1 DEF Requested
  <2>9. InOrder(f, c2, up2, down)
    <3>1. \A i \in DOMAIN c2.queue :
            /\ c2.queue[i] \in f.pending_requests
            /\ \A j \in 1 .. i - 1 : c2.queue[j] < c2.queue[i]
            /\ \A j \in DOMAIN up2 :
                 IsData(up2[j]) => up2[j].page_no < c2.queue[i]
      <4> SUFFICES ASSUME NEW i \in DOMAIN c2.queue
                   PROVE  /\ c2.queue[i] \in f.pending_requests
                          /\ \A j \in 1 .. i - 1 : c2.queue[j] < c2.queue[i]
                          /\ \A j \in DOMAIN up2 :
                               IsData(up2[j]) => up2[j].page_no < c2.queue[i]
        OBVIOUS
      <4>1. \A j \in 1 .. i - 1 :
              j + 1 \in 1 .. (i + 1) - 1 /\ c2.queue[j] = c.queue[j + 1]
        BY <1>3
      <4>2. QED
        BY <1>4, <1>7, <2>1, <2>2, <2>4, <2>5, <4>1 DEF InOrder
    <3>2. \A i \in DOMAIN down :
            /\ down[i].page_no \in f.pending_requests
            /\ \A j \in 1 .. i - 1 : down[j].page_no < down[i].page_no
            /\ \A j \in DOMAIN c2.queue : c2.queue[j] < down[i].page_no
            /\ \A j \in DOMAIN up2 :
                 IsData(up2[j]) => up2[j].page_no < down[i].page_no
      BY <1>4, <1>7, <2>1, <2>2, <2>4, <2>5 DEF InOrder
    <3>3. \A p \in f.pending_requests :
            \/ \E i \in DOMAIN up2 : IsData(up2[i]) /\ up2[i].page_no = p
            \/ \E i \in DOMAIN c2.queue : c2.queue[i] = p
            \/ \E i \in DOMAIN down : down[i].page_no = p
      <4>1. ASSUME NEW i \in DOMAIN c.queue
            PROVE  \/ \E k \in DOMAIN up2 :
                        IsData(up2[k]) /\ up2[k].page_no = c.queue[i]
                   \/ \E k \in DOMAIN c2.queue : c2.queue[k] = c.queue[i]
        <5>1. CASE i = 1
          BY <1>3, <1>4, <2>1, <2>5, <5>1
        <5>2. CASE i # 1
          <6>1. i - 1 \in DOMAIN c2.queue /\ c2.queue[i - 1] = c.queue[i]
            BY <1>3, <5>2
          <6>2. QED
            BY <6>1
        <5>3. QED
          BY <5>1, <5>2
      <4>2. ASSUME NEW i \in DOMAIN up, IsData(up[i])
            PROVE  \E k \in DOMAIN up2 :
                     IsData(up2[k]) /\ up2[k].page_no = up[i].page_no
        BY <2>5, <4>2
      <4>3. \A p \in f.pending_requests :
              \/ \E i \in DOMAIN up : IsData(up[i]) /\ up[i].page_no = p
              \/ \E i \in DOMAIN c.queue : c.queue[i] = p
              \/ \E i \in DOMAIN down : down[i].page_no = p
        BY <2>2 DEF InOrder
      <4>4. QED
        BY <4>1, <4>2, <4>3
    <3>4. QED
      BY <3>1, <3>2, <3>3 DEF InOrder
  <2>10. Phases(dir, f, c2, up2, n)
    <3>1. c.count \in Nat /\ f.pages_transferred \in Nat
      BY DEF Typed, Cli, Fsm
    <3>2. ~f.completed_hash_phase =>
            \E i \in DOMAIN up2 :
              up2[i] = Complete /\ n + i = c2.max + 1
                /\ c2.count = Len(up2) - i
      <4> SUFFICES ASSUME ~f.completed_hash_phase
                   PROVE  \E i \in DOMAIN up2 :
                            up2[i] = Complete /\ n + i = c2.max + 1
                              /\ c2.count = Len(up2) - i
        OBVIOUS
      <4>1. PICK i \in DOMAIN up :
              up[i] = Complete /\ n + i = c.max + 1 /\ c.count = Len(up) - i
        BY <1>2, <2>3 DEF Phases
      <4>2. c2.count = Len(up2) - i
        BY <2>1, <3>1, <4>1
      <4>3. QED
        BY <2>5, <4>1, <4>2
    <3>3. f.completed_hash_phase =>
            n = c2.max /\ c2.count = f.pages_transferred + Len(up2)
      <4> SUFFICES ASSUME f.completed_hash_phase
                   PROVE  /\ n = c2.max
                          /\ c2.count = f.pages_transferred + Len(up2)
        OBVIOUS
      <4>1. n = c2.max /\ c.count = f.pages_transferred + Len(up)
        BY <1>2, <2>3 DEF Phases
      <4>2. c2.count = f.pages_transferred + Len(up2)
        <5> DEFINE a == c.count
                   b == f.pages_transferred
                   k == Len(up)
        <5>1. /\ a \in Nat /\ b \in Nat /\ k \in Nat /\ a = b + k
              /\ c2.count = a + 1 /\ Len(up2) = k + 1
          BY <2>1, <3>1, <4>1
        <5> HIDE DEF a, b, k
        <5>2. c2.count = b + Len(up2)
          BY <5>1
        <5>3. QED
          BY <5>2 DEF b
      <4>3. QED
        BY <4>1, <4>2
    <3>4. QED
      BY <2>3, <3>2, <3>3 DEF Phases
  <2>11. QED
    BY <1>1, <1>2, <1>6, <1>8, <1>9, <1>11, <2>6, <2>8, <2>9, <2>10
    DEF Linked
<1>12. QED
  BY <1>2, <1>10, <1>11

\* RecvPage: the page moves from the channel into the transaction.
LEMMA RecvPageLinked ==
  ASSUME NEW dir, NEW tk, NEW f, NEW c, NEW up, NEW down,
         Typed(dir, tk, f, c, up, down),
         NEW D, NEW F, Linked(dir, tk, f, c, up, down, D, F),
         c.pc = "recv", down # <<>>, Head(down).kind = "PageData",
         NEW c2 \in Cli,
         DOMAIN c2.txn = DOMAIN c.txn \cup {Head(down).page_no},
         c2.count = c.count + 1,
         c2.pc = c.pc, c2.max = c.max, c2.next = c.next, c2.queue = c.queue,
         NEW down2, down2 = Tail(down)
  PROVE  /\ Typed(dir, tk, f, c2, up, down2)
         /\ Linked(dir, tk, f, c2, up, down2, D, F)
<1> DEFINE q == Head(down).page_no
<1>1. /\ FsmOK(dir, tk, f) /\ ClientOK(dir, tk, c, down, F)
      /\ Downstream(dir, tk, c, down)
      /\ tk # "open" => up = <<>>
  BY DEF Linked, Syncing
<1>2. dir = "pull" /\ c.count \in Nat
  BY FrameReceived DEF Typed, Direction, FrameOf, Cli
<1>3. /\ Len(down) \in Nat \ {0} /\ DOMAIN down = 1 .. Len(down)
      /\ Head(down) = down[1] /\ down[1].page_no = q /\ IsData(down[1])
      /\ down2 \in Seq(ServerFrame) /\ Len(down2) = Len(down) - 1
      /\ DOMAIN down2 = 1 .. Len(down) - 1
      /\ \A i \in 1 .. Len(down) - 1 : down2[i] = down[i + 1]
  BY TailFacts DEF Typed, IsData
<1>4. DOMAIN c2.txn = DOMAIN c.txn \cup {q}
  OBVIOUS
<1> HIDE DEF q
<1>5. \A i \in DOMAIN down2 : i + 1 \in DOMAIN down /\ down2[i] = down[i + 1]
  BY <1>3
<1>6. NoGap(c, down)
  BY <1>2 DEF Linked, Syncing
<1>7. ASSUME NEW k \in 0 .. Len(down2), NEW p, Brought(c, down, k + 1, p)
      PROVE  Brought(c2, down2, k, p)
  <2>1. CASE p \in DOMAIN c.txn
    BY <1>4, <2>1 DEF Brought
  <2>2. CASE \E j \in 1 .. k + 1 : IsData(down[j]) /\ down[j].page_no = p
    <3>1. PICK j \in 1 .. k + 1 : IsData(down[j]) /\ down[j].page_no = p
      BY <2>2
    <3>2. CASE j = 1
      BY <1>3, <1>4, <3>1, <3>2 DEF Brought
    <3>3. CASE j # 1
      <4>1. j - 1 \in 1 .. k /\ down2[j - 1] = down[j]
        BY <1>3, <3>3
      <4>2. QED
        BY <3>1, <4>1 DEF Brought
    <3>4. QED
      BY <3>2, <3>3
  <2>3. QED
    BY <1>7, <2>1, <2>2 DEF Brought
<1>8. ClientOK(dir, tk, c2, down2, F)
  BY <1>1, <1>2 DEF ClientOK, Running
<1>9. Downstream(dir, tk, c2, down2)
  <2> SUFFICES ASSUME NEW i \in DOMAIN down2
               PROVE  \/ down2[i].kind = "PageData"
                      \/ i = Len(down2) /\ tk = "closed" /\ down2[i] = Error
                      \/ /\ i = Len(down2) /\ tk = "closed"
                         /\ down2[i].kind = "SyncComplete"
                         /\ down2[i].pages_transferred + 1
                              = c2.count + Len(down2)
    BY <1>2 DEF Downstream
  <2>1. /\ i + 1 \in DOMAIN down /\ down2[i] = down[i + 1]
        /\ i + 1 = Len(down) => i = Len(down2)
        /\ c2.count + Len(down2) = c.count + Len(down)
    BY <1>2, <1>3
  <2>2. QED
    BY <1>1, <1>2, <2>1 DEF Downstream
<1>10. NoGap(c2, down2)
  <2>1. \A p : Brought(c, down, 0, p) => p \in DOMAIN c.txn
    BY DEF Brought
  <2>2. \A p \in c.max + 1 .. q - 1 : p \in DOMAIN c2.txn
    <3>1. 1 \in DOMAIN down /\ 1 - 1 = 0
      BY <1>3
    <3>2. \A p \in c.max + 1 .. q - 1 : Brought(c, down, 0, p)
      BY <1>3, <1>6, <3>1 DEF NoGap
    <3>3. QED
      BY <1>4, <2>1, <3>2
  <2>3. ASSUME NEW i \in DOMAIN down2, IsData(down2[i]),
               NEW p \in c.max + 1 .. down2[i].page_no - 1
        PROVE  Brought(c2, down2, i - 1, p)
    <3>1. i + 1 \in DOMAIN down /\ down2[i] = down[i + 1]
      BY <1>5
    <3>2. Brought(c, down, (i + 1) - 1, p)
      BY <1>6, <2>3, <3>1 DEF NoGap
    <3>3. i - 1 \in 0 .. Len(down2) /\ (i + 1) - 1 = (i - 1) + 1
      BY <1>3
    <3>4. QED
      BY <1>7, <3>2, <3>3
  <2>4. \A r \in DOMAIN c2.txn : \A p \in c.max + 1 .. r - 1 :
          p \in DOMAIN c2.txn
    BY <1>4, <1>6, <2>2 DEF NoGap
  <2>5. QED
    BY <2>3, <2>4 DEF NoGap
<1>11. tk = "open" => Walked(f, c2, down2)
  <2> SUFFICES ASSUME tk = "open" PROVE Walked(f, c2, down2)
    OBVIOUS
  <2>1. Walked(f, c, down)
    BY <1>2 DEF Linked, Syncing
  <2>2. f.pages_transferred = c2.count + Len(down2)
    BY <1>2, <1>3, <2>1 DEF Walked
  <2>3. Len(down2) \in 0 .. Len(down2) /\ Len(down) = Len(down2) + 1
    BY <1>3
  <2>4. f.cursor # 0 =>
          \A p \in c2.max + 1 .. f.cursor - 1 :
            Brought(c2, down2, Len(down2), p)
    BY <1>7, <2>1, <2>3 DEF Walked
  <2>5. QED
    BY <2>2, <2>4 DEF Walked
<1>12. Typed(dir, tk, f, c2, up, down2)
  BY <1>3 DEF Typed
<1>13. \A n \in 0 .. LastPage :
         Phases(dir, f, c, up, n) => Phases(dir, f, c2, up, n)
  BY <1>2 DEF Phases
<1>14. dir # "push" /\ Syncing(c) /\ c2.pc # "hello"
  BY <1>2 DEF Syncing
<1>15. QED
  BY <1>1, <1>8, <1>9, <1>10, <1>11, <1>12, <1>13, <1>14 DEF Linked

\* A client ends: what it had received is gone, and of what it had sent a
\* suffix may be.
LEMMA ClientGoneLinked ==
  ASSUME NEW dir, NEW tk, NEW f, NEW c, NEW up, NEW down,
         Typed(dir, tk, f, c, up, down),
         NEW D, NEW F, Linked(dir, tk, f, c, up, down, D, F),
         c.pc # "idle", NEW pc \in {"done", "failed"},
         NEW up2 \in Seq(ClientFrame), Len(up2) <= Len(up),
         \A i \in 1 .. Len(up2) : up2[i] = up[i]
  PROVE  /\ Typed(dir, tk, f, Exit(pc), up2, <<>>)
         /\ Linked(dir, tk, f, Exit(pc), up2, <<>>, D, F)
<1>1. FsmOK(dir, tk, f) /\ ClientOK(dir, tk, c, down, F)
  BY DEF Linked
<1>2. Exit(pc) \in Cli /\ Exit(pc).pc = pc
  BY ExitType DEF Exit
<1>3. /\ Len(up) \in Nat /\ Len(up2) \in Nat
      /\ DOMAIN up = 1 .. Len(up) /\ DOMAIN up2 = 1 .. Len(up2)
  BY DEF Typed
<1>4. \A i \in DOMAIN up2 :
        /\ i \in DOMAIN up /\ up2[i] = up[i]
        /\ \A j \in 1 .. i - 1 : up2[j] = up[j]
  BY <1>3
<1>5. Typed(dir, tk, f, Exit(pc), up2, <<>>)
  BY <1>2, <1>3 DEF Typed
<1>6. ClientOK(dir, tk, Exit(pc), <<>>, F)
  BY <1>1, <1>2 DEF ClientOK, Running, Exit
<1>7. tk # "open" => up2 = <<>>
  <2>1. tk # "open" => up = <<>>
    BY DEF Linked
  <2>2. up = <<>> => up2 = <<>>
    BY <1>3, NoFrames, EmptySeq
  <2>3. QED
    BY <2>1, <2>2
<1>8. ASSUME tk = "open"
      PROVE  \E k \in 0 .. LastPage : Upstream(dir, f, up2, k)
  <2>1. PICK k \in 0 .. LastPage : Upstream(dir, f, up, k)
    BY <1>8 DEF Linked
  <2>2. Upstream(dir, f, up2, k)
    BY <1>4, <2>1 DEF Upstream
  <2>3. QED
    BY <2>2
<1>9. tk = "open" /\ dir = "push" => Requested(f, up2, D)
  <2> SUFFICES ASSUME tk = "open", dir = "push" PROVE Requested(f, up2, D)
    OBVIOUS
  <2>1. Requested(f, up, D)
    BY DEF Linked
  <2>2. ASSUME NEW i \in DOMAIN up2, IsData(up2[i])
        PROVE  /\ up2[i].page_no \in f.pending_requests
               /\ \A j \in 1 .. i - 1 :
                    IsData(up2[j]) => up2[j].page_no < up2[i].page_no
               /\ \A p \in f.pending_requests : p < up2[i].page_no =>
                    \E j \in 1 .. i - 1 : IsData(up2[j]) /\ up2[j].page_no = p
    <3>1. /\ up[i].page_no \in f.pending_requests
          /\ \A j \in 1 .. i - 1 :
               IsData(up[j]) => up[j].page_no < up[i].page_no
          /\ \A p \in f.pending_requests : p < up[i].page_no =>
               \E j \in 1 .. i - 1 : IsData(up[j]) /\ up[j].page_no = p
      BY <1>4, <2>1, <2>2 DEF Requested
    <3>2. QED
      BY <1>4, <3>1
  <2>3. QED
    BY <2>1, <2>2 DEF Requested
<1>10. QED
  BY <1>1, <1>2, <1>5, <1>6, <1>7, <1>8, <1>9 DEF Linked, Syncing

\* RecvSyncComplete: it is the last frame, of a closed task; and the pages a
\* pull then commits leave no hole behind them.
LEMMA CommitFacts ==
  ASSUME NEW dir, NEW tk, NEW f, NEW c, NEW up, NEW down,
         Typed(dir, tk, f, c, up, down),
         NEW D, NEW F \in SUBSET PageNo, IsPrefix1(F),
         Linked(dir, tk, f, c, up, down, D, F),
         c.pc \in {"drain", "recv"},
         down # <<>>, Head(down).kind = "SyncComplete"
  PROVE  /\ tk = "closed" /\ Tail(down) = <<>>
         /\ Head(down).pages_transferred = c.count
         /\ IsPrefix1(F \cup DOMAIN c.txn)
<1>1. /\ ClientOK(dir, tk, c, down, F)
      /\ Downstream(dir, tk, c, down)
      /\ dir = "pull" => NoGap(c, down)
  BY DEF Linked, Syncing
<1>2. /\ c.count \in Nat /\ c.max \in 0 .. LastPage /\ dir \in {"push", "pull"}
      /\ DOMAIN c.txn \in SUBSET PageNo
  BY DomainPages DEF Typed, Cli, Direction
<1>3. /\ Len(down) \in Nat \ {0} /\ 1 \in DOMAIN down /\ Head(down) = down[1]
      /\ Tail(down) \in Seq(ServerFrame) /\ Len(Tail(down)) = Len(down) - 1
      /\ Head(down) \in ServerFrame
  BY TailFacts DEF Typed
<1>4. /\ 1 = Len(down) /\ tk = "closed"
      /\ dir = "push" => down[1].pages_transferred = c.count
      /\ dir = "pull" => down[1].pages_transferred + 1 = c.count + Len(down)
  <2>1. Error.kind = "Error"
    BY FrameFields
  <2>2. QED
    BY <1>1, <1>2, <1>3, <2>1 DEF Downstream
<1>5. Tail(down) = <<>>
  <2> DEFINE rest == Tail(down)
  <2>1. rest \in Seq(ServerFrame) /\ Len(rest) = Len(down) - 1
    BY <1>3
  <2>2. Len(down) - 1 = 0
    BY <1>4
  <2> HIDE DEF rest
  <2>3. rest = <<>>
    BY <2>1, <2>2, EmptySeq
  <2>4. QED
    BY <2>3 DEF rest
<1>6. Head(down).pages_transferred = c.count
  <2> DEFINE k == Head(down).pages_transferred
  <2>1. k \in Nat /\ down[1].pages_transferred = k
    BY <1>3, ServerFrames
  <2>2. dir = "push" => k = c.count
    BY <1>4, <2>1
  <2>3. dir = "pull" => k + 1 = c.count + 1
    BY <1>4, <2>1
  <2> HIDE DEF k
  <2>4. k = c.count
    BY <1>2, <2>1, <2>2, <2>3
  <2>5. QED
    BY <2>4 DEF k
<1>7. IsPrefix1(F \cup DOMAIN c.txn)
  <2>1. CASE dir = "push"
    <3>1. F \cup DOMAIN c.txn = F
      BY <1>1, <2>1 DEF ClientOK, Running
    <3>2. QED
      BY <3>1
  <2>2. CASE dir = "pull"
    <3>1. \A q \in F : \A p \in 1 .. q - 1 : p \in F
      <4>1. Cardinality(F) \in 0 .. LastPage /\ F = 1 .. Cardinality(F)
        BY PrefixInterval
      <4>2. QED
        BY <4>1
    <3>2. 1 .. c.max \subseteq F
      BY <1>1 DEF ClientOK, Running
    <3>3. \A q \in DOMAIN c.txn : \A p \in c.max + 1 .. q - 1 :
            p \in DOMAIN c.txn
      BY <1>1, <2>2 DEF NoGap
    <3>4. ASSUME NEW q \in DOMAIN c.txn, NEW p \in 1 .. q - 1
          PROVE  p \in F \cup DOMAIN c.txn
      <4>1. q \in Nat
        BY <1>2 DEF PageNo
      <4>2. p \in 1 .. c.max \/ p \in c.max + 1 .. q - 1
        BY <1>2, <4>1
      <4>3. QED
        BY <3>2, <3>3, <4>2
    <3>5. F \cup DOMAIN c.txn \in SUBSET PageNo
      BY <1>2
    <3>6. \A q \in F \cup DOMAIN c.txn : \A p \in 1 .. q - 1 :
            p \in F \cup DOMAIN c.txn
      BY <3>1, <3>4
    <3>7. QED
      BY <3>5, <3>6, DownwardClosed
  <2>3. QED
    BY <1>2, <2>1, <2>2
<1>8. QED
  BY <1>4, <1>5, <1>6, <1>7

-----------------------------------------------------------------------------
(* What a handler does, as far as a session can tell.  An outcome that is  *)
(* not Ok closes the task, and only a row it stored outlives it.           *)

Failed(f, st, o) ==
  o.res # "ok" /\ o.pages = st /\ o.fsm.rest = f.rest /\ o.out = <<>>

Succeeded(g, st, out, o) ==
  o.res = "ok" /\ o.pages = st /\ o.fsm = g /\ o.out = out

\* The gate found shut, or passed with the last frame.
Gated(g, st, o) ==
  \/ ~MayComplete(g) /\ Succeeded(g, st, <<>>, o)
  \/ /\ MayComplete(g) /\ o.res = "ok" /\ o.pages = st
     /\ o.fsm.rest = g.rest /\ o.fsm.emitted_complete
     /\ o.out = <<SyncComplete(g.pages_transferred)>>

\* What the frames between Hello and Complete leave as it is.
SamePhase(f, g) ==
  /\ g \in Fsm /\ g.direction = f.direction /\ g.saw_hello = f.saw_hello
  /\ g.completed_hash_phase = f.completed_hash_phase
  /\ g.emitted_complete = f.emitted_complete
  /\ g.server_max_page = f.server_max_page
  /\ g.rest = f.rest /\ g.cursor = f.cursor

\* What the others leave.
SamePages(f, g) ==
  /\ g \in Fsm /\ g.direction = f.direction
  /\ g.client_seen = f.client_seen
  /\ g.pending_requests = f.pending_requests
  /\ g.rest = f.rest

Greeted(f, st, o) ==
  \E g : \E m \in 0 .. LastPage :
    /\ SamePages(f, g) /\ g.pages_transferred = f.pages_transferred
    /\ g.saw_hello /\ g.completed_hash_phase = f.completed_hash_phase
    /\ Succeeded(g, st, <<HelloReply(m)>>, o)

\* Page p is claimed: it has a row, is requested, or is sent.
Claimed(f, st, p, o) ==
  \E g :
    /\ SamePhase(f, g) /\ g.client_seen = f.client_seen \cup {p}
    /\ \/ /\ Succeeded(g, st, <<>>, o)
          /\ g.pending_requests = f.pending_requests
          /\ g.pages_transferred = f.pages_transferred
          /\ f.direction = "push" => p \in DOMAIN st
       \/ /\ f.direction = "push" /\ Succeeded(g, st, <<RequestPage(p)>>, o)
          /\ g.pending_requests = f.pending_requests \cup {p}
          /\ g.pages_transferred = f.pages_transferred
       \/ /\ f.direction = "pull" /\ p \in DOMAIN st
          /\ Succeeded(g, st, <<PageData(p, st[p].data)>>, o)
          /\ g.pending_requests = f.pending_requests
          /\ g.pages_transferred = f.pages_transferred + 1

\* Page p, with a row in tt, is no longer waited for.
Stored(f, tt, p, o) ==
  \E g :
    /\ SamePhase(f, g) /\ g.client_seen = f.client_seen
    /\ g.pending_requests = f.pending_requests \ {p}
    /\ g.pages_transferred = f.pages_transferred + 1
    /\ Gated(g, tt, o)

\* The hash phase is over; a pull may have a walk to do.
Hashed(f, st, o) ==
  \E g :
    /\ SamePages(f, g) /\ g.pages_transferred = f.pages_transferred
    /\ g.saw_hello = f.saw_hello /\ g.completed_hash_phase
    /\ g.emitted_complete = f.emitted_complete
    /\ \/ g.cursor = f.cursor /\ Gated(g, st, o)
       \/ g.direction = "pull" /\ g.cursor = 1 /\ Succeeded(g, st, <<>>, o)

\* The walk sends its next page, or ends at the gate.
Walks(f, st, o) ==
  \E g :
    /\ SamePages(f, g) /\ g.saw_hello = f.saw_hello
    /\ g.completed_hash_phase = f.completed_hash_phase
    /\ g.emitted_complete = f.emitted_complete
    /\ \/ /\ Unclaimed(f, st) = {} /\ g.cursor = 0
          /\ g.pages_transferred = f.pages_transferred
          /\ Gated(g, st, o)
       \/ \E p \in Unclaimed(f, st) :
            /\ \A q \in Unclaimed(f, st) : p <= q
            /\ g.cursor = p + 1
            /\ g.pages_transferred = f.pages_transferred + 1
            /\ Succeeded(g, st, <<PageData(p, st[p].data)>>, o)

LEMMA OutcomeFields ==
  ASSUME NEW f, NEW st, NEW out
  PROVE  /\ Succeeded(f, st, out, Ok(f, st, out))
         /\ Failed(f, st, Err(f, st)) /\ Failed(f, st, SendFailed(f, st))
BY DEF Ok, Err, SendFailed, Outcome, Succeeded, Failed

LEMMA EmitEffect ==
  ASSUME NEW f, NEW st, NEW m, NEW o \in Emit(f, st, m)
  PROVE  Failed(f, st, o) \/ Succeeded(f, st, <<m>>, o)
BY OutcomeFields DEF Emit

LEMMA GateEffect ==
  ASSUME NEW f \in Fsm, NEW st, NEW o \in maybe_emit_complete(f, st)
  PROVE  Failed(f, st, o) \/ Gated(f, st, o)
<1> DEFINE g == [f EXCEPT !.emitted_complete = TRUE]
           M == SyncComplete(f.pages_transferred)
<1>1. g.rest = f.rest /\ g.emitted_complete
  BY DEF Fsm
<1>2. \/ ~MayComplete(f) /\ o = Ok(f, st, <<>>)
      \/ MayComplete(f) /\ o = Ok(g, st, <<M>>)
      \/ o = SendFailed(f, st)
  BY DEF maybe_emit_complete
<1> HIDE DEF g, M
<1>3. CASE MayComplete(f) /\ o = Ok(g, st, <<M>>)
  <2>1. Succeeded(g, st, <<M>>, o)
    BY <1>3, OutcomeFields
  <2>2. QED
    BY <1>1, <1>3, <2>1 DEF Succeeded, Gated, M
<1>4. QED
  BY <1>2, <1>3, OutcomeFields DEF Gated

LEMMA FailedFrom ==
  ASSUME NEW f, NEW g, g.rest = f.rest, NEW st, NEW o, Failed(g, st, o)
  PROVE  Failed(f, st, o)
BY DEF Failed

LEMMA HelloEffect ==
  ASSUME NEW f \in Fsm, NEW st, NEW msg, NEW o \in handle_hello(f, st, msg)
  PROVE  Failed(f, st, o) \/ Greeted(f, st, o)
<1> DEFINE f1   == [f EXCEPT !.saw_hello = TRUE]
           g(m) == [f1 EXCEPT !.server_max_page = m]
           R == Failed(f, st, o) \/ Greeted(f, st, o)
<1>1. f1.rest = f.rest
  BY DEF Fsm
<1>2. ASSUME o = Err(f, st) PROVE R
  BY <1>2, OutcomeFields
<1>3. ASSUME o = Err(f1, st) PROVE R
  <2> HIDE DEF f1
  <2>1. Failed(f1, st, o)
    BY <1>3, OutcomeFields
  <2>2. QED
    BY <1>1, <2>1, FailedFrom
<1>4. ASSUME NEW m \in 0 .. LastPage, o \in Emit(g(m), st, HelloReply(m))
      PROVE  R
  <2>1. /\ SamePages(f, g(m)) /\ g(m).pages_transferred = f.pages_transferred
        /\ g(m).saw_hello
        /\ g(m).completed_hash_phase = f.completed_hash_phase
    BY DEF Fsm, SamePages
  <2> HIDE DEF g
  <2>2. Failed(g(m), st, o) \/ Succeeded(g(m), st, <<HelloReply(m)>>, o)
    BY <1>4, EmitEffect
  <2>3. Failed(g(m), st, o) => Failed(f, st, o)
    BY <2>1, FailedFrom DEF SamePages
  <2>4. QED
    BY <2>1, <2>2, <2>3 DEF Greeted
<1> HIDE DEF R
<1>5. R
  BY <1>2, <1>3, <1>4, ZenonT(60) DEF handle_hello
<1>6. QED
  BY <1>5 DEF R

LEMMA PageHashEffect ==
  ASSUME NEW f \in Fsm, NEW st, NEW msg, msg.page_no \in PageNo,
         NEW o \in handle_page_hash(f, st, msg)
  PROVE  Failed(f, st, o) \/ Claimed(f, st, msg.page_no, o)
<1> DEFINE p  == msg.page_no
           f1 == [f EXCEPT !.client_seen = @ \cup {p}]
           f2 == [f1 EXCEPT !.pending_requests = @ \cup {p}]
           n  == f.pages_transferred + 1
           f3 == [f1 EXCEPT !.pages_transferred = n]
<1>1. /\ SamePhase(f, f1) /\ f1.client_seen = f.client_seen \cup {p}
      /\ f1.pending_requests = f.pending_requests
      /\ f1.pages_transferred = f.pages_transferred
  BY DEF Fsm, SamePhase
<1>2. /\ SamePhase(f, f2) /\ f2.client_seen = f.client_seen \cup {p}
      /\ f2.pending_requests = f.pending_requests \cup {p}
      /\ f2.pages_transferred = f.pages_transferred
  BY DEF Fsm, SamePhase
<1>3. /\ SamePhase(f, f3) /\ f3.client_seen = f.client_seen \cup {p}
      /\ f3.pending_requests = f.pending_requests
      /\ f3.pages_transferred = f.pages_transferred + 1
  <2>1. n \in Nat
    BY DEF Fsm
  <2> HIDE DEF n
  <2>2. /\ SamePhase(f, f3) /\ f3.client_seen = f.client_seen \cup {p}
        /\ f3.pending_requests = f.pending_requests
        /\ f3.pages_transferred = n
    BY <2>1 DEF Fsm, SamePhase
  <2>3. QED
    BY <2>2 DEF n
<1>4. f1.pages_transferred + 1 = n
  BY <1>1
<1>5. \/ o = Err(f1, st)
      \/ /\ o = Ok(f1, st, <<>>)
         /\ f.direction = "push" => get_page_hash_is(st, p, msg.hash)
      \/ f.direction = "push" /\ o \in Emit(f2, st, RequestPage(p))
      \/ /\ f.direction = "pull" /\ p \in DOMAIN st
         /\ o \in Emit(f3, st, PageData(p, st[p].data))
  BY <1>4 DEF handle_page_hash
<1> HIDE DEF p, f1, f2, f3, n
<1>6. CASE o = Err(f1, st)
  <2>1. Failed(f1, st, o)
    BY <1>6, OutcomeFields
  <2>2. QED
    BY <1>1, <2>1, FailedFrom DEF SamePhase
<1>7. CASE /\ o = Ok(f1, st, <<>>)
           /\ f.direction = "push" => get_page_hash_is(st, p, msg.hash)
  <2>1. Succeeded(f1, st, <<>>, o)
    BY <1>7, OutcomeFields
  <2>2. Claimed(f, st, p, o)
    BY <1>1, <1>7, <2>1 DEF Claimed, get_page_hash_is
  <2>3. QED
    BY <2>2 DEF p
<1>8. CASE f.direction = "push" /\ o \in Emit(f2, st, RequestPage(p))
  <2>1. Failed(f2, st, o) \/ Succeeded(f2, st, <<RequestPage(p)>>, o)
    BY <1>8, EmitEffect
  <2>2. Failed(f2, st, o) => Failed(f, st, o)
    BY <1>2, FailedFrom DEF SamePhase
  <2>3. Succeeded(f2, st, <<RequestPage(p)>>, o) => Claimed(f, st, p, o)
    BY <1>2, <1>8 DEF Claimed
  <2>4. QED
    BY <2>1, <2>2, <2>3 DEF p
<1>9. CASE /\ f.direction = "pull" /\ p \in DOMAIN st
           /\ o \in Emit(f3, st, PageData(p, st[p].data))
  <2>1. \/ Failed(f3, st, o)
        \/ Succeeded(f3, st, <<PageData(p, st[p].data)>>, o)
    BY <1>9, EmitEffect
  <2>2. Failed(f3, st, o) => Failed(f, st, o)
    BY <1>3, FailedFrom DEF SamePhase
  <2>3. Succeeded(f3, st, <<PageData(p, st[p].data)>>, o)
          => Claimed(f, st, p, o)
    BY <1>3, <1>9 DEF Claimed
  <2>4. QED
    BY <2>1, <2>2, <2>3 DEF p
<1>10. QED
  BY <1>5, <1>6, <1>7, <1>8, <1>9

LEMMA PageDataEffect ==
  ASSUME NEW f \in Fsm, NEW st, NEW entry,
         NEW tt, tt = put_page(st, entry.page_no, entry.data,
                               page_hash(entry.data)),
         NEW o \in handle_page_data(f, st, entry)
  PROVE  \/ Failed(f, st, o) \/ Failed(f, tt, o)
         \/ Stored(f, tt, entry.page_no, o)
<1> DEFINE p  == entry.page_no
           f1 == [f EXCEPT !.pending_requests = @ \ {p}]
           n  == f.pages_transferred + 1
           f2 == [f1 EXCEPT !.pages_transferred = n]
<1>1. f1.rest = f.rest /\ f1.pages_transferred + 1 = n
  BY DEF Fsm
<1>2. o = Err(f1, st) \/ o \in maybe_emit_complete(f2, tt)
  BY <1>1 DEF handle_page_data
<1>3. /\ SamePhase(f, f2) /\ f2.client_seen = f.client_seen
      /\ f2.pending_requests = f.pending_requests \ {p}
      /\ f2.pages_transferred = f.pages_transferred + 1
  <2>1. n \in Nat
    BY DEF Fsm
  <2> HIDE DEF n
  <2>2. /\ SamePhase(f, f2) /\ f2.client_seen = f.client_seen
        /\ f2.pending_requests = f.pending_requests \ {p}
        /\ f2.pages_transferred = n
    BY <2>1 DEF Fsm, SamePhase
  <2>3. QED
    BY <2>2 DEF n
<1> HIDE DEF p, f1, f2, n
<1>4. CASE o = Err(f1, st)
  <2>1. Failed(f1, st, o)
    BY <1>4, OutcomeFields
  <2>2. QED
    BY <1>1, <2>1, FailedFrom
<1>5. CASE o \in maybe_emit_complete(f2, tt)
  <2>1. Failed(f2, tt, o) \/ Gated(f2, tt, o)
    BY <1>3, <1>5, GateEffect DEF SamePhase
  <2>2. Failed(f2, tt, o) => Failed(f, tt, o)
    BY <1>3, FailedFrom DEF SamePhase
  <2>3. Gated(f2, tt, o) => Stored(f, tt, p, o)
    BY <1>3 DEF Stored
  <2>4. QED
    BY <2>1, <2>2, <2>3 DEF p
<1>6. QED
  BY <1>2, <1>4, <1>5

LEMMA CompleteEffect ==
  ASSUME NEW f \in Fsm, NEW st, NEW o \in handle_complete(f, st)
  PROVE  Failed(f, st, o) \/ Hashed(f, st, o)
<1> DEFINE f1 == [f EXCEPT !.completed_hash_phase = TRUE]
           f2 == [f1 EXCEPT !.cursor = 1]
<1>1. /\ SamePages(f, f1) /\ f1.pages_transferred = f.pages_transferred
      /\ f1.saw_hello = f.saw_hello /\ f1.completed_hash_phase
      /\ f1.emitted_complete = f.emitted_complete /\ f1.cursor = f.cursor
  BY DEF Fsm, SamePages
<1>2. /\ SamePages(f, f2) /\ f2.pages_transferred = f.pages_transferred
      /\ f2.saw_hello = f.saw_hello /\ f2.completed_hash_phase
      /\ f2.emitted_complete = f.emitted_complete /\ f2.cursor = 1
  <2> HIDE DEF f1
  <2>1. 1 \in 0 .. LastPage + 1
    BY LastPageAssumption
  <2>2. QED
    BY <1>1, <2>1 DEF Fsm, SamePages
<1>3. \/ o = Err(f1, st)
      \/ f.direction = "pull" /\ o = Ok(f2, st, <<>>)
      \/ o \in maybe_emit_complete(f1, st)
  BY DEF handle_complete
<1> HIDE DEF f1, f2
<1>4. CASE o = Err(f1, st)
  <2>1. Failed(f1, st, o)
    BY <1>4, OutcomeFields
  <2>2. QED
    BY <1>1, <2>1, FailedFrom DEF SamePages
<1>5. CASE f.direction = "pull" /\ o = Ok(f2, st, <<>>)
  <2>1. Succeeded(f2, st, <<>>, o)
    BY <1>5, OutcomeFields
  <2>2. f2.direction = "pull"
    BY <1>2, <1>5 DEF SamePages
  <2>3. QED
    BY <1>2, <2>1, <2>2 DEF Hashed
<1>6. CASE o \in maybe_emit_complete(f1, st)
  <2>1. Failed(f1, st, o) \/ Gated(f1, st, o)
    BY <1>1, <1>6, GateEffect DEF SamePages
  <2>2. Failed(f1, st, o) => Failed(f, st, o)
    BY <1>1, FailedFrom DEF SamePages
  <2>3. QED
    BY <1>1, <2>1, <2>2 DEF Hashed
<1>7. QED
  BY <1>3, <1>4, <1>5, <1>6

LEMMA WalkEffect ==
  ASSUME NEW f \in Fsm, NEW st, NEW o \in walk(f, st)
  PROVE  Failed(f, st, o) \/ Walks(f, st, o)
<1> DEFINE todo == Unclaimed(f, st)
           g0   == [f EXCEPT !.cursor = 0]
           n    == f.pages_transferred + 1
           g(p) == [f EXCEPT !.pages_transferred = n, !.cursor = p + 1]
           next == {p \in todo : \A q \in todo : p <= q}
           R    == Failed(f, st, o) \/ Walks(f, st, o)
<1>1. ASSUME o = Err(f, st) PROVE R
  BY <1>1, OutcomeFields
<1>2. ASSUME todo = {}, o # Err(f, st) PROVE R
  <2>0. o \in maybe_emit_complete(g0, st)
    BY <1>2 DEF walk
  <2>1. /\ SamePages(f, g0) /\ g0.saw_hello = f.saw_hello
        /\ g0.completed_hash_phase = f.completed_hash_phase
        /\ g0.emitted_complete = f.emitted_complete
        /\ g0.cursor = 0 /\ g0.pages_transferred = f.pages_transferred
    BY LastPageAssumption DEF Fsm, SamePages
  <2> HIDE DEF g0
  <2>2. Failed(g0, st, o) \/ Gated(g0, st, o)
    BY <2>0, <2>1, GateEffect DEF SamePages
  <2>3. Failed(g0, st, o) => Failed(f, st, o)
    BY <2>1, FailedFrom DEF SamePages
  <2>4. QED
    BY <1>2, <2>1, <2>2, <2>3 DEF Walks
<1>3. ASSUME NEW p \in next, o \in Emit(g(p), st, PageData(p, st[p].data))
      PROVE  R
  <2> DEFINE k == p + 1
             h == [f EXCEPT !.pages_transferred = n, !.cursor = k]
  <2>1. n \in Nat /\ k \in 0 .. LastPage + 1
    BY LastPageAssumption DEF Fsm, Unclaimed
  <2>2. o \in Emit(h, st, PageData(p, st[p].data))
    BY <1>3
  <2> HIDE DEF n, k, g
  <2>3. /\ SamePages(f, h) /\ h.saw_hello = f.saw_hello
        /\ h.completed_hash_phase = f.completed_hash_phase
        /\ h.emitted_complete = f.emitted_complete
        /\ h.cursor = k /\ h.pages_transferred = n
    BY <2>1 DEF Fsm, SamePages
  <2> HIDE DEF h
  <2>4. Failed(h, st, o) \/ Succeeded(h, st, <<PageData(p, st[p].data)>>, o)
    BY <2>2, EmitEffect
  <2>5. Failed(h, st, o) => Failed(f, st, o)
    BY <2>3, FailedFrom DEF SamePages
  <2>6. QED
    BY <1>3, <2>3, <2>4, <2>5 DEF Walks, n, k
<1> HIDE DEF R
<1>4. R
  BY <1>1, <1>2, <1>3, ZenonT(60) DEF walk
<1>5. QED
  BY <1>4 DEF R

-----------------------------------------------------------------------------
(* The ends of a task.                                                     *)

\* A frame at the end of what a running client will read.
Sent(c, down, out) == IF Running(c) THEN down \o out ELSE down

LEMMA SentFacts ==
  ASSUME NEW c, NEW down \in Seq(ServerFrame), NEW x \in ServerFrame
  PROVE  /\ Sent(c, down, <<>>) = down
         /\ Running(c) => Sent(c, down, <<x>>) = Append(down, x)
         /\ ~Running(c) => Sent(c, down, <<x>>) = down
         /\ Sent(c, down, <<x>>) \in Seq(ServerFrame)
<1>1. /\ down \o <<>> = down /\ down \o <<x>> = Append(down, x)
      /\ Append(down, x) \in Seq(ServerFrame)
  BY AppendFacts, ConcatEmptySeq
<1>2. QED
  BY <1>1 DEF Sent

\* A task that goes on writes pages and requests only.
LEMMA OpenDownstream ==
  ASSUME NEW dir, NEW c, NEW down
  PROVE  Downstream(dir, "open", c, down) <=>
           \A i \in DOMAIN down :
             down[i].kind = IF dir = "push" THEN "RequestPage" ELSE "PageData"
BY DEF Downstream

\* Whatever the FSM has become, what counts is the last frame.
LEMMA ClosedLinked ==
  ASSUME NEW dir, NEW tk, NEW f, NEW c, NEW up, NEW down,
         Typed(dir, tk, f, c, up, down),
         NEW D, NEW F, Linked(dir, tk, f, c, up, down, D, F),
         tk = "open",
         NEW f2, Shape(f2), f2.direction = dir, f2.rest = <<>>,
         NEW down2 \in Seq(ServerFrame),
         \A i \in DOMAIN down2 :
           down2[i].kind \in {"RequestPage", "PageData"} =>
             i \in DOMAIN down /\ down2[i] = down[i],
         \A i \in DOMAIN down : down2[i] = down[i],
         ~Running(c) => down2 = down,
         c.pc = "hello" => Greeting(dir, "closed", f2, c, <<>>, down2),
         Syncing(c) => Downstream(dir, "closed", c, down2)
  PROVE  /\ Typed(dir, "closed", f2, c, <<>>, down2)
         /\ Linked(dir, "closed", f2, c, <<>>, down2, D, F)
<1>1. FsmOK(dir, tk, f) /\ ClientOK(dir, tk, c, down, F)
  BY DEF Linked
<1>2. Typed(dir, "closed", f2, c, <<>>, down2)
  BY DEF Typed, Shape
<1>3. FsmOK(dir, "closed", f2)
  BY DEF FsmOK
<1>4. ClientOK(dir, "closed", c, down2, F)
  BY <1>1 DEF ClientOK
<1>5. Syncing(c) /\ dir = "pull" => NoGap(c, down2)
  <2> SUFFICES ASSUME Syncing(c), dir = "pull" PROVE NoGap(c, down2)
    OBVIOUS
  <2>1. NoGap(c, down)
    BY DEF Linked
  <2>2. DOMAIN down = 1 .. Len(down) /\ Len(down) \in Nat
    BY DEF Typed
  <2>3. ASSUME NEW i \in DOMAIN down2, IsData(down2[i]),
               NEW p \in c.max + 1 .. down2[i].page_no - 1
        PROVE  Brought(c, down2, i - 1, p)
    <3>1. i \in DOMAIN down /\ down2[i] = down[i]
      BY <2>3 DEF IsData
    <3>2. Brought(c, down, i - 1, p)
      BY <2>1, <2>3, <3>1 DEF NoGap
    <3>3. \A j \in 1 .. i - 1 : j \in DOMAIN down
      BY <2>2, <3>1
    <3>4. QED
      BY <3>2, <3>3 DEF Brought
  <2>4. QED
    BY <2>1, <2>3 DEF NoGap
<1>6. QED
  BY <1>2, <1>3, <1>4, <1>5 DEF Linked

\* A task ends with an Error, or just ends; the greeting is not disturbed,
\* for then nothing is being applied that could fail.
LEMMA FailedLinked ==
  ASSUME NEW dir, NEW tk, NEW f, NEW c, NEW up, NEW down,
         Typed(dir, tk, f, c, up, down),
         NEW D, NEW F, Linked(dir, tk, f, c, up, down, D, F),
         tk = "open",
         NEW f2, Shape(f2), f2.direction = dir, f2.rest = <<>>,
         NEW out \in {<<>>, <<Error>>},
         out = <<>> \/ up # <<>> \/ f.cursor # 0,
         NEW down2, down2 = Sent(c, down, out)
  PROVE  /\ Typed(dir, "closed", f2, c, <<>>, down2)
         /\ Linked(dir, "closed", f2, c, <<>>, down2, D, F)
<1>1. Error \in ServerFrame /\ Error.kind = "Error"
  BY ServerFrames, FrameFields
<1>2. down \in Seq(ServerFrame) /\ Len(down) \in Nat /\ DOMAIN down = 1 .. Len(down)
  BY DEF Typed
<1>3. down2 = down \/ (Running(c) /\ down2 = Append(down, Error))
  <2>1. CASE out = <<>>
    BY <1>1, <1>2, <2>1, SentFacts
  <2>2. CASE out = <<Error>>
    <3>1. down2 = Sent(c, down, <<Error>>)
      BY <2>2
    <3>2. QED
      BY <1>1, <1>2, <3>1, SentFacts
  <2>3. QED
    BY <2>1, <2>2
<1>4. CASE down2 = down
  <2>1. c.pc = "hello" => Greeting(dir, "closed", f2, c, <<>>, down)
    BY DEF Linked, Greeting
  <2>2. Syncing(c) => Downstream(dir, "closed", c, down)
    BY DEF Linked, Downstream
  <2>3. QED
    BY <1>2, <1>4, <2>1, <2>2, ClosedLinked
<1>5. CASE down2 # down
  <2> DEFINE seq == Append(down, Error)
  <2>1. down2 = seq /\ Running(c)
    BY <1>3, <1>5
  <2>2. /\ seq \in Seq(ServerFrame) /\ Len(seq) = Len(down) + 1
        /\ DOMAIN seq = 1 .. Len(down) + 1
        /\ \A i \in 1 .. Len(down) : seq[i] = down[i]
        /\ seq[Len(down) + 1] = Error
    BY <1>1, <1>2, AppendFacts
  <2>3. \A i \in DOMAIN seq :
          i \in DOMAIN down \/ (i = Len(down) + 1 /\ i \notin DOMAIN down)
    BY <1>2, <2>2
  <2>4. up # <<>> \/ f.cursor # 0
    BY <1>1, <1>2, <1>5, SentFacts
  <2>5. c.pc = "hello" => Greeting(dir, "closed", f2, c, <<>>, seq)
    <3> SUFFICES ASSUME c.pc = "hello" PROVE seq = <<Error>>
      BY DEF Greeting
    <3>1. Greeting(dir, tk, f, c, up, down) /\ Shape(f)
      BY DEF Linked, FsmOK
    <3>2. down = <<>>
      BY <2>4, <3>1 DEF Greeting, Shape
    <3>3. QED
      BY <3>2
  <2> HIDE DEF seq
  <2>6. Syncing(c) => Downstream(dir, "closed", c, seq)
    <3> SUFFICES ASSUME Syncing(c) PROVE Downstream(dir, "closed", c, seq)
      OBVIOUS
    <3>1. Downstream(dir, tk, c, down)
      BY DEF Linked
    <3>2. \A i \in DOMAIN down :
            down[i].kind = IF dir = "push" THEN "RequestPage" ELSE "PageData"
      BY <3>1, OpenDownstream
    <3>3. QED
      BY <1>2, <2>2, <2>3, <3>2 DEF Downstream
  <2>7. /\ \A i \in DOMAIN seq :
             seq[i].kind \in {"RequestPage", "PageData"} =>
               i \in DOMAIN down /\ seq[i] = down[i]
        /\ \A i \in DOMAIN down : seq[i] = down[i]
    BY <1>1, <1>2, <2>2, <2>3
  <2>8. /\ Typed(dir, "closed", f2, c, <<>>, seq)
        /\ Linked(dir, "closed", f2, c, <<>>, seq, D, F)
    BY <2>1, <2>2, <2>5, <2>6, <2>7, ClosedLinked
  <2>9. QED
    BY <2>1, <2>8
<1>6. QED
  BY <1>4, <1>5

\* A task ends with SyncComplete(k), and k is what the client will find.
LEMMA CompletedLinked ==
  ASSUME NEW dir, NEW tk, NEW f, NEW c, NEW up, NEW down,
         Typed(dir, tk, f, c, up, down),
         NEW D, NEW F, Linked(dir, tk, f, c, up, down, D, F),
         tk = "open",
         NEW f2, Shape(f2), f2.direction = dir, f2.rest = <<>>,
         NEW k \in Nat,
         c.pc # "hello",
         Syncing(c) =>
           /\ c.pc # "hash"
           /\ IF dir = "push"
              THEN down = <<>> /\ c.queue = <<>> /\ k = c.count
              ELSE k = c.count + Len(down),
         NEW down2, down2 = Sent(c, down, <<SyncComplete(k)>>)
  PROVE  /\ Typed(dir, "closed", f2, c, <<>>, down2)
         /\ Linked(dir, "closed", f2, c, <<>>, down2, D, F)
<1> DEFINE M == SyncComplete(k)
<1>1. M \in ServerFrame /\ M.kind = "SyncComplete" /\ M.pages_transferred = k
  BY DEF ServerFrame, SyncComplete
<1> HIDE DEF M
<1>2. down \in Seq(ServerFrame) /\ Len(down) \in Nat /\ DOMAIN down = 1 .. Len(down)
  BY DEF Typed
<1>3. CASE ~Running(c)
  <2>1. down2 = down /\ ~Syncing(c)
    BY <1>1, <1>2, <1>3, SentFacts DEF Running, Syncing, M
  <2>2. QED
    BY <1>2, <2>1, ClosedLinked
<1>4. CASE Running(c)
  <2>1. Syncing(c) /\ down2 = Append(down, M)
    BY <1>1, <1>2, <1>4, SentFacts DEF Running, Syncing, M
  <2>2. /\ down2 \in Seq(ServerFrame) /\ Len(down2) = Len(down) + 1
        /\ DOMAIN down2 = 1 .. Len(down) + 1
        /\ \A i \in 1 .. Len(down) : down2[i] = down[i]
        /\ down2[Len(down) + 1] = M
    <3> DEFINE after == Append(down, M)
    <3>1. M \in ServerFrame /\ down \in Seq(ServerFrame)
      BY <1>1, <1>2
    <3>2. /\ after \in Seq(ServerFrame) /\ Len(after) = Len(down) + 1
          /\ DOMAIN after = 1 .. Len(down) + 1
          /\ \A i \in 1 .. Len(down) : after[i] = down[i]
          /\ after[Len(down) + 1] = M
      BY ONLY <3>1, AppendFacts
    <3>3. down2 = after
      BY <2>1
    <3> HIDE DEF after
    <3>4. QED
      BY ONLY <3>2, <3>3
  <2>3. \A i \in DOMAIN down2 :
          i \in DOMAIN down \/ (i = Len(down) + 1 /\ i \notin DOMAIN down)
    BY <1>2, <2>2
  <2>4. Downstream(dir, "closed", c, down2)
    <3>1. Downstream(dir, tk, c, down)
      BY <2>1 DEF Linked
    <3>2. \A i \in DOMAIN down :
            down[i].kind = IF dir = "push" THEN "RequestPage" ELSE "PageData"
      BY <3>1, OpenDownstream
    <3>3. dir = "push" => Len(down2) = 1
      BY <2>1, <2>2, NoFrames
    <3>4. ASSUME dir # "push" PROVE k + 1 = c.count + Len(down2)
      <4>1. c.count \in Nat
        BY DEF Typed, Cli
      <4>2. k = c.count + Len(down)
        BY <2>1, <3>4
      <4> DEFINE a == c.count
                 b == Len(down)
      <4>3. /\ a \in Nat /\ b \in Nat /\ k = a + b /\ Len(down2) = b + 1
        BY <1>2, <2>2, <4>1, <4>2
      <4> HIDE DEF a, b
      <4>4. k + 1 = a + Len(down2)
        BY <4>3
      <4>5. QED
        BY <4>4 DEF a
    <3>5. QED
      BY <1>1, <1>2, <2>1, <2>2, <2>3, <3>2, <3>3, <3>4 DEF Downstream
  <2>5. \A i \in DOMAIN down2 :
          down2[i].kind \in {"RequestPage", "PageData"} =>
            i \in DOMAIN down /\ down2[i] = down[i]
    BY <1>1, <1>2, <2>2, <2>3
  <2>6. QED
    BY <1>2, <1>4, <2>2, <2>4, <2>5, ClosedLinked
<1>5. QED
  BY <1>3, <1>4

-----------------------------------------------------------------------------
(* The steps of a task that goes on.                                       *)

\* Hello: it was alone, and its reply is.
LEMMA GreetedLinked ==
  ASSUME NEW dir, NEW tk, NEW f, NEW c, NEW up, NEW down,
         Typed(dir, tk, f, c, up, down),
         NEW D, NEW F, Linked(dir, tk, f, c, up, down, D, F),
         tk = "open", up # <<>>, ~f.saw_hello,
         NEW g, SamePages(f, g), Ready(g), g.saw_hello,
         g.pages_transferred = f.pages_transferred,
         g.completed_hash_phase = f.completed_hash_phase,
         NEW k \in 0 .. LastPage,
         NEW up2, up2 = Tail(up),
         NEW down2, down2 = Sent(c, down, <<HelloReply(k)>>)
  PROVE  /\ Typed(dir, tk, g, c, up2, down2)
         /\ Linked(dir, tk, g, c, up2, down2, D, F)
<1> DEFINE M == HelloReply(k)
<1>1. M \in ServerFrame /\ M.kind = "HelloReply" /\ M = HelloReply(k)
  BY DEF ServerFrame, HelloReply
<1> HIDE DEF M
<1>2. /\ FsmOK(dir, tk, f) /\ ClientOK(dir, tk, c, down, F)
      /\ dir = "push" => Requested(f, up, D)
      /\ c.pc = "hello" => Greeting(dir, tk, f, c, up, down)
      /\ ~Syncing(c)
  BY DEF Linked, Phases
<1>3. /\ f.direction = dir /\ f.rest = <<>> /\ f.client_seen = {}
      /\ f.pending_requests = {} /\ f.pages_transferred = 0
      /\ ~f.completed_hash_phase
  BY <1>2 DEF FsmOK, new
<1>4. FsmOK(dir, tk, g)
  BY <1>3 DEF FsmOK, SamePages, Ready
<1>5. PICK n \in 0 .. LastPage : Upstream(dir, f, up, n)
  BY DEF Linked
<1>6. up2 = <<>>
  <2>1. /\ Len(up) \in Nat \ {0} /\ DOMAIN up = 1 .. Len(up)
        /\ up2 \in Seq(ClientFrame) /\ Len(up2) = Len(up) - 1
    BY TailFacts DEF Typed
  <2>2. ASSUME Len(up) # 1 PROVE FALSE
    <3>1. 1 \in DOMAIN up /\ 2 \in DOMAIN up /\ 1 \in 1 .. 2 - 1
      BY <2>1, <2>2
    <3>2. up[1].kind = "Hello" /\ up[2].kind = "Hello"
      BY <1>5, <3>1 DEF Upstream
    <3>3. up[1].kind = "PageHash"
      BY <1>5, <3>1, <3>2 DEF Upstream, IsData
    <3>4. QED
      BY <3>2, <3>3
  <2>3. Len(up2) = 0
    BY <2>1, <2>2
  <2>4. QED
    BY <2>1, <2>3, EmptySeq
<1>7. DOMAIN up2 = {} /\ up2 \in Seq(ClientFrame)
  <2>1. DOMAIN up2 = {}
    BY <1>6, NoFrames
  <2>2. <<>> \in Seq(ClientFrame)
    BY EmptySeq
  <2>3. QED
    BY <1>6, <2>1, <2>2
<1>8. Upstream(dir, g, up2, n)
  BY <1>5, <1>7 DEF Upstream, SamePages
<1>9. dir = "push" => Requested(g, up2, D)
  BY <1>2, <1>7 DEF Requested, SamePages
<1>10. down2 \in Seq(ServerFrame) /\ (~Running(c) => down2 = down)
  <2>1. down \in Seq(ServerFrame) /\ down2 = Sent(c, down, <<M>>)
    BY <1>1 DEF Typed
  <2>2. QED
    BY <1>1, <2>1, SentFacts
<1>11. c.pc = "hello" => down2 = <<M>> /\ down = <<>>
  <2>1. c.pc = "hello" => down = <<>>
    BY <1>2 DEF Greeting
  <2>2. c.pc = "hello" => down2 = Append(down, M)
    BY <1>1, SentFacts DEF Typed, Running
  <2>3. QED
    BY <2>1, <2>2
<1>12. c.pc = "hello" => Greeting(dir, tk, g, c, up2, down2)
  <2> SUFFICES ASSUME c.pc = "hello" PROVE Greeting(dir, tk, g, c, up2, down2)
    OBVIOUS
  <2>1. \E m \in 0 .. LastPage : down2 = <<HelloReply(m)>>
    BY <1>1, <1>11
  <2>2. QED
    BY <1>3, <1>6, <2>1 DEF Greeting, SamePages
<1>13. ClientOK(dir, tk, c, down2, F)
  <2>1. Running(c) => c.pc = "hello"
    BY <1>2 DEF Running, Syncing
  <2>2. c.pc = "hello" => \A i \in DOMAIN down2 : down2[i].kind # "RequestPage"
    BY <1>1, <1>11
  <2>3. QED
    BY <1>2, <1>10, <2>1, <2>2 DEF ClientOK
<1>14. Typed(dir, tk, g, c, up2, down2)
  BY <1>7, <1>10 DEF Typed, SamePages
<1>15. QED
  BY <1>2, <1>4, <1>8, <1>9, <1>12, <1>13, <1>14 DEF Linked

\* What is next on its way to the object, when it is not a Hello.
LEMMA NextFrame ==
  ASSUME NEW dir, NEW tk, NEW f, NEW c, NEW up, NEW down,
         Typed(dir, tk, f, c, up, down),
         NEW D, NEW F, Linked(dir, tk, f, c, up, down, D, F),
         tk = "open", up # <<>>, f.saw_hello,
         NEW m, m = Head(up), NEW up2, up2 = Tail(up)
  PROVE  /\ m \in ClientFrame /\ m = up[1] /\ m.kind # "Hello"
         /\ up2 \in Seq(ClientFrame) /\ Len(up2) = Len(up) - 1
         /\ Len(up) \in Nat \ {0}
         /\ DOMAIN up2 = 1 .. Len(up) - 1 /\ DOMAIN up = 1 .. Len(up)
         /\ \A i \in DOMAIN up2 :
              /\ i + 1 \in DOMAIN up /\ up2[i] = up[i + 1]
              /\ up2[i].kind # "Hello"
              /\ 1 \in 1 .. (i + 1) - 1
              /\ \A j \in 1 .. i - 1 :
                   j + 1 \in 1 .. (i + 1) - 1 /\ up2[j] = up[j + 1]
              /\ \A j \in 1 .. (i + 1) - 1 : j # 1 =>
                   j - 1 \in 1 .. i - 1 /\ up2[j - 1] = up[j]
         /\ \A i \in DOMAIN up : i # 1 =>
              i - 1 \in DOMAIN up2 /\ up2[i - 1] = up[i]
         /\ c.pc # "hello"
<1>1. /\ Len(up) \in Nat \ {0} /\ DOMAIN up = 1 .. Len(up)
      /\ Head(up) = up[1] /\ Head(up) \in ClientFrame
      /\ up2 \in Seq(ClientFrame) /\ Len(up2) = Len(up) - 1
      /\ DOMAIN up2 = 1 .. Len(up) - 1
      /\ \A i \in 1 .. Len(up) - 1 : up2[i] = up[i + 1]
  BY TailFacts DEF Typed
<1>2. PICK n \in 0 .. LastPage : Upstream(dir, f, up, n)
  BY DEF Linked
<1>3. \A i \in DOMAIN up : up[i].kind # "Hello"
  BY <1>2 DEF Upstream
<1>4. 1 \in DOMAIN up /\ \A i \in DOMAIN up2 : i + 1 \in DOMAIN up
  BY <1>1
<1>5. \A i \in DOMAIN up2 : up2[i].kind # "Hello"
  BY <1>1, <1>3, <1>4
<1>6. ASSUME NEW i \in DOMAIN up2
      PROVE  /\ 1 \in 1 .. (i + 1) - 1
             /\ \A j \in 1 .. i - 1 :
                  j + 1 \in 1 .. (i + 1) - 1 /\ up2[j] = up[j + 1]
             /\ \A j \in 1 .. (i + 1) - 1 : j # 1 =>
                  j - 1 \in 1 .. i - 1 /\ up2[j - 1] = up[j]
  BY <1>1
<1>7. \A i \in DOMAIN up : i # 1 =>
        i - 1 \in DOMAIN up2 /\ up2[i - 1] = up[i]
  BY <1>1
<1>8. c.pc # "hello"
  <2>1. c.pc = "hello" => up = <<>>
    BY DEF Linked, Greeting
  <2>2. QED
    BY <2>1
<1>9. QED
  BY <1>1, <1>3, <1>4, <1>5, <1>6, <1>7, <1>8

\* What any claim does to the FSM.
Claims(dir, f, g, p, D) ==
  /\ SamePhase(f, g) /\ g.client_seen = f.client_seen \cup {p}
  /\ dir = "push" =>
       /\ g.pages_transferred = f.pages_transferred
       /\ \/ p \in D /\ g.pending_requests = f.pending_requests
          \/ g.pending_requests = f.pending_requests \cup {p}

\* PageHash: the next page is claimed, and a client that runs has it.
LEMMA ClaimFacts ==
  ASSUME NEW dir, NEW tk, NEW f, NEW c, NEW up, NEW down,
         Typed(dir, tk, f, c, up, down),
         NEW D, NEW F, Linked(dir, tk, f, c, up, down, D, F),
         tk = "open", up # <<>>, f.saw_hello, Head(up).kind = "PageHash",
         NEW p, p = Head(up).page_no,
         NEW g, Claims(dir, f, g, p, D), Ready(g),
         NEW up2, up2 = Tail(up)
  PROVE  /\ p \in PageNo /\ \A q \in f.client_seen : q < p
         /\ FsmOK(dir, tk, g) /\ g.cursor = 0
         /\ \E n \in 0 .. LastPage :
              /\ Upstream(dir, g, up2, n)
              /\ Syncing(c) => Phases(dir, g, c, up2, n)
         /\ Syncing(c) => p <= c.max
         /\ dir = "push" => Requested(g, up2, D)
<1>0. /\ SamePhase(f, g) /\ g.client_seen = f.client_seen \cup {p}
      /\ dir = "push" =>
           /\ g.pages_transferred = f.pages_transferred
           /\ \/ p \in D /\ g.pending_requests = f.pending_requests
              \/ g.pending_requests = f.pending_requests \cup {p}
  BY DEF Claims
<1>1. /\ up2 \in Seq(ClientFrame) /\ Len(up2) = Len(up) - 1
      /\ Len(up) \in Nat \ {0}
      /\ DOMAIN up2 = 1 .. Len(up) - 1 /\ DOMAIN up = 1 .. Len(up)
      /\ 1 \in DOMAIN up /\ Head(up) = up[1] /\ up[1].kind = "PageHash"
      /\ p \in PageNo /\ up[1].page_no = p
  <2>1. Head(up) \in ClientFrame /\ Head(up) = up[1]
    BY NextFrame
  <2>2. p \in PageNo
    BY <2>1, ClientFrames
  <2>3. /\ up2 \in Seq(ClientFrame) /\ Len(up2) = Len(up) - 1
        /\ Len(up) \in Nat \ {0}
        /\ DOMAIN up2 = 1 .. Len(up) - 1 /\ DOMAIN up = 1 .. Len(up)
    BY TailFacts DEF Typed
  <2>4. 1 \in DOMAIN up
    BY <2>3
  <2>5. QED
    BY <2>1, <2>2, <2>3, <2>4
<1>2. /\ \A i \in DOMAIN up2 :
           /\ i + 1 \in DOMAIN up /\ up2[i] = up[i + 1]
           /\ up2[i].kind # "Hello"
           /\ \A j \in 1 .. i - 1 :
                j + 1 \in 1 .. (i + 1) - 1 /\ up2[j] = up[j + 1]
           /\ \A j \in 1 .. (i + 1) - 1 : j # 1 =>
                j - 1 \in 1 .. i - 1 /\ up2[j - 1] = up[j]
      /\ \A i \in DOMAIN up : i # 1 =>
           i - 1 \in DOMAIN up2 /\ up2[i - 1] = up[i]
  BY NextFrame
<1>3. FsmOK(dir, tk, f) /\ ClientOK(dir, tk, c, down, F)
  BY DEF Linked
<1>4. PICK n \in 0 .. LastPage :
        Upstream(dir, f, up, n) /\ (Syncing(c) => Phases(dir, f, c, up, n))
  BY DEF Linked
<1>5. ~f.completed_hash_phase /\ p = n + 1 /\ n + 1 \in 0 .. LastPage
  <2>1. ~IsData(up[1]) /\ up[1].page_no = n + 1
    BY <1>1, <1>4 DEF Upstream, IsData
  <2>2. QED
    BY <1>1, <1>4, <2>1 DEF Upstream, PageNo
<1>6. FsmOK(dir, tk, g) /\ g.cursor = 0
  <2>1. Shape(f) /\ f.direction = dir /\ f.rest = <<>>
    BY <1>3 DEF FsmOK
  <2>2. f.cursor = 0
    BY <1>5, <2>1 DEF Shape
  <2>3. QED
    BY <1>0, <2>1, <2>2 DEF FsmOK, SamePhase, Ready
<1>7. /\ f.client_seen = 1 .. n /\ g.client_seen = 1 .. n + 1
      /\ \A q \in f.client_seen : q < p
  <2>1. f.client_seen = 1 .. n
    BY <1>4 DEF Upstream
  <2>2. (1 .. n) \cup {n + 1} = 1 .. n + 1
    BY <1>4
  <2>3. \A q \in 1 .. n : q < n + 1
    BY <1>4
  <2>4. QED
    BY <1>0, <1>5, <2>1, <2>2, <2>3
<1>8. Upstream(dir, g, up2, n + 1)
  <2>1. ASSUME NEW i \in DOMAIN up2
        PROVE  /\ up2[i].kind = "Hello" <=> ~g.saw_hello
               /\ up2[i].kind = "PageHash" => up2[i].page_no = (n + 1) + i
               /\ IsData(up2[i]) => dir = "push"
               /\ ~IsData(up2[i]) =>
                    /\ ~g.completed_hash_phase
                    /\ \A j \in 1 .. i - 1 : up2[j].kind = "PageHash"
    <3>1. i + 1 \in DOMAIN up /\ up2[i] = up[i + 1] /\ i \in Nat
      BY <1>1, <1>2
    <3>2. up2[i].kind = "PageHash" => up2[i].page_no = n + (i + 1)
      BY <1>4, <3>1 DEF Upstream
    <3>3. n + (i + 1) = (n + 1) + i
      BY <1>4, <3>1
    <3>4. ~IsData(up2[i]) => \A j \in 1 .. i - 1 : up2[j].kind = "PageHash"
      BY <1>2, <1>4, <3>1 DEF Upstream
    <3>5. QED
      BY <1>0, <1>2, <1>4, <1>5, <3>1, <3>2, <3>3, <3>4
      DEF Upstream, SamePhase
  <2>2. QED
    BY <1>7, <2>1 DEF Upstream
<1>9. Syncing(c) => Phases(dir, g, c, up2, n + 1) /\ p <= c.max
  <2> SUFFICES ASSUME Syncing(c)
               PROVE  Phases(dir, g, c, up2, n + 1) /\ p <= c.max
    OBVIOUS
  <2>1. Phases(dir, f, c, up, n) /\ c.max \in Nat /\ c.next \in Nat
    BY <1>4 DEF Typed, Cli
  <2>2. CASE c.pc = "hash"
    <3>1. /\ c.next = n + Len(up) + 1 /\ c.next <= c.max + 1
          /\ \A i \in DOMAIN up : up[i].kind = "PageHash"
      BY <1>3, <2>1, <2>2 DEF Phases, ClientOK
    <3>2. c.next = (n + 1) + Len(up2) + 1 /\ p <= c.max
      <4>1. n \in Nat
        BY <1>4
      <4>2. QED
        BY <1>1, <1>5, <2>1, <3>1, <4>1
    <3>3. \A i \in DOMAIN up2 : up2[i].kind = "PageHash"
      BY <1>2, <3>1
    <3>4. QED
      BY <1>0, <1>3, <1>5, <2>1, <2>2, <3>2, <3>3
      DEF Phases, SamePhase, FsmOK
  <2>3. CASE c.pc # "hash"
    <3>1. PICK i \in DOMAIN up :
            /\ up[i] = Complete /\ n + i = c.max + 1
            /\ dir = "push" => c.count = Len(up) - i
      BY <1>5, <2>1, <2>3 DEF Phases
    <3>2. i # 1
      BY <1>1, <3>1, FrameFields
    <3>3. i - 1 \in DOMAIN up2 /\ up2[i - 1] = up[i]
      BY <1>2, <3>1, <3>2
    <3>4. (n + 1) + (i - 1) = c.max + 1 /\ p <= c.max
      <4>1. n \in Nat /\ i \in Nat /\ i >= 2
        BY <1>1, <1>4, <3>1, <3>2
      <4> DEFINE k == c.max
      <4>2. n + i = k + 1 /\ k \in Nat
        BY <2>1, <3>1
      <4> HIDE DEF k
      <4>3. (n + 1) + (i - 1) = k + 1 /\ n + 1 <= k
        BY <4>1, <4>2
      <4>4. QED
        BY <1>5, <4>3 DEF k
    <3>5. dir = "push" => c.count = Len(up2) - (i - 1)
      BY <1>1, <3>1
    <3>6. \E k \in DOMAIN up2 :
            /\ up2[k] = Complete /\ (n + 1) + k = c.max + 1
            /\ dir = "push" => c.count = Len(up2) - k
      BY <3>1, <3>3, <3>4, <3>5
    <3>7. QED
      BY <1>0, <1>3, <1>5, <2>1, <2>3, <3>4, <3>6
      DEF Phases, SamePhase, FsmOK
  <2>4. QED
    BY <2>2, <2>3
<1>10. dir = "push" => Requested(g, up2, D)
  <2> SUFFICES ASSUME dir = "push" PROVE Requested(g, up2, D)
    OBVIOUS
  <2>1. Requested(f, up, D)
    BY DEF Linked
  <2>2. /\ g.client_seen \subseteq D \cup g.pending_requests
        /\ g.pending_requests \subseteq g.client_seen
        /\ f.pending_requests \subseteq g.pending_requests
        /\ g.pending_requests \subseteq f.pending_requests \cup {p}
    BY <1>0, <2>1 DEF Requested
  <2>3. ASSUME NEW i \in DOMAIN up2, IsData(up2[i])
        PROVE  /\ up2[i].page_no \in g.pending_requests
               /\ \A j \in 1 .. i - 1 :
                    IsData(up2[j]) => up2[j].page_no < up2[i].page_no
               /\ \A q \in g.pending_requests : q < up2[i].page_no =>
                    \E j \in 1 .. i - 1 : IsData(up2[j]) /\ up2[j].page_no = q
    <3>1. i + 1 \in DOMAIN up /\ up2[i] = up[i + 1]
      BY <1>2
    <3>2. /\ up[i + 1].page_no \in f.pending_requests
          /\ \A j \in 1 .. (i + 1) - 1 :
               IsData(up[j]) => up[j].page_no < up[i + 1].page_no
          /\ \A q \in f.pending_requests : q < up[i + 1].page_no =>
               \E j \in 1 .. (i + 1) - 1 : IsData(up[j]) /\ up[j].page_no = q
      BY <2>1, <2>3, <3>1 DEF Requested
    <3>3. up2[i].page_no < p /\ up2[i].page_no \in PageNo
      BY <1>7, <2>1, <3>1, <3>2 DEF Requested, Typed, Fsm
    <3>4. \A j \in 1 .. i - 1 :
            IsData(up2[j]) => up2[j].page_no < up2[i].page_no
      BY <1>2, <3>1, <3>2
    <3>5. ASSUME NEW q \in g.pending_requests, q < up2[i].page_no
          PROVE  \E j \in 1 .. i - 1 : IsData(up2[j]) /\ up2[j].page_no = q
      <4>1. q # p
        BY <1>1, <3>3, <3>5 DEF PageNo
      <4>2. q \in f.pending_requests
        BY <2>2, <4>1
      <4>3. PICK j \in 1 .. (i + 1) - 1 : IsData(up[j]) /\ up[j].page_no = q
        BY <3>1, <3>2, <3>5, <4>2
      <4>4. j # 1
        BY <1>1, <4>3 DEF IsData
      <4>5. j - 1 \in 1 .. i - 1 /\ up2[j - 1] = up[j]
        BY <1>2, <4>4
      <4>6. QED
        BY <4>3, <4>5
    <3>6. QED
      BY <2>2, <3>1, <3>2, <3>4, <3>5
  <2>4. QED
    BY <2>2, <2>3 DEF Requested
<1>11. QED
  BY <1>1, <1>5, <1>6, <1>7, <1>8, <1>9, <1>10

\* up2 is up without its first frame.
Popped(up, up2) ==
  /\ 1 \in DOMAIN up
  /\ \A i \in DOMAIN up2 : i + 1 \in DOMAIN up /\ up2[i] = up[i + 1]
  /\ \A i \in DOMAIN up : i # 1 =>
       i - 1 \in DOMAIN up2 /\ up2[i - 1] = up[i]

LEMMA PoppedFacts ==
  ASSUME NEW S, NEW up \in Seq(S), up # <<>>
  PROVE  Popped(up, Tail(up))
<1>1. /\ Len(up) \in Nat \ {0} /\ DOMAIN up = 1 .. Len(up)
      /\ DOMAIN Tail(up) = 1 .. Len(up) - 1
      /\ \A i \in 1 .. Len(up) - 1 : Tail(up)[i] = up[i + 1]
  BY TailFacts
<1>2. QED
  BY <1>1 DEF Popped

\* A frame without bytes leaves the places of the requests as they are.
LEMMA InOrderTail ==
  ASSUME NEW f, NEW g, NEW c, NEW up, NEW up2, NEW down,
         InOrder(f, c, up, down),
         g.pending_requests = f.pending_requests,
         Popped(up, up2), ~IsData(up[1])
  PROVE  InOrder(g, c, up2, down)
<1>1. ASSUME NEW i \in DOMAIN up, IsData(up[i])
      PROVE  \E j \in DOMAIN up2 : up2[j] = up[i]
  <2>1. i # 1
    BY <1>1
  <2>2. QED
    BY <2>1 DEF Popped
<1>2. \A p \in g.pending_requests :
        \/ \E i \in DOMAIN up2 : IsData(up2[i]) /\ up2[i].page_no = p
        \/ \E i \in DOMAIN c.queue : c.queue[i] = p
        \/ \E i \in DOMAIN down : down[i].page_no = p
  BY <1>1 DEF InOrder
<1>3. /\ \A i \in DOMAIN c.queue :
           \A j \in DOMAIN up2 : IsData(up2[j]) => up2[j].page_no < c.queue[i]
      /\ \A i \in DOMAIN down :
           \A j \in DOMAIN up2 :
             IsData(up2[j]) => up2[j].page_no < down[i].page_no
  BY DEF InOrder, Popped
<1>4. QED
  BY <1>2, <1>3 DEF InOrder

LEMMA ClaimedLinked ==
  ASSUME NEW dir, NEW tk, NEW f, NEW c, NEW up, NEW down,
         Typed(dir, tk, f, c, up, down),
         NEW st \in Pages, NEW F,
         Linked(dir, tk, f, c, up, down, DOMAIN st, F),
         tk = "open", up # <<>>, f.saw_hello, Head(up).kind = "PageHash",
         NEW o, Claimed(f, st, Head(up).page_no, o), Ready(o.fsm),
         NEW up2, up2 = Tail(up),
         NEW down2, down2 = Sent(c, down, o.out)
  PROVE  /\ Typed(dir, tk, o.fsm, c, up2, down2)
         /\ Linked(dir, tk, o.fsm, c, up2, down2, DOMAIN st, F)
<1> DEFINE p == Head(up).page_no
           D == DOMAIN st
<1>1. PICK g : /\ SamePhase(f, g) /\ g.client_seen = f.client_seen \cup {p}
               /\ \/ /\ Succeeded(g, st, <<>>, o)
                     /\ g.pending_requests = f.pending_requests
                     /\ g.pages_transferred = f.pages_transferred
                     /\ f.direction = "push" => p \in D
                  \/ /\ f.direction = "push"
                     /\ Succeeded(g, st, <<RequestPage(p)>>, o)
                     /\ g.pending_requests = f.pending_requests \cup {p}
                     /\ g.pages_transferred = f.pages_transferred
                  \/ /\ f.direction = "pull" /\ p \in D
                     /\ Succeeded(g, st, <<PageData(p, st[p].data)>>, o)
                     /\ g.pending_requests = f.pending_requests
                     /\ g.pages_transferred = f.pages_transferred + 1
  BY DEF Claimed
<1>2. o.fsm = g /\ g \in Fsm
  BY <1>1 DEF Succeeded, SamePhase
<1>0. /\ Linked(dir, tk, f, c, up, down, D, F)
      /\ p = Head(up).page_no /\ down2 = Sent(c, down, o.out)
  OBVIOUS
<1>7. D = DOMAIN st
  OBVIOUS
<1> HIDE DEF p, D
<1>3. /\ FsmOK(dir, tk, f) /\ ClientOK(dir, tk, c, down, F)
      /\ f.direction = dir /\ dir \in {"push", "pull"}
      /\ c.pc = "idle" <=> tk = "none"
  BY <1>0 DEF Linked, FsmOK, Typed, Direction, ClientOK
<1>4. /\ up2 \in Seq(ClientFrame) /\ c.pc # "hello"
      /\ Head(up) = up[1] /\ Popped(up, up2)
      /\ \A i \in DOMAIN up2 : i + 1 \in DOMAIN up /\ up2[i] = up[i + 1]
      /\ \A i \in DOMAIN up : i # 1 =>
           i - 1 \in DOMAIN up2 /\ up2[i - 1] = up[i]
  <2>1. /\ up2 \in Seq(ClientFrame) /\ Head(up) = up[1]
        /\ Popped(up, up2)
    BY TailFacts, PoppedFacts DEF Typed
  <2>2. c.pc # "hello"
    BY <1>0, NextFrame
  <2>3. QED
    BY <2>1, <2>2 DEF Popped
<1>5. 1 \in DOMAIN up /\ ~IsData(up[1])
  <2>1. 1 \in DOMAIN up
    BY TailFacts DEF Typed
  <2>2. QED
    BY <1>4, <2>1 DEF IsData
<1>6. down \in Seq(ServerFrame) /\ Len(down) \in Nat /\ DOMAIN down = 1 .. Len(down)
  BY DEF Typed
<1>8. /\ p \in PageNo /\ \A q \in f.client_seen : q < p
      /\ FsmOK(dir, tk, g) /\ g.cursor = 0
      /\ \E n \in 0 .. LastPage :
           /\ Upstream(dir, g, up2, n)
           /\ Syncing(c) => Phases(dir, g, c, up2, n)
      /\ Syncing(c) => p <= c.max
      /\ dir = "push" => Requested(g, up2, D)
  <2>1. Claims(dir, f, g, p, D) /\ Ready(g)
    BY <1>1, <1>2, <1>3 DEF Claims
  <2>2. QED
    BY <1>0, <2>1, ClaimFacts
<1>9. Running(c) => Syncing(c)
  BY <1>4 DEF Running, Syncing
<1>10. /\ Syncing(c) => Downstream(dir, tk, c, down)
       /\ Syncing(c) /\ dir = "push" => InOrder(f, c, up, down)
       /\ Syncing(c) /\ dir = "pull" => NoGap(c, down) /\ Walked(f, c, down)
       /\ \A q \in f.pending_requests : q < p
  <2>1. f.pending_requests \subseteq f.client_seen
    <3>1. dir = "pull" => f.pending_requests = {}
      BY <1>3 DEF FsmOK, Shape
    <3>2. QED
      BY <1>0, <1>3, <3>1 DEF Linked, Requested
  <2>2. QED
    BY <1>0, <1>8, <2>1 DEF Linked
<1>11. CASE /\ down2 = down /\ g.pending_requests = f.pending_requests
            /\ Syncing(c) => g.pages_transferred = f.pages_transferred
  <2>1. Typed(dir, tk, g, c, up2, down2)
    BY <1>2, <1>4, <1>6, <1>11 DEF Typed
  <2>2. ASSUME Syncing(c), dir = "push" PROVE InOrder(g, c, up2, down2)
    <3>1. InOrder(f, c, up, down) /\ g.pending_requests = f.pending_requests
      BY <1>10, <1>11, <2>2
    <3>2. InOrder(g, c, up2, down)
      BY <1>4, <1>5, <3>1, InOrderTail
    <3>3. QED
      BY <1>11, <3>2
  <2>3. Syncing(c) /\ dir = "pull" => Walked(g, c, down2)
    BY <1>8, <1>10, <1>11 DEF Walked
  <2>4. Linked(dir, tk, g, c, up2, down2, D, F)
    BY <1>3, <1>4, <1>8, <1>10, <1>11, <2>2, <2>3 DEF Linked
  <2>5. QED
    BY <1>2, <1>7, <2>1, <2>4
<1>12. CASE ~Running(c)
  <2>1. down2 = down
    BY <1>0, <1>12 DEF Sent
  <2>2. Typed(dir, tk, g, c, up2, down2)
    BY <1>2, <1>4, <1>6, <2>1 DEF Typed
  <2>3. ~Syncing(c)
    BY <1>12 DEF Running, Syncing
  <2>4. Linked(dir, tk, g, c, up2, down2, D, F)
    BY <1>3, <1>4, <1>8, <2>1, <2>3 DEF Linked
  <2>5. QED
    BY <1>2, <1>7, <2>2, <2>4
<1>13. CASE /\ dir = "push" /\ Running(c) /\ o.out = <<RequestPage(p)>>
            /\ g.pending_requests = f.pending_requests \cup {p}
  <2> DEFINE M   == RequestPage(p)
             seq == Append(down, M)
  <2>1. /\ M \in ServerFrame /\ M.kind = "RequestPage" /\ M.page_no = p
    BY <1>8 DEF ServerFrame, RequestPage
  <2>0. down2 = Sent(c, down, <<M>>)
    BY <1>0, <1>13
  <2> HIDE DEF M
  <2>2. down2 = seq /\ Syncing(c)
    BY <1>6, <1>9, <1>13, <2>1, <2>0, SentFacts
  <2>3. /\ seq \in Seq(ServerFrame) /\ Len(seq) = Len(down) + 1
        /\ DOMAIN seq = 1 .. Len(down) + 1
        /\ \A i \in 1 .. Len(down) : seq[i] = down[i]
        /\ seq[Len(down) + 1] = M
    BY <1>6, <2>1, AppendFacts
  <2> HIDE DEF seq
  <2>4. /\ \A i \in DOMAIN seq :
             /\ \/ i \in DOMAIN down /\ seq[i] = down[i]
                \/ i = Len(down) + 1 /\ seq[i] = M
             /\ \A j \in 1 .. i - 1 : j \in DOMAIN down /\ seq[j] = down[j]
        /\ \A i \in DOMAIN down : i \in DOMAIN seq /\ seq[i] = down[i]
        /\ Len(down) + 1 \in DOMAIN seq
    BY <1>6, <2>3
  <2>5. ClientOK(dir, tk, c, seq, F)
    <3>1. \A i \in DOMAIN seq :
            seq[i].kind = "RequestPage" => seq[i].page_no <= c.max
      BY <1>3, <1>8, <1>13, <2>1, <2>2, <2>4 DEF ClientOK
    <3>2. QED
      BY <1>3, <1>13, <3>1 DEF ClientOK
  <2>6. Downstream(dir, tk, c, seq)
    <3>1. \A i \in DOMAIN down : down[i].kind = "RequestPage"
      BY <1>10, <1>13, <2>2, OpenDownstream
    <3>2. \A i \in DOMAIN seq : seq[i].kind = "RequestPage"
      BY <2>1, <2>4, <3>1
    <3>3. QED
      BY <1>13, <3>2, OpenDownstream
  <2>7. InOrder(g, c, up2, seq)
    <3>1. InOrder(f, c, up, down)
      BY <1>10, <1>13, <2>2
    <3>2. \A i \in DOMAIN c.queue :
            /\ c.queue[i] \in g.pending_requests
            /\ \A j \in 1 .. i - 1 : c.queue[j] < c.queue[i]
            /\ \A j \in DOMAIN up2 :
                 IsData(up2[j]) => up2[j].page_no < c.queue[i]
      BY <1>4, <1>13, <3>1 DEF InOrder
    <3>3. ASSUME NEW i \in DOMAIN seq
          PROVE  /\ seq[i].page_no \in g.pending_requests
                 /\ \A j \in 1 .. i - 1 : seq[j].page_no < seq[i].page_no
                 /\ \A j \in DOMAIN c.queue : c.queue[j] < seq[i].page_no
                 /\ \A j \in DOMAIN up2 :
                      IsData(up2[j]) => up2[j].page_no < seq[i].page_no
      <4>1. CASE i \in DOMAIN down /\ seq[i] = down[i]
        BY <1>4, <1>13, <2>4, <3>1, <4>1 DEF InOrder
      <4>2. CASE i = Len(down) + 1 /\ seq[i] = M
        <5>1. \A j \in 1 .. i - 1 :
                seq[j].page_no \in f.pending_requests
          BY <2>4, <3>1 DEF InOrder
        <5>2. \A j \in DOMAIN c.queue : c.queue[j] \in f.pending_requests
          BY <3>1 DEF InOrder
        <5>3. \A j \in DOMAIN up2 : IsData(up2[j]) =>
                up2[j].page_no \in f.pending_requests
          <6>1. Requested(f, up, D)
            BY <1>0, <1>13 DEF Linked
          <6>2. QED
            BY <1>4, <6>1 DEF Requested
        <5>4. QED
          BY <1>10, <1>13, <2>1, <4>2, <5>1, <5>2, <5>3
      <4>3. QED
        BY <2>4, <4>1, <4>2
    <3>4. ASSUME NEW q \in g.pending_requests
          PROVE  \/ \E i \in DOMAIN up2 : IsData(up2[i]) /\ up2[i].page_no = q
                 \/ \E i \in DOMAIN c.queue : c.queue[i] = q
                 \/ \E i \in DOMAIN seq : seq[i].page_no = q
      <4>1. CASE q = p
        BY <2>1, <2>3, <2>4, <4>1
      <4>2. CASE q \in f.pending_requests
        <5>1. \/ \E i \in DOMAIN up : IsData(up[i]) /\ up[i].page_no = q
              \/ \E i \in DOMAIN c.queue : c.queue[i] = q
              \/ \E i \in DOMAIN down : down[i].page_no = q
          BY <3>1, <4>2 DEF InOrder
        <5>2. ASSUME NEW i \in DOMAIN up, IsData(up[i])
              PROVE  i - 1 \in DOMAIN up2 /\ up2[i - 1] = up[i]
          BY <1>4, <1>5, <5>2
        <5>3. ASSUME NEW i \in DOMAIN up, IsData(up[i])
              PROVE  \E j \in DOMAIN up2 : up2[j] = up[i]
          BY <5>2, <5>3
        <5>4. \A i \in DOMAIN down : \E j \in DOMAIN seq : seq[j] = down[i]
          BY <2>4
        <5>5. QED
          BY <5>1, <5>3, <5>4
      <4>3. QED
        BY <1>13, <4>1, <4>2
    <3>5. QED
      BY <3>2, <3>3, <3>4 DEF InOrder
  <2>8. Typed(dir, tk, g, c, up2, seq)
    BY <1>2, <1>4, <2>3 DEF Typed
  <2>9. Linked(dir, tk, g, c, up2, seq, D, F)
    BY <1>3, <1>4, <1>8, <1>13, <2>5, <2>6, <2>7 DEF Linked
  <2>10. QED
    BY <1>2, <1>7, <2>2, <2>8, <2>9
<1>14. CASE /\ dir = "pull" /\ Running(c) /\ p \in D
            /\ o.out = <<PageData(p, st[p].data)>>
            /\ g.pages_transferred = f.pages_transferred + 1
  <2> DEFINE M   == PageData(p, st[p].data)
             seq == Append(down, M)
  <2>1. /\ M \in ServerFrame /\ M.kind = "PageData" /\ M.page_no = p
    <3>1. p \in PageNo /\ st[p].data \in Content
      BY <1>7, <1>14, RowData
    <3>2. QED
      BY <3>1 DEF ServerFrame, PageData
  <2>0. down2 = Sent(c, down, <<M>>)
    BY <1>0, <1>14
  <2> HIDE DEF M
  <2>2. down2 = seq /\ Syncing(c)
    BY <1>6, <1>9, <1>14, <2>1, <2>0, SentFacts
  <2>3. /\ seq \in Seq(ServerFrame) /\ Len(seq) = Len(down) + 1
        /\ DOMAIN seq = 1 .. Len(down) + 1
        /\ \A i \in 1 .. Len(down) : seq[i] = down[i]
        /\ seq[Len(down) + 1] = M
    BY <1>6, <2>1, AppendFacts
  <2> HIDE DEF seq
  <2>4. /\ \A i \in DOMAIN seq :
             /\ \/ i \in DOMAIN down /\ seq[i] = down[i]
                \/ i = Len(down) + 1 /\ seq[i] = M
             /\ \A j \in 1 .. i - 1 : j \in DOMAIN down /\ seq[j] = down[j]
        /\ \A i \in DOMAIN down : i \in DOMAIN seq /\ seq[i] = down[i]
        /\ Len(down) + 1 \in DOMAIN seq
    BY <1>6, <2>3
  <2>5. ClientOK(dir, tk, c, seq, F)
    BY <1>3, <1>14 DEF ClientOK
  <2>6. Downstream(dir, tk, c, seq)
    <3>1. \A i \in DOMAIN down : down[i].kind = "PageData"
      BY <1>10, <1>14, <2>2, OpenDownstream
    <3>2. \A i \in DOMAIN seq : seq[i].kind = "PageData"
      BY <2>1, <2>4, <3>1
    <3>3. QED
      BY <1>14, <3>2, OpenDownstream
  <2>7. NoGap(c, seq)
    <3>1. NoGap(c, down) /\ p <= c.max /\ p \in Nat /\ c.max \in Nat
      BY <1>8, <1>10, <1>14, <2>2 DEF PageNo, Typed, Cli
    <3>2. ASSUME NEW i \in DOMAIN seq, IsData(seq[i]),
                 NEW q \in c.max + 1 .. seq[i].page_no - 1
          PROVE  Brought(c, seq, i - 1, q)
      <4>1. CASE i \in DOMAIN down /\ seq[i] = down[i]
        <5>1. Brought(c, down, i - 1, q)
          BY <3>1, <3>2, <4>1 DEF NoGap
        <5>2. QED
          BY <2>4, <5>1 DEF Brought
      <4>2. CASE i = Len(down) + 1 /\ seq[i] = M
        <5>1. q \in c.max + 1 .. p - 1
          BY <2>1, <3>2, <4>2
        <5>2. FALSE
          BY <3>1, <5>1
        <5>3. QED
          BY <5>2
      <4>3. QED
        BY <2>4, <4>1, <4>2
    <3>3. QED
      BY <3>1, <3>2 DEF NoGap
  <2>8. Walked(g, c, seq)
    <3>1. f.pages_transferred = c.count + Len(down) /\ c.count \in Nat
      BY <1>10, <1>14, <2>2 DEF Walked, Typed, Cli
    <3>2. (c.count + Len(down)) + 1 = c.count + (Len(down) + 1)
      <4> DEFINE a == c.count
                 b == Len(down)
      <4>1. a \in Nat /\ b \in Nat
        BY <1>6, <3>1
      <4> HIDE DEF a, b
      <4>2. (a + b) + 1 = a + (b + 1)
        BY <4>1
      <4>3. QED
        BY <4>2 DEF a, b
    <3>3. g.pages_transferred = c.count + Len(seq)
      BY <1>14, <2>3, <3>1, <3>2
    <3>4. QED
      BY <1>8, <3>3 DEF Walked
  <2>9. Typed(dir, tk, g, c, up2, seq)
    BY <1>2, <1>4, <2>3 DEF Typed
  <2>10. Linked(dir, tk, g, c, up2, seq, D, F)
    BY <1>3, <1>4, <1>8, <1>14, <2>5, <2>6, <2>7, <2>8 DEF Linked
  <2>11. QED
    BY <1>2, <1>7, <2>2, <2>9, <2>10
<1>15. QED
  <2>1. Succeeded(g, st, <<>>, o) => down2 = down
    BY <1>6, <1>0, SentFacts, ServerFrames DEF Succeeded
  <2>2. QED
    BY <1>1, <1>3, <1>11, <1>12, <1>13, <1>14, <2>1 DEF Succeeded

\* PageData: the lowest page waited for, and only bytes come after it.
LEMMA StoredFacts ==
  ASSUME NEW dir, NEW tk, NEW f, NEW c, NEW up, NEW down,
         Typed(dir, tk, f, c, up, down),
         NEW D, NEW F, Linked(dir, tk, f, c, up, down, D, F),
         tk = "open", up # <<>>, f.saw_hello, IsData(Head(up)),
         NEW p, p = Head(up).page_no
  PROVE  /\ dir = "push" /\ f.direction = dir
         /\ p \in PageNo /\ p \in f.pending_requests
         /\ \A q \in 1 .. p - 1 : q \in D
         /\ \A i \in DOMAIN up : IsData(up[i])
         /\ Syncing(c) =>
              /\ c.pc # "hash" /\ f.completed_hash_phase
              /\ c.count = f.pages_transferred + Len(up)
<1>1. /\ Head(up) = up[1] /\ Head(up) \in ClientFrame
      /\ Len(up) \in Nat \ {0} /\ DOMAIN up = 1 .. Len(up) /\ 1 \in DOMAIN up
  BY TailFacts DEF Typed
<1>2. IsData(up[1]) /\ up[1].page_no = p
  BY <1>1
<1>3. PICK n \in 0 .. LastPage :
        Upstream(dir, f, up, n) /\ (Syncing(c) => Phases(dir, f, c, up, n))
  BY DEF Linked
<1>4. dir = "push"
  BY <1>1, <1>2, <1>3 DEF Upstream
<1>5. Requested(f, up, D) /\ FsmOK(dir, tk, f)
  BY <1>4 DEF Linked
<1>6. p \in f.pending_requests
  BY <1>1, <1>2, <1>5 DEF Requested
<1>7. p \in PageNo
  BY <1>6 DEF Typed, Fsm
<1>8. \A i \in DOMAIN up : IsData(up[i])
  <2>1. ASSUME NEW i \in DOMAIN up, ~IsData(up[i]) PROVE FALSE
    <3>1. i # 1 /\ 1 \in 1 .. i - 1
      BY <1>1, <1>2, <2>1
    <3>2. up[1].kind = "PageHash"
      BY <1>3, <2>1, <3>1 DEF Upstream
    <3>3. QED
      BY <1>2, <3>2 DEF IsData
  <2>2. QED
    BY <2>1
<1>9. ASSUME NEW q \in 1 .. p - 1 PROVE q \in D
  <2>1. p \in 1 .. n /\ n \in Nat /\ q \in Nat /\ q >= 1 /\ q < p
    BY <1>3, <1>5, <1>6, <1>7, <1>9 DEF Requested, Upstream, PageNo
  <2>2. q \in f.client_seen
    BY <1>3, <2>1 DEF Upstream
  <2>3. q \notin f.pending_requests
    <3>1. q \in f.pending_requests =>
            \E j \in 1 .. 1 - 1 : IsData(up[j]) /\ up[j].page_no = q
      BY <1>1, <1>2, <1>5, <2>1 DEF Requested
    <3>2. 1 .. 1 - 1 = {}
      OBVIOUS
    <3>3. QED
      BY <3>1, <3>2
  <2>4. QED
    BY <1>5, <2>2, <2>3 DEF Requested
<1>10. ASSUME Syncing(c)
       PROVE  /\ c.pc # "hash" /\ f.completed_hash_phase
              /\ c.count = f.pages_transferred + Len(up)
  <2>1. Phases(dir, f, c, up, n)
    BY <1>3, <1>10
  <2>2. c.pc # "hash"
    BY <1>1, <1>2, <2>1 DEF Phases, IsData
  <2>3. f.completed_hash_phase
    BY <1>8, <2>1, <2>2, FrameFields DEF Phases, IsData
  <2>4. QED
    BY <1>4, <2>1, <2>2, <2>3 DEF Phases
<1>11. QED
  BY <1>4, <1>5, <1>6, <1>7, <1>8, <1>9, <1>10 DEF FsmOK

\* One page less to wait for, one more with a row.
LEMMA StoredLinked ==
  ASSUME NEW dir, NEW tk, NEW f, NEW c, NEW up, NEW down,
         Typed(dir, tk, f, c, up, down),
         NEW D, NEW F, Linked(dir, tk, f, c, up, down, D, F),
         tk = "open", up # <<>>, f.saw_hello, IsData(Head(up)),
         NEW p, p = Head(up).page_no,
         NEW g, SamePhase(f, g), Ready(g), g.client_seen = f.client_seen,
         g.pending_requests = f.pending_requests \ {p},
         g.pages_transferred = f.pages_transferred + 1,
         NEW up2, up2 = Tail(up)
  PROVE  /\ Typed(dir, tk, g, c, up2, down)
         /\ Linked(dir, tk, g, c, up2, down, D \cup {p}, F)
<1>1. /\ up2 \in Seq(ClientFrame) /\ Len(up2) = Len(up) - 1
      /\ Len(up) \in Nat \ {0} /\ DOMAIN up = 1 .. Len(up) /\ 1 \in DOMAIN up
      /\ DOMAIN up2 = 1 .. Len(up) - 1
      /\ up[1] = Head(up)
  BY TailFacts DEF Typed
<1>2. /\ \A i \in DOMAIN up2 :
           /\ i + 1 \in DOMAIN up /\ up2[i] = up[i + 1]
           /\ up2[i].kind # "Hello"
           /\ 1 \in 1 .. (i + 1) - 1
           /\ \A j \in 1 .. i - 1 :
                j + 1 \in 1 .. (i + 1) - 1 /\ up2[j] = up[j + 1]
           /\ \A j \in 1 .. (i + 1) - 1 : j # 1 =>
                j - 1 \in 1 .. i - 1 /\ up2[j - 1] = up[j]
      /\ \A i \in DOMAIN up : i # 1 =>
           i - 1 \in DOMAIN up2 /\ up2[i - 1] = up[i]
      /\ c.pc # "hello"
  BY NextFrame
<1>3. /\ dir = "push" /\ f.direction = dir
      /\ p \in PageNo /\ p \in f.pending_requests
      /\ \A i \in DOMAIN up : IsData(up[i])
      /\ Syncing(c) =>
           /\ c.pc # "hash" /\ f.completed_hash_phase
           /\ c.count = f.pages_transferred + Len(up)
  BY StoredFacts
<1>4. up[1].page_no = p /\ IsData(up[1])
  BY <1>1
<1>5. /\ FsmOK(dir, tk, f) /\ ClientOK(dir, tk, c, down, F)
      /\ Requested(f, up, D)
      /\ Syncing(c) => InOrder(f, c, up, down) /\ Downstream(dir, tk, c, down)
  BY <1>3 DEF Linked
<1>6. FsmOK(dir, tk, g) /\ g \in Fsm
  BY <1>3, <1>5 DEF FsmOK, SamePhase, Ready
<1>7. \A i \in DOMAIN up2 : IsData(up2[i])
  BY <1>2, <1>3
<1>8. PICK n \in 0 .. LastPage :
        Upstream(dir, f, up, n) /\ (Syncing(c) => Phases(dir, f, c, up, n))
  BY DEF Linked
<1>9. Upstream(dir, g, up2, n)
  BY <1>2, <1>3, <1>7, <1>8 DEF Upstream, SamePhase, IsData
<1>10. Syncing(c) => Phases(dir, g, c, up2, n)
  <2> SUFFICES ASSUME Syncing(c) PROVE Phases(dir, g, c, up2, n)
    OBVIOUS
  <2>1. Phases(dir, f, c, up, n)
    BY <1>8
  <2>2. c.count = g.pages_transferred + Len(up2)
    <3>1. f.pages_transferred \in Nat
      BY DEF Typed, Fsm
    <3>2. f.pages_transferred + Len(up) = (f.pages_transferred + 1) + Len(up2)
      BY <1>1, <3>1
    <3>3. QED
      BY <1>3, <3>2
  <2>3. QED
    BY <1>3, <2>1, <2>2 DEF Phases, SamePhase
<1>11. Requested(g, up2, D \cup {p})
  <2>1. /\ g.client_seen \subseteq (D \cup {p}) \cup g.pending_requests
        /\ g.pending_requests \subseteq g.client_seen
    BY <1>5 DEF Requested
  <2>2. ASSUME NEW i \in DOMAIN up2
        PROVE  /\ up2[i].page_no \in g.pending_requests
               /\ \A j \in 1 .. i - 1 :
                    IsData(up2[j]) => up2[j].page_no < up2[i].page_no
               /\ \A q \in g.pending_requests : q < up2[i].page_no =>
                    \E j \in 1 .. i - 1 : IsData(up2[j]) /\ up2[j].page_no = q
    <3>1. i + 1 \in DOMAIN up /\ up2[i] = up[i + 1] /\ IsData(up[i + 1])
      BY <1>2, <1>3
    <3>2. /\ up[i + 1].page_no \in f.pending_requests
          /\ \A j \in 1 .. (i + 1) - 1 :
               IsData(up[j]) => up[j].page_no < up[i + 1].page_no
          /\ \A q \in f.pending_requests : q < up[i + 1].page_no =>
               \E j \in 1 .. (i + 1) - 1 : IsData(up[j]) /\ up[j].page_no = q
      BY <1>5, <3>1 DEF Requested
    <3>3. p < up2[i].page_no
      BY <1>2, <1>4, <3>1, <3>2
    <3>4. up2[i].page_no # p
      BY <1>3, <3>3 DEF PageNo
    <3>5. \A j \in 1 .. i - 1 :
            IsData(up2[j]) => up2[j].page_no < up2[i].page_no
      BY <1>2, <3>1, <3>2
    <3>6. ASSUME NEW q \in g.pending_requests, q < up2[i].page_no
          PROVE  \E j \in 1 .. i - 1 : IsData(up2[j]) /\ up2[j].page_no = q
      <4>1. PICK j \in 1 .. (i + 1) - 1 : IsData(up[j]) /\ up[j].page_no = q
        BY <3>1, <3>2, <3>6
      <4>2. j # 1
        BY <1>4, <3>6, <4>1
      <4>3. j - 1 \in 1 .. i - 1 /\ up2[j - 1] = up[j]
        BY <1>2, <4>2
      <4>4. QED
        BY <4>1, <4>3
    <3>7. QED
      BY <3>1, <3>2, <3>4, <3>5, <3>6
  <2>3. QED
    BY <2>1, <2>2 DEF Requested
<1>12. Syncing(c) => InOrder(g, c, up2, down)
  <2> SUFFICES ASSUME Syncing(c) PROVE InOrder(g, c, up2, down)
    OBVIOUS
  <2>1. InOrder(f, c, up, down)
    BY <1>5
  <2>2. ASSUME NEW i \in DOMAIN c.queue
        PROVE  /\ c.queue[i] \in g.pending_requests
               /\ \A j \in 1 .. i - 1 : c.queue[j] < c.queue[i]
               /\ \A j \in DOMAIN up2 :
                    IsData(up2[j]) => up2[j].page_no < c.queue[i]
    <3>1. p < c.queue[i]
      BY <1>1, <1>4, <2>1 DEF InOrder
    <3>2. c.queue[i] # p
      BY <1>3, <3>1 DEF PageNo
    <3>3. QED
      BY <1>2, <2>1, <3>2 DEF InOrder
  <2>3. ASSUME NEW i \in DOMAIN down
        PROVE  /\ down[i].page_no \in g.pending_requests
               /\ \A j \in 1 .. i - 1 : down[j].page_no < down[i].page_no
               /\ \A j \in DOMAIN c.queue : c.queue[j] < down[i].page_no
               /\ \A j \in DOMAIN up2 :
                    IsData(up2[j]) => up2[j].page_no < down[i].page_no
    <3>1. p < down[i].page_no
      BY <1>1, <1>4, <2>1 DEF InOrder
    <3>2. down[i].page_no # p
      BY <1>3, <3>1 DEF PageNo
    <3>3. QED
      BY <1>2, <2>1, <3>2 DEF InOrder
  <2>4. ASSUME NEW q \in g.pending_requests
        PROVE  \/ \E i \in DOMAIN up2 : IsData(up2[i]) /\ up2[i].page_no = q
               \/ \E i \in DOMAIN c.queue : c.queue[i] = q
               \/ \E i \in DOMAIN down : down[i].page_no = q
    <3>1. q \in f.pending_requests /\ q # p
      BY <2>4
    <3>2. ASSUME NEW i \in DOMAIN up, up[i].page_no = q
          PROVE  i - 1 \in DOMAIN up2 /\ up2[i - 1] = up[i]
      BY <1>2, <1>4, <3>1, <3>2
    <3>3. \A i \in DOMAIN up : up[i].page_no = q =>
            \E j \in DOMAIN up2 : IsData(up2[j]) /\ up2[j].page_no = q
      BY <1>7, <3>2
    <3>4. QED
      BY <2>1, <3>1, <3>3 DEF InOrder
  <2>5. QED
    BY <2>2, <2>3, <2>4 DEF InOrder
<1>13. Typed(dir, tk, g, c, up2, down)
  BY <1>1, <1>6 DEF Typed
<1>14. QED
  BY <1>2, <1>3, <1>5, <1>6, <1>9, <1>10, <1>11, <1>12, <1>13 DEF Linked

\* The last of them: there is nothing in any of the three places.
LEMMA StoredCompletes ==
  ASSUME NEW dir, NEW tk, NEW f, NEW c, NEW up, NEW down,
         Typed(dir, tk, f, c, up, down),
         NEW D, NEW F, Linked(dir, tk, f, c, up, down, D, F),
         tk = "open", up # <<>>, f.saw_hello, IsData(Head(up)),
         Syncing(c), f.pending_requests \ {Head(up).page_no} = {}
  PROVE  /\ c.pc # "hash" /\ down = <<>> /\ c.queue = <<>>
         /\ f.pages_transferred + 1 = c.count
<1> DEFINE p == Head(up).page_no
<1>1. /\ Len(up) \in Nat \ {0} /\ DOMAIN up = 1 .. Len(up) /\ 1 \in DOMAIN up
      /\ up[1] = Head(up)
  BY TailFacts DEF Typed
<1>2. /\ dir = "push" /\ p \in PageNo
      /\ \A i \in DOMAIN up : IsData(up[i])
      /\ c.pc # "hash" /\ c.count = f.pages_transferred + Len(up)
  BY StoredFacts
<1>3. Requested(f, up, D) /\ InOrder(f, c, up, down)
  BY <1>2 DEF Linked
<1>4. up[1].page_no = p /\ IsData(up[1]) /\ ~(p < p)
  BY <1>1, <1>2 DEF PageNo
<1>5. \A q \in f.pending_requests : q = p
  OBVIOUS
<1> HIDE DEF p
<1>6. down = <<>>
  <2>1. down # <<>> => 1 \in DOMAIN down
    BY TailFacts DEF Typed
  <2>2. 1 \notin DOMAIN down
    BY <1>1, <1>3, <1>4, <1>5 DEF InOrder
  <2>3. QED
    BY <2>1, <2>2
<1>7. c.queue = <<>>
  <2>1. c.queue # <<>> => 1 \in DOMAIN c.queue
    BY TailFacts DEF Typed, Cli
  <2>2. 1 \notin DOMAIN c.queue
    BY <1>1, <1>3, <1>4, <1>5 DEF InOrder
  <2>3. QED
    BY <2>1, <2>2
<1>8. Len(up) = 1
  <2>1. ASSUME 2 \in DOMAIN up PROVE FALSE
    <3>1. up[2].page_no \in f.pending_requests /\ 1 \in 1 .. 2 - 1
      BY <1>2, <1>3, <2>1 DEF Requested
    <3>2. up[1].page_no < up[2].page_no
      BY <1>2, <1>3, <1>4, <2>1, <3>1 DEF Requested
    <3>3. QED
      BY <1>4, <1>5, <3>1, <3>2
  <2>2. QED
    BY <1>1, <2>1
<1>9. QED
  BY <1>2, <1>6, <1>7, <1>8

\* Complete: nothing but bytes comes after it.
LEMMA HashedFacts ==
  ASSUME NEW dir, NEW tk, NEW f, NEW c, NEW up, NEW down,
         Typed(dir, tk, f, c, up, down),
         NEW D, NEW F, Linked(dir, tk, f, c, up, down, D, F),
         tk = "open", up # <<>>, f.saw_hello, Head(up).kind = "Complete"
  PROVE  /\ f.cursor = 0 /\ f.direction = dir
         /\ \E n \in 0 .. LastPage :
              /\ Upstream(dir, f, up, n)
              /\ Syncing(c) => Phases(dir, f, c, up, n)
              /\ Syncing(c) => n = c.max
         /\ \A i \in DOMAIN up : i # 1 <=> IsData(up[i])
         /\ Syncing(c) =>
              /\ c.pc # "hash"
              /\ dir = "push" =>
                   f.pages_transferred = 0 /\ c.count = Len(up) - 1
<1>1. /\ Head(up) = up[1] /\ Len(up) \in Nat \ {0}
      /\ DOMAIN up = 1 .. Len(up) /\ 1 \in DOMAIN up
  BY TailFacts DEF Typed
<1>2. ~IsData(up[1]) /\ up[1].kind = "Complete"
  BY <1>1 DEF IsData
<1>3. PICK n \in 0 .. LastPage :
        Upstream(dir, f, up, n) /\ (Syncing(c) => Phases(dir, f, c, up, n))
  BY DEF Linked
<1>4. ~f.completed_hash_phase
  BY <1>1, <1>2, <1>3 DEF Upstream
<1>5. f.cursor = 0 /\ f.direction = dir
  BY <1>4 DEF Linked, FsmOK, Shape
<1>6. ASSUME NEW i \in DOMAIN up, i # 1 PROVE IsData(up[i])
  <2>1. 1 \in 1 .. i - 1
    BY <1>1, <1>6
  <2>2. QED
    BY <1>2, <1>3, <2>1 DEF Upstream
<1>7. ASSUME Syncing(c)
      PROVE  /\ c.pc # "hash" /\ n = c.max
             /\ dir = "push" =>
                  f.pages_transferred = 0 /\ c.count = Len(up) - 1
  <2>1. Phases(dir, f, c, up, n)
    BY <1>3, <1>7
  <2>2. c.pc # "hash"
    BY <1>1, <1>2, <2>1 DEF Phases
  <2>3. PICK i \in DOMAIN up :
          /\ up[i] = Complete /\ n + i = c.max + 1
          /\ dir = "push" => c.count = Len(up) - i
    BY <1>4, <2>1, <2>2 DEF Phases
  <2>4. i = 1
    BY <1>6, <2>3, FrameFields DEF IsData
  <2>5. n = c.max
    BY <2>3, <2>4 DEF Typed, Cli
  <2>6. QED
    BY <1>4, <2>1, <2>2, <2>3, <2>4, <2>5 DEF Phases
<1>8. QED
  BY <1>2, <1>3, <1>5, <1>6, <1>7

LEMMA HashedLinked ==
  ASSUME NEW dir, NEW tk, NEW f, NEW c, NEW up, NEW down,
         Typed(dir, tk, f, c, up, down),
         NEW D, NEW F, Linked(dir, tk, f, c, up, down, D, F),
         tk = "open", up # <<>>, f.saw_hello, Head(up).kind = "Complete",
         NEW g, SamePages(f, g), Ready(g), g.saw_hello,
         g.pages_transferred = f.pages_transferred,
         g.completed_hash_phase,
         g.cursor = 0 \/ g.cursor = 1,
         NEW up2, up2 = Tail(up)
  PROVE  /\ Typed(dir, tk, g, c, up2, down)
         /\ Linked(dir, tk, g, c, up2, down, D, F)
<1>1. /\ up2 \in Seq(ClientFrame) /\ Len(up2) = Len(up) - 1
      /\ Len(up) \in Nat \ {0} /\ DOMAIN up = 1 .. Len(up) /\ 1 \in DOMAIN up
      /\ DOMAIN up2 = 1 .. Len(up) - 1
  BY TailFacts DEF Typed
<1>2. /\ \A i \in DOMAIN up2 :
           /\ i + 1 \in DOMAIN up /\ up2[i] = up[i + 1]
           /\ up2[i].kind # "Hello"
           /\ \A j \in 1 .. i - 1 :
                j + 1 \in 1 .. (i + 1) - 1 /\ up2[j] = up[j + 1]
           /\ \A j \in 1 .. (i + 1) - 1 : j # 1 =>
                j - 1 \in 1 .. i - 1 /\ up2[j - 1] = up[j]
      /\ \A i \in DOMAIN up : i # 1 =>
           i - 1 \in DOMAIN up2 /\ up2[i - 1] = up[i]
      /\ c.pc # "hello"
  BY NextFrame
<1>3. /\ f.direction = dir
      /\ \A i \in DOMAIN up : i # 1 <=> IsData(up[i])
      /\ Syncing(c) =>
           /\ c.pc # "hash"
           /\ dir = "push" =>
                f.pages_transferred = 0 /\ c.count = Len(up) - 1
  BY HashedFacts
<1>4. PICK n \in 0 .. LastPage :
        /\ Upstream(dir, f, up, n)
        /\ Syncing(c) => Phases(dir, f, c, up, n)
        /\ Syncing(c) => n = c.max
  BY HashedFacts
<1>5. /\ FsmOK(dir, tk, f) /\ ClientOK(dir, tk, c, down, F)
      /\ dir = "push" => Requested(f, up, D)
      /\ Syncing(c) => Downstream(dir, tk, c, down)
  BY DEF Linked
<1>6. FsmOK(dir, tk, g) /\ g \in Fsm
  BY <1>3, <1>5 DEF FsmOK, SamePages, Ready
<1>7. \A i \in DOMAIN up2 : IsData(up2[i]) /\ up2[i].kind = "PageData"
  <2>1. ASSUME NEW i \in DOMAIN up2 PROVE IsData(up2[i])
    <3>1. i + 1 # 1
      BY <1>1
    <3>2. QED
      BY <1>2, <1>3, <3>1
  <2>2. QED
    BY <2>1 DEF IsData
<1>8. Upstream(dir, g, up2, n)
  BY <1>2, <1>4, <1>7 DEF Upstream, SamePages
<1>9. Syncing(c) => Phases(dir, g, c, up2, n)
  <2> SUFFICES ASSUME Syncing(c) PROVE Phases(dir, g, c, up2, n)
    OBVIOUS
  <2>1. Phases(dir, f, c, up, n)
    BY <1>4
  <2>2. dir = "push" => c.count = g.pages_transferred + Len(up2)
    BY <1>1, <1>3
  <2>3. QED
    BY <1>3, <1>4, <2>1, <2>2 DEF Phases
<1>10. dir = "push" => Requested(g, up2, D)
  <2> SUFFICES ASSUME dir = "push" PROVE Requested(g, up2, D)
    OBVIOUS
  <2>1. Requested(f, up, D)
    BY <1>5
  <2>2. ASSUME NEW i \in DOMAIN up2, IsData(up2[i])
        PROVE  /\ up2[i].page_no \in f.pending_requests
               /\ \A j \in 1 .. i - 1 :
                    IsData(up2[j]) => up2[j].page_no < up2[i].page_no
               /\ \A q \in f.pending_requests : q < up2[i].page_no =>
                    \E j \in 1 .. i - 1 : IsData(up2[j]) /\ up2[j].page_no = q
    <3>1. i + 1 \in DOMAIN up /\ up2[i] = up[i + 1]
      BY <1>2
    <3>2. /\ up[i + 1].page_no \in f.pending_requests
          /\ \A j \in 1 .. (i + 1) - 1 :
               IsData(up[j]) => up[j].page_no < up[i + 1].page_no
          /\ \A q \in f.pending_requests : q < up[i + 1].page_no =>
               \E j \in 1 .. (i + 1) - 1 : IsData(up[j]) /\ up[j].page_no = q
      BY <2>1, <2>2, <3>1 DEF Requested
    <3>3. \A j \in 1 .. i - 1 :
            IsData(up2[j]) => up2[j].page_no < up2[i].page_no
      BY <1>2, <3>1, <3>2
    <3>4. ASSUME NEW q \in f.pending_requests, q < up2[i].page_no
          PROVE  \E j \in 1 .. i - 1 : IsData(up2[j]) /\ up2[j].page_no = q
      <4>1. PICK j \in 1 .. (i + 1) - 1 : IsData(up[j]) /\ up[j].page_no = q
        BY <3>1, <3>2, <3>4
      <4>2. j # 1
        BY <1>1, <1>3, <4>1
      <4>3. j - 1 \in 1 .. i - 1 /\ up2[j - 1] = up[j]
        BY <1>2, <4>2
      <4>4. QED
        BY <4>1, <4>3
    <3>5. QED
      BY <3>1, <3>2, <3>3, <3>4
  <2>3. QED
    BY <2>1, <2>2 DEF Requested, SamePages
<1>11. dir = "push" /\ Syncing(c) => InOrder(g, c, up2, down)
  <2> SUFFICES ASSUME dir = "push", Syncing(c)
               PROVE  InOrder(g, c, up2, down)
    OBVIOUS
  <2>1. InOrder(f, c, up, down) /\ ~IsData(up[1])
    BY <1>1, <1>3 DEF Linked
  <2>2. g.pending_requests = f.pending_requests
    BY DEF SamePages
  <2>3. Popped(up, up2)
    BY PoppedFacts DEF Typed
  <2>4. QED
    BY <2>1, <2>2, <2>3, InOrderTail
<1>12. dir = "pull" /\ Syncing(c) => Walked(g, c, down)
  <2> SUFFICES ASSUME dir = "pull", Syncing(c) PROVE Walked(g, c, down)
    OBVIOUS
  <2>1. Walked(f, c, down) /\ c.max \in Nat
    BY DEF Linked, Typed, Cli
  <2>2. g.cursor # 0 => c.max + 1 .. g.cursor - 1 = {}
    BY <2>1
  <2>3. QED
    BY <2>1, <2>2 DEF Walked
<1>13. Typed(dir, tk, g, c, up2, down)
  BY <1>1, <1>6 DEF Typed
<1>14. Syncing(c) /\ dir = "pull" => NoGap(c, down)
  BY DEF Linked
<1>15. QED
  BY <1>2, <1>5, <1>6, <1>8, <1>9, <1>10, <1>11, <1>12, <1>13, <1>14
  DEF Linked

\* Nothing is waited for: a push has been asked for nothing, and a pull has
\* been sent all it will get.
LEMMA HashedCompletes ==
  ASSUME NEW dir, NEW tk, NEW f, NEW c, NEW up, NEW down,
         Typed(dir, tk, f, c, up, down),
         NEW D, NEW F, Linked(dir, tk, f, c, up, down, D, F),
         tk = "open", up # <<>>, f.saw_hello, Head(up).kind = "Complete",
         Syncing(c), f.pending_requests = {}
  PROVE  /\ c.pc # "hash"
         /\ IF dir = "push"
            THEN /\ down = <<>> /\ c.queue = <<>>
                 /\ f.pages_transferred = c.count
            ELSE f.pages_transferred = c.count + Len(down)
<1>1. /\ Len(up) \in Nat \ {0} /\ DOMAIN up = 1 .. Len(up)
  BY TailFacts DEF Typed
<1>2. /\ c.pc # "hash"
      /\ \A i \in DOMAIN up : i # 1 <=> IsData(up[i])
      /\ dir = "push" => f.pages_transferred = 0 /\ c.count = Len(up) - 1
  BY HashedFacts
<1>3. CASE dir = "push"
  <2>1. Requested(f, up, D) /\ InOrder(f, c, up, down)
    BY <1>3 DEF Linked
  <2>2. down = <<>>
    <3>1. down # <<>> => 1 \in DOMAIN down
      BY TailFacts DEF Typed
    <3>2. QED
      BY <2>1, <3>1 DEF InOrder
  <2>3. c.queue = <<>>
    <3>1. c.queue # <<>> => 1 \in DOMAIN c.queue
      BY TailFacts DEF Typed, Cli
    <3>2. QED
      BY <2>1, <3>1 DEF InOrder
  <2>4. 2 \notin DOMAIN up
    BY <1>2, <2>1 DEF Requested
  <2>5. Len(up) = 1
    BY <1>1, <2>4
  <2>6. QED
    BY <1>2, <1>3, <2>2, <2>3, <2>5
<1>4. CASE dir # "push"
  <2>1. dir = "pull"
    BY <1>4 DEF Typed, Direction
  <2>2. Walked(f, c, down)
    BY <2>1 DEF Linked
  <2>3. QED
    BY <1>2, <1>4, <2>2 DEF Walked
<1>5. QED
  BY <1>3, <1>4

\* A walk is a pull's, past its hash phase, and can only end at the gate.
LEMMA WalkFacts ==
  ASSUME NEW dir, NEW tk, NEW f, NEW c, NEW up, NEW down,
         Typed(dir, tk, f, c, up, down),
         NEW D, NEW F, Linked(dir, tk, f, c, up, down, D, F),
         tk = "open", f.cursor # 0
  PROVE  /\ dir = "pull" /\ f.direction = dir /\ f.saw_hello
         /\ f.completed_hash_phase /\ ~f.emitted_complete
         /\ f.pending_requests = {} /\ c.pc # "hello"
         /\ Syncing(c) =>
              /\ c.pc # "hash" /\ f.client_seen = 1 .. c.max
              /\ f.pages_transferred = c.count + Len(down)
<1>1. FsmOK(dir, tk, f)
  BY DEF Linked
<1>2. /\ dir = "pull" /\ f.direction = dir
      /\ f.completed_hash_phase /\ ~f.emitted_complete
      /\ f.pending_requests = {}
  BY <1>1 DEF FsmOK, Shape
<1>3. f.saw_hello
  <2>1. new(dir).cursor = 0
    BY DEF new
  <2>2. QED
    BY <1>1, <2>1 DEF FsmOK
<1>4. c.pc # "hello"
  BY <1>2, <1>3 DEF Linked, Greeting
<1>5. ASSUME Syncing(c)
      PROVE  /\ c.pc # "hash" /\ f.client_seen = 1 .. c.max
             /\ f.pages_transferred = c.count + Len(down)
  <2>1. PICK n \in 0 .. LastPage :
          Upstream(dir, f, up, n) /\ Phases(dir, f, c, up, n)
    BY <1>5 DEF Linked
  <2>2. c.pc # "hash" /\ n = c.max
    BY <1>2, <2>1 DEF Phases
  <2>3. f.client_seen = 1 .. c.max
    BY <2>1, <2>2 DEF Upstream
  <2>4. Walked(f, c, down)
    BY <1>2, <1>5 DEF Linked
  <2>5. QED
    BY <2>2, <2>3, <2>4 DEF Walked
<1>6. QED
  BY <1>2, <1>3, <1>4, <1>5

\* What lies below the page that the walk sends next has been sent, for the
\* table has no hole.
LEMMA WalkGap ==
  ASSUME NEW dir, NEW tk, NEW f, NEW c, NEW up, NEW down,
         Typed(dir, tk, f, c, up, down),
         NEW D \in SUBSET PageNo, IsPrefix1(D),
         NEW F, Linked(dir, tk, f, c, up, down, D, F),
         tk = "open", f.cursor # 0, Syncing(c),
         NEW st, D = DOMAIN st,
         NEW p \in Unclaimed(f, st), \A q \in Unclaimed(f, st) : p <= q
  PROVE  /\ p \in D /\ p \in PageNo
         /\ \A q \in c.max + 1 .. p - 1 : Brought(c, down, Len(down), q)
<1> DEFINE U == Unclaimed(f, st)
<1>1. U = {q \in f.cursor .. f.server_max_page : q \in D \ f.client_seen}
  BY DEF Unclaimed
<1>2. p \in U /\ \A q \in U : p <= q
  OBVIOUS
<1> HIDE DEF U
<1>3. /\ dir = "pull" /\ f.client_seen = 1 .. c.max
  BY WalkFacts
<1>4. /\ p \in f.cursor .. f.server_max_page /\ p \in D
      /\ p \in PageNo /\ p \in Nat
  BY <1>1, <1>2 DEF PageNo
<1>5. f.cursor \in Nat /\ f.server_max_page \in Nat /\ c.max \in Nat
  BY LastPageAssumption DEF Typed, Fsm, Cli
<1>6. \A q \in c.max + 1 .. f.cursor - 1 : Brought(c, down, Len(down), q)
  BY <1>3 DEF Linked, Walked
<1>7. ASSUME NEW q \in c.max + 1 .. p - 1
      PROVE  Brought(c, down, Len(down), q)
  <2>1. /\ q \in Nat /\ q >= 1 /\ q < p /\ q > c.max /\ ~(p <= q)
    BY <1>4, <1>5, <1>7
  <2>2. q < f.cursor
    <3> SUFFICES ASSUME ~(q < f.cursor) PROVE FALSE
      OBVIOUS
    <3>1. q \in f.cursor .. f.server_max_page
      BY <1>4, <1>5, <2>1
    <3>2. q \in D
      <4>1. D = 1 .. Cardinality(D) /\ Cardinality(D) \in Nat
        BY PrefixInterval
      <4>2. QED
        BY <1>4, <2>1, <4>1
    <3>3. q \notin f.client_seen
      BY <1>3, <1>5, <2>1
    <3>4. q \in U
      BY <1>1, <3>1, <3>2, <3>3
    <3>5. QED
      BY <1>2, <2>1, <3>4
  <2>3. q \in c.max + 1 .. f.cursor - 1
    BY <1>5, <2>1, <2>2
  <2>4. QED
    BY <1>6, <2>3
<1>8. QED
  BY <1>4, <1>7

LEMMA WalksLinked ==
  ASSUME NEW dir, NEW tk, NEW f, NEW c, NEW up, NEW down,
         Typed(dir, tk, f, c, up, down),
         NEW D, NEW F, Linked(dir, tk, f, c, up, down, D, F),
         tk = "open", f.cursor # 0,
         NEW p \in PageNo, NEW d \in Content,
         Syncing(c) =>
           \A q \in c.max + 1 .. p - 1 : Brought(c, down, Len(down), q),
         NEW g, SamePages(f, g), Ready(g), g.saw_hello = f.saw_hello,
         g.completed_hash_phase = f.completed_hash_phase,
         g.cursor = p + 1,
         g.pages_transferred = f.pages_transferred + 1,
         NEW down2, down2 = Sent(c, down, <<PageData(p, d)>>)
  PROVE  /\ Typed(dir, tk, g, c, up, down2)
         /\ Linked(dir, tk, g, c, up, down2, D, F)
<1> DEFINE M == PageData(p, d)
<1>1. /\ M \in ServerFrame /\ M.kind = "PageData" /\ M.page_no = p
      /\ IsData(M)
  BY DEF ServerFrame, PageData, IsData
<1>2. down2 = Sent(c, down, <<M>>)
  OBVIOUS
<1> HIDE DEF M
<1>3. /\ dir = "pull" /\ f.direction = dir /\ f.saw_hello
      /\ f.completed_hash_phase
      /\ c.pc # "hello"
      /\ Syncing(c) =>
           c.pc # "hash" /\ f.pages_transferred = c.count + Len(down)
  BY WalkFacts
<1>4. /\ FsmOK(dir, tk, f) /\ ClientOK(dir, tk, c, down, F)
      /\ Syncing(c) => Downstream(dir, tk, c, down) /\ NoGap(c, down)
  BY <1>3 DEF Linked
<1>5. FsmOK(dir, tk, g) /\ g \in Fsm
  BY <1>3, <1>4 DEF FsmOK, SamePages, Ready
<1>6. PICK n \in 0 .. LastPage :
        Upstream(dir, f, up, n) /\ (Syncing(c) => Phases(dir, f, c, up, n))
  BY DEF Linked
<1>7. Upstream(dir, g, up, n)
  BY <1>6 DEF Upstream, SamePages
<1>8. Syncing(c) => Phases(dir, g, c, up, n)
  BY <1>3, <1>6 DEF Phases
<1>9. down \in Seq(ServerFrame) /\ Len(down) \in Nat /\ DOMAIN down = 1 .. Len(down)
  BY DEF Typed
<1>10. down2 \in Seq(ServerFrame) /\ (~Running(c) => down2 = down)
  BY <1>1, <1>2, <1>9, SentFacts
<1>11. ClientOK(dir, tk, c, down2, F)
  BY <1>3, <1>4, <1>10 DEF ClientOK
<1>12. ASSUME Syncing(c)
       PROVE  /\ Downstream(dir, tk, c, down2)
              /\ NoGap(c, down2) /\ Walked(g, c, down2)
  <2>1. down2 = Append(down, M)
    BY <1>1, <1>2, <1>9, <1>12, SentFacts DEF Running, Syncing
  <2>2. /\ Len(down2) = Len(down) + 1
        /\ DOMAIN down2 = 1 .. Len(down) + 1
        /\ \A i \in 1 .. Len(down) : down2[i] = down[i]
        /\ down2[Len(down) + 1] = M
    BY <1>1, <1>9, <2>1, AppendFacts
  <2>3. /\ \A i \in DOMAIN down2 :
             /\ \/ i \in DOMAIN down /\ down2[i] = down[i]
                \/ i = Len(down) + 1 /\ down2[i] = M
             /\ \A j \in 1 .. i - 1 : j \in DOMAIN down /\ down2[j] = down[j]
        /\ \A i \in DOMAIN down : i \in DOMAIN down2 /\ down2[i] = down[i]
        /\ Len(down) + 1 \in DOMAIN down2
    BY <1>9, <2>2
  <2>4. Downstream(dir, tk, c, down2)
    <3>1. \A i \in DOMAIN down : down[i].kind = "PageData"
      BY <1>3, <1>4, <1>12, OpenDownstream
    <3>2. \A i \in DOMAIN down2 : down2[i].kind = "PageData"
      BY <1>1, <2>3, <3>1
    <3>3. QED
      BY <1>3, <3>2, OpenDownstream
  <2>5. \A q \in c.max + 1 .. p - 1 : Brought(c, down, Len(down), q)
    BY <1>12
  <2>6. NoGap(c, down2)
    <3>1. NoGap(c, down)
      BY <1>4, <1>12
    <3>2. ASSUME NEW i \in DOMAIN down2, IsData(down2[i]),
                 NEW q \in c.max + 1 .. down2[i].page_no - 1
          PROVE  Brought(c, down2, i - 1, q)
      <4>1. CASE i \in DOMAIN down /\ down2[i] = down[i]
        <5>1. Brought(c, down, i - 1, q)
          BY <3>1, <3>2, <4>1 DEF NoGap
        <5>2. QED
          BY <2>3, <5>1 DEF Brought
      <4>2. CASE i = Len(down) + 1 /\ down2[i] = M
        <5>1. Brought(c, down, Len(down), q)
          BY <1>1, <2>5, <3>2, <4>2
        <5>2. i - 1 = Len(down)
          BY <1>9, <4>2
        <5>3. QED
          BY <2>3, <5>1, <5>2 DEF Brought
      <4>3. QED
        BY <2>3, <4>1, <4>2
    <3>3. QED
      BY <3>1, <3>2 DEF NoGap
  <2>7. Walked(g, c, down2)
    <3>1. g.pages_transferred = c.count + Len(down2)
      <4> DEFINE a == c.count
                 b == Len(down)
      <4>1. a \in Nat /\ b \in Nat
        BY <1>9 DEF Typed, Cli
      <4>2. f.pages_transferred = a + b
        BY <1>3, <1>12
      <4> HIDE DEF a, b
      <4>3. (a + b) + 1 = a + (b + 1)
        BY <4>1
      <4>4. g.pages_transferred = a + (b + 1)
        BY <4>2, <4>3
      <4>5. QED
        BY <2>2, <4>4 DEF a, b
    <3>2. ASSUME NEW q \in c.max + 1 .. g.cursor - 1
          PROVE  Brought(c, down2, Len(down2), q)
      <4>1. q = p \/ q \in c.max + 1 .. p - 1
        BY <3>2 DEF PageNo, Typed, Cli
      <4>2. CASE q = p
        <5>1. Len(down) + 1 \in 1 .. Len(down2)
          BY <1>9, <2>2
        <5>2. QED
          BY <1>1, <2>2, <4>2, <5>1 DEF Brought
      <4>3. CASE q \in c.max + 1 .. p - 1
        <5>1. Brought(c, down, Len(down), q)
          BY <2>5, <4>3
        <5>2. \A j \in 1 .. Len(down) : j \in 1 .. Len(down2)
          BY <1>9, <2>2
        <5>3. QED
          BY <2>2, <5>1, <5>2 DEF Brought
      <4>4. QED
        BY <4>1, <4>2, <4>3
    <3>3. QED
      BY <3>1, <3>2 DEF Walked
  <2>8. QED
    BY <2>4, <2>6, <2>7
<1>13. Typed(dir, tk, g, c, up, down2)
  BY <1>5, <1>10 DEF Typed
<1>14. QED
  BY <1>3, <1>4, <1>5, <1>7, <1>8, <1>11, <1>12, <1>13 DEF Linked

-----------------------------------------------------------------------------
(* Settle, for one session.                                                *)

\* The task, the frames it has yet to read and the frame it sends, when the
\* apply that left `unread` has had the outcome o.
Settles(o, unread, tk2, up2, out) ==
  LET returns == o.res # "ok" \/ (Idle(o.fsm) /\ done(o.fsm))
  IN  /\ returns => tk2 = "closed" /\ up2 = <<>>
      /\ ~returns => tk2 = "open" /\ up2 = unread
      /\ o.res = "err" => out \in {<<>>, <<Error>>}
      /\ o.res # "err" => out = o.out

LEMMA SettlesOpen ==
  ASSUME NEW o, o.res = "ok", ~o.fsm.emitted_complete,
         NEW unread, NEW tk2, NEW up2, NEW out,
         Settles(o, unread, tk2, up2, out)
  PROVE  tk2 = "open" /\ up2 = unread /\ out = o.out
BY DEF Settles, done

LEMMA SettlesFailed ==
  ASSUME NEW dir, NEW tk, NEW f, NEW c, NEW up, NEW down,
         Typed(dir, tk, f, c, up, down),
         NEW D, NEW F, Linked(dir, tk, f, c, up, down, D, F),
         tk = "open", up # <<>> \/ f.cursor # 0,
         NEW o, o.res # "ok", o.out = <<>>,
         Shape(o.fsm), o.fsm.direction = dir, o.fsm.rest = <<>>,
         NEW unread, NEW tk2, NEW up2, NEW out,
         Settles(o, unread, tk2, up2, out),
         NEW down2, down2 = Sent(c, down, out)
  PROVE  /\ Typed(dir, tk2, o.fsm, c, up2, down2)
         /\ Linked(dir, tk2, o.fsm, c, up2, down2, D, F)
<1>1. /\ tk2 = "closed" /\ up2 = <<>> /\ out \in {<<>>, <<Error>>}
      /\ out = <<>> \/ up # <<>> \/ f.cursor # 0
  BY DEF Settles
<1> DEFINE g == o.fsm
<1>2. Shape(g) /\ g.direction = dir /\ g.rest = <<>>
  OBVIOUS
<1> HIDE DEF g
<1>3. /\ Typed(dir, "closed", g, c, <<>>, down2)
      /\ Linked(dir, "closed", g, c, <<>>, down2, D, F)
  BY <1>1, <1>2, FailedLinked
<1>4. QED
  BY <1>1, <1>3 DEF g

LEMMA SettlesCompleted ==
  ASSUME NEW dir, NEW tk, NEW f, NEW c, NEW up, NEW down,
         Typed(dir, tk, f, c, up, down),
         NEW D, NEW F, Linked(dir, tk, f, c, up, down, D, F),
         tk = "open",
         NEW k \in Nat,
         c.pc # "hello",
         Syncing(c) =>
           /\ c.pc # "hash"
           /\ IF dir = "push"
              THEN down = <<>> /\ c.queue = <<>> /\ k = c.count
              ELSE k = c.count + Len(down),
         NEW o, o.res = "ok", o.out = <<SyncComplete(k)>>,
         o.fsm.emitted_complete,
         Shape(o.fsm), o.fsm.direction = dir, o.fsm.rest = <<>>,
         NEW unread, NEW tk2, NEW up2, NEW out,
         Settles(o, unread, tk2, up2, out),
         NEW down2, down2 = Sent(c, down, out)
  PROVE  /\ Typed(dir, tk2, o.fsm, c, up2, down2)
         /\ Linked(dir, tk2, o.fsm, c, up2, down2, D, F)
<1>1. Idle(o.fsm) /\ done(o.fsm)
  BY DEF Shape, Idle, done
<1>2. tk2 = "closed" /\ up2 = <<>> /\ out = <<SyncComplete(k)>>
  BY <1>1 DEF Settles
<1> DEFINE g == o.fsm
<1>3. /\ Shape(g) /\ g.direction = dir /\ g.rest = <<>>
      /\ down2 = Sent(c, down, <<SyncComplete(k)>>)
  BY <1>2
<1> HIDE DEF g
<1>4. /\ Typed(dir, "closed", g, c, <<>>, down2)
      /\ Linked(dir, "closed", g, c, <<>>, down2, D, F)
  BY <1>3, CompletedLinked
<1>5. QED
  BY <1>2, <1>4 DEF g

LEMMA HelloSettles ==
  ASSUME NEW dir, NEW tk, NEW f, NEW c, NEW up, NEW down,
         Typed(dir, tk, f, c, up, down),
         NEW D, NEW F, Linked(dir, tk, f, c, up, down, D, F),
         tk = "open", up # <<>>, ~f.saw_hello,
         NEW st, NEW o, Failed(f, st, o) \/ Greeted(f, st, o),
         Legal(f, st, o),
         NEW tk2, NEW up2, NEW out, Settles(o, Tail(up), tk2, up2, out),
         NEW down2, down2 = Sent(c, down, out)
  PROVE  /\ Typed(dir, tk2, o.fsm, c, up2, down2)
         /\ Linked(dir, tk2, o.fsm, c, up2, down2, D, F)
         /\ o.pages = st
<1>1. /\ FsmOK(dir, tk, f) /\ f.rest = <<>> /\ f.direction = dir
      /\ f.emitted_complete = FALSE
  BY DEF Linked, FsmOK, new
<1>2. Shape(o.fsm) /\ o.fsm.direction = dir
  BY <1>1 DEF Legal
<1>3. CASE Failed(f, st, o)
  <2>1. /\ o.res # "ok" /\ o.out = <<>> /\ o.fsm.rest = <<>>
        /\ o.pages = st
    BY <1>1, <1>3 DEF Failed
  <2>2. QED
    BY <1>2, <2>1, SettlesFailed
<1>4. CASE Greeted(f, st, o)
  <2>0. PICK g : \E k \in 0 .. LastPage :
          /\ SamePages(f, g) /\ g.pages_transferred = f.pages_transferred
          /\ g.saw_hello /\ g.completed_hash_phase = f.completed_hash_phase
          /\ Succeeded(g, st, <<HelloReply(k)>>, o)
    BY <1>4 DEF Greeted
  <2>1. PICK k \in 0 .. LastPage :
          /\ SamePages(f, g) /\ g.pages_transferred = f.pages_transferred
          /\ g.saw_hello /\ g.completed_hash_phase = f.completed_hash_phase
          /\ Succeeded(g, st, <<HelloReply(k)>>, o)
    BY <2>0
  <2>2. /\ o.res = "ok" /\ o.fsm = g /\ o.pages = st
        /\ o.out = <<HelloReply(k)>>
    BY <2>1 DEF Succeeded
  <2>3. ~g.emitted_complete
    <3>1. f.completed_hash_phase = FALSE
      BY <1>1 DEF FsmOK, new
    <3>2. QED
      BY <1>2, <2>1, <2>2, <3>1 DEF Shape
  <2>4. tk2 = "open" /\ up2 = Tail(up) /\ out = <<HelloReply(k)>>
    BY <2>2, <2>3, SettlesOpen
  <2>5. Ready(g)
    BY <2>2, <2>3 DEF Legal, done
  <2>6. /\ Typed(dir, tk, g, c, up2, down2)
        /\ Linked(dir, tk, g, c, up2, down2, D, F)
    BY <2>1, <2>4, <2>5, GreetedLinked
  <2>7. QED
    BY <2>2, <2>4, <2>6
<1>5. QED
  BY <1>3, <1>4

LEMMA PageHashSettles ==
  ASSUME NEW dir, NEW tk, NEW f, NEW c, NEW up, NEW down,
         Typed(dir, tk, f, c, up, down),
         NEW st \in Pages, NEW F,
         Linked(dir, tk, f, c, up, down, DOMAIN st, F),
         tk = "open", up # <<>>, f.saw_hello, Head(up).kind = "PageHash",
         ~f.emitted_complete,
         NEW o, Failed(f, st, o) \/ Claimed(f, st, Head(up).page_no, o),
         Legal(f, st, o),
         NEW tk2, NEW up2, NEW out, Settles(o, Tail(up), tk2, up2, out),
         NEW down2, down2 = Sent(c, down, out)
  PROVE  /\ Typed(dir, tk2, o.fsm, c, up2, down2)
         /\ Linked(dir, tk2, o.fsm, c, up2, down2, DOMAIN st, F)
         /\ o.pages = st
<1>1. f.rest = <<>> /\ f.direction = dir
  BY DEF Linked, FsmOK
<1>2. Shape(o.fsm) /\ o.fsm.direction = dir
  BY <1>1 DEF Legal
<1>3. CASE Failed(f, st, o)
  <2> DEFINE D == DOMAIN st
  <2>1. Linked(dir, tk, f, c, up, down, D, F)
    OBVIOUS
  <2> HIDE DEF D
  <2>2. /\ o.res # "ok" /\ o.out = <<>> /\ o.fsm.rest = <<>>
        /\ o.pages = st
    BY <1>1, <1>3 DEF Failed
  <2>3. /\ Typed(dir, tk2, o.fsm, c, up2, down2)
        /\ Linked(dir, tk2, o.fsm, c, up2, down2, D, F)
    BY <1>2, <2>1, <2>2, SettlesFailed
  <2>4. QED
    BY <2>2, <2>3 DEF D
<1>4. CASE Claimed(f, st, Head(up).page_no, o)
  <2>1. PICK g : /\ SamePhase(f, g) /\ o.res = "ok" /\ o.fsm = g
                 /\ o.pages = st
    BY <1>4 DEF Claimed, Succeeded
  <2>2. ~o.fsm.emitted_complete
    BY <2>1 DEF SamePhase
  <2>3. tk2 = "open" /\ up2 = Tail(up) /\ out = o.out
    BY <2>1, <2>2, SettlesOpen
  <2>4. Ready(o.fsm)
    BY <2>1, <2>2 DEF Legal, done
  <2>5. down2 = Sent(c, down, o.out)
    BY <2>3
  <2>6. /\ Typed(dir, tk, o.fsm, c, up2, down2)
        /\ Linked(dir, tk, o.fsm, c, up2, down2, DOMAIN st, F)
    BY <1>4, <2>3, <2>4, <2>5, ClaimedLinked
  <2>7. QED
    BY <2>1, <2>3, <2>6
<1>5. QED
  BY <1>3, <1>4

\* The rows after page p has been stored.
WithRow(D, p, E) == D \subseteq E /\ p \in E

LEMMA PageDataSettles ==
  ASSUME NEW dir, NEW tk, NEW f, NEW c, NEW up, NEW down,
         Typed(dir, tk, f, c, up, down),
         NEW D, NEW F, Linked(dir, tk, f, c, up, down, D, F),
         tk = "open", up # <<>>, f.saw_hello, IsData(Head(up)),
         ~f.emitted_complete,
         NEW st, NEW tt, NEW o, Stored(f, tt, Head(up).page_no, o),
         Legal(f, st, o),
         NEW tk2, NEW up2, NEW out, Settles(o, Tail(up), tk2, up2, out),
         NEW down2, down2 = Sent(c, down, out),
         NEW E, WithRow(D, Head(up).page_no, E)
  PROVE  /\ Typed(dir, tk2, o.fsm, c, up2, down2)
         /\ Linked(dir, tk2, o.fsm, c, up2, down2, E, F)
<1>1. f.rest = <<>> /\ f.direction = dir
  BY DEF Linked, FsmOK
<1>2. Shape(o.fsm) /\ o.fsm.direction = dir
  BY <1>1 DEF Legal
<1> DEFINE p == Head(up).page_no
<1>3. D \subseteq E /\ p \in E
  BY DEF WithRow
<1>4. PICK g : /\ SamePhase(f, g) /\ g.client_seen = f.client_seen
               /\ g.pending_requests = f.pending_requests \ {p}
               /\ g.pages_transferred = f.pages_transferred + 1
               /\ Gated(g, tt, o)
  BY DEF Stored
<1>5. g.rest = <<>> /\ ~g.emitted_complete
  BY <1>1, <1>4 DEF SamePhase
<1>6. CASE ~MayComplete(g) /\ Succeeded(g, tt, <<>>, o)
  <2>1. /\ o.res = "ok" /\ o.fsm = g /\ o.pages = tt /\ o.out = <<>>
    BY <1>6 DEF Succeeded
  <2>2. tk2 = "open" /\ up2 = Tail(up) /\ out = <<>>
    BY <1>5, <2>1, SettlesOpen
  <2>3. Ready(g)
    BY <1>5, <2>1 DEF Legal, done
  <2>4. down2 = down
    BY <2>2, ConcatEmptySeq DEF Sent, Typed
  <2>5. /\ Typed(dir, tk, g, c, up2, down)
        /\ Linked(dir, tk, g, c, up2, down, D \cup {p}, F)
    BY <1>4, <2>2, <2>3, StoredLinked
  <2> DEFINE E1 == D \cup {p}
  <2>6. E1 \subseteq E
    BY <1>3
  <2> HIDE DEF E1
  <2>7. Linked(dir, tk, g, c, up2, down, E, F)
    BY <2>5, <2>6, LinkedMonotone DEF E1
  <2>8. QED
    BY <2>1, <2>2, <2>4, <2>5, <2>7
<1>7. CASE /\ MayComplete(g) /\ o.res = "ok" /\ o.pages = tt
           /\ o.fsm.rest = g.rest /\ o.fsm.emitted_complete
           /\ o.out = <<SyncComplete(g.pages_transferred)>>
  <2> DEFINE k == g.pages_transferred
  <2>1. k \in Nat
    BY <1>4 DEF SamePhase, Fsm
  <2>2. c.pc # "hello"
    BY NextFrame
  <2>3. f.pending_requests \ {Head(up).page_no} = {}
    BY <1>4, <1>7 DEF MayComplete
  <2>4. Syncing(c) =>
          c.pc # "hash" /\ down = <<>> /\ c.queue = <<>> /\ k = c.count
    BY <1>4, <2>3, StoredCompletes
  <2>5. dir = "push"
    BY StoredFacts
  <2>6. o.out = <<SyncComplete(k)>> /\ o.fsm.rest = <<>>
    BY <1>5, <1>7
  <2> HIDE DEF k
  <2>7. /\ Typed(dir, tk2, o.fsm, c, up2, down2)
        /\ Linked(dir, tk2, o.fsm, c, up2, down2, D, F)
    BY <1>2, <1>7, <2>1, <2>2, <2>4, <2>5, <2>6, SettlesCompleted
  <2>8. Linked(dir, tk2, o.fsm, c, up2, down2, E, F)
    BY <1>3, <2>7, LinkedMonotone
  <2>9. QED
    BY <1>7, <2>7, <2>8
<1>8. QED
  BY <1>4, <1>6, <1>7 DEF Gated

LEMMA CompleteSettles ==
  ASSUME NEW dir, NEW tk, NEW f, NEW c, NEW up, NEW down,
         Typed(dir, tk, f, c, up, down),
         NEW D, NEW F, Linked(dir, tk, f, c, up, down, D, F),
         tk = "open", up # <<>>, f.saw_hello, Head(up).kind = "Complete",
         ~f.emitted_complete,
         NEW st, NEW o, Failed(f, st, o) \/ Hashed(f, st, o),
         Legal(f, st, o),
         NEW tk2, NEW up2, NEW out, Settles(o, Tail(up), tk2, up2, out),
         NEW down2, down2 = Sent(c, down, out)
  PROVE  /\ Typed(dir, tk2, o.fsm, c, up2, down2)
         /\ Linked(dir, tk2, o.fsm, c, up2, down2, D, F)
         /\ o.pages = st
<1>1. f.rest = <<>> /\ f.direction = dir /\ f.cursor = 0
  <2>1. f.cursor = 0
    BY HashedFacts
  <2>2. QED
    BY <2>1 DEF Linked, FsmOK
<1>2. Shape(o.fsm) /\ o.fsm.direction = dir
  BY <1>1 DEF Legal
<1>3. CASE Failed(f, st, o)
  <2>1. /\ o.res # "ok" /\ o.out = <<>> /\ o.fsm.rest = <<>>
        /\ o.pages = st
    BY <1>1, <1>3 DEF Failed
  <2>2. QED
    BY <1>2, <2>1, SettlesFailed
<1>4. CASE Hashed(f, st, o)
  <2>1. PICK g :
          /\ SamePages(f, g) /\ g.pages_transferred = f.pages_transferred
          /\ g.saw_hello = f.saw_hello /\ g.completed_hash_phase
          /\ g.emitted_complete = f.emitted_complete
          /\ \/ g.cursor = f.cursor /\ Gated(g, st, o)
             \/ g.cursor = 1 /\ Succeeded(g, st, <<>>, o)
    BY <1>4 DEF Hashed
  <2>2. g.rest = <<>> /\ ~g.emitted_complete
    BY <1>1, <2>1 DEF SamePages
  <2>3. CASE /\ Succeeded(g, st, <<>>, o)
             /\ g.cursor = 0 \/ g.cursor = 1
    <3>1. /\ o.res = "ok" /\ o.fsm = g /\ o.pages = st /\ o.out = <<>>
      BY <2>3 DEF Succeeded
    <3>2. tk2 = "open" /\ up2 = Tail(up) /\ out = <<>>
      BY <2>2, <3>1, SettlesOpen
    <3>3. Ready(g)
      BY <2>2, <3>1 DEF Legal, done
    <3>4. down2 = down
      BY <3>2, ConcatEmptySeq DEF Sent, Typed
    <3>5. /\ Typed(dir, tk, g, c, up2, down)
          /\ Linked(dir, tk, g, c, up2, down, D, F)
      BY <2>1, <2>3, <3>2, <3>3, HashedLinked
    <3>6. QED
      BY <3>1, <3>2, <3>4, <3>5
  <2>4. CASE /\ MayComplete(g) /\ o.res = "ok" /\ o.pages = st
             /\ o.fsm.rest = g.rest /\ o.fsm.emitted_complete
             /\ o.out = <<SyncComplete(g.pages_transferred)>>
    <3> DEFINE k == g.pages_transferred
    <3>1. k \in Nat
      BY <2>1 DEF SamePages, Fsm
    <3>2. c.pc # "hello"
      BY NextFrame
    <3>3. f.pending_requests = {}
      BY <2>1, <2>4 DEF MayComplete, SamePages
    <3>4. Syncing(c) =>
            /\ c.pc # "hash"
            /\ IF dir = "push"
               THEN down = <<>> /\ c.queue = <<>> /\ k = c.count
               ELSE k = c.count + Len(down)
      BY <2>1, <3>3, HashedCompletes
    <3>5. o.out = <<SyncComplete(k)>> /\ o.fsm.rest = <<>>
      BY <2>2, <2>4
    <3> HIDE DEF k
    <3>6. /\ Typed(dir, tk2, o.fsm, c, up2, down2)
          /\ Linked(dir, tk2, o.fsm, c, up2, down2, D, F)
      BY <1>2, <2>4, <3>1, <3>2, <3>4, <3>5, SettlesCompleted
    <3>7. QED
      BY <2>4, <3>6
  <2>5. QED
    BY <1>1, <2>1, <2>3, <2>4 DEF Gated
<1>5. QED
  BY <1>3, <1>4

LEMMA WalkSettles ==
  ASSUME NEW dir, NEW tk, NEW f, NEW c, NEW up, NEW down,
         Typed(dir, tk, f, c, up, down),
         NEW D \in SUBSET PageNo, IsPrefix1(D),
         NEW F, Linked(dir, tk, f, c, up, down, D, F),
         tk = "open", f.cursor # 0,
         NEW st \in Pages, D = DOMAIN st,
         NEW o, Failed(f, st, o) \/ Walks(f, st, o),
         Legal(f, st, o),
         NEW tk2, NEW up2, NEW out, Settles(o, up, tk2, up2, out),
         NEW down2, down2 = Sent(c, down, out)
  PROVE  /\ Typed(dir, tk2, o.fsm, c, up2, down2)
         /\ Linked(dir, tk2, o.fsm, c, up2, down2, D, F)
         /\ o.pages = st
<1>1. f.rest = <<>> /\ f.direction = dir
  BY DEF Linked, FsmOK
<1>2. Shape(o.fsm) /\ o.fsm.direction = dir
  BY <1>1 DEF Legal
<1>3. /\ dir = "pull" /\ f.completed_hash_phase /\ ~f.emitted_complete
      /\ f.pending_requests = {} /\ c.pc # "hello"
      /\ Syncing(c) =>
           c.pc # "hash" /\ f.pages_transferred = c.count + Len(down)
  BY WalkFacts
<1>4. CASE Failed(f, st, o)
  <2>1. /\ o.res # "ok" /\ o.out = <<>> /\ o.fsm.rest = <<>>
        /\ o.pages = st
    BY <1>1, <1>4 DEF Failed
  <2>2. QED
    BY <1>2, <2>1, SettlesFailed
<1>5. CASE Walks(f, st, o)
  <2>1. PICK g :
          /\ SamePages(f, g) /\ g.saw_hello = f.saw_hello
          /\ g.completed_hash_phase = f.completed_hash_phase
          /\ g.emitted_complete = f.emitted_complete
          /\ \/ /\ g.pages_transferred = f.pages_transferred
                /\ Gated(g, st, o)
             \/ \E p \in Unclaimed(f, st) :
                  /\ \A q \in Unclaimed(f, st) : p <= q
                  /\ g.cursor = p + 1
                  /\ g.pages_transferred = f.pages_transferred + 1
                  /\ Succeeded(g, st, <<PageData(p, st[p].data)>>, o)
    BY <1>5 DEF Walks
  <2>2. g.rest = <<>> /\ ~g.emitted_complete
    BY <1>1, <1>3, <2>1 DEF SamePages
  <2>3. ASSUME NEW p \in Unclaimed(f, st),
               \A q \in Unclaimed(f, st) : p <= q,
               g.cursor = p + 1,
               g.pages_transferred = f.pages_transferred + 1,
               Succeeded(g, st, <<PageData(p, st[p].data)>>, o)
        PROVE  /\ Typed(dir, tk2, o.fsm, c, up2, down2)
               /\ Linked(dir, tk2, o.fsm, c, up2, down2, D, F)
               /\ o.pages = st
    <3> DEFINE d == st[p].data
    <3>1. /\ o.res = "ok" /\ o.fsm = g /\ o.pages = st
          /\ o.out = <<PageData(p, d)>>
      BY <2>3 DEF Succeeded
    <3>2. tk2 = "open" /\ up2 = up /\ out = <<PageData(p, d)>>
      BY <2>2, <3>1, SettlesOpen
    <3>3. Ready(g)
      BY <2>2, <3>1 DEF Legal, done
    <3>4. p \in PageNo /\ d \in Content
      BY RowData DEF Unclaimed
    <3>5. ASSUME Syncing(c)
          PROVE  \A q \in c.max + 1 .. p - 1 : Brought(c, down, Len(down), q)
      BY <2>3, <3>5, WalkGap
    <3>6. down2 = Sent(c, down, <<PageData(p, d)>>)
      BY <3>2
    <3> HIDE DEF d
    <3>7. /\ Typed(dir, tk, g, c, up, down2)
          /\ Linked(dir, tk, g, c, up, down2, D, F)
      BY <2>1, <2>3, <3>3, <3>4, <3>5, <3>6, WalksLinked
    <3>8. QED
      BY <3>1, <3>2, <3>7
  <2>4. CASE /\ g.pages_transferred = f.pages_transferred
             /\ Gated(g, st, o)
    <3> DEFINE k == g.pages_transferred
    <3>1. MayComplete(g)
      BY <1>3, <2>1, <2>2 DEF MayComplete, SamePages
    <3>2. /\ o.res = "ok" /\ o.pages = st
          /\ o.fsm.rest = <<>> /\ o.fsm.emitted_complete
          /\ o.out = <<SyncComplete(k)>>
      BY <2>2, <2>4, <3>1 DEF Gated
    <3>3. k \in Nat
      BY <2>1 DEF SamePages, Fsm
    <3>4. Syncing(c) =>
            /\ c.pc # "hash"
            /\ IF dir = "push"
               THEN down = <<>> /\ c.queue = <<>> /\ k = c.count
               ELSE k = c.count + Len(down)
      BY <1>3, <2>4
    <3> HIDE DEF k
    <3>5. /\ Typed(dir, tk2, o.fsm, c, up2, down2)
          /\ Linked(dir, tk2, o.fsm, c, up2, down2, D, F)
      BY <1>2, <1>3, <3>2, <3>3, <3>4, SettlesCompleted
    <3>6. QED
      BY <3>2, <3>5
  <2>5. QED
    BY <2>1, <2>3, <2>4
<1>6. QED
  BY <1>4, <1>5

\* One frame applied, whatever it is and however that ends.
LEMMA ApplySettles ==
  ASSUME NEW dir, NEW tk, NEW f, NEW c, NEW up, NEW down,
         Typed(dir, tk, f, c, up, down),
         NEW st \in Pages, IsPrefix1(DOMAIN st),
         NEW F, Linked(dir, tk, f, c, up, down, DOMAIN st, F),
         tk = "open", Idle(f), up # <<>>,
         NEW o \in apply(f, st, Head(up)),
         NEW tk2, NEW up2, NEW out, Settles(o, Tail(up), tk2, up2, out),
         NEW down2, down2 = Sent(c, down, out)
  PROVE  /\ o.pages \in Pages /\ DOMAIN st \subseteq DOMAIN o.pages
         /\ IsPrefix1(DOMAIN o.pages)
         /\ Typed(dir, tk2, o.fsm, c, up2, down2)
         /\ Linked(dir, tk2, o.fsm, c, up2, down2, DOMAIN o.pages, F)
<1> DEFINE m == Head(up)
           D == DOMAIN st
<1>1. Between(f) /\ f.rest = <<>> /\ ~f.emitted_complete /\ f \in Fsm
  <2>1. Between(f)
    BY DEF Linked, FsmOK, Between
  <2>2. QED
    BY <2>1, BetweenFacts
<1>2. m \in ClientFrame /\ WellFormed(m)
  <2>1. m \in ClientFrame
    BY TailFacts DEF Typed
  <2>2. QED
    BY <2>1, ClientFrames, FrameFields DEF WellFormed
<1>3. Legal(f, st, o)
  BY <1>1, <1>2, ApplyLegal
<1>4. m.kind \in {"Hello", "Complete", "PageHash", "PageData"}
  BY <1>2, ClientFrames, FrameFields
<1>5. m.kind = "Hello" <=> ~f.saw_hello
  <2>1. PICK n \in 0 .. LastPage : Upstream(dir, f, up, n)
    BY DEF Linked
  <2>2. 1 \in DOMAIN up /\ up[1] = m
    BY TailFacts DEF Typed
  <2>3. QED
    BY <2>1, <2>2 DEF Upstream
<1>6. o.pages \in Pages /\ D \subseteq DOMAIN o.pages
  BY <1>3 DEF Legal
<1>7. Linked(dir, tk, f, c, up, down, D, F) /\ IsPrefix1(D)
  OBVIOUS
<1>8. CASE m.kind = "Hello"
  <2>1. ~f.saw_hello
    BY <1>5, <1>8
  <2>2. Failed(f, st, o) \/ Greeted(f, st, o)
    <3>1. o \in handle_hello(f, st, m)
      BY <1>8, <2>1 DEF apply
    <3>2. QED
      BY <1>1, <3>1, HelloEffect
  <2> HIDE DEF D
  <2>3. /\ Typed(dir, tk2, o.fsm, c, up2, down2)
        /\ Linked(dir, tk2, o.fsm, c, up2, down2, D, F)
        /\ o.pages = st
    BY <1>3, <1>7, <2>1, <2>2, HelloSettles
  <2>4. QED
    BY <1>6, <1>7, <2>3 DEF D
<1>9. CASE m.kind = "PageHash"
  <2>1. f.saw_hello
    BY <1>5, <1>9
  <2>2. Failed(f, st, o) \/ Claimed(f, st, m.page_no, o)
    <3>1. o \in handle_page_hash(f, st, m)
      BY <1>9, <2>1 DEF apply
    <3>2. m.page_no \in PageNo
      BY <1>2, <1>9 DEF WellFormed
    <3>3. QED
      BY <1>1, <3>1, <3>2, PageHashEffect
  <2>3. /\ Typed(dir, tk2, o.fsm, c, up2, down2)
        /\ Linked(dir, tk2, o.fsm, c, up2, down2, DOMAIN st, F)
        /\ o.pages = st
    BY <1>1, <1>3, <1>9, <2>1, <2>2, PageHashSettles
  <2>4. QED
    BY <1>6, <1>7, <2>3
<1>10. CASE m.kind = "PageData"
  <2> DEFINE p  == m.page_no
             tt == put_page(st, p, m.data, page_hash(m.data))
  <2>1. f.saw_hello /\ IsData(m)
    BY <1>5, <1>10 DEF IsData
  <2>2. Failed(f, st, o) \/ Failed(f, tt, o) \/ Stored(f, tt, p, o)
    <3>1. o \in handle_page_data(f, st, m)
      BY <1>10, <2>1 DEF apply
    <3>2. QED
      BY <1>1, <3>1, PageDataEffect
  <2>3. p \in PageNo /\ \A q \in 1 .. p - 1 : q \in D
    <3> HIDE DEF D
    <3>1. QED
      BY <1>7, <2>1, StoredFacts
  <2>4. DOMAIN tt = D \cup {p}
    BY <1>2, <1>10, PutPageType DEF WellFormed
  <2>5. IsPrefix1(D \cup {p})
    <3>1. D \in SUBSET PageNo
      BY DomainPages
    <3> HIDE DEF D, p
    <3>2. QED
      BY <1>7, <2>3, <3>1, PrefixGrows
  <2> DEFINE E == D \cup {p}
  <2>6. CASE Failed(f, st, o) \/ Failed(f, tt, o)
    <3>1. /\ o.res # "ok" /\ o.out = <<>> /\ o.fsm.rest = <<>>
          /\ o.pages = st \/ o.pages = tt
      BY <1>1, <2>6 DEF Failed
    <3>2. Shape(o.fsm) /\ o.fsm.direction = dir
      BY <1>3 DEF Legal, Linked, FsmOK
    <3>3. D \subseteq E
      OBVIOUS
    <3> HIDE DEF D, E, tt, p
    <3>4. /\ Typed(dir, tk2, o.fsm, c, up2, down2)
          /\ Linked(dir, tk2, o.fsm, c, up2, down2, D, F)
      BY <1>7, <3>1, <3>2, SettlesFailed
    <3>5. Linked(dir, tk2, o.fsm, c, up2, down2, E, F)
      BY <3>3, <3>4, LinkedMonotone
    <3>6. QED
      BY <1>6, <1>7, <2>4, <2>5, <3>1, <3>4, <3>5 DEF D, E
  <2>7. CASE Stored(f, tt, p, o)
    <3>1. WithRow(D, Head(up).page_no, E)
      BY DEF WithRow
    <3>2. IsData(Head(up)) /\ Stored(f, tt, Head(up).page_no, o)
      BY <2>1, <2>7
    <3> HIDE DEF D, E, tt, p, m
    <3>3. o.pages = tt
      BY <2>7 DEF Stored, Gated, Succeeded
    <3>4. /\ Typed(dir, tk2, o.fsm, c, up2, down2)
          /\ Linked(dir, tk2, o.fsm, c, up2, down2, E, F)
      BY <1>1, <1>3, <1>7, <2>1, <3>1, <3>2, PageDataSettles
    <3>5. QED
      BY <1>6, <2>4, <2>5, <3>3, <3>4 DEF D, E
  <2>8. QED
    BY <2>2, <2>6, <2>7
<1>11. CASE m.kind = "Complete"
  <2>1. f.saw_hello
    BY <1>5, <1>11
  <2>2. Failed(f, st, o) \/ Hashed(f, st, o)
    <3>1. o \in handle_complete(f, st)
      BY <1>11, <2>1 DEF apply
    <3>2. QED
      BY <1>1, <3>1, CompleteEffect
  <2> HIDE DEF D
  <2>3. /\ Typed(dir, tk2, o.fsm, c, up2, down2)
        /\ Linked(dir, tk2, o.fsm, c, up2, down2, D, F)
        /\ o.pages = st
    BY <1>1, <1>3, <1>7, <1>11, <2>1, <2>2, CompleteSettles
  <2>4. QED
    BY <1>6, <1>7, <2>3 DEF D
<1>12. QED
  BY <1>4, <1>8, <1>9, <1>10, <1>11

\* One turn of a loop: only a walk, as no client sends a batch.
LEMMA ResumeSettles ==
  ASSUME NEW dir, NEW tk, NEW f, NEW c, NEW up, NEW down,
         Typed(dir, tk, f, c, up, down),
         NEW st \in Pages, IsPrefix1(DOMAIN st),
         NEW F, Linked(dir, tk, f, c, up, down, DOMAIN st, F),
         tk = "open", ~Idle(f),
         NEW o \in resume(f, st),
         NEW tk2, NEW up2, NEW out, Settles(o, up, tk2, up2, out),
         NEW down2, down2 = Sent(c, down, out)
  PROVE  /\ o.pages \in Pages /\ DOMAIN st \subseteq DOMAIN o.pages
         /\ IsPrefix1(DOMAIN o.pages)
         /\ Typed(dir, tk2, o.fsm, c, up2, down2)
         /\ Linked(dir, tk2, o.fsm, c, up2, down2, DOMAIN o.pages, F)
<1> DEFINE D == DOMAIN st
<1>1. Shape(f) /\ f \in Fsm /\ f.cursor # 0
  BY DEF Linked, FsmOK, Idle, Typed
<1>2. Legal(f, st, o)
  BY <1>1, ResumeLegal
<1>3. Failed(f, st, o) \/ Walks(f, st, o)
  <2>1. o \in walk(f, st)
    BY <1>1 DEF resume
  <2>2. QED
    BY <1>1, <2>1, WalkEffect
<1>4. /\ Linked(dir, tk, f, c, up, down, D, F)
      /\ IsPrefix1(D) /\ D \in SUBSET PageNo /\ D = DOMAIN st
  BY DomainPages
<1> HIDE DEF D
<1>5. /\ Typed(dir, tk2, o.fsm, c, up2, down2)
      /\ Linked(dir, tk2, o.fsm, c, up2, down2, D, F)
      /\ o.pages = st
  BY <1>1, <1>2, <1>3, <1>4, WalkSettles
<1>6. QED
  BY <1>4, <1>5

-----------------------------------------------------------------------------
(* From one session to all of them.                                        *)

\* What the invariant gives for a session.
LEMMA SessionFacts ==
  ASSUME IInv, NEW s \in Session
  PROVE  /\ Typed(fsm[s].direction, task[s], fsm[s], cli[s], c2s[s], s2c[s])
         /\ LinkedAt(s)
         /\ Owner[s] \in Host
         /\ pages \in Pages
         /\ DOMAIN pages \in SUBSET PageNo /\ IsPrefix1(DOMAIN pages)
         /\ file[Owner[s]] \in LocalFile
         /\ DOMAIN file[Owner[s]] \in SUBSET PageNo
         /\ IsPrefix1(DOMAIN file[Owner[s]])
<1>1. Owner[s] \in Host
  BY SystemAssumption
<1>2. TypeOK /\ NoHoles /\ LinkedAt(s)
  BY DEF IInv
<1>3. /\ pages \in Pages /\ fsm[s] \in Fsm
      /\ task[s] \in {"none", "open", "closed"}
      /\ cli[s] \in Cli /\ c2s[s] \in Seq(ClientFrame)
      /\ s2c[s] \in Seq(ServerFrame) /\ file[Owner[s]] \in LocalFile
  BY <1>1, <1>2 DEF TypeOK
<1>4. fsm[s].direction \in Direction
  BY <1>3 DEF Fsm
<1>5. QED
  BY <1>1, <1>2, <1>3, <1>4, DomainPages DEF Typed, NoHoles

\* A step of session s, which may also add to the table or to its file.
LEMMA StepOfOne ==
  ASSUME IInv, NEW s \in Session,
         NEW tk, NEW f, NEW c, NEW up, NEW down,
         task' = [task EXCEPT ![s] = tk], fsm' = [fsm EXCEPT ![s] = f],
         cli' = [cli EXCEPT ![s] = c], c2s' = [c2s EXCEPT ![s] = up],
         s2c' = [s2c EXCEPT ![s] = down],
         Typed(fsm[s].direction, tk, f, c, up, down),
         pages' \in Pages, DOMAIN pages \subseteq DOMAIN pages',
         IsPrefix1(DOMAIN pages'),
         file' \in [Host -> LocalFile],
         \A h \in Host : /\ DOMAIN file[h] \subseteq DOMAIN file'[h]
                         /\ IsPrefix1(DOMAIN file'[h]),
         writes' = writes,
         Linked(fsm[s].direction, tk, f, c, up, down,
                DOMAIN pages', DOMAIN file'[Owner[s]])
  PROVE  IInv'
<1>1. TypeOK
  BY DEF IInv
<1>2. TypeOK'
  BY <1>1 DEF TypeOK, Typed
<1>3. NoHoles'
  BY DEF NoHoles
<1>4. ASSUME NEW t \in Session
      PROVE  LinkedAt(t)'
  <2>1. CASE t = s
    <3>1. /\ task'[t] = tk /\ fsm'[t] = f /\ cli'[t] = c
          /\ c2s'[t] = up /\ s2c'[t] = down
      BY <1>1, <2>1 DEF TypeOK
    <3>2. f.direction = fsm[s].direction
      BY DEF Linked, FsmOK
    <3>3. QED
      BY <2>1, <3>1, <3>2 DEF LinkedAt
  <2>2. CASE t # s
    <3>1. /\ task'[t] = task[t] /\ fsm'[t] = fsm[t] /\ cli'[t] = cli[t]
          /\ c2s'[t] = c2s[t] /\ s2c'[t] = s2c[t]
      BY <1>1, <2>2 DEF TypeOK
    <3>2. LinkedAt(t) /\ Owner[t] \in Host
      BY SessionFacts
    <3>3. Linked(fsm[t].direction, task[t], fsm[t], cli[t], c2s[t], s2c[t],
                 DOMAIN pages', DOMAIN file'[Owner[t]])
      BY <3>2, LinkedMonotone DEF LinkedAt
    <3>4. QED
      BY <3>1, <3>3 DEF LinkedAt
  <2>3. QED
    BY <2>1, <2>2
<1>5. QED
  BY <1>2, <1>3, <1>4 DEF IInv

\* ... and most steps add to neither.
LEMMA QuietStepOfOne ==
  ASSUME IInv, NEW s \in Session,
         NEW tk, NEW f, NEW c, NEW up, NEW down,
         task' = [task EXCEPT ![s] = tk], fsm' = [fsm EXCEPT ![s] = f],
         cli' = [cli EXCEPT ![s] = c], c2s' = [c2s EXCEPT ![s] = up],
         s2c' = [s2c EXCEPT ![s] = down],
         Typed(fsm[s].direction, tk, f, c, up, down),
         UNCHANGED <<pages, file, writes>>,
         Linked(fsm[s].direction, tk, f, c, up, down,
                DOMAIN pages, DOMAIN file[Owner[s]])
  PROVE  IInv'
<1>1. TypeOK /\ NoHoles
  BY DEF IInv
<1>2. /\ pages' \in Pages /\ DOMAIN pages \subseteq DOMAIN pages'
      /\ IsPrefix1(DOMAIN pages')
      /\ file' \in [Host -> LocalFile]
      /\ \A h \in Host : /\ DOMAIN file[h] \subseteq DOMAIN file'[h]
                         /\ IsPrefix1(DOMAIN file'[h])
      /\ writes' = writes
  BY <1>1 DEF TypeOK, NoHoles
<1>3. Linked(fsm[s].direction, tk, f, c, up, down,
             DOMAIN pages', DOMAIN file'[Owner[s]])
  OBVIOUS
<1>4. QED
  BY <1>2, <1>3, StepOfOne

LEMMA StartStep ==
  ASSUME IInv, NEW s \in Session, Start(s)
  PROVE  IInv'
<1> DEFINE c  == [cli[s] EXCEPT !.pc = "hello",
                               !.max = file_max_page(Owner[s])]
           up == Append(c2s[s], Hello(PROTOCOL_VERSION))
<1>1. TypeOK
  BY DEF IInv
<1>2. cli[s].pc = "idle" /\ task[s] = "none"
  BY SessionFacts DEF Start, LinkedAt, Linked, ClientOK
<1>3. cli' = [cli EXCEPT ![s] = c]
  BY <1>1 DEF Start, TypeOK
<1>4. /\ c2s' = [c2s EXCEPT ![s] = up]
      /\ task' = [task EXCEPT ![s] = "open"]
      /\ fsm' = [fsm EXCEPT ![s] = fsm[s]]
      /\ s2c' = [s2c EXCEPT ![s] = s2c[s]]
      /\ UNCHANGED <<pages, file, writes>>
  BY <1>1, <1>2 DEF Start, Send, TypeOK
<1> HIDE DEF up
<1>5. /\ Typed(fsm[s].direction, "open", fsm[s], c, up, s2c[s])
      /\ Linked(fsm[s].direction, "open", fsm[s], c, up, s2c[s],
                DOMAIN pages, DOMAIN file[Owner[s]])
  <2> DEFINE F == DOMAIN file[Owner[s]]
             D == DOMAIN pages
             c1 == cli[s]
  <2>1. /\ Typed(fsm[s].direction, task[s], fsm[s], c1, c2s[s], s2c[s])
        /\ Linked(fsm[s].direction, task[s], fsm[s], c1, c2s[s], s2c[s], D, F)
        /\ F \in SUBSET PageNo /\ IsPrefix1(F)
        /\ c1.pc = "idle"
    BY <1>2, SessionFacts DEF LinkedAt
  <2>2. /\ Opened(c1, Cardinality(F), c)
        /\ up = Append(c2s[s], Hello(PROTOCOL_VERSION))
    BY DEF file_max_page, up, Opened
  <2> HIDE DEF F, D, c1, c
  <2>3. /\ Typed(fsm[s].direction, "open", fsm[s], c, up, s2c[s])
        /\ Linked(fsm[s].direction, "open", fsm[s], c, up, s2c[s], D, F)
    BY <2>1, <2>2, StartLinked
  <2>4. QED
    BY <2>3 DEF D, F
<1> HIDE DEF c
<1>6. QED
  BY <1>3, <1>4, <1>5, QuietStepOfOne

LEMMA RecvHelloReplyStep ==
  ASSUME IInv, NEW s \in Session, RecvHelloReply(s)
  PROVE  IInv'
<1> DEFINE m == IF Command[s] = "pull" /\ cli[s].max > 0
                THEN file_max_page(Owner[s]) ELSE cli[s].max
           c == [cli[s] EXCEPT !.pc = "hash", !.max = m]
<1>1. TypeOK /\ cli[s] \in Cli
  BY DEF IInv, TypeOK
<1>2. cli[s].pc = "hello" /\ s2c[s] # <<>> /\ Head(s2c[s]).kind = "HelloReply"
  BY DEF RecvHelloReply, Arrived
<1>3. m \in {cli[s].max, Cardinality(DOMAIN file[Owner[s]])}
  BY DEF file_max_page
<1>4. m \in 0 .. LastPage
  <2>1. cli[s].max \in 0 .. LastPage
    BY <1>1 DEF Cli
  <2>2. QED
    BY <1>3, <2>1, SessionFacts, PrefixInterval
<1>5. cli' = [cli EXCEPT ![s] = c]
  BY <1>1 DEF RecvHelloReply, TypeOK
<1>6. /\ s2c' = [s2c EXCEPT ![s] = Tail(s2c[s])]
      /\ task' = [task EXCEPT ![s] = task[s]]
      /\ fsm' = [fsm EXCEPT ![s] = fsm[s]]
      /\ c2s' = [c2s EXCEPT ![s] = c2s[s]]
      /\ UNCHANGED <<pages, file, writes>>
  BY <1>1 DEF RecvHelloReply, Consume, server, TypeOK
<1> HIDE DEF m
<1>7. /\ c \in Cli /\ c.pc = "hash" /\ c.max = m
      /\ c.next = cli[s].next /\ c.queue = cli[s].queue
      /\ c.txn = cli[s].txn /\ c.count = cli[s].count
  BY <1>1, <1>4 DEF Cli
<1> HIDE DEF c
<1>8. /\ Typed(fsm[s].direction, task[s], fsm[s], c, c2s[s], Tail(s2c[s]))
      /\ Linked(fsm[s].direction, task[s], fsm[s], c, c2s[s], Tail(s2c[s]),
                DOMAIN pages, DOMAIN file[Owner[s]])
  BY <1>2, <1>3, <1>7, SessionFacts, HelloReplyLinked DEF LinkedAt
<1>9. QED
  BY <1>5, <1>6, <1>8, QuietStepOfOne

LEMMA SendHashStep ==
  ASSUME IInv, NEW s \in Session, SendHash(s)
  PROVE  IInv'
<1> DEFINE p  == cli[s].next
           h  == page_hash(file[Owner[s]][p])
           c  == [cli[s] EXCEPT !.next = p + 1]
           up == IF task[s] = "closed" THEN c2s[s]
                 ELSE Append(c2s[s], PageHash(p, h))
<1>1. TypeOK /\ cli[s] \in Cli /\ file[Owner[s]] \in LocalFile
  BY SessionFacts DEF IInv, TypeOK
<1>2. cli[s].pc = "hash" /\ cli[s].next <= cli[s].max
  BY DEF SendHash
<1>3. p + 1 \in 1 .. LastPage + 1 /\ p \in 1 .. cli[s].max
  BY <1>1, <1>2, LastPageAssumption DEF Cli
<1>4. h \in Hash
  <2>1. p \in DOMAIN file[Owner[s]]
    BY <1>2, <1>3, SessionFacts DEF LinkedAt, Linked, ClientOK, Running
  <2>2. QED
    BY <1>1, <2>1 DEF LocalFile, Hash
<1>5. cli' = [cli EXCEPT ![s] = c]
  BY <1>1 DEF SendHash, TypeOK
<1>6. /\ c2s' = [c2s EXCEPT ![s] = up]
      /\ task' = [task EXCEPT ![s] = task[s]]
      /\ fsm' = [fsm EXCEPT ![s] = fsm[s]]
      /\ s2c' = [s2c EXCEPT ![s] = s2c[s]]
      /\ UNCHANGED <<pages, file, writes>>
  BY <1>1 DEF SendHash, Send, server, TypeOK
<1>7. /\ c \in Cli /\ c.pc = cli[s].pc /\ c.max = cli[s].max
      /\ c.next = cli[s].next + 1 /\ c.queue = cli[s].queue
      /\ c.txn = cli[s].txn /\ c.count = cli[s].count
  BY <1>1, <1>3 DEF Cli
<1>8. /\ task[s] = "closed" => up = c2s[s]
      /\ task[s] # "closed" => up = Append(c2s[s], PageHash(cli[s].next, h))
  OBVIOUS
<1>9. /\ Typed(fsm[s].direction, task[s], fsm[s], cli[s], c2s[s], s2c[s])
      /\ Linked(fsm[s].direction, task[s], fsm[s], cli[s], c2s[s], s2c[s],
                DOMAIN pages, DOMAIN file[Owner[s]])
  BY SessionFacts DEF LinkedAt
<1> HIDE DEF p, c, h, up
<1>10. /\ Typed(fsm[s].direction, task[s], fsm[s], c, up, s2c[s])
      /\ Linked(fsm[s].direction, task[s], fsm[s], c, up, s2c[s],
                DOMAIN pages, DOMAIN file[Owner[s]])
  BY <1>2, <1>4, <1>7, <1>8, <1>9, SendHashLinked
<1>11. QED
  BY <1>5, <1>6, <1>10, QuietStepOfOne

LEMMA SendCompleteStep ==
  ASSUME IInv, NEW s \in Session, SendComplete(s)
  PROVE  IInv'
<1> DEFINE pc == IF Command[s] = "push" THEN "drain" ELSE "recv"
           c  == [cli[s] EXCEPT !.pc = pc]
           up == IF task[s] = "closed" THEN c2s[s]
                 ELSE Append(c2s[s], Complete)
<1>1. TypeOK /\ cli[s] \in Cli
  BY DEF IInv, TypeOK
<1>2. cli[s].pc = "hash" /\ cli[s].next > cli[s].max
  BY DEF SendComplete
<1>3. cli' = [cli EXCEPT ![s] = c]
  BY <1>1 DEF SendComplete, TypeOK
<1>4. /\ c2s' = [c2s EXCEPT ![s] = up]
      /\ task' = [task EXCEPT ![s] = task[s]]
      /\ fsm' = [fsm EXCEPT ![s] = fsm[s]]
      /\ s2c' = [s2c EXCEPT ![s] = s2c[s]]
      /\ UNCHANGED <<pages, file, writes>>
  BY <1>1 DEF SendComplete, Send, server, TypeOK
<1>5. /\ c \in Cli /\ c.pc \in {"drain", "recv"}
      /\ c.max = cli[s].max
      /\ c.next = cli[s].next /\ c.queue = cli[s].queue
      /\ c.txn = cli[s].txn /\ c.count = cli[s].count
  BY <1>1 DEF Cli
<1>6. /\ task[s] = "closed" => up = c2s[s]
      /\ task[s] # "closed" => up = Append(c2s[s], Complete)
  OBVIOUS
<1>7. /\ Typed(fsm[s].direction, task[s], fsm[s], cli[s], c2s[s], s2c[s])
      /\ Linked(fsm[s].direction, task[s], fsm[s], cli[s], c2s[s], s2c[s],
                DOMAIN pages, DOMAIN file[Owner[s]])
  BY SessionFacts DEF LinkedAt
<1> HIDE DEF pc, c, up
<1>8. /\ Typed(fsm[s].direction, task[s], fsm[s], c, up, s2c[s])
      /\ Linked(fsm[s].direction, task[s], fsm[s], c, up, s2c[s],
                DOMAIN pages, DOMAIN file[Owner[s]])
  BY <1>2, <1>5, <1>6, <1>7, SendCompleteLinked
<1>9. QED
  BY <1>3, <1>4, <1>8, QuietStepOfOne

LEMMA RecvRequestStep ==
  ASSUME IInv, NEW s \in Session, RecvRequest(s)
  PROVE  IInv'
<1> DEFINE q == Append(cli[s].queue, Head(s2c[s]).page_no)
           c == [cli[s] EXCEPT !.queue = q]
<1>1. TypeOK /\ cli[s] \in Cli
  BY DEF IInv, TypeOK
<1>2. /\ cli[s].pc \in {"hash", "drain"}
      /\ s2c[s] # <<>> /\ Head(s2c[s]).kind = "RequestPage"
  BY DEF RecvRequest, PushReads, Arrived
<1>3. q \in Seq(PageNo)
  <2>1. s2c[s] \in Seq(ServerFrame)
    BY SessionFacts DEF Typed
  <2>2. Head(s2c[s]) \in ServerFrame
    BY <1>2, <2>1, TailFacts
  <2>3. Head(s2c[s]).page_no \in PageNo
    BY <1>2, <2>2, ServerFrames
  <2>4. cli[s].queue \in Seq(PageNo)
    BY <1>1 DEF Cli
  <2>5. QED
    BY <2>3, <2>4, AppendFacts
<1>4. cli' = [cli EXCEPT ![s] = c]
  BY <1>1 DEF RecvRequest, TypeOK
<1>5. /\ s2c' = [s2c EXCEPT ![s] = Tail(s2c[s])]
      /\ task' = [task EXCEPT ![s] = task[s]]
      /\ fsm' = [fsm EXCEPT ![s] = fsm[s]]
      /\ c2s' = [c2s EXCEPT ![s] = c2s[s]]
      /\ UNCHANGED <<pages, file, writes>>
  BY <1>1 DEF RecvRequest, Consume, server, TypeOK
<1>6. /\ Typed(fsm[s].direction, task[s], fsm[s], cli[s], c2s[s], s2c[s])
      /\ Linked(fsm[s].direction, task[s], fsm[s], cli[s], c2s[s], s2c[s],
                DOMAIN pages, DOMAIN file[Owner[s]])
  BY SessionFacts DEF LinkedAt
<1>7. q = Append(cli[s].queue, Head(s2c[s]).page_no)
  OBVIOUS
<1> HIDE DEF q
<1>8. /\ c \in Cli /\ c.pc = cli[s].pc /\ c.max = cli[s].max
      /\ c.next = cli[s].next /\ c.queue = q
      /\ c.txn = cli[s].txn /\ c.count = cli[s].count
  BY <1>1, <1>3 DEF Cli
<1> HIDE DEF c
<1>9. /\ Typed(fsm[s].direction, task[s], fsm[s], c, c2s[s], Tail(s2c[s]))
      /\ Linked(fsm[s].direction, task[s], fsm[s], c, c2s[s], Tail(s2c[s]),
                DOMAIN pages, DOMAIN file[Owner[s]])
  BY <1>2, <1>6, <1>7, <1>8, RecvRequestLinked
<1>10. QED
  BY <1>4, <1>5, <1>9, QuietStepOfOne

LEMMA ServePageStep ==
  ASSUME IInv, NEW s \in Session, ServePage(s)
  PROVE  IInv'
<1> DEFINE p  == Head(cli[s].queue)
           d  == file[Owner[s]][p]
           q  == Tail(cli[s].queue)
           n  == cli[s].count + 1
           c  == [cli[s] EXCEPT !.queue = q, !.count = n]
           up == IF task[s] = "closed" THEN c2s[s]
                 ELSE Append(c2s[s], PageData(p, d))
<1>1. TypeOK /\ cli[s] \in Cli /\ file[Owner[s]] \in LocalFile
  BY SessionFacts DEF IInv, TypeOK
<1>2. cli[s].pc = "drain" /\ cli[s].queue # <<>>
  BY DEF ServePage
<1>3. /\ Typed(fsm[s].direction, task[s], fsm[s], cli[s], c2s[s], s2c[s])
      /\ Linked(fsm[s].direction, task[s], fsm[s], cli[s], c2s[s], s2c[s],
                DOMAIN pages, DOMAIN file[Owner[s]])
  BY SessionFacts DEF LinkedAt
<1>4. cli[s].queue \in Seq(PageNo) /\ cli[s].count \in Nat
  BY <1>1 DEF Cli
<1>5. /\ Tail(cli[s].queue) \in Seq(PageNo) /\ p \in PageNo
      /\ 1 \in DOMAIN cli[s].queue /\ p = cli[s].queue[1]
  BY <1>2, <1>4, TailFacts
<1>6. d \in Content
  <2>1. ClientOK(fsm[s].direction, task[s], cli[s], s2c[s], DOMAIN file[Owner[s]])
    BY <1>3 DEF Linked
  <2>2. fsm[s].direction = "push"
    BY <1>2, <1>3, <2>1 DEF ClientOK, Typed, Direction
  <2>3. p <= cli[s].max /\ 1 .. cli[s].max \subseteq DOMAIN file[Owner[s]]
    BY <1>2, <1>5, <2>1, <2>2 DEF ClientOK, Running
  <2>4. p \in 1 .. cli[s].max
    BY <1>1, <1>5, <2>3 DEF Cli, PageNo
  <2>5. QED
    BY <1>1, <2>3, <2>4 DEF LocalFile
<1>7. cli' = [cli EXCEPT ![s] = c]
  BY <1>1 DEF ServePage, TypeOK
<1>8. /\ c2s' = [c2s EXCEPT ![s] = up]
      /\ task' = [task EXCEPT ![s] = task[s]]
      /\ fsm' = [fsm EXCEPT ![s] = fsm[s]]
      /\ s2c' = [s2c EXCEPT ![s] = s2c[s]]
      /\ UNCHANGED <<pages, file, writes>>
  BY <1>1 DEF ServePage, Send, server, TypeOK
<1>9. /\ c \in Cli /\ c.pc = cli[s].pc /\ c.max = cli[s].max
      /\ c.next = cli[s].next /\ c.queue = Tail(cli[s].queue)
      /\ c.txn = cli[s].txn /\ c.count = cli[s].count + 1
  <2>1. q \in Seq(PageNo) /\ n \in Nat
    BY <1>4, <1>5
  <2> HIDE DEF q, n
  <2>2. /\ c \in Cli /\ c.pc = cli[s].pc /\ c.max = cli[s].max
        /\ c.next = cli[s].next /\ c.queue = q
        /\ c.txn = cli[s].txn /\ c.count = n
    BY <1>1, <2>1 DEF Cli
  <2>3. QED
    BY <2>2 DEF q, n
<1>10. /\ task[s] = "closed" => up = c2s[s]
       /\ task[s] # "closed" =>
            up = Append(c2s[s], PageData(Head(cli[s].queue), d))
  OBVIOUS
<1> HIDE DEF p, d, q, n, c, up
<1>11. /\ Typed(fsm[s].direction, task[s], fsm[s], c, up, s2c[s])
       /\ Linked(fsm[s].direction, task[s], fsm[s], c, up, s2c[s],
                 DOMAIN pages, DOMAIN file[Owner[s]])
  BY <1>2, <1>3, <1>6, <1>9, <1>10, ServePageLinked
<1>12. QED
  BY <1>7, <1>8, <1>11, QuietStepOfOne

LEMMA RecvPageStep ==
  ASSUME IInv, NEW s \in Session, RecvPage(s)
  PROVE  IInv'
<1> DEFINE m == Head(s2c[s])
           t == [q \in DOMAIN cli[s].txn \cup {m.page_no} |->
                   IF q = m.page_no THEN m.data ELSE cli[s].txn[q]]
           n == cli[s].count + 1
           c == [cli[s] EXCEPT !.txn = t, !.count = n]
<1>1. TypeOK /\ cli[s] \in Cli
  BY DEF IInv, TypeOK
<1>2. cli[s].pc = "recv" /\ s2c[s] # <<>> /\ Head(s2c[s]).kind = "PageData"
  BY DEF RecvPage, Arrived
<1>3. /\ Typed(fsm[s].direction, task[s], fsm[s], cli[s], c2s[s], s2c[s])
      /\ Linked(fsm[s].direction, task[s], fsm[s], cli[s], c2s[s], s2c[s],
                DOMAIN pages, DOMAIN file[Owner[s]])
  BY SessionFacts DEF LinkedAt
<1>4. cli[s].txn \in LocalFile /\ cli[s].count \in Nat
  BY <1>1 DEF Cli
<1>5. m.page_no \in PageNo /\ m.data \in Content
  <2>1. m \in ServerFrame
    BY <1>2, <1>3, TailFacts DEF Typed
  <2>2. QED
    BY <1>2, <2>1, ServerFrames
<1>6. t \in LocalFile /\ DOMAIN t = DOMAIN cli[s].txn \cup {m.page_no}
  <2> DEFINE S == DOMAIN cli[s].txn \cup {m.page_no}
  <2>1. S \in SUBSET PageNo
    BY <1>4, <1>5, DomainPages
  <2>2. cli[s].txn \in [DOMAIN cli[s].txn -> Content]
    BY <1>4 DEF LocalFile
  <2> HIDE DEF m
  <2>3. t \in [S -> Content]
    BY <1>5, <2>2
  <2>4. QED
    BY <2>1, <2>3 DEF LocalFile
<1>7. cli' = [cli EXCEPT ![s] = c]
  BY <1>1 DEF RecvPage, TypeOK
<1>8. /\ s2c' = [s2c EXCEPT ![s] = Tail(s2c[s])]
      /\ task' = [task EXCEPT ![s] = task[s]]
      /\ fsm' = [fsm EXCEPT ![s] = fsm[s]]
      /\ c2s' = [c2s EXCEPT ![s] = c2s[s]]
      /\ UNCHANGED <<pages, file, writes>>
  BY <1>1 DEF RecvPage, Consume, server, TypeOK
<1> HIDE DEF t
<1>9. /\ c \in Cli /\ c.pc = cli[s].pc /\ c.max = cli[s].max
      /\ c.next = cli[s].next /\ c.queue = cli[s].queue
      /\ c.txn = t /\ c.count = cli[s].count + 1
  <2>1. n \in Nat
    BY <1>4
  <2> HIDE DEF n
  <2>2. /\ c \in Cli /\ c.pc = cli[s].pc /\ c.max = cli[s].max
        /\ c.next = cli[s].next /\ c.queue = cli[s].queue
        /\ c.txn = t /\ c.count = n
    BY <1>1, <1>6, <2>1 DEF Cli
  <2>3. QED
    BY <2>2 DEF n
<1> HIDE DEF c
<1>10. DOMAIN c.txn = DOMAIN cli[s].txn \cup {Head(s2c[s]).page_no}
  BY <1>6, <1>9
<1>11. /\ Typed(fsm[s].direction, task[s], fsm[s], c, c2s[s], Tail(s2c[s]))
       /\ Linked(fsm[s].direction, task[s], fsm[s], c, c2s[s], Tail(s2c[s]),
                 DOMAIN pages, DOMAIN file[Owner[s]])
  BY <1>2, <1>3, <1>9, <1>10, RecvPageLinked
<1>12. QED
  BY <1>7, <1>8, <1>11, QuietStepOfOne

LEMMA RecvSyncCompleteStep ==
  ASSUME IInv, NEW s \in Session, RecvSyncComplete(s)
  PROVE  IInv'
<1> DEFINE h == Owner[s]
           t == cli[s].txn
           g == [q \in DOMAIN file[h] \cup DOMAIN t |->
                   IF q \in DOMAIN t THEN t[q] ELSE file[h][q]]
<1>1. TypeOK /\ NoHoles /\ cli[s] \in Cli /\ h \in Host
  BY SessionFacts DEF IInv, TypeOK
<1>2. /\ cli[s].pc \in {"drain", "recv"}
      /\ s2c[s] # <<>> /\ Head(s2c[s]).kind = "SyncComplete"
  BY DEF RecvSyncComplete, Arrived
<1>3. /\ Typed(fsm[s].direction, task[s], fsm[s], cli[s], c2s[s], s2c[s])
      /\ Linked(fsm[s].direction, task[s], fsm[s], cli[s], c2s[s], s2c[s],
                DOMAIN pages, DOMAIN file[h])
      /\ DOMAIN file[h] \in SUBSET PageNo /\ IsPrefix1(DOMAIN file[h])
  BY SessionFacts DEF LinkedAt
<1>4. Tail(s2c[s]) = <<>> /\ IsPrefix1(DOMAIN file[h] \cup DOMAIN t)
  <2> DEFINE D == DOMAIN pages
             F == DOMAIN file[h]
             c == cli[s]
             down == s2c[s]
  <2>1. /\ Typed(fsm[s].direction, task[s], fsm[s], c, c2s[s], down)
        /\ Linked(fsm[s].direction, task[s], fsm[s], c, c2s[s], down, D, F)
        /\ F \in SUBSET PageNo /\ IsPrefix1(F)
        /\ c.pc \in {"drain", "recv"}
        /\ down # <<>> /\ Head(down).kind = "SyncComplete"
    BY <1>2, <1>3
  <2> HIDE DEF D, F, c, down
  <2>2. Tail(down) = <<>> /\ IsPrefix1(F \cup DOMAIN c.txn)
    BY <2>1, CommitFacts
  <2>3. QED
    BY <2>2 DEF F, c, down
<1>5. g \in LocalFile /\ DOMAIN g = DOMAIN file[h] \cup DOMAIN t
  <2> DEFINE S == DOMAIN file[h] \cup DOMAIN t
             o == file[h]
  <2>1. t \in LocalFile /\ o \in LocalFile
    BY <1>1, SessionFacts DEF Cli
  <2>2. S \in SUBSET PageNo
    BY <2>1, DomainPages
  <2>3. t \in [DOMAIN t -> Content] /\ o \in [DOMAIN o -> Content]
    BY <2>1 DEF LocalFile
  <2> HIDE DEF t, o
  <2>4. g \in [S -> Content]
    BY <2>3 DEF o
  <2>5. QED
    BY <2>2, <2>4 DEF LocalFile
<1>6. file' = [file EXCEPT ![h] = g]
  BY <1>1 DEF RecvSyncComplete, TypeOK
<1> HIDE DEF g
<1>7. /\ file' \in [Host -> LocalFile]
      /\ DOMAIN file'[h] = DOMAIN file[h] \cup DOMAIN t
      /\ \A k \in Host : k # h => file'[k] = file[k]
  BY <1>1, <1>5, <1>6 DEF TypeOK
<1>8. \A k \in Host : /\ DOMAIN file[k] \subseteq DOMAIN file'[k]
                      /\ IsPrefix1(DOMAIN file'[k])
  BY <1>1, <1>4, <1>7 DEF NoHoles
<1>9. /\ cli' = [cli EXCEPT ![s] = Exit("done")]
      /\ s2c' = [s2c EXCEPT ![s] = <<>>]
      /\ task' = [task EXCEPT ![s] = task[s]]
      /\ fsm' = [fsm EXCEPT ![s] = fsm[s]]
      /\ c2s' = [c2s EXCEPT ![s] = c2s[s]]
      /\ UNCHANGED <<pages, writes>>
  BY <1>1, <1>4 DEF RecvSyncComplete, Consume, server, TypeOK
<1>10. /\ Typed(fsm[s].direction, task[s], fsm[s], Exit("done"), c2s[s], <<>>)
       /\ Linked(fsm[s].direction, task[s], fsm[s], Exit("done"), c2s[s], <<>>,
                 DOMAIN pages, DOMAIN file[h])
  <2>1. c2s[s] \in Seq(ClientFrame) /\ Len(c2s[s]) \in Nat
    BY <1>3 DEF Typed
  <2>2. cli[s].pc # "idle" /\ Len(c2s[s]) <= Len(c2s[s])
    BY <1>2, <2>1
  <2>3. QED
    BY <1>3, <2>1, <2>2, ClientGoneLinked
<1>11. Linked(fsm[s].direction, task[s], fsm[s], Exit("done"), c2s[s], <<>>,
              DOMAIN pages', DOMAIN file'[h])
  BY <1>7, <1>9, <1>10, LinkedMonotone
<1>12. /\ pages' \in Pages /\ DOMAIN pages \subseteq DOMAIN pages'
       /\ IsPrefix1(DOMAIN pages')
  BY <1>9, SessionFacts
<1>13. QED
  BY <1>7, <1>8, <1>9, <1>10, <1>11, <1>12, StepOfOne

\* Every other end of a client: what it had sent is cut after n frames.
LEMMA FailStep ==
  ASSUME IInv, NEW s \in Session, cli[s].pc # "idle", Fail(s),
         NEW n \in 0 .. Len(c2s[s]),
         c2s' = [c2s EXCEPT ![s] = SubSeq(c2s[s], 1, n)]
  PROVE  IInv'
<1> DEFINE up == SubSeq(c2s[s], 1, n)
<1>1. TypeOK
  BY DEF IInv
<1>2. /\ Typed(fsm[s].direction, task[s], fsm[s], cli[s], c2s[s], s2c[s])
      /\ Linked(fsm[s].direction, task[s], fsm[s], cli[s], c2s[s], s2c[s],
                DOMAIN pages, DOMAIN file[Owner[s]])
  BY SessionFacts DEF LinkedAt
<1>3. /\ up \in Seq(ClientFrame) /\ Len(up) <= Len(c2s[s])
      /\ \A i \in 1 .. Len(up) : up[i] = c2s[s][i]
  <2>1. c2s[s] \in Seq(ClientFrame) /\ Len(c2s[s]) \in Nat
    BY <1>2 DEF Typed
  <2>2. up \in Seq(ClientFrame) /\ Len(up) = n
    BY <2>1
  <2>3. \A i \in 1 .. n : up[i] = c2s[s][i]
    BY <2>1
  <2>4. QED
    BY <2>1, <2>2, <2>3
<1>4. /\ cli' = [cli EXCEPT ![s] = Exit("failed")]
      /\ s2c' = [s2c EXCEPT ![s] = <<>>]
      /\ task' = [task EXCEPT ![s] = task[s]]
      /\ fsm' = [fsm EXCEPT ![s] = fsm[s]]
      /\ c2s' = [c2s EXCEPT ![s] = up]
      /\ UNCHANGED <<pages, file, writes>>
  BY <1>1 DEF Fail, server, TypeOK
<1> HIDE DEF up
<1>5. /\ Typed(fsm[s].direction, task[s], fsm[s], Exit("failed"), up, <<>>)
      /\ Linked(fsm[s].direction, task[s], fsm[s], Exit("failed"), up, <<>>,
                DOMAIN pages, DOMAIN file[Owner[s]])
  BY <1>2, <1>3, ClientGoneLinked
<1>6. QED
  BY <1>4, <1>5, QuietStepOfOne

LEMMA ClientFailsStep ==
  ASSUME IInv, NEW s \in Session, ClientFails(s)
  PROVE  IInv'
<1>1. TypeOK
  BY DEF IInv
<1>2. cli[s].pc # "idle" /\ Fail(s)
  BY DEF ClientFails, Active
<1>3. PICK n \in 0 .. Len(c2s[s]) :
        c2s' = [c2s EXCEPT ![s] = SubSeq(c2s[s], 1, n)]
  BY <1>1 DEF ClientFails, TypeOK
<1>4. QED
  BY <1>2, <1>3, FailStep

LEMMA RecvFailsStep ==
  ASSUME IInv, NEW s \in Session, RecvOther(s) \/ RecvClosed(s)
  PROVE  IInv'
<1>1. TypeOK
  BY DEF IInv
<1>2. cli[s].pc # "idle" /\ Fail(s) /\ c2s' = c2s
  BY DEF RecvOther, RecvClosed, Reads, PushReads, Active
<1>3. c2s[s] \in Seq(ClientFrame) /\ Len(c2s[s]) \in 0 .. Len(c2s[s])
  BY <1>1 DEF TypeOK
<1>4. SubSeq(c2s[s], 1, Len(c2s[s])) = c2s[s]
  BY <1>3
<1>5. c2s' = [c2s EXCEPT ![s] = SubSeq(c2s[s], 1, Len(c2s[s]))]
  BY <1>1, <1>2, <1>4 DEF TypeOK
<1>6. QED
  BY <1>2, <1>3, <1>5, FailStep

\* The application writes a page it has or the one after the last.
LEMMA LocalWriteStep ==
  ASSUME IInv, NEW h \in Host, NEW p \in PageNo, NEW d \in Content,
         LocalWrite(h, p, d)
  PROVE  IInv'
<1> DEFINE g == [q \in DOMAIN file[h] \cup {p} |->
                   IF q = p THEN d ELSE file[h][q]]
<1>1. TypeOK /\ NoHoles /\ file[h] \in LocalFile
  BY DEF IInv, TypeOK
<1>2. DOMAIN file[h] \in SUBSET PageNo /\ IsPrefix1(DOMAIN file[h])
  BY <1>1, DomainPages DEF NoHoles
<1>3. \A q \in 1 .. p - 1 : q \in DOMAIN file[h]
  <2>1. /\ DOMAIN file[h] = 1 .. file_max_page(h)
        /\ file_max_page(h) \in 0 .. LastPage
    BY <1>2, PrefixInterval DEF file_max_page
  <2>2. p <= file_max_page(h) + 1
    BY DEF LocalWrite
  <2>3. QED
    BY <2>1, <2>2, LastPageAssumption DEF PageNo
<1>4. IsPrefix1(DOMAIN file[h] \cup {p})
  BY <1>2, <1>3, PrefixGrows
<1>5. g \in LocalFile /\ DOMAIN g = DOMAIN file[h] \cup {p}
  <2> DEFINE S == DOMAIN file[h] \cup {p}
             o == file[h]
  <2>1. S \in SUBSET PageNo
    BY <1>2
  <2>2. o \in [DOMAIN o -> Content]
    BY <1>1 DEF LocalFile
  <2> HIDE DEF o
  <2>3. g \in [S -> Content]
    BY <2>2 DEF o
  <2>4. QED
    BY <2>1, <2>3 DEF LocalFile
<1>6. file' = [file EXCEPT ![h] = g]
  BY <1>1 DEF LocalWrite, TypeOK
<1> HIDE DEF g
<1>7. /\ file' \in [Host -> LocalFile]
      /\ \A k \in Host : /\ DOMAIN file[k] \subseteq DOMAIN file'[k]
                         /\ IsPrefix1(DOMAIN file'[k])
  BY <1>1, <1>4, <1>5, <1>6 DEF TypeOK, NoHoles
<1>8. UNCHANGED <<pages, fsm, task, cli, c2s, s2c>>
  BY DEF LocalWrite, server
<1>9. writes' \in 0 .. MaxLocalWrites
  <2>1. writes' = writes + 1 /\ writes < MaxLocalWrites
    BY DEF LocalWrite
  <2>2. writes \in 0 .. MaxLocalWrites /\ MaxLocalWrites \in Nat
    BY <1>1, SystemAssumption DEF TypeOK
  <2>3. QED
    BY <2>1, <2>2
<1>10. TypeOK' /\ NoHoles'
  BY <1>1, <1>7, <1>8, <1>9 DEF TypeOK, NoHoles
<1>11. ASSUME NEW s \in Session
       PROVE  LinkedAt(s)'
  <2>1. LinkedAt(s) /\ Owner[s] \in Host
    BY SessionFacts
  <2>2. Linked(fsm[s].direction, task[s], fsm[s], cli[s], c2s[s], s2c[s],
               DOMAIN pages, DOMAIN file'[Owner[s]])
    BY <1>7, <2>1, LinkedMonotone DEF LinkedAt
  <2>3. QED
    BY <1>8, <2>2 DEF LinkedAt
<1>12. QED
  BY <1>10, <1>11 DEF IInv

-----------------------------------------------------------------------------
(* The steps of the object.                                                *)

\* Settle is Settles for its session, and touches no other.
LEMMA SettleFacts ==
  ASSUME TypeOK, NEW s \in Session, NEW o, NEW unread, Settle(s, o, unread)
  PROVE  \E tk, up, out :
           /\ Settles(o, unread, tk, up, out)
           /\ task' = [task EXCEPT ![s] = tk]
           /\ fsm' = [fsm EXCEPT ![s] = o.fsm]
           /\ c2s' = [c2s EXCEPT ![s] = up]
           /\ s2c' = [s2c EXCEPT ![s] = Sent(cli[s], s2c[s], out)]
           /\ pages' = o.pages
<1> DEFINE returns == o.res # "ok" \/ (Idle(o.fsm) /\ done(o.fsm))
           tk == IF returns THEN "closed" ELSE "open"
           up == IF returns THEN <<>> ELSE unread
           sendable == IF o.res = "err"
                       THEN {<<Error>>} \cup {<<>> : k \in Faults \cap {"socket"}}
                       ELSE {o.out}
<1>1. PICK out \in sendable :
        s2c' = [s2c EXCEPT ![s] = IF Active(s) THEN @ \o out ELSE @]
  BY DEF Settle
<1>2. /\ o.res = "err" => out \in {<<>>, <<Error>>}
      /\ o.res # "err" => out = o.out
  BY <1>1
<1>3. /\ returns => tk = "closed" /\ up = <<>>
      /\ ~returns => tk = "open" /\ up = unread
  OBVIOUS
<1>4. Settles(o, unread, tk, up, out)
  BY <1>2, <1>3 DEF Settles
<1>5. s2c' = [s2c EXCEPT ![s] = Sent(cli[s], s2c[s], out)]
  BY <1>1 DEF TypeOK, Sent, Running, Active
<1>6. /\ task' = [task EXCEPT ![s] = tk]
      /\ fsm' = [fsm EXCEPT ![s] = o.fsm]
      /\ c2s' = [c2s EXCEPT ![s] = up]
      /\ pages' = o.pages
  BY DEF Settle
<1> HIDE DEF returns, tk, up, sendable
<1>7. QED
  BY <1>4, <1>5, <1>6

\* The table may have grown.
LEMMA ServerStepOfOne ==
  ASSUME IInv, NEW s \in Session,
         NEW tk, NEW f, NEW up, NEW down, NEW st,
         task' = [task EXCEPT ![s] = tk], fsm' = [fsm EXCEPT ![s] = f],
         c2s' = [c2s EXCEPT ![s] = up], s2c' = [s2c EXCEPT ![s] = down],
         pages' = st, UNCHANGED <<cli, file, writes>>,
         Typed(fsm[s].direction, tk, f, cli[s], up, down),
         st \in Pages, DOMAIN pages \subseteq DOMAIN st,
         IsPrefix1(DOMAIN st),
         Linked(fsm[s].direction, tk, f, cli[s], up, down,
                DOMAIN st, DOMAIN file[Owner[s]])
  PROVE  IInv'
<1>1. TypeOK /\ NoHoles
  BY DEF IInv
<1> DEFINE c == cli[s]
<1>2. cli' = [cli EXCEPT ![s] = c]
  BY <1>1 DEF TypeOK
<1>3. /\ file' \in [Host -> LocalFile]
      /\ \A h \in Host : /\ DOMAIN file[h] \subseteq DOMAIN file'[h]
                         /\ IsPrefix1(DOMAIN file'[h])
      /\ writes' = writes
  BY <1>1 DEF TypeOK, NoHoles
<1>4. /\ Typed(fsm[s].direction, tk, f, c, up, down)
      /\ Linked(fsm[s].direction, tk, f, c, up, down,
                DOMAIN pages', DOMAIN file'[Owner[s]])
  OBVIOUS
<1> HIDE DEF c
<1>5. /\ pages' \in Pages /\ DOMAIN pages \subseteq DOMAIN pages'
      /\ IsPrefix1(DOMAIN pages')
  OBVIOUS
<1>6. QED
  BY <1>2, <1>3, <1>4, <1>5, StepOfOne

LEMMA ApplyStep ==
  ASSUME IInv, NEW s \in Session, Apply(s)
  PROVE  IInv'
<1>1. TypeOK
  BY DEF IInv
<1>2. task[s] = "open" /\ Idle(fsm[s]) /\ c2s[s] # <<>>
  BY DEF Apply, Free
<1>3. PICK o \in apply(fsm[s], pages, Head(c2s[s])) :
        Settle(s, o, Tail(c2s[s]))
  BY DEF Apply, Possible
<1>4. PICK tk2, up2, out :
        /\ Settles(o, Tail(c2s[s]), tk2, up2, out)
        /\ task' = [task EXCEPT ![s] = tk2]
        /\ fsm' = [fsm EXCEPT ![s] = o.fsm]
        /\ c2s' = [c2s EXCEPT ![s] = up2]
        /\ s2c' = [s2c EXCEPT ![s] = Sent(cli[s], s2c[s], out)]
        /\ pages' = o.pages
  BY <1>1, <1>3, SettleFacts
<1> DEFINE dir   == fsm[s].direction
           tk    == task[s]
           f     == fsm[s]
           c     == cli[s]
           up    == c2s[s]
           down  == s2c[s]
           F     == DOMAIN file[Owner[s]]
           down2 == Sent(c, down, out)
<1>5. /\ Typed(dir, tk, f, c, up, down)
      /\ pages \in Pages /\ IsPrefix1(DOMAIN pages)
      /\ Linked(dir, tk, f, c, up, down, DOMAIN pages, F)
      /\ tk = "open" /\ Idle(f) /\ up # <<>>
      /\ o \in apply(f, pages, Head(up))
      /\ Settles(o, Tail(up), tk2, up2, out)
  BY <1>2, <1>3, <1>4, SessionFacts DEF LinkedAt
<1> HIDE DEF dir, tk, f, c, up, down, F
<1>6. down2 = Sent(c, down, out)
  OBVIOUS
<1> HIDE DEF down2
<1>7. /\ o.pages \in Pages /\ DOMAIN pages \subseteq DOMAIN o.pages
      /\ IsPrefix1(DOMAIN o.pages)
      /\ Typed(dir, tk2, o.fsm, c, up2, down2)
      /\ Linked(dir, tk2, o.fsm, c, up2, down2, DOMAIN o.pages, F)
  BY <1>5, <1>6, ApplySettles
<1>8. s2c' = [s2c EXCEPT ![s] = down2] /\ UNCHANGED <<cli, file, writes>>
  BY <1>4 DEF down2, c, down, Apply
<1>9. /\ Typed(fsm[s].direction, tk2, o.fsm, cli[s], up2, down2)
      /\ Linked(fsm[s].direction, tk2, o.fsm, cli[s], up2, down2,
                DOMAIN o.pages, DOMAIN file[Owner[s]])
  BY <1>7 DEF dir, c, F
<1>10. QED
  BY <1>4, <1>7, <1>8, <1>9, ServerStepOfOne

LEMMA ResumeApplyStep ==
  ASSUME IInv, NEW s \in Session, ResumeApply(s)
  PROVE  IInv'
<1>1. TypeOK
  BY DEF IInv
<1>2. task[s] = "open" /\ ~Idle(fsm[s])
  BY DEF ResumeApply
<1>3. PICK o \in resume(fsm[s], pages) : Settle(s, o, c2s[s])
  BY DEF ResumeApply, Possible
<1>4. PICK tk2, up2, out :
        /\ Settles(o, c2s[s], tk2, up2, out)
        /\ task' = [task EXCEPT ![s] = tk2]
        /\ fsm' = [fsm EXCEPT ![s] = o.fsm]
        /\ c2s' = [c2s EXCEPT ![s] = up2]
        /\ s2c' = [s2c EXCEPT ![s] = Sent(cli[s], s2c[s], out)]
        /\ pages' = o.pages
  BY <1>1, <1>3, SettleFacts
<1> DEFINE dir   == fsm[s].direction
           tk    == task[s]
           f     == fsm[s]
           c     == cli[s]
           up    == c2s[s]
           down  == s2c[s]
           F     == DOMAIN file[Owner[s]]
           down2 == Sent(c, down, out)
<1>5. /\ Typed(dir, tk, f, c, up, down)
      /\ pages \in Pages /\ IsPrefix1(DOMAIN pages)
      /\ Linked(dir, tk, f, c, up, down, DOMAIN pages, F)
      /\ tk = "open" /\ ~Idle(f)
      /\ o \in resume(f, pages)
      /\ Settles(o, up, tk2, up2, out)
  BY <1>2, <1>3, <1>4, SessionFacts DEF LinkedAt
<1> HIDE DEF dir, tk, f, c, up, down, F
<1>6. down2 = Sent(c, down, out)
  OBVIOUS
<1> HIDE DEF down2
<1>7. /\ o.pages \in Pages /\ DOMAIN pages \subseteq DOMAIN o.pages
      /\ IsPrefix1(DOMAIN o.pages)
      /\ Typed(dir, tk2, o.fsm, c, up2, down2)
      /\ Linked(dir, tk2, o.fsm, c, up2, down2, DOMAIN o.pages, F)
  BY <1>5, <1>6, ResumeSettles
<1>8. s2c' = [s2c EXCEPT ![s] = down2] /\ UNCHANGED <<cli, file, writes>>
  BY <1>4 DEF down2, c, down, ResumeApply
<1>9. /\ Typed(fsm[s].direction, tk2, o.fsm, cli[s], up2, down2)
      /\ Linked(fsm[s].direction, tk2, o.fsm, cli[s], up2, down2,
                DOMAIN o.pages, DOMAIN file[Owner[s]])
  BY <1>7 DEF dir, c, F
<1>10. QED
  BY <1>4, <1>7, <1>8, <1>9, ServerStepOfOne

\* The table has what was applied; the client has gone already.
LEMMA PeerCloseStep ==
  ASSUME IInv, NEW s \in Session, PeerClose(s)
  PROVE  IInv'
<1> DEFINE f == fsm[s]
           down2 == Sent(cli[s], s2c[s], <<>>)
<1>1. TypeOK /\ task[s] = "open" /\ Idle(f) /\ c2s[s] = <<>>
  BY DEF IInv, PeerClose, Free
<1>2. /\ Typed(fsm[s].direction, task[s], f, cli[s], c2s[s], s2c[s])
      /\ Linked(fsm[s].direction, task[s], f, cli[s], c2s[s], s2c[s],
                DOMAIN pages, DOMAIN file[Owner[s]])
  BY SessionFacts DEF LinkedAt
<1>3. Shape(f) /\ Ready(f) /\ f.direction = fsm[s].direction /\ f.rest = <<>>
  BY <1>1, <1>2 DEF Linked, FsmOK
<1>4. client_closed(f) = f
  BY <1>1, <1>3, ClientClosedNoop DEF Between
<1>5. down2 = s2c[s]
  BY <1>2, ConcatEmptySeq DEF Sent, Typed
<1>6. /\ task' = [task EXCEPT ![s] = "closed"]
      /\ fsm' = [fsm EXCEPT ![s] = f]
      /\ cli' = [cli EXCEPT ![s] = cli[s]]
      /\ c2s' = [c2s EXCEPT ![s] = <<>>]
      /\ s2c' = [s2c EXCEPT ![s] = s2c[s]]
      /\ UNCHANGED <<pages, file, writes>>
  BY <1>1, <1>4 DEF PeerClose, TypeOK
<1>7. down2 = Sent(cli[s], s2c[s], <<>>) /\ <<>> \in {<<>>, <<Error>>}
  OBVIOUS
<1> HIDE DEF f, down2
<1>8. /\ Typed(fsm[s].direction, "closed", f, cli[s], <<>>, down2)
      /\ Linked(fsm[s].direction, "closed", f, cli[s], <<>>, down2,
                DOMAIN pages, DOMAIN file[Owner[s]])
  BY <1>1, <1>2, <1>3, <1>7, FailedLinked
<1>9. QED
  BY <1>5, <1>6, <1>8, QuietStepOfOne

\* Every open task ends at once, without a word to its client.
LEMMA RestartStep ==
  ASSUME IInv, Restart
  PROVE  IInv'
<1>1. TypeOK /\ NoHoles
  BY DEF IInv
<1>2. /\ task' = [s \in Session |-> IF task[s] = "open" THEN "closed" ELSE task[s]]
      /\ c2s' = [s \in Session |-> <<>>]
      /\ UNCHANGED <<pages, fsm, cli, s2c, file, writes>>
  BY DEF Restart
<1>3. TypeOK' /\ NoHoles'
  BY <1>1, <1>2 DEF TypeOK, NoHoles
<1>4. ASSUME NEW s \in Session
      PROVE  LinkedAt(s)'
  <2> DEFINE f == fsm[s]
             down2 == Sent(cli[s], s2c[s], <<>>)
  <2>1. /\ Typed(fsm[s].direction, task[s], f, cli[s], c2s[s], s2c[s])
        /\ Linked(fsm[s].direction, task[s], f, cli[s], c2s[s], s2c[s],
                  DOMAIN pages, DOMAIN file[Owner[s]])
    BY SessionFacts DEF LinkedAt
  <2>2. CASE task[s] # "open"
    <3>1. c2s[s] = <<>>
      BY <2>1, <2>2 DEF Linked
    <3>2. task'[s] = task[s] /\ c2s'[s] = c2s[s]
      BY <1>2, <2>2, <3>1
    <3>3. QED
      BY <1>2, <2>1, <3>2 DEF LinkedAt
  <2>3. CASE task[s] = "open"
    <3>1. Shape(f) /\ f.direction = fsm[s].direction /\ f.rest = <<>>
      BY <2>1 DEF Linked, FsmOK
    <3>2. down2 = s2c[s]
      BY <2>1, ConcatEmptySeq DEF Sent, Typed
    <3>3. down2 = Sent(cli[s], s2c[s], <<>>) /\ <<>> \in {<<>>, <<Error>>}
      OBVIOUS
    <3>4. task'[s] = "closed" /\ c2s'[s] = <<>>
      BY <1>2, <2>3
    <3>5. UNCHANGED <<pages, fsm, cli, s2c, file>>
      BY <1>2
    <3> HIDE DEF f, down2
    <3>6. Linked(fsm[s].direction, "closed", f, cli[s], <<>>, down2,
                 DOMAIN pages, DOMAIN file[Owner[s]])
      BY <2>1, <2>3, <3>1, <3>3, FailedLinked
    <3>7. QED
      BY <3>2, <3>4, <3>5, <3>6 DEF LinkedAt, f
  <2>4. QED
    BY <2>2, <2>3
<1>5. QED
  BY <1>3, <1>4 DEF IInv

-----------------------------------------------------------------------------
(* The invariant, and what follows from it.                                *)

\* A session before its start.
LEMMA IdleLinked ==
  ASSUME NEW dir \in Direction, NEW D, NEW F
  PROVE  /\ Typed(dir, "none", new(dir), Exit("idle"), <<>>, <<>>)
         /\ Linked(dir, "none", new(dir), Exit("idle"), <<>>, <<>>, D, F)
<1>1. Ready(new(dir))
  BY NewReady
<1>2. Shape(new(dir)) /\ new(dir) \in Fsm
  BY <1>1 DEF Ready, Shape
<1>3. new(dir).direction = dir /\ new(dir).rest = <<>>
  BY DEF new
<1>4. Exit("idle") \in Cli /\ Exit("idle").pc = "idle"
  BY ExitType DEF Exit
<1>5. FsmOK(dir, "none", new(dir))
  BY <1>2, <1>3 DEF FsmOK
<1>6. ClientOK(dir, "none", Exit("idle"), <<>>, F)
  BY <1>4 DEF ClientOK, Running, Exit
<1>7. QED
  BY <1>2, <1>4, <1>5, <1>6 DEF Typed, Linked, Syncing

LEMMA InitIInv ==
  ASSUME Init
  PROVE  IInv
<1>1. \A g \in Prefixes(Content) :
        g \in LocalFile /\ DOMAIN g \in SUBSET PageNo /\ IsPrefix1(DOMAIN g)
  <2>1. ASSUME NEW n \in 0 .. LastPage
        PROVE  1 .. n \in SUBSET PageNo /\ IsPrefix1(1 .. n)
    BY LastPageAssumption, IntervalPrefix DEF PageNo
  <2>2. ASSUME NEW n \in 0 .. LastPage, NEW g \in [1 .. n -> Content]
        PROVE  /\ g \in LocalFile /\ DOMAIN g \in SUBSET PageNo
               /\ IsPrefix1(DOMAIN g)
    BY <2>1, <2>2 DEF LocalFile
  <2>3. QED
    BY <2>2 DEF Prefixes
<1>2. pages \in Pages /\ IsPrefix1(DOMAIN pages)
  <2>1. PICK g \in Prefixes(Content) :
          pages = [p \in DOMAIN g |-> [data |-> g[p], hash |-> page_hash(g[p])]]
    BY DEF Init
  <2>2. DOMAIN g \in SUBSET PageNo /\ IsPrefix1(DOMAIN g)
    BY <1>1
  <2>3. g \in [DOMAIN g -> Content]
    BY DEF Prefixes
  <2>4. pages \in [DOMAIN g -> Row]
    BY <2>1, <2>3 DEF Row, Hash
  <2>5. QED
    BY <2>2, <2>4 DEF Pages
<1>3. file \in [Host -> LocalFile] /\ \A h \in Host : IsPrefix1(DOMAIN file[h])
  <2>1. file \in [Host -> Prefixes(Content)]
    BY DEF Init
  <2>2. QED
    BY <1>1, <2>1
<1>4. \A s \in Session :
        /\ fsm[s].direction \in Direction /\ fsm[s] = new(fsm[s].direction)
        /\ task[s] = "none" /\ cli[s] = Exit("idle")
        /\ c2s[s] = <<>> /\ s2c[s] = <<>>
  <2>1. PICK token \in Tokens : fsm = [s \in Session |-> new(token[s])]
    BY DEF Init
  <2>2. \A s \in Session : token[s] \in Direction
    BY SystemAssumption
  <2>3. \A s \in Session : new(token[s]).direction = token[s]
    BY DEF new
  <2>4. QED
    BY <2>1, <2>2, <2>3 DEF Init
<1>5. \A s \in Session : LinkedAt(s)
  BY <1>4, IdleLinked DEF LinkedAt
<1>6. TypeOK
  <2>1. \A s \in Session : new(fsm[s].direction) \in Fsm /\ Exit("idle") \in Cli
    BY <1>4, IdleLinked DEF Typed
  <2>2. fsm \in [Session -> Fsm] /\ cli \in [Session -> Cli]
    BY <1>4, <2>1 DEF Init
  <2>3. /\ task \in [Session -> {"none", "open", "closed"}]
        /\ c2s \in [Session -> Seq(ClientFrame)]
        /\ s2c \in [Session -> Seq(ServerFrame)]
    BY DEF Init
  <2>4. writes \in 0 .. MaxLocalWrites
    BY SystemAssumption DEF Init
  <2>5. QED
    BY <1>2, <1>3, <2>2, <2>3, <2>4 DEF TypeOK
<1>7. QED
  BY <1>2, <1>3, <1>5, <1>6 DEF IInv, NoHoles

LEMMA NextIInv ==
  ASSUME IInv, [Next]_vars
  PROVE  IInv'
<1>1. CASE UNCHANGED vars
  BY <1>1 DEF vars, IInv, TypeOK, NoHoles, LinkedAt
<1>2. ASSUME NEW s \in Session, ClientStep(s)
      PROVE  IInv'
  BY <1>2, RecvHelloReplyStep, SendHashStep, SendCompleteStep,
     RecvRequestStep, ServePageStep, RecvPageStep, RecvSyncCompleteStep,
     RecvFailsStep DEF ClientStep
<1>3. ASSUME NEW s \in Session, ServerStep(s)
      PROVE  IInv'
  BY <1>3, ApplyStep, ResumeApplyStep, PeerCloseStep DEF ServerStep
<1>4. CASE Next
  BY <1>1, <1>2, <1>3, <1>4, StartStep, ClientFailsStep, LocalWriteStep,
     RestartStep DEF Next, Finished
<1>5. QED
  BY <1>1, <1>4

\* The inductive invariant: what any number of sessions, in any order and
\* with any of the failures, leave true of every one of them.
THEOREM Invariance == Spec => []IInv
<1>1. Init => IInv
  BY InitIInv
<1>2. IInv /\ [Next]_vars => IInv'
  BY NextIInv
<1>3. QED
  BY <1>1, <1>2, PTL DEF Spec

\* The command of a session decides its phases.
LEMMA NextCommanded ==
  ASSUME TypeOK, [Next]_vars, NEW s \in Session, Commanded(s)
  PROVE  Commanded(s)'
<1>1. \A pc : Exit(pc).pc = pc /\ DOMAIN Exit(pc).txn = {}
  BY DEF Exit
<1>2. cli'[s] = cli[s] => Commanded(s)'
  BY DEF Commanded
<1>3. cli \in [Session -> Cli] /\ cli[s].pc = cli[s].pc
  BY DEF TypeOK
<1>4. CASE UNCHANGED vars
  BY <1>2, <1>4 DEF vars
<1>5. ASSUME NEW t \in Session, Start(t)
      PROVE  Commanded(s)'
  BY <1>3, <1>5 DEF Start, Commanded, Cli
<1>6. ASSUME NEW t \in Session, Fail(t)
      PROVE  Commanded(s)'
  BY <1>1, <1>2, <1>3, <1>6 DEF Fail, Commanded
<1>7. ASSUME NEW t \in Session, ClientStep(t)
      PROVE  Commanded(s)'
  <2>1. CASE RecvHelloReply(t)
    BY <1>3, <2>1 DEF RecvHelloReply, Commanded, Cli
  <2>2. CASE SendHash(t)
    BY <1>3, <2>2 DEF SendHash, Commanded, Cli
  <2>3. CASE SendComplete(t)
    BY <1>3, <2>3 DEF SendComplete, Commanded, Cli
  <2>4. CASE RecvRequest(t)
    BY <1>3, <2>4 DEF RecvRequest, Commanded, Cli
  <2>5. CASE ServePage(t)
    BY <1>3, <2>5 DEF ServePage, Commanded, Cli
  <2>6. CASE RecvPage(t)
    BY <1>3, <2>6 DEF RecvPage, Commanded, Cli
  <2>7. CASE RecvSyncComplete(t)
    BY <1>1, <1>2, <1>3, <2>7 DEF RecvSyncComplete, Commanded
  <2>8. CASE RecvOther(t) \/ RecvClosed(t)
    BY <1>6, <2>8 DEF RecvOther, RecvClosed
  <2>9. QED
    BY <1>7, <2>1, <2>2, <2>3, <2>4, <2>5, <2>6, <2>7, <2>8 DEF ClientStep
<1>8. CASE Next
  <2>1. ASSUME NEW t \in Session, ServerStep(t)
        PROVE  cli' = cli
    BY <2>1 DEF ServerStep, Apply, ResumeApply, PeerClose
  <2>2. ASSUME NEW t \in Session, ClientFails(t)
        PROVE  Commanded(s)'
    BY <1>6, <2>2 DEF ClientFails
  <2>3. ASSUME \/ \E h \in Host, p \in PageNo, d \in Content : LocalWrite(h, p, d)
               \/ Restart
               \/ Finished
        PROVE  cli' = cli
    BY <2>3 DEF LocalWrite, Restart, Finished, vars
  <2>4. QED
    BY <1>2, <1>5, <1>7, <1>8, <2>1, <2>2, <2>3 DEF Next
<1>9. QED
  BY <1>4, <1>8

LEMMA InitCommanded ==
  ASSUME Init, NEW s \in Session
  PROVE  Commanded(s)
BY DEF Init, Exit, Commanded

\* What a client does goes by its command, as what the object does goes by
\* its token.
THEOREM CommandIsRun == Spec => [](\A s \in Session : Commanded(s))
<1>1. Init => \A s \in Session : Commanded(s)
  BY InitCommanded
<1>2. IInv /\ (\A s \in Session : Commanded(s)) /\ [Next]_vars
        => (\A s \in Session : Commanded(s))'
  BY NextCommanded DEF IInv
<1>3. QED
  BY <1>1, <1>2, Invariance, PTL DEF Spec

LEMMA RequestFrames ==
  \A m \in ServerFrame : m.kind = "RequestPage" => m = RequestPage(m.page_no)
BY DEF ServerFrame, RequestPage, HelloReply, SyncComplete, Error

\* A set none of whose members differ.
LEMMA AtMostOne ==
  ASSUME NEW S, \A i, j \in S : i = j
  PROVE  Cardinality(S) = IF S = {} THEN 0 ELSE 1
<1>1. CASE S = {}
  BY <1>1, FS_EmptySet
<1>2. CASE S # {}
  <2>1. PICK i \in S : TRUE
    BY <1>2
  <2>2. S = {i}
    BY <2>1
  <2>3. Cardinality({i}) = 1
    BY FS_Singleton
  <2> HIDE <2>2
  <2>4. Cardinality(S) = 1
    BY <2>2, <2>3
  <2>5. QED
    BY <1>2, <2>4
<1>3. QED
  BY <1>1, <1>2

\* The three places of a page that is waited for: no two of them at once,
\* none twice, and one of them if it is.
LEMMA OnePlace ==
  ASSUME NEW dir, NEW tk, NEW f, NEW c, NEW up, NEW down,
         Typed(dir, tk, f, c, up, down),
         NEW D, NEW F, Linked(dir, tk, f, c, up, down, D, F),
         tk = "open", dir = "push", Running(c), NEW p \in PageNo
  PROVE  Occurrences(down, RequestPage(p)) + Occurrences(c.queue, p)
           + Cardinality({i \in DOMAIN up : up[i].kind = "PageData"
                                            /\ up[i].page_no = p})
         = IF p \in f.pending_requests THEN 1 ELSE 0
<1> DEFINE A == {i \in DOMAIN down : down[i] = RequestPage(p)}
           B == {i \in DOMAIN c.queue : c.queue[i] = p}
           C == {i \in DOMAIN up : IsData(up[i]) /\ up[i].page_no = p}
<1>1. /\ DOMAIN down \in SUBSET (Nat \ {0})
      /\ DOMAIN c.queue \in SUBSET (Nat \ {0})
      /\ DOMAIN up \in SUBSET (Nat \ {0})
      /\ \A i \in DOMAIN down : down[i] \in ServerFrame
      /\ \A i \in DOMAIN c.queue : c.queue[i] \in Nat
  <2>1. /\ down \in Seq(ServerFrame) /\ up \in Seq(ClientFrame)
        /\ c.queue \in Seq(PageNo)
    BY DEF Typed, Cli
  <2> DEFINE q == c.queue
  <2>2. q \in Seq(PageNo)
    BY <2>1
  <2>3. DOMAIN down \in SUBSET (Nat \ {0}) /\ DOMAIN up \in SUBSET (Nat \ {0})
    BY <2>1
  <2>4. \A i \in DOMAIN down : down[i] \in ServerFrame
    BY <2>1
  <2> HIDE DEF q
  <2>5. DOMAIN q \in SUBSET (Nat \ {0}) /\ \A i \in DOMAIN q : q[i] \in PageNo
    BY <2>2
  <2>6. PageNo \in SUBSET Nat
    BY DEF PageNo
  <2>7. QED
    BY <2>3, <2>4, <2>5, <2>6 DEF q
<1>2. p \in Nat /\ RequestPage(p).kind = "RequestPage" /\ RequestPage(p).page_no = p
  BY DEF PageNo, RequestPage
<1>3. CASE c.pc = "hello"
  <2>1. /\ c.queue = <<>> /\ f.pending_requests = {}
        /\ \/ up = <<Hello(PROTOCOL_VERSION)>> /\ down = <<>>
           \/ up = <<>> /\ \E m \in 0 .. LastPage : down = <<HelloReply(m)>>
    <3>1. ~f.saw_hello => f.pending_requests = {}
      BY DEF Linked, FsmOK, new
    <3>2. QED
      BY <1>3, <3>1 DEF Linked, ClientOK, Greeting
  <2>2. B = {}
    BY <2>1, NoFrames
  <2>3. C = {}
    <3>1. CASE up = <<>>
      BY <3>1, NoFrames
    <3>2. CASE up = <<Hello(PROTOCOL_VERSION)>>
      BY <3>2, FrameFields DEF IsData
    <3>3. QED
      BY <2>1, <3>1, <3>2
  <2>4. A = {}
    <3>1. CASE down = <<>>
      BY <3>1, NoFrames
    <3>2. ASSUME NEW m \in 0 .. LastPage, down = <<HelloReply(m)>>
          PROVE  A = {}
      <4>1. HelloReply(m).kind = "HelloReply"
        BY DEF HelloReply
      <4>2. QED
        BY <1>2, <3>2, <4>1
    <3>3. QED
      BY <2>1, <3>1, <3>2
  <2>5. Cardinality(A) = 0 /\ Cardinality(B) = 0 /\ Cardinality(C) = 0
    BY <2>2, <2>3, <2>4, FS_EmptySet
  <2> HIDE DEF A, B, C
  <2>6. Cardinality(A) + Cardinality(B) + Cardinality(C)
        = IF p \in f.pending_requests THEN 1 ELSE 0
    BY <2>1, <2>5
  <2>7. QED
    BY <2>6 DEF A, B, C, Occurrences, IsData
<1>4. CASE Syncing(c)
  <2>1. InOrder(f, c, up, down) /\ Requested(f, up, D)
    BY <1>4 DEF Linked
  <2>2. \A i \in DOMAIN down : down[i].kind = "RequestPage"
    BY <1>4, OpenDownstream DEF Linked
  <2>3. A = {i \in DOMAIN down : down[i].page_no = p}
    <3>1. \A i \in DOMAIN down : down[i] = RequestPage(down[i].page_no)
      BY <1>1, <2>2, RequestFrames
    <3>2. QED
      BY <1>2, <3>1
  <2> HIDE DEF A
  <2>4. \A i, j \in A : i = j
    <3>1. ASSUME NEW i \in A, NEW j \in A, i < j
          PROVE  FALSE
      <4>1. /\ i \in DOMAIN down /\ j \in DOMAIN down /\ i \in 1 .. j - 1
            /\ down[i].page_no = p /\ down[j].page_no = p
        BY <1>1, <2>3, <3>1
      <4>2. down[i].page_no < down[j].page_no
        BY <2>1, <4>1 DEF InOrder
      <4>3. QED
        BY <1>2, <4>1, <4>2
    <3>2. A \in SUBSET Nat
      BY <1>1, <2>3
    <3>3. QED
      BY <3>1, <3>2
  <2>5. \A i, j \in B : i = j
    <3>1. ASSUME NEW i \in B, NEW j \in B, i < j
          PROVE  FALSE
      <4>1. /\ j \in DOMAIN c.queue /\ i \in 1 .. j - 1
            /\ c.queue[i] = p /\ c.queue[j] = p
        BY <1>1, <3>1
      <4>2. c.queue[i] < c.queue[j]
        BY <2>1, <4>1 DEF InOrder
      <4>3. QED
        BY <1>2, <4>1, <4>2
    <3>2. B \in SUBSET Nat
      BY <1>1
    <3>3. QED
      BY <3>1, <3>2
  <2>6. \A i, j \in C : i = j
    <3>1. ASSUME NEW i \in C, NEW j \in C, i < j
          PROVE  FALSE
      <4>1. /\ j \in DOMAIN up /\ i \in 1 .. j - 1
            /\ IsData(up[i]) /\ IsData(up[j])
            /\ up[i].page_no = p /\ up[j].page_no = p
        BY <1>1, <3>1
      <4>2. up[i].page_no < up[j].page_no
        BY <2>1, <4>1 DEF Requested
      <4>3. QED
        BY <1>2, <4>1, <4>2
    <3>2. C \in SUBSET Nat
      BY <1>1
    <3>3. QED
      BY <3>1, <3>2
  <2>7. (A = {} \/ B = {}) /\ (A = {} \/ C = {}) /\ (B = {} \/ C = {})
    <3>1. ASSUME NEW i \in A, NEW j \in B
          PROVE  FALSE
      <4>1. c.queue[j] < down[i].page_no
        BY <2>1, <2>3, <3>1 DEF InOrder
      <4>2. QED
        BY <1>2, <2>3, <3>1, <4>1
    <3>2. ASSUME NEW i \in A, NEW j \in C
          PROVE  FALSE
      <4>1. up[j].page_no < down[i].page_no
        BY <2>1, <2>3, <3>2 DEF InOrder
      <4>2. QED
        BY <1>2, <2>3, <3>2, <4>1
    <3>3. ASSUME NEW i \in B, NEW j \in C
          PROVE  FALSE
      <4>1. up[j].page_no < c.queue[i]
        BY <2>1, <3>3 DEF InOrder
      <4>2. QED
        BY <1>2, <3>3, <4>1
    <3>4. QED
      BY <3>1, <3>2, <3>3
  <2>8. p \in f.pending_requests <=> A # {} \/ B # {} \/ C # {}
    <3>1. p \in f.pending_requests => A # {} \/ B # {} \/ C # {}
      BY <2>1, <2>3 DEF InOrder
    <3>2. A # {} \/ B # {} => p \in f.pending_requests
      BY <2>1, <2>3 DEF InOrder
    <3>3. C # {} => p \in f.pending_requests
      BY <2>1 DEF Requested
    <3>4. QED
      BY <3>1, <3>2, <3>3
  <2> HIDE DEF B, C
  <2>9. /\ Cardinality(A) = IF A = {} THEN 0 ELSE 1
        /\ Cardinality(B) = IF B = {} THEN 0 ELSE 1
        /\ Cardinality(C) = IF C = {} THEN 0 ELSE 1
    BY <2>4, <2>5, <2>6, AtMostOne
  <2>10. Cardinality(A) + Cardinality(B) + Cardinality(C)
         = IF p \in f.pending_requests THEN 1 ELSE 0
    BY <2>7, <2>8, <2>9
  <2>11. QED
    BY <2>10 DEF A, B, C, Occurrences, IsData
<1>5. QED
  BY <1>3, <1>4 DEF Running, Syncing

-----------------------------------------------------------------------------

\* Every variable keeps its type: frames, FSMs, clients, table and files.
THEOREM TypeCorrect == Spec => []TypeOK
<1>1. IInv => TypeOK
  BY DEF IInv
<1>2. QED
  BY <1>1, Invariance, PTL

\* The object and every file hold pages 1..n, whatever was cut short.
THEOREM HolesNever == Spec => []NoHoles
<1>1. IInv => NoHoles
  BY DEF IInv
<1>2. QED
  BY <1>1, Invariance, PTL

\* The two programs agree on the phases: no client meets a frame that it
\* bails out on, but for the Error of a server that failed and, with a token
\* for the other command, the requests or pages that go by the token.
THEOREM PhasesAgree == Spec => []SurprisesAreErrors
<1>1. IInv /\ (\A s \in Session : Commanded(s)) => SurprisesAreErrors
  <2> SUFFICES ASSUME IInv, NEW s \in Session, Commanded(s),
                      Reads(s), s2c[s] # <<>>,
                      Head(s2c[s]).kind \notin Expected(s)
               PROVE  \/ Head(s2c[s]) = Error
                      \/ /\ ~Fits(s)
                         /\ Head(s2c[s]).kind = FrameOf(fsm[s].direction)
    BY DEF SurprisesAreErrors
  <2> DEFINE c == cli[s]
             down == s2c[s]
  <2>1. /\ Typed(fsm[s].direction, task[s], fsm[s], c, c2s[s], down)
        /\ Linked(fsm[s].direction, task[s], fsm[s], c, c2s[s], down,
                  DOMAIN pages, DOMAIN file[Owner[s]])
    BY SessionFacts DEF LinkedAt
  <2>2. /\ Running(c)
        /\ c.pc = "hash" => Command[s] = "push"
        /\ c.pc = "hello" => Head(down).kind # "HelloReply"
        /\ c.pc = "hash" => Head(down).kind # "RequestPage"
        /\ c.pc = "drain" => Head(down).kind \notin {"RequestPage", "SyncComplete"}
        /\ c.pc = "recv" => Head(down).kind \notin {"PageData", "SyncComplete"}
    BY DEF Reads, PushReads, Expected, Running
  <2>3. /\ down # <<>> /\ 1 \in DOMAIN down /\ Head(down) = down[1]
        /\ fsm[s].direction \in {"push", "pull"}
        /\ Command[s] \in {"push", "pull"}
    BY <2>1, SystemAssumption, TailFacts DEF Typed, Direction
  <2>4. /\ Command[s] = "push" => c.pc # "recv"
        /\ Command[s] = "pull" => c.pc # "drain"
    BY DEF Commanded
  <2> HIDE DEF c, down
  <2>5. CASE c.pc = "hello"
    <3>1. task[s] \in {"open", "closed"}
      BY <2>1, <2>5 DEF Typed, Linked, ClientOK
    <3>2. \/ down = <<>> \/ down = <<Error>>
          \/ \E m \in 0 .. LastPage : down = <<HelloReply(m)>>
      BY <2>1, <2>5, <3>1 DEF Linked, Greeting
    <3>3. ASSUME NEW m \in 0 .. LastPage, down = <<HelloReply(m)>>
          PROVE  Head(down).kind = "HelloReply"
      BY <3>3 DEF HelloReply
    <3>4. QED
      BY <2>2, <2>3, <2>5, <3>2, <3>3 DEF down
  <2>6. CASE Syncing(c)
    <3>1. Downstream(fsm[s].direction, task[s], c, down)
      BY <2>1, <2>6 DEF Linked
    <3>2. \/ down[1].kind = FrameOf(fsm[s].direction)
          \/ down[1] = Error
          \/ down[1].kind = "SyncComplete" /\ c.pc # "hash"
      BY <2>3, <3>1 DEF Downstream, FrameOf
    <3>3. ASSUME down[1].kind = FrameOf(fsm[s].direction)
          PROVE  ~Fits(s)
      BY <2>2, <2>3, <2>4, <2>6, <3>3 DEF Syncing, Fits, FrameOf
    <3>4. QED
      BY <2>2, <2>3, <2>4, <2>6, <3>2, <3>3 DEF Running, Syncing, down
  <2>7. QED
    BY <2>2, <2>5, <2>6 DEF Running, Syncing
<1>2. QED
  BY <1>1, Invariance, CommandIsRun, PTL

\* The number in SyncComplete is what the client that reads it has done.
THEOREM CountsMatch == Spec => []CountsAgree
<1>1. IInv => CountsAgree
  <2> SUFFICES ASSUME IInv, NEW s \in Session,
                      Reads(s), Arrived(s, "SyncComplete")
               PROVE  Head(s2c[s]).pages_transferred = cli[s].count
    BY DEF CountsAgree
  <2> DEFINE c == cli[s]
             down == s2c[s]
             D == DOMAIN pages
             F == DOMAIN file[Owner[s]]
  <2>1. /\ Typed(fsm[s].direction, task[s], fsm[s], c, c2s[s], down)
        /\ Linked(fsm[s].direction, task[s], fsm[s], c, c2s[s], down, D, F)
        /\ F \in SUBSET PageNo /\ IsPrefix1(F)
    BY SessionFacts DEF LinkedAt
  <2>2. Running(c) /\ down # <<>> /\ Head(down).kind = "SyncComplete"
    BY DEF Reads, PushReads, Running, Arrived
  <2> HIDE DEF c, down, D, F
  <2>3. c.pc # "hello"
    <3> SUFFICES ASSUME c.pc = "hello" PROVE FALSE
      OBVIOUS
    <3>1. task[s] \in {"open", "closed"}
      BY <2>1 DEF Typed, Linked, ClientOK
    <3>2. \/ down = <<>> \/ down = <<Error>>
          \/ \E m \in 0 .. LastPage : down = <<HelloReply(m)>>
      BY <2>1, <3>1 DEF Linked, Greeting
    <3>3. ASSUME NEW m \in 0 .. LastPage, down = <<HelloReply(m)>>
          PROVE  Head(down).kind = "HelloReply"
      BY <3>3 DEF HelloReply
    <3>4. down = <<Error>> => Head(down).kind = "Error"
      BY DEF Error
    <3>5. QED
      BY <2>2, <3>2, <3>3, <3>4
  <2>4. c.pc # "hash"
    <3> SUFFICES ASSUME c.pc = "hash" PROVE FALSE
      OBVIOUS
    <3>1. Downstream(fsm[s].direction, task[s], c, down)
      BY <2>1 DEF Linked, Syncing
    <3>2. 1 \in DOMAIN down /\ down[1].kind = "SyncComplete"
      BY <2>1, <2>2, TailFacts DEF Typed
    <3>3. Error.kind = "Error"
      BY FrameFields
    <3>4. QED
      BY <3>1, <3>2, <3>3 DEF Downstream
  <2>5. c.pc \in {"drain", "recv"}
    BY <2>2, <2>3, <2>4 DEF Running
  <2>6. /\ task[s] = "closed" /\ Tail(down) = <<>>
        /\ Head(down).pages_transferred = c.count
        /\ IsPrefix1(F \cup DOMAIN c.txn)
    BY <2>1, <2>2, <2>5, CommitFacts
  <2>7. QED
    BY <2>6 DEF c, down
<1>2. QED
  BY <1>1, Invariance, PTL

\* A push neither loses a request nor serves one twice.
THEOREM RequestsAreKept == Spec => []RequestInOnePlace
<1>1. IInv => RequestInOnePlace
  <2> SUFFICES ASSUME IInv, NEW s \in Session,
                      fsm[s].direction = "push", task[s] = "open", Active(s),
                      NEW p \in PageNo
               PROVE  InFlight(s, p)
                      = IF p \in fsm[s].pending_requests THEN 1 ELSE 0
    BY DEF RequestInOnePlace
  <2>1. /\ Typed(fsm[s].direction, task[s], fsm[s], cli[s], c2s[s], s2c[s])
        /\ Linked(fsm[s].direction, task[s], fsm[s], cli[s], c2s[s], s2c[s],
                  DOMAIN pages, DOMAIN file[Owner[s]])
        /\ Running(cli[s])
    BY SessionFacts DEF LinkedAt, Active, Running
  <2>2. QED
    BY <2>1, OnePlace DEF InFlight
<1>2. QED
  BY <1>1, Invariance, PTL

-----------------------------------------------------------------------------
(* What equal digests mean.                                                *)

\* The pages of an interval, by rank.
LEMMA ByPageNoInterval ==
  ASSUME NEW p \in Nat, NEW r \in Nat, NEW k \in 1 .. Cardinality(p .. r)
  PROVE  /\ ByPageNo(p .. r, k) = p + k - 1
         /\ p + k - 1 \in p .. r
<1>1. Cardinality(p .. r) = IF p > r THEN 0 ELSE r - p + 1
  BY FS_Interval
<1>2. p <= r /\ k \in Nat /\ k >= 1 /\ k <= r - p + 1
  BY <1>1
<1> DEFINE below(n) == {m \in p .. r : m < n}
<1>3. ASSUME NEW n \in p .. r
      PROVE  Cardinality(below(n)) = n - p
  <2>1. below(n) = p .. n - 1
    OBVIOUS
  <2> DEFINE x == n - 1
             y == Cardinality(p .. x)
  <2>2. x \in Int /\ x + 1 = n /\ n >= p
    OBVIOUS
  <2> HIDE DEF x
  <2>3. y = IF p > x THEN 0 ELSE x - p + 1
    BY <2>2, FS_Interval
  <2>4. Cardinality(below(n)) = y
    BY <2>1 DEF x
  <2> HIDE DEF y, below
  <2>5. QED
    BY <2>2, <2>3, <2>4
<1> HIDE DEF below
<1>4. p + k - 1 \in p .. r /\ Cardinality(below(p + k - 1)) = k - 1
  <2> DEFINE n == p + k - 1
  <2>1. n \in p .. r /\ n - p = k - 1
    BY <1>2
  <2> HIDE DEF n
  <2>2. Cardinality(below(n)) = k - 1
    BY <1>3, <2>1
  <2>3. QED
    BY <2>1, <2>2 DEF n
<1>5. \A n \in p .. r : Cardinality(below(n)) = k - 1 => n = p + k - 1
  <2> SUFFICES ASSUME NEW n \in p .. r, Cardinality(below(n)) = k - 1
               PROVE  n = p + k - 1
    OBVIOUS
  <2>1. n - p = k - 1
    BY <1>3
  <2>2. QED
    BY <1>2, <2>1
<1>6. ByPageNo(p .. r, k) = p + k - 1
  <2>1. ByPageNo(p .. r, k) = CHOOSE n \in p .. r : Cardinality(below(n)) = k - 1
    BY DEF ByPageNo, below
  <2>2. QED
    BY <1>4, <1>5, <2>1
<1>7. QED
  BY <1>4, <1>6

\* The hashes of rows p..r.
HashesOf(st, p, r) == [k \in 1 .. Cardinality(p .. r) |-> st[p + k - 1].hash]

\* The last of the pages 1..n that is not beyond q.
LastUpTo(q, n) == IF q <= n THEN q ELSE n

LEMMA LastUpToFacts ==
  ASSUME NEW n \in Nat, NEW p \in Nat \ {0}, NEW q \in Nat
  PROVE  /\ LastUpTo(q, n) \in Nat
         /\ (1 .. n) \cap (p .. q) = p .. LastUpTo(q, n)
  BY DEF LastUpTo

\* Over a table of pages 1..n a digest has the rows p..LastUpTo(q, n) and
\* nothing else.
LEMMA DigestOfPrefix ==
  ASSUME NEW n \in Nat, NEW st, DOMAIN st = 1 .. n,
         NEW p \in Nat \ {0}, NEW q \in Nat
  PROVE  combined_hash(st, p, q) = Digest(HashesOf(st, p, LastUpTo(q, n)))
<1> DEFINE r == LastUpTo(q, n)
           S == DOMAIN st \cap (p .. q)
           N == Cardinality(p .. r)
<1>1. r \in Nat /\ S = p .. r
  BY LastUpToFacts
<1> HIDE DEF r
<1>2. \A k \in 1 .. N : ByPageNo(p .. r, k) = p + k - 1
  BY <1>1, ByPageNoInterval
<1>3. combined_hash(st, p, q)
      = Digest([k \in 1 .. Cardinality(S) |-> st[ByPageNo(S, k)].hash])
  BY DEF combined_hash
<1>4. [k \in 1 .. Cardinality(S) |-> st[ByPageNo(S, k)].hash]
      = [k \in 1 .. N |-> st[p + k - 1].hash]
  BY <1>1, <1>2
<1>5. combined_hash(st, p, q) = Digest(HashesOf(st, p, r))
  BY <1>3, <1>4 DEF HashesOf
<1>6. QED
  BY <1>5 DEF r

LEMMA DigestInjective ==
  ASSUME NEW x, NEW y, Digest(x) = Digest(y)
  PROVE  x = y
  BY DEF Digest

LEMMA EqualDigests ==
  ASSUME NEW a \in Nat, NEW b \in Nat, NEW st, NEW tt,
         DOMAIN st = 1 .. a, DOMAIN tt = 1 .. b,
         NEW p \in PageNo, NEW q \in PageNo,
         combined_hash(st, p, q) = combined_hash(tt, p, q),
         NEW n \in p .. q
  PROVE  /\ n \in DOMAIN st <=> n \in DOMAIN tt
         /\ n \in DOMAIN st => st[n].hash = tt[n].hash
<1>1. p \in Nat \ {0} /\ q \in Nat /\ p <= q /\ n \in Nat
  BY LastPageAssumption DEF PageNo
<1> DEFINE r == LastUpTo(q, a)
           t == LastUpTo(q, b)
<1>2. r \in Nat /\ (1 .. a) \cap (p .. q) = p .. r
  BY <1>1, LastUpToFacts
<1>3. t \in Nat /\ (1 .. b) \cap (p .. q) = p .. t
  BY <1>1, LastUpToFacts
<1>4. HashesOf(st, p, r) = HashesOf(tt, p, t)
  <2>1. combined_hash(st, p, q) = Digest(HashesOf(st, p, r))
    BY <1>1, DigestOfPrefix
  <2>2. combined_hash(tt, p, q) = Digest(HashesOf(tt, p, t))
    BY <1>1, DigestOfPrefix
  <2>3. Digest(HashesOf(st, p, r)) = Digest(HashesOf(tt, p, t))
    BY <2>1, <2>2
  <2> HIDE DEF r, t
  <2>4. QED
    BY <2>3, DigestInjective
<1> HIDE DEF r, t
<1>7. /\ Cardinality(p .. r) = IF p > r THEN 0 ELSE r - p + 1
      /\ Cardinality(p .. t) = IF p > t THEN 0 ELSE t - p + 1
  BY <1>1, <1>2, <1>3, FS_Interval
<1>5. Cardinality(p .. r) \in Nat /\ Cardinality(p .. t) \in Nat
  BY <1>1, <1>2, <1>3, <1>7
<1>6. Cardinality(p .. r) = Cardinality(p .. t)
  <2> DEFINE x == Cardinality(p .. r)
             y == Cardinality(p .. t)
  <2>1. 1 .. x = 1 .. y
    BY <1>4 DEF HashesOf
  <2> HIDE DEF x, y
  <2>2. x \in Nat /\ y \in Nat
    BY <1>5 DEF x, y
  <2>3. x = y
    BY <2>1, <2>2
  <2>4. QED
    BY <2>3 DEF x, y
<1>8. p .. r = p .. t
  BY <1>1, <1>2, <1>3, <1>6, <1>7
<1>9. n \in DOMAIN st <=> n \in DOMAIN tt
  BY <1>1, <1>2, <1>3, <1>8
<1>10. n \in DOMAIN st => st[n].hash = tt[n].hash
  <2> SUFFICES ASSUME n \in DOMAIN st PROVE st[n].hash = tt[n].hash
    OBVIOUS
  <2>1. n \in p .. r
    BY <1>1, <1>2
  <2> DEFINE k == n - p + 1
  <2>2. k \in 1 .. Cardinality(p .. r) /\ p + k - 1 = n
    BY <1>1, <1>2, <1>7, <2>1
  <2>3. HashesOf(st, p, r)[k] = st[n].hash
    BY <2>2 DEF HashesOf
  <2>4. HashesOf(tt, p, t)[k] = tt[n].hash
    BY <1>6, <2>2 DEF HashesOf
  <2>5. QED
    BY <1>4, <2>3, <2>4
<1>11. QED
  BY <1>9, <1>10

-----------------------------------------------------------------------------
(* Every row is stored under the hash of its own bytes.                    *)

RowsTrue(st) == \A p \in DOMAIN st : st[p].hash = page_hash(st[p].data)

\* What an apply leaves in the table: the rows it found, or those and the
\* page of the PageData it was given.
LEMMA PagesAfterApply ==
  ASSUME NEW f \in Fsm, f.rest = <<>>, NEW st, NEW m \in ClientFrame,
         NEW o \in apply(f, st, m)
  PROVE  \/ o.pages = st
         \/ /\ IsData(m)
            /\ o.pages = put_page(st, m.page_no, m.data, page_hash(m.data))
<1> DEFINE tt == put_page(st, m.page_no, m.data, page_hash(m.data))
           R  == o.pages = st \/ (IsData(m) /\ o.pages = tt)
<1>1. m.kind \in {"Hello", "Complete", "PageHash", "PageData"}
  BY ClientFrames, FrameFields
<1>2. ASSUME Failed(f, st, o) PROVE R
  BY <1>2 DEF Failed
<1>3. ASSUME o \in handle_hello(f, st, m) PROVE R
  <2>1. Failed(f, st, o) \/ Greeted(f, st, o)
    BY <1>3, HelloEffect
  <2>2. QED
    BY <1>2, <2>1 DEF Greeted, Succeeded
<1>4. ASSUME m.kind = "PageHash" /\ o \in handle_page_hash(f, st, m) PROVE R
  <2>1. m.page_no \in PageNo
    BY <1>4, ClientFrames, FrameFields
  <2>2. Failed(f, st, o) \/ Claimed(f, st, m.page_no, o)
    BY <1>4, <2>1, PageHashEffect
  <2>3. QED
    BY <1>2, <2>2 DEF Claimed, Succeeded
<1>5. ASSUME m.kind = "PageData" /\ o \in handle_page_data(f, st, m) PROVE R
  <2>1. Failed(f, st, o) \/ Failed(f, tt, o) \/ Stored(f, tt, m.page_no, o)
    BY <1>5, PageDataEffect
  <2>2. IsData(m)
    BY <1>5 DEF IsData
  <2> HIDE DEF tt
  <2>3. o.pages = st \/ o.pages = tt
    BY <2>1 DEF Failed, Stored, Gated, Succeeded
  <2>4. QED
    BY <2>2, <2>3 DEF tt
<1>6. ASSUME o \in handle_complete(f, st) PROVE R
  <2>1. Failed(f, st, o) \/ Hashed(f, st, o)
    BY <1>6, CompleteEffect
  <2>2. QED
    BY <1>2, <2>1 DEF Hashed, Gated, Succeeded
<1>7. ASSUME o = Err(f, st) PROVE R
  BY <1>2, <1>7, OutcomeFields
<1> HIDE DEF R
<1>8. R
  BY <1>1, <1>3, <1>4, <1>5, <1>6, <1>7, ZenonT(60) DEF apply
<1>9. QED
  BY <1>8 DEF R

\* A turn of the walk only reads the table.
LEMMA PagesAfterResume ==
  ASSUME NEW f \in Fsm, f.rest = <<>>, ~Idle(f), NEW st,
         NEW o \in resume(f, st)
  PROVE  o.pages = st
<1>1. o \in walk(f, st)
  BY DEF Idle, resume
<1>2. Failed(f, st, o) \/ Walks(f, st, o)
  BY <1>1, WalkEffect
<1>3. QED
  BY <1>2 DEF Failed, Walks, Gated, Succeeded

LEMMA RowStored ==
  ASSUME NEW st, RowsTrue(st), NEW p, NEW d
  PROVE  RowsTrue(put_page(st, p, d, page_hash(d)))
BY DEF RowsTrue, put_page

LEMMA InitRowsTrue ==
  ASSUME Init
  PROVE  RowsTrue(pages)
<1>1. PICK g \in Prefixes(Content) :
        pages = [p \in DOMAIN g |-> [data |-> g[p], hash |-> page_hash(g[p])]]
  BY DEF Init
<1>2. QED
  BY <1>1 DEF RowsTrue

LEMMA NextRowsTrue ==
  ASSUME IInv, RowsTrue(pages), [Next]_vars
  PROVE  RowsTrue(pages')
<1>1. CASE pages' = pages
  BY <1>1
<1>2. ASSUME NEW s \in Session, ClientStep(s) \/ PeerClose(s) \/ Start(s)
      PROVE  pages' = pages
  BY <1>2 DEF ClientStep, PeerClose, Start, RecvHelloReply, SendHash,
     SendComplete, RecvRequest, ServePage, RecvPage, RecvSyncComplete,
     RecvOther, RecvClosed, Fail, server
<1>3. ASSUME NEW s \in Session, Apply(s)
      PROVE  RowsTrue(pages')
  <2>1. PICK o \in apply(fsm[s], pages, Head(c2s[s])) :
          Settle(s, o, Tail(c2s[s]))
    BY <1>3 DEF Apply, Possible
  <2>2. pages' = o.pages
    BY <2>1 DEF Settle
  <2>3. fsm[s] \in Fsm /\ fsm[s].rest = <<>> /\ Head(c2s[s]) \in ClientFrame
    <3>1. fsm[s] \in Fsm /\ fsm[s].rest = <<>>
      BY DEF IInv, TypeOK, LinkedAt, Linked, FsmOK
    <3>2. c2s[s] \in Seq(ClientFrame) /\ c2s[s] # <<>>
      BY <1>3 DEF IInv, TypeOK, Apply
    <3>3. QED
      BY <3>1, <3>2, TailFacts
  <2>4. QED
    BY <2>1, <2>2, <2>3, PagesAfterApply, RowStored
<1>4. ASSUME NEW s \in Session, ResumeApply(s)
      PROVE  pages' = pages
  <2>1. PICK o \in resume(fsm[s], pages) : Settle(s, o, c2s[s])
    BY <1>4 DEF ResumeApply, Possible
  <2>2. pages' = o.pages
    BY <2>1 DEF Settle
  <2>3. fsm[s] \in Fsm /\ fsm[s].rest = <<>> /\ ~Idle(fsm[s])
    BY <1>4 DEF IInv, TypeOK, LinkedAt, Linked, FsmOK, ResumeApply
  <2>4. QED
    BY <2>1, <2>2, <2>3, PagesAfterResume
<1>5. ASSUME NEW s \in Session, ClientFails(s)
      PROVE  pages' = pages
  BY <1>5 DEF ClientFails, Fail, server
<1>6. CASE \E h \in Host, p \in PageNo, d \in Content : LocalWrite(h, p, d)
  BY <1>6 DEF LocalWrite, server
<1>7. CASE Restart
  BY <1>7 DEF Restart
<1>8. CASE UNCHANGED vars
  BY <1>8 DEF vars
<1>9. QED
  BY <1>1, <1>2, <1>3, <1>4, <1>5, <1>6, <1>7, <1>8
     DEF Next, ServerStep, Finished

\* No row ever carries the hash of other bytes: the object hashes what it
\* stores itself, whatever the client claimed of the page before.
THEOREM RowsStayTrue == Spec => []RowsTrue(pages)
<1>1. Init => RowsTrue(pages)
  BY InitRowsTrue
<1>2. IInv /\ RowsTrue(pages) /\ [Next]_vars => RowsTrue(pages)'
  <2>1. SUFFICES ASSUME IInv, RowsTrue(pages), [Next]_vars
                 PROVE  RowsTrue(pages')
    BY DEF RowsTrue
  <2>2. QED
    BY <2>1, NextRowsTrue
<1>3. QED
  BY <1>1, <1>2, Invariance, PTL DEF Spec

\* A range that passes the digest comparison needs no page sent: with no
\* holes on either side the digests are of the same pages, and rows and file
\* are hashed by the same function.
THEOREM BatchMatchIsSound == Spec => []BatchMatchMeansEqual
<1>1. ASSUME IInv, RowsTrue(pages)
      PROVE  BatchMatchMeansEqual
  <2>1. SUFFICES ASSUME NEW h \in Host, NEW p \in PageNo, NEW q \in PageNo,
                        combined_hash(pages, p, q) = FileDigest(h, p, q),
                        NEW n \in p .. q
                 PROVE  /\ n \in DOMAIN pages <=> n \in DOMAIN file[h]
                        /\ n \in DOMAIN pages => pages[n].data = file[h][n]
    BY <1>1 DEF BatchMatchMeansEqual
  <2> DEFINE tt == [k \in DOMAIN file[h] |->
                      [data |-> file[h][k], hash |-> page_hash(file[h][k])]]
             a == Cardinality(DOMAIN pages)
             b == Cardinality(DOMAIN file[h])
  <2>2. /\ a \in Nat /\ DOMAIN pages = 1 .. a
        /\ b \in Nat /\ DOMAIN tt = 1 .. b
    <3>1. /\ DOMAIN pages \in SUBSET PageNo /\ IsPrefix1(DOMAIN pages)
          /\ DOMAIN file[h] \in SUBSET PageNo /\ IsPrefix1(DOMAIN file[h])
      BY <1>1, DomainPages DEF IInv, TypeOK, NoHoles, LocalFile
    <3>2. QED
      BY <3>1, PrefixInterval DEF IsPrefix1
  <2>3. combined_hash(pages, p, q) = combined_hash(tt, p, q)
    BY <2>1 DEF FileDigest
  <2>4. \A k \in DOMAIN tt : tt[k].hash = page_hash(file[h][k])
    OBVIOUS
  <2>5. DOMAIN tt = DOMAIN file[h]
    OBVIOUS
  <2> HIDE DEF tt, a, b
  <2>6. /\ n \in DOMAIN pages <=> n \in DOMAIN tt
        /\ n \in DOMAIN pages => pages[n].hash = tt[n].hash
    BY <2>2, <2>3, EqualDigests
  <2>7. ASSUME n \in DOMAIN pages
        PROVE  pages[n].data = file[h][n]
    <3>1. page_hash(pages[n].data) = page_hash(file[h][n])
      BY <1>1, <2>4, <2>5, <2>6, <2>7 DEF RowsTrue
    <3>2. QED
      BY <3>1 DEF page_hash
  <2>8. QED
    BY <2>5, <2>6, <2>7
<1>2. QED
  BY <1>1, Invariance, RowsStayTrue, PTL
=============================================================================
