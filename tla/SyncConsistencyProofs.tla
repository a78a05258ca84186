----------------------- MODULE SyncConsistencyProofs -----------------------
(***************************************************************************)
(* SyncSystem implements SyncedDatabase, for every number of pages, hosts  *)
(* and sessions and whatever fails.                                        *)
(*                                                                         *)
(* The refinement mapping shows each page a session handles in one of few  *)
(* places; Honest says that what travels between the two ends of a session *)
(* is what the sending side had, and that a page the object has dealt with *)
(* is settled: both sides have had one value of it, or it is on its way    *)
(* into the file.  As in SyncSystemProofs it is a predicate of one         *)
(* session; held and had are its inStore and inFile.                       *)
(*                                                                         *)
(* The last part is about sessions that ran alone: what SyncedDatabase     *)
(* says about them, page by page, then is equality.                        *)
(***************************************************************************)
EXTENDS SyncConsistency, SyncSystemProofs

\* The client sends bytes and hashes that its file had.
TakenFrom(had, m) ==
  /\ IsData(m) => <<m.page_no, m.data>> \in had
  /\ m.kind = "PageHash" =>
       \E d \in Content : m.hash = page_hash(d) /\ <<m.page_no, d>> \in had

Taken(up, had) == \A i \in DOMAIN up : TakenFrom(had, up[i])

\* A pull is sent, and has written, bytes that the object had.
Given(c, down, held) ==
  /\ \A p \in DOMAIN c.txn : <<p, c.txn[p]>> \in held
  /\ \A i \in DOMAIN down :
       IsData(down[i]) => <<down[i].page_no, down[i].data>> \in held

Met(held, had, p) == \E d \in Content : <<p, d>> \in had /\ <<p, d>> \in held

Settled(c, down, held, had, p) ==
  Met(held, had, p) \/ Brought(c, down, Len(down), p)

\* The pages the object need not come back to.
Dealt(f) ==
  IF f.direction = "push"
  THEN f.client_seen \ f.pending_requests
  ELSE {p \in 1 .. f.server_max_page : p \in f.client_seen \/ p < f.cursor}

Promised(f, c) ==
  IF f.direction = "push" THEN 1 .. c.max ELSE 1 .. f.server_max_page

Completed(down) == \E i \in DOMAIN down : down[i].kind = "SyncComplete"

Honest(tk, f, c, up, down, held, had, D) ==
  /\ Taken(up, had)
  /\ Running(c) => Given(c, down, held)
  /\ tk = "open" => 1 .. f.server_max_page \subseteq D
  /\ Running(c) /\ tk = "open" =>
       \A p \in Dealt(f) : Settled(c, down, held, had, p)
  /\ Running(c) /\ Completed(down) =>
       \A p \in Promised(f, c) : Settled(c, down, held, had, p)

HonestAt(s) ==
  Honest(task[s], fsm[s], cli[s], c2s[s], s2c[s], inStore[s], inFile[s],
         DOMAIN pages)

\* A pull serves no pages, whatever it is asked for.
ServesNone(s) ==
  Command[s] = "pull" => \A i \in DOMAIN c2s[s] : ~IsData(c2s[s][i])

\* The invariant of SyncSystem, true rows, and honest sessions, each running
\* the command it was given.
HIInv ==
  /\ IInv
  /\ RowsTrue(pages)
  /\ \A s \in Session : HonestAt(s)
  /\ \A s \in Session : Commanded(s) /\ ServesNone(s)

-----------------------------------------------------------------------------
(* The watching of both sides is the one of SyncedDatabase.                *)

LEMMA ObserveMaps ==
  ASSUME Observe
  PROVE  Synced!Observe
<1>1. \A s \in Session : (Status(s) = "running")' <=> Active(s)'
  BY DEF Status, Ended, Active
<1>2. QED
  BY <1>1 DEF Observe, Synced!Observe, Synced!Watch, Recorded, InStore, InFile,
     Synced!Pairs

LEMMA PrefixesAreFiles ==
  ASSUME NEW S, NEW f \in Prefixes(S)
  PROVE  f \in UNION {[T -> S] : T \in SUBSET PageNo}
BY LastPageAssumption DEF Prefixes, PageNo

\* Initial states map to initial states.
LEMMA InitMaps ==
  ASSUME HInit
  PROVE  Synced!Init
<1> DEFINE st == [p \in DOMAIN pages |-> pages[p].data]
<1>1. st \in Synced!Partial
  <2>1. PICK f \in Prefixes(Content) :
          pages = [p \in DOMAIN f |-> [data |-> f[p], hash |-> page_hash(f[p])]]
    BY DEF HInit, Init
  <2>2. PICK n \in 0 .. LastPage : f \in [1 .. n -> Content]
    BY DEF Prefixes
  <2>3. st = [p \in DOMAIN f |-> f[p]]
    BY <2>1
  <2>4. st = f
    BY <2>2, <2>3
  <2> HIDE DEF st
  <2>5. QED
    BY <2>1, <2>4, PrefixesAreFiles DEF Synced!Partial
<1>2. file \in [Host -> Synced!Partial]
  BY PrefixesAreFiles DEF HInit, Init, Synced!Partial
<1>3. \A s \in Session : ~Active(s) /\ ~Ended(s) /\ task[s] = "none"
  BY DEF HInit, Init, Active, Ended, Exit
<1>4. /\ [s \in Session |-> Status(s)] = [s \in Session |-> "idle"]
      /\ {s \in Session : task[s] = "open"} = {}
      /\ [s \in Session |-> Todo(s)] = [s \in Session |-> {}]
  BY <1>3 DEF Status, Todo
<1>5. /\ writes = 0 /\ inStore = [s \in Session |-> {}]
      /\ inFile = [s \in Session |-> {}]
  BY DEF HInit, Init
<1>6. [s \in Session |-> fsm[s].direction] \in [Session -> {"push", "pull"}]
  <2>1. PICK given \in Tokens : fsm = [s \in Session |-> new(given[s])]
    BY DEF HInit, Init
  <2>2. \A s \in Session : new(given[s]).direction = given[s]
    BY DEF new
  <2>3. given \in [Session -> {"push", "pull"}]
    BY SystemAssumption DEF Direction
  <2>4. QED
    BY <2>1, <2>2, <2>3
<1>7. QED
  BY <1>1, <1>2, <1>4, <1>5, <1>6 DEF Synced!Init

-----------------------------------------------------------------------------
(* The steps of SyncedDatabase, in terms of the state of SyncSystem.       *)

\* s is as it was, as far as SyncedDatabase can tell.
SameSession(s) ==
  /\ Status(s)' = Status(s) /\ Todo(s)' = Todo(s)
  /\ fsm'[s].direction = fsm[s].direction

LEMMA FitsMaps ==
  ASSUME NEW s \in Session
  PROVE  Synced!Fits(s) <=> Fits(s)
BY DEF Fits, Synced!Fits

\* A session that neither its client nor its task has touched.
LEMMA Untouched ==
  ASSUME NEW s \in Session, cli'[s] = cli[s], fsm'[s] = fsm[s]
  PROVE  SameSession(s)
BY DEF SameSession, Status, Todo, Active, Ended, Fits

LEMMA CloseMaps ==
  ASSUME NEW S \in SUBSET Session, Observe,
         UNCHANGED <<pages, file, writes>>,
         \A s \in Session : SameSession(s),
         \A s \in Session : task'[s] = "open" <=> task[s] = "open" /\ s \notin S
  PROVE  Synced!Next
<1>1. Synced!Close(S)
  <2>1. Synced!Observe
    BY ObserveMaps
  <2>2. /\ [p \in DOMAIN pages' |-> pages'[p].data]
             = [p \in DOMAIN pages |-> pages[p].data]
        /\ file' = file /\ writes' = writes
    OBVIOUS
  <2>3. /\ [s \in Session |-> Status(s)'] = [s \in Session |-> Status(s)]
        /\ [s \in Session |-> Todo(s)'] = [s \in Session |-> Todo(s)]
        /\ [s \in Session |-> fsm'[s].direction]
             = [s \in Session |-> fsm[s].direction]
    BY DEF SameSession
  <2>4. {s \in Session : task'[s] = "open"}
        = {s \in Session : task[s] = "open"} \ S
    OBVIOUS
  <2>5. QED
    BY <2>1, <2>2, <2>3, <2>4 DEF Synced!Close
<1>2. QED
  BY <1>1 DEF Synced!Next

\* A client that goes on: nothing that SyncedDatabase knows of changes.
LEMMA QuietMaps ==
  ASSUME NEW s \in Session, Observe, Active(s), Active(s)',
         \A t \in Session \ {s} : cli'[t] = cli[t],
         Command[s] = "push" => cli'[s].max = cli[s].max,
         UNCHANGED <<pages, fsm, task, file, writes>>
  PROVE  Synced!Next
<1>1. \A t \in Session \ {s} : SameSession(t)
  BY Untouched
<1>2. Status(s)' = Status(s)
  BY DEF Status
<1>3. Todo(s)' = Todo(s)
  <2>1. CASE ~Fits(s)
    BY <2>1 DEF Todo, Fits
  <2>2. CASE Fits(s) /\ Command[s] = "push"
    BY <2>2 DEF Todo, Fits
  <2>3. CASE Fits(s) /\ Command[s] = "pull"
    BY <2>3 DEF Todo, Fits
  <2>4. QED
    BY <2>1, <2>2, <2>3, SystemAssumption DEF Direction
<1>4. \A t \in Session : SameSession(t)
  BY <1>1, <1>2, <1>3 DEF SameSession
<1>5. /\ {} \in SUBSET Session
      /\ \A t \in Session : task'[t] = "open" <=> task[t] = "open" /\ t \notin {}
  OBVIOUS
<1>6. QED
  BY <1>4, <1>5, CloseMaps

\* Start is Begin.
LEMMA StartMaps ==
  ASSUME IInv, NEW s \in Session, Start(s), Observe
  PROVE  Synced!Next
<1>1. /\ TypeOK /\ Owner[s] \in Host
      /\ task[s] = "none" /\ fsm[s] = new(fsm[s].direction)
      /\ DOMAIN file[Owner[s]] = 1 .. file_max_page(Owner[s])
  <2>1. TypeOK /\ NoHoles /\ LinkedAt(s)
    BY DEF IInv
  <2>2. Owner[s] \in Host
    BY SystemAssumption
  <2>3. task[s] = "none" /\ fsm[s] = new(fsm[s].direction)
    BY <2>1 DEF LinkedAt, Linked, ClientOK, FsmOK, Start
  <2>4. DOMAIN file[Owner[s]] = 1 .. file_max_page(Owner[s])
    BY <2>1, <2>2 DEF NoHoles, IsPrefix1, file_max_page
  <2>5. QED
    BY <2>1, <2>2, <2>3, <2>4
<1>2. /\ \A t \in Session \ {s} : cli'[t] = cli[t] /\ task'[t] = task[t]
      /\ cli'[s].pc = "hello" /\ cli'[s].max = file_max_page(Owner[s])
      /\ task'[s] = "open" /\ fsm' = fsm
  BY <1>1 DEF Start, TypeOK, Cli
<1>3. \A t \in Session \ {s} : SameSession(t)
  BY <1>2, Untouched
<1>4. /\ Status(s) = "idle" /\ Status(s)' = "running"
      /\ Todo(s)' = IF Fits(s) /\ Command[s] = "push"
                    THEN DOMAIN file[Owner[s]] ELSE {}
  <2>1. ~Active(s) /\ Active(s)' /\ Status(s) = "idle"
    BY <1>2 DEF Status, Active, Ended, Start
  <2>2. (Fits(s)' <=> Fits(s)) /\ ~fsm'[s].saw_hello
    BY <1>1, <1>2 DEF Fits, new
  <2>3. Status(s)' = "running"
    BY <2>1 DEF Status
  <2>4. Fits(s)' /\ Command[s] = "push" => Todo(s)' = 1 .. cli'[s].max
    BY <2>1 DEF Todo
  <2>5. Fits(s)' /\ Command[s] = "pull" => Todo(s)' = {}
    BY <2>1, <2>2 DEF Todo
  <2>6. ~Fits(s)' => Todo(s)' = {}
    BY DEF Todo
  <2>7. QED
    BY <1>1, <1>2, <2>1, <2>2, <2>3, <2>4, <2>5, <2>6, SystemAssumption
       DEF Direction
<1>5. \A t \in Session : Active(t) => Status(t) = "running"
  BY DEF Status
<1>6. Synced!Begin(s)
  <2>1. Synced!Observe
    BY ObserveMaps
  <2>3. [t \in Session |-> Status(t)'] =
          [[t \in Session |-> Status(t)] EXCEPT ![s] = "running"]
    BY <1>3, <1>4 DEF SameSession
  <2>4. [t \in Session |-> Todo(t)'] =
          [[t \in Session |-> Todo(t)] EXCEPT
             ![s] = IF Synced!Fits(s) /\ Command[s] = "push"
                    THEN DOMAIN file[Owner[s]] ELSE {}]
    BY <1>3, <1>4, FitsMaps DEF SameSession
  <2>5. {t \in Session : task'[t] = "open"}
          = {t \in Session : task[t] = "open"} \cup {s}
    BY <1>2
  <2>6. \A t \in Session :
          Owner[t] = Owner[s] =>
            [u \in Session |-> Status(u)][t] # "running"
    BY DEF Start, Status, Ended
  <2>7. UNCHANGED <<pages, fsm, file, writes>>
    BY DEF Start
  <2>8. [t \in Session |-> Status(t)][s] = "idle"
    BY <1>4
  <2>9. QED
    BY <2>1, <2>3, <2>4, <2>5, <2>6, <2>7, <2>8 DEF Synced!Begin
<1>7. QED
  BY <1>6 DEF Synced!Next

\* The other sessions, when s ends.
LEMMA EndingMaps ==
  ASSUME NEW s \in Session, Active(s), ~Active(s)',
         \A t \in Session \ {s} : cli'[t] = cli[t],
         UNCHANGED <<fsm, task>>,
         NEW how, Status(s)' = how, how # "running"
  PROVE  /\ [t \in Session |-> Status(t)][s] = "running"
         /\ [t \in Session |-> Status(t)'] =
              [[t \in Session |-> Status(t)] EXCEPT ![s] = how]
         /\ [t \in Session |-> Todo(t)'] =
              [[t \in Session |-> Todo(t)] EXCEPT ![s] = {}]
         /\ {t \in Session : task'[t] = "open"}
              = {t \in Session : task[t] = "open"}
<1>1. \A t \in Session \ {s} : SameSession(t)
  BY Untouched
<1>2. Status(s) = "running" /\ Todo(s)' = {}
  BY DEF Status, Todo
<1>3. QED
  BY <1>1, <1>2 DEF SameSession

\* Every way out but the last message is Fail.
LEMMA FailMaps ==
  ASSUME TypeOK, NEW s \in Session, Active(s), Fail(s), Observe
  PROVE  Synced!Next
<1>1. /\ cli'[s].pc = "failed" /\ \A t \in Session \ {s} : cli'[t] = cli[t]
      /\ UNCHANGED <<fsm, task, pages, file, writes>>
  BY DEF Fail, TypeOK, Exit, server
<1>2. ~Active(s)' /\ Status(s)' = "failed"
  BY <1>1 DEF Active, Status, Ended
<1>3. Synced!Observe
  BY ObserveMaps
<1>4. Synced!Fail(s)
  BY <1>1, <1>2, <1>3, EndingMaps DEF Synced!Fail, Synced!Keep
<1>5. QED
  BY <1>4 DEF Synced!Next

\* An application's write is one of any page.
LEMMA LocalWriteMaps ==
  ASSUME IInv, NEW h \in Host, NEW p \in PageNo, NEW d \in Content,
         LocalWrite(h, p, d), Observe
  PROVE  Synced!Next
<1>1. /\ UNCHANGED <<pages, fsm, task, cli>> /\ writes' = writes + 1
      /\ file' = [file EXCEPT ![h] =
           [q \in DOMAIN @ \cup {p} |-> IF q = p THEN d ELSE @[q]]]
  BY DEF LocalWrite, server
<1>2. \A t \in Session : SameSession(t)
  BY <1>1, Untouched
<1>3. Synced!Overlay(file[h], [q \in {p} |-> d])
      = [q \in DOMAIN file[h] \cup {p} |-> IF q = p THEN d ELSE file[h][q]]
  BY DEF Synced!Overlay
<1>4. file' = [file EXCEPT ![h] = Synced!Overlay(@, [q \in {p} |-> d])]
  BY <1>1, <1>3
<1>5. Synced!Observe
  BY ObserveMaps
<1>6. Synced!LocalWrite(h, p, d)
  BY <1>1, <1>2, <1>4, <1>5 DEF Synced!LocalWrite, SameSession
<1>7. QED
  BY <1>6 DEF Synced!Next

\* When SyncComplete is read nothing is on its way any more.
LEMMA LastFrame ==
  ASSUME IInv, NEW s \in Session, HonestAt(s), RecvSyncComplete(s)
  PROVE  /\ Running(cli[s]) /\ Active(s)
         /\ cli[s].txn \in LocalFile
         /\ Given(cli[s], s2c[s], inStore[s])
         /\ \A p \in Promised(fsm[s], cli[s]) :
              Met(inStore[s], inFile[s], p) \/ p \in DOMAIN cli[s].txn
         /\ fsm[s].direction = "push" => DOMAIN cli[s].txn = {}
<1> DEFINE c == cli[s]
           down == s2c[s]
<1>1. /\ c \in Cli /\ down \in Seq(ServerFrame) /\ fsm[s].direction \in Direction
      /\ down # <<>> /\ c.pc \in {"recv", "drain"}
      /\ Head(down).kind = "SyncComplete"
  BY SessionFacts DEF Typed, RecvSyncComplete, Arrived
<1>2. /\ Downstream(fsm[s].direction, task[s], c, down)
      /\ ClientOK(fsm[s].direction, task[s], c, down, DOMAIN file[Owner[s]])
  BY <1>1 DEF IInv, LinkedAt, Linked, Syncing
<1>3. 1 \in DOMAIN down /\ down[1].kind = "SyncComplete"
  BY <1>1, TailFacts
<1>4. \A i \in DOMAIN down : ~IsData(down[i])
  <2>1. Len(down) = 1
    BY <1>1, <1>2, <1>3 DEF Downstream, Error, Direction
  <2>2. \A i \in DOMAIN down : i = 1
    BY <1>1, <2>1
  <2>3. QED
    BY <1>3, <2>2 DEF IsData
<1>5. \A p : ~Brought(c, down, Len(down), p) \/ p \in DOMAIN c.txn
  BY <1>1, <1>4 DEF Brought
<1>6. Running(c) /\ Active(s) /\ c.txn \in LocalFile
  BY <1>1 DEF Running, Active, Cli
<1>7. Completed(down)
  BY <1>3 DEF Completed
<1>8. /\ Given(c, down, inStore[s])
      /\ \A p \in Promised(fsm[s], c) :
           Settled(c, down, inStore[s], inFile[s], p)
  BY <1>6, <1>7 DEF HonestAt, Honest
<1>9. fsm[s].direction = "push" => DOMAIN c.txn = {}
  BY <1>2, <1>6 DEF ClientOK
<1> HIDE DEF c, down
<1>10. \A p \in Promised(fsm[s], c) :
         Met(inStore[s], inFile[s], p) \/ p \in DOMAIN c.txn
  BY <1>5, <1>8 DEF Settled
<1>11. QED
  BY <1>1, <1>2, <1>6, <1>8, <1>9, <1>10 DEF c, down

\* A process that ends well: FinishPush, or CommitPull with the transaction,
\* which is empty if the token is for the other command.
LEMMA DoneMaps ==
  ASSUME IInv, NEW s \in Session, HonestAt(s), Commanded(s),
         RecvSyncComplete(s), Observe
  PROVE  Synced!Next
<1> DEFINE txn == cli[s].txn
           h == Owner[s]
<1>1. /\ Running(cli[s]) /\ Active(s) /\ txn \in LocalFile
      /\ Given(cli[s], s2c[s], inStore[s])
      /\ \A p \in Promised(fsm[s], cli[s]) :
           Met(inStore[s], inFile[s], p) \/ p \in DOMAIN txn
      /\ fsm[s].direction = "push" \/ Command[s] = "push" => DOMAIN txn = {}
  BY LastFrame DEF Commanded
<1>2. /\ TypeOK /\ h \in Host
      /\ fsm[s].direction \in Direction /\ Command[s] \in Direction
  BY SessionFacts, SystemAssumption DEF IInv, Typed
<1>3. /\ cli'[s].pc = "done" /\ \A t \in Session \ {s} : cli'[t] = cli[t]
      /\ UNCHANGED <<fsm, task, pages, writes>>
      /\ file' = [file EXCEPT ![h] =
           [q \in DOMAIN @ \cup DOMAIN txn |->
              IF q \in DOMAIN txn THEN txn[q] ELSE @[q]]]
  BY <1>2 DEF RecvSyncComplete, TypeOK, Exit, server
<1>4. ~Active(s)' /\ Status(s)' = "done"
  BY <1>3 DEF Active, Status, Ended
<1>5. /\ [t \in Session |-> Status(t)][s] = "running"
      /\ [t \in Session |-> Status(t)'] =
           [[t \in Session |-> Status(t)] EXCEPT ![s] = "done"]
      /\ [t \in Session |-> Todo(t)'] =
           [[t \in Session |-> Todo(t)] EXCEPT ![s] = {}]
      /\ {t \in Session : task'[t] = "open"}
           = {t \in Session : task[t] = "open"}
  BY <1>1, <1>3, <1>4, EndingMaps
<1>6. Fits(s) => \A p \in Todo(s) : p \in Promised(fsm[s], cli[s])
  <2>1. CASE Fits(s) /\ Command[s] = "push"
    BY <1>1, <2>1 DEF Todo, Promised, Fits
  <2>2. CASE Fits(s) /\ Command[s] = "pull"
    BY <1>1, <2>2 DEF Todo, Promised, Fits
  <2>3. QED
    BY <1>2, <2>1, <2>2 DEF Direction
<1>7. Synced!Observe
  BY ObserveMaps
<1>8. \A p : Met(inStore[s], inFile[s], p) <=> Synced!Met(s, p)
  BY DEF Met, Synced!Met
<1> HIDE DEF txn, h
<1>9. DOMAIN txn = {} => file' = file
  <2>1. ASSUME DOMAIN txn = {}
        PROVE  [q \in DOMAIN file[h] \cup DOMAIN txn |->
                  IF q \in DOMAIN txn THEN txn[q] ELSE file[h][q]] = file[h]
    <3>1. file[h] \in LocalFile
      BY <1>2 DEF TypeOK
    <3>2. file[h] = [q \in DOMAIN file[h] |-> file[h][q]]
      BY <3>1 DEF LocalFile
    <3>3. QED
      BY <2>1, <3>2
  <2>2. QED
    BY <1>2, <1>3, <2>1 DEF TypeOK
<1>10. CASE ~Fits(s)
  <2>1. file' = file
    BY <1>1, <1>2, <1>9, <1>10 DEF Fits, Direction
  <2>2. Synced!FinishUnfit(s)
    BY <1>3, <1>5, <1>7, <1>10, <2>1, FitsMaps
       DEF Synced!FinishUnfit, Synced!Keep
  <2>3. QED
    BY <2>2 DEF Synced!Next
<1>11. CASE Fits(s) /\ Command[s] = "push"
  <2>1. file' = file /\ \A p : p \notin DOMAIN txn
    BY <1>1, <1>9, <1>11
  <2>2. \A p \in [t \in Session |-> Todo(t)][s] : Synced!Met(s, p)
    BY <1>1, <1>6, <1>8, <1>11, <2>1
  <2>3. Synced!FinishPush(s)
    BY <1>3, <1>5, <1>7, <1>11, <2>1, <2>2, FitsMaps
       DEF Synced!FinishPush, Synced!Keep
  <2>4. QED
    BY <2>3 DEF Synced!Next
<1>12. CASE Fits(s) /\ Command[s] = "pull"
  <2>1. /\ file' = [file EXCEPT ![h] = Synced!Overlay(@, txn)]
        /\ txn \in Synced!Partial
    BY <1>1, <1>3 DEF Synced!Overlay, Synced!Partial, LocalFile
  <2>2. Synced!Pairs(txn) \subseteq inStore[s]
    BY <1>1 DEF Given, Synced!Pairs, txn
  <2>3. \A p \in [t \in Session |-> Todo(t)][s] :
          p \in DOMAIN txn \/ Synced!Met(s, p)
    BY <1>1, <1>6, <1>8, <1>12
  <2>4. Synced!CommitPull(s)
    BY <1>3, <1>5, <1>7, <1>12, <2>1, <2>2, <2>3, FitsMaps
       DEF Synced!CommitPull, Synced!Keep, h
  <2>5. QED
    BY <2>4 DEF Synced!Next
<1>13. QED
  BY <1>2, <1>10, <1>11, <1>12 DEF Direction

-----------------------------------------------------------------------------
(* What the handlers do to the promise, and why a page is passed over.     *)

\* The handshake sets server_max_page to the last page of the table, or
\* leaves it at 0.
Greets(st, g) ==
  /\ g \in Fsm /\ g.saw_hello /\ is_max_page(st, g.server_max_page)
  /\ g.client_seen = {} /\ g.pending_requests = {} /\ g.cursor = 0

LEMMA HelloOutcome ==
  ASSUME NEW dir \in Direction, NEW st, NEW msg,
         NEW o \in handle_hello(new(dir), st, msg)
  PROVE  \/ o.res = "err" /\ o.fsm.server_max_page = 0
         \/ Greets(st, o.fsm)
<1> DEFINE f    == new(dir)
           f1   == [f EXCEPT !.saw_hello = TRUE]
           g(m) == [f1 EXCEPT !.server_max_page = m]
           R == \/ o.res = "err" /\ o.fsm.server_max_page = 0
                \/ Greets(st, o.fsm)
<1>1. f.server_max_page = 0 /\ f1.server_max_page = 0
  BY DEF new
<1>2. ASSUME o = Err(f, st) \/ o = Err(f1, st) PROVE R
  <2> HIDE DEF f, f1
  <2>1. o.res = "err" /\ (o.fsm = f \/ o.fsm = f1)
    BY <1>2 DEF Err, Outcome
  <2>2. QED
    BY <1>1, <2>1
<1>3. ASSUME NEW m \in {n \in 0 .. LastPage : is_max_page(st, n)},
             o \in Emit(g(m), st, HelloReply(m))
      PROVE  R
  <2>1. f1 \in Fsm
    <3>1. f \in Fsm
      BY NewReady DEF Ready, Shape
    <3>2. QED
      BY <3>1 DEF Fsm
  <2>2. /\ g(m) \in Fsm /\ g(m).saw_hello /\ g(m).server_max_page = m
        /\ g(m).client_seen = {} /\ g(m).pending_requests = {}
        /\ g(m).cursor = 0
    BY <2>1 DEF Fsm, new
  <2> HIDE DEF g
  <2>3. o.fsm = g(m)
    BY <1>3 DEF Emit, Ok, SendFailed, Outcome
  <2>4. QED
    BY <1>3, <2>2, <2>3 DEF Greets
<1> HIDE DEF R
<1>4. R
  BY <1>2, <1>3, ZenonT(60) DEF handle_hello
<1>5. QED
  BY <1>4 DEF R

\* Nothing else does, and only a claim adds to the pages that were seen.
KeepsPromise(f, seen, o) ==
  /\ o.fsm.saw_hello = f.saw_hello
  /\ o.fsm.server_max_page = f.server_max_page
  /\ o.fsm.client_seen = seen

LEMMA KeptByGate ==
  ASSUME NEW f, NEW g \in Fsm, g.saw_hello = f.saw_hello,
         g.server_max_page = f.server_max_page,
         NEW seen, g.client_seen = seen, NEW st,
         NEW o \in maybe_emit_complete(g, st)
  PROVE  KeepsPromise(f, seen, o)
<1> DEFINE e == [g EXCEPT !.emitted_complete = TRUE]
<1>1. /\ e.saw_hello = f.saw_hello /\ e.server_max_page = f.server_max_page
      /\ e.client_seen = seen
  BY DEF Fsm
<1> HIDE DEF e
<1>2. \/ o = Ok(g, st, <<>>) \/ o = SendFailed(g, st)
      \/ o = Ok(e, st, <<SyncComplete(g.pages_transferred)>>)
  BY DEF maybe_emit_complete, e
<1>3. o.fsm = g \/ o.fsm = e
  BY <1>2 DEF Ok, SendFailed, Outcome
<1>4. QED
  BY <1>1, <1>3 DEF KeepsPromise

LEMMA KeptByEmit ==
  ASSUME NEW f, NEW g, g.saw_hello = f.saw_hello,
         g.server_max_page = f.server_max_page,
         NEW seen, g.client_seen = seen, NEW st, NEW m,
         NEW o, o \in Emit(g, st, m) \/ o = Ok(g, st, <<>>) \/ o = Err(g, st)
  PROVE  KeepsPromise(f, seen, o)
BY DEF KeepsPromise, Emit, Ok, Err, SendFailed, Outcome

LEMMA PageHashKeeps ==
  ASSUME NEW f \in Fsm, NEW st, NEW msg, NEW o \in handle_page_hash(f, st, msg)
  PROVE  KeepsPromise(f, f.client_seen \cup {msg.page_no}, o)
<1> DEFINE p  == msg.page_no
           f1 == [f EXCEPT !.client_seen = @ \cup {p}]
           f2 == [f1 EXCEPT !.pending_requests = @ \cup {p}]
           f3 == [f1 EXCEPT !.pages_transferred = @ + 1]
           Same(g) == /\ g.saw_hello = f.saw_hello
                      /\ g.server_max_page = f.server_max_page
                      /\ g.client_seen = f.client_seen \cup {p}
           m1 == RequestPage(p)
           m2 == PageData(p, st[p].data)
<1>1. Same(f1) /\ Same(f2) /\ Same(f3)
  BY DEF Fsm
<1>2. \/ o = Err(f1, st) \/ o = Ok(f1, st, <<>>)
      \/ o \in Emit(f2, st, m1) \/ o \in Emit(f3, st, m2)
  BY ZenonT(60) DEF handle_page_hash
<1> HIDE DEF f1, f2, f3, m1, m2, p
<1>3. QED
  BY <1>1, <1>2, KeptByEmit DEF p

LEMMA PageDataKeeps ==
  ASSUME NEW f \in Fsm, NEW st, NEW entry,
         NEW o \in handle_page_data(f, st, entry)
  PROVE  KeepsPromise(f, f.client_seen, o)
<1> DEFINE f1 == [f EXCEPT !.pending_requests = @ \ {entry.page_no}]
           n  == f.pages_transferred + 1
           f2 == [f1 EXCEPT !.pages_transferred = n]
           tt == put_page(st, entry.page_no, entry.data, page_hash(entry.data))
           Same(g) == /\ g.saw_hello = f.saw_hello
                      /\ g.server_max_page = f.server_max_page
                      /\ g.client_seen = f.client_seen
<1>1. f1.pages_transferred + 1 = n /\ n \in Nat
  BY DEF Fsm
<1>2. o = Err(f1, st) \/ o \in maybe_emit_complete(f2, tt)
  BY <1>1 DEF handle_page_data
<1>3. Same(f1) /\ f1 \in Fsm
  BY DEF Fsm
<1> HIDE DEF f1, n
<1>4. Same(f2) /\ f2 \in Fsm
  BY <1>1, <1>3 DEF Fsm
<1> HIDE DEF f2, tt
<1>5. QED
  BY <1>2, <1>3, <1>4, KeptByEmit, KeptByGate

LEMMA CompleteKeeps ==
  ASSUME NEW f \in Fsm, NEW st, NEW o \in handle_complete(f, st)
  PROVE  KeepsPromise(f, f.client_seen, o)
<1> DEFINE f1 == [f EXCEPT !.completed_hash_phase = TRUE]
           f2 == [f1 EXCEPT !.cursor = 1]
           Same(g) == /\ g.saw_hello = f.saw_hello
                      /\ g.server_max_page = f.server_max_page
                      /\ g.client_seen = f.client_seen
<1>1. Same(f1) /\ Same(f2) /\ f1 \in Fsm
  BY DEF Fsm
<1>2. \/ o = Ok(f2, st, <<>>) \/ o = Err(f1, st)
      \/ o \in maybe_emit_complete(f1, st)
  BY DEF handle_complete
<1> HIDE DEF f1, f2
<1>3. QED
  BY <1>1, <1>2, KeptByEmit, KeptByGate

LEMMA WalkKeeps ==
  ASSUME NEW f \in Fsm, NEW st, NEW o \in walk(f, st)
  PROVE  KeepsPromise(f, f.client_seen, o)
<1> DEFINE f1   == [f EXCEPT !.cursor = 0]
           g(p) == [f EXCEPT !.pages_transferred = @ + 1, !.cursor = p + 1]
           Same(x) == /\ x.saw_hello = f.saw_hello
                      /\ x.server_max_page = f.server_max_page
                      /\ x.client_seen = f.client_seen
           todo == Unclaimed(f, st)
           next == {p \in todo : \A q \in todo : p <= q}
           R == KeepsPromise(f, f.client_seen, o)
<1>1. Same(f) /\ Same(f1) /\ f1 \in Fsm /\ \A p : Same(g(p))
  BY LastPageAssumption DEF Fsm
<1>2. ASSUME o = Err(f, st) PROVE R
  BY <1>1, <1>2, KeptByEmit
<1>3. ASSUME o \in maybe_emit_complete(f1, st) PROVE R
  <2> HIDE DEF f1
  <2>1. QED
    BY <1>1, <1>3, KeptByGate
<1>4. ASSUME NEW p \in next, o \in Emit(g(p), st, PageData(p, st[p].data))
      PROVE  R
  <2> HIDE DEF g, next
  <2>1. QED
    BY <1>1, <1>4, KeptByEmit
<1> HIDE DEF R
<1>5. R
  BY <1>2, <1>3, <1>4, ZenonT(60) DEF walk
<1>6. QED
  BY <1>5 DEF R

\* No message but Hello, and no turn of the walk, changes what a pull is
\* promised.
LEMMA ApplyKeeps ==
  ASSUME NEW f \in Fsm, f.saw_hello, NEW st, NEW m \in ClientFrame,
         m.kind # "Hello", NEW o \in apply(f, st, m)
  PROVE  IF m.kind = "PageHash"
         THEN KeepsPromise(f, f.client_seen \cup {m.page_no}, o)
         ELSE KeepsPromise(f, f.client_seen, o)
<1>1. m.kind \in {"Complete", "PageHash", "PageData"}
  BY ClientFrames, FrameFields
<1>2. CASE m.kind = "PageHash"
  <2>1. o \in handle_page_hash(f, st, m)
    BY <1>2 DEF apply
  <2>2. QED
    BY <1>2, <2>1, PageHashKeeps
<1>3. CASE m.kind = "PageData"
  <2>1. o \in handle_page_data(f, st, m)
    BY <1>3 DEF apply
  <2>2. QED
    BY <1>3, <2>1, PageDataKeeps
<1>4. CASE m.kind = "Complete"
  <2>1. o \in handle_complete(f, st)
    BY <1>4 DEF apply
  <2>2. QED
    BY <1>4, <2>1, CompleteKeeps
<1>5. QED
  BY <1>1, <1>2, <1>3, <1>4

LEMMA ResumeKeeps ==
  ASSUME NEW f \in Fsm, f.rest = <<>>, ~Idle(f), NEW st,
         NEW o \in resume(f, st)
  PROVE  KeepsPromise(f, f.client_seen, o)
<1>1. o \in walk(f, st)
  BY DEF Idle, resume
<1>2. QED
  BY <1>1, WalkKeeps

\* A claim is answered with nothing only where the row is the claimed one,
\* or where a pull has no row to send.
LEMMA MatchOutcome ==
  ASSUME NEW f \in Fsm, NEW st, NEW msg, NEW o \in handle_page_hash(f, st, msg),
         o.res = "ok", o.out = <<>>
  PROVE  \/ get_page_hash_is(st, msg.page_no, msg.hash)
         \/ f.direction = "pull" /\ msg.page_no \notin DOMAIN st
<1> DEFINE p  == msg.page_no
           f1 == [f EXCEPT !.client_seen = @ \cup {p}]
           f2 == [f1 EXCEPT !.pending_requests = @ \cup {p}]
           f3 == [f1 EXCEPT !.pages_transferred = @ + 1]
           m1 == RequestPage(p)
           m2 == PageData(p, st[p].data)
           R  == \/ get_page_hash_is(st, p, msg.hash)
                 \/ f.direction = "pull" /\ p \notin DOMAIN st
<1>1. o # Err(f1, st)
  BY DEF Err, Outcome
<1>2. ASSUME NEW g, NEW m PROVE o \notin Emit(g, st, m)
  <2>1. SUFFICES ASSUME o \in Emit(g, st, m) PROVE FALSE
    OBVIOUS
  <2>2. Failed(g, st, o) \/ Succeeded(g, st, <<m>>, o)
    BY <2>1, EmitEffect
  <2>3. o.out = <<m>>
    BY <2>2 DEF Failed, Succeeded
  <2>4. QED
    BY <2>3, EmptyIsNoFrame
<1>3. f.direction = "push" \/ f.direction = "pull"
  BY DEF Fsm, Direction
<1> HIDE DEF f1, m1, m2, R
<1>4. R
  BY <1>1, <1>2, <1>3, ZenonT(60) DEF handle_page_hash, f1, m1, m2, R
<1>5. QED
  BY <1>4 DEF R

-----------------------------------------------------------------------------
(* Honest, under the steps of one session.                                 *)

\* More that the sides had, and more rows, take nothing away.
LEMMA HonestMonotone ==
  ASSUME NEW tk, NEW f, NEW c, NEW up, NEW down, NEW held, NEW had, NEW D,
         Honest(tk, f, c, up, down, held, had, D),
         NEW held2, NEW had2, NEW E, D \subseteq E,
         Running(c) \/ tk = "open" => held \subseteq held2 /\ had \subseteq had2,
         tk # "open" /\ ~Running(c) => up = <<>>
  PROVE  Honest(tk, f, c, up, down, held2, had2, E)
<1>1. Taken(up, had2)
  <2>1. CASE Running(c) \/ tk = "open"
    BY <2>1 DEF Honest, Taken, TakenFrom
  <2>2. CASE ~(Running(c) \/ tk = "open")
    BY <2>2, NoFrames DEF Taken
  <2>3. QED
    BY <2>1, <2>2
<1>2. Running(c) => Given(c, down, held2)
  BY DEF Honest, Given
<1>3. ASSUME Running(c), NEW p, Settled(c, down, held, had, p)
      PROVE  Settled(c, down, held2, had2, p)
  BY <1>3 DEF Settled, Met
<1>4. QED
  BY <1>1, <1>2, <1>3 DEF Honest

\* A client that sends at most one frame, and reads none.
LEMMA HonestSend ==
  ASSUME NEW tk, NEW f, NEW c, NEW up \in Seq(ClientFrame), NEW down,
         NEW held, NEW had, NEW D,
         Honest(tk, f, c, up, down, held, had, D), Running(c),
         NEW c2, c2.txn = c.txn, c2.max = c.max,
         NEW m \in ClientFrame, TakenFrom(had, m),
         NEW up2, up2 = up \/ up2 = Append(up, m)
  PROVE  Honest(tk, f, c2, up2, down, held, had, D)
<1>1. Taken(up, had)
  BY DEF Honest
<1>2. Taken(up2, had)
  <2>1. CASE up2 = up
    BY <1>1, <2>1
  <2>2. CASE up2 = Append(up, m)
    <3>1. /\ DOMAIN up2 = DOMAIN up \cup {Len(up) + 1}
          /\ up2[Len(up) + 1] = m
          /\ \A i \in DOMAIN up : up2[i] = up[i]
      BY <2>2, AppendFacts
    <3>2. QED
      BY <1>1, <3>1 DEF Taken
  <2>3. QED
    BY <2>1, <2>2
<1>3. Running(c2) => Given(c2, down, held)
  BY DEF Honest, Given
<1>4. \A p : Settled(c, down, held, had, p) <=> Settled(c2, down, held, had, p)
  BY DEF Settled, Brought
<1>5. Promised(f, c2) = Promised(f, c)
  BY DEF Promised
<1>6. QED
  BY <1>2, <1>3, <1>4, <1>5 DEF Honest

\* The bytes of a page go into the transaction, other frames do not.
Puts(txn, m, txn2) ==
  \/ ~IsData(m) /\ txn2 = txn
  \/ /\ IsData(m)
     /\ txn2 = [q \in DOMAIN txn \cup {m.page_no} |->
                  IF q = m.page_no THEN m.data ELSE txn[q]]

\* A client that reads one frame.
LEMMA HonestConsume ==
  ASSUME NEW tk, NEW f, NEW c, NEW up, NEW down \in Seq(ServerFrame),
         NEW held, NEW had, NEW D,
         Honest(tk, f, c, up, down, held, had, D), Running(c), down # <<>>,
         NEW c2, Puts(c.txn, Head(down), c2.txn),
         f.direction = "push" /\ Completed(Tail(down)) => c2.max = c.max
  PROVE  Honest(tk, f, c2, up, Tail(down), held, had, D)
<1> DEFINE m == Head(down)
           down2 == Tail(down)
<1>1. /\ Len(down) \in Nat \ {0} /\ DOMAIN down = 1 .. Len(down)
      /\ m = down[1] /\ Len(down2) = Len(down) - 1
      /\ DOMAIN down2 = 1 .. Len(down) - 1
      /\ \A i \in 1 .. Len(down) - 1 : down2[i] = down[i + 1]
  BY TailFacts
<1>2. /\ IsData(m) => <<m.page_no, m.data>> \in held
      /\ Given(c, down, held)
  BY <1>1 DEF Honest, Given
<1>3. Given(c2, down2, held)
  <2>1. \A p \in DOMAIN c2.txn : <<p, c2.txn[p]>> \in held
    BY <1>2 DEF Given, Puts
  <2>2. ASSUME NEW i \in DOMAIN down2, IsData(down2[i])
        PROVE  <<down2[i].page_no, down2[i].data>> \in held
    <3>1. i + 1 \in DOMAIN down /\ down2[i] = down[i + 1]
      BY <1>1
    <3>2. QED
      BY <2>2, <3>1 DEF Honest, Given
  <2>3. QED
    BY <2>1, <2>2 DEF Given
<1>4. ASSUME NEW p, Brought(c, down, Len(down), p)
      PROVE  Brought(c2, down2, Len(down2), p)
  <2>1. CASE p \in DOMAIN c.txn
    BY <2>1 DEF Brought, Puts
  <2>2. ASSUME NEW j \in 1 .. Len(down), IsData(down[j]), down[j].page_no = p
        PROVE  Brought(c2, down2, Len(down2), p)
    <3>1. CASE j = 1
      BY <1>1, <2>2, <3>1 DEF Brought, Puts
    <3>2. CASE j # 1
      <4>1. j - 1 \in 1 .. Len(down2) /\ down2[j - 1] = down[j]
        BY <1>1, <3>2
      <4>2. QED
        BY <2>2, <4>1 DEF Brought
    <3>3. QED
      BY <3>1, <3>2
  <2>3. QED
    BY <1>4, <2>1, <2>2 DEF Brought
<1>5. \A p : Settled(c, down, held, had, p) => Settled(c2, down2, held, had, p)
  BY <1>4 DEF Settled
<1>6. Completed(down2) => Completed(down)
  BY <1>1 DEF Completed
<1>7. Completed(down2) => Promised(f, c2) = Promised(f, c)
  BY DEF Promised
<1> HIDE DEF m, down2
<1>8. Honest(tk, f, c2, up, down2, held, had, D)
  BY <1>3, <1>5, <1>6, <1>7 DEF Honest
<1>9. QED
  BY <1>8 DEF down2

\* A client that is gone: what it sent may still arrive.
LEMMA HonestGone ==
  ASSUME NEW tk, NEW f, NEW c, NEW up, NEW down, NEW held, NEW had, NEW D,
         Honest(tk, f, c, up, down, held, had, D),
         NEW c2, ~Running(c2), NEW down2,
         NEW up2, Taken(up2, had)
  PROVE  Honest(tk, f, c2, up2, down2, held, had, D)
BY DEF Honest

-----------------------------------------------------------------------------
(* Honest, under the steps of the client.                                  *)

\* What is recorded.
LEMMA Watching ==
  ASSUME Observe, NEW s \in Session
  PROVE  /\ Active(s)' => /\ inStore[s] \cup InStore \cup InStore' \subseteq inStore'[s]
                          /\ InFile(Owner[s]) \subseteq inFile'[s]
         /\ Active(s)' \/ task'[s] = "open" =>
              inStore[s] \subseteq inStore'[s] /\ inFile[s] \subseteq inFile'[s]
BY DEF Observe, Recorded

\* What the step of one session leaves to the others.
LEMMA HonestStep ==
  ASSUME HIInv, Observe, NEW s \in Session,
         \A t \in Session \ {s} :
           /\ task'[t] = task[t] /\ fsm'[t] = fsm[t] /\ cli'[t] = cli[t]
           /\ c2s'[t] = c2s[t] /\ s2c'[t] = s2c[t],
         DOMAIN pages \subseteq DOMAIN pages', HonestAt(s)'
  PROVE  \A t \in Session : HonestAt(t)'
<1>1. SUFFICES ASSUME NEW t \in Session, t # s PROVE HonestAt(t)'
  OBVIOUS
<1>2. /\ task'[t] = task[t] /\ fsm'[t] = fsm[t] /\ cli'[t] = cli[t]
      /\ c2s'[t] = c2s[t] /\ s2c'[t] = s2c[t]
  BY <1>1
<1>3. HonestAt(t) /\ task[t] # "open" => c2s[t] = <<>>
  BY DEF HIInv, IInv, LinkedAt, Linked
<1>4. HonestAt(t)
  BY DEF HIInv
<1>5. Running(cli[t]) \/ task[t] = "open" =>
        inStore[t] \subseteq inStore'[t] /\ inFile[t] \subseteq inFile'[t]
  BY <1>2, Watching DEF Active, Running
<1>6. Honest(task[t], fsm[t], cli[t], c2s[t], s2c[t], inStore'[t], inFile'[t],
             DOMAIN pages')
  BY <1>3, <1>4, <1>5, HonestMonotone DEF HonestAt
<1>7. QED
  BY <1>2, <1>6 DEF HonestAt

\* Before the step of s, with what is recorded in the course of it.
LEMMA HonestNow ==
  ASSUME HIInv, Observe, NEW s \in Session,
         Active(s) \/ task[s] = "open" => Active(s)' \/ task'[s] = "open"
  PROVE  Honest(task[s], fsm[s], cli[s], c2s[s], s2c[s],
                inStore'[s], inFile'[s], DOMAIN pages)
<1>1. HonestAt(s) /\ (task[s] # "open" => c2s[s] = <<>>)
  BY DEF HIInv, IInv, LinkedAt, Linked
<1>2. Running(cli[s]) \/ task[s] = "open" =>
        inStore[s] \subseteq inStore'[s] /\ inFile[s] \subseteq inFile'[s]
  BY Watching DEF Active, Running
<1>3. QED
  BY <1>1, <1>2, HonestMonotone DEF HonestAt

\* A step that sends at most one frame is a stutter of SyncedDatabase.
LEMMA SendingStep ==
  ASSUME HIInv, Observe, NEW s \in Session, Active(s), Active(s)',
         UNCHANGED <<pages, fsm, task, s2c, file, writes>>,
         \A t \in Session \ {s} : cli'[t] = cli[t] /\ c2s'[t] = c2s[t],
         cli'[s].txn = cli[s].txn, cli'[s].max = cli[s].max,
         NEW m \in ClientFrame, TakenFrom(inFile'[s], m),
         c2s'[s] = c2s[s] \/ c2s'[s] = Append(c2s[s], m)
  PROVE  (\A t \in Session : HonestAt(t)') /\ Synced!Next
<1>1. Honest(task[s], fsm[s], cli[s], c2s[s], s2c[s],
             inStore'[s], inFile'[s], DOMAIN pages)
  BY HonestNow
<1>2. c2s[s] \in Seq(ClientFrame) /\ Running(cli[s])
  BY DEF HIInv, IInv, TypeOK, Running, Active
<1>3. Honest(task[s], fsm[s], cli'[s], c2s'[s], s2c[s],
             inStore'[s], inFile'[s], DOMAIN pages)
  BY <1>1, <1>2, HonestSend
<1>4. HonestAt(s)'
  BY <1>3 DEF HonestAt
<1>5. \A t \in Session : HonestAt(t)'
  BY <1>4, HonestStep
<1>6. Synced!Next
  BY QuietMaps
<1>7. QED
  BY <1>5, <1>6

\* ... and so is one that reads a frame and goes on.
LEMMA ReadingStep ==
  ASSUME HIInv, Observe, NEW s \in Session, Active(s), Active(s)',
         UNCHANGED <<pages, fsm, task, c2s, file, writes>>,
         \A t \in Session \ {s} : cli'[t] = cli[t] /\ s2c'[t] = s2c[t],
         s2c[s] # <<>>, s2c'[s] = Tail(s2c[s]),
         Command[s] = "push" \/ Completed(Tail(s2c[s])) =>
           cli'[s].max = cli[s].max,
         Puts(cli[s].txn, Head(s2c[s]), cli'[s].txn)
  PROVE  (\A t \in Session : HonestAt(t)') /\ Synced!Next
<1>1. Honest(task[s], fsm[s], cli[s], c2s[s], s2c[s],
             inStore'[s], inFile'[s], DOMAIN pages)
  BY HonestNow
<1>2. s2c[s] \in Seq(ServerFrame) /\ Running(cli[s])
  BY DEF HIInv, IInv, TypeOK, Running, Active
<1>3. Honest(task[s], fsm[s], cli'[s], c2s[s], s2c'[s],
             inStore'[s], inFile'[s], DOMAIN pages)
  BY <1>1, <1>2, HonestConsume
<1>4. HonestAt(s)'
  BY <1>3 DEF HonestAt
<1>5. \A t \in Session : HonestAt(t)'
  BY <1>4, HonestStep
<1>6. Synced!Next
  BY QuietMaps
<1>7. QED
  BY <1>5, <1>6

LEMMA RecvHelloReplyHonest ==
  ASSUME HIInv, Observe, NEW s \in Session, RecvHelloReply(s)
  PROVE  (\A t \in Session : HonestAt(t)') /\ Synced!Next
<1>1. TypeOK
  BY DEF HIInv, IInv
<1>2. /\ cli'[s].pc = "hash" /\ cli'[s].txn = cli[s].txn
      /\ Command[s] = "push" => cli'[s].max = cli[s].max
      /\ \A t \in Session \ {s} : cli'[t] = cli[t]
  BY <1>1 DEF RecvHelloReply, TypeOK, Cli
<1>3. /\ s2c'[s] = Tail(s2c[s]) /\ s2c[s] # <<>>
      /\ Head(s2c[s]).kind = "HelloReply"
      /\ \A t \in Session \ {s} : s2c'[t] = s2c[t]
      /\ UNCHANGED <<pages, fsm, task, c2s, file, writes>>
  BY <1>1 DEF RecvHelloReply, TypeOK, Consume, Arrived, server
<1>4. Active(s) /\ Active(s)'
  BY <1>2 DEF RecvHelloReply, Active
<1>5. Puts(cli[s].txn, Head(s2c[s]), cli'[s].txn)
  BY <1>2, <1>3 DEF Puts, IsData
<1>6. ~Completed(Tail(s2c[s]))
  <2>1. Greeting(fsm[s].direction, task[s], fsm[s], cli[s], c2s[s], s2c[s])
    BY DEF HIInv, IInv, LinkedAt, Linked, RecvHelloReply
  <2>2. task[s] \in {"open", "closed"}
    BY <1>1 DEF HIInv, IInv, LinkedAt, Linked, ClientOK, RecvHelloReply, TypeOK
  <2>3. PICK k \in 0 .. LastPage : s2c[s] = <<HelloReply(k)>>
    BY <1>3, <2>1, <2>2, FrameFields DEF Greeting
  <2>4. Tail(s2c[s]) = <<>>
    BY <2>3
  <2>5. QED
    BY <2>4, NoFrames DEF Completed
<1>7. QED
  BY <1>2, <1>3, <1>4, <1>5, <1>6, ReadingStep

LEMMA RecvRequestHonest ==
  ASSUME HIInv, Observe, NEW s \in Session, RecvRequest(s)
  PROVE  (\A t \in Session : HonestAt(t)') /\ Synced!Next
<1>1. TypeOK
  BY DEF HIInv, IInv
<1>2. /\ cli'[s].pc = cli[s].pc /\ cli'[s].txn = cli[s].txn
      /\ cli'[s].max = cli[s].max
      /\ \A t \in Session \ {s} : cli'[t] = cli[t]
  BY <1>1 DEF RecvRequest, TypeOK, Cli
<1>3. /\ s2c'[s] = Tail(s2c[s]) /\ s2c[s] # <<>>
      /\ Head(s2c[s]).kind = "RequestPage"
      /\ \A t \in Session \ {s} : s2c'[t] = s2c[t]
      /\ UNCHANGED <<pages, fsm, task, c2s, file, writes>>
  BY <1>1 DEF RecvRequest, TypeOK, Consume, Arrived, server
<1>4. Active(s) /\ Active(s)'
  BY <1>2 DEF RecvRequest, PushReads, Active
<1>5. Puts(cli[s].txn, Head(s2c[s]), cli'[s].txn)
  BY <1>2, <1>3 DEF Puts, IsData
<1>6. QED
  BY <1>2, <1>3, <1>4, <1>5, ReadingStep

LEMMA RecvPageHonest ==
  ASSUME HIInv, Observe, NEW s \in Session, RecvPage(s)
  PROVE  (\A t \in Session : HonestAt(t)') /\ Synced!Next
<1> DEFINE m == Head(s2c[s])
           txn == [q \in DOMAIN cli[s].txn \cup {m.page_no} |->
                     IF q = m.page_no THEN m.data ELSE cli[s].txn[q]]
           n == cli[s].count + 1
<1>1. TypeOK
  BY DEF HIInv, IInv
<1>2. cli' = [cli EXCEPT ![s].txn = txn, ![s].count = n]
  BY <1>1 DEF RecvPage, TypeOK, Cli
<1>3. txn = [q \in DOMAIN cli[s].txn \cup {m.page_no} |->
               IF q = m.page_no THEN m.data ELSE cli[s].txn[q]]
  OBVIOUS
<1> HIDE DEF txn, n
<1>4. /\ cli'[s].pc = cli[s].pc /\ cli'[s].txn = txn
      /\ cli'[s].max = cli[s].max
      /\ \A t \in Session \ {s} : cli'[t] = cli[t]
  BY <1>1, <1>2 DEF TypeOK, Cli
<1>5. /\ s2c'[s] = Tail(s2c[s]) /\ s2c[s] # <<>> /\ IsData(m)
      /\ \A t \in Session \ {s} : s2c'[t] = s2c[t]
      /\ UNCHANGED <<pages, fsm, task, c2s, file, writes>>
  BY <1>1 DEF RecvPage, TypeOK, Consume, Arrived, server, IsData
<1>6. Active(s) /\ Active(s)'
  BY <1>4 DEF RecvPage, Active
<1>7. Puts(cli[s].txn, m, cli'[s].txn)
  BY <1>3, <1>4, <1>5 DEF Puts
<1>8. QED
  BY <1>4, <1>5, <1>6, <1>7, ReadingStep

LEMMA SendHashHonest ==
  ASSUME HIInv, Observe, NEW s \in Session, SendHash(s)
  PROVE  (\A t \in Session : HonestAt(t)') /\ Synced!Next
<1> DEFINE p == cli[s].next
           d == file[Owner[s]][p]
           m == PageHash(p, page_hash(d))
<1>1. TypeOK /\ cli[s] \in Cli /\ file[Owner[s]] \in LocalFile
  BY SessionFacts DEF HIInv, IInv, TypeOK
<1>2. /\ cli'[s].pc = cli[s].pc /\ cli'[s].txn = cli[s].txn
      /\ cli'[s].max = cli[s].max
      /\ \A t \in Session \ {s} : cli'[t] = cli[t]
  BY <1>1 DEF SendHash, TypeOK, Cli
<1>3. /\ c2s'[s] = c2s[s] \/ c2s'[s] = Append(c2s[s], m)
      /\ \A t \in Session \ {s} : c2s'[t] = c2s[t]
      /\ UNCHANGED <<pages, fsm, task, s2c, file, writes>>
  BY <1>1 DEF SendHash, TypeOK, Send, server
<1>4. Active(s) /\ Active(s)'
  BY <1>2 DEF SendHash, Active
<1>5. p \in PageNo /\ p \in DOMAIN file[Owner[s]] /\ d \in Content
  <2>1. 1 .. cli[s].max \subseteq DOMAIN file[Owner[s]]
    BY SessionFacts DEF HIInv, LinkedAt, Linked, ClientOK, SendHash, Running
  <2>2. p \in 1 .. cli[s].max
    BY <1>1 DEF SendHash, Cli
  <2>3. QED
    BY <1>1, <2>1, <2>2 DEF LocalFile
<1>6. <<p, d>> \in inFile'[s]
  BY <1>4, <1>5, Watching DEF InFile
<1> HIDE DEF p, d
<1>7. m \in ClientFrame /\ TakenFrom(inFile'[s], m)
  BY <1>5, <1>6 DEF ClientFrame, PageHash, Hash, TakenFrom, IsData
<1> HIDE DEF m
<1>8. QED
  BY <1>2, <1>3, <1>4, <1>7, SendingStep

LEMMA SendCompleteHonest ==
  ASSUME HIInv, Observe, NEW s \in Session, SendComplete(s)
  PROVE  (\A t \in Session : HonestAt(t)') /\ Synced!Next
<1>1. TypeOK
  BY DEF HIInv, IInv
<1>2. /\ cli'[s].pc \in {"drain", "recv"} /\ cli'[s].txn = cli[s].txn
      /\ cli'[s].max = cli[s].max
      /\ \A t \in Session \ {s} : cli'[t] = cli[t]
  BY <1>1 DEF SendComplete, TypeOK, Cli
<1>3. /\ c2s'[s] = c2s[s] \/ c2s'[s] = Append(c2s[s], Complete)
      /\ \A t \in Session \ {s} : c2s'[t] = c2s[t]
      /\ UNCHANGED <<pages, fsm, task, s2c, file, writes>>
  BY <1>1 DEF SendComplete, TypeOK, Send, server
<1>4. Active(s) /\ Active(s)'
  BY <1>2 DEF SendComplete, Active
<1>5. Complete \in ClientFrame /\ TakenFrom(inFile'[s], Complete)
  BY DEF ClientFrame, Complete, TakenFrom, IsData
<1>6. QED
  BY <1>2, <1>3, <1>4, <1>5, SendingStep

LEMMA ServePageHonest ==
  ASSUME HIInv, Observe, NEW s \in Session, ServePage(s)
  PROVE  (\A t \in Session : HonestAt(t)') /\ Synced!Next
<1> DEFINE p == Head(cli[s].queue)
           d == file[Owner[s]][p]
           m == PageData(p, d)
           q == Tail(cli[s].queue)
           n == cli[s].count + 1
<1>1. TypeOK /\ cli[s] \in Cli /\ file[Owner[s]] \in LocalFile
  BY SessionFacts DEF HIInv, IInv, TypeOK
<1>2. cli' = [cli EXCEPT ![s].queue = q, ![s].count = n]
  BY <1>1 DEF ServePage, TypeOK, Cli
<1> HIDE DEF q, n
<1>3. /\ cli'[s].pc = cli[s].pc /\ cli'[s].txn = cli[s].txn
      /\ cli'[s].max = cli[s].max
      /\ \A t \in Session \ {s} : cli'[t] = cli[t]
  BY <1>1, <1>2 DEF TypeOK, Cli
<1>4. /\ c2s'[s] = c2s[s] \/ c2s'[s] = Append(c2s[s], m)
      /\ \A t \in Session \ {s} : c2s'[t] = c2s[t]
      /\ UNCHANGED <<pages, fsm, task, s2c, file, writes>>
  BY <1>1 DEF ServePage, TypeOK, Send, server
<1>5. Active(s) /\ Active(s)'
  BY <1>3 DEF ServePage, Active
<1>6. p \in PageNo /\ p \in DOMAIN file[Owner[s]] /\ d \in Content
  <2>1. ClientOK(fsm[s].direction, task[s], cli[s], s2c[s], DOMAIN file[Owner[s]])
    BY DEF HIInv, IInv, LinkedAt, Linked
  <2>2. cli[s].pc = "drain" /\ cli[s].queue # <<>> /\ Running(cli[s])
    BY DEF ServePage, Running
  <2>3. fsm[s].direction = "push"
    <3>1. fsm[s].direction \in Direction
      BY SessionFacts DEF HIInv, Typed
    <3>2. QED
      BY <2>1, <2>2, <3>1 DEF ClientOK, Direction
  <2>4. p \in PageNo /\ 1 \in DOMAIN cli[s].queue /\ p = cli[s].queue[1]
    <3>1. cli[s].queue \in Seq(PageNo)
      BY <1>1 DEF Cli
    <3>2. QED
      BY <2>2, <3>1, TailFacts
  <2>5. p <= cli[s].max /\ 1 .. cli[s].max \subseteq DOMAIN file[Owner[s]]
    BY <2>1, <2>2, <2>3, <2>4 DEF ClientOK
  <2>6. p \in 1 .. cli[s].max
    BY <1>1, <2>4, <2>5 DEF Cli, PageNo
  <2>7. QED
    BY <1>1, <2>4, <2>5, <2>6 DEF LocalFile
<1>7. <<p, d>> \in inFile'[s]
  BY <1>5, <1>6, Watching DEF InFile
<1> HIDE DEF p, d
<1>8. m \in ClientFrame /\ TakenFrom(inFile'[s], m)
  BY <1>6, <1>7 DEF ClientFrame, PageData, TakenFrom, IsData
<1> HIDE DEF m
<1>9. QED
  BY <1>3, <1>4, <1>5, <1>8, SendingStep

\* A client that ends leaves what it sent, or the beginning of it.
LEMMA GoneHonest ==
  ASSUME HIInv, Observe, NEW s \in Session, ~Active(s)', pages' = pages,
         UNCHANGED <<fsm, task>>,
         \A t \in Session \ {s} :
           cli'[t] = cli[t] /\ c2s'[t] = c2s[t] /\ s2c'[t] = s2c[t],
         \A i \in DOMAIN c2s'[s] : i \in DOMAIN c2s[s] /\ c2s'[s][i] = c2s[s][i]
  PROVE  \A t \in Session : HonestAt(t)'
<1>1. CASE task[s] = "open"
  <2>1. Honest(task[s], fsm[s], cli[s], c2s[s], s2c[s],
               inStore'[s], inFile'[s], DOMAIN pages)
    BY <1>1, HonestNow
  <2>2. Taken(c2s'[s], inFile'[s])
    BY <2>1 DEF Honest, Taken
  <2>3. ~Running(cli'[s])
    BY DEF Running, Active
  <2>4. HonestAt(s)'
    BY <2>1, <2>2, <2>3, HonestGone DEF HonestAt
  <2>5. QED
    BY <2>4, HonestStep
<1>2. CASE task[s] # "open"
  <2>1. c2s[s] = <<>>
    BY <1>2 DEF HIInv, IInv, LinkedAt, Linked
  <2>2. Taken(c2s'[s], inFile'[s])
    BY <2>1, NoFrames DEF Taken
  <2>3. ~Running(cli'[s])
    BY DEF Running, Active
  <2>4. HonestAt(s)'
    BY <1>2, <2>2, <2>3 DEF HonestAt, Honest
  <2>5. QED
    BY <2>4, HonestStep
<1>3. QED
  BY <1>1, <1>2

LEMMA RecvSyncCompleteHonest ==
  ASSUME HIInv, Observe, NEW s \in Session, RecvSyncComplete(s)
  PROVE  (\A t \in Session : HonestAt(t)') /\ Synced!Next
<1>1. IInv /\ TypeOK /\ HonestAt(s) /\ Commanded(s)
  BY DEF HIInv, IInv
<1>2. /\ cli'[s].pc = "done" /\ \A t \in Session \ {s} : cli'[t] = cli[t]
      /\ \A t \in Session \ {s} : s2c'[t] = s2c[t]
      /\ UNCHANGED <<pages, fsm, task, c2s>>
  BY <1>1 DEF RecvSyncComplete, TypeOK, Exit, Consume, server
<1>3. ~Active(s)'
  BY <1>2 DEF Active
<1>4. \A t \in Session : HonestAt(t)'
  BY <1>2, <1>3, GoneHonest
<1>5. QED
  BY <1>1, <1>4, DoneMaps

\* Every other way out.
LEMMA FailHonest ==
  ASSUME HIInv, Observe, NEW s \in Session, Active(s), Fail(s),
         \A t \in Session \ {s} : c2s'[t] = c2s[t],
         \A i \in DOMAIN c2s'[s] : i \in DOMAIN c2s[s] /\ c2s'[s][i] = c2s[s][i]
  PROVE  (\A t \in Session : HonestAt(t)') /\ Synced!Next
<1>1. TypeOK
  BY DEF HIInv, IInv
<1>2. /\ cli'[s].pc = "failed" /\ \A t \in Session \ {s} : cli'[t] = cli[t]
      /\ \A t \in Session \ {s} : s2c'[t] = s2c[t]
      /\ UNCHANGED <<pages, fsm, task>>
  BY <1>1 DEF Fail, TypeOK, Exit, server
<1>3. ~Active(s)'
  BY <1>2 DEF Active
<1>4. \A t \in Session : HonestAt(t)'
  BY <1>2, <1>3, GoneHonest
<1>5. QED
  BY <1>1, <1>4, FailMaps

LEMMA RecvFailsHonest ==
  ASSUME HIInv, Observe, NEW s \in Session, RecvOther(s) \/ RecvClosed(s)
  PROVE  (\A t \in Session : HonestAt(t)') /\ Synced!Next
<1>1. Active(s) /\ Fail(s) /\ c2s' = c2s
  BY DEF RecvOther, RecvClosed, Reads, PushReads, Active
<1>2. QED
  BY <1>1, FailHonest

LEMMA ClientFailsHonest ==
  ASSUME HIInv, Observe, NEW s \in Session, ClientFails(s)
  PROVE  (\A t \in Session : HonestAt(t)') /\ Synced!Next
<1>1. c2s[s] \in Seq(ClientFrame) /\ c2s \in [Session -> Seq(ClientFrame)]
  BY DEF HIInv, IInv, TypeOK
<1>2. PICK n \in 0 .. Len(c2s[s]) : c2s' = [c2s EXCEPT ![s] = SubSeq(@, 1, n)]
  BY DEF ClientFails
<1>3. \A i \in DOMAIN c2s'[s] : i \in DOMAIN c2s[s] /\ c2s'[s][i] = c2s[s][i]
  <2>1. c2s'[s] = SubSeq(c2s[s], 1, n)
    BY <1>1, <1>2
  <2>2. QED
    BY <1>1, <1>2, <2>1
<1>4. /\ Active(s) /\ Fail(s)
      /\ \A t \in Session \ {s} : c2s'[t] = c2s[t]
  BY <1>1, <1>2 DEF ClientFails
<1>5. QED
  BY <1>3, <1>4, FailHonest

LEMMA StartHonest ==
  ASSUME HIInv, Observe, NEW s \in Session, Start(s)
  PROVE  (\A t \in Session : HonestAt(t)') /\ Synced!Next
<1>1. /\ IInv /\ TypeOK /\ task[s] = "none" /\ c2s[s] = <<>>
      /\ s2c[s] = <<>> /\ cli[s] = Exit("idle") /\ fsm[s] = new(fsm[s].direction)
  <2>1. /\ cli[s].pc = "idle" /\ LinkedAt(s)
    BY DEF Start, HIInv, IInv
  <2>2. task[s] = "none"
    BY <2>1 DEF LinkedAt, Linked, ClientOK
  <2>3. QED
    BY <2>1, <2>2 DEF LinkedAt, Linked, ClientOK, FsmOK, Running, HIInv, IInv
<1>2. /\ cli'[s].txn = <<>> /\ \A t \in Session \ {s} : cli'[t] = cli[t]
  BY <1>1 DEF Start, TypeOK, Exit, Cli
<1>3. /\ c2s'[s] = Append(<<>>, Hello(PROTOCOL_VERSION))
      /\ \A t \in Session \ {s} : c2s'[t] = c2s[t] /\ task'[t] = task[t]
      /\ UNCHANGED <<pages, fsm, s2c>>
  BY <1>1 DEF Start, Send, TypeOK
<1>4. Taken(c2s'[s], inFile'[s])
  <2> DEFINE m == Hello(PROTOCOL_VERSION)
             up == Append(<<>>, m)
  <2>1. TakenFrom(inFile'[s], m)
    BY DEF Hello, TakenFrom, IsData
  <2>2. up = <<m>>
    OBVIOUS
  <2>3. DOMAIN up = {1} /\ up[1] = m
    BY <2>2
  <2> HIDE DEF m, up
  <2>4. Taken(up, inFile'[s])
    BY <2>1, <2>3 DEF Taken
  <2>5. QED
    BY <1>3, <2>4 DEF m, up
<1>5. Given(cli'[s], s2c'[s], inStore'[s])
  BY <1>1, <1>2, <1>3, NoFrames DEF Given
<1>6. Dealt(fsm[s]) = {} /\ 1 .. fsm[s].server_max_page = {}
  BY <1>1 DEF Dealt, new
<1>7. ~Completed(s2c'[s])
  BY <1>1, <1>3, NoFrames DEF Completed
<1>8. HonestAt(s)'
  BY <1>3, <1>4, <1>5, <1>6, <1>7 DEF HonestAt, Honest
<1>9. \A t \in Session : HonestAt(t)'
  BY <1>2, <1>3, <1>8, HonestStep
<1>10. QED
  BY <1>1, <1>9, StartMaps

LEMMA LocalWriteHonest ==
  ASSUME HIInv, Observe, NEW h \in Host, NEW p \in PageNo, NEW d \in Content,
         LocalWrite(h, p, d)
  PROVE  (\A t \in Session : HonestAt(t)') /\ Synced!Next
<1>1. UNCHANGED <<pages, fsm, task, cli, c2s, s2c>>
  BY DEF LocalWrite, server
<1>2. ASSUME NEW s \in Session
      PROVE  HonestAt(s)'
  <2>1. Active(s) \/ task[s] = "open" => Active(s)' \/ task'[s] = "open"
    BY <1>1 DEF Active
  <2>2. QED
    BY <1>1, <2>1, HonestNow DEF HonestAt
<1>3. IInv
  BY DEF HIInv
<1>4. QED
  BY <1>2, <1>3, LocalWriteMaps

\* The object closes a session, or is evicted.
LEMMA ClosedHonest ==
  ASSUME HIInv, Observe, NEW s \in Session, task'[s] # "open",
         UNCHANGED <<pages, cli, s2c>>,
         fsm'[s].direction = fsm[s].direction,
         fsm'[s].server_max_page = fsm[s].server_max_page,
         c2s'[s] = <<>>
  PROVE  HonestAt(s)'
<1>1. Taken(c2s'[s], inFile'[s])
  BY NoFrames DEF Taken
<1>2. Promised(fsm'[s], cli[s]) = Promised(fsm[s], cli[s])
  BY DEF Promised
<1>3. CASE Active(s)
  <2>1. Honest(task[s], fsm[s], cli[s], c2s[s], s2c[s],
               inStore'[s], inFile'[s], DOMAIN pages)
    BY <1>3, HonestNow DEF Active
  <2>2. QED
    BY <1>1, <1>2, <2>1 DEF HonestAt, Honest
<1>4. CASE ~Active(s)
  BY <1>1, <1>4 DEF HonestAt, Honest, Active, Running
<1>5. QED
  BY <1>3, <1>4

LEMMA PeerCloseHonest ==
  ASSUME HIInv, Observe, NEW s \in Session, PeerClose(s)
  PROVE  (\A t \in Session : HonestAt(t)') /\ Synced!Next
<1>1. TypeOK /\ fsm[s] \in Fsm
  BY DEF HIInv, IInv, TypeOK
<1>2. /\ fsm'[s] = client_closed(fsm[s]) /\ task'[s] = "closed"
      /\ \A t \in Session \ {s} : fsm'[t] = fsm[t] /\ task'[t] = task[t]
      /\ UNCHANGED <<pages, cli, c2s, s2c, file, writes>> /\ c2s[s] = <<>>
      /\ ~Active(s) /\ task[s] = "open"
  BY <1>1 DEF PeerClose, TypeOK, Ended, Active
<1>3. /\ fsm'[s].direction = fsm[s].direction
      /\ fsm'[s].server_max_page = fsm[s].server_max_page
  BY <1>1, <1>2 DEF client_closed, Fsm
<1>4. HonestAt(s)'
  BY <1>2, <1>3, ClosedHonest
<1>5. \A t \in Session : HonestAt(t)'
  BY <1>2, <1>4, HonestStep
<1>6. \A t \in Session : SameSession(t)
  <2>1. \A t \in Session \ {s} : SameSession(t)
    BY <1>2, Untouched
  <2>2. SameSession(s)
    BY <1>2, <1>3 DEF SameSession, Status, Todo, Active, Ended
  <2>3. QED
    BY <2>1, <2>2
<1>7. /\ {s} \in SUBSET Session
      /\ \A t \in Session :
           task'[t] = "open" <=> task[t] = "open" /\ t \notin {s}
  BY <1>2
<1>8. Synced!Next
  BY <1>2, <1>6, <1>7, CloseMaps
<1>9. QED
  BY <1>5, <1>8

LEMMA RestartHonest ==
  ASSUME HIInv, Observe, Restart
  PROVE  (\A t \in Session : HonestAt(t)') /\ Synced!Next
<1>1. /\ UNCHANGED <<pages, fsm, cli, s2c, file, writes>>
      /\ \A s \in Session : task'[s] # "open" /\ c2s'[s] = <<>>
  BY DEF Restart
<1>2. \A s \in Session : HonestAt(s)'
  BY <1>1, ClosedHonest
<1>3. \A t \in Session : SameSession(t)
  BY <1>1, Untouched
<1>4. /\ Session \in SUBSET Session
      /\ \A t \in Session :
           task'[t] = "open" <=> task[t] = "open" /\ t \notin Session
  BY <1>1
<1>5. Synced!Next
  BY <1>1, <1>3, <1>4, CloseMaps
<1>6. QED
  BY <1>2, <1>5

-----------------------------------------------------------------------------
(* Honest, under the steps of the object.                                  *)

Rows(st) == {<<p, st[p].data>> : p \in DOMAIN st}

\* What an apply sends joins what is already on its way.
LEMMA SentKeeps ==
  ASSUME NEW c, Running(c), NEW down \in Seq(ServerFrame),
         NEW out, out = <<>> \/ \E x \in ServerFrame : out = <<x>>,
         NEW down2, down2 = Sent(c, down, out)
  PROVE  /\ \A i \in DOMAIN down2 :
              (i \in DOMAIN down /\ down2[i] = down[i]) \/ out = <<down2[i]>>
         /\ \A held, had, p :
              Settled(c, down, held, had, p) => Settled(c, down2, held, had, p)
         /\ \A x : out = <<x>> /\ IsData(x) =>
              \A held, had : Settled(c, down2, held, had, x.page_no)
<1>1. CASE out = <<>>
  <2>1. down2 = down
    BY <1>1, ConcatEmptySeq DEF Sent
  <2>2. QED
    BY <1>1, <2>1, EmptyIsNoFrame
<1>2. ASSUME NEW x \in ServerFrame, out = <<x>>
      PROVE  /\ \A i \in DOMAIN down2 :
                  (i \in DOMAIN down /\ down2[i] = down[i]) \/ out = <<down2[i]>>
             /\ \A held, had, p :
                  Settled(c, down, held, had, p) => Settled(c, down2, held, had, p)
             /\ \A y : out = <<y>> /\ IsData(y) =>
                  \A held, had : Settled(c, down2, held, had, y.page_no)
  <2>1. down2 = Append(down, x)
    BY <1>2, SentFacts
  <2>2. /\ Len(down2) = Len(down) + 1 /\ Len(down) \in Nat
        /\ DOMAIN down = 1 .. Len(down) /\ DOMAIN down2 = 1 .. Len(down) + 1
        /\ \A i \in 1 .. Len(down) : down2[i] = down[i]
        /\ down2[Len(down) + 1] = x
    BY <2>1, AppendFacts
  <2>3. \A i \in DOMAIN down2 :
          (i \in DOMAIN down /\ down2[i] = down[i]) \/ out = <<down2[i]>>
    BY <1>2, <2>2
  <2>4. \A p : Brought(c, down, Len(down), p) => Brought(c, down2, Len(down2), p)
    BY <2>2 DEF Brought
  <2>5. \A y : out = <<y>> => y = x
    BY <1>2
  <2>6. IsData(x) => Brought(c, down2, Len(down2), x.page_no)
    BY <2>2 DEF Brought
  <2>7. QED
    BY <2>3, <2>4, <2>5, <2>6 DEF Settled
<1>3. QED
  BY <1>1, <1>2

\* While the object listens, a running client has not been told it is over.
LEMMA NotYetCompleted ==
  ASSUME NEW dir, NEW tk, NEW f, NEW c, NEW up, NEW down,
         Typed(dir, tk, f, c, up, down),
         NEW D, NEW F, Linked(dir, tk, f, c, up, down, D, F),
         tk = "open", Running(c)
  PROVE  ~Completed(down)
<1>1. CASE Syncing(c)
  BY <1>1 DEF Linked, Downstream, Completed, Typed, Direction
<1>2. CASE c.pc = "hello"
  <2>1. down = <<>> \/ \E m \in 0 .. LastPage : down = <<HelloReply(m)>>
    BY <1>2 DEF Linked, Greeting
  <2>2. CASE down = <<>>
    BY <2>2, NoFrames DEF Completed
  <2>3. CASE \E m \in 0 .. LastPage : down = <<HelloReply(m)>>
    <3>1. PICK m \in 0 .. LastPage : down = <<HelloReply(m)>>
      BY <2>3
    <3>2. DOMAIN down = {1} /\ down[1].kind = "HelloReply"
      BY <3>1 DEF HelloReply
    <3>3. QED
      BY <3>2 DEF Completed
  <2>4. QED
    BY <2>1, <2>2, <2>3
<1>3. QED
  BY <1>1, <1>2 DEF Running, Syncing

\* An apply that fails ends the task and may send an Error.
LEMMA AbortedHonest ==
  ASSUME NEW tk, NEW f, NEW c, NEW up, NEW down \in Seq(ServerFrame),
         NEW held, NEW had, NEW D,
         Honest(tk, f, c, up, down, held, had, D),
         Running(c) => ~Completed(down),
         NEW g, NEW E, NEW out, out \in {<<>>, <<Error>>},
         NEW down2, down2 = Sent(c, down, out)
  PROVE  Honest("closed", g, c, <<>>, down2, held, had, E)
<1>1. Taken(<<>>, had)
  BY NoFrames DEF Taken
<1>2. CASE ~Running(c)
  BY <1>1, <1>2 DEF Honest
<1>3. CASE Running(c)
  <2>1. Error \in ServerFrame
    BY DEF ServerFrame
  <2>2. \A i \in DOMAIN down2 :
          (i \in DOMAIN down /\ down2[i] = down[i]) \/ out = <<down2[i]>>
    BY <1>3, <2>1, SentKeeps
  <2>3. \A x : out = <<x>> => x.kind = "Error"
    BY EmptyIsNoFrame DEF Error
  <2>4. ~Completed(down2)
    BY <1>3, <2>2, <2>3 DEF Completed
  <2>5. Given(c, down2, held)
    BY <1>3, <2>2, <2>3 DEF Honest, Given, IsData
  <2>6. QED
    BY <1>1, <2>4, <2>5 DEF Honest
<1>4. QED
  BY <1>2, <1>3

\* One that succeeds has to account for what it sends and what it passes.
Emits(out) == out = <<>> \/ \E x \in ServerFrame : out = <<x>>

Accounted(f, g, c, out, down2, held, had) ==
  /\ \A x : out = <<x>> /\ IsData(x) => <<x.page_no, x.data>> \in held
  /\ \A p \in Dealt(g) : p \in Dealt(f) \/ Settled(c, down2, held, had, p)
  /\ \A x : out = <<x>> /\ x.kind = "SyncComplete" =>
               Promised(g, c) \subseteq Dealt(f) \cup Dealt(g)

LEMMA AppliedHonest ==
  ASSUME NEW f, NEW c, NEW up, NEW down \in Seq(ServerFrame),
         NEW held, NEW had, NEW D,
         Honest("open", f, c, up, down, held, had, D),
         Running(c) => ~Completed(down),
         NEW g, NEW E, 1 .. g.server_max_page \subseteq E,
         NEW out, Emits(out), NEW down2, down2 = Sent(c, down, out),
         NEW tk2, NEW up2, Taken(up2, had),
         Running(c) => Accounted(f, g, c, out, down2, held, had)
  PROVE  Honest(tk2, g, c, up2, down2, held, had, E)
<1>1. CASE ~Running(c)
  BY <1>1 DEF Honest
<1>2. CASE Running(c)
  <2>1. /\ \A i \in DOMAIN down2 :
             (i \in DOMAIN down /\ down2[i] = down[i]) \/ out = <<down2[i]>>
        /\ \A p : Settled(c, down, held, had, p) =>
                    Settled(c, down2, held, had, p)
    BY <1>2, SentKeeps DEF Emits
  <2>2. Given(c, down2, held)
    BY <1>2, <2>1 DEF Honest, Given, Accounted
  <2>3. \A p \in Dealt(f) \cup Dealt(g) : Settled(c, down2, held, had, p)
    BY <1>2, <2>1 DEF Honest, Accounted
  <2>4. Completed(down2) => Promised(g, c) \subseteq Dealt(f) \cup Dealt(g)
    BY <1>2, <2>1 DEF Completed, Accounted
  <2>5. QED
    BY <2>2, <2>3, <2>4 DEF Honest
<1>3. QED
  BY <1>1, <1>2

\* The client has made all its claims when the bytes it serves, or its
\* Complete, are next.
LEMMA AllClaimed ==
  ASSUME NEW dir, NEW tk, NEW f, NEW c, NEW up, NEW down,
         Typed(dir, tk, f, c, up, down),
         NEW D, NEW F, Linked(dir, tk, f, c, up, down, D, F),
         tk = "open", f.saw_hello, Running(c), up # <<>>,
         f.completed_hash_phase \/ Head(up).kind = "Complete"
  PROVE  1 .. c.max \subseteq f.client_seen
<1>1. /\ up \in Seq(ClientFrame) /\ c \in Cli
      /\ DOMAIN up = 1 .. Len(up) /\ Len(up) \in Nat \ {0} /\ Head(up) = up[1]
  BY TailFacts DEF Typed
<1>2. Syncing(c)
  BY DEF Linked, Greeting, Running, Syncing
<1>3. PICK n \in 0 .. LastPage : Upstream(dir, f, up, n) /\ Phases(dir, f, c, up, n)
  BY <1>2 DEF Linked
<1>4. f.client_seen = 1 .. n
  BY <1>3 DEF Upstream
<1>5. CASE f.completed_hash_phase
  <2>1. n = c.max
    BY <1>2, <1>3, <1>5 DEF Phases, Syncing
  <2>2. QED
    BY <1>4, <2>1
<1>6. CASE ~f.completed_hash_phase /\ Head(up).kind = "Complete"
  <2>1. c.pc # "hash"
    BY <1>1, <1>3, <1>6 DEF Phases
  <2>2. PICK i \in DOMAIN up : up[i] = Complete /\ n + i = c.max + 1
    BY <1>3, <1>6, <2>1 DEF Phases
  <2>3. ~IsData(up[i])
    BY <2>2 DEF Complete, IsData
  <2>4. \A j \in 1 .. i - 1 : up[j].kind = "PageHash"
    BY <1>3, <2>3 DEF Upstream
  <2>5. i = 1
    <3>1. 1 \notin 1 .. i - 1
      BY <1>1, <1>6, <2>4
    <3>2. QED
      BY <1>1, <3>1
  <2>6. n = c.max
    BY <1>1, <2>2, <2>5 DEF Cli
  <2>7. QED
    BY <1>4, <2>6
<1>7. QED
  BY <1>5, <1>6

\* What all the cases have in common: a session before the object's step, as
\* far as its partner has been watched.
Before(dir, f, c, up, down, held, had, st) ==
  /\ f \in Fsm /\ f.direction = dir /\ dir \in Direction /\ c \in Cli
  /\ down \in Seq(ServerFrame)
  /\ Honest("open", f, c, up, down, held, had, DOMAIN st)
  /\ Running(c) => ~Completed(down)
  /\ st \in Pages /\ IsPrefix1(DOMAIN st) /\ RowsTrue(st)
  /\ Running(c) => Rows(st) \subseteq held

LEMMA HelloHonest ==
  ASSUME NEW dir, NEW f, NEW c, NEW up, NEW down, NEW held, NEW had, NEW st,
         Before(dir, f, c, up, down, held, had, st),
         NEW o, o.fsm.direction = f.direction, o.res = "ok",
         Greeted(f, st, o), Greets(st, o.fsm),
         NEW down2, down2 = Sent(c, down, o.out),
         NEW tk2, NEW up2, Taken(up2, had)
  PROVE  Honest(tk2, o.fsm, c, up2, down2, held, had, DOMAIN st)
<1>1. PICK m \in 0 .. LastPage : o.out = <<HelloReply(m)>>
  BY DEF Greeted, Succeeded
<1>2. HelloReply(m) \in ServerFrame
  BY <1>1 DEF ServerFrame, HelloReply
<1>3. \A x : o.out = <<x>> => x.kind = "HelloReply"
  BY <1>1 DEF HelloReply
<1>4. 1 .. o.fsm.server_max_page \subseteq DOMAIN st
  <2>1. DOMAIN st = 1 .. Cardinality(DOMAIN st) /\ Cardinality(DOMAIN st) \in Nat
    BY PrefixInterval, DomainPages DEF Before
  <2>2. is_max_page(st, o.fsm.server_max_page)
    BY DEF Greets
  <2> DEFINE k == Cardinality(DOMAIN st)
             n == o.fsm.server_max_page
  <2>3. n \in Nat
    BY DEF Greets, Fsm
  <2> HIDE DEF k, n
  <2>4. n = 0 \/ n \in 1 .. k
    BY <2>1, <2>2 DEF is_max_page, k, n
  <2>5. 1 .. n \subseteq 1 .. k
    BY <2>1, <2>3, <2>4 DEF k
  <2>6. QED
    BY <2>1, <2>5 DEF k, n
<1>5. Dealt(o.fsm) = {}
  BY DEF Dealt, Greets
<1>6. \E x \in ServerFrame : o.out = <<x>>
  BY <1>1, <1>2
<1>7. /\ down \in Seq(ServerFrame)
      /\ Running(c) => ~Completed(down)
      /\ Honest("open", f, c, up, down, held, had, DOMAIN st)
  BY DEF Before
<1>8. \A x : o.out = <<x>> => ~IsData(x) /\ x.kind # "SyncComplete"
  BY <1>3 DEF IsData
<1> DEFINE g == o.fsm
           out == o.out
<1> HIDE DEF g, out
<1>9. Honest(tk2, g, c, up2, down2, held, had, DOMAIN st)
  <2>1. /\ 1 .. g.server_max_page \subseteq DOMAIN st
        /\ Emits(out) /\ down2 = Sent(c, down, out)
        /\ Accounted(f, g, c, out, down2, held, had)
    BY <1>4, <1>5, <1>6, <1>8 DEF g, out, Emits, Accounted
  <2>2. QED
    BY <1>7, <2>1, AppliedHonest
<1>10. QED
  BY <1>9 DEF g

\* A claim that is answered with nothing is of the row there is, or of a
\* page that a pull was never to bring.
LEMMA PageHashHonest ==
  ASSUME NEW dir, NEW f, NEW c, NEW up, NEW down, NEW held, NEW had, NEW st,
         Before(dir, f, c, up, down, held, had, st), f.cursor = 0,
         NEW m \in ClientFrame, m.kind = "PageHash", TakenFrom(had, m),
         NEW o, Claimed(f, st, m.page_no, o),
         o.out = <<>> => \/ get_page_hash_is(st, m.page_no, m.hash)
                         \/ f.direction = "pull" /\ m.page_no \notin DOMAIN st,
         NEW down2, down2 = Sent(c, down, o.out),
         NEW tk2, NEW up2, Taken(up2, had)
  PROVE  Honest(tk2, o.fsm, c, up2, down2, held, had, DOMAIN st)
<1> DEFINE p == m.page_no
           g == o.fsm
           out == o.out
<1>1. /\ f \in Fsm /\ f.direction \in Direction /\ down \in Seq(ServerFrame)
      /\ Running(c) => ~Completed(down)
      /\ Honest("open", f, c, up, down, held, had, DOMAIN st)
      /\ st \in Pages
  BY DEF Before
<1>2. p \in PageNo
  BY ClientFrames, FrameFields
<1>3. /\ SamePhase(f, g) /\ g.client_seen = f.client_seen \cup {p}
      /\ \/ out = <<>> /\ g.pending_requests = f.pending_requests
         \/ /\ f.direction = "push" /\ out = <<RequestPage(p)>>
            /\ g.pending_requests = f.pending_requests \cup {p}
         \/ /\ f.direction = "pull" /\ p \in DOMAIN st
            /\ out = <<PageData(p, st[p].data)>>
            /\ g.pending_requests = f.pending_requests
  BY DEF Claimed, Succeeded
<1>4. ASSUME Running(c), get_page_hash_is(st, p, m.hash)
      PROVE  Met(held, had, p)
  <2>1. PICK d \in Content : m.hash = page_hash(d) /\ <<p, d>> \in had
    BY DEF TakenFrom
  <2>2. p \in DOMAIN st /\ st[p].hash = m.hash
    BY <1>4 DEF get_page_hash_is
  <2>3. st[p].hash = page_hash(st[p].data)
    BY <2>2 DEF Before, RowsTrue
  <2>4. st[p].data = d
    BY <2>1, <2>2, <2>3 DEF page_hash
  <2>5. <<p, d>> \in held
    BY <1>4, <2>2, <2>4 DEF Before, Rows
  <2>6. QED
    BY <2>1, <2>5 DEF Met
<1>5. out = <<>> => \/ get_page_hash_is(st, p, m.hash)
                    \/ f.direction = "pull" /\ p \notin DOMAIN st
  OBVIOUS
<1>6. 1 .. f.server_max_page \subseteq DOMAIN st
  BY <1>1 DEF Honest
<1>7. /\ g.direction = f.direction /\ g.cursor = 0
      /\ g.server_max_page = f.server_max_page
  BY <1>3 DEF SamePhase
<1>8. /\ RequestPage(p) \in ServerFrame
      /\ ~IsData(RequestPage(p)) /\ RequestPage(p).kind # "SyncComplete"
  BY <1>2 DEF ServerFrame, RequestPage, IsData
<1>9. p \in DOMAIN st =>
        /\ PageData(p, st[p].data) \in ServerFrame
        /\ IsData(PageData(p, st[p].data))
        /\ PageData(p, st[p].data).kind = "PageData"
        /\ PageData(p, st[p].data).page_no = p
        /\ PageData(p, st[p].data).data = st[p].data
        /\ <<p, st[p].data>> \in Rows(st)
  BY <1>1, <1>2, RowData DEF ServerFrame, PageData, IsData, Rows
<1>10. down2 = Sent(c, down, out)
  OBVIOUS
<1> DEFINE r == RequestPage(p)
           b == PageData(p, st[p].data)
<1> HIDE DEF g, out, p, r, b
<1>11. Emits(out)
  BY <1>3, <1>8, <1>9 DEF Emits, r, b
<1>12. ASSUME Running(c)
       PROVE  Accounted(f, g, c, out, down2, held, had)
  <2>1. \A x : out = <<x>> => x = r \/ (x = b /\ p \in DOMAIN st)
    BY <1>3, EmptyIsNoFrame DEF r, b
  <2>2. \A x : out = <<x>> /\ IsData(x) => <<x.page_no, x.data>> \in held
    <3>1. p \in DOMAIN st => <<b.page_no, b.data>> \in held
      BY <1>9, <1>12 DEF Before, b
    <3>2. ~IsData(r)
      BY <1>8 DEF r
    <3>3. QED
      BY <2>1, <3>1, <3>2
  <2>3. \A x : out = <<x>> => x.kind # "SyncComplete"
    BY <1>8, <1>9, <2>1 DEF r, b
  <2>4. ASSUME p \in Dealt(g)
        PROVE  p \in Dealt(f) \/ Settled(c, down2, held, had, p)
    <3>1. CASE out = <<>>
      <4>1. p \notin 1 .. f.server_max_page
              \/ p \in DOMAIN st
        BY <1>6
      <4>2. f.direction = "pull" => p \in 1 .. f.server_max_page
        BY <1>1, <1>7, <2>4 DEF Dealt, Direction
      <4>3. get_page_hash_is(st, p, m.hash)
        BY <1>5, <3>1, <4>1, <4>2
      <4>4. QED
        BY <1>4, <1>12, <4>3 DEF Settled
    <3>2. CASE out = <<r>> /\ f.direction = "push"
      <4>1. p \in g.pending_requests
        <5>1. r # b
          BY DEF r, b, RequestPage, PageData
        <5>2. QED
          BY <1>3, <3>2, EmptyIsNoFrame DEF r, b
      <4>2. QED
        BY <1>7, <2>4, <3>2, <4>1 DEF Dealt
    <3>3. CASE out = <<b>> /\ p \in DOMAIN st
      <4>1. IsData(b) /\ b.page_no = p /\ b \in ServerFrame
        BY <1>9, <3>3 DEF b
      <4>2. \A x : out = <<x>> /\ IsData(x) =>
              \A h1, h2 : Settled(c, down2, h1, h2, x.page_no)
        BY <1>1, <1>10, <1>11, <1>12, SentKeeps DEF Emits
      <4>3. QED
        BY <3>3, <4>1, <4>2
    <3>4. QED
      BY <1>3, <3>1, <3>2, <3>3 DEF r, b
  <2>5. \A q \in Dealt(g) : q # p => q \in Dealt(f)
    BY <1>1, <1>3, <1>7 DEF Dealt, Direction
  <2>6. QED
    BY <2>2, <2>3, <2>4, <2>5 DEF Accounted
<1>13. 1 .. g.server_max_page \subseteq DOMAIN st
  BY <1>6, <1>7
<1>14. Honest(tk2, g, c, up2, down2, held, had, DOMAIN st)
  BY <1>1, <1>10, <1>11, <1>12, <1>13, AppliedHonest
<1>15. QED
  BY <1>14 DEF g

\* A page that is stored has been on both sides; the last one of a push
\* settles all that the client claimed.
LEMMA PageDataHonest ==
  ASSUME NEW dir, NEW f, NEW c, NEW up, NEW down, NEW held, NEW had, NEW st,
         Before(dir, f, c, up, down, held, had, st), dir = "push",
         NEW m \in ClientFrame, IsData(m), TakenFrom(had, m),
         NEW p, p = m.page_no,
         NEW tt, tt = put_page(st, p, m.data, page_hash(m.data)),
         Running(c) => Rows(tt) \subseteq held,
         Running(c) /\ f.completed_hash_phase => 1 .. c.max \subseteq f.client_seen,
         NEW o, Stored(f, tt, p, o), KeepsPromise(f, f.client_seen, o),
         Shape(o.fsm), o.fsm.direction = dir,
         NEW down2, down2 = Sent(c, down, o.out),
         NEW tk2, NEW up2, Taken(up2, had)
  PROVE  Honest(tk2, o.fsm, c, up2, down2, held, had, DOMAIN tt)
<1> DEFINE g == o.fsm
           out == o.out
           E == DOMAIN tt
<1>1. /\ f \in Fsm /\ f.direction = "push" /\ down \in Seq(ServerFrame)
      /\ Running(c) => ~Completed(down)
      /\ Honest("open", f, c, up, down, held, had, DOMAIN st)
  BY DEF Before
<1>2. p \in DOMAIN tt /\ tt[p].data = m.data /\ DOMAIN st \subseteq DOMAIN tt
  BY DEF put_page
<1>3. ASSUME Running(c)
      PROVE  Met(held, had, p)
  <2>1. m.data \in Content /\ <<p, m.data>> \in had
    BY ClientFrames DEF TakenFrom, IsData
  <2>2. <<p, m.data>> \in held
    BY <1>2, <1>3 DEF Rows
  <2>3. QED
    BY <2>1, <2>2 DEF Met
<1>4. /\ g.direction = "push" /\ g.client_seen = f.client_seen
      /\ g.server_max_page = f.server_max_page
  BY DEF KeepsPromise
<1>5. PICK h : /\ SamePhase(f, h)
               /\ h.pending_requests = f.pending_requests \ {p}
               /\ Gated(h, tt, o)
  BY DEF Stored
<1>6. \/ g = h /\ out = <<>>
      \/ /\ h.completed_hash_phase /\ h.pending_requests = {}
         /\ g.pending_requests = {}
         /\ out = <<SyncComplete(h.pages_transferred)>>
  BY <1>5 DEF Gated, Succeeded, MayComplete, Shape
<1>7. g.pending_requests = f.pending_requests \ {p}
  BY <1>5, <1>6
<1>8. f.completed_hash_phase = h.completed_hash_phase
  BY <1>5 DEF SamePhase
<1> DEFINE y == SyncComplete(h.pages_transferred)
<1>9. y \in ServerFrame /\ ~IsData(y)
  BY <1>5 DEF ServerFrame, SyncComplete, IsData, SamePhase, Fsm
<1>10. down2 = Sent(c, down, out)
  OBVIOUS
<1> HIDE DEF g, out, y, E
<1>11. Emits(out)
  BY <1>6, <1>9 DEF Emits, y
<1>12. ASSUME Running(c)
       PROVE  Accounted(f, g, c, out, down2, held, had)
  <2>1. \A x : out = <<x>> =>
          x = y /\ h.completed_hash_phase /\ g.pending_requests = {}
    BY <1>6, EmptyIsNoFrame DEF y
  <2>2. \A x : out = <<x>> => ~IsData(x)
    BY <1>9, <2>1
  <2>3. \A q \in Dealt(g) : q = p \/ q \in Dealt(f)
    BY <1>1, <1>4, <1>7 DEF Dealt
  <2>4. Settled(c, down2, held, had, p)
    BY <1>3, <1>12 DEF Settled
  <2>5. \A x : out = <<x>> => Promised(g, c) \subseteq Dealt(g)
    BY <1>4, <1>8, <1>12, <2>1 DEF Promised, Dealt
  <2>6. QED
    BY <2>2, <2>3, <2>4, <2>5 DEF Accounted
<1>13. 1 .. g.server_max_page \subseteq E
  BY <1>1, <1>2, <1>4 DEF Honest, E
<1>14. Honest(tk2, g, c, up2, down2, held, had, E)
  BY <1>1, <1>10, <1>11, <1>12, <1>13, AppliedHonest
<1>15. QED
  BY <1>14 DEF g, E

\* The end of the hash phase passes no page over, and completes a push
\* whose every page matched, or a pull with nothing to offer.
LEMMA CompleteHonest ==
  ASSUME NEW dir, NEW f, NEW c, NEW up, NEW down, NEW held, NEW had, NEW st,
         Before(dir, f, c, up, down, held, had, st),
         f.cursor = 0, ~f.emitted_complete,
         Running(c) => 1 .. c.max \subseteq f.client_seen,
         NEW o, Hashed(f, st, o), KeepsPromise(f, f.client_seen, o),
         Legal(f, st, o),
         NEW down2, down2 = Sent(c, down, o.out),
         NEW tk2, NEW up2, Taken(up2, had)
  PROVE  Honest(tk2, o.fsm, c, up2, down2, held, had, DOMAIN st)
<1> DEFINE g == o.fsm
           out == o.out
<1>1. /\ f \in Fsm /\ f.direction \in Direction /\ down \in Seq(ServerFrame)
      /\ Running(c) => ~Completed(down)
      /\ Honest("open", f, c, up, down, held, had, DOMAIN st)
  BY DEF Before
<1>2. /\ g.direction = f.direction /\ g.client_seen = f.client_seen
      /\ g.server_max_page = f.server_max_page /\ Shape(g) /\ g \in Fsm
  BY DEF KeepsPromise, Legal, Shape
<1>3. PICK h : /\ SamePages(f, h)
               /\ \/ h.cursor = f.cursor /\ Gated(h, st, o)
                  \/ /\ h.direction = "pull" /\ h.cursor = 1
                     /\ Succeeded(h, st, <<>>, o)
  BY DEF Hashed
<1>4. /\ h \in Fsm /\ h.direction = f.direction
      /\ h.pending_requests = f.pending_requests
  BY <1>3 DEF SamePages
<1>5. \/ g = h /\ out = <<>> /\ h.cursor \in {0, 1}
      \/ /\ h.pending_requests = {} /\ g.pending_requests = {}
         /\ g.emitted_complete
         /\ out = <<SyncComplete(h.pages_transferred)>>
  BY <1>3 DEF Gated, Succeeded, MayComplete, Shape, Legal
<1>6. /\ g.pending_requests = f.pending_requests
      /\ g.cursor \in {0, 1}
  BY <1>2, <1>4, <1>5 DEF Shape, Fsm
<1> DEFINE y == SyncComplete(h.pages_transferred)
<1>7. y \in ServerFrame /\ ~IsData(y)
  BY <1>4 DEF ServerFrame, SyncComplete, IsData, Fsm
<1>8. down2 = Sent(c, down, out)
  OBVIOUS
<1>9. 1 .. f.server_max_page \subseteq DOMAIN st
  BY <1>1 DEF Honest
<1>10. ASSUME g.emitted_complete, f.direction = "pull",
              NEW q \in 1 .. f.server_max_page
       PROVE  q \in f.client_seen
  <2>1. q \in DOMAIN st /\ q <= f.server_max_page /\ q \in Nat /\ q >= 1
    BY <1>1, <1>9, <1>10 DEF Fsm
  <2>2. q < f.cursor \/ q \in f.client_seen
    BY <1>10, <2>1 DEF Legal
  <2>3. ~(q < 0)
    BY <2>1
  <2>4. QED
    BY <2>2, <2>3
<1> HIDE DEF g, out, y
<1>11. Emits(out)
  BY <1>5, <1>7 DEF Emits, y
<1>12. ASSUME Running(c)
       PROVE  Accounted(f, g, c, out, down2, held, had)
  <2>1. \A x : out = <<x>> =>
          x = y /\ g.pending_requests = {} /\ g.emitted_complete
    BY <1>5, EmptyIsNoFrame DEF y
  <2>2. \A x : out = <<x>> => ~IsData(x)
    BY <1>7, <2>1
  <2>3. \A q \in Nat : q >= 1 => ~(q < g.cursor)
    BY <1>6
  <2>4. \A q \in Dealt(g) : q \in Dealt(f)
    <3>1. CASE f.direction = "push"
      BY <1>2, <1>6, <3>1 DEF Dealt
    <3>2. CASE f.direction = "pull"
      BY <1>1, <1>2, <2>3, <3>2 DEF Dealt, Fsm
    <3>3. QED
      BY <1>1, <3>1, <3>2 DEF Direction
  <2>5. \A x : out = <<x>> => Promised(g, c) \subseteq Dealt(g)
    <3>1. CASE f.direction = "push"
      BY <1>2, <1>12, <2>1, <3>1 DEF Promised, Dealt
    <3>2. CASE f.direction = "pull"
      BY <1>2, <1>10, <2>1, <3>2 DEF Promised, Dealt
    <3>3. QED
      BY <1>1, <3>1, <3>2 DEF Direction
  <2>6. QED
    BY <2>2, <2>4, <2>5 DEF Accounted
<1>13. 1 .. g.server_max_page \subseteq DOMAIN st
  BY <1>2, <1>9
<1>14. Honest(tk2, g, c, up2, down2, held, had, DOMAIN st)
  BY <1>1, <1>8, <1>11, <1>12, <1>13, AppliedHonest
<1>15. QED
  BY <1>14 DEF g

\* The walk goes on past rows that are claimed or sent, and ends when all
\* that was promised is.
LEMMA WalkHonest ==
  ASSUME NEW dir, NEW f, NEW c, NEW up, NEW down, NEW held, NEW had, NEW st,
         Before(dir, f, c, up, down, held, had, st),
         dir = "pull", f.cursor # 0, ~f.emitted_complete,
         NEW o, Walks(f, st, o), KeepsPromise(f, f.client_seen, o),
         Legal(f, st, o),
         NEW down2, down2 = Sent(c, down, o.out),
         NEW tk2, NEW up2, Taken(up2, had)
  PROVE  Honest(tk2, o.fsm, c, up2, down2, held, had, DOMAIN st)
<1> DEFINE g == o.fsm
           out == o.out
<1>1. /\ f \in Fsm /\ f.direction = "pull" /\ down \in Seq(ServerFrame)
      /\ Running(c) => ~Completed(down)
      /\ Honest("open", f, c, up, down, held, had, DOMAIN st)
      /\ st \in Pages
  BY DEF Before
<1>2. /\ g.direction = "pull" /\ g.client_seen = f.client_seen
      /\ g.server_max_page = f.server_max_page /\ Shape(g) /\ g \in Fsm
  BY <1>1 DEF KeepsPromise, Legal, Shape
<1>3. 1 .. f.server_max_page \subseteq DOMAIN st
  BY <1>1 DEF Honest
<1>4. 1 .. g.server_max_page \subseteq DOMAIN st
  BY <1>2, <1>3
<1>5. down2 = Sent(c, down, out)
  OBVIOUS
<1>6. PICK h : /\ SamePages(f, h)
               /\ \/ h.cursor = 0 /\ Gated(h, st, o)
                  \/ \E p \in Unclaimed(f, st) :
                       /\ h.cursor = p + 1
                       /\ Succeeded(h, st, <<PageData(p, st[p].data)>>, o)
  BY DEF Walks
<1>7. h \in Fsm
  BY <1>6 DEF SamePages
<1>8. CASE h.cursor = 0 /\ Gated(h, st, o)
  <2> DEFINE y == SyncComplete(h.pages_transferred)
  <2>1. \/ out = <<>> /\ g.cursor = 0
        \/ out = <<y>> /\ g.emitted_complete
    BY <1>8 DEF Gated, Succeeded
  <2>2. g.cursor = 0
    BY <1>2, <2>1 DEF Shape
  <2>3. y \in ServerFrame /\ ~IsData(y)
    BY <1>7 DEF ServerFrame, SyncComplete, IsData, Fsm
  <2>4. ASSUME g.emitted_complete, NEW q \in 1 .. f.server_max_page
        PROVE  q < f.cursor \/ q \in f.client_seen
    <3>1. q \in DOMAIN st /\ q <= f.server_max_page
      BY <1>1, <1>3 DEF Fsm
    <3>2. QED
      BY <1>1, <2>4, <3>1 DEF Legal
  <2> HIDE DEF g, out, y
  <2>5. Emits(out)
    BY <2>1, <2>3 DEF Emits
  <2>6. \A x : out = <<x>> => x = y /\ g.emitted_complete
    BY <2>1, EmptyIsNoFrame
  <2>7. \A q \in Dealt(g) : q \in Dealt(f)
    BY <1>1, <1>2, <2>2 DEF Dealt, Fsm
  <2>8. \A x : out = <<x>> => Promised(g, c) \subseteq Dealt(f)
    BY <1>1, <1>2, <2>4, <2>6 DEF Promised, Dealt
  <2>9. Accounted(f, g, c, out, down2, held, had)
    BY <2>3, <2>6, <2>7, <2>8 DEF Accounted
  <2>10. Honest(tk2, g, c, up2, down2, held, had, DOMAIN st)
    BY <1>1, <1>4, <1>5, <2>5, <2>9, AppliedHonest
  <2>11. QED
    BY <2>10 DEF g
<1>9. ASSUME NEW p \in Unclaimed(f, st), h.cursor = p + 1,
             Succeeded(h, st, <<PageData(p, st[p].data)>>, o)
      PROVE  Honest(tk2, o.fsm, c, up2, down2, held, had, DOMAIN st)
  <2> DEFINE b == PageData(p, st[p].data)
  <2>1. g = h /\ o.res = "ok" /\ o.pages = st /\ out = <<b>>
    BY <1>9 DEF Succeeded
  <2>2. p \in DOMAIN st /\ p \in PageNo
    BY <1>1, DomainPages DEF Unclaimed
  <2>3. /\ b \in ServerFrame /\ IsData(b) /\ b.kind = "PageData"
        /\ b.page_no = p /\ b.data = st[p].data
        /\ <<p, st[p].data>> \in Rows(st)
    BY <1>1, <2>2, RowData DEF ServerFrame, PageData, IsData, Rows
  <2>4. ASSUME NEW q \in 1 .. f.server_max_page, q < g.cursor
        PROVE  q < f.cursor \/ q \in f.client_seen \/ q = p
    <3>1. q \in DOMAIN st
      BY <1>3
    <3>2. g.cursor # 0
      BY <1>9, <2>1, <2>2 DEF PageNo
    <3>3. \/ q < f.cursor \/ q \in f.client_seen
          \/ \E d : out = <<PageData(q, d)>>
      BY <2>1, <2>4, <3>1, <3>2 DEF Legal
    <3>4. ASSUME NEW d, out = <<PageData(q, d)>> PROVE q = p
      <4>1. PageData(q, d) = b
        BY <2>1, <3>4
      <4>2. QED
        BY <4>1 DEF PageData
    <3>5. QED
      BY <3>3, <3>4
  <2> HIDE DEF g, out, b
  <2>5. Emits(out)
    BY <2>1, <2>3 DEF Emits
  <2>6. \A x : out = <<x>> => x = b
    BY <2>1
  <2>7. ASSUME Running(c)
        PROVE  Accounted(f, g, c, out, down2, held, had)
    <3>1. \A x : out = <<x>> => <<x.page_no, x.data>> \in held
      BY <2>3, <2>6, <2>7 DEF Before
    <3>2. Settled(c, down2, held, had, p)
      <4>1. \A x : out = <<x>> /\ IsData(x) =>
              \A h1, h2 : Settled(c, down2, h1, h2, x.page_no)
        BY <1>1, <1>5, <2>5, <2>7, SentKeeps DEF Emits
      <4>2. QED
        BY <2>1, <2>3, <4>1
    <3>3. \A q \in Dealt(g) : q \in Dealt(f) \/ q = p
      BY <1>1, <1>2, <2>4 DEF Dealt
    <3>4. \A x : out = <<x>> => x.kind # "SyncComplete"
      BY <2>3, <2>6
    <3>5. QED
      BY <3>1, <3>2, <3>3, <3>4 DEF Accounted
  <2>8. Honest(tk2, g, c, up2, down2, held, had, DOMAIN st)
    BY <1>1, <1>4, <1>5, <2>5, <2>7, AppliedHonest
  <2>9. QED
    BY <2>8 DEF g
<1>10. QED
  BY <1>6, <1>8, <1>9

\* A frame that the object is about to apply.
LEMMA ArrivalFacts ==
  ASSUME NEW dir, NEW tk, NEW f, NEW c, NEW up, NEW down,
         Typed(dir, tk, f, c, up, down),
         NEW st \in Pages, NEW D, NEW F, Linked(dir, tk, f, c, up, down, D, F),
         tk = "open", Idle(f), up # <<>>,
         NEW m, m = Head(up), NEW o \in apply(f, st, m)
  PROVE  /\ f \in Fsm /\ f.direction = dir /\ f.rest = <<>> /\ f.cursor = 0
         /\ ~f.emitted_complete
         /\ m \in ClientFrame
         /\ m.kind \in {"Hello", "Complete", "PageHash", "PageData"}
         /\ m.kind = "Hello" <=> ~f.saw_hello
         /\ ~f.saw_hello => f = new(dir)
         /\ Legal(f, st, o)
<1>1. Between(f) /\ f.direction = dir /\ (~f.saw_hello => f = new(dir))
  BY DEF Linked, FsmOK, Between
<1>2. f.rest = <<>> /\ f.cursor = 0 /\ ~f.emitted_complete /\ f \in Fsm
  BY <1>1, BetweenFacts DEF Idle
<1>3. m \in ClientFrame
  BY TailFacts DEF Typed
<1>4. WellFormed(m)
  BY <1>3, ClientFrames, FrameFields DEF WellFormed
<1>5. Legal(f, st, o)
  BY <1>1, <1>4, ApplyLegal
<1>6. m.kind \in {"Hello", "Complete", "PageHash", "PageData"}
  BY <1>3, ClientFrames, FrameFields
<1>7. m.kind = "Hello" <=> ~f.saw_hello
  <2>1. PICK n \in 0 .. LastPage : Upstream(dir, f, up, n)
    BY DEF Linked
  <2>2. 1 \in DOMAIN up /\ up[1] = m
    BY TailFacts DEF Typed
  <2>3. QED
    BY <2>1, <2>2 DEF Upstream
<1>8. QED
  BY <1>1, <1>2, <1>3, <1>5, <1>6, <1>7

\* ... and the frames behind it were taken from the file as well.
LEMMA TakenFacts ==
  ASSUME NEW up \in Seq(ClientFrame), NEW had, Taken(up, had)
  PROVE  /\ Taken(<<>>, had)
         /\ up # <<>> => TakenFrom(had, Head(up)) /\ Taken(Tail(up), had)
<1>1. Taken(<<>>, had)
  BY NoFrames DEF Taken
<1>2. ASSUME up # <<>>
      PROVE  TakenFrom(had, Head(up)) /\ Taken(Tail(up), had)
  <2> DEFINE rest == Tail(up)
  <2>1. /\ DOMAIN up = 1 .. Len(up) /\ Len(up) \in Nat \ {0}
        /\ Head(up) = up[1]
        /\ DOMAIN rest = 1 .. Len(up) - 1
        /\ \A i \in 1 .. Len(up) - 1 : rest[i] = up[i + 1]
    BY <1>2, TailFacts
  <2> HIDE DEF rest
  <2>2. 1 \in DOMAIN up /\ \A i \in DOMAIN rest : i + 1 \in DOMAIN up
    BY <2>1
  <2>3. Taken(rest, had)
    BY <2>1, <2>2 DEF Taken
  <2>4. QED
    BY <2>1, <2>2, <2>3 DEF Taken, rest
<1>3. QED
  BY <1>1, <1>2

\* An apply, whatever it was given and however it ends.
LEMMA ApplyHonest ==
  ASSUME NEW dir, NEW tk, NEW f, NEW c, NEW up, NEW down,
         Typed(dir, tk, f, c, up, down),
         NEW st \in Pages, IsPrefix1(DOMAIN st), RowsTrue(st),
         NEW F, Linked(dir, tk, f, c, up, down, DOMAIN st, F),
         tk = "open", Idle(f), up # <<>>,
         NEW o \in apply(f, st, Head(up)),
         NEW tk2, NEW up2, NEW out, Settles(o, Tail(up), tk2, up2, out),
         NEW down2, down2 = Sent(c, down, out),
         NEW held, NEW had,
         Honest(tk, f, c, up, down, held, had, DOMAIN st),
         Running(c) => Rows(st) \subseteq held /\ Rows(o.pages) \subseteq held
  PROVE  Honest(tk2, o.fsm, c, up2, down2, held, had, DOMAIN o.pages)
<1> DEFINE m == Head(up)
           D == DOMAIN st
           R == Honest(tk2, o.fsm, c, up2, down2, held, had, DOMAIN o.pages)
<1>1. /\ f \in Fsm /\ f.direction = dir /\ f.rest = <<>> /\ f.cursor = 0
      /\ ~f.emitted_complete
      /\ m \in ClientFrame
      /\ m.kind \in {"Hello", "Complete", "PageHash", "PageData"}
      /\ m.kind = "Hello" <=> ~f.saw_hello
      /\ ~f.saw_hello => f = new(dir)
      /\ Legal(f, st, o)
  <2>1. Linked(dir, tk, f, c, up, down, D, F) /\ o \in apply(f, st, m)
    OBVIOUS
  <2> HIDE DEF D, m
  <2>2. QED
    BY <2>1, ArrivalFacts DEF m
<1>2. /\ up \in Seq(ClientFrame) /\ down \in Seq(ServerFrame)
      /\ dir \in Direction /\ c \in Cli
  BY DEF Typed
<1>3. Linked(dir, tk, f, c, up, down, D, F)
  OBVIOUS
<1>4. Running(c) => ~Completed(down)
  <2> HIDE DEF D
  <2>1. QED
    BY <1>3, NotYetCompleted
<1>5. /\ Taken(<<>>, had) /\ TakenFrom(had, m) /\ Taken(Tail(up), had)
  <2>1. Taken(up, had)
    BY DEF Honest
  <2>2. QED
    BY <1>2, <2>1, TakenFacts
<1>6. Before(dir, f, c, up, down, held, had, st)
  BY <1>1, <1>2, <1>4 DEF Before
<1>7. Taken(up2, had)
  BY <1>5 DEF Settles
<1>8. o.res = "ok" => out = o.out /\ down2 = Sent(c, down, o.out)
  BY DEF Settles
<1>9. ASSUME o.res # "ok", o.out = <<>>
      PROVE  R
  <2>1. tk2 = "closed" /\ up2 = <<>> /\ out \in {<<>>, <<Error>>}
    BY <1>9 DEF Settles
  <2> DEFINE g == o.fsm
             E == DOMAIN o.pages
  <2>2. Honest(tk, f, c, up, down, held, had, D)
    OBVIOUS
  <2> HIDE DEF g, E, D
  <2>3. Honest("closed", g, c, <<>>, down2, held, had, E)
    BY <1>2, <1>4, <2>1, <2>2, AbortedHonest
  <2>4. QED
    BY <2>1, <2>3 DEF g, E
<1>10. ASSUME Running(c), f.saw_hello,
              f.completed_hash_phase \/ m.kind = "Complete"
       PROVE  1 .. c.max \subseteq f.client_seen
  <2> HIDE DEF D
  <2>1. QED
    BY <1>3, <1>10, AllClaimed
<1>11. CASE m.kind = "Hello"
  <2>1. o \in handle_hello(f, st, m)
    BY <1>1, <1>11 DEF apply
  <2>2. Failed(f, st, o) \/ Greeted(f, st, o)
    BY <1>1, <2>1, HelloEffect
  <2>3. CASE Failed(f, st, o)
    BY <1>9, <2>3 DEF Failed
  <2>4. CASE Greeted(f, st, o)
    <3>1. o.res = "ok" /\ o.pages = st
      BY <2>4 DEF Greeted, Succeeded
    <3>2. Greets(st, o.fsm)
      <4>1. o \in handle_hello(new(dir), st, m)
        BY <1>1, <1>11, <2>1
      <4>2. QED
        BY <1>2, <3>1, <4>1, HelloOutcome
    <3>3. o.fsm.direction = f.direction
      BY <1>1 DEF Legal
    <3>4. down2 = Sent(c, down, o.out)
      BY <1>8, <3>1
    <3>5. Honest(tk2, o.fsm, c, up2, down2, held, had, DOMAIN st)
      BY <1>6, <1>7, <2>4, <3>1, <3>2, <3>3, <3>4, HelloHonest
    <3>6. QED
      BY <3>1, <3>5
  <2>5. QED
    BY <2>2, <2>3, <2>4
<1>12. CASE m.kind = "PageHash"
  <2>1. o \in handle_page_hash(f, st, m)
    BY <1>1, <1>12 DEF apply
  <2>2. m.page_no \in PageNo
    BY <1>1, <1>12, ClientFrames
  <2>3. Failed(f, st, o) \/ Claimed(f, st, m.page_no, o)
    BY <1>1, <2>1, <2>2, PageHashEffect
  <2>4. CASE Failed(f, st, o)
    BY <1>9, <2>4 DEF Failed
  <2>5. CASE Claimed(f, st, m.page_no, o)
    <3>1. o.res = "ok" /\ o.pages = st
      BY <2>5 DEF Claimed, Succeeded
    <3>2. o.out = <<>> =>
            \/ get_page_hash_is(st, m.page_no, m.hash)
            \/ f.direction = "pull" /\ m.page_no \notin DOMAIN st
      BY <1>1, <2>1, <3>1, MatchOutcome
    <3>3. down2 = Sent(c, down, o.out)
      BY <1>8, <3>1
    <3> HIDE DEF m
    <3>4. Honest(tk2, o.fsm, c, up2, down2, held, had, DOMAIN st)
      BY <1>1, <1>5, <1>6, <1>7, <1>12, <2>5, <3>2, <3>3, PageHashHonest
    <3>5. QED
      BY <3>1, <3>4
  <2>6. QED
    BY <2>3, <2>4, <2>5
<1>13. CASE m.kind = "PageData"
  <2> DEFINE p  == m.page_no
             tt == put_page(st, p, m.data, page_hash(m.data))
  <2>1. o \in handle_page_data(f, st, m) /\ IsData(m)
    BY <1>1, <1>13 DEF apply, IsData
  <2>2. Failed(f, st, o) \/ Failed(f, tt, o) \/ Stored(f, tt, p, o)
    BY <1>1, <2>1, PageDataEffect
  <2>3. CASE Failed(f, st, o) \/ Failed(f, tt, o)
    BY <1>9, <2>3 DEF Failed
  <2>4. CASE Stored(f, tt, p, o)
    <3>1. o.res = "ok" /\ o.pages = tt
      BY <2>4 DEF Stored, Gated, Succeeded
    <3>2. dir = "push"
      <4>1. IsData(Head(up)) /\ f.saw_hello
        BY <1>1, <1>13, <2>1
      <4>2. Linked(dir, tk, f, c, up, down, D, F)
        OBVIOUS
      <4> HIDE DEF D
      <4>3. QED
        BY <4>1, <4>2, StoredFacts
    <3>3. KeepsPromise(f, f.client_seen, o)
      BY <1>1, <2>1, PageDataKeeps
    <3>4. Shape(o.fsm) /\ o.fsm.direction = dir
      BY <1>1 DEF Legal
    <3>5. Running(c) => Rows(tt) \subseteq held
      BY <3>1
    <3>6. Running(c) /\ f.completed_hash_phase => 1 .. c.max \subseteq f.client_seen
      BY <1>1, <1>10, <1>13
    <3>7. down2 = Sent(c, down, o.out)
      BY <1>8, <3>1
    <3>8. tt = put_page(st, p, m.data, page_hash(m.data))
      OBVIOUS
    <3> HIDE DEF m, tt
    <3>9. Honest(tk2, o.fsm, c, up2, down2, held, had, DOMAIN tt)
      BY <1>1, <1>5, <1>6, <1>7, <2>1, <2>4, <3>2, <3>3, <3>4, <3>5, <3>6,
         <3>7, <3>8, PageDataHonest
    <3>10. QED
      BY <3>1, <3>9
  <2>5. QED
    BY <2>2, <2>3, <2>4
<1>14. CASE m.kind = "Complete"
  <2>1. o \in handle_complete(f, st)
    BY <1>1, <1>14 DEF apply
  <2>2. Failed(f, st, o) \/ Hashed(f, st, o)
    BY <1>1, <2>1, CompleteEffect
  <2>3. CASE Failed(f, st, o)
    BY <1>9, <2>3 DEF Failed
  <2>4. CASE Hashed(f, st, o)
    <3>1. o.res = "ok" /\ o.pages = st
      BY <2>4 DEF Hashed, Gated, Succeeded
    <3>2. KeepsPromise(f, f.client_seen, o)
      BY <1>1, <2>1, CompleteKeeps
    <3>3. Running(c) => 1 .. c.max \subseteq f.client_seen
      BY <1>1, <1>10, <1>14
    <3>4. down2 = Sent(c, down, o.out)
      BY <1>8, <3>1
    <3>5. Honest(tk2, o.fsm, c, up2, down2, held, had, DOMAIN st)
      BY <1>1, <1>6, <1>7, <2>4, <3>2, <3>3, <3>4, CompleteHonest
    <3>6. QED
      BY <3>1, <3>5
  <2>5. QED
    BY <2>2, <2>3, <2>4
<1>15. QED
  BY <1>1, <1>11, <1>12, <1>13, <1>14

\* A turn of the walk.
LEMMA ResumeHonest ==
  ASSUME NEW dir, NEW tk, NEW f, NEW c, NEW up, NEW down,
         Typed(dir, tk, f, c, up, down),
         NEW st \in Pages, IsPrefix1(DOMAIN st), RowsTrue(st),
         NEW F, Linked(dir, tk, f, c, up, down, DOMAIN st, F),
         tk = "open", ~Idle(f),
         NEW o \in resume(f, st),
         NEW tk2, NEW up2, NEW out, Settles(o, up, tk2, up2, out),
         NEW down2, down2 = Sent(c, down, out),
         NEW held, NEW had,
         Honest(tk, f, c, up, down, held, had, DOMAIN st),
         Running(c) => Rows(st) \subseteq held
  PROVE  Honest(tk2, o.fsm, c, up2, down2, held, had, DOMAIN st)
<1> DEFINE D == DOMAIN st
           R == Honest(tk2, o.fsm, c, up2, down2, held, had, DOMAIN st)
<1>1. /\ Shape(f) /\ f \in Fsm /\ f.direction = dir /\ f.rest = <<>>
      /\ f.cursor # 0
  BY DEF Linked, FsmOK, Idle, Typed
<1>2. /\ up \in Seq(ClientFrame) /\ down \in Seq(ServerFrame)
      /\ dir \in Direction /\ c \in Cli
  BY DEF Typed
<1>3. Linked(dir, tk, f, c, up, down, D, F)
  OBVIOUS
<1>4. Running(c) => ~Completed(down)
  <2> HIDE DEF D
  <2>1. QED
    BY <1>3, NotYetCompleted
<1>5. dir = "pull" /\ ~f.emitted_complete
  <2> HIDE DEF D
  <2>1. QED
    BY <1>1, <1>3, WalkFacts
<1>6. Taken(up, had) /\ Taken(<<>>, had)
  BY <1>2, TakenFacts DEF Honest
<1>7. Taken(up2, had)
  BY <1>6 DEF Settles
<1>8. Before(dir, f, c, up, down, held, had, st)
  BY <1>1, <1>2, <1>4 DEF Before
<1>9. Legal(f, st, o)
  BY <1>1, ResumeLegal
<1>10. KeepsPromise(f, f.client_seen, o)
  BY <1>1, ResumeKeeps
<1>11. Failed(f, st, o) \/ Walks(f, st, o)
  <2>1. o \in walk(f, st)
    BY <1>1 DEF resume
  <2>2. QED
    BY <1>1, <2>1, WalkEffect
<1>12. CASE Failed(f, st, o)
  <2>1. o.res # "ok" /\ o.out = <<>>
    BY <1>12 DEF Failed
  <2>2. tk2 = "closed" /\ up2 = <<>> /\ out \in {<<>>, <<Error>>}
    BY <2>1 DEF Settles
  <2> DEFINE g == o.fsm
  <2>3. Honest(tk, f, c, up, down, held, had, D)
    OBVIOUS
  <2> HIDE DEF g, D
  <2>4. Honest("closed", g, c, <<>>, down2, held, had, D)
    BY <1>2, <1>4, <2>2, <2>3, AbortedHonest
  <2>5. QED
    BY <2>2, <2>4 DEF g, D
<1>13. CASE Walks(f, st, o)
  <2>1. o.res = "ok"
    BY <1>13 DEF Walks, Gated, Succeeded
  <2>2. down2 = Sent(c, down, o.out)
    BY <2>1 DEF Settles
  <2>3. QED
    BY <1>1, <1>5, <1>7, <1>8, <1>9, <1>10, <1>13, <2>2, WalkHonest
<1>14. QED
  BY <1>11, <1>12, <1>13

-----------------------------------------------------------------------------
(* The steps of the object, in the state of SyncSystem.                    *)

\* A step that settles an outcome of one session.
SettlesAt(s, o, tk2, up2, out) ==
  /\ task' = [task EXCEPT ![s] = tk2]
  /\ fsm' = [fsm EXCEPT ![s] = o.fsm]
  /\ c2s' = [c2s EXCEPT ![s] = up2]
  /\ s2c' = [s2c EXCEPT ![s] = Sent(cli[s], s2c[s], out)]
  /\ pages' = o.pages
  /\ UNCHANGED <<cli, file, writes>>

LEMMA SettlesAtFacts ==
  ASSUME TypeOK, NEW s \in Session,
         NEW o, NEW tk2, NEW up2, NEW out, SettlesAt(s, o, tk2, up2, out)
  PROVE  /\ task'[s] = tk2 /\ fsm'[s] = o.fsm /\ c2s'[s] = up2
         /\ s2c'[s] = Sent(cli[s], s2c[s], out)
         /\ \A t \in Session \ {s} :
              /\ task'[t] = task[t] /\ fsm'[t] = fsm[t] /\ cli'[t] = cli[t]
              /\ c2s'[t] = c2s[t] /\ s2c'[t] = s2c[t]
         /\ \A t \in Session : cli'[t] = cli[t]
         /\ \A t \in Session : Active(t)' <=> Active(t)
         /\ pages' = o.pages /\ UNCHANGED <<file, writes>>
BY DEF SettlesAt, TypeOK, Active

LEMMA WatchedRows ==
  ASSUME Observe, NEW s \in Session, Active(s)'
  PROVE  Rows(pages) \subseteq inStore'[s] /\ Rows(pages') \subseteq inStore'[s]
<1>1. Rows(pages) = InStore /\ Rows(pages') = InStore'
  BY DEF Rows, InStore
<1>2. QED
  BY <1>1, Watching

\* A task that ends without a client leaves nothing to be honest about.
LEMMA EndedHonest ==
  ASSUME HIInv, Observe, NEW s \in Session, ~Active(s),
         NEW o, NEW unread, NEW tk2, NEW up2, NEW out, tk2 # "open",
         Settles(o, unread, tk2, up2, out), SettlesAt(s, o, tk2, up2, out),
         DOMAIN pages \subseteq DOMAIN pages'
  PROVE  \A t \in Session : HonestAt(t)'
<1>1. TypeOK
  BY DEF HIInv, IInv
<1>2. up2 = <<>>
  BY DEF Settles
<1>3. task'[s] # "open" /\ c2s'[s] = <<>> /\ ~Running(cli'[s])
  BY <1>1, <1>2, SettlesAtFacts DEF Running, Active
<1>4. Taken(c2s'[s], inFile'[s])
  BY <1>3, NoFrames DEF Taken
<1>5. HonestAt(s)'
  BY <1>3, <1>4 DEF HonestAt, Honest
<1>6. QED
  BY <1>1, <1>5, SettlesAtFacts, HonestStep

\* What Apply and ResumeApply come to.
LEMMA ApplySettlesAt ==
  ASSUME TypeOK, NEW s \in Session, Apply(s)
  PROVE  /\ task[s] = "open" /\ Idle(fsm[s]) /\ c2s[s] # <<>>
         /\ \E o \in apply(fsm[s], pages, Head(c2s[s])) : \E tk2, up2, out :
              /\ Settles(o, Tail(c2s[s]), tk2, up2, out)
              /\ SettlesAt(s, o, tk2, up2, out)
<1>1. PICK o \in apply(fsm[s], pages, Head(c2s[s])) :
        Settle(s, o, Tail(c2s[s]))
  BY DEF Apply, Possible
<1>2. PICK tk2, up2, out :
        /\ Settles(o, Tail(c2s[s]), tk2, up2, out)
        /\ task' = [task EXCEPT ![s] = tk2]
        /\ fsm' = [fsm EXCEPT ![s] = o.fsm]
        /\ c2s' = [c2s EXCEPT ![s] = up2]
        /\ s2c' = [s2c EXCEPT ![s] = Sent(cli[s], s2c[s], out)]
        /\ pages' = o.pages
  BY <1>1, SettleFacts
<1>3. SettlesAt(s, o, tk2, up2, out)
  BY <1>2 DEF SettlesAt, Apply
<1>4. task[s] = "open" /\ Idle(fsm[s]) /\ c2s[s] # <<>>
  BY DEF Apply, Free
<1>5. QED
  BY <1>2, <1>3, <1>4

LEMMA ResumeSettlesAt ==
  ASSUME TypeOK, NEW s \in Session, ResumeApply(s)
  PROVE  /\ task[s] = "open" /\ ~Idle(fsm[s])
         /\ \E o \in resume(fsm[s], pages) : \E tk2, up2, out :
              /\ Settles(o, c2s[s], tk2, up2, out)
              /\ SettlesAt(s, o, tk2, up2, out)
<1>1. PICK o \in resume(fsm[s], pages) : Settle(s, o, c2s[s])
  BY DEF ResumeApply, Possible
<1>2. PICK tk2, up2, out :
        /\ Settles(o, c2s[s], tk2, up2, out)
        /\ task' = [task EXCEPT ![s] = tk2]
        /\ fsm' = [fsm EXCEPT ![s] = o.fsm]
        /\ c2s' = [c2s EXCEPT ![s] = up2]
        /\ s2c' = [s2c EXCEPT ![s] = Sent(cli[s], s2c[s], out)]
        /\ pages' = o.pages
  BY <1>1, SettleFacts
<1>3. SettlesAt(s, o, tk2, up2, out)
  BY <1>2 DEF SettlesAt, ResumeApply
<1>4. task[s] = "open" /\ ~Idle(fsm[s])
  BY DEF ResumeApply
<1>5. QED
  BY <1>2, <1>3, <1>4

\* No step changes the token of a session.
LEMMA TokensKept ==
  ASSUME IInv, [Next]_vars, NEW s \in Session
  PROVE  fsm'[s].direction = fsm[s].direction
<1> DEFINE Kept == fsm'[s].direction = fsm[s].direction
<1>1. TypeOK
  BY DEF IInv
<1>2. ASSUME NEW t \in Session, NEW o, NEW tk2, NEW up2, NEW out,
             SettlesAt(t, o, tk2, up2, out),
             o.fsm.direction = fsm[t].direction
      PROVE  Kept
  <2>1. fsm'[t] = o.fsm /\ (s # t => fsm'[s] = fsm[s])
    BY <1>1, <1>2, SettlesAtFacts
  <2>2. QED
    BY <1>2, <2>1
<1> HIDE DEF Kept
<1>3. ASSUME NEW t \in Session, Apply(t)
      PROVE  Kept
  <2> DEFINE f == fsm[t]
             up == c2s[t]
             down == s2c[t]
  <2>1. task[t] = "open" /\ Idle(f) /\ up # <<>>
    BY <1>1, <1>3, ApplySettlesAt
  <2>2. PICK o \in apply(f, pages, Head(up)) : \E tk2, up2, out :
          Settles(o, Tail(up), tk2, up2, out) /\ SettlesAt(t, o, tk2, up2, out)
    BY <1>1, <1>3, ApplySettlesAt
  <2>3. PICK tk2, up2, out :
          Settles(o, Tail(up), tk2, up2, out) /\ SettlesAt(t, o, tk2, up2, out)
    BY <2>2
  <2> DEFINE down2 == Sent(cli[t], down, out)
  <2>4. /\ Typed(f.direction, task[t], f, cli[t], up, down)
        /\ Linked(f.direction, task[t], f, cli[t], up, down, DOMAIN pages,
                  DOMAIN file[Owner[t]])
        /\ pages \in Pages /\ IsPrefix1(DOMAIN pages)
    BY SessionFacts DEF LinkedAt
  <2>5. down2 = Sent(cli[t], down, out)
    OBVIOUS
  <2> HIDE DEF f, up, down, down2
  <2>6. Linked(f.direction, tk2, o.fsm, cli[t], up2, down2, DOMAIN o.pages,
               DOMAIN file[Owner[t]])
    BY <2>1, <2>2, <2>3, <2>4, <2>5, ApplySettles
  <2>7. o.fsm.direction = fsm[t].direction
    BY <2>6 DEF Linked, FsmOK, f
  <2>8. QED
    BY <1>2, <2>3, <2>7
<1>4. ASSUME NEW t \in Session, ResumeApply(t)
      PROVE  Kept
  <2> DEFINE f == fsm[t]
             up == c2s[t]
             down == s2c[t]
  <2>1. task[t] = "open" /\ ~Idle(f)
    BY <1>1, <1>4, ResumeSettlesAt
  <2>2. PICK o \in resume(f, pages) : \E tk2, up2, out :
          Settles(o, up, tk2, up2, out) /\ SettlesAt(t, o, tk2, up2, out)
    BY <1>1, <1>4, ResumeSettlesAt
  <2>3. PICK tk2, up2, out :
          Settles(o, up, tk2, up2, out) /\ SettlesAt(t, o, tk2, up2, out)
    BY <2>2
  <2> DEFINE down2 == Sent(cli[t], down, out)
  <2>4. /\ Typed(f.direction, task[t], f, cli[t], up, down)
        /\ Linked(f.direction, task[t], f, cli[t], up, down, DOMAIN pages,
                  DOMAIN file[Owner[t]])
        /\ pages \in Pages /\ IsPrefix1(DOMAIN pages)
    BY SessionFacts DEF LinkedAt
  <2>5. down2 = Sent(cli[t], down, out)
    OBVIOUS
  <2> HIDE DEF f, up, down, down2
  <2>6. Linked(f.direction, tk2, o.fsm, cli[t], up2, down2, DOMAIN o.pages,
               DOMAIN file[Owner[t]])
    BY <2>1, <2>2, <2>3, <2>4, <2>5, ResumeSettles
  <2>7. o.fsm.direction = fsm[t].direction
    BY <2>6 DEF Linked, FsmOK, f
  <2>8. QED
    BY <1>2, <2>3, <2>7
<1>5. ASSUME NEW t \in Session, PeerClose(t)
      PROVE  Kept
  <2>1. fsm[t] \in Fsm /\ fsm' = [fsm EXCEPT ![t] = client_closed(@)]
    BY <1>1, <1>5 DEF PeerClose, TypeOK
  <2>2. client_closed(fsm[t]).direction = fsm[t].direction
    BY <2>1 DEF client_closed, Fsm
  <2>3. QED
    BY <1>1, <2>1, <2>2 DEF Kept, TypeOK
<1>6. ASSUME NEW t \in Session,
             Start(t) \/ ClientStep(t) \/ ClientFails(t)
      PROVE  fsm' = fsm
  BY <1>6 DEF Start, ClientStep, RecvHelloReply, SendHash, SendComplete,
     RecvRequest, ServePage, RecvPage, RecvSyncComplete, RecvOther,
     RecvClosed, ClientFails, Fail, server
<1>7. ASSUME NEW h \in Host, NEW p \in PageNo, NEW d \in Content,
             LocalWrite(h, p, d)
      PROVE  fsm' = fsm
  BY <1>7 DEF LocalWrite, server
<1>8. Restart \/ Finished \/ UNCHANGED vars => fsm' = fsm
  BY DEF Restart, Finished, vars
<1>9. fsm' = fsm => Kept
  BY DEF Kept
<1>10. Kept
  BY <1>3, <1>4, <1>5, <1>6, <1>7, <1>8, <1>9 DEF Next, ServerStep
<1>11. QED
  BY <1>10 DEF Kept

LEMMA ApplyStaysHonest ==
  ASSUME HIInv, Observe, NEW s \in Session,
         task[s] = "open", Idle(fsm[s]), c2s[s] # <<>>,
         NEW o \in apply(fsm[s], pages, Head(c2s[s])),
         NEW tk2, NEW up2, NEW out,
         Settles(o, Tail(c2s[s]), tk2, up2, out), SettlesAt(s, o, tk2, up2, out)
  PROVE  \A t \in Session : HonestAt(t)'
<1> DEFINE dir   == fsm[s].direction
           tk    == task[s]
           f     == fsm[s]
           c     == cli[s]
           up    == c2s[s]
           down  == s2c[s]
           F     == DOMAIN file[Owner[s]]
           down2 == Sent(c, down, out)
           held  == inStore'[s]
           had   == inFile'[s]
<1>1. IInv /\ TypeOK /\ RowsTrue(pages)
  BY DEF HIInv, IInv
<1>2. /\ Typed(dir, tk, f, c, up, down)
      /\ pages \in Pages /\ IsPrefix1(DOMAIN pages)
      /\ Linked(dir, tk, f, c, up, down, DOMAIN pages, F)
      /\ tk = "open" /\ Idle(f) /\ up # <<>>
      /\ o \in apply(f, pages, Head(up))
      /\ Settles(o, Tail(up), tk2, up2, out)
  BY <1>1, SessionFacts DEF LinkedAt
<1>3. /\ task'[s] = tk2 /\ fsm'[s] = o.fsm /\ c2s'[s] = up2 /\ s2c'[s] = down2
      /\ cli'[s] = c
      /\ \A t \in Session \ {s} :
           /\ task'[t] = task[t] /\ fsm'[t] = fsm[t] /\ cli'[t] = cli[t]
           /\ c2s'[t] = c2s[t] /\ s2c'[t] = s2c[t]
      /\ \A t \in Session : Active(t)' <=> Active(t)
      /\ pages' = o.pages
  BY <1>1, SettlesAtFacts
<1>5. Active(s) => Rows(pages) \subseteq held /\ Rows(o.pages) \subseteq held
  BY <1>3, WatchedRows
<1>6. Active(s) \/ tk2 = "open" => Honest(tk, f, c, up, down, held, had, DOMAIN pages)
  BY <1>3, HonestNow
<1>7. Running(c) <=> Active(s)
  BY DEF Running, Active
<1>8. down2 = Sent(c, down, out)
  OBVIOUS
<1> HIDE DEF dir, tk, f, c, up, down, F, down2, held, had
<1>9. DOMAIN pages \subseteq DOMAIN pages'
  <2>1. DOMAIN pages \subseteq DOMAIN o.pages
    BY <1>2, <1>8, ApplySettles
  <2>2. QED
    BY <1>3, <2>1
<1>10. CASE Active(s) \/ tk2 = "open"
  <2>1. Honest(tk2, o.fsm, c, up2, down2, held, had, DOMAIN o.pages)
    BY <1>1, <1>2, <1>5, <1>6, <1>7, <1>8, <1>10, ApplyHonest
  <2>2. HonestAt(s)'
    BY <1>3, <2>1 DEF HonestAt, held, had
  <2>3. QED
    BY <1>3, <1>9, <2>2, HonestStep
<1>11. CASE ~Active(s) /\ tk2 # "open"
  BY <1>2, <1>9, <1>11, EndedHonest
<1>12. QED
  BY <1>10, <1>11

LEMMA ResumeStaysHonest ==
  ASSUME HIInv, Observe, NEW s \in Session,
         task[s] = "open", ~Idle(fsm[s]),
         NEW o \in resume(fsm[s], pages), o.pages = pages,
         NEW tk2, NEW up2, NEW out,
         Settles(o, c2s[s], tk2, up2, out), SettlesAt(s, o, tk2, up2, out)
  PROVE  \A t \in Session : HonestAt(t)'
<1> DEFINE dir   == fsm[s].direction
           tk    == task[s]
           f     == fsm[s]
           c     == cli[s]
           up    == c2s[s]
           down  == s2c[s]
           F     == DOMAIN file[Owner[s]]
           down2 == Sent(c, down, out)
           held  == inStore'[s]
           had   == inFile'[s]
<1>1. IInv /\ TypeOK /\ RowsTrue(pages)
  BY DEF HIInv, IInv
<1>2. /\ Typed(dir, tk, f, c, up, down)
      /\ pages \in Pages /\ IsPrefix1(DOMAIN pages)
      /\ Linked(dir, tk, f, c, up, down, DOMAIN pages, F)
      /\ tk = "open" /\ ~Idle(f)
      /\ o \in resume(f, pages)
      /\ Settles(o, up, tk2, up2, out)
  BY <1>1, SessionFacts DEF LinkedAt
<1>3. /\ task'[s] = tk2 /\ fsm'[s] = o.fsm /\ c2s'[s] = up2 /\ s2c'[s] = down2
      /\ cli'[s] = c
      /\ \A t \in Session \ {s} :
           /\ task'[t] = task[t] /\ fsm'[t] = fsm[t] /\ cli'[t] = cli[t]
           /\ c2s'[t] = c2s[t] /\ s2c'[t] = s2c[t]
      /\ \A t \in Session : Active(t)' <=> Active(t)
      /\ pages' = pages
  BY <1>1, SettlesAtFacts
<1>4. Active(s) => Rows(pages) \subseteq held
  BY <1>3, WatchedRows
<1>5. Active(s) \/ tk2 = "open" => Honest(tk, f, c, up, down, held, had, DOMAIN pages)
  BY <1>3, HonestNow
<1>6. Running(c) <=> Active(s)
  BY DEF Running, Active
<1>7. down2 = Sent(c, down, out)
  OBVIOUS
<1> HIDE DEF dir, tk, f, c, up, down, F, down2, held, had
<1>8. CASE Active(s) \/ tk2 = "open"
  <2>1. Honest(tk2, o.fsm, c, up2, down2, held, had, DOMAIN pages)
    BY <1>1, <1>2, <1>4, <1>5, <1>6, <1>7, <1>8, ResumeHonest
  <2>2. HonestAt(s)'
    BY <1>3, <2>1 DEF HonestAt, held, had
  <2>3. QED
    BY <1>3, <2>2, HonestStep
<1>9. CASE ~Active(s) /\ tk2 # "open"
  BY <1>2, <1>3, <1>9, EndedHonest
<1>10. QED
  BY <1>8, <1>9

-----------------------------------------------------------------------------
(* The steps of the object, as steps of SyncedDatabase.                    *)

\* What SyncedDatabase sees of a step of one session's task.
TaskStep(s) ==
  /\ task[s] = "open" /\ task'[s] \in {"open", "closed"}
  /\ \A t \in Session \ {s} : task'[t] = task[t] /\ fsm'[t] = fsm[t]
  /\ fsm'[s].direction = fsm[s].direction
  /\ \A t \in Session : cli'[t] = cli[t]
  /\ UNCHANGED <<file, writes>>

LEMMA TaskStepFacts ==
  ASSUME NEW s \in Session, TaskStep(s)
  PROVE  /\ \A t \in Session \ {s} : SameSession(t)
         /\ \A t \in Session : Status(t)' = Status(t)
         /\ [t \in Session |-> fsm'[t].direction]
              = [t \in Session |-> fsm[t].direction]
         /\ Active(s)' <=> Active(s)
         /\ s \in {t \in Session : task[t] = "open"}
         /\ {t \in Session : task'[t] = "open"}
              \in {{t \in Session : task[t] = "open"},
                   {t \in Session : task[t] = "open"} \ {s}}
<1>1. \A t \in Session : Status(t)' = Status(t) /\ (Active(t)' <=> Active(t))
  BY DEF TaskStep, Status, Active, Ended
<1>2. \A t \in Session \ {s} : SameSession(t)
  BY Untouched DEF TaskStep
<1>3. \/ {t \in Session : task'[t] = "open"} = {t \in Session : task[t] = "open"}
      \/ {t \in Session : task'[t] = "open"}
           = {t \in Session : task[t] = "open"} \ {s}
  <2>1. CASE task'[s] = "open"
    BY <2>1 DEF TaskStep
  <2>2. CASE task'[s] = "closed"
    BY <2>2 DEF TaskStep
  <2>3. QED
    BY <2>1, <2>2 DEF TaskStep
<1>4. QED
  BY <1>1, <1>2, <1>3 DEF TaskStep

\* One that stores nothing and leaves the promise as it is: at most, the
\* session is closed.
LEMMA ClosingMaps ==
  ASSUME Observe, NEW s \in Session, TaskStep(s), pages' = pages,
         SameSession(s)
  PROVE  Synced!Next
<1>1. \A t \in Session : SameSession(t)
  BY TaskStepFacts
<1>2. UNCHANGED <<pages, file, writes>>
  BY DEF TaskStep
<1>3. CASE task'[s] = "open"
  <2>1. /\ {} \in SUBSET Session
        /\ \A t \in Session : task'[t] = "open" <=> task[t] = "open" /\ t \notin {}
    BY <1>3 DEF TaskStep
  <2>2. QED
    BY <1>1, <1>2, <2>1, CloseMaps
<1>4. CASE task'[s] = "closed"
  <2>1. /\ {s} \in SUBSET Session
        /\ \A t \in Session : task'[t] = "open" <=> task[t] = "open" /\ t \notin {s}
    BY <1>4 DEF TaskStep
  <2>2. QED
    BY <1>1, <1>2, <2>1, CloseMaps
<1>5. QED
  BY <1>3, <1>4 DEF TaskStep

\* What a session is to bring changes with the promise of a running pull.
LEMMA TodoKept ==
  ASSUME NEW s \in Session, TaskStep(s),
         \/ ~Active(s) \/ ~Fits(s) \/ Command[s] = "push"
         \/ /\ fsm'[s].saw_hello = fsm[s].saw_hello
            /\ fsm'[s].server_max_page = fsm[s].server_max_page
  PROVE  SameSession(s)
<1>1. /\ Status(s)' = Status(s) /\ (Active(s)' <=> Active(s))
      /\ cli'[s] = cli[s] /\ fsm'[s].direction = fsm[s].direction
      /\ (Fits(s)' <=> Fits(s))
  BY TaskStepFacts DEF TaskStep, Fits
<1>2. CASE ~Active(s) \/ ~Fits(s)
  BY <1>1, <1>2 DEF SameSession, Todo
<1>3. CASE Active(s) /\ Fits(s) /\ Command[s] = "push"
  BY <1>1, <1>3 DEF SameSession, Todo
<1>4. CASE Active(s) /\ Fits(s) /\ Command[s] = "pull"
  BY <1>1, <1>4 DEF SameSession, Todo
<1>5. QED
  BY <1>2, <1>3, <1>4, SystemAssumption DEF Direction

\* The handshake of a running pull promises what the object has now.
LEMMA HandshakeMaps ==
  ASSUME Observe, NEW s \in Session, TaskStep(s), pages' = pages,
         pages \in Pages, IsPrefix1(DOMAIN pages),
         Fits(s), Command[s] = "pull", Active(s), Greets(pages, fsm'[s])
  PROVE  Synced!Next
<1>1. Todo(s)' = DOMAIN pages
  <2> DEFINE k == Cardinality(DOMAIN pages)
             n == fsm'[s].server_max_page
  <2>1. DOMAIN pages = 1 .. k /\ k \in Nat
    BY DomainPages, PrefixInterval
  <2>2. is_max_page(pages, n) /\ n \in Nat
    BY DEF Greets, Fsm
  <2>3. Todo(s)' = 1 .. n
    <3>1. Active(s)' /\ Fits(s)' /\ fsm'[s].saw_hello
      BY TaskStepFacts DEF Greets, TaskStep, Fits
    <3>2. QED
      BY <3>1 DEF Todo
  <2> HIDE DEF k, n
  <2>4. 1 .. n = 1 .. k
    <3>1. CASE n = 0 /\ DOMAIN pages = {}
      BY <2>1, <3>1
    <3>2. CASE n \in DOMAIN pages /\ \A q \in DOMAIN pages : q <= n
      <4>1. n \in 1 .. k /\ k \in 1 .. k
        BY <2>1, <3>2
      <4>2. n = k
        BY <2>1, <2>2, <3>2, <4>1
      <4>3. QED
        BY <4>2
    <3>3. QED
      BY <2>2, <3>1, <3>2 DEF is_max_page
  <2>5. QED
    BY <2>1, <2>3, <2>4
<1>2. Status(s) = "running"
  BY DEF Status
<1>3. [t \in Session |-> Todo(t)'] =
        [[t \in Session |-> Todo(t)] EXCEPT
           ![s] = IF [t \in Session |-> Status(t)][s] = "running"
                  THEN DOMAIN [p \in DOMAIN pages |-> pages[p].data] ELSE {}]
  BY <1>1, <1>2, TaskStepFacts DEF SameSession
<1>4. [t \in Session |-> Status(t)'] = [t \in Session |-> Status(t)]
  BY TaskStepFacts
<1>5. Synced!Observe
  BY ObserveMaps
<1>6. /\ [p \in DOMAIN pages' |-> pages'[p].data]
           = [p \in DOMAIN pages |-> pages[p].data]
      /\ file' = file /\ writes' = writes
  BY DEF TaskStep
<1>7. Synced!Handshake(s)
  BY <1>3, <1>4, <1>5, <1>6, TaskStepFacts, FitsMaps DEF Synced!Handshake
<1>8. QED
  BY <1>7 DEF Synced!Next

\* The page of a push arrives.
LEMMA StoreMaps ==
  ASSUME Observe, NEW s \in Session, TaskStep(s),
         Fits(s), Command[s] = "push",
         NEW p \in PageNo, NEW d \in Content,
         pages' = put_page(pages, p, d, page_hash(d)),
         <<p, d>> \in inFile[s],
         \A q \in 1 .. p - 1 : q \in DOMAIN pages
  PROVE  Synced!Next
<1> DEFINE st  == [q \in DOMAIN pages |-> pages[q].data]
           st2 == [q \in DOMAIN pages' |-> pages'[q].data]
<1>1. SameSession(s)
  BY TodoKept
<1>2. /\ [t \in Session |-> Status(t)'] = [t \in Session |-> Status(t)]
      /\ [t \in Session |-> Todo(t)'] = [t \in Session |-> Todo(t)]
  BY <1>1, TaskStepFacts DEF SameSession
<1>3. Synced!Observe
  BY ObserveMaps
<1>4. st2 = Synced!Overlay(st, [q \in {p} |-> d])
  BY DEF Synced!Overlay, put_page
<1>5. \A q \in PageNo : q < p => q \in DOMAIN st
  BY LastPageAssumption DEF PageNo
<1>6. file' = file /\ writes' = writes
  BY DEF TaskStep
<1>7. Synced!StorePage(s, p, d)
  BY <1>2, <1>3, <1>4, <1>5, <1>6, TaskStepFacts, FitsMaps
     DEF Synced!StorePage
<1>8. QED
  BY <1>7 DEF Synced!Next

LEMMA SettlesAtTaskStep ==
  ASSUME TypeOK, NEW s \in Session, task[s] = "open",
         NEW o, NEW unread, NEW tk2, NEW up2, NEW out,
         Settles(o, unread, tk2, up2, out), SettlesAt(s, o, tk2, up2, out),
         fsm'[s].direction = fsm[s].direction
  PROVE  TaskStep(s)
<1>1. tk2 \in {"open", "closed"}
  BY DEF Settles
<1>2. QED
  BY <1>1, SettlesAtFacts DEF TaskStep

LEMMA ApplyMaps ==
  ASSUME HIInv, Observe, NEW s \in Session,
         task[s] = "open", Idle(fsm[s]), c2s[s] # <<>>,
         NEW o \in apply(fsm[s], pages, Head(c2s[s])),
         TaskStep(s), fsm'[s] = o.fsm, pages' = o.pages
  PROVE  Synced!Next
<1> DEFINE dir == fsm[s].direction
           tk  == task[s]
           f   == fsm[s]
           c   == cli[s]
           up  == c2s[s]
           down == s2c[s]
           m   == Head(up)
           D   == DOMAIN pages
           F   == DOMAIN file[Owner[s]]
<1>1. /\ Typed(dir, tk, f, c, up, down)
      /\ pages \in Pages /\ IsPrefix1(D)
      /\ Linked(dir, tk, f, c, up, down, D, F)
      /\ tk = "open" /\ Idle(f) /\ up # <<>> /\ o \in apply(f, pages, m)
      /\ dir \in Direction /\ up \in Seq(ClientFrame)
  BY SessionFacts DEF HIInv, LinkedAt, Typed
<1>2. TakenFrom(inFile[s], m)
  <2>1. Taken(up, inFile[s])
    BY DEF HIInv, HonestAt, Honest
  <2>2. QED
    BY <1>1, <2>1, TakenFacts
<1>3. m = Head(up)
  OBVIOUS
<1> HIDE DEF dir, tk, f, c, up, down, m, D, F
<1>4. /\ f \in Fsm /\ f.direction = dir /\ f.rest = <<>> /\ f.cursor = 0
      /\ ~f.emitted_complete
      /\ m \in ClientFrame
      /\ m.kind \in {"Hello", "Complete", "PageHash", "PageData"}
      /\ m.kind = "Hello" <=> ~f.saw_hello
      /\ ~f.saw_hello => f = new(dir)
  BY <1>1, <1>3, ArrivalFacts, Z3
<1>5. \/ o.pages = pages
      \/ /\ IsData(m)
         /\ o.pages = put_page(pages, m.page_no, m.data, page_hash(m.data))
  BY <1>1, <1>4, PagesAfterApply
<1>6. ASSUME SameSession(s), pages' = pages
      PROVE  Synced!Next
  BY <1>6, ClosingMaps
<1>7. CASE m.kind = "Hello"
  <2>1. o \in handle_hello(new(dir), pages, m) /\ ~f.saw_hello
    BY <1>1, <1>4, <1>7 DEF apply
  <2>2. \/ o.res # "ok" /\ o.fsm.server_max_page = 0
        \/ Greets(pages, o.fsm)
    BY <1>1, <2>1, HelloOutcome
  <2>3. pages' = pages
    BY <1>5, <1>7 DEF IsData
  <2>4. CASE ~Active(s) \/ ~Fits(s) \/ Command[s] = "push"
    <3>1. SameSession(s)
      BY <2>4, TodoKept
    <3>2. QED
      BY <1>6, <2>3, <3>1
  <2>5. CASE /\ Active(s) /\ Fits(s) /\ Command[s] = "pull"
             /\ Greets(pages, o.fsm)
    BY <1>1, <2>3, <2>5, HandshakeMaps DEF D
  <2>6. CASE /\ Active(s) /\ Fits(s) /\ Command[s] = "pull"
             /\ o.fsm.server_max_page = 0
    <3>1. Active(s)' /\ Fits(s)' /\ fsm'[s].direction = fsm[s].direction
      BY <2>6, TaskStepFacts DEF TaskStep, Fits
    <3>2. Todo(s) = {}
      BY <2>1, <2>6 DEF Todo, f
    <3>3. fsm'[s].server_max_page = 0
      BY <2>6
    <3>4. Todo(s)' = {}
      BY <2>6, <3>1, <3>3 DEF Todo
    <3>5. SameSession(s)
      BY <3>1, <3>2, <3>4, TaskStepFacts DEF SameSession
    <3>6. QED
      BY <1>6, <2>3, <3>5
  <2>7. QED
    BY <2>2, <2>4, <2>5, <2>6, SystemAssumption DEF Direction
<1>8. CASE m.kind = "PageData"
  <2>1. IsData(m) /\ f.saw_hello
    BY <1>4, <1>8 DEF IsData
  <2>2. /\ dir = "push" /\ m.page_no \in PageNo
        /\ \A q \in 1 .. m.page_no - 1 : q \in D
    BY <1>1, <1>3, <2>1, StoredFacts
  <2> DEFINE push == Fits(s) /\ Command[s] = "push"
  <2>3. push
    <3>1. 1 \in DOMAIN up /\ up[1] = m
      BY <1>1, <1>3, TailFacts
    <3>2. ServesNone(s)
      BY DEF HIInv
    <3>3. Command[s] # "pull"
      BY <2>1, <3>1, <3>2 DEF ServesNone, up
    <3>4. QED
      BY <2>2, <3>3, SystemAssumption DEF Direction, Fits, dir
  <2>4. CASE o.pages = pages
    <3>1. SameSession(s)
      BY <2>3, TodoKept
    <3>2. QED
      BY <1>6, <2>4, <3>1
  <2>5. CASE o.pages = put_page(pages, m.page_no, m.data, page_hash(m.data))
    <3>1. m.data \in Content /\ <<m.page_no, m.data>> \in inFile[s]
      BY <1>2, <1>4, <1>8, <2>1, ClientFrames DEF TakenFrom
    <3>2. push /\ \A q \in 1 .. m.page_no - 1 : q \in DOMAIN pages
      BY <2>2, <2>3 DEF D
    <3>3. QED
      BY <2>2, <2>5, <3>1, <3>2, StoreMaps
  <2>6. QED
    BY <1>5, <2>4, <2>5
<1>9. CASE m.kind \in {"PageHash", "Complete"}
  <2>1. f.saw_hello /\ m.kind # "Hello"
    BY <1>4, <1>9
  <2>2. IF m.kind = "PageHash"
        THEN KeepsPromise(f, f.client_seen \cup {m.page_no}, o)
        ELSE KeepsPromise(f, f.client_seen, o)
    BY <1>1, <1>4, <2>1, ApplyKeeps
  <2>3. /\ o.fsm.saw_hello = f.saw_hello
        /\ o.fsm.server_max_page = f.server_max_page
    BY <2>2 DEF KeepsPromise
  <2>4. pages' = pages
    BY <1>5, <1>9 DEF IsData
  <2>5. SameSession(s)
    BY <2>3, TodoKept DEF f
  <2>6. QED
    BY <1>6, <2>4, <2>5
<1>10. QED
  BY <1>4, <1>7, <1>8, <1>9

\* A turn of the walk is nothing to SyncedDatabase, unless it is the last.
LEMMA ResumeMaps ==
  ASSUME HIInv, Observe, NEW s \in Session,
         task[s] = "open", ~Idle(fsm[s]),
         NEW o \in resume(fsm[s], pages),
         TaskStep(s), fsm'[s] = o.fsm, pages' = pages
  PROVE  Synced!Next
<1>1. fsm[s] \in Fsm /\ fsm[s].rest = <<>>
  BY DEF HIInv, IInv, TypeOK, LinkedAt, Linked, FsmOK
<1>2. KeepsPromise(fsm[s], fsm[s].client_seen, o)
  BY <1>1, ResumeKeeps
<1>3. SameSession(s)
  BY <1>1, <1>2, TodoKept DEF KeepsPromise
<1>4. QED
  BY <1>3, ClosingMaps

LEMMA ApplyRefines ==
  ASSUME HIInv, Observe, NEW s \in Session, Apply(s)
  PROVE  (\A t \in Session : HonestAt(t)') /\ Synced!Next
<1>1. TypeOK
  BY DEF HIInv, IInv
<1>2. task[s] = "open" /\ Idle(fsm[s]) /\ c2s[s] # <<>>
  BY <1>1, ApplySettlesAt
<1>3. PICK o \in apply(fsm[s], pages, Head(c2s[s])) : \E tk2, up2, out :
        /\ Settles(o, Tail(c2s[s]), tk2, up2, out)
        /\ SettlesAt(s, o, tk2, up2, out)
  BY <1>1, ApplySettlesAt
<1>4. PICK tk2, up2, out : /\ Settles(o, Tail(c2s[s]), tk2, up2, out)
                           /\ SettlesAt(s, o, tk2, up2, out)
  BY <1>3
<1>5. TaskStep(s)
  <2>1. IInv /\ [Next]_vars
    BY DEF HIInv, Next, ServerStep
  <2>2. QED
    BY <1>1, <1>2, <1>4, <2>1, TokensKept, SettlesAtTaskStep
<1>6. fsm'[s] = o.fsm /\ pages' = o.pages
  BY <1>1, <1>4, SettlesAtFacts
<1>7. Synced!Next
  BY <1>2, <1>5, <1>6, ApplyMaps
<1>8. \A t \in Session : HonestAt(t)'
  BY <1>2, <1>4, ApplyStaysHonest
<1>9. QED
  BY <1>7, <1>8

LEMMA ResumeRefines ==
  ASSUME HIInv, Observe, NEW s \in Session, ResumeApply(s)
  PROVE  (\A t \in Session : HonestAt(t)') /\ Synced!Next
<1>1. TypeOK
  BY DEF HIInv, IInv
<1>2. task[s] = "open" /\ ~Idle(fsm[s])
  BY <1>1, ResumeSettlesAt
<1>3. PICK o \in resume(fsm[s], pages) : \E tk2, up2, out :
        /\ Settles(o, c2s[s], tk2, up2, out)
        /\ SettlesAt(s, o, tk2, up2, out)
  BY <1>1, ResumeSettlesAt
<1>4. PICK tk2, up2, out : /\ Settles(o, c2s[s], tk2, up2, out)
                           /\ SettlesAt(s, o, tk2, up2, out)
  BY <1>3
<1>5. TaskStep(s)
  <2>1. IInv /\ [Next]_vars
    BY DEF HIInv, Next, ServerStep
  <2>2. QED
    BY <1>1, <1>2, <1>4, <2>1, TokensKept, SettlesAtTaskStep
<1>6. fsm'[s] = o.fsm /\ pages' = o.pages
  BY <1>1, <1>4, SettlesAtFacts
<1>7. o.pages = pages
  <2>1. fsm[s] \in Fsm /\ fsm[s].rest = <<>>
    BY DEF HIInv, IInv, TypeOK, LinkedAt, Linked, FsmOK
  <2>2. QED
    BY <1>2, <2>1, PagesAfterResume
<1>8. Synced!Next
  BY <1>2, <1>5, <1>6, <1>7, ResumeMaps
<1>9. \A t \in Session : HonestAt(t)'
  BY <1>2, <1>4, <1>7, ResumeStaysHonest
<1>10. QED
  BY <1>8, <1>9

-----------------------------------------------------------------------------
(* The invariant, and the refinement.                                      *)

LEMMA InitHIInv ==
  ASSUME HInit
  PROVE  HIInv
<1>1. Init
  BY DEF HInit
<1>2. IInv /\ RowsTrue(pages)
  BY <1>1, InitIInv, InitRowsTrue
<1>3. ASSUME NEW s \in Session
      PROVE  HonestAt(s)
  <2>1. task[s] = "none" /\ c2s[s] = <<>> /\ cli[s].pc = "idle"
    BY <1>1 DEF Init, Exit
  <2>2. ~Running(cli[s]) /\ Taken(c2s[s], inFile[s])
    BY <2>1, NoFrames DEF Running, Taken
  <2>3. QED
    BY <2>1, <2>2 DEF HonestAt, Honest
<1>4. ASSUME NEW s \in Session
      PROVE  Commanded(s) /\ ServesNone(s)
  <2>1. c2s[s] = <<>>
    BY <1>1 DEF Init
  <2>2. QED
    BY <1>1, <2>1, InitCommanded, NoFrames DEF ServesNone
<1>5. QED
  BY <1>2, <1>3, <1>4 DEF HIInv

\* Only a push in its drain sends pages.
LEMMA NextServesNone ==
  ASSUME HIInv, [Next]_vars, NEW s \in Session
  PROVE  ServesNone(s)'
<1> DEFINE None(up) == \A i \in DOMAIN up : ~IsData(up[i])
<1>1. /\ TypeOK /\ Commanded(s) /\ ServesNone(s)
      /\ c2s \in [Session -> Seq(ClientFrame)]
      /\ \A t \in Session : c2s[t] \in Seq(ClientFrame)
  BY DEF HIInv, IInv, TypeOK
<1>2. c2s'[s] = c2s[s] \/ c2s'[s] = <<>> => ServesNone(s)'
  BY <1>1, NoFrames DEF ServesNone
<1>3. ASSUME NEW t \in Session, NEW m, ~IsData(m), Send(t, m)
      PROVE  ServesNone(s)'
  <2>1. c2s'[s] = c2s[s] \/ c2s'[s] = Append(c2s[s], m)
    BY <1>1, <1>3 DEF Send
  <2>2. /\ DOMAIN Append(c2s[s], m) = DOMAIN c2s[s] \cup {Len(c2s[s]) + 1}
        /\ Append(c2s[s], m)[Len(c2s[s]) + 1] = m
        /\ \A i \in DOMAIN c2s[s] : Append(c2s[s], m)[i] = c2s[s][i]
    BY <1>1
  <2>3. None(c2s[s]) => None(Append(c2s[s], m))
    BY <1>3, <2>2
  <2>4. QED
    BY <1>1, <1>2, <2>1, <2>3 DEF ServesNone
<1>4. ASSUME NEW t \in Session, NEW o, NEW tk2, NEW up2, NEW out,
             SettlesAt(t, o, tk2, up2, out), c2s[t] # <<>> \/ up2 = c2s[t],
             up2 \in {<<>>, Tail(c2s[t]), c2s[t]}
      PROVE  ServesNone(s)'
  <2>1. c2s'[t] = up2 /\ (s # t => c2s'[s] = c2s[s])
    BY <1>1, <1>4, SettlesAtFacts
  <2>2. CASE s = t /\ up2 = Tail(c2s[s]) /\ c2s[s] # <<>>
    <3>1. /\ DOMAIN c2s[s] = 1 .. Len(c2s[s]) /\ Len(c2s[s]) \in Nat
          /\ DOMAIN Tail(c2s[s]) = 1 .. Len(c2s[s]) - 1
          /\ \A i \in 1 .. Len(c2s[s]) - 1 : Tail(c2s[s])[i] = c2s[s][i + 1]
      BY <1>1, <2>2, TailFacts
    <3>2. None(c2s[s]) => None(Tail(c2s[s]))
      BY <3>1
    <3>3. QED
      BY <1>1, <2>1, <2>2, <3>2 DEF ServesNone
  <2>3. QED
    BY <1>2, <1>4, <2>1, <2>2
<1>5. ASSUME NEW t \in Session, Apply(t) \/ ResumeApply(t)
      PROVE  ServesNone(s)'
  <2>1. CASE Apply(t)
    <3>1. PICK o, tk2, up2, out :
            /\ Settles(o, Tail(c2s[t]), tk2, up2, out)
            /\ SettlesAt(t, o, tk2, up2, out)
      BY <1>1, <2>1, ApplySettlesAt
    <3>2. up2 \in {<<>>, Tail(c2s[t])} /\ c2s[t] # <<>>
      BY <1>1, <2>1, <3>1, ApplySettlesAt DEF Settles
    <3>3. QED
      BY <1>4, <3>1, <3>2
  <2>2. CASE ResumeApply(t)
    <3>1. PICK o, tk2, up2, out :
            /\ Settles(o, c2s[t], tk2, up2, out)
            /\ SettlesAt(t, o, tk2, up2, out)
      BY <1>1, <2>2, ResumeSettlesAt
    <3>2. up2 \in {<<>>, c2s[t]}
      BY <3>1 DEF Settles
    <3>3. QED
      BY <1>4, <3>1, <3>2
  <2>3. QED
    BY <1>5, <2>1, <2>2
<1>6. ASSUME NEW t \in Session, ServePage(t)
      PROVE  ServesNone(s)'
  <2>1. CASE s = t
    BY <1>1, <1>6, <2>1 DEF ServePage, Commanded, ServesNone
  <2>2. CASE s # t
    BY <1>1, <1>2, <1>6, <2>2 DEF ServePage, Send
  <2>3. QED
    BY <2>1, <2>2
<1>7. ASSUME NEW t \in Session, SendHash(t) \/ SendComplete(t) \/ Start(t)
      PROVE  ServesNone(s)'
  <2>1. /\ ~IsData(Complete) /\ ~IsData(Hello(PROTOCOL_VERSION))
        /\ \A p, h : ~IsData(PageHash(p, h))
    BY FrameFields DEF IsData
  <2>2. QED
    BY <1>3, <1>7, <2>1 DEF SendHash, SendComplete, Start
<1>8. ASSUME NEW t \in Session, ClientFails(t)
      PROVE  ServesNone(s)'
  <2>1. PICK n \in 0 .. Len(c2s[t]) : c2s' = [c2s EXCEPT ![t] = SubSeq(@, 1, n)]
    BY <1>8 DEF ClientFails
  <2>2. CASE s = t
    <3>1. c2s'[s] = SubSeq(c2s[s], 1, n)
      BY <1>1, <2>1, <2>2
    <3>2. \A i \in DOMAIN c2s'[s] : i \in DOMAIN c2s[s] /\ c2s'[s][i] = c2s[s][i]
      BY <1>1, <2>1, <2>2, <3>1
    <3>3. QED
      BY <1>1, <3>2 DEF ServesNone
  <2>3. QED
    BY <1>1, <1>2, <2>1, <2>2
<1>9. ASSUME NEW t \in Session,
             \/ RecvHelloReply(t) \/ RecvRequest(t) \/ RecvPage(t)
             \/ RecvSyncComplete(t) \/ RecvOther(t) \/ RecvClosed(t)
             \/ PeerClose(t)
      PROVE  c2s' = c2s
  BY <1>9 DEF RecvHelloReply, RecvRequest, RecvPage, RecvSyncComplete,
     RecvOther, RecvClosed, PeerClose
<1>10. ASSUME NEW h \in Host, NEW p \in PageNo, NEW d \in Content,
              LocalWrite(h, p, d)
       PROVE  c2s' = c2s
  BY <1>10 DEF LocalWrite
<1>11. Restart \/ Finished \/ UNCHANGED vars =>
         c2s'[s] = c2s[s] \/ c2s'[s] = <<>>
  BY DEF Restart, Finished, vars
<1>12. ASSUME NEW t \in Session, ClientStep(t) \/ ServerStep(t)
       PROVE  ServesNone(s)'
  BY <1>2, <1>5, <1>6, <1>7, <1>9, <1>12 DEF ClientStep, ServerStep
<1>13. QED
  BY <1>2, <1>7, <1>8, <1>10, <1>11, <1>12 DEF Next

\* Every step of the system, watched, is one of SyncedDatabase.
LEMMA NextRefines ==
  ASSUME HIInv, Next, Observe
  PROVE  (\A t \in Session : HonestAt(t)') /\ Synced!Next
<1> DEFINE R == (\A t \in Session : HonestAt(t)') /\ Synced!Next
<1>1. ASSUME NEW s \in Session, ClientStep(s)
      PROVE  R
  BY <1>1, RecvHelloReplyHonest, SendHashHonest, SendCompleteHonest,
     RecvRequestHonest, ServePageHonest, RecvPageHonest,
     RecvSyncCompleteHonest, RecvFailsHonest DEF ClientStep
<1>2. ASSUME NEW s \in Session, ServerStep(s)
      PROVE  R
  BY <1>2, ApplyRefines, ResumeRefines, PeerCloseHonest DEF ServerStep
<1>3. ASSUME NEW s \in Session, Start(s) \/ ClientFails(s)
      PROVE  R
  BY <1>3, StartHonest, ClientFailsHonest
<1>4. ASSUME NEW h \in Host, NEW p \in PageNo, NEW d \in Content,
             LocalWrite(h, p, d)
      PROVE  R
  BY <1>4, LocalWriteHonest
<1>5. ASSUME Restart PROVE R
  BY <1>5, RestartHonest
<1>6. ASSUME Finished PROVE R
  <2>1. UNCHANGED <<pages, fsm, task, cli, c2s, s2c, file, writes>>
    BY <1>6 DEF Finished, vars
  <2>2. ASSUME NEW s \in Session
        PROVE  HonestAt(s)'
    <3>1. Active(s) \/ task[s] = "open" => Active(s)' \/ task'[s] = "open"
      BY <2>1 DEF Active
    <3>2. QED
      BY <2>1, <3>1, HonestNow DEF HonestAt
  <2>3. \A t \in Session : SameSession(t)
    BY <2>1, Untouched
  <2>4. /\ {} \in SUBSET Session
        /\ \A t \in Session : task'[t] = "open" <=> task[t] = "open" /\ t \notin {}
    BY <2>1
  <2>5. UNCHANGED <<pages, file, writes>>
    BY <2>1
  <2>6. Synced!Next
    BY <2>3, <2>4, <2>5, CloseMaps
  <2>7. QED
    BY <2>2, <2>6
<1> HIDE DEF R
<1>7. R
  BY <1>1, <1>2, <1>3, <1>4, <1>5, <1>6 DEF Next
<1>8. QED
  BY <1>7 DEF R

LEMMA NextHIInv ==
  ASSUME HIInv, [HNext]_hvars
  PROVE  HIInv'
<1>1. [Next]_vars
  BY DEF HNext, hvars
<1>2. IInv'
  BY <1>1, NextIInv DEF HIInv
<1>3. RowsTrue(pages')
  BY <1>1, NextRowsTrue DEF HIInv
<1>4. RowsTrue(pages)'
  BY <1>3 DEF RowsTrue
<1>5. \A s \in Session : HonestAt(s)'
  <2>1. CASE HNext
    BY <2>1, NextRefines DEF HNext
  <2>2. CASE UNCHANGED hvars
    <3>1. /\ UNCHANGED <<pages, fsm, task, cli, c2s, s2c>>
          /\ UNCHANGED <<inStore, inFile>>
      BY <2>2 DEF hvars, vars
    <3>2. \A s \in Session : HonestAt(s)
      BY DEF HIInv
    <3>3. QED
      BY <3>1, <3>2 DEF HonestAt
  <2>3. QED
    BY <2>1, <2>2
<1>6. \A s \in Session : Commanded(s)' /\ ServesNone(s)'
  BY <1>1, NextCommanded, NextServesNone DEF HIInv, IInv
<1>7. QED
  BY <1>2, <1>4, <1>5, <1>6 DEF HIInv

\* What is on its way is what the sending side had, and no page that the
\* object has dealt with is unsettled, whoever writes and whatever fails.
THEOREM HonestAlways == HSpec => []HIInv
<1>1. HInit => HIInv
  BY InitHIInv
<1>2. HIInv /\ [HNext]_hvars => HIInv'
  BY NextHIInv
<1>3. QED
  BY <1>1, <1>2, PTL DEF HSpec

\* Sync does no more than SyncedDatabase says: a push that ends well leaves
\* each of its pages with a value both sides had while it ran, a pull
\* commits at once what the object held, late frames store only what their
\* file had, and nothing else changes the table or a file.
THEOREM SyncRefines == HSpec => ImplementsSyncedDatabase
<1>1. HInit => Synced!Init
  BY InitMaps
<1>2. ASSUME HIInv, [HNext]_hvars
      PROVE  [Synced!Next]_(Synced!vars)
  <2>1. CASE HNext
    BY <1>2, <2>1, NextRefines DEF HNext
  <2>2. CASE UNCHANGED hvars
    <3>1. UNCHANGED <<pages, fsm, task, cli, file, writes, inStore, inFile>>
      BY <2>2 DEF hvars, vars
    <3>2. UNCHANGED Synced!vars
      BY <3>1 DEF Synced!vars, Status, Todo, Active, Ended, Fits
    <3>3. QED
      BY <3>2
  <2>3. QED
    BY <1>2, <2>1, <2>2
<1>3. QED
  BY <1>1, <1>2, HonestAlways, PTL DEF HSpec, ImplementsSyncedDatabase, Synced!Spec

-----------------------------------------------------------------------------
(* Sessions that ran alone.                                                *)

\* The client has been told of the handshake, or is about to be.
Welcomed(c, down) ==
  Syncing(c) \/ \E i \in DOMAIN down : down[i].kind = "HelloReply"

\* What the object held and no longer holds: only a push has replaced it,
\* with bytes of its file.
Replaced(dir, held, had, st) ==
  \A x \in held :
    \/ st[x[1]].data = x[2]
    \/ dir = "push" /\ <<x[1], st[x[1]].data>> \in had

\* The histories of a running session are those of pages that are still
\* there; and while it runs alone, nobody but a push itself changes the
\* table, so that what a pull was promised stays what the object has.
Undisturbed(s) ==
  /\ cli[s].pc = "idle" => inStore[s] = {} /\ inFile[s] = {}
  /\ Active(s) =>
       /\ \A x \in inFile[s] : x[1] \in DOMAIN file[Owner[s]]
       /\ \A x \in inStore[s] : x[1] \in DOMAIN pages
       /\ InFile(Owner[s]) \subseteq inFile[s]
  /\ Active(s) /\ alone[s] =>
       /\ Replaced(fsm[s].direction, inStore[s], inFile[s], pages)
       /\ fsm[s].direction = "pull" /\ Welcomed(cli[s], s2c[s]) =>
            fsm[s].saw_hello /\ is_max_page(pages, fsm[s].server_max_page)

\* Sessions are linked, rows true and what travels honest; and the histories
\* are what the present accounts for: no page that a running session has
\* seen is gone, and one that ran alone finds the object as it saw it, but
\* for what it has pushed itself.
XIInv ==
  /\ HIInv
  /\ \A s \in Session : Undisturbed(s)

\* What a step of SyncedDatabase does to the store and to the files.
Steady(s) ==
  \/ /\ DOMAIN pages' = DOMAIN pages
     /\ \A q \in DOMAIN pages : pages'[q].data = pages[q].data
  \/ /\ fsm[s].direction = "push"
     /\ \A q \in DOMAIN pages :
          \/ pages'[q].data = pages[q].data
          \/ <<q, pages'[q].data>> \in inFile[s]

LEMMA StoreSteps ==
  ASSUME Synced!Next
  PROVE  LET st == [p \in DOMAIN pages |-> pages[p].data]
         IN  \/ [p \in DOMAIN pages' |-> pages'[p].data] = st
             \/ \E t \in Session : \E p, d :
                  /\ task[t] = "open" /\ fsm[t].direction = "push" /\ <<p, d>> \in inFile[t]
                  /\ [q \in DOMAIN pages' |-> pages'[q].data]
                       = Synced!Overlay(st, [q \in {p} |-> d])
<1> DEFINE st == [p \in DOMAIN pages |-> pages[p].data]
           st2 == [p \in DOMAIN pages' |-> pages'[p].data]
           Arrives(t, p, d) ==
             /\ task[t] = "open" /\ fsm[t].direction = "push" /\ <<p, d>> \in inFile[t]
             /\ st2 = Synced!Overlay(st, [q \in {p} |-> d])
           R == st2 = st \/ \E t \in Session : \E p, d : Arrives(t, p, d)
<1>1. ASSUME NEW S \in SUBSET Session, Synced!Close(S) PROVE R
  BY <1>1 DEF Synced!Close
<1>2. ASSUME NEW s \in Session,
             \/ Synced!Begin(s) \/ Synced!Handshake(s) \/ Synced!FinishPush(s)
             \/ Synced!CommitPull(s) \/ Synced!FinishUnfit(s) \/ Synced!Fail(s)
      PROVE  R
  BY <1>2 DEF Synced!Begin, Synced!Handshake, Synced!FinishPush,
     Synced!CommitPull, Synced!FinishUnfit, Synced!Fail
<1>3. ASSUME NEW s \in Session, NEW p \in PageNo, NEW d \in Content,
             Synced!StorePage(s, p, d)
      PROVE  R
  <2>1. /\ s \in {t \in Session : task[t] = "open"} /\ fsm[s].direction = "push"
        /\ <<p, d>> \in inFile[s]
        /\ st2 = Synced!Overlay(st, [q \in {p} |-> d])
    BY <1>3, FitsMaps DEF Synced!StorePage, Fits
  <2>2. Arrives(s, p, d)
    BY <2>1
  <2> HIDE DEF Arrives
  <2>3. QED
    BY <2>2
<1>4. ASSUME NEW h \in Host, NEW p \in PageNo, NEW d \in Content,
             Synced!LocalWrite(h, p, d)
      PROVE  R
  BY <1>4 DEF Synced!LocalWrite
<1> HIDE DEF R
<1>5. R
  BY <1>1, <1>2, <1>3, <1>4 DEF Synced!Next
<1>6. QED
  BY <1>5 DEF R, Arrives, st, st2

LEMMA FileSteps ==
  ASSUME Synced!Next, file \in [Host -> LocalFile], Owner \in [Session -> Host]
  PROVE  \A h \in Host : DOMAIN file[h] \subseteq DOMAIN file'[h]
<1> DEFINE R == \A h \in Host : DOMAIN file[h] \subseteq DOMAIN file'[h]
<1>1. ASSUME NEW S \in SUBSET Session, Synced!Close(S) PROVE R
  BY <1>1 DEF Synced!Close
<1>2. ASSUME NEW s \in Session,
             \/ Synced!Begin(s) \/ Synced!Handshake(s) \/ Synced!FinishPush(s)
             \/ Synced!FinishUnfit(s) \/ Synced!Fail(s)
      PROVE  R
  BY <1>2 DEF Synced!Begin, Synced!Handshake, Synced!FinishPush,
     Synced!FinishUnfit, Synced!Fail
<1>3. ASSUME NEW s \in Session, NEW p \in PageNo, NEW d \in Content,
             Synced!StorePage(s, p, d)
      PROVE  R
  BY <1>3 DEF Synced!StorePage
<1>4. ASSUME NEW h \in Host, NEW got,
             file' = [file EXCEPT ![h] = Synced!Overlay(@, got)]
      PROVE  R
  <2>1. DOMAIN Synced!Overlay(file[h], got) = DOMAIN file[h] \cup DOMAIN got
    BY DEF Synced!Overlay
  <2>2. QED
    BY <1>4, <2>1
<1>5. ASSUME NEW s \in Session, Synced!CommitPull(s) PROVE R
  <2>1. PICK got : file' = [file EXCEPT ![Owner[s]] = Synced!Overlay(@, got)]
    BY <1>5 DEF Synced!CommitPull
  <2>2. QED
    BY <1>4, <2>1
<1>6. ASSUME NEW h \in Host, NEW p \in PageNo, NEW d \in Content,
             Synced!LocalWrite(h, p, d)
      PROVE  R
  BY <1>4, <1>6 DEF Synced!LocalWrite
<1> HIDE DEF R
<1>7. R
  BY <1>1, <1>2, <1>3, <1>5, <1>6 DEF Synced!Next
<1>8. QED
  BY <1>7 DEF R

LEMMA SteadyStep ==
  ASSUME HIInv, Next, Observe
  PROVE  /\ DOMAIN pages \subseteq DOMAIN pages'
         /\ \A h \in Host : DOMAIN file[h] \subseteq DOMAIN file'[h]
         /\ \A s \in Session : NobodyElse(s) => Steady(s)
<1> DEFINE st == [p \in DOMAIN pages |-> pages[p].data]
           st2 == [p \in DOMAIN pages' |-> pages'[p].data]
<1>1. Synced!Next
  BY NextRefines
<1>2. \A h \in Host : DOMAIN file[h] \subseteq DOMAIN file'[h]
  BY <1>1, FileSteps, SystemAssumption DEF HIInv, IInv, TypeOK
<1>3. /\ DOMAIN st = DOMAIN pages /\ \A q \in DOMAIN pages : st[q] = pages[q].data
      /\ DOMAIN st2 = DOMAIN pages'
      /\ \A q \in DOMAIN pages' : st2[q] = pages'[q].data
  OBVIOUS
<1>4. \/ st2 = st
      \/ \E t \in Session : \E p, d :
           /\ task[t] = "open" /\ fsm[t].direction = "push" /\ <<p, d>> \in inFile[t]
           /\ st2 = Synced!Overlay(st, [q \in {p} |-> d])
  BY <1>1, StoreSteps
<1> HIDE DEF st, st2
<1>5. CASE st2 = st
  BY <1>2, <1>3, <1>5 DEF Steady
<1>6. ASSUME NEW t \in Session, NEW p, NEW d,
             task[t] = "open", fsm[t].direction = "push", <<p, d>> \in inFile[t],
             st2 = Synced!Overlay(st, [q \in {p} |-> d])
      PROVE  /\ DOMAIN pages \subseteq DOMAIN pages'
             /\ \A s \in Session : NobodyElse(s) => Steady(s)
  <2>1. /\ DOMAIN st2 = DOMAIN st \cup {p} /\ st2[p] = d
        /\ \A q \in DOMAIN st : q # p => st2[q] = st[q]
    BY <1>6 DEF Synced!Overlay
  <2>2. \A q \in DOMAIN pages :
          q # p => pages'[q].data = pages[q].data
    BY <1>3, <2>1
  <2>3. \A q \in DOMAIN pages : q = p => pages'[q].data = d
    BY <1>3, <2>1
  <2>4. \A s \in Session : NobodyElse(s) => s = t
    BY <1>6 DEF NobodyElse
  <2>5. Steady(t)
    BY <1>6, <2>2, <2>3 DEF Steady
  <2>6. QED
    BY <1>3, <2>1, <2>4, <2>5
<1>7. QED
  BY <1>2, <1>4, <1>5, <1>6

\* A client is told of a handshake that promised it what the object has, or
\* it was told before and the promise stands.
Told(s) ==
  \/ fsm'[s].saw_hello /\ is_max_page(pages, fsm'[s].server_max_page)
  \/ /\ Welcomed(cli[s], s2c[s])
     /\ fsm[s].saw_hello =>
          /\ fsm'[s].saw_hello
          /\ fsm'[s].server_max_page = fsm[s].server_max_page

\* No step of a client welcomes it, nor does one of the world around it.
LEMMA ClientWelcome ==
  ASSUME TypeOK, NEW t \in Session,
         Start(t) \/ ClientStep(t) \/ ClientFails(t),
         NEW s \in Session, Active(s), Active(s)',
         Welcomed(cli'[s], s2c'[s])
  PROVE  Welcomed(cli[s], s2c[s]) /\ fsm' = fsm
<1>1. ASSUME RecvHelloReply(t)
      PROVE  /\ Arrived(t, "HelloReply") /\ fsm' = fsm
             /\ s # t => cli'[s] = cli[s] /\ s2c'[s] = s2c[s]
  BY <1>1 DEF RecvHelloReply, TypeOK, Consume, server
<1>2. ASSUME \/ SendHash(t) \/ SendComplete(t) \/ RecvRequest(t)
             \/ ServePage(t) \/ RecvPage(t) \/ RecvSyncComplete(t)
      PROVE  /\ Syncing(cli[t]) /\ fsm' = fsm
             /\ s # t => cli'[s] = cli[s] /\ s2c'[s] = s2c[s]
  BY <1>2 DEF SendHash, SendComplete, RecvRequest, ServePage, RecvPage,
     RecvSyncComplete, PushReads, TypeOK, Consume, server, Syncing
<1>3. ASSUME Fail(t)
      PROVE  /\ ~Active(t)' /\ fsm' = fsm
             /\ s # t => cli'[s] = cli[s] /\ s2c'[s] = s2c[s]
  BY <1>3 DEF Fail, TypeOK, Exit, Active, server
<1>4. ASSUME Start(t)
      PROVE  /\ ~Active(t) /\ fsm' = fsm
             /\ s # t => cli'[s] = cli[s] /\ s2c'[s] = s2c[s]
  BY <1>4 DEF Start, TypeOK, Active
<1>5. /\ fsm' = fsm
      /\ s # t => cli'[s] = cli[s] /\ s2c'[s] = s2c[s]
      /\ s = t => Arrived(s, "HelloReply") \/ Syncing(cli[s])
  BY <1>1, <1>2, <1>3, <1>4 DEF ClientStep, RecvOther, RecvClosed, ClientFails
<1>6. Arrived(s, "HelloReply") => Welcomed(cli[s], s2c[s])
  <2>1. s2c[s] \in Seq(ServerFrame)
    BY DEF TypeOK
  <2>2. s2c[s] # <<>> => 1 \in DOMAIN s2c[s] /\ Head(s2c[s]) = s2c[s][1]
    BY <2>1, TailFacts
  <2>3. QED
    BY <2>2 DEF Arrived, Welcomed
<1>7. QED
  BY <1>5, <1>6 DEF Welcomed

\* A client that waits for its reply, while its task listens, is about to be
\* greeted or has been sent it.
LEMMA WaitsForReply ==
  ASSUME HIInv, NEW s \in Session, Active(s), task[s] = "open"
  PROVE  /\ Welcomed(cli[s], s2c[s]) \/ ~fsm[s].saw_hello
         /\ fsm[s].saw_hello /\ ~Syncing(cli[s]) => c2s[s] = <<>>
<1>1. cli[s].pc = "hello" \/ Syncing(cli[s])
  BY DEF Active, Syncing
<1>2. CASE cli[s].pc = "hello" /\ fsm[s].saw_hello
  <2>1. c2s[s] = <<>> /\ \E m \in 0 .. LastPage : s2c[s] = <<HelloReply(m)>>
    BY <1>2 DEF HIInv, IInv, LinkedAt, Linked, Greeting
  <2>2. PICK m : s2c[s] = <<HelloReply(m)>>
    BY <2>1
  <2>3. 1 \in DOMAIN s2c[s] /\ s2c[s][1] = HelloReply(m)
    BY <2>2
  <2>4. s2c[s][1].kind = "HelloReply"
    BY <2>3, FrameFields
  <2>5. QED
    BY <2>1, <2>3, <2>4 DEF Welcomed
<1>3. QED
  BY <1>1, <1>2 DEF Welcomed

LEMMA ApplyWelcome ==
  ASSUME HIInv, NEW s \in Session, Active(s), Apply(s),
         Welcomed(cli'[s], s2c'[s])
  PROVE  Told(s)
<1> DEFINE f == fsm[s]
           m == Head(c2s[s])
<1>1. TypeOK
  BY DEF HIInv, IInv
<1>2. task[s] = "open" /\ Idle(f) /\ c2s[s] # <<>>
  BY <1>1, ApplySettlesAt
<1>3. PICK o \in apply(f, pages, m) : \E tk2, up2, out :
        /\ Settles(o, Tail(c2s[s]), tk2, up2, out)
        /\ SettlesAt(s, o, tk2, up2, out)
  BY <1>1, ApplySettlesAt
<1>4. PICK tk2, up2, out : /\ Settles(o, Tail(c2s[s]), tk2, up2, out)
                           /\ SettlesAt(s, o, tk2, up2, out)
  BY <1>3
<1>5. /\ fsm'[s] = o.fsm /\ cli'[s] = cli[s]
      /\ s2c'[s] = Sent(cli[s], s2c[s], out)
  BY <1>1, <1>4, SettlesAtFacts
<1>6. /\ Typed(fsm[s].direction, task[s], f, cli[s], c2s[s], s2c[s])
      /\ pages \in Pages
      /\ Linked(fsm[s].direction, task[s], f, cli[s], c2s[s], s2c[s],
                DOMAIN pages, DOMAIN file[Owner[s]])
      /\ fsm[s].direction \in Direction
  BY SessionFacts DEF HIInv, LinkedAt, Typed
<1>7. m = Head(c2s[s])
  OBVIOUS
<1> HIDE DEF f, m
<1>8. /\ f \in Fsm /\ m \in ClientFrame
      /\ m.kind = "Hello" <=> ~f.saw_hello
      /\ ~f.saw_hello => f = new(fsm[s].direction)
  BY <1>2, <1>3, <1>6, <1>7, ArrivalFacts, Z3
<1>9. CASE f.saw_hello
  <2>1. \/ KeepsPromise(f, f.client_seen \cup {m.page_no}, o)
        \/ KeepsPromise(f, f.client_seen, o)
    BY <1>3, <1>8, <1>9, ApplyKeeps
  <2>2. /\ fsm'[s].saw_hello
        /\ fsm'[s].server_max_page = f.server_max_page
    BY <1>5, <1>9, <2>1 DEF KeepsPromise
  <2>3. Welcomed(cli[s], s2c[s])
    BY <1>2, <1>9, WaitsForReply DEF f
  <2>4. QED
    BY <2>2, <2>3 DEF Told, f
<1>10. CASE ~f.saw_hello
  <2>1. o \in handle_hello(new(fsm[s].direction), pages, m)
    BY <1>3, <1>8, <1>10 DEF apply
  <2>2. \/ o.res = "err" /\ o.fsm.server_max_page = 0
        \/ Greets(pages, o.fsm)
    BY <1>6, <2>1, HelloOutcome
  <2>3. CASE Greets(pages, o.fsm)
    BY <1>5, <2>3 DEF Told, Greets
  <2>4. CASE Syncing(cli[s])
    BY <1>10, <2>4 DEF Told, Welcomed, f
  <2>5. CASE o.res = "err" /\ ~Syncing(cli[s])
    <3>1. cli[s].pc = "hello" /\ s2c[s] = <<>>
      BY <1>2, <1>6, <1>10, <2>5 DEF Active, Syncing, Linked, Greeting, f
    <3>2. out = <<>> \/ out = <<Error>>
      BY <1>4, <2>5 DEF Settles
    <3>3. s2c'[s] = s2c[s] \o out
      BY <1>5, <3>1 DEF Sent, Running
    <3>4. s2c'[s] = <<>> \/ s2c'[s] = <<Error>>
      BY <3>1, <3>2, <3>3
    <3>5. \A i \in DOMAIN s2c'[s] : s2c'[s][i].kind # "HelloReply"
      BY <3>4, NoFrames DEF Error
    <3>6. QED
      BY <1>5, <2>5, <3>5 DEF Welcomed
  <2>6. QED
    BY <2>2, <2>3, <2>4, <2>5
<1>11. QED
  BY <1>9, <1>10

LEMMA ResumeWelcome ==
  ASSUME HIInv, NEW s \in Session, Active(s), ResumeApply(s)
  PROVE  Told(s)
<1>1. TypeOK
  BY DEF HIInv, IInv
<1>2. task[s] = "open" /\ ~Idle(fsm[s])
  BY <1>1, ResumeSettlesAt
<1>3. PICK o \in resume(fsm[s], pages) : \E tk2, up2, out :
        SettlesAt(s, o, tk2, up2, out)
  BY <1>1, ResumeSettlesAt
<1>4. fsm'[s] = o.fsm
  BY <1>1, <1>3, SettlesAtFacts
<1>5. /\ fsm[s] \in Fsm /\ fsm[s].rest = <<>>
      /\ ~fsm[s].saw_hello => fsm[s] = new(fsm[s].direction)
  BY <1>1, <1>2 DEF HIInv, IInv, TypeOK, LinkedAt, Linked, FsmOK
<1>6. KeepsPromise(fsm[s], fsm[s].client_seen, o)
  BY <1>2, <1>5, ResumeKeeps
<1>7. fsm[s].saw_hello
  BY <1>2, <1>5 DEF new, Idle
<1>8. Welcomed(cli[s], s2c[s])
  BY <1>2, <1>7, WaitsForReply
<1>9. QED
  BY <1>4, <1>6, <1>8 DEF Told, KeepsPromise

LEMMA ServerWelcome ==
  ASSUME HIInv, NEW t \in Session, ServerStep(t),
         NEW s \in Session, Active(s), Welcomed(cli'[s], s2c'[s])
  PROVE  Told(s)
<1>1. TypeOK
  BY DEF HIInv, IInv
<1>2. CASE s = t
  <2>1. ~PeerClose(s)
    BY DEF PeerClose, Ended, Active
  <2>2. QED
    BY <1>2, <2>1, ApplyWelcome, ResumeWelcome DEF ServerStep
<1>3. CASE s # t
  <2>1. ASSUME Apply(t)
        PROVE  fsm'[s] = fsm[s] /\ cli'[s] = cli[s] /\ s2c'[s] = s2c[s]
    <3>1. PICK o, tk2, up2, out : SettlesAt(t, o, tk2, up2, out)
      BY <1>1, <2>1, ApplySettlesAt
    <3>2. QED
      BY <1>1, <1>3, <3>1, SettlesAtFacts
  <2>2. ASSUME ResumeApply(t)
        PROVE  fsm'[s] = fsm[s] /\ cli'[s] = cli[s] /\ s2c'[s] = s2c[s]
    <3>1. PICK o, tk2, up2, out : SettlesAt(t, o, tk2, up2, out)
      BY <1>1, <2>2, ResumeSettlesAt
    <3>2. QED
      BY <1>1, <1>3, <3>1, SettlesAtFacts
  <2>3. ASSUME PeerClose(t)
        PROVE  fsm'[s] = fsm[s] /\ cli'[s] = cli[s] /\ s2c'[s] = s2c[s]
    BY <1>1, <1>3, <2>3 DEF PeerClose, TypeOK
  <2>4. fsm'[s] = fsm[s] /\ Welcomed(cli[s], s2c[s])
    BY <2>1, <2>2, <2>3 DEF ServerStep
  <2>5. QED
    BY <2>4 DEF Told
<1>4. QED
  BY <1>2, <1>3

LEMMA WelcomeStep ==
  ASSUME HIInv, Next, NEW s \in Session, Active(s), Active(s)',
         Welcomed(cli'[s], s2c'[s])
  PROVE  Told(s)
<1> DEFINE Same == fsm' = fsm /\ Welcomed(cli[s], s2c[s])
<1>1. TypeOK
  BY DEF HIInv, IInv
<1>2. ASSUME NEW t \in Session, Start(t) \/ ClientStep(t) \/ ClientFails(t)
      PROVE  Same
  BY <1>1, <1>2, ClientWelcome
<1>3. ASSUME NEW t \in Session, ServerStep(t)
      PROVE  Told(s)
  BY <1>3, ServerWelcome
<1>4. ASSUME NEW h \in Host, NEW p \in PageNo, NEW d \in Content,
             LocalWrite(h, p, d)
      PROVE  Same
  BY <1>4 DEF LocalWrite, server
<1>5. ASSUME Restart PROVE Same
  BY <1>5 DEF Restart
<1>6. ASSUME Finished PROVE Same
  BY <1>6 DEF Finished, vars
<1>7. Same => Told(s)
  BY DEF Told
<1> HIDE DEF Same
<1>8. QED
  BY <1>2, <1>3, <1>4, <1>5, <1>6, <1>7 DEF Next

\* Only Start sets a process going.
LEMMA OnlyStart ==
  ASSUME TypeOK, Next, NEW s \in Session, ~Active(s), Active(s)'
  PROVE  Start(s)
<1>1. ASSUME NEW t \in Session, ClientStep(t)
      PROVE  Active(t) /\ (s # t => cli'[s] = cli[s])
  <2>1. ASSUME RecvOther(t) \/ RecvClosed(t)
        PROVE  Active(t) /\ (s # t => cli'[s] = cli[s])
    BY <2>1 DEF RecvOther, RecvClosed, Reads, PushReads, Active, Fail, TypeOK
  <2>2. ASSUME \/ RecvHelloReply(t) \/ SendHash(t) \/ SendComplete(t)
               \/ RecvRequest(t) \/ ServePage(t) \/ RecvPage(t)
               \/ RecvSyncComplete(t)
        PROVE  Active(t) /\ (s # t => cli'[s] = cli[s])
    BY <2>2 DEF RecvHelloReply, SendHash, SendComplete, RecvRequest,
       ServePage, RecvPage, RecvSyncComplete, PushReads, Active, TypeOK
  <2>3. QED
    BY <1>1, <2>1, <2>2 DEF ClientStep
<1>2. ASSUME NEW t \in Session, ClientFails(t)
      PROVE  Active(t) /\ (s # t => cli'[s] = cli[s])
  BY <1>2 DEF ClientFails, Fail, TypeOK
<1>3. ASSUME NEW t \in Session, ServerStep(t)
      PROVE  cli' = cli
  BY <1>3 DEF ServerStep, Apply, ResumeApply, PeerClose
<1>4. ASSUME NEW t \in Session, Start(t)
      PROVE  s # t => cli'[s] = cli[s]
  BY <1>4 DEF Start, TypeOK
<1>5. ASSUME NEW h \in Host, NEW p \in PageNo, NEW d \in Content,
             LocalWrite(h, p, d)
      PROVE  cli' = cli
  BY <1>5 DEF LocalWrite
<1>6. Restart \/ Finished => cli' = cli
  BY DEF Restart, Finished, vars
<1>7. cli'[s] # cli[s]
  BY DEF Active
<1>8. QED
  BY <1>1, <1>2, <1>3, <1>4, <1>5, <1>6, <1>7 DEF Next

\* The file and the table as Start finds them.
LEMMA StartUndisturbed ==
  ASSUME XIInv, Observe, NEW s \in Session, Start(s)
  PROVE  Undisturbed(s)'
<1>1. /\ cli[s].pc = "idle" /\ inStore[s] = {} /\ inFile[s] = {}
      /\ TypeOK /\ Owner[s] \in Host
  BY SystemAssumption DEF Start, XIInv, HIInv, IInv, Undisturbed
<1>2. s2c[s] = <<>>
  BY <1>1 DEF XIInv, HIInv, IInv, LinkedAt, Linked, ClientOK, Running
<1>3. /\ cli'[s].pc = "hello" /\ s2c'[s] = <<>>
      /\ UNCHANGED <<pages, file, fsm>>
  BY <1>1, <1>2 DEF Start, TypeOK
<1>4. Active(s)'
  BY <1>3 DEF Active
<1>5. inStore'[s] = InStore /\ inFile'[s] = InFile(Owner[s])
  BY <1>1, <1>3, <1>4 DEF Observe, Recorded, InStore, InFile
<1>6. ~Welcomed(cli'[s], s2c'[s])
  BY <1>3, NoFrames DEF Welcomed, Syncing
<1>7. /\ \A x \in inFile'[s] : x[1] \in DOMAIN file'[Owner[s]]
      /\ InFile(Owner[s])' \subseteq inFile'[s]
  BY <1>3, <1>5 DEF InFile
<1>8. /\ \A x \in inStore'[s] : x[1] \in DOMAIN pages'
      /\ Replaced(fsm[s].direction, inStore'[s], inFile'[s], pages')
  BY <1>3, <1>5 DEF InStore, Replaced
<1>9. QED
  BY <1>3, <1>6, <1>7, <1>8 DEF Undisturbed, Replaced

\* A table with the same pages has the same last one.
LEMMA SameMaxPage ==
  ASSUME NEW st, NEW st2, DOMAIN st2 = DOMAIN st, NEW m, is_max_page(st, m)
  PROVE  is_max_page(st2, m)
BY DEF is_max_page

LEMMA GoesOnUndisturbed ==
  ASSUME XIInv, Next, Observe, NEW s \in Session, Active(s), Active(s)'
  PROVE  Undisturbed(s)'
<1>1. /\ HIInv /\ Undisturbed(s) /\ Owner[s] \in Host
      /\ fsm'[s].direction = fsm[s].direction
  BY SystemAssumption, TokensKept DEF XIInv, HIInv
<1>2. /\ inStore'[s] = inStore[s] \cup InStore \cup InStore'
      /\ inFile'[s] = inFile[s] \cup InFile(Owner[s]) \cup InFile(Owner[s])'
      /\ alone'[s] => alone[s] /\ NobodyElse(s)
  BY DEF Observe, Recorded
<1>3. /\ DOMAIN pages \subseteq DOMAIN pages'
      /\ DOMAIN file[Owner[s]] \subseteq DOMAIN file'[Owner[s]]
      /\ NobodyElse(s) => Steady(s)
  BY <1>1, SteadyStep
<1>4. cli'[s].pc # "idle"
  BY DEF Active
<1>5. /\ \A x \in inFile'[s] : x[1] \in DOMAIN file'[Owner[s]]
      /\ InFile(Owner[s])' \subseteq inFile'[s]
  BY <1>1, <1>2, <1>3 DEF Undisturbed, InFile
<1>6. \A x \in inStore'[s] : x[1] \in DOMAIN pages'
  BY <1>1, <1>2, <1>3 DEF Undisturbed, InStore
<1>7. ASSUME alone'[s]
      PROVE  Replaced(fsm[s].direction, inStore'[s], inFile'[s], pages')
  <2>1. Steady(s) /\ Replaced(fsm[s].direction, inStore[s], inFile[s], pages)
    BY <1>1, <1>2, <1>3, <1>7 DEF Undisturbed
  <2>2. Replaced(fsm[s].direction, inStore[s] \cup InStore, inFile[s], pages)
    BY <2>1 DEF Replaced, InStore
  <2>3. \A x \in inStore[s] \cup InStore : x[1] \in DOMAIN pages
    BY <1>1 DEF Undisturbed, InStore
  <2> DEFINE Good(x) ==
        \/ pages'[x[1]].data = x[2]
        \/ fsm[s].direction = "push" /\ <<x[1], pages'[x[1]].data>> \in inFile'[s]
  <2>4. ASSUME NEW x \in inStore[s] \cup InStore
        PROVE  Good(x)
    <3>1. x[1] \in DOMAIN pages
      BY <2>3
    <3>2. CASE pages'[x[1]].data = pages[x[1]].data
      BY <1>2, <2>2, <3>2 DEF Replaced
    <3>3. CASE pages'[x[1]].data # pages[x[1]].data
      BY <1>2, <2>1, <3>1, <3>3 DEF Steady
    <3>4. QED
      BY <3>2, <3>3
  <2>5. \A x \in InStore' : Good(x)
    BY DEF InStore
  <2> HIDE DEF Good
  <2>6. \A x \in inStore'[s] : Good(x)
    BY <1>2, <2>4, <2>5
  <2>7. QED
    BY <2>6, Zenon DEF Replaced, Good
<1>8. ASSUME alone'[s], fsm[s].direction = "pull", Welcomed(cli'[s], s2c'[s])
      PROVE  fsm'[s].saw_hello /\ is_max_page(pages', fsm'[s].server_max_page)
  <2>1. DOMAIN pages' = DOMAIN pages
    BY <1>2, <1>3, <1>8 DEF Steady
  <2>2. Told(s)
    BY <1>1, <1>8, WelcomeStep
  <2>3. fsm'[s].saw_hello /\ is_max_page(pages, fsm'[s].server_max_page)
    BY <1>1, <1>2, <1>8, <2>2 DEF Told, Undisturbed
  <2>4. QED
    BY <2>1, <2>3, SameMaxPage
<1>9. QED
  BY <1>1, <1>4, <1>5, <1>6, <1>7, <1>8 DEF Undisturbed, Replaced, is_max_page

LEMMA NextXIInv ==
  ASSUME XIInv, [HNext]_hvars
  PROVE  XIInv'
<1>1. HIInv'
  BY NextHIInv DEF XIInv
<1>2. ASSUME NEW s \in Session
      PROVE  Undisturbed(s)'
  <2>1. CASE HNext
    <3>1. Next /\ Observe /\ TypeOK
      BY <2>1 DEF HNext, XIInv, HIInv, IInv
    <3>2. CASE Active(s)'
      <4>1. CASE Active(s)
        BY <3>1, <3>2, <4>1, GoesOnUndisturbed
      <4>2. CASE ~Active(s)
        BY <3>1, <3>2, <4>2, OnlyStart, StartUndisturbed
      <4>3. QED
        BY <4>1, <4>2
    <3>3. CASE ~Active(s)'
      <4>1. cli'[s].pc = "idle" => task'[s] = "none"
        BY <1>1 DEF HIInv, IInv, LinkedAt, Linked, ClientOK
      <4>2. cli'[s].pc = "idle" => inStore'[s] = {} /\ inFile'[s] = {}
        BY <3>1, <3>3, <4>1 DEF Observe, Recorded
      <4>3. QED
        BY <3>3, <4>2 DEF Undisturbed
    <3>4. QED
      BY <3>2, <3>3
  <2>2. CASE UNCHANGED hvars
    <3>1. /\ UNCHANGED <<pages, fsm, cli, s2c, file>>
          /\ UNCHANGED <<inStore, inFile, alone>>
      BY <2>2 DEF hvars, vars
    <3>2. Undisturbed(s)
      BY DEF XIInv
    <3>3. Active(s)' = Active(s) /\ InFile(Owner[s])' = InFile(Owner[s])
      BY <3>1 DEF Active, InFile
    <3>4. QED
      BY <3>1, <3>2, <3>3 DEF Undisturbed, Replaced, is_max_page
  <2>3. QED
    BY <2>1, <2>2
<1>3. QED
  BY <1>1, <1>2 DEF XIInv

\* While a process runs and no other task is open, what the object held and
\* does not hold any more has been replaced by bytes of the pushed file, and
\* the last page promised to a pull is the last one the object has.
THEOREM AloneUndisturbed == HSpec => []XIInv
<1>1. ASSUME HInit
      PROVE  XIInv
  <2>1. HIInv
    BY <1>1, InitHIInv
  <2>2. ASSUME NEW s \in Session
        PROVE  Undisturbed(s)
    BY <1>1, <2>2 DEF HInit, Init, Undisturbed, Active, Exit
  <2>3. QED
    BY <2>1, <2>2 DEF XIInv
<1>2. XIInv /\ [HNext]_hvars => XIInv'
  BY NextXIInv
<1>3. QED
  BY <1>1, <1>2, PTL DEF HSpec

\* Only the last message ends a process well.
LEMMA OnlyCompleteSucceeds ==
  ASSUME TypeOK, Next, NEW s \in Session, Active(s), cli'[s].pc = "done"
  PROVE  RecvSyncComplete(s)
<1>1. cli[s].pc # "done"
  BY DEF Active
<1>2. ASSUME NEW t \in Session, Fail(t)
      PROVE  cli'[s].pc \in {cli[s].pc, "failed"}
  BY <1>2 DEF Fail, Exit, TypeOK
<1>3. ASSUME NEW t \in Session,
             \/ RecvHelloReply(t) \/ SendHash(t) \/ SendComplete(t)
             \/ RecvRequest(t) \/ ServePage(t) \/ RecvPage(t)
      PROVE  cli'[s].pc \in {cli[s].pc, "hash", "drain", "recv"}
  <2>1. CASE RecvHelloReply(t)
    BY <2>1 DEF RecvHelloReply, TypeOK, Cli
  <2>2. CASE SendHash(t) \/ SendComplete(t)
    <3>1. SendHash(t) => cli'[s].pc = cli[s].pc
      BY DEF SendHash, TypeOK, Cli
    <3>2. SendComplete(t) => cli'[s].pc \in {cli[s].pc, "drain", "recv"}
      BY DEF SendComplete, TypeOK, Cli
    <3>3. QED
      BY <2>2, <3>1, <3>2
  <2>3. CASE RecvRequest(t) \/ ServePage(t)
    <3>1. ASSUME NEW q, NEW n, cli' = [cli EXCEPT ![t].queue = q, ![t].count = n]
          PROVE  cli'[s].pc = cli[s].pc
      BY <3>1 DEF TypeOK, Cli
    <3>2. ASSUME NEW q, cli' = [cli EXCEPT ![t].queue = q]
          PROVE  cli'[s].pc = cli[s].pc
      BY <3>2 DEF TypeOK, Cli
    <3>3. QED
      BY <2>3, <3>1, <3>2 DEF RecvRequest, ServePage
  <2>4. CASE RecvPage(t)
    <3>1. ASSUME NEW x, NEW n, cli' = [cli EXCEPT ![t].txn = x, ![t].count = n]
          PROVE  cli'[s].pc = cli[s].pc
      BY <3>1 DEF TypeOK, Cli
    <3>2. QED
      BY <2>4, <3>1 DEF RecvPage
  <2>5. QED
    BY <1>3, <2>1, <2>2, <2>3, <2>4
<1>4. ASSUME NEW t \in Session, RecvSyncComplete(t), t # s
      PROVE  cli'[s].pc = cli[s].pc
  BY <1>4 DEF RecvSyncComplete, TypeOK
<1>5. ASSUME NEW t \in Session, ClientStep(t)
      PROVE  RecvSyncComplete(s)
  BY <1>1, <1>2, <1>3, <1>4, <1>5 DEF ClientStep, RecvOther, RecvClosed
<1>6. ASSUME NEW t \in Session, Start(t)
      PROVE  cli'[s].pc \in {cli[s].pc, "hello"}
  BY <1>6 DEF Start, TypeOK, Cli
<1>7. ASSUME NEW t \in Session, ServerStep(t)
      PROVE  cli' = cli
  BY <1>7 DEF ServerStep, Apply, ResumeApply, PeerClose
<1>8. ASSUME NEW h \in Host, NEW p \in PageNo, NEW d \in Content,
             LocalWrite(h, p, d)
      PROVE  cli' = cli
  BY <1>8 DEF LocalWrite
<1>9. Restart \/ Finished => cli' = cli
  BY DEF Restart, Finished, vars
<1>10. QED
  BY <1>1, <1>2, <1>5, <1>6, <1>7, <1>8, <1>9 DEF Next, ClientFails

\* A page of a quiet file that both sides have had is what the file has,
\* and the object too if nobody else was at work.
LEMMA MetIsNow ==
  ASSUME XIInv, NEW s \in Session, Active(s), alone[s], FileQuiet(s),
         NEW p, Met(inStore[s], inFile[s], p)
  PROVE  /\ p \in DOMAIN pages /\ p \in DOMAIN file[Owner[s]]
         /\ pages[p].data = file[Owner[s]][p]
<1>1. PICK d : <<p, d>> \in inFile[s] /\ <<p, d>> \in inStore[s]
  BY DEF Met
<1>2. /\ \A x \in inFile[s] : x[1] \in DOMAIN file[Owner[s]]
      /\ \A x \in inStore[s] : x[1] \in DOMAIN pages
      /\ InFile(Owner[s]) \subseteq inFile[s]
      /\ Replaced(fsm[s].direction, inStore[s], inFile[s], pages)
  BY DEF XIInv, Undisturbed
<1>3. p \in DOMAIN pages /\ p \in DOMAIN file[Owner[s]]
  BY <1>1, <1>2
<1>4. <<p, file[Owner[s]][p]>> \in inFile[s]
  BY <1>2, <1>3 DEF InFile
<1>5. \A e : <<p, e>> \in inFile[s] => e = d
  BY <1>1 DEF FileQuiet
<1>6. pages[p].data = d \/ <<p, pages[p].data>> \in inFile[s]
  BY <1>1, <1>2 DEF Replaced
<1>7. QED
  BY <1>3, <1>4, <1>5, <1>6

LEMMA PushStep ==
  ASSUME XIInv, Next, NEW s \in Session, Succeeds(s, "push"),
         alone[s], FileQuiet(s), NEW p \in 1 .. cli[s].max
  PROVE  p \in DOMAIN pages /\ pages[p].data = file[Owner[s]][p]
<1>1. IInv /\ HonestAt(s) /\ TypeOK /\ Active(s) /\ fsm[s].direction = "push"
  BY DEF XIInv, HIInv, IInv, Succeeds, Fits
<1>2. RecvSyncComplete(s)
  BY <1>1, OnlyCompleteSucceeds DEF Succeeds
<1>3. /\ DOMAIN cli[s].txn = {}
      /\ \A q \in Promised(fsm[s], cli[s]) :
           Met(inStore[s], inFile[s], q) \/ q \in DOMAIN cli[s].txn
  BY <1>1, <1>2, LastFrame
<1>4. Met(inStore[s], inFile[s], p)
  BY <1>1, <1>3 DEF Promised
<1>5. QED
  BY <1>1, <1>4, MetIsNow

LEMMA PullStep ==
  ASSUME XIInv, Next, NEW s \in Session, Succeeds(s, "pull"),
         alone[s], FileQuiet(s), NEW p \in DOMAIN pages
  PROVE  /\ p \in DOMAIN file'[Owner[s]]
         /\ file'[Owner[s]][p] = pages[p].data
<1> DEFINE h == Owner[s]
           txn == cli[s].txn
           m == fsm[s].server_max_page
<1>1. /\ IInv /\ HonestAt(s) /\ TypeOK /\ Active(s) /\ fsm[s].direction = "pull"
      /\ h \in Host
  BY SystemAssumption DEF XIInv, HIInv, IInv, Succeeds, Fits
<1>2. RecvSyncComplete(s)
  BY <1>1, OnlyCompleteSucceeds DEF Succeeds
<1>3. /\ Given(cli[s], s2c[s], inStore[s])
      /\ \A q \in Promised(fsm[s], cli[s]) :
           Met(inStore[s], inFile[s], q) \/ q \in DOMAIN txn
  BY <1>1, <1>2, LastFrame
<1>4. p \in 1 .. m
  <2>1. Welcomed(cli[s], s2c[s])
    BY <1>2 DEF RecvSyncComplete, Welcomed, Syncing
  <2>2. is_max_page(pages, m)
    BY <1>1, <2>1 DEF XIInv, Undisturbed
  <2>3. DOMAIN pages \in SUBSET PageNo /\ m \in Nat
    BY <1>1, SessionFacts DEF TypeOK, Fsm
  <2>4. QED
    BY <2>2, <2>3 DEF is_max_page, PageNo
<1>5. file' = [file EXCEPT ![h] =
        [q \in DOMAIN @ \cup DOMAIN txn |->
           IF q \in DOMAIN txn THEN txn[q] ELSE @[q]]]
  BY <1>2 DEF RecvSyncComplete
<1>6. file'[h] = [q \in DOMAIN file[h] \cup DOMAIN txn |->
                    IF q \in DOMAIN txn THEN txn[q] ELSE file[h][q]]
  BY <1>1, <1>5 DEF TypeOK
<1>7. CASE p \in DOMAIN txn
  <2>1. <<p, txn[p]>> \in inStore[s]
    BY <1>3, <1>7 DEF Given
  <2>2. pages[p].data = txn[p]
    BY <1>1, <2>1 DEF XIInv, Undisturbed, Replaced
  <2>3. QED
    BY <1>6, <1>7, <2>2
<1>8. CASE p \notin DOMAIN txn
  <2>1. Met(inStore[s], inFile[s], p)
    BY <1>1, <1>3, <1>4, <1>8 DEF Promised
  <2>2. p \in DOMAIN file[h] /\ pages[p].data = file[h][p]
    BY <1>1, <2>1, MetIsNow
  <2>3. QED
    BY <1>6, <1>8, <2>2
<1>9. QED
  BY <1>7, <1>8

\* A push that succeeds over a quiet file, with no other task open while it
\* ran, leaves the object with the file, for any number of pages and hosts.
THEOREM PushesAreExact == HSpec => PushIsExact
<1> DEFINE Exact ==
      \A s \in Session :
        Succeeds(s, "push") /\ alone[s] /\ FileQuiet(s) =>
          \A p \in 1 .. cli[s].max :
            p \in DOMAIN pages /\ pages[p].data = file[Owner[s]][p]
<1>1. XIInv /\ [HNext]_hvars => [Exact]_hvars
  BY PushStep DEF HNext
<1>2. QED
  BY <1>1, AloneUndisturbed, PTL DEF HSpec, PushIsExact

\* Such a pull leaves the file with all that the object has.
THEOREM PullsAreExact == HSpec => PullIsExact
<1> DEFINE Exact ==
      \A s \in Session :
        Succeeds(s, "pull") /\ alone[s] /\ FileQuiet(s) =>
          \A p \in DOMAIN pages :
            p \in DOMAIN file'[Owner[s]]
              /\ file'[Owner[s]][p] = pages[p].data
<1>1. XIInv /\ [HNext]_hvars => [Exact]_hvars
  BY PullStep DEF HNext
<1>2. QED
  BY <1>1, AloneUndisturbed, PTL DEF HSpec, PullIsExact
=============================================================================
