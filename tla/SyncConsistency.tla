--------------------------- MODULE SyncConsistency ---------------------------
(***************************************************************************)
(* What a finished push or pull has achieved, stated over SyncSystem with  *)
(* history variables that no action of it reads.                           *)
(*                                                                         *)
(* No session holds a lock or a snapshot: the object's table can change    *)
(* under a pull, the local file can change between the hash and the bytes  *)
(* of a push.  The promise that is left is per page: each page ends with a *)
(* value it really had, on the other side, while the session ran (the      *)
(* regularity of a register); and, when nobody interferes, equality.       *)
(***************************************************************************)
EXTENDS SyncSystem

VARIABLES
  inStore,  \* inStore[s]: the pairs <<p, d>> such that the object's page p
            \* was d at some time while the client of s ran
  inFile,   \* inFile[s]: likewise in the local file of s
  alone     \* alone[s]: no other task was open while the client of s ran

hvars == <<vars, inStore, inFile, alone>>

InStore == {<<p, pages[p].data>> : p \in DOMAIN pages}

InFile(h) == {<<p, file[h][p]>> : p \in DOMAIN file[h]}

NobodyElse(s) == \A t \in Session \ {s} : task[t] # "open"

HInit ==
  /\ Init
  /\ inStore = [s \in Session |-> {}]
  /\ inFile = [s \in Session |-> {}]
  /\ alone = [s \in Session |-> FALSE]

\* Recorded from Start until the client has ended and the task is closed.
Recorded(s, seen, now) ==
  IF Active(s)' THEN seen[s] \cup now
  ELSE IF task'[s] = "open" THEN seen[s] ELSE {}

Observe ==
  /\ inStore' = [s \in Session |-> Recorded(s, inStore, InStore \cup InStore')]
  /\ inFile' = [s \in Session |->
       Recorded(s, inFile, InFile(Owner[s]) \cup InFile(Owner[s])')]
  /\ alone' = [s \in Session |->
       /\ Active(s)' /\ NobodyElse(s) /\ NobodyElse(s)'
       /\ Active(s) => alone[s]]

HNext == Next /\ Observe

HSpec == HInit /\ [][HNext]_hvars

-----------------------------------------------------------------------------
(* Properties.                                                             *)

\* s, with a token for its command, ends well.
Succeeds(s, dir) ==
  Fits(s) /\ Command[s] = dir /\ Active(s) /\ (cli[s].pc = "done")'

\* The local file of s did not change while it ran.
FileQuiet(s) ==
  \A x \in inFile[s], y \in inFile[s] : x[1] = y[1] => x = y

Status(s) ==
  IF Active(s) THEN "running" ELSE IF Ended(s) THEN cli[s].pc ELSE "idle"

\* What s is to bring: for a push the pages of its file as it opened it,
\* for a pull those of the object at the handshake, and nothing if its token
\* is for the other command.
Todo(s) ==
  CASE ~Active(s) \/ ~Fits(s) -> {}
    [] Active(s) /\ Fits(s) /\ Command[s] = "push" -> 1 .. cli[s].max
    [] Active(s) /\ Fits(s) /\ Command[s] = "pull" ->
         IF fsm[s].saw_hello THEN 1 .. fsm[s].server_max_page ELSE {}

Synced == INSTANCE SyncedDatabase WITH
  Page <- PageNo,
  Value <- Content,
  store <- [p \in DOMAIN pages |-> pages[p].data],
  status <- [s \in Session |-> Status(s)],
  token <- [s \in Session |-> fsm[s].direction],
  open <- {s \in Session : task[s] = "open"},
  todo <- [s \in Session |-> Todo(s)],
  held <- inStore,
  had <- inFile

\* The protocol, frame by frame, with both hash phases, the requests, the
\* transaction and every failure, does no more than SyncedDatabase: a push
\* ends well only when each page has been on both sides, late frames of an
\* earlier try store only what its file had, a pull commits only what the
\* object held, and all of it or nothing.
ImplementsSyncedDatabase == Synced!Spec

\* A successful push that ran alone over a quiet file: the object now holds
\* the file, and not only page by page what it had at some time.
PushIsExact ==
  [][ \A s \in Session :
        Succeeds(s, "push") /\ alone[s] /\ FileQuiet(s) =>
          \A p \in 1 .. cli[s].max :
            p \in DOMAIN pages /\ pages[p].data = file[Owner[s]][p] ]_hvars

\* ... and the file of such a pull holds everything the object does.
PullIsExact ==
  [][ \A s \in Session :
        Succeeds(s, "pull") /\ alone[s] /\ FileQuiet(s) =>
          \A p \in DOMAIN pages :
            p \in DOMAIN file'[Owner[s]]
              /\ file'[Owner[s]][p] = pages[p].data ]_hvars
=============================================================================
