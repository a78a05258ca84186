--------------------------- MODULE SyncedDatabase ---------------------------
(***************************************************************************)
(* What sync promises, without a protocol: one object's store, the files   *)
(* of the hosts, and sessions that copy pages from one to the other.       *)
(*                                                                         *)
(* A push is not atomic: its pages appear in the store one by one, some of *)
(* them even if it fails.  A pull is: the file changes once, or not at     *)
(* all.  Neither holds a lock, so what either copies is, page by page, a   *)
(* value that the source had at some time during the session (a regular    *)
(* register), and a page may be passed over if both sides have had the     *)
(* same value of it.  A session whose token is not for its command moves   *)
(* nothing, although it may end well.                                      *)
(***************************************************************************)
EXTENDS Naturals, FiniteSets

CONSTANTS Host, Session, Owner, Command, Page, Value

VARIABLES
  store,   \* the pages of the object, by number
  file,    \* file[h]: likewise of the local file of h
  writes,  \* how often applications have written their files
  status,  \* status[s]: idle, running, done or failed
  token,   \* token[s]: the direction that the token of s allows
  open,    \* the sessions the object has not yet closed
  todo,    \* todo[s]: the pages that s is to bring to the other side
  held,    \* held[s]: the pairs <<p, d>> the store held since s began
  had      \* had[s]: likewise of the file of s

vars == <<store, file, writes, status, token, open, todo, held, had>>

Pairs(f) == {<<p, f[p]>> : p \in DOMAIN f}

Overlay(f, g) ==
  [p \in DOMAIN f \cup DOMAIN g |-> IF p \in DOMAIN g THEN g[p] ELSE f[p]]

Fits(s) == token[s] = Command[s]

Partial == UNION {[S -> Value] : S \in SUBSET Page}

Init ==
  /\ store \in Partial
  /\ file \in [Host -> Partial]
  /\ writes = 0
  /\ status = [s \in Session |-> "idle"]
  /\ token \in [Session -> {"push", "pull"}]
  /\ open = {}
  /\ todo = [s \in Session |-> {}]
  /\ held = [s \in Session |-> {}]
  /\ had = [s \in Session |-> {}]

\* Both sides are watched while the session runs.  What a push has taken
\* from its file may arrive after the process has ended, until it is closed.
Watch(seen, now) ==
  [s \in Session |->
     IF status'[s] = "running" THEN seen[s] \cup now[s]
     ELSE IF s \in open' THEN seen[s] ELSE {}]

Observe ==
  /\ held' = Watch(held, [s \in Session |-> Pairs(store) \cup Pairs(store')])
  /\ had' = Watch(had, [s \in Session |->
                          Pairs(file[Owner[s]]) \cup Pairs(file'[Owner[s]])])

Keep(s, next) ==
  /\ status' = [status EXCEPT ![s] = next]
  /\ todo' = IF next = "running" THEN todo ELSE [todo EXCEPT ![s] = {}]

\* One process at a time on each host.
Begin(s) ==
  /\ status[s] = "idle"
  /\ \A t \in Session : Owner[t] = Owner[s] => status[t] # "running"
  /\ status' = [status EXCEPT ![s] = "running"]
  /\ todo' = [todo EXCEPT
       ![s] = IF Fits(s) /\ Command[s] = "push"
              THEN DOMAIN file[Owner[s]] ELSE {}]
  /\ open' = open \cup {s}
  /\ UNCHANGED <<store, file, writes, token>> /\ Observe

\* A pull is to bring what the object has at its handshake.
Handshake(s) ==
  /\ s \in open /\ Fits(s) /\ Command[s] = "pull"
  /\ todo' = [todo EXCEPT
       ![s] = IF status[s] = "running" THEN DOMAIN store ELSE {}]
  /\ open' \in {open, open \ {s}}
  /\ UNCHANGED <<store, file, writes, status, token>> /\ Observe

\* A page that the file had arrives, the next one or one that is there.
StorePage(s, p, d) ==
  /\ s \in open /\ Fits(s) /\ Command[s] = "push"
  /\ <<p, d>> \in had[s]
  /\ p \in DOMAIN store \/ \A q \in Page : q < p => q \in DOMAIN store
  /\ store' = Overlay(store, [q \in {p} |-> d])
  /\ open' \in {open, open \ {s}}
  /\ UNCHANGED <<file, writes, status, token, todo>> /\ Observe

\* The object closes sessions, running or not: some, or all at once.
Close(S) ==
  /\ open' = open \ S
  /\ UNCHANGED <<store, file, writes, status, token, todo>> /\ Observe

\* Both sides had the same value of page p, at times of their own.
Met(s, p) == \E d \in Value : <<p, d>> \in had[s] \cap held[s]

FinishPush(s) ==
  /\ status[s] = "running" /\ Fits(s) /\ Command[s] = "push"
  /\ Keep(s, "done")
  /\ \A p \in todo[s] : Met(s, p)
  /\ UNCHANGED <<store, file, writes, token, open>> /\ Observe

\* All at once, the file takes values that the object held; it loses no
\* page, and nothing that was to be brought is missing.
CommitPull(s) ==
  /\ status[s] = "running" /\ Fits(s) /\ Command[s] = "pull"
  /\ Keep(s, "done")
  /\ \E new \in Partial :
       /\ file' = [file EXCEPT ![Owner[s]] = Overlay(@, new)]
       /\ Pairs(new) \subseteq held[s]
       /\ \A p \in todo[s] : p \in DOMAIN new \/ Met(s, p)
  /\ UNCHANGED <<store, writes, token, open>> /\ Observe

\* With a token for the other command s can end well, having moved nothing:
\* it met no difference that the object would have acted on.
FinishUnfit(s) ==
  /\ status[s] = "running" /\ ~Fits(s)
  /\ Keep(s, "done")
  /\ UNCHANGED <<store, file, writes, token, open>> /\ Observe

Fail(s) ==
  /\ status[s] = "running" /\ Keep(s, "failed")
  /\ UNCHANGED <<store, file, writes, token, open>> /\ Observe

LocalWrite(h, p, d) ==
  /\ writes' = writes + 1
  /\ file' = [file EXCEPT ![h] = Overlay(@, [q \in {p} |-> d])]
  /\ UNCHANGED <<store, status, token, open, todo>> /\ Observe

Next ==
  \/ \E S \in SUBSET Session : Close(S)
  \/ \E s \in Session :
       \/ Begin(s) \/ Handshake(s) \/ Fail(s)
       \/ FinishPush(s) \/ CommitPull(s) \/ FinishUnfit(s)
       \/ \E p \in Page, d \in Value : StorePage(s, p, d)
  \/ \E h \in Host, p \in Page, d \in Value : LocalWrite(h, p, d)

Spec == Init /\ [][Next]_vars
=============================================================================
