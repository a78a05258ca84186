---------------------------- MODULE DoMigrations ----------------------------
(***************************************************************************)
(* How a schema comes into being: the versioned migrations in the SQLite   *)
(* of each DurableObject (do_migrations.rs, do_edge_replica.rs), and the   *)
(* tables of D1 that build_state (lib.rs) makes where AUTO_MIGRATE asks.   *)
(*                                                                         *)
(* An object runs its migrations inside one fetch, without an await: no    *)
(* other fetch of it comes between.  But each statement commits on its     *)
(* own, any of them may fail, and the object may be gone after any.  The   *)
(* batch at D1 is one transaction, and it is awaited: requests of the same *)
(* isolate run meanwhile.                                                  *)
(***************************************************************************)
EXTENDS Naturals, Sequences

CONSTANTS
  Object,          \* DurableObjects; an isolate hosts many
  Request,         \* requests to the worker, of one isolate
  MIGRATIONS,      \* every version ever written: [version, creates] each
  schema_version, pages,   \* two of the tables
  SCHEMA,          \* the tables of 0001_init.sql
  PageRow, Account,        \* keys of rows that may be stored later
  auto_migrate,    \* AUTO_MIGRATE of the worker
  MaxFaults        \* bound: failures, evictions and deployments, together

ASSUME MigrationsAssumption ==
  /\ MIGRATIONS \in
       Seq([version : Nat \ {0}, creates : Seq(STRING)]) \ {<<>>}
  /\ \A i, j \in DOMAIN MIGRATIONS :
       i < j => MIGRATIONS[i].version < MIGRATIONS[j].version
  /\ \E s \in DOMAIN MIGRATIONS[1].creates :
       MIGRATIONS[1].creates[s] = schema_version
  /\ \E s \in DOMAIN MIGRATIONS[1].creates :
       MIGRATIONS[1].creates[s] = pages
  /\ schema_version # pages
  /\ auto_migrate \in BOOLEAN
  /\ MaxFaults \in Nat

Version == DOMAIN MIGRATIONS  \* by index; the later ones come with later builds
creates(m) == MIGRATIONS[m].creates

VARIABLES
  deployed,  \* the migrations of the build that runs are 1 .. deployed
  db,        \* db[o]: the rows of each table of o's SQLite
  latch,     \* schema_ready of o's instance
  at,        \* at[o]: where ensure_schema of o is, or Idle
  serving,   \* whether a sync task runs in o
  d1,        \* the rows of each table of D1
  SCHEMA_READY,  \* the static of the isolate
  req,       \* req[r]: how far a request to the worker has come
  faults

object == <<db, latch, at, serving>>
isolate == <<d1, SCHEMA_READY, req>>
vars == <<deployed, object, isolate, faults>>

Idle == [m |-> 0, s |-> 0, current |-> 0]

\* Statement s of migration m is next; past its last stands the stamp.
Position ==
  [m : 1 .. Len(MIGRATIONS) + 1, s : Nat \ {0}, current : Nat]

\* The rows of schema_version, if there is such a table.
stamps(o) ==
  IF schema_version \in DOMAIN db[o] THEN db[o][schema_version] ELSE {}

TypeOK ==
  /\ deployed \in Version
  /\ db = [o \in Object |-> db[o]]
  /\ \A o \in Object :
       /\ db[o] \in [DOMAIN db[o] -> SUBSET (Nat \cup PageRow)]
       /\ stamps(o) \subseteq {MIGRATIONS[m].version : m \in Version}
  /\ latch \in [Object -> BOOLEAN]
  /\ at \in [Object -> Position \cup {Idle}]
  /\ serving \in [Object -> BOOLEAN]
  /\ d1 \in [DOMAIN d1 -> SUBSET Account]
  /\ SCHEMA_READY \in BOOLEAN
  /\ req \in [Request -> {"none", "batch", "answer", "serving"}]
  /\ faults \in 0 .. MaxFaults

Empty == [t \in {} |-> {}]

\* Without AUTO_MIGRATE the tables of D1 are made before the deployment.
Init ==
  /\ deployed \in Version
  /\ db = [o \in Object |-> Empty]
  /\ latch = [o \in Object |-> FALSE]
  /\ at = [o \in Object |-> Idle]
  /\ serving = [o \in Object |-> FALSE]
  /\ d1 = IF auto_migrate THEN Empty ELSE [t \in SCHEMA |-> {}]
  /\ SCHEMA_READY = FALSE
  /\ req = [r \in Request |-> "none"]
  /\ faults = 0

Fault == faults < MaxFaults /\ faults' = faults + 1

-----------------------------------------------------------------------------
(* SQL.                                                                    *)

\* Mutant: the table is made anew.
create_if_not_exists_drops(tables, t) ==
  [x \in DOMAIN tables \cup {t} |-> IF x = t THEN {} ELSE tables[x]]

\* CREATE TABLE IF NOT EXISTS t: a table that is there keeps its rows.
create_if_not_exists(tables, t) ==
  [x \in DOMAIN tables \cup {t} |->
     IF x \in DOMAIN tables THEN tables[x] ELSE {}]

\* INSERT, or INSERT OR REPLACE, of a row known by its key.
insert(tables, t, row) == [tables EXCEPT ![t] = @ \cup {row}]

\* SELECT MAX(version): no table and no row count as version 0, and so does
\* an error of the query.
current_version(o, v) ==
  \/ v = 0 /\ stamps(o) = {} /\ UNCHANGED faults
  \/ v \in stamps(o) /\ (\A w \in stamps(o) : w <= v) /\ UNCHANGED faults
  \/ v = 0 /\ Fault

-----------------------------------------------------------------------------
(* The object: fetch, and ensure_schema inside it.                         *)

\* A WebSocket upgrade whose token is good starts a task; anything else is
\* refused, by an answer of its own.
Admit(o) == serving' \in {serving, [serving EXCEPT ![o] = TRUE]}

fetch(o) ==
  /\ at[o] = Idle
  /\ latch[o]
  /\ Admit(o)
  /\ UNCHANGED <<deployed, db, latch, at, isolate, faults>>

ensure_schema(o) ==
  /\ at[o] = Idle /\ ~latch[o]
  /\ \E v \in {0} \cup stamps(o) :
       /\ current_version(o, v)
       /\ at' = [at EXCEPT ![o] = [m |-> 1, s |-> 1, current |-> v]]
  /\ UNCHANGED <<deployed, db, latch, serving, isolate>>

Runs(o, m, s) ==
  /\ at[o] # Idle /\ at[o].m = m /\ at[o].s = s
  /\ m <= deployed

\* filter(m.version > current)
Pending(o, m) == MIGRATIONS[m].version > at[o].current

Skip(o) ==
  \E m \in Version :
    /\ Runs(o, m, 1) /\ ~Pending(o, m)
    /\ at' = [at EXCEPT ![o].m = m + 1]
    /\ UNCHANGED <<deployed, db, latch, serving, isolate, faults>>

\* Mutant: CREATE TABLE without IF NOT EXISTS.
run_statement_plain(o, m, s) ==
  /\ Runs(o, m, s) /\ Pending(o, m)
  /\ IF creates(m)[s] \in DOMAIN db[o]
     THEN at' = [at EXCEPT ![o] = Idle] /\ UNCHANGED db
     ELSE /\ db' = [db EXCEPT ![o] = create_if_not_exists(@, creates(m)[s])]
          /\ at' = [at EXCEPT ![o].s = s + 1]
  /\ UNCHANGED <<deployed, latch, serving, isolate, faults>>

run_statement(o, m, s) ==
  /\ Runs(o, m, s) /\ Pending(o, m)
  /\ db' = [db EXCEPT ![o] = create_if_not_exists(@, creates(m)[s])]
  /\ at' = [at EXCEPT ![o].s = s + 1]
  /\ UNCHANGED <<deployed, latch, serving, isolate, faults>>

Exec(o) ==
  \E m \in Version : \E s \in DOMAIN creates(m) : run_statement(o, m, s)

\* Mutant: the stamp is written as soon as there is a table for it.
stamp_early(o, m) ==
  /\ at[o].s \in 1 .. Len(creates(m)) + 1
  /\ Runs(o, m, at[o].s) /\ Pending(o, m) /\ schema_version \in DOMAIN db[o]
  /\ db' = [db EXCEPT ![o] =
              insert(@, schema_version, MIGRATIONS[m].version)]
  /\ at' = IF at[o].s > Len(creates(m))
           THEN [at EXCEPT ![o] = [m |-> m + 1, s |-> 1,
                                    current |-> @.current]] ELSE at
  /\ UNCHANGED <<deployed, latch, serving, isolate, faults>>

stamp(o, m) ==
  /\ Runs(o, m, Len(creates(m)) + 1) /\ Pending(o, m)
  /\ db' = [db EXCEPT ![o] =
              insert(@, schema_version, MIGRATIONS[m].version)]
  /\ at' = [at EXCEPT ![o] =
              [m |-> m + 1, s |-> 1, current |-> @.current]]
  /\ UNCHANGED <<deployed, latch, serving, isolate, faults>>

Stamp(o) == \E m \in Version : stamp(o, m)

\* Mutant: one latch for all objects of the isolate.
SchemaReady_static(o) ==
  /\ at[o] # Idle /\ at[o].m > deployed
  /\ at' = [at EXCEPT ![o] = Idle]
  /\ latch' = [x \in Object |-> TRUE]
  /\ Admit(o)
  /\ UNCHANGED <<deployed, db, isolate, faults>>

\* The latch is set when every migration has run, and the fetch goes on.
SchemaReady(o) ==
  /\ at[o] # Idle /\ at[o].m > deployed
  /\ at' = [at EXCEPT ![o] = Idle]
  /\ latch' = [latch EXCEPT ![o] = TRUE]
  /\ Admit(o)
  /\ UNCHANGED <<deployed, db, isolate, faults>>

\* A statement fails: fetch answers with the error, the latch stays down.
ExecFails(o) ==
  /\ at[o] # Idle /\ at[o].m <= deployed /\ Fault
  /\ at' = [at EXCEPT ![o] = Idle]
  /\ UNCHANGED <<deployed, db, latch, serving, isolate>>

\* A task stores a page: INSERT OR REPLACE INTO pages.
put_page(o) ==
  /\ serving[o] /\ at[o] = Idle
  /\ \E row \in PageRow : db' = [db EXCEPT ![o] = insert(@, pages, row)]
  /\ UNCHANGED <<deployed, latch, at, serving, isolate, faults>>

TaskEnds(o) ==
  /\ serving[o] /\ serving' = [serving EXCEPT ![o] = FALSE]
  /\ UNCHANGED <<deployed, db, latch, at, isolate, faults>>

\* What was in memory is gone: new() starts with the latch down.
Evict(S) ==
  /\ latch' = [o \in Object |-> latch[o] /\ o \notin S]
  /\ at' = [o \in Object |-> IF o \in S THEN Idle ELSE at[o]]
  /\ serving' = [o \in Object |-> serving[o] /\ o \notin S]
  /\ UNCHANGED db

EvictOne(o) == Evict({o}) /\ Fault /\ UNCHANGED <<deployed, isolate>>

-----------------------------------------------------------------------------
(* The worker: build_state before every request that is not a static one.  *)

\* Mutant: the static is set before the batch is awaited.
build_state_early(r) ==
  /\ req[r] = "none"
  /\ SCHEMA_READY' = TRUE
  /\ req' = [req EXCEPT ![r] =
       IF auto_migrate /\ ~SCHEMA_READY THEN "batch" ELSE "serving"]
  /\ UNCHANGED <<deployed, object, d1, faults>>

build_state(r) ==
  /\ req[r] = "none"
  /\ req' = [req EXCEPT ![r] =
       IF auto_migrate /\ ~SCHEMA_READY THEN "batch" ELSE "serving"]
  /\ UNCHANGED <<deployed, object, d1, SCHEMA_READY, faults>>

\* D1Repo::ensure_schema: CREATE TABLE IF NOT EXISTS for all, or for none.
Batch(r) ==
  /\ req[r] = "batch"
  /\ \/ /\ d1' = [t \in DOMAIN d1 \cup SCHEMA |->
                    IF t \in DOMAIN d1 THEN d1[t] ELSE {}]
        /\ \/ req' = [req EXCEPT ![r] = "answer"] /\ UNCHANGED faults
           \/ req' = [req EXCEPT ![r] = "none"] /\ Fault
     \/ UNCHANGED d1 /\ req' = [req EXCEPT ![r] = "none"] /\ Fault
  /\ UNCHANGED <<deployed, object, SCHEMA_READY>>

BatchAnswered(r) ==
  /\ req[r] = "answer"
  /\ SCHEMA_READY' = TRUE
  /\ req' = [req EXCEPT ![r] = "serving"]
  /\ UNCHANGED <<deployed, object, d1, faults>>

\* The handler stores something, or nothing, and answers.
Handle(r) ==
  /\ req[r] = "serving"
  /\ req' = [req EXCEPT ![r] = "none"]
  /\ \/ UNCHANGED d1
     \/ \E t \in SCHEMA, a \in Account : d1' = insert(d1, t, a)
  /\ UNCHANGED <<deployed, object, SCHEMA_READY, faults>>

IsolateRestarts ==
  /\ SCHEMA_READY' = FALSE
  /\ req' = [r \in Request |-> "none"]
  /\ UNCHANGED d1

\* A new build, or an old one again, replaces what runs.
Deploy ==
  /\ deployed' \in Version \ {deployed}
  /\ Evict(Object) /\ IsolateRestarts /\ Fault

-----------------------------------------------------------------------------

Migrates(o) == Skip(o) \/ Exec(o) \/ Stamp(o) \/ SchemaReady(o)

Next ==
  \/ \E o \in Object :
       \/ fetch(o) \/ ensure_schema(o) \/ Migrates(o) \/ ExecFails(o)
       \/ put_page(o) \/ TaskEnds(o) \/ EvictOne(o)
  \/ \E r \in Request :
       build_state(r) \/ Batch(r) \/ BatchAnswered(r) \/ Handle(r)
  \/ IsolateRestarts /\ Fault /\ UNCHANGED <<deployed, object>>
  \/ Deploy

Spec == Init /\ [][Next]_vars

\* ensure_schema runs to its end, as it never awaits anything; and each
\* object is asked again, which is for its clients to do.
FairSpec ==
  Spec /\ \A o \in Object : WF_vars(ensure_schema(o)) /\ WF_vars(Migrates(o))

-----------------------------------------------------------------------------
(* The inductive invariant.                                                *)

Made(o, m) == \A s \in DOMAIN creates(m) : creates(m)[s] \in DOMAIN db[o]

\* A stamp is never ahead of its tables: what MAX(version) lets a later
\* start skip is there, also after a crash between any two statements.
StampsAreTrue ==
  \A o \in Object : \A v \in stamps(o) : \A m \in Version :
    MIGRATIONS[m].version <= v => Made(o, m)

\* Inside ensure_schema of o: what it has passed is made, and so is what the
\* version it has read lets it skip.
PassedIsMade(o) ==
  LET p == at[o]
  IN  p # Idle =>
        /\ p.current \in {0} \cup stamps(o)
        /\ p.m <= deployed + 1
        /\ \A m \in Version : m < p.m => Made(o, m)
        /\ p.m <= deployed =>
             /\ p.s <= Len(creates(p.m)) + 1
             /\ \A s \in DOMAIN creates(p.m) :
                  s < p.s => creates(p.m)[s] \in DOMAIN db[o]

\* The latches tell the truth, each about its own database.
LatchesAreTrue ==
  /\ \A o \in Object :
       /\ latch[o] => \A m \in 1 .. deployed : Made(o, m)
       /\ serving[o] => latch[o]
       /\ latch[o] => at[o] = Idle
  /\ \A r \in Request :
       req[r] \in {"answer", "serving"} \/ SCHEMA_READY \/ ~auto_migrate
         => SCHEMA \subseteq DOMAIN d1

\* Each part leans on the others: a start trusts the stamps, a stamp is
\* written where a start has got to, a latch is set where it has ended.
IInv ==
  /\ TypeOK
  /\ StampsAreTrue
  /\ \A o \in Object : PassedIsMade(o)
  /\ LatchesAreTrue

-----------------------------------------------------------------------------
(* Properties.                                                             *)

\* Who has got past the migrations finds every table of the build that
\* runs, however often earlier starts were cut short and whichever other
\* object or request of the isolate migrated first.
ServedFindsSchema ==
  /\ \A o \in Object : serving[o] => \A m \in 1 .. deployed : Made(o, m)
  /\ \A r \in Request : req[r] = "serving" => SCHEMA \subseteq DOMAIN d1

Keeps(old, new) ==
  \A t \in DOMAIN old : t \in DOMAIN new /\ old[t] \subseteq new[t]

\* A migration that runs again, because its stamp was not written or not
\* read, loses no row; nor does the D1 batch that two requests both send.
RowsSurvive ==
  [][ Keeps(d1, d1') /\ \A o \in Object : Keeps(db[o], db'[o]) ]_vars

\* When nothing fails any more, an object that is asked again becomes ready
\* for good, whatever half of a migration it was left with.
SchemaHeals == \A o \in Object : <>[]latch[o]
=============================================================================
