# EdgeReplica: a verification project

TLA+ modules that model the EdgeReplica worker and its sync client, TLC
configurations that model-check them on small instances, and theorems that
TLAPS proves for every instance: about the sync state machine, client and
object together and what a push or a pull has achieved, the sign-in and database
RPCs, the schema migrations and the client's config file. Paths below are
relative to the repository root. `PROJECT.json` maps every definition that
models code to the lines it stands for, and lists components, runs, hazards,
mutants, findings and theorems in machine-readable form.

    tlc -workers 2 -config MCPushPull.cfg MCSyncConsistency    # one run
    tlapm SyncSessionProofs.tla                                # one module's proofs

## 1. The system

EdgeReplica keeps copies of SQLite databases at the edge. A command line client
reads or writes the pages of a local SQLite file (through the `sqlite_dbpage`
table); a Cloudflare worker answers RPCs about accounts and databases and
forwards sync WebSockets to one DurableObject per database, which holds that
database's pages in a table. A sync compares page hashes and moves only pages
that differ.

| Component | State it keeps | Operations |
|---|---|---|
| Sync state machine, `worker/src/services/sync_fsm.rs` | per connection: direction, `saw_hello`, `completed_hash_phase`, `pending_requests`, `client_seen`, `server_max_page`, counters, `emitted_complete` | `apply` of one frame, `client_closed` |
| Page storage, `worker/src/services/sync_storage.rs` | the `pages` table of one object | compare a hash, put a page, max page, digest of a range, iterate a range |
| WebSocket task, `worker/src/do_sync_ws.rs` | the FSM of its connection | token check, event loop, close codes |
| Object shell, `worker/src/do_edge_replica.rs`, `do_migrations.rs` | schema latch, `schema_version` | start, migrate, accept an upgrade |
| Client, `client/src/sync_ws.rs`, `pages.rs` | local file, open transaction, queue of requested pages, counts | `push`, `pull` |
| AdminService, `worker/src/services/admin.rs`, `oauth.rs` | none of its own | `Whoami`, `Signup`, `Login`, `StartOAuth`, `CompleteOAuth`, `CreateDatabase`, `ListDatabases`, `DeleteDatabase`, `IssueSyncToken` |
| Repository, `worker/src/repo_d1.rs`, `worker/migrations/0001_init.sql` | D1 tables: users, identities, organizations, memberships, databases, OAuth states | one query or batch per method |
| Tokens, `worker/src/auth/tokens.rs` | none; a macaroon carries signed claims and an `exp` caveat | mint and verify, for sessions and for sync |
| Edge, `worker/src/lib.rs`, `sync_forward.rs`, `middleware/` | an isolate-wide schema latch | route a request, verify a session or sync token, forward an upgrade |
| Wire format, `protocol/src/sync.rs` | none | msgpack frames, page hash |
| Client commands, `client/src/main.rs`, `*_cmd.rs`, `config.rs` | a config file: server and session token | load, one RPC each, save after a sign-in |

How they interact:

- **Client and object** exchange frames over one WebSocket per sync, in order in
  each direction. Neither end has a receive timeout. The client's push reads
  while it hashes; the object's task awaits only the next event, so an `apply`
  runs to its end before any other task of that object moves, although the
  frames it emits leave one by one.
- **Token and command** are not compared by anybody: the object serves the
  direction that the token carries, the client runs `push` or `pull` as it was
  told. With the wrong token one side sends what the other does not expect.
- **Sessions of one object** share its `pages` table and nothing else: no lock,
  no snapshot. A client that dies leaves its task behind until the object has
  applied what had been sent.
- **The client and the application** that owns the local file share it through
  SQLite's locks. A push reads each page twice, for its hash and for its bytes;
  a pull writes inside one transaction.
- **An RPC** gives up control at each await of D1 or of GitHub. Two requests may
  run in two isolates; only D1 orders their queries. A batch is atomic; a
  statement that has committed may still be answered by an error.
- **IssueSyncToken and the object** never talk: a sync token carries
  organization, database and direction, the edge and the object each verify it,
  and nobody looks at the database's row again.
- **Schemas** come into being on the way of ordinary requests: each object
  migrates its SQLite in its first fetch, each isolate of the worker sends the
  D1 schema before its first request where `AUTO_MIGRATE` is set. A latch in
  memory, one per object and one per isolate, spares the others.
- **Commands of the client** share the config file with whatever other command
  runs, without a lock.

What is hard, and where: pages of one pull that come from different moments; two
pushes at once; a retry racing the remains of its first try; the end of a
session, where any of the last page, a batch entry or `Complete` may open the
gate for `SyncComplete`; both ends waiting for each other; a storage call, a
socket or the whole object failing between any two frames; sign-ups and first
sign-ins that race for an address; answers lost after a commit; checks made on
rows read one query earlier; a migration cut short between two statements; a
latch that speaks for another's database; a config file written in two halves.
`PROJECT.json` lists each of these hazards at its line, with the properties that
would catch it going wrong, and a note where none can.

What makes each component correct:

- *State machine*: `SyncComplete` once and last, only when settled; it never
  waits for a page it has not asked for; a pull completes only when every page
  was compared or sent.
- *Client and object together*: they agree on phase and counts; no request is
  lost or served twice; every session ends; a pull changes its file all at once
  or not at all.
- *Consistency*: each page ends with a value it had on the other side during the
  session; equality when nobody interferes.
- *Accounts*: an account is whole or absent, one per address and GitHub user; a
  session goes only to who proved to be its user; an OAuth state works once.
- *Databases*: names unique per organization; deletion final and by its owner;
  asked-for lifetimes capped, tokens not minted for what was deleted before,
  honoured only while they live, by their own expiry, whatever a holder appends.
- *Schemas*: whoever is served finds every table; a stamp is never ahead of its
  tables; nothing that runs again loses a row; what was cut short heals.
- *Config file*: a token stays with the server that issued it; only the window of
  a save can make the file unreadable.

## 2. The modules

    SyncProtocol        messages, hashes, digests
      SyncStorage       the pages table and its queries
        SyncFsm         every handler of the state machine, as operators
          SyncSession   one task of the object against any client
            SyncFsmProofs, SyncSessionProofs     its theorems
          SyncSystem    object, clients, channels, files, failures
            SyncSystemProofs   its theorems
            SyncConsistency    what a finished push or pull has achieved, and
                               that SyncSystem implements SyncedDatabase
              SyncConsistencyProofs              its theorems
    SyncedDatabase      what sync promises, without a protocol
    DoMigrations        schemas of the objects and of D1, latches, deployments
      DoMigrationsProofs         its theorems
    Accounts            sign-in RPCs over D1
      AccountsProofs    its theorems
    Tokens              the two kinds of macaroon and their caveats
      Databases         database RPCs over D1, sync tokens, the upgrade
        DatabasesProofs          its theorems
    ClientConfig        the client's commands over its config file
      ClientConfigProofs         its theorems
    MC*                 finite instances for TLC

**SyncFsm** (`sync_fsm.rs`). A handler is an operator from the FSM record and
the pages table to the *set* of its outcomes, one for the normal end and one
for each storage call or emit that may fail. An outcome holds the two states
after the call, the frame emitted and how the call returned, so that what a
failing handler has changed before it failed is kept (`?` in the code returns
after `saw_hello`, `client_seen` or `pending_requests` were assigned). The two
loops of the code, a `PageDataBatch` and the walk of `handle_complete`, keep
their position in the record (`rest`, `cursor`), so that a step emits at most
one frame and a refusal can come at any of them.

**SyncSession** (`do_sync_ws.rs`). Variables: the FSM, the pages table, the
task's status and `sent`, the frames the socket accepted. Actions: `Receive`
(any frame at all, well-ordered or not), `Resume` (the rest of the same
`apply`), `Reject` (text frame, decode error), `PeerClose`, `EventError`, and
`ForeignPut`, a write of another session. This is the open system: what holds
here holds for clients nobody has written yet.

**SyncSystem** (`sync_ws.rs`, `pages.rs`, `do_sync_ws.rs`,
`do_edge_replica.rs`). One object, several hosts with a local file each, several
sessions: a session is one run of the CLI with its WebSocket and its task. What
it runs is `Command[s]`; the direction its task serves comes from the token and
is `fsm[s].direction`, chosen in `Init` among `Tokens`, the same or the other
(`Fits` says which). Every action of the client is one step of its loop:
handshake, one hash sent, one frame read, one page served or written, commit.
The object applies one frame at a time (`Free`). Failures are actions or
outcomes that `Faults` switches on: a client dies or is cut off with a suffix of
its frames lost, a storage call errs, the socket refuses a frame, the object is
evicted. `LocalWrite` is the application that owns the file.

**SyncConsistency** adds history variables (which values each page had in the
object and in the file while a session ran) that no action reads, and states
what a successful push or pull has achieved in terms of them.

**SyncedDatabase** is the abstract specification: a store, a file per host, and
sessions that begin, take their list of pages (`Handshake`), store one page
(`StorePage`), finish a push, commit a pull at once, fail, or are closed by the
object; a session whose token is for the other command may fail or end well, and
moves nothing (`FinishUnfit`). It has no frames, hashes, phases, counts or
queues. A push may end well only when each of its pages was met on both sides
(`Met`: both have had the same value of it while the session ran); a pull only
with values the store held, all that the object had at the handshake, in one
step. `Synced` in SyncConsistency is its instance under the refinement mapping
(`store` is the data column of `pages`, `todo` what the client opened or the
object answered, `held` and `had` the histories), and `ImplementsSyncedDatabase`
that every step of the protocol is a step of it or none. Late frames of a dead
push are the reason why sessions are `open` longer than they run.

**DoMigrations** (`do_migrations.rs`, `do_edge_replica.rs`, `lib.rs`,
`repo_d1.rs`). An object runs its migrations inside one fetch without an await,
so no other fetch of it comes between; but every statement commits on its own,
and each is a step that may fail or be the object's last. `at[o]` is where
`ensure_schema` stands, `latch[o]` the flag of the instance. `MIGRATIONS` are
all versions ever written, `deployed` how many of them the running build knows;
`Deploy` goes forward and back. The repository has one version so far; the code
is written for more and the models take any number. At D1 the batch is atomic
and awaited, so other requests of the isolate run before its answer sets
`SCHEMA_READY`.

**ClientConfig** (`main.rs`, `auth_cmd.rs`, `db_cmd.rs`, `config.rs`,
`transport.rs`). Each process is one command: it loads the file, may override
the server, calls its RPC, and after a sign-in writes the whole config back, in
the two steps `std::fs::write` has, truncation and writing.

**Accounts** and **Databases** (`admin.rs`, `repo_d1.rs`, `tokens.rs`,
`oauth.rs`, `session_auth.rs`, `sync_forward.rs`). The tables are functions from
identifiers to rows or sets of rows; `call[c]` is the request process `c`
serves, with the point where it waits (`pc`) and its local variables. One action
is a query as D1 runs it, with the handler's code up to the next await; where
code between two queries decides on a row already read (`DeleteDatabase`,
`IssueSyncToken`) the answer is a step of its own. Each query may fail before or
after it commits. The clock is one variable; tokens ever minted are a set, and
only members of it can be presented, with caveats appended (**Tokens**: what is
signed cannot be changed, what is a caveat can be added by anyone who holds the
token).

The abstractions, all of data: a page's contents is a model value, its hash an
injective tag of it, a digest of a range the sequence of its hashes (BLAKE3 is
taken to be injective, a macaroon to be unforgeable, a password hash to verify
only its password). Byte counts go with page counts. An email is an address and
a spelling that `LOWER` forgets; a name is a text and whether blanks surround
it, because `create_database` checks and stores the trimmed name. Error texts
are left out; error codes are kept.

## 3. The runs

| Run | What it asks | States | Bounds |
|---|---|---|---|
| `MCSyncSession` | What does the state machine promise against any client? | 1.3M | 2 pages, 2 contents, 4 frames sent, 3 transfers, batches up to 2 |
| `MCPushPull` | Do client and object agree while a push and a pull race, and do they implement SyncedDatabase? | 0.6M | 2 pages, 2 contents, 2 hosts, 1 session each with its own or the other's token, 1 local write at the pulling host, no failure |
| `MCPushRetry` | What has a push achieved that is retried over its own remains? Is it SyncedDatabase, and does the invariant of the proofs hold? | 0.7M | 2 pages, 1 host, 2 sessions, 1 local write, every failure but a refusing socket |
| `MCLive` | Do all sessions succeed if nothing fails? | 114k | 2 pages |
| `MCLiveFaults` | Do all sessions end whatever fails, without a message that neither the phase nor the token explains? | 0.3M | 1 page, a fitting token for both sessions or for one, 1 local write, every failure |
| `MCDoMigrations` | Is every table there for whoever is served, and every row kept? | 0.3M | 2 objects, 2 requests, 2 versions with 2 tables and 1, 2 faults |
| `MCAccounts` | Whole accounts and single-use states under races, failures and expiry | 0.6M | 2 requests at a time, 2 users, 2 addresses, 1 GitHub user, 1 state, one tick |
| `MCOAuthRace` | One account per key, sessions only for their users | 1.0M | the same with 3 spellings of the 2 addresses, 2 states and a clock that stands still |
| `MCDatabases` | Names, deletions, tokens, admissions | 1.1M | 2 requests at a time, 2 databases, 2 organizations, 3 sessions, 1 token, one tick, a caveat appended or none |
| `MCClientConfig` | Does the config file keep token and server together? | 1.7M | 3 commands, 2 servers |
| `MCStaleMaxPage` | *violated*: `server_max_page` is stable during a pull | | 1 page, a push and a pull |
| `MCUnclaimedPush` | *violated*: a push reconciles unclaimed pages | | 1 page, 3 frames sent |

Why these bounds are enough for the interesting cases. Two pages give a first, a
last and, with contents two, every pattern of equal, differing and missing; a
hole needs two. Two contents make every comparison go either way, and a third
would only rename. Two sessions give each pairwise race; the code has no state
that a third session could see beyond the table. Two pushes at once are in
`MCPushRetry`, where the first, its client dead, still stores what it had sent;
storage that fails and an object that restarts are there too. The fourth
failure, a socket that refuses a frame, ends one session and leaves the other
running: it is in `MCSyncSession`, in `MCLiveFaults`, which has all four
together, and in the proofs. Tokens of the wrong direction come in both forms, a
push with a pull token and a pull with a push token, at once in `MCPushPull` and
beside a fitting one in `MCLiveFaults`; the other runs, which ask what a session
achieves, have fitting ones, and the proofs have any. In `SyncSession` the
client's frames are unbounded in kind but bounded by the frames and transfers
they cause, and the proofs lift that bound. In `Accounts` two users, an address
in two spellings and one GitHub identity give the clash of every unique index,
and the state is stored at one time and consumed at that or a later one; its ttl
of 0 puts expiry at the next tick. Two states let the same GitHub user come
twice, at once or again, which is where the existing identity is found. In
`Databases` the default lifetime 2 is above the cap 1, as the configuration
allows, and the requested lifetimes 0 and 3 take one each; a token with the cap
expires at the first tick, one with the default does not; a session expires
after the first tick, and what is appended to a token is nothing, a later
expiry, or no expiry. In `DoMigrations` two faults are what it takes to cut a
start short and to cut short the one that should repair it, two objects what it
takes to mistake one's latch for the other's; the proofs lift these bounds.
Three commands give a save that runs into two others. Symmetry is used only over
values the module treats alike (contents; requests, commands, identifiers), and
never in a liveness run. `CHECK_DEADLOCK FALSE` is said for `SyncSession` only,
where a closed task is the end.

Every property of a passing run has a mutant: a plausible bug, defined beside
the definition it replaces (`Mutant:` in its comment), under which TLC finds the
property violated in the same run.

The properties, in the words of what they rule out:

- `CompleteIsLast`, `CompleteMeansSettled`, `WaitsForPages`,
  `PendingWasRequested`, `PullOffersEveryPage` (SyncSession): a second
  `SyncComplete`, one that leaves before its pages, a task that waits for
  nothing, a wait for a request that never left, a page a pull forgot.
- `RequestInOnePlace`, `SurprisesAreErrors`, `CountsAgree`, `NoHoles`,
  `BatchMatchMeansEqual` (SyncSystem): a request lost or served twice, a frame
  that makes the client bail out although its token fits and nothing failed,
  counts that differ, a page range with a gap,
  two different ranges with one digest.
- `SessionsEnd`, `SessionsSucceed`: a session that never ends.
- `ImplementsSyncedDatabase` (SyncConsistency): a push that reports a page which
  never was on both sides, a late frame with bytes the file never had, a pull
  that half happened, that forgot a page of its handshake, or that wrote what
  the object never held, a session with the wrong token that changed either
  side. `PushIsExact`, `PullIsExact`: when nobody interferes,
  anything less than equality. `XIInv` is the invariant the proofs of this
  module and of SyncSystem rest on, checked in `MCPushRetry`.
- `ServedFindsSchema`, `StampsAreTrue`, `RowsSurvive`, `SchemaHeals`
  (DoMigrations): a session or request that meets a missing table, a stamp that
  lets the next start skip what was never made, a migration that runs again over
  rows and loses them, an object left half migrated for ever.
- `AccountsAreWhole`, `KeysAreUnique`, `NothingDangles`, `SessionsAreProved`,
  `StatesAreSingleUse` (Accounts): an account in part, two for one address, a
  request that meets a row without its partner, somebody else's session, a
  state used twice.
- `NamesAreUnique`, `DeletionsAreFinal`, `OnlyOwnersDelete`,
  `NoTokenAfterDeletion`, `RequestsAreCapped`, `AdmissionsAreAuthorized`
  (Databases): two databases of one name, a deletion that happened twice, by a
  stranger or not for good, a token minted after it, one that lives longer
  because it was asked to than the cap allows, one that a caveat of its holder
  prolonged or that expired on the way from the edge.
- `TokenGoesHome`, `SavedIsKept` (ClientConfig): a session token sent to a server
  that did not issue it without being told to, a config file lost or unreadable
  outside the window of a save.

### Fairness

`MCLive`, `MCLiveFaults` and `MCDoMigrations` assume any. The first two: weak
fairness of each client's
steps and of each task's steps in the object. The client is a sequential program
that is either running or waiting for a frame; the runtime delivers queued
events to a task and never holds one back for ever; and a connection whose other
end is gone is reported to its reader once everything sent has been read
(`RecvClosed`, `PeerClose`). The last is an assumption about the platform, since
neither end has a timeout: on a half-open connection the code would wait for
ever. Nobody has to start a session, no failure has to happen, and a socket that
refuses a frame is taken to be gone, which is when the runtime refuses one.

`SchemaHeals` assumes that `ensure_schema` runs to its end or to its failure,
which it does because it awaits nothing, and that an object is asked again while
its latch is down, which is up to its clients. Faults are bounded, so it says
what happens once they stop.

### Where documents and code differ

Shown by a run:

- `sync_fsm.rs:49` says storage is single-writer and `server_max_page` stable. A
  concurrent push raises it under a pull. `ImplementsSyncedDatabase` says what a
  pull still achieves.
- `protocol/README.md:104` says a push ends with reconciliation over pages the
  client never claimed. Only a pull walks; pages of the object beyond the
  pushed file stay.

Met while modelling, and too direct to need a run: the gate in `client_closed`
never finds anything to open (lemma `ClientClosedNoop`), although the head of
`sync_fsm.rs` counts it among the ways a session completes; `admin.proto:6` and
`session_auth.rs:9` list `Whoami` as unauthenticated, the handler requires a
session; `admin.rs:4` says OAuth answers `Unimplemented` until configured, but
`CompleteOAuth` looks its state up first and answers `permission_denied`;
`admin.proto` gives the cap on sync tokens as 1 hour by default,
`Config::default` has 24 hours (1 hour is the default lifetime);
`protocol/README.md:183` says that sync tokens are "capped at
`MAX_SYNC_TOKEN_TTL_SECONDS`", and `README.md:109` calls it the "server-side cap
on sync-token TTL", but only a lifetime that was asked for is capped
(`admin.rs:320`): a default above the cap, which `lib.rs:163` does not rule out,
is minted as it is, and `RequestsAreCapped` says exactly that; `sync_fsm.rs:7`
and `protocol/README.md:93` say the FSM enforces who may send what, while
`handle_page_data` looks at no direction and stores what a pull session sends it
(`SyncSession` has it so; no client of this repository does it);
`client/src/sync_ws.rs:43` and `README.md:63` pair each command with a token of
its direction, which nothing checks: with the other token the session fails at
the first difference that the object acts on, and where there is none, with an
empty file or an empty object for instance, it reports success having moved
nothing.

Facts a reader may want to know, which no document contradicts: a sync token for
a database that was deleted stays valid until it expires, and the object keeps
its pages; an admitted session outlives its token; of two `CompleteOAuth` calls
that race for one new identity the loser is told `already_exists`;
`validate_email` trims only what it checks, so an address with blanks around it
is another account; `LOWER` of D1 folds ASCII only while the in-memory twin
folds Unicode;
after a deployment is rolled back an object keeps the tables and stamps of the
later build; a save of the client that is killed between its two halves leaves an
empty config file, with which every command fails, `login` included, until
somebody removes it; a command given `--server` sends the token of the file to
that server.

## 4. The proofs

`SyncFsmProofs` and `SyncSessionProofs` prove, for every `LastPage`, `Content`
and bound, all safety properties of `SyncSession` that `MCSyncSession` checks.
The assumptions are those the modules name on their constants, and nothing else.

The argument has two layers. **Lemmas about handlers** (`HelloLegal` to
`ClientClosedNoop`) say of each operator of `SyncFsm` that each of its outcomes
is *Legal*: well-typed; losing no row; emitting at most one frame; `SyncComplete`
only with `emitted_complete` set, and nothing after it; waiting for a page only
in the step that requests it; moving the walk's cursor only past rows that are
claimed or just sent. They hold from a *Ready* FSM, one whose task is open:
between two events it has not emitted, and past the hash phase it waits for
pages. `ApplyLegal` and `ResumeLegal` put the handlers together.

**The session** is then proved from `Legal` alone, without opening a handler.
The properties are not inductive by themselves: `CompleteIsLast` needs to know
that the FSM remembers having emitted, `WaitsForPages` that every way out of
`apply` leaves a Ready FSM, and `PullOffersEveryPage` that the walk leaves no
unclaimed row behind. `IInv` adds these: `Shape` (which control positions meet),
`Ready` while the task is open, `Completions # {} => emitted_complete`, and
`WalkLeavesNoGap`. TLC checks `IInv` in `MCSyncSession`; `InitIInv` and
`NextIInv` prove it inductive, and each theorem follows from it:

| Theorem | Property |
|---|---|
| `SpecIInv` | `IInv` |
| `AtMostOneSyncComplete` | `CompleteIsLast` |
| `NoSilentStall` | `WaitsForPages` |
| `WaitsForWhatItRequested` | `PendingWasRequested` |
| `CompletionIsFinal` | `CompleteMeansSettled` |
| `PullIsComplete` | `PullOffersEveryPage` |

`SyncSystemProofs` proves every safety property of `SyncSystem` that a run
checks, for any number of pages, hosts and sessions, any contents, and whatever
fails. It builds on the lemmas of `SyncFsmProofs` and opens each handler once
more, for what it does to the frames of its session.

Sessions share only the object's table and the files, from which no page ever
goes away and whose contents no frame order depends on. So the
invariant `IInv` is the predicate `Linked` of one session, taken for each of
them, with `TypeOK` and `NoHoles`; what others store keeps a session's `Linked`
(`LinkedMonotone`), and a step has to be examined for the session that takes it.
`Linked` ties the two ends to the two channels between them:

| Part | What it says |
|---|---|
| `FsmOK`, `ClientOK` | each end by itself: an open task is between two events; a client claims only pages its file has, and serves no others |
| `Upstream` | hashes arrive in page order without a gap, then `Complete`, then bytes |
| `Greeting`, `Phases` | both ends are in the same phase; what a push has served is what the object has stored or will |
| `Downstream` | requests or pages, then at most one `Error` or `SyncComplete`, with the client's count in it |
| `Requested`, `InOrder` | a page waited for is in one place of three (asked for, queued, served), and the places are in ascending order |
| `NoGap`, `Walked` | past the pages of the client, those of the object come without a gap |

Order is what makes it inductive. That a page is requested once says nothing
about holes: a push that is cut off leaves what it had stored so far, and only
because requests, queue and bytes are all ascending is that a prefix of the file
(`Requested` says so of what is still under way to an object whose client is
gone). `BatchMatchMeansEqual` rests on `NoHoles` and `RowsTrue` alone: two
ranges without holes that have one digest cover the same pages.

Tokens are arbitrary here. `Linked` speaks of the direction the object serves,
which is the token's, and holds also of a session whose client runs the other
command: such a client leaves at the first frame it does not know. What its
command rules out by itself is `Commanded`: a push never opens a transaction, a
pull never serves a page. `SurprisesAreErrors` names both kinds of surprise.

| Theorem | Property |
|---|---|
| `Invariance` | `IInv` |
| `TypeCorrect` | `TypeOK` |
| `HolesNever` | `NoHoles` |
| `PhasesAgree` | `SurprisesAreErrors` |
| `CommandIsRun` | a client is in the phases of its command (`Commanded`) |
| `CountsMatch` | `CountsAgree` |
| `RequestsAreKept` | `RequestInOnePlace` |
| `RowsStayTrue` | the hash of a row is that of its bytes (`RowsTrue`) |
| `BatchMatchIsSound` | `BatchMatchMeansEqual` |

`SyncConsistencyProofs` proves that `SyncSystem` with its histories implements
`SyncedDatabase`. Beside `IInv` and `RowsTrue` this needs `Honest`, of each
session: frames carry what their sender's side had while the session ran (`Taken`,
`Given`), and each page the object has dealt with is *settled*, that is both
sides have had one value of it or it is on its way into the file. A page is
dealt with when it was claimed and is not waited for (push), or when it was
claimed or lies below the cursor (pull); so a `SyncComplete` on its way means
that every promised page is settled. `Honest` survives the steps of others
because histories only grow and rows never go away (`HonestMonotone`). That a
session with the wrong token moves nothing needs two facts more, which `HIInv`
has for every session: `Commanded`, and `ServesNone`, that no bytes are under way
from a pull. The initial states map
to initial states (`InitMaps`), and each step to one step (`NextRefines`):

| Step of `SyncSystem` | Step of `SyncedDatabase` |
|---|---|
| `Start` | `Begin` |
| an `apply` of `Hello` that goes well | `Handshake` |
| an `apply` of `PageData` that stores | `StorePage` |
| any other `apply` or `Resume`, `PeerClose`, a restart | `Close` of the tasks it ends, maybe none |
| `RecvSyncComplete` | `FinishPush` or `CommitPull`, or `FinishUnfit` with a token for the other command |
| `RecvOther`, `RecvClosed`, `ClientFails` | `Fail` |
| `LocalWrite` | `LocalWrite` |
| any other step of a client, `Finished` | `Close` of none: only the histories move |

Exactness is about sessions that ran `alone`. `Undisturbed` says that nothing
which a running session has seen is gone; that nobody but the push itself has
replaced what the object held when it ran alone (`Replaced`); and that what a
pull was promised is still all the object has. `XIInv` is `HIInv` with it. What
others may do is read off the refinement (`StoreSteps`, `FileSteps`: what a step
of `SyncedDatabase` does to the store and to a file), and no handler is opened
again. Over a quiet file the value on which both sides have met is the file's
only one, hence the object's, which is equality. TLC checks `XIInv`, and with it
everything above, in `MCPushRetry`.

| Theorem | Property |
|---|---|
| `HonestAlways` | `HIInv` |
| `SyncRefines` | `ImplementsSyncedDatabase` |
| `AloneUndisturbed` | `XIInv` |
| `PushesAreExact` | `PushIsExact` |
| `PullsAreExact` | `PullIsExact` |

`DatabasesProofs` proves, for any number of requests, databases, organizations,
sessions, names and appended caveats, every property that `MCDatabases` checks,
from `DatabasesAssumption` and `TokensAssumption` alone, which leave default and
cap of the lifetimes unrelated. What has to be shown is
that a decision made on an
old row is still right when it takes effect. `IInv` therefore says of each place
where a request may wait what the request *knows* there (`CallOK`): whose
database it has read, that its caller may delete it, that its deletion had not
been answered when it came in, that the claims of its token were minted and the
caveats they were minted with are still among its own. It says so in terms of
histories that only grow (`created`, the minted tokens, the answered deletions),
so what a request knows stays true while others run (`KnowsStays`), and a proof
looks only at the request that moves (`CallsStep`). Beside it stand facts about
the tables: a row belongs to who created it and its name is trimmed (`RowsOK`,
without which `NamesAreUnique` is not inductive), a token names a database and
its creator (`TokensOK`), only what was created was deleted. The action
properties follow from `IInv` and from which actions write a table (`Writers`).

| Theorem | Property |
|---|---|
| `SpecIInv` | `IInv` |
| `UniqueNames` | `NamesAreUnique` |
| `FinalDeletions` | `DeletionsAreFinal` |
| `OwnersOnly` | `OnlyOwnersDelete` |
| `NoLateToken` | `NoTokenAfterDeletion` |
| `CappedRequests` | `RequestsAreCapped` |
| `AuthorizedAdmissions` | `AdmissionsAreAuthorized` |

`DoMigrationsProofs` proves, for any number of objects, requests, migrations
(each with any tables) and faults, the safety properties that `MCDoMigrations`
checks, from `MigrationsAssumption`: versions ascend, and the first one creates
`schema_version` and `pages`. The three parts of `IInv` lean on each other: a
start may skip what its version covers because stamps are true (`StampsAreTrue`),
a stamp written at the end of a migration is true because of what the start has
passed (`PassedIsMade`), and a latch is set only by a start that has passed
everything (`LatchesAreTrue`). Crashes and failures keep all three, since what
they leave behind is less memory and the same tables.

| Theorem | Property |
|---|---|
| `SpecIInv` | `IInv` |
| `TrueStamps` | `StampsAreTrue` |
| `SchemaServed` | `ServedFindsSchema` |
| `SurvivingRows` | `RowsSurvive` |

`ClientConfigProofs` proves, for any number of commands and servers, what
`MCClientConfig` checks. `IInv` follows a whole config from the file into a
process (`HeldIsWhole`) and back (`FileIsWhole`), and an undisturbed save from
its truncation to its end (`SavesAreAlone`).

| Theorem | Property |
|---|---|
| `SpecIInv` | `IInv` |
| `KeptSaves` | `SavedIsKept` |
| `TokensGoHome` | `TokenGoesHome` |

`AccountsProofs` proves, for any number of requests, users, addresses, GitHub
users, states and configurations, every property that `MCAccounts` and
`MCOAuthRace` check, from `AccountsAssumption`. The argument is that of
`Databases`: `CallOK` says what a sign-in knows where it waits, that the user it
has found is there and that its caller has proved to be that user; accounts are
created whole and never removed and sessions never taken back (`Grows`), so it
stays true while others run (`KnowsStays`). `IInv` adds what a password identity
holds (`IdentitiesOK`: its user's id as subject, without which two of them might
clash, and a password, without which `CheckPassword` might meet a row it cannot
use), that a session's rows are there (`SessionsOK`), and that a state which is
about to be stored is new and is stored by one request (`StatesOK`, without
which a state that was consumed could come back). That a personal organization's
owner exists is part of `AccountsAreWhole`: it keeps a new user from inheriting
an old organization.

| Theorem | Property |
|---|---|
| `SpecIInv` | `IInv` |
| `WholeAccounts` | `AccountsAreWhole` |
| `UniqueKeys` | `KeysAreUnique` |
| `SingleUseStates` | `StatesAreSingleUse` |
| `NeverDangles` | `NothingDangles` |
| `ProvedSessions` | `SessionsAreProved` |

**What is left to TLC.** Liveness only (`SessionsEnd`, `SessionsSucceed`,
`SchemaHeals`): the prover does no ENABLED, hence no fairness. Every invariant
and every safety property of a passing run is a theorem. Two things stay
outside of both: that the history variables of `SyncConsistency` restrict no
step is seen from their definition (`Observe` only gives them a next value, and
nothing reads them) and not stated as a theorem; and that hashes and digests
tell contents apart is an abstraction of the model, not a result.

## 5. What is not modelled

- Page numbers outside `1 .. LastPage`: page 0 and numbers near 2^32 reach no
  branch of their own.
- Files that shrink (a pull never truncates; a VACUUM during a push makes a page
  read fail, which is `ClientFails`).
- Half-open connections, see fairness.
- The msgpack encoding (a frame that does not decode is modelled), TLS, HTTP,
  the callback page, the reading of configuration, logs, request ids.
- Reads of the config file that meet a half-written text: a text this short is
  written by one call.
- The HTTP exchange with GitHub beyond its outcomes.
- Repository methods no RPC calls (organizations, memberships, linking of
  identities), several of which answer "unimplemented" on D1, and the in-memory
  repository, which only tests use.
- Cryptography: BLAKE3, macaroons and Argon2 are library calls.
- Benchmarks, integration tests and generated API types.

## 6. The plan

Done, in this order: the sync core (SyncProtocol, SyncStorage, SyncFsm,
SyncSession), its proofs, the composed system and its consistency, the RPCs
(Accounts, Databases), the proofs of Databases; then DoMigrations with its
proofs, SyncedDatabase and the refinement by model checking, ClientConfig with
its proofs, Tokens with appended caveats, and the proofs of Accounts; last the
proofs of SyncSystem, of the refinement of SyncedDatabase and of exactness.

Next:

1. The in-memory repository of the tests beside the D1 one: where the two
   answer differently, tests say nothing about D1.
2. SyncSession as an abstraction of the object's end in SyncSystem, by proof:
   what holds against any client then holds against this one.
