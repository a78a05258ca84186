----------------------------- MODULE Databases -----------------------------
(***************************************************************************)
(* The database half of AdminService (worker/src/services/admin.rs):       *)
(* CreateDatabase, ListDatabases, DeleteDatabase and IssueSyncToken over   *)
(* the databases table of worker/src/repo_d1.rs, and the way a sync token  *)
(* takes through the edge (sync_forward.rs) into the database's            *)
(* DurableObject (do_sync_ws.rs).                                          *)
(*                                                                         *)
(* Every request is a process of its own.  A query runs at D1 at one       *)
(* instant and the handler goes on with its answer at a later one; other   *)
(* requests run between the two.  Sessions come from Accounts.             *)
(***************************************************************************)
EXTENDS Tokens, FiniteSets

CONSTANTS
  Call,        \* requests in flight at a time
  Session,     \* the sessions callers hold
  Text,        \* names without the blanks around them
  Ttl,         \* lifetimes callers ask for; 0 stands for the negative ones too
  Appended,    \* what holders append to a token before they use it
  sync_token_ttl_seconds, max_sync_token_ttl_seconds,
  MaxNow,      \* bound: the clock stops there
  MaxTokens,   \* bound: IssueSyncToken is called with fewer tokens minted
  Faulty       \* whether D1 may fail

ASSUME DatabasesAssumption ==
  /\ Session \subseteq
       [org : OrgId, role : {"admin", "member"}, exp : Nat]
  /\ sync_token_ttl_seconds \in Nat
  /\ max_sync_token_ttl_seconds \in Nat
  /\ Ttl \subseteq Nat /\ MaxNow \in Nat /\ MaxTokens \in Nat
  /\ Faulty \in BOOLEAN
  /\ Appended \subseteq SUBSET Caveat

\* A name as typed, and as str::trim leaves it.
Name == [text : Text, padded : BOOLEAN]
trim(name) == [name EXCEPT !.padded = FALSE]

Row == [name : Name, org_id : OrgId]

\* The macaroon of a session.
SessionToken(t) == mint_session(t.org, t.role, t.exp)

VARIABLES
  databases,    \* DatabaseId -> Row, for the rows there are; identifiers
                \* are random and never drawn twice
  sync_tokens,  \* sync tokens ever minted
  created,      \* history: DatabaseId -> org, for every row there ever was
  deletions,    \* history: how many DeleteDatabase calls answered ok
  now,
  call          \* the request each process serves, or None

vars == <<databases, sync_tokens, created, deletions, now, call>>

Rpc == {"CreateDatabase", "ListDatabases", "DeleteDatabase",
        "IssueSyncToken", "Sync"}

\* "x_query": x has been sent to D1; "x_answer": it has run there.
Await == {"create_query", "list_query", "get_query", "get_answer",
          "delete_query", "edge", "object"}

Answer == {"ok", "unauthenticated", "permission_denied", "invalid_argument",
           "already_exists", "not_found", "internal"}

\* row is what the database answered; gone, a history, the databases whose
\* deletion had been answered when the request came in.
Request ==
  [gone : SUBSET DatabaseId, pc : Await \cup {"done"},
   session : Session \cup {None}, name : Name \cup {None},
   database : DatabaseId \cup {None}, rpc : Rpc, ttl : Ttl \cup {None},
   row : Row \cup {None}, token : Macaroon \cup {None},
   res : Answer \cup {None}]

TypeOK ==
  /\ DOMAIN databases \subseteq DOMAIN created
  /\ databases \in [DOMAIN databases -> Row]
  /\ sync_tokens \subseteq Macaroon
  /\ DOMAIN created \subseteq DatabaseId
  /\ created \in [DOMAIN created -> OrgId]
  /\ deletions \in [DatabaseId -> Nat]
  /\ now \in 0 .. MaxNow
  /\ call \in [Call -> Request \cup {None}]

Init ==
  /\ databases = <<>> /\ created = <<>>
  /\ deletions = [d \in DatabaseId |-> 0]
  /\ sync_tokens = {} /\ now = 0
  /\ call = [c \in Call |-> None]

-----------------------------------------------------------------------------
(* How a request moves.                                                    *)

Waits(c, pc) == call[c] # None /\ call[c].pc = pc

GoOn(c, pc) == call' = [call EXCEPT ![c].pc = pc]

Blank(rpc, pc) ==
  [gone |-> {}, pc |-> pc, session |-> None, name |-> None,
   database |-> None, rpc |-> rpc, ttl |-> None, row |-> None,
   token |-> None, res |-> None]

\* The handler returns, its variables are gone.
Done(r, res) == [Blank(r.rpc, "done") EXCEPT !.res = res]

End(c, res) == call' = [call EXCEPT ![c] = Done(@, res)]

\* map_store_error answers a backend failure by Internal.
BackendFails(c) == Faulty /\ End(c, "internal")

Arrive(c, r) ==
  /\ call[c] = None
  /\ call' = [call EXCEPT ![c] = r]
  /\ UNCHANGED <<databases, sync_tokens, created, deletions, now>>

\* Requests without a session, of a member where an admin is called for, or
\* with a name that validate_database_name rejects, end before any query.
Refusal ==
  {<<rpc, "unauthenticated">> : rpc \in Rpc}
    \cup {<<"CreateDatabase", "permission_denied">>,
          <<"DeleteDatabase", "permission_denied">>,
          <<"CreateDatabase", "invalid_argument">>}

Refuse(c) ==
  \E x \in Refusal : Arrive(c, [Blank(x[1], "done") EXCEPT !.res = x[2]])

\* The sessions the middleware verifies at this moment.
LiveSession == {t \in Session : verify_session(SessionToken(t), now)}
LiveAdmin == {t \in LiveSession : t.role = "admin"}

\* The answer is delivered, or its reader is gone: the process is free.
Answered(c) ==
  /\ Waits(c, "done")
  /\ call' = [call EXCEPT ![c] = None]
  /\ UNCHANGED <<databases, sync_tokens, created, deletions, now>>

Tick ==
  /\ now < MaxNow /\ now' = now + 1
  /\ UNCHANGED <<databases, sync_tokens, created, deletions, call>>

-----------------------------------------------------------------------------
(* CreateDatabase and ListDatabases.                                       *)

\* Mutant: the name is checked without its blanks and stored with them.
create_database_untrimmed(c) ==
  \E t \in LiveAdmin, n \in Name :
    Arrive(c, [Blank("CreateDatabase", "create_query") EXCEPT
                 !.session = t, !.name = n])

create_database(c) ==
  \E t \in LiveAdmin, n \in Name :
    Arrive(c, [Blank("CreateDatabase", "create_query") EXCEPT
                 !.session = t, !.name = trim(n)])

\* UNIQUE (org_id, name).  A statement that has committed may still be
\* answered by an error.
CreateQuery(c) ==
  LET row == [name |-> call[c].name, org_id |-> call[c].session.org]
      clash == \E d \in DOMAIN databases : databases[d] = row
  IN  /\ Waits(c, "create_query")
      /\ \/ /\ clash /\ End(c, "already_exists")
            /\ UNCHANGED <<databases, created>>
         \/ /\ ~clash
            /\ \E d \in DatabaseId \ DOMAIN created :
                 /\ databases' = [x \in DOMAIN databases \cup {d} |->
                      IF x = d THEN row ELSE databases[x]]
                 /\ created' = [x \in DOMAIN created \cup {d} |->
                      IF x = d THEN row.org_id ELSE created[x]]
            /\ End(c, "ok") \/ BackendFails(c)
         \/ BackendFails(c) /\ UNCHANGED <<databases, created>>
      /\ UNCHANGED <<sync_tokens, deletions, now>>

\* Reads the rows of the session's organization and answers with them.
list_databases(c) ==
  \E t \in LiveSession :
    Arrive(c, [Blank("ListDatabases", "list_query") EXCEPT !.session = t])

ListQuery(c) ==
  /\ Waits(c, "list_query")
  /\ End(c, "ok") \/ BackendFails(c)
  /\ UNCHANGED <<databases, sync_tokens, created, deletions, now>>

-----------------------------------------------------------------------------
(* DeleteDatabase and IssueSyncToken begin with the same query.            *)

AnsweredDeletions == {d \in DatabaseId : deletions[d] > 0}

delete_database(c) ==
  \E t \in LiveAdmin, d \in DatabaseId :
    Arrive(c, [Blank("DeleteDatabase", "get_query") EXCEPT
                 !.session = t, !.database = d])

issue_sync_token(c) ==
  /\ Cardinality(sync_tokens) < MaxTokens
  /\ \E t \in LiveSession, d \in DatabaseId, ttl \in Ttl :
       Arrive(c, [Blank("IssueSyncToken", "get_query") EXCEPT
                    !.session = t, !.database = d, !.ttl = ttl,
                    !.gone = AnsweredDeletions])

get_database(c) ==
  LET d == call[c].database
  IN  /\ Waits(c, "get_query")
      /\ \/ d \notin DOMAIN databases /\ End(c, "not_found")
         \/ /\ d \in DOMAIN databases
            /\ call' = [call EXCEPT ![c].pc = "get_answer",
                                    ![c].row = databases[d]]
         \/ BackendFails(c)
      /\ UNCHANGED <<databases, sync_tokens, created, deletions, now>>

\* Mutant: the organization of the row is not compared.
OwnRow_unchecked(r) == TRUE

\* db.org_id == session.org, of the row as it was read.
OwnRow(r) == r.row.org_id = r.session.org

DenyForeign(c) ==
  /\ Waits(c, "get_answer") /\ ~OwnRow(call[c])
  /\ End(c, "permission_denied")
  /\ UNCHANGED <<databases, sync_tokens, created, deletions, now>>

GoOnToDelete(c) ==
  /\ Waits(c, "get_answer") /\ call[c].rpc = "DeleteDatabase"
  /\ OwnRow(call[c])
  /\ GoOn(c, "delete_query")
  /\ UNCHANGED <<databases, sync_tokens, created, deletions, now>>

\* Mutant: the count of changed rows is not looked at.
DeleteQuery_uncounted(c) ==
  LET d == call[c].database
  IN  /\ Waits(c, "delete_query")
      /\ databases' = [x \in DOMAIN databases \ {d} |-> databases[x]]
      /\ deletions' = [deletions EXCEPT ![d] = @ + 1]
      /\ End(c, "ok")
      /\ UNCHANGED <<sync_tokens, created, now>>

\* Mutant: an error of the statement is dropped and the answer is ok.
DeleteQuery_drops_error(c) ==
  LET d == call[c].database
  IN  /\ Waits(c, "delete_query")
      /\ databases' \in {databases,
                          [x \in DOMAIN databases \ {d} |-> databases[x]]}
      /\ deletions' = [deletions EXCEPT ![d] = @ + 1]
      /\ End(c, "ok")
      /\ UNCHANGED <<sync_tokens, created, now>>

\* DELETE by id; a statement that changed no row is NotFound.
DeleteQuery(c) ==
  LET d == call[c].database
      rest == [x \in DOMAIN databases \ {d} |-> databases[x]]
  IN  /\ Waits(c, "delete_query")
      /\ \/ /\ databases' = rest
            /\ \/ /\ d \in DOMAIN databases /\ End(c, "ok")
                  /\ deletions' = [deletions EXCEPT ![d] = @ + 1]
               \/ /\ d \notin DOMAIN databases /\ End(c, "not_found")
                  /\ UNCHANGED deletions
               \/ BackendFails(c) /\ UNCHANGED deletions
         \/ BackendFails(c) /\ UNCHANGED <<databases, deletions>>
      /\ UNCHANGED <<sync_tokens, created, now>>

\* Mutant: what is asked for is not held below the cap.
lifetime_uncapped(ttl) == IF ttl <= 0 THEN sync_token_ttl_seconds ELSE ttl

\* The lifetime of a sync token.  The two settings are read independently:
\* the default may exceed the cap, and is not held below it.
lifetime(ttl) ==
  IF ttl <= 0 THEN sync_token_ttl_seconds
  ELSE IF ttl <= max_sync_token_ttl_seconds THEN ttl
  ELSE max_sync_token_ttl_seconds

\* Neither push nor pull: found out only after the query.
RejectDirection(c) ==
  /\ Waits(c, "get_answer") /\ call[c].rpc = "IssueSyncToken"
  /\ OwnRow(call[c])
  /\ End(c, "invalid_argument")
  /\ UNCHANGED <<databases, sync_tokens, created, deletions, now>>

\* The token is minted from the row as it was read and the clock of now.
MintSync(c) ==
  LET r == call[c]
  IN  /\ Waits(c, "get_answer") /\ r.rpc = "IssueSyncToken"
      /\ OwnRow(r)
      /\ sync_tokens' = sync_tokens \cup
           {mint_sync(r.session.org, r.database, now + lifetime(r.ttl))}
      /\ End(c, "ok")
      /\ UNCHANGED <<databases, created, deletions, now>>

-----------------------------------------------------------------------------
(* The /sync upgrade: verified at the edge, forwarded to the object the     *)
(* token names, and verified there again, later.                           *)

\* The bearer brings a sync token, or a session token by mistake.
forward(c) ==
  \E t \in sync_tokens \cup {SessionToken(x) : x \in Session},
     caveats \in Appended :
    Arrive(c, [Blank("Sync", "edge") EXCEPT !.token = append(t, caveats)])

VerifyAtEdge(c) ==
  /\ Waits(c, "edge")
  /\ IF verify_sync(call[c].token, now) THEN GoOn(c, "object")
     ELSE End(c, "unauthenticated")
  /\ UNCHANGED <<databases, sync_tokens, created, deletions, now>>

\* The object asks again, at its own time.
VerifyInObject(c) ==
  /\ Waits(c, "object")
  /\ End(c, IF verify_sync(call[c].token, now) THEN "ok" ELSE "unauthenticated")
  /\ UNCHANGED <<databases, sync_tokens, created, deletions, now>>

-----------------------------------------------------------------------------

Next ==
  \/ Tick
  \/ \E c \in Call :
       \/ Refuse(c) \/ Answered(c)
       \/ create_database(c) \/ CreateQuery(c)
       \/ list_databases(c) \/ ListQuery(c)
       \/ delete_database(c) \/ issue_sync_token(c) \/ get_database(c)
       \/ DenyForeign(c) \/ GoOnToDelete(c) \/ DeleteQuery(c)
       \/ RejectDirection(c) \/ MintSync(c)
       \/ forward(c) \/ VerifyAtEdge(c) \/ VerifyInObject(c)

Spec == Init /\ [][Next]_vars

-----------------------------------------------------------------------------
(* Properties.                                                             *)

\* Within an organization no two databases have one name, blanks around it
\* aside, whatever creations race or are repeated after a lost answer.
NamesAreUnique ==
  \A d, e \in DOMAIN databases :
    /\ databases[d].org_id = databases[e].org_id
    /\ databases[d].name.text = databases[e].name.text
    => d = e

\* DeleteDatabase answers ok at most once for a database, also to calls
\* that all found it; and once it has, the row is gone for good.
DeletionsAreFinal ==
  \A d \in DatabaseId :
    deletions[d] <= 1 /\ (deletions[d] = 1 => d \notin DOMAIN databases)

\* A row is removed only for an admin of its own organization, although the
\* check is made on a row read one query earlier.
OnlyOwnersDelete ==
  [][ \A d \in DOMAIN databases \ DOMAIN databases' :
        \E c \in Call :
          /\ Waits(c, "delete_query") /\ call[c].database = d
          /\ call[c].session.role = "admin"
          /\ call[c].session.org = databases[d].org_id ]_vars

\* A deletion may overtake an IssueSyncToken that has read the row, but a
\* request that comes in after the deletion was answered mints no token.
NoTokenAfterDeletion ==
  [][ \A t \in sync_tokens' \ sync_tokens :
        \E c \in Call :
          /\ Waits(c, "get_answer")
          /\ call[c].database = t.claims.database_id
          /\ call[c].database \notin call[c].gone ]_vars

\* Asking never buys more than the cap: a token lives no longer than its own
\* request asked for nor than max_sync_token_ttl_seconds from when it is
\* minted.  One that no lifetime was asked for lives as long as configured,
\* beyond the cap too if the default is.
RequestsAreCapped ==
  [][ \A t \in sync_tokens' \ sync_tokens :
        \E c \in Call :
          /\ Waits(c, "get_answer") /\ call'[c].res = "ok"
          /\ call[c].database = t.claims.database_id
          /\ \A exp \in t.caveats :
               IF call[c].ttl = 0 THEN exp = now + sync_token_ttl_seconds
               ELSE exp - now <= call[c].ttl
                    /\ exp - now <= max_sync_token_ttl_seconds ]_vars

\* An object admits a client only while a token lives, by the expiry it was
\* minted with and whatever was appended to it, however long the way from
\* the edge took, and only into a database that an organization created for
\* itself and whose sessions were given the token.
AdmissionsAreAuthorized ==
  [][ \A c \in Call :
        Waits(c, "object") /\ Waits(c, "done")' /\ call'[c].res = "ok" =>
          \E t \in sync_tokens :
            LET d == t.claims.database_id
            IN  /\ t.claims = call[c].token.claims
                /\ t.caveats \subseteq call[c].token.caveats
                /\ \A exp \in t.caveats : exp > now
                /\ d \in DOMAIN created /\ created[d] = t.claims.org_id
    ]_vars
=============================================================================
