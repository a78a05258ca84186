------------------------------ MODULE Accounts ------------------------------
(***************************************************************************)
(* The sign-in half of AdminService (worker/src/services/admin.rs): Signup, *)
(* Login, StartOAuth, CompleteOAuth and Whoami, over the D1 tables of      *)
(* worker/src/repo_d1.rs.                                                  *)
(*                                                                         *)
(* Every request is a process of its own.  It gives up control at each     *)
(* await of the repository or of GitHub, and other requests run there: one *)
(* action is the query as D1 executes it together with the handler's code  *)
(* up to the next await.  A batch is atomic in D1; a query may fail, and   *)
(* one that has committed may still be answered by an error.               *)
(***************************************************************************)
EXTENDS Naturals

CONSTANTS
  Call,        \* requests in flight at a time
  UserId, OrgId, State,  \* random identifiers, never drawn twice
  Addr,        \* email addresses up to case
  Email,       \* the spellings of them that occur
  Password,
  Subject,     \* user ids of GitHub
  None,
  Deployed,    \* the configurations isolates may run with
  SessionTtl, StateTtl,
  MaxNow,      \* bound: the clock stops there
  Faulty       \* whether D1 may fail

Setting == {"github_credentials", "oauth_redirect_base"}

ASSUME AccountsAssumption ==
  /\ Email \subseteq [addr : Addr, upper : BOOLEAN]
  /\ Deployed \subseteq SUBSET Setting
  /\ SessionTtl \in Nat /\ StateTtl \in Nat /\ MaxNow \in Nat
  /\ Faulty \in BOOLEAN
  /\ None \notin UserId \cup OrgId \cup State \cup Password \cup Subject

LOWER(email) == email.addr

Identity ==
  [user_id : UserId, provider : {"password", "github"},
   provider_user_id : UserId \cup Subject, secret : Password \cup {None}]

Membership == [user_id : UserId, org_id : OrgId, role : {"admin"}]

\* The signed claims of a session token and its one caveat.
Session ==
  [email : Email, user : UserId, org : OrgId, role : {"admin"}, exp : Nat]

VARIABLES
  users,          \* UserId -> Email, for the rows there are
  identities,     \* set of Identity
  organizations,  \* OrgId -> owner; AdminService creates personal ones only
  memberships,    \* set of Membership
  oauth_states,   \* State -> expires_at, for the rows there are
  drawn,          \* states ever drawn
  sessions,       \* session tokens ever minted
  granted,        \* history: how often each state let a CompleteOAuth on
  now,
  call            \* the request each process serves, or None

tables == <<users, identities, organizations, memberships>>
oauth == <<oauth_states, drawn, granted>>
vars == <<tables, oauth, sessions, now, call>>

Rpc == {"Signup", "Login", "StartOAuth", "CompleteOAuth", "Whoami"}

\* Where a request waits: for the query, or the exchange, of this name.
Await == {"create_user", "get_user_by_email", "list_identities",
          "list_organizations", "store_oauth_state", "consume_oauth_state",
          "complete_github", "find_identity", "get_user", "whoami"}

\* Codes of ConnectError; "dangling" stands for those of a row that points
\* at a missing one (Internal, FailedPrecondition or Unauthenticated).
Answer == {"ok", "invalid_argument", "unauthenticated", "already_exists",
           "permission_denied", "unimplemented", "failed_precondition",
           "unavailable", "internal", "dangling"}

Request ==
  [rpc : Rpc, subject : Subject \cup {None},
   password : Password \cup {None}, email : Email \cup {None},
   pc : Await \cup {"done"}, state : State \cup {None},
   user : UserId \cup {None}, session : Session \cup {None},
   res : Answer \cup {None}, cfg : SUBSET Setting, now_ms : 0 .. MaxNow]

TypeOK ==
  /\ DOMAIN users \subseteq UserId /\ users \in [DOMAIN users -> Email]
  /\ identities \subseteq Identity
  /\ DOMAIN organizations \subseteq OrgId
  /\ organizations \in [DOMAIN organizations -> UserId]
  /\ memberships \subseteq Membership
  /\ DOMAIN oauth_states \subseteq drawn /\ drawn \subseteq State
  /\ oauth_states \in [DOMAIN oauth_states -> Nat]
  /\ sessions \subseteq Session
  /\ granted \in [State -> Nat]
  /\ now \in 0 .. MaxNow
  /\ call \in [Call -> Request \cup {None}]

Init ==
  /\ users = <<>> /\ identities = {}
  /\ organizations = <<>> /\ memberships = {}
  /\ oauth_states = <<>> /\ drawn = {} /\ granted = [s \in State |-> 0]
  /\ sessions = {} /\ now = 0
  /\ call = [c \in Call |-> None]

-----------------------------------------------------------------------------
(* How a request moves.                                                    *)

Waits(c, pc) == call[c] # None /\ call[c].pc = pc

GoOn(c, pc) == call' = [call EXCEPT ![c].pc = pc]

GoOnAs(c, pc, u) == call' = [call EXCEPT ![c].pc = pc, ![c].user = u]

Blank(rpc, pc) ==
  [rpc |-> rpc, subject |-> None, password |-> None, email |-> None,
   pc |-> pc, state |-> None, user |-> None, session |-> None,
   res |-> None, cfg |-> {}, now_ms |-> 0]

\* The handler returns, its variables are gone.
Done(r, res) == [Blank(r.rpc, "done") EXCEPT !.cfg = r.cfg, !.res = res]

End(c, res) == call' = [call EXCEPT ![c] = Done(@, res)]

\* map_store_error answers a backend failure by Internal.
BackendFails(c) == Faulty /\ End(c, "internal")

\* A request comes in and runs to its first await, or to an early return.
Arrive(c, r) ==
  /\ call[c] = None
  /\ call' = [call EXCEPT ![c] = r]
  /\ UNCHANGED <<tables, oauth_states, granted, sessions, now>>

Refuse(c, rpc, res) ==
  Arrive(c, [Blank(rpc, "done") EXCEPT !.res = res]) /\ UNCHANGED drawn

\* The answer is delivered, or its reader is gone: the process is free.
Answered(c) ==
  /\ Waits(c, "done")
  /\ call' = [call EXCEPT ![c] = None]
  /\ UNCHANGED <<tables, oauth, sessions, now>>

Tick ==
  /\ now < MaxNow /\ now' = now + 1
  /\ UNCHANGED <<tables, oauth, sessions, call>>

-----------------------------------------------------------------------------
(* New accounts.                                                           *)

\* Mutant: the index on users is on email, not on LOWER(email).
Taken_case_sensitive(email, provider, subject) ==
  \/ \E u \in DOMAIN users : users[u] = email
  \/ \E i \in identities :
       i.provider = provider /\ i.provider_user_id = subject

\* The unique indexes users_email_lower and identities_provider_subject.
Taken(email, provider, subject) ==
  \/ \E u \in DOMAIN users : LOWER(users[u]) = LOWER(email)
  \/ \E i \in identities :
       i.provider = provider /\ i.provider_user_id = subject

\* The four INSERTs of a new account: its user, identity, personal
\* organization and admin membership.
InsertAccount(u, o, email, provider, subject, secret) ==
  /\ users' = [x \in DOMAIN users \cup {u} |->
                 IF x = u THEN email ELSE users[x]]
  /\ identities' = identities \cup
       {[user_id |-> u, provider |-> provider,
         provider_user_id |-> subject, secret |-> secret]}
  /\ organizations' = [x \in DOMAIN organizations \cup {o} |->
                         IF x = o THEN u ELSE organizations[x]]
  /\ memberships' = memberships \cup
       {[user_id |-> u, org_id |-> o, role |-> "admin"]}

\* Mutant: the statements run one by one, and the third may fail.
signup_with_personal_org_unbatched(c) ==
  LET r == call[c]
      provider == IF r.rpc = "Signup" THEN "password" ELSE "github"
  IN  \/ /\ Taken(r.email, provider, r.subject)
         /\ End(c, "already_exists") /\ UNCHANGED tables
      \/ /\ ~Taken(r.email, provider, r.subject)
         /\ \E u \in UserId \ DOMAIN users, o \in OrgId \ DOMAIN organizations :
              \/ /\ InsertAccount(u, o, r.email, provider,
                      IF provider = "password" THEN u ELSE r.subject,
                      r.password)
                 /\ GoOnAs(c, "list_organizations", u)
              \/ /\ users' = [x \in DOMAIN users \cup {u} |->
                                IF x = u THEN r.email ELSE users[x]]
                 /\ identities' = identities \cup
                      {[user_id |-> u, provider |-> provider,
                        provider_user_id |->
                          IF provider = "password" THEN u ELSE r.subject,
                        secret |-> r.password]}
                 /\ UNCHANGED <<organizations, memberships>>
                 /\ BackendFails(c)

\* Mutant: a first sign-in by OAuth takes over the account of its address.
signup_with_personal_org_adopts(c) ==
  LET r == call[c]
      provider == IF r.rpc = "Signup" THEN "password" ELSE "github"
      same == {u \in DOMAIN users : LOWER(users[u]) = LOWER(r.email)}
  IN  IF r.rpc = "CompleteOAuth" /\ same # {}
      THEN (\E u \in same : GoOnAs(c, "list_organizations", u))
             /\ UNCHANGED tables
      ELSE \/ /\ Taken(r.email, provider, r.subject)
              /\ End(c, "already_exists") /\ UNCHANGED tables
           \/ /\ ~Taken(r.email, provider, r.subject)
              /\ \E u \in UserId \ DOMAIN users,
                    o \in OrgId \ DOMAIN organizations :
                   /\ InsertAccount(u, o, r.email, provider,
                        IF provider = "password" THEN u ELSE r.subject,
                        r.password)
                   /\ GoOnAs(c, "list_organizations", u) \/ BackendFails(c)

\* A batch commits whole or not at all; if it has committed, its answer may
\* still be an error.  A password identity has its user's id as subject.
signup_with_personal_org(c) ==
  LET r == call[c]
      provider == IF r.rpc = "Signup" THEN "password" ELSE "github"
  IN  \/ /\ Taken(r.email, provider, r.subject)
         /\ End(c, "already_exists") /\ UNCHANGED tables
      \/ /\ ~Taken(r.email, provider, r.subject)
         /\ \E u \in UserId \ DOMAIN users, o \in OrgId \ DOMAIN organizations :
              /\ InsertAccount(u, o, r.email, provider,
                   IF provider = "password" THEN u ELSE r.subject, r.password)
              /\ GoOnAs(c, "list_organizations", u) \/ BackendFails(c)
      \/ BackendFails(c) /\ UNCHANGED tables

CreateUser(c) ==
  /\ Waits(c, "create_user")
  /\ signup_with_personal_org(c)
  /\ UNCHANGED <<oauth, sessions, now>>

\* Mutant: the ids of user and organization are swapped in the claims.
issue_session_for_swapped(c) ==
  /\ Waits(c, "list_organizations")
  /\ \E m \in memberships :
       /\ m.user_id = call[c].user
       /\ sessions' = sessions \cup
            {[email |-> users[m.user_id], user |-> m.org_id,
              org |-> m.user_id, role |-> m.role, exp |-> now + SessionTtl]}
  /\ End(c, "ok")
  /\ UNCHANGED <<tables, oauth, now>>

\* Every sign-in ends here: a session in the first personal organization.
issue_session_for(c) ==
  LET u == call[c].user
      mine == {m \in memberships :
                 m.user_id = u /\ m.org_id \in DOMAIN organizations}
  IN  /\ Waits(c, "list_organizations")
      /\ \/ /\ mine = {}
            /\ End(c, "dangling") /\ UNCHANGED sessions
         \/ /\ \E m \in mine :
                 sessions' = sessions \cup
                   {[email |-> users[u], user |-> u, org |-> m.org_id,
                     role |-> m.role, exp |-> now + SessionTtl]}
            /\ End(c, "ok")
         \/ BackendFails(c) /\ UNCHANGED sessions
      /\ UNCHANGED <<tables, oauth, now>>

-----------------------------------------------------------------------------
(* Signup and Login.                                                       *)

\* validate_email and hash_new_password may refuse.
signup(c) ==
  \/ Refuse(c, "Signup", "invalid_argument")
  \/ \E e \in Email, p \in Password :
       Arrive(c, [Blank("Signup", "create_user") EXCEPT
                    !.email = e, !.password = p]) /\ UNCHANGED drawn

login(c) ==
  \E e \in Email, p \in Password :
    Arrive(c, [Blank("Login", "get_user_by_email") EXCEPT
                 !.email = e, !.password = p]) /\ UNCHANGED drawn

get_user_by_email(c) ==
  LET found == {u \in DOMAIN users : LOWER(users[u]) = LOWER(call[c].email)}
  IN  /\ Waits(c, "get_user_by_email")
      /\ \/ found = {} /\ End(c, "unauthenticated")
         \/ \E u \in found : GoOnAs(c, "list_identities", u)
         \/ BackendFails(c)
      /\ UNCHANGED <<tables, oauth, sessions, now>>

\* An account made by OAuth has no password identity; verify_password
\* compares with the stored hash.
CheckPassword(c) ==
  LET mine == {i \in identities :
                 i.user_id = call[c].user /\ i.provider = "password"}
  IN  /\ Waits(c, "list_identities")
      /\ \/ mine = {} /\ End(c, "unauthenticated")
         \/ \E i \in mine :
              \/ i.secret = None /\ End(c, "dangling")
              \/ /\ i.secret \notin {None, call[c].password}
                 /\ End(c, "unauthenticated")
              \/ /\ i.secret # None /\ i.secret = call[c].password
                 /\ GoOn(c, "list_organizations")
         \/ BackendFails(c)
      /\ UNCHANGED <<tables, oauth, sessions, now>>

-----------------------------------------------------------------------------
(* OAuth.  A request runs under the configuration of its isolate.          *)

\* The state is drawn when the request comes in, stored by its query.
start_o_auth(c) ==
  \/ Refuse(c, "StartOAuth", "invalid_argument")
  \/ Refuse(c, "StartOAuth", "unimplemented")
  \/ \E s \in State \ drawn :
       /\ Setting \in Deployed
       /\ Arrive(c, [Blank("StartOAuth", "store_oauth_state") EXCEPT
                       !.cfg = Setting, !.now_ms = now, !.state = s])
       /\ drawn' = drawn \cup {s}

store_oauth_state(c) ==
  /\ Waits(c, "store_oauth_state")
  /\ \/ /\ oauth_states' = [s \in DOMAIN oauth_states \cup {call[c].state} |->
              IF s = call[c].state THEN call[c].now_ms + StateTtl
              ELSE oauth_states[s]]
        /\ End(c, "ok") \/ BackendFails(c)
     \/ BackendFails(c) /\ UNCHANGED oauth_states
  /\ UNCHANGED <<tables, drawn, granted, sessions, now>>

\* The caller brings back a state, and a code GitHub will exchange for the
\* user with this id and email, if for any.
complete_o_auth(c) ==
  \E s \in State, cfg \in Deployed, who \in Subject, e \in Email :
    Arrive(c, [Blank("CompleteOAuth", "consume_oauth_state") EXCEPT
                 !.cfg = cfg, !.now_ms = now, !.state = s,
                 !.subject = who, !.email = e]) /\ UNCHANGED drawn

\* Mutant: only a state that has expired is deleted.
consume_oauth_state_keeps_fresh(c) ==
  LET s == call[c].state
      fresh == s \in DOMAIN oauth_states /\ oauth_states[s] >= call[c].now_ms
  IN  /\ Waits(c, "consume_oauth_state")
      /\ IF fresh
         THEN /\ granted' = [granted EXCEPT ![s] = @ + 1]
              /\ GoOn(c, "complete_github") /\ UNCHANGED oauth_states
         ELSE /\ oauth_states' =
                   [x \in DOMAIN oauth_states \ {s} |-> oauth_states[x]]
              /\ End(c, "permission_denied") /\ UNCHANGED granted
      /\ UNCHANGED <<tables, drawn, sessions, now>>

\* DELETE ... RETURNING, whatever becomes of the row afterwards.
consume_oauth_state(c) ==
  LET s == call[c].state
      rest == [x \in DOMAIN oauth_states \ {s} |-> oauth_states[x]]
      fresh == s \in DOMAIN oauth_states /\ oauth_states[s] >= call[c].now_ms
  IN  /\ Waits(c, "consume_oauth_state")
      /\ \/ /\ oauth_states' = rest
            /\ \/ ~fresh /\ End(c, "permission_denied") /\ UNCHANGED granted
               \/ /\ fresh
                  /\ granted' = [granted EXCEPT ![s] = @ + 1]
                  /\ IF "oauth_redirect_base" \in call[c].cfg
                     THEN GoOn(c, "complete_github")
                     ELSE End(c, "unimplemented")
               \/ BackendFails(c) /\ UNCHANGED granted
         \/ BackendFails(c) /\ UNCHANGED <<oauth_states, granted>>
      /\ UNCHANGED <<tables, drawn, sessions, now>>

\* GitHub refuses the code, cannot be reached or answers oddly; or it has
\* named the user.
complete_github(c) ==
  /\ Waits(c, "complete_github")
  /\ IF "github_credentials" \in call[c].cfg
     THEN \/ \E res \in {"permission_denied", "unavailable", "internal",
                         "failed_precondition"} : End(c, res)
          \/ GoOn(c, "find_identity")
     ELSE End(c, "failed_precondition")
  /\ UNCHANGED <<tables, oauth, sessions, now>>

find_identity(c) ==
  LET found == {i \in identities : i.provider = "github"
                  /\ i.provider_user_id = call[c].subject}
  IN  /\ Waits(c, "find_identity")
      /\ \/ found = {} /\ GoOn(c, "create_user")
         \/ \E i \in found : GoOnAs(c, "get_user", i.user_id)
         \/ BackendFails(c)
      /\ UNCHANGED <<tables, oauth, sessions, now>>

get_user(c) ==
  /\ Waits(c, "get_user")
  /\ \/ call[c].user \notin DOMAIN users /\ End(c, "dangling")
     \/ call[c].user \in DOMAIN users /\ GoOn(c, "list_organizations")
     \/ BackendFails(c)
  /\ UNCHANGED <<tables, oauth, sessions, now>>

-----------------------------------------------------------------------------
(* Whoami.  The middleware verifies the token as the request comes in.     *)

whoami(c) ==
  \/ Refuse(c, "Whoami", "unauthenticated")
  \/ \E t \in sessions :
       /\ t.exp > now
       /\ Arrive(c, [Blank("Whoami", "whoami") EXCEPT !.session = t])
       /\ UNCHANGED drawn

WhoamiReads(c) ==
  LET t == call[c].session
  IN  /\ Waits(c, "whoami")
      /\ \/ /\ t.user \in DOMAIN users /\ t.org \in DOMAIN organizations
            /\ End(c, "ok")
         \/ /\ t.user \notin DOMAIN users \/ t.org \notin DOMAIN organizations
            /\ End(c, "dangling")
         \/ BackendFails(c)
      /\ UNCHANGED <<tables, oauth, sessions, now>>

-----------------------------------------------------------------------------

Next ==
  \/ Tick
  \/ \E c \in Call :
       \/ signup(c) \/ CreateUser(c)
       \/ login(c) \/ get_user_by_email(c) \/ CheckPassword(c)
       \/ issue_session_for(c)
       \/ start_o_auth(c) \/ store_oauth_state(c)
       \/ complete_o_auth(c) \/ consume_oauth_state(c) \/ complete_github(c)
       \/ find_identity(c) \/ get_user(c)
       \/ whoami(c) \/ WhoamiReads(c)
       \/ Answered(c)

Spec == Init /\ [][Next]_vars

-----------------------------------------------------------------------------
(* Properties.                                                             *)

\* However sign-ups and first sign-ins race, fail or lose their answer, an
\* account is there whole: each user has one identity and one personal
\* organization with its admin membership, and no row is without its user.
AccountsAreWhole ==
  /\ \A u \in DOMAIN users :
       /\ \E i \in identities : {j \in identities : j.user_id = u} = {i}
       /\ \E o \in DOMAIN organizations :
            /\ {m \in memberships : m.user_id = u}
                 = {[user_id |-> u, org_id |-> o, role |-> "admin"]}
            /\ {x \in DOMAIN organizations : organizations[x] = u} = {o}
  /\ \A i \in identities : i.user_id \in DOMAIN users
  /\ \A o \in DOMAIN organizations : organizations[o] \in DOMAIN users
  /\ \A m \in memberships :
       m.user_id \in DOMAIN users /\ m.org_id \in DOMAIN organizations

\* One account per address up to case and one per GitHub user, although
\* a first sign-in looks for the identity and creates it in separate awaits.
KeysAreUnique ==
  /\ \A u, v \in DOMAIN users : LOWER(users[u]) = LOWER(users[v]) => u = v
  /\ \A i, j \in identities :
       i.provider = j.provider /\ i.provider_user_id = j.provider_user_id
         => i = j

\* What the caller of c has shown: the password of u under u's address, or
\* GitHub's word that it is the user behind an identity of u.
Proves(c, u) ==
  \E i \in identities :
    /\ i.user_id = u
    /\ IF call[c].rpc = "CompleteOAuth"
       THEN i.provider = "github" /\ i.provider_user_id = call[c].subject
       ELSE /\ i.provider = "password" /\ i.secret = call[c].password
            /\ LOWER(users[u]) = LOWER(call[c].email)

\* A session is minted only for the user its caller has proved to be, over
\* three or more awaits and whoever else signs up or in meanwhile, in an
\* organization of that user.
SessionsAreProved ==
  [][ \A t \in sessions' \ sessions :
        /\ organizations[t.org] = t.user /\ users[t.user] = t.email
        /\ \E c \in Call :
             /\ Waits(c, "list_organizations") /\ call'[c].res = "ok"
             /\ Proves(c, t.user) ]_vars

\* A state lets at most one CompleteOAuth on, however many present it at
\* once, and is gone from then on.
StatesAreSingleUse ==
  \A s \in State :
    granted[s] <= 1 /\ (granted[s] = 1 => s \notin DOMAIN oauth_states)

\* No request meets a row that points at a missing one.
NothingDangles == \A c \in Call : Waits(c, "done") => call[c].res # "dangling"
=============================================================================
