--------------------------- MODULE AccountsProofs ---------------------------
(***************************************************************************)
(* Theorems about Accounts, for any number of requests, users, addresses,  *)
(* GitHub users, states and configurations, and for every bound.           *)
(*                                                                         *)
(* IInv says beside the properties what a request knows where it waits     *)
(* (CallOK): that the user it has found is there, and that its caller has  *)
(* proved to be that user.  Accounts are created whole and never removed,  *)
(* so what a request knows stays true while others run (Grows).            *)
(***************************************************************************)
EXTENDS Accounts, TLAPS

\* r has proved to be u: Proves, of a request and the tables us and ids.
ProvesBy(r, u, us, ids) ==
  \E i \in ids :
    /\ i.user_id = u
    /\ IF r.rpc = "CompleteOAuth"
       THEN i.provider = "github" /\ i.provider_user_id = r.subject
       ELSE /\ i.provider = "password" /\ i.secret = r.password
            /\ LOWER(us[u]) = LOWER(r.email)

\* A request that waits where it does, given users, identities, sessions.
CallOK(r, us, ids, minted) ==
  /\ r \in Request
  /\ r.pc \in {"consume_oauth_state", "complete_github", "find_identity"} =>
       /\ r.rpc = "CompleteOAuth" /\ r.state \in State
       /\ r.email \in Email /\ r.subject \in Subject /\ r.password = None
  /\ r.pc = "create_user" =>
       /\ r.email \in Email
       /\ \/ r.rpc = "Signup" /\ r.password \in Password
          \/ /\ r.rpc = "CompleteOAuth"
             /\ r.subject \in Subject /\ r.password = None
  /\ r.pc \in {"get_user_by_email", "list_identities"} => r.rpc = "Login"
  /\ r.pc = "list_identities" =>
       r.user \in DOMAIN us /\ LOWER(us[r.user]) = LOWER(r.email)
  /\ r.pc \in {"get_user", "list_organizations"} =>
       r.user \in DOMAIN us /\ ProvesBy(r, r.user, us, ids)
  /\ r.pc = "store_oauth_state" => r.state \in State
  /\ r.pc = "whoami" => r.session \in minted
  /\ r.pc = "done" => r.res # "dangling"

Knows(r) == CallOK(r, users, identities, sessions)

CallsOK == \A c \in Call : call[c] # None => Knows(call[c])

\* What the two kinds of identity hold.
IdentitiesOK ==
  \A i \in identities :
    i.provider = "password" =>
      i.provider_user_id = i.user_id /\ i.secret \in Password

\* A session names a user and an organization that are there.
SessionsOK ==
  \A t \in sessions : t.user \in DOMAIN users /\ t.org \in DOMAIN organizations

\* A state that is about to be stored is new, and one request stores it.
Storing(c) == Waits(c, "store_oauth_state")

StatesOK ==
  /\ \A s \in State : granted[s] > 0 => s \in drawn
  /\ \A c \in Call : Storing(c) =>
       /\ call[c].state \in drawn \ DOMAIN oauth_states
       /\ granted[call[c].state] = 0
  /\ \A c, d \in Call :
       Storing(c) /\ Storing(d) /\ call[c].state = call[d].state => c = d

\* The inductive invariant.
IInv ==
  /\ TypeOK
  /\ CallsOK
  /\ IdentitiesOK
  /\ SessionsOK
  /\ StatesOK
  /\ AccountsAreWhole
  /\ KeysAreUnique
  /\ StatesAreSingleUse

\* What no step takes back.
Grows ==
  /\ DOMAIN users \subseteq DOMAIN users'
  /\ \A u \in DOMAIN users : users'[u] = users[u]
  /\ identities \subseteq identities'
  /\ sessions \subseteq sessions'

-----------------------------------------------------------------------------
(* One request moves, the others keep what they know.                      *)

\* What a request knows is not taken back.
LEMMA KnowsStays ==
  ASSUME NEW r, Knows(r), Grows
  PROVE  CallOK(r, users', identities', sessions')
BY DEF Knows, CallOK, Grows, ProvesBy

\* It is enough to look at the request that moves.
LEMMA CallsStep ==
  ASSUME IInv, Grows, NEW c \in Call, NEW r,
         call' = [call EXCEPT ![c] = r],
         r = None \/ CallOK(r, users', identities', sessions')
  PROVE  CallsOK' /\ call' \in [Call -> Request \cup {None}]
<1>1. call \in [Call -> Request \cup {None}]
  BY DEF IInv, TypeOK
<1>2. r \in Request \cup {None}
  BY DEF CallOK
<1>3. ASSUME NEW e \in Call, call'[e] # None
      PROVE  CallOK(call'[e], users', identities', sessions')
  <2>1. CASE e = c
    BY <1>1, <1>3, <2>1
  <2>2. CASE e # c
    <3>1. call'[e] = call[e]
      BY <1>1, <2>2
    <3>2. Knows(call[e])
      BY <1>3, <3>1 DEF IInv, CallsOK
    <3>3. QED
      BY <3>1, <3>2, KnowsStays
  <2>3. QED
    BY <2>1, <2>2
<1>4. QED
  BY <1>1, <1>2, <1>3 DEF CallsOK, Knows

\* A request that does not come to store a state disturbs no other that does.
LEMMA StoringStep ==
  ASSUME IInv, NEW c \in Call, NEW r, call' = [call EXCEPT ![c] = r],
         r = None \/ r.pc # "store_oauth_state"
  PROVE  \A e \in Call : Storing(e)' => e # c /\ Storing(e) /\ call'[e] = call[e]
BY DEF IInv, TypeOK, Storing, Waits

\* A step that moves one request and touches nothing else.
LEMMA OnlyCallMoves ==
  ASSUME IInv, NEW c \in Call, NEW r, call' = [call EXCEPT ![c] = r],
         r = None \/ (Knows(r) /\ r.pc # "store_oauth_state"),
         UNCHANGED <<tables, oauth, sessions, now>>
  PROVE  IInv'
<1>1. Grows
  BY DEF tables, Grows
<1>2. CallsOK' /\ call' \in [Call -> Request \cup {None}]
  BY <1>1, CallsStep DEF tables, Knows
<1>3. \A e \in Call : Storing(e)' =>
        e # c /\ Storing(e) /\ call'[e] = call[e]
  BY StoringStep
<1>4. StatesOK'
  BY <1>3 DEF IInv, StatesOK, oauth
<1>5. TypeOK'
  BY <1>2 DEF IInv, TypeOK, tables, oauth
<1>6. IdentitiesOK' /\ SessionsOK' /\ AccountsAreWhole'
  BY DEF IInv, IdentitiesOK, SessionsOK, AccountsAreWhole, tables
<1>7. KeysAreUnique' /\ StatesAreSingleUse'
  BY DEF IInv, KeysAreUnique, StatesAreSingleUse, tables, oauth
<1>8. QED
  BY <1>2, <1>4, <1>5, <1>6, <1>7 DEF IInv

\* A new request is one.
LEMMA BlankType ==
  ASSUME NEW rpc \in Rpc, NEW pc \in Await \cup {"done"}
  PROVE  Blank(rpc, pc) \in Request
BY AccountsAssumption DEF Blank, Request

\* A request that has been answered knows nothing.
LEMMA DoneKnows ==
  ASSUME NEW r \in Request, NEW res \in Answer \ {"dangling"},
         NEW us, NEW ids, NEW minted
  PROVE  CallOK(Done(r, res), us, ids, minted) /\ Done(r, res).pc = "done"
<1>1. r.rpc \in Rpc /\ r.cfg \in SUBSET Setting
  BY DEF Request
<1> DEFINE b == Blank(r.rpc, "done")
<1>2. Done(r, res) \in Request
  <2>1. b \in Request
    BY <1>1, BlankType
  <2>2. Done(r, res) = [b EXCEPT !.cfg = r.cfg, !.res = res]
    BY DEF Done
  <2> HIDE DEF b
  <2>3. QED
    BY <1>1, <2>1, <2>2 DEF Request
<1>3. Done(r, res).pc = "done" /\ Done(r, res).res = res
  BY DEF Done, Blank
<1>4. QED
  BY <1>2, <1>3 DEF CallOK

\* The request of a process that waits.
LEMMA Waiting ==
  ASSUME IInv, NEW c \in Call, NEW pc, Waits(c, pc)
  PROVE  /\ call[c] \in Request /\ call[c].pc = pc /\ Knows(call[c])
         /\ call \in [Call -> Request \cup {None}] /\ call[c] # None
BY DEF IInv, TypeOK, CallsOK, Waits, Knows, CallOK

\* An early return, whatever the reason.
LEMMA EndIInv ==
  ASSUME IInv, NEW c \in Call, NEW pc, Waits(c, pc),
         NEW res \in Answer \ {"dangling"}, End(c, res),
         UNCHANGED <<tables, oauth, sessions, now>>
  PROVE  IInv'
<1>1. call \in [Call -> Request \cup {None}] /\ call[c] \in Request
  BY Waiting
<1>2. call' = [call EXCEPT ![c] = Done(call[c], res)]
  BY <1>1 DEF End
<1>3. Knows(Done(call[c], res)) /\ Done(call[c], res).pc = "done"
  BY <1>1, DoneKnows DEF Knows
<1>4. QED
  BY <1>2, <1>3, OnlyCallMoves

\* A backend failure is an early return.
LEMMA BackendFailsIInv ==
  ASSUME IInv, NEW c \in Call, NEW pc, Waits(c, pc), BackendFails(c),
         UNCHANGED <<tables, oauth, sessions, now>>
  PROVE  IInv'
BY EndIInv DEF BackendFails, Answer

\* A request comes in.
LEMMA ArriveIInv ==
  ASSUME IInv, NEW c \in Call, NEW r, Arrive(c, r), UNCHANGED drawn,
         Knows(r), r.pc # "store_oauth_state"
  PROVE  IInv'
BY OnlyCallMoves DEF Arrive, oauth

\* A request goes on with its variables.
LEMMA GoOnIInv ==
  ASSUME IInv, NEW c \in Call, NEW from, Waits(c, from),
         NEW pc \in Await \ {"store_oauth_state"}, GoOn(c, pc),
         Knows([call[c] EXCEPT !.pc = pc]),
         UNCHANGED <<tables, oauth, sessions, now>>
  PROVE  IInv'
<1>1. call \in [Call -> Request \cup {None}] /\ call[c] \in Request
  BY Waiting
<1>2. call' = [call EXCEPT ![c] = [call[c] EXCEPT !.pc = pc]]
  BY <1>1 DEF GoOn
<1>3. [call[c] EXCEPT !.pc = pc].pc = pc
  BY <1>1 DEF Request
<1>4. QED
  BY <1>2, <1>3, OnlyCallMoves

\* What stays of a request that goes on, and of one that is now the user's.
LEMMA GoesOn ==
  ASSUME NEW r \in Request, NEW pc \in Await
  PROVE  LET q == [r EXCEPT !.pc = pc]
         IN  /\ q \in Request /\ q.pc = pc /\ q.rpc = r.rpc /\ q.user = r.user
             /\ q.email = r.email /\ q.password = r.password
             /\ q.subject = r.subject /\ q.state = r.state
             /\ q.session = r.session
BY DEF Request

LEMMA ActsAs ==
  ASSUME NEW r \in Request, NEW u \in UserId
  PROVE  LET q == [r EXCEPT !.user = u]
         IN  /\ q \in Request /\ q.pc = r.pc /\ q.rpc = r.rpc /\ q.user = u
             /\ q.email = r.email /\ q.password = r.password
             /\ q.subject = r.subject
BY DEF Request

-----------------------------------------------------------------------------
(* Requests come in.                                                       *)

\* A refused request is done as it comes in.
LEMMA RefuseIInv ==
  ASSUME IInv, NEW c \in Call, NEW rpc \in Rpc,
         NEW res \in Answer \ {"dangling"}, Refuse(c, rpc, res)
  PROVE  IInv'
<1> DEFINE r == [Blank(rpc, "done") EXCEPT !.res = res]
<1>1. r \in Request /\ r.pc = "done" /\ r.res = res
  BY AccountsAssumption DEF Blank, Request
<1>2. Knows(r)
  BY <1>1 DEF Knows, CallOK
<1>3. QED
  BY <1>1, <1>2, ArriveIInv DEF Refuse

\* Signup brings an address and a password.
LEMMA SignupArrives ==
  ASSUME IInv, NEW c \in Call, signup(c)
  PROVE  IInv'
<1>1. CASE Refuse(c, "Signup", "invalid_argument")
  BY <1>1, RefuseIInv DEF Rpc, Answer
<1>2. ASSUME NEW e \in Email, NEW p \in Password,
             Arrive(c, [Blank("Signup", "create_user") EXCEPT
                          !.email = e, !.password = p]), UNCHANGED drawn
      PROVE  IInv'
  <2> DEFINE r == [Blank("Signup", "create_user") EXCEPT
                     !.email = e, !.password = p]
  <2> DEFINE b == Blank("Signup", "create_user")
  <2>0. b \in Request /\ b.pc = "create_user" /\ b.rpc = "Signup"
    BY BlankType DEF Blank, Rpc, Await
  <2>1. /\ r \in Request /\ r.pc = "create_user" /\ r.rpc = "Signup"
        /\ r.email = e /\ r.password = p
    <3> HIDE DEF b
    <3>1. r = [b EXCEPT !.email = e, !.password = p]
      BY DEF b
    <3>2. QED
      BY <2>0, <3>1 DEF Request
  <2>2. Knows(r)
    BY <2>1 DEF Knows, CallOK
  <2>3. QED
    BY <1>2, <2>1, <2>2, ArriveIInv
<1>3. QED
  BY <1>1, <1>2 DEF signup

\* So does Login.
LEMMA LoginArrives ==
  ASSUME IInv, NEW c \in Call, login(c)
  PROVE  IInv'
<1>1. PICK e \in Email, p \in Password :
        Arrive(c, [Blank("Login", "get_user_by_email") EXCEPT
                     !.email = e, !.password = p]) /\ UNCHANGED drawn
  BY DEF login
<1> DEFINE r == [Blank("Login", "get_user_by_email") EXCEPT
                   !.email = e, !.password = p]
<1> DEFINE b == Blank("Login", "get_user_by_email")
<1>0. b \in Request /\ b.pc = "get_user_by_email" /\ b.rpc = "Login"
  BY BlankType DEF Blank, Rpc, Await
<1>2. r \in Request /\ r.pc = "get_user_by_email" /\ r.rpc = "Login"
  <2> HIDE DEF b
  <2>1. r = [b EXCEPT !.email = e, !.password = p]
    BY DEF b
  <2>2. QED
    BY <1>0, <2>1 DEF Request
<1>3. Knows(r)
  BY <1>2 DEF Knows, CallOK
<1>4. QED
  BY <1>1, <1>2, <1>3, ArriveIInv

\* CompleteOAuth brings a state, and a code behind which there is a user.
LEMMA CompleteArrives ==
  ASSUME IInv, NEW c \in Call, complete_o_auth(c)
  PROVE  IInv'
<1>1. PICK s \in State, cfg \in Deployed, who \in Subject, e \in Email :
        Arrive(c, [Blank("CompleteOAuth", "consume_oauth_state") EXCEPT
                     !.cfg = cfg, !.now_ms = now, !.state = s,
                     !.subject = who, !.email = e]) /\ UNCHANGED drawn
  BY DEF complete_o_auth
<1> DEFINE r == [Blank("CompleteOAuth", "consume_oauth_state") EXCEPT
                   !.cfg = cfg, !.now_ms = now, !.state = s,
                   !.subject = who, !.email = e]
<1>2. now \in 0 .. MaxNow /\ cfg \in SUBSET Setting
  BY AccountsAssumption DEF IInv, TypeOK
<1>3. /\ r \in Request /\ r.pc = "consume_oauth_state"
      /\ r.rpc = "CompleteOAuth" /\ r.state = s /\ r.subject = who
      /\ r.email = e /\ r.password = None
  BY <1>2 DEF Blank, Request, Rpc, Await
<1>4. Knows(r)
  BY <1>3 DEF Knows, CallOK
<1>5. QED
  BY <1>1, <1>3, <1>4, ArriveIInv

\* Whoami brings a session that was minted.
LEMMA WhoamiArrives ==
  ASSUME IInv, NEW c \in Call, whoami(c)
  PROVE  IInv'
<1>1. CASE Refuse(c, "Whoami", "unauthenticated")
  BY <1>1, RefuseIInv DEF Rpc, Answer
<1>2. ASSUME NEW t \in sessions, UNCHANGED drawn,
             Arrive(c, [Blank("Whoami", "whoami") EXCEPT !.session = t])
      PROVE  IInv'
  <2> DEFINE r == [Blank("Whoami", "whoami") EXCEPT !.session = t]
  <2>1. t \in Session
    BY DEF IInv, TypeOK
  <2>2. r \in Request /\ r.pc = "whoami" /\ r.session = t
    BY <2>1, AccountsAssumption DEF Blank, Request, Rpc, Await
  <2>3. Knows(r)
    BY <2>2 DEF Knows, CallOK
  <2>4. QED
    BY <1>2, <2>2, <2>3, ArriveIInv
<1>3. QED
  BY <1>1, <1>2 DEF whoami

\* StartOAuth draws a state that nobody has seen.
LEMMA StartArrives ==
  ASSUME IInv, NEW c \in Call, start_o_auth(c)
  PROVE  IInv'
<1>1. CASE Refuse(c, "StartOAuth", "invalid_argument")
           \/ Refuse(c, "StartOAuth", "unimplemented")
  BY <1>1, RefuseIInv DEF Rpc, Answer
<1>2. ASSUME NEW s \in State \ drawn, drawn' = drawn \cup {s},
             Arrive(c, [Blank("StartOAuth", "store_oauth_state") EXCEPT
                          !.cfg = Setting, !.now_ms = now, !.state = s])
      PROVE  IInv'
  <2> DEFINE r == [Blank("StartOAuth", "store_oauth_state") EXCEPT
                     !.cfg = Setting, !.now_ms = now, !.state = s]
  <2>1. TypeOK /\ now \in 0 .. MaxNow
    BY DEF IInv, TypeOK
  <2>2. r \in Request /\ r.pc = "store_oauth_state" /\ r.state = s
    BY <2>1 DEF Blank, Request, Rpc, Await
  <2>3. /\ call' = [call EXCEPT ![c] = r]
        /\ UNCHANGED <<tables, oauth_states, granted, sessions, now>>
    BY <1>2 DEF Arrive
  <2>4. Grows
    BY <2>3 DEF Grows, tables
  <2>5. CallOK(r, users', identities', sessions')
    BY <2>2 DEF CallOK
  <2>6. CallsOK' /\ call' \in [Call -> Request \cup {None}]
    BY <2>3, <2>4, <2>5, CallsStep
  <2>7. TypeOK'
    BY <1>2, <2>1, <2>3, <2>6 DEF TypeOK, tables
  <2>8. StatesOK'
    <3>1. s \notin DOMAIN oauth_states /\ granted[s] = 0
      BY <2>1 DEF IInv, StatesOK, TypeOK
    <3>2. \A e \in Call : Storing(e)' =>
            \/ e = c /\ call'[e].state = s
            \/ e # c /\ Storing(e) /\ call'[e] = call[e]
      BY <2>1, <2>2, <2>3 DEF TypeOK, Storing, Waits
    <3>3. \A e \in Call : Storing(e) => call[e].state \in drawn
      BY DEF IInv, StatesOK
    <3>4. QED
      BY <1>2, <2>3, <3>1, <3>2, <3>3 DEF IInv, StatesOK
  <2>9. IdentitiesOK' /\ SessionsOK' /\ AccountsAreWhole'
    BY <2>3 DEF IInv, IdentitiesOK, SessionsOK, AccountsAreWhole, tables
  <2>10. KeysAreUnique' /\ StatesAreSingleUse'
    BY <2>3 DEF IInv, KeysAreUnique, StatesAreSingleUse, tables
  <2>11. QED
    BY <2>6, <2>7, <2>8, <2>9, <2>10 DEF IInv
<1>3. QED
  BY <1>1, <1>2 DEF start_o_auth

\* The answer of a request leaves.
LEMMA AnsweredIInv ==
  ASSUME IInv, NEW c \in Call, Answered(c)
  PROVE  IInv'
BY OnlyCallMoves DEF Answered

\* Time passes: what a request knows is not about the clock.
LEMMA TickIInv ==
  ASSUME IInv, Tick
  PROVE  IInv'
<1>1. TypeOK'
  BY AccountsAssumption DEF IInv, Tick, TypeOK, tables, oauth
<1>2. CallsOK' /\ StatesOK'
  BY DEF IInv, Tick, CallsOK, Knows, StatesOK, Storing, Waits, tables, oauth
<1>3. QED
  BY <1>1, <1>2 DEF IInv, Tick, IdentitiesOK, SessionsOK, AccountsAreWhole,
     KeysAreUnique, StatesAreSingleUse, tables, oauth

-----------------------------------------------------------------------------
(* Queries that change no table.                                           *)

\* A request goes on as the user u.
LEMMA GoOnAsIInv ==
  ASSUME IInv, NEW c \in Call, NEW from, Waits(c, from),
         NEW pc \in Await \ {"store_oauth_state"}, NEW u, GoOnAs(c, pc, u),
         Knows([call[c] EXCEPT !.pc = pc, !.user = u]),
         UNCHANGED <<tables, oauth, sessions, now>>
  PROVE  IInv'
<1>1. call \in [Call -> Request \cup {None}] /\ call[c] \in Request
  BY Waiting
<1>2. call' = [call EXCEPT ![c] = [call[c] EXCEPT !.pc = pc, !.user = u]]
  BY <1>1 DEF GoOnAs
<1>3. [call[c] EXCEPT !.pc = pc, !.user = u].pc = pc
  BY <1>1 DEF Request
<1>4. QED
  BY <1>2, <1>3, OnlyCallMoves

\* Login finds a user under the address it was given.
LEMMA UserFound ==
  ASSUME IInv, NEW c \in Call, get_user_by_email(c)
  PROVE  IInv'
<1>1. /\ Waits(c, "get_user_by_email")
      /\ UNCHANGED <<tables, oauth, sessions, now>>
  BY DEF get_user_by_email
<1>2. /\ call[c] \in Request /\ Knows(call[c])
      /\ call[c].pc = "get_user_by_email"
  BY <1>1, Waiting
<1>3. CASE End(c, "unauthenticated") \/ BackendFails(c)
  BY <1>1, <1>3, EndIInv, BackendFailsIInv DEF Answer
<1>4. ASSUME NEW u \in DOMAIN users, LOWER(users[u]) = LOWER(call[c].email),
             GoOnAs(c, "list_identities", u)
      PROVE  IInv'
  <2> DEFINE p == [call[c] EXCEPT !.pc = "list_identities"]
             q == [p EXCEPT !.user = u]
  <2>1. u \in UserId
    BY DEF IInv, TypeOK
  <2>2. /\ q \in Request /\ q.pc = "list_identities" /\ q.user = u
        /\ q.rpc = call[c].rpc /\ q.email = call[c].email
    <3>1. /\ p \in Request /\ p.pc = "list_identities" /\ p.rpc = call[c].rpc
          /\ p.email = call[c].email /\ p.password = call[c].password
          /\ p.subject = call[c].subject
      BY <1>2, GoesOn DEF Await
    <3> HIDE DEF p
    <3>2. QED
      BY <2>1, <3>1, ActsAs
  <2>3. call[c].rpc = "Login"
    BY <1>2 DEF Knows, CallOK
  <2> HIDE DEF q
  <2>4. Knows(q)
    BY <1>4, <2>2, <2>3 DEF Knows, CallOK
  <2>5. QED
    BY <1>1, <1>4, <2>4, GoOnAsIInv DEF p, q, Await
<1>5. QED
  BY <1>3, <1>4 DEF get_user_by_email

\* A password identity holds a password: Login has proved to be its user
\* when it goes on.
LEMMA PasswordChecked ==
  ASSUME IInv, NEW c \in Call, CheckPassword(c)
  PROVE  IInv'
<1>1. /\ Waits(c, "list_identities")
      /\ UNCHANGED <<tables, oauth, sessions, now>>
  BY DEF CheckPassword
<1>2. /\ call[c] \in Request /\ Knows(call[c])
      /\ call[c].pc = "list_identities"
  BY <1>1, Waiting
<1>3. CASE End(c, "unauthenticated") \/ BackendFails(c)
  BY <1>1, <1>3, EndIInv, BackendFailsIInv DEF Answer
<1>4. ASSUME NEW i \in identities, i.provider = "password", i.secret = None
      PROVE  FALSE
  BY <1>4, AccountsAssumption DEF IInv, IdentitiesOK
<1>5. ASSUME NEW i \in identities, i.user_id = call[c].user,
             i.provider = "password", i.secret = call[c].password,
             GoOn(c, "list_organizations")
      PROVE  IInv'
  <2> DEFINE q == [call[c] EXCEPT !.pc = "list_organizations"]
  <2>1. /\ q \in Request /\ q.pc = "list_organizations"
        /\ q.user = call[c].user /\ q.rpc = call[c].rpc
        /\ q.email = call[c].email /\ q.password = call[c].password
    BY <1>2, GoesOn DEF Await
  <2>2. /\ call[c].rpc = "Login" /\ call[c].user \in DOMAIN users
        /\ LOWER(users[call[c].user]) = LOWER(call[c].email)
    BY <1>2 DEF Knows, CallOK
  <2> HIDE DEF q
  <2>3. ProvesBy(q, q.user, users, identities)
    BY <1>5, <2>1, <2>2 DEF ProvesBy
  <2>4. Knows(q)
    BY <2>1, <2>2, <2>3 DEF Knows, CallOK
  <2>5. QED
    BY <1>1, <1>5, <2>4, GoOnIInv DEF q, Await
<1>6. QED
  BY <1>3, <1>4, <1>5 DEF CheckPassword

\* GitHub names the user, or does not.
LEMMA GitHubAnswers ==
  ASSUME IInv, NEW c \in Call, complete_github(c)
  PROVE  IInv'
<1>1. /\ Waits(c, "complete_github")
      /\ UNCHANGED <<tables, oauth, sessions, now>>
  BY DEF complete_github
<1>2. /\ call[c] \in Request /\ Knows(call[c])
      /\ call[c].pc = "complete_github"
  BY <1>1, Waiting
<1>3. ASSUME NEW res \in Answer \ {"dangling"}, End(c, res)
      PROVE  IInv'
  BY <1>1, <1>3, EndIInv
<1>4. CASE GoOn(c, "find_identity")
  <2> DEFINE q == [call[c] EXCEPT !.pc = "find_identity"]
  <2>1. /\ q \in Request /\ q.pc = "find_identity"
        /\ q.state = call[c].state /\ q.rpc = call[c].rpc
        /\ q.email = call[c].email /\ q.password = call[c].password
        /\ q.subject = call[c].subject
    BY <1>2, GoesOn DEF Await
  <2> HIDE DEF q
  <2>2. Knows(q)
    BY <1>2, <2>1 DEF Knows, CallOK
  <2>3. QED
    BY <1>1, <1>4, <2>2, GoOnIInv DEF q, Await
<1>5. QED
  BY <1>3, <1>4 DEF complete_github, Answer

\* The identity of a GitHub user is that of a user who is there; a request
\* that finds none goes on to make an account.
LEMMA IdentityFound ==
  ASSUME IInv, NEW c \in Call, find_identity(c)
  PROVE  IInv'
<1>1. /\ Waits(c, "find_identity")
      /\ UNCHANGED <<tables, oauth, sessions, now>>
  BY DEF find_identity
<1>2. /\ call[c] \in Request /\ Knows(call[c])
      /\ call[c].pc = "find_identity"
  BY <1>1, Waiting
<1>3. CASE BackendFails(c)
  BY <1>1, <1>3, BackendFailsIInv
<1>4. CASE GoOn(c, "create_user")
  <2> DEFINE q == [call[c] EXCEPT !.pc = "create_user"]
  <2>1. /\ q \in Request /\ q.pc = "create_user" /\ q.rpc = call[c].rpc
        /\ q.email = call[c].email /\ q.password = call[c].password
        /\ q.subject = call[c].subject
    BY <1>2, GoesOn DEF Await
  <2> HIDE DEF q
  <2>2. Knows(q)
    BY <1>2, <2>1 DEF Knows, CallOK
  <2>3. QED
    BY <1>1, <1>4, <2>2, GoOnIInv DEF q, Await
<1>5. ASSUME NEW i \in identities, i.provider = "github",
             i.provider_user_id = call[c].subject,
             GoOnAs(c, "get_user", i.user_id)
      PROVE  IInv'
  <2> DEFINE p == [call[c] EXCEPT !.pc = "get_user"]
             q == [p EXCEPT !.user = i.user_id]
  <2>1. i.user_id \in DOMAIN users /\ i.user_id \in UserId
    BY DEF IInv, TypeOK, AccountsAreWhole
  <2>2. /\ q \in Request /\ q.pc = "get_user" /\ q.user = i.user_id
        /\ q.rpc = call[c].rpc /\ q.subject = call[c].subject
    <3>1. /\ p \in Request /\ p.pc = "get_user" /\ p.rpc = call[c].rpc
          /\ p.email = call[c].email /\ p.password = call[c].password
          /\ p.subject = call[c].subject
      BY <1>2, GoesOn DEF Await
    <3> HIDE DEF p
    <3>2. QED
      BY <2>1, <3>1, ActsAs
  <2>3. call[c].rpc = "CompleteOAuth"
    BY <1>2 DEF Knows, CallOK
  <2> HIDE DEF q
  <2>4. ProvesBy(q, q.user, users, identities)
    BY <1>5, <2>2, <2>3 DEF ProvesBy
  <2>5. Knows(q)
    BY <2>1, <2>2, <2>4 DEF Knows, CallOK
  <2>6. QED
    BY <1>1, <1>5, <2>5, GoOnAsIInv DEF p, q, Await
<1>6. QED
  BY <1>3, <1>4, <1>5 DEF find_identity

\* That user is there.
LEMMA UserRead ==
  ASSUME IInv, NEW c \in Call, get_user(c)
  PROVE  IInv'
<1>1. Waits(c, "get_user") /\ UNCHANGED <<tables, oauth, sessions, now>>
  BY DEF get_user
<1>2. call[c] \in Request /\ Knows(call[c]) /\ call[c].pc = "get_user"
  BY <1>1, Waiting
<1>3. CASE BackendFails(c)
  BY <1>1, <1>3, BackendFailsIInv
<1>4. /\ call[c].user \in DOMAIN users
      /\ ProvesBy(call[c], call[c].user, users, identities)
  BY <1>2 DEF Knows, CallOK
<1>5. CASE GoOn(c, "list_organizations")
  <2> DEFINE q == [call[c] EXCEPT !.pc = "list_organizations"]
  <2>1. /\ q \in Request /\ q.pc = "list_organizations"
        /\ q.user = call[c].user /\ q.rpc = call[c].rpc
        /\ q.email = call[c].email /\ q.password = call[c].password
        /\ q.subject = call[c].subject
    BY <1>2, GoesOn DEF Await
  <2> HIDE DEF q
  <2>2. ProvesBy(q, q.user, users, identities)
    BY <1>4, <2>1 DEF ProvesBy
  <2>3. Knows(q)
    BY <1>4, <2>1, <2>2 DEF Knows, CallOK
  <2>4. QED
    BY <1>1, <1>5, <2>3, GoOnIInv DEF q, Await
<1>6. QED
  BY <1>3, <1>4, <1>5 DEF get_user

\* The rows a session names are there.
LEMMA WhoamiAnswers ==
  ASSUME IInv, NEW c \in Call, WhoamiReads(c)
  PROVE  IInv'
<1>1. Waits(c, "whoami") /\ UNCHANGED <<tables, oauth, sessions, now>>
  BY DEF WhoamiReads
<1>2. Knows(call[c]) /\ call[c].pc = "whoami"
  BY <1>1, Waiting
<1>3. /\ call[c].session.user \in DOMAIN users
      /\ call[c].session.org \in DOMAIN organizations
  BY <1>2 DEF Knows, CallOK, IInv, SessionsOK
<1>4. QED
  BY <1>1, <1>3, EndIInv, BackendFailsIInv DEF WhoamiReads, Answer

-----------------------------------------------------------------------------
(* OAuth states.                                                           *)

\* A step that ends or moves a request on and touches only OAuth states.
LEMMA OnlyStatesMove ==
  ASSUME IInv, NEW c \in Call, NEW r \in Request,
         call' = [call EXCEPT ![c] = r],
         Knows(r), r.pc # "store_oauth_state",
         UNCHANGED <<tables, drawn, sessions, now>>,
         DOMAIN oauth_states' \subseteq drawn,
         oauth_states' \in [DOMAIN oauth_states' -> Nat],
         granted' \in [State -> Nat],
         StatesOK', StatesAreSingleUse'
  PROVE  IInv'
<1>1. Grows
  BY DEF tables, Grows
<1>2. CallsOK' /\ call' \in [Call -> Request \cup {None}]
  BY <1>1, CallsStep DEF tables, Knows
<1>3. QED
  BY <1>2 DEF IInv, TypeOK, IdentitiesOK, SessionsOK, AccountsAreWhole,
     KeysAreUnique, tables

\* The state that is stored is one that has let nobody on.
LEMMA StateStored ==
  ASSUME IInv, NEW c \in Call, store_oauth_state(c)
  PROVE  IInv'
<1> DEFINE s == call[c].state
<1>1. /\ Waits(c, "store_oauth_state")
      /\ UNCHANGED <<tables, drawn, granted, sessions, now>>
  BY DEF store_oauth_state
<1>2. /\ call[c] \in Request /\ Knows(call[c])
      /\ call \in [Call -> Request \cup {None}] /\ Storing(c)
  BY <1>1, Waiting DEF Storing
<1>3. CASE UNCHANGED oauth_states /\ BackendFails(c)
  BY <1>1, <1>3, BackendFailsIInv DEF oauth
<1>4. ASSUME oauth_states' = [x \in DOMAIN oauth_states \cup {s} |->
               IF x = s THEN call[c].now_ms + StateTtl ELSE oauth_states[x]],
             NEW res \in {"ok", "internal"}, End(c, res)
      PROVE  IInv'
  <2> DEFINE r == Done(call[c], res)
  <2>1. Knows(r) /\ r.pc = "done" /\ r \in Request
    BY <1>2, DoneKnows DEF Knows, Answer, CallOK
  <2>2. call' = [call EXCEPT ![c] = r]
    BY <1>2, <1>4 DEF End
  <2>3. s \in State /\ s \in drawn \ DOMAIN oauth_states /\ granted[s] = 0
    BY <1>2 DEF IInv, StatesOK, TypeOK
  <2>4. call[c].now_ms + StateTtl \in Nat
    BY <1>2, AccountsAssumption DEF Request
  <2>5. /\ DOMAIN oauth_states' = DOMAIN oauth_states \cup {s}
        /\ oauth_states' \in [DOMAIN oauth_states' -> Nat]
    BY <1>4, <2>4 DEF IInv, TypeOK
  <2> HIDE DEF r
  <2>6. \A e \in Call : Storing(e)' =>
          e # c /\ Storing(e) /\ call'[e] = call[e]
    BY <2>1, <2>2, StoringStep
  <2>7. StatesOK'
    BY <1>1, <1>2, <2>5, <2>6 DEF IInv, StatesOK
  <2>8. StatesAreSingleUse'
    BY <1>1, <2>3, <2>5 DEF IInv, StatesAreSingleUse
  <2>9. DOMAIN oauth_states' \subseteq drawn
    BY <2>3, <2>5 DEF IInv, TypeOK
  <2>10. granted' \in [State -> Nat]
    BY <1>1 DEF IInv, TypeOK
  <2>11. QED
    BY <1>1, <2>1, <2>2, <2>5, <2>7, <2>8, <2>9, <2>10, OnlyStatesMove
<1>5. QED
  BY <1>3, <1>4 DEF store_oauth_state, BackendFails

\* The state that lets a request on is deleted by the same query.
LEMMA StateConsumed ==
  ASSUME IInv, NEW c \in Call, consume_oauth_state(c)
  PROVE  IInv'
<1> DEFINE s == call[c].state
           q == [call[c] EXCEPT !.pc = "complete_github"]
           fresh == s \in DOMAIN oauth_states
                      /\ oauth_states[s] >= call[c].now_ms
           passed == fresh /\ granted' = [granted EXCEPT ![s] = @ + 1]
<1>1. /\ Waits(c, "consume_oauth_state")
      /\ UNCHANGED <<tables, drawn, sessions, now>>
  BY DEF consume_oauth_state
<1>2. /\ call[c] \in Request /\ Knows(call[c]) /\ call[c] # None
      /\ call \in [Call -> Request \cup {None}]
      /\ call[c].pc = "consume_oauth_state"
  BY <1>1, Waiting
<1>3. CASE UNCHANGED <<oauth_states, granted>> /\ BackendFails(c)
  BY <1>1, <1>3, BackendFailsIInv DEF oauth
<1>4. ASSUME oauth_states' = [x \in DOMAIN oauth_states \ {s} |->
                                oauth_states[x]],
             passed \/ UNCHANGED granted,
             NEW r \in Request, Knows(r), r.pc # "store_oauth_state",
             call' = [call EXCEPT ![c] = r]
      PROVE  IInv'
  <2>1. /\ DOMAIN oauth_states' = DOMAIN oauth_states \ {s}
        /\ oauth_states' \in [DOMAIN oauth_states' -> Nat]
        /\ DOMAIN oauth_states' \subseteq drawn
    BY <1>4 DEF IInv, TypeOK
  <2>2. granted \in [State -> Nat] /\ DOMAIN oauth_states \subseteq State
    BY DEF IInv, TypeOK
  <2>3. fresh => s \in drawn /\ granted[s] = 0
    BY <2>2 DEF IInv, TypeOK, StatesAreSingleUse
  <2>4. /\ granted' \in [State -> Nat]
        /\ \A t \in State : granted'[t] = granted[t]
                              \/ (t = s /\ fresh /\ granted'[t] = 1)
    BY <1>4, <2>2, <2>3
  <2> HIDE DEF fresh, passed
  <2>5. StatesAreSingleUse'
    BY <2>1, <2>4 DEF IInv, StatesAreSingleUse
  <2>6. \A e \in Call : Storing(e)' =>
          e # c /\ Storing(e) /\ call'[e] = call[e]
    BY <1>4, StoringStep
  <2>7. \A t \in State : granted'[t] > 0 => t \in drawn'
    BY <1>1, <2>3, <2>4 DEF IInv, StatesOK
  <2>8. \A e \in Call : Storing(e) =>
          /\ call[e].state \in drawn \ DOMAIN oauth_states
          /\ granted[call[e].state] = 0 /\ call[e].state \in State
    BY DEF IInv, StatesOK, TypeOK
  <2>9. \A e \in Call : Storing(e)' =>
          /\ call'[e].state \in drawn' \ DOMAIN oauth_states'
          /\ granted'[call'[e].state] = 0
    BY <1>1, <2>1, <2>4, <2>6, <2>8 DEF fresh
  <2>10. StatesOK'
    BY <2>6, <2>7, <2>9 DEF IInv, StatesOK
  <2>11. QED
    BY <1>1, <1>4, <2>1, <2>4, <2>5, <2>10, OnlyStatesMove
<1>5. ASSUME NEW res \in Answer \ {"dangling"}, End(c, res)
      PROVE  \E r \in Request :
               /\ Knows(r) /\ r.pc # "store_oauth_state"
               /\ call' = [call EXCEPT ![c] = r]
  <2>1. call' = [call EXCEPT ![c] = Done(call[c], res)]
    BY <1>2, <1>5 DEF End
  <2>2. Knows(Done(call[c], res)) /\ Done(call[c], res).pc = "done"
    BY <1>2, DoneKnows DEF Knows
  <2>3. Done(call[c], res) \in Request
    BY <2>2 DEF Knows, CallOK
  <2>4. QED
    BY <2>1, <2>2, <2>3
<1>6. ASSUME GoOn(c, "complete_github")
      PROVE  \E r \in Request :
               /\ Knows(r) /\ r.pc # "store_oauth_state"
               /\ call' = [call EXCEPT ![c] = r]
  <2>1. call' = [call EXCEPT ![c] = q]
    BY <1>2, <1>6 DEF GoOn
  <2>2. /\ q \in Request /\ q.pc = "complete_github"
        /\ q.state = call[c].state /\ q.rpc = call[c].rpc
        /\ q.email = call[c].email /\ q.password = call[c].password
        /\ q.subject = call[c].subject
    BY <1>2, GoesOn DEF Await
  <2> HIDE DEF q
  <2>3. Knows(q)
    BY <1>2, <2>2 DEF Knows, CallOK
  <2>4. QED
    BY <2>1, <2>2, <2>3
<1>7. ASSUME oauth_states' = [x \in DOMAIN oauth_states \ {s} |->
                                oauth_states[x]],
             passed \/ UNCHANGED granted,
             \/ GoOn(c, "complete_github")
             \/ \E res \in Answer \ {"dangling"} : End(c, res)
      PROVE  IInv'
  <2>1. PICK r \in Request :
               /\ Knows(r) /\ r.pc # "store_oauth_state"
               /\ call' = [call EXCEPT ![c] = r]
    BY <1>5, <1>6, <1>7
  <2>2. QED
    BY <1>4, <1>7, <2>1
<1>8. QED
  BY <1>3, <1>7 DEF consume_oauth_state, BackendFails, Answer

-----------------------------------------------------------------------------
(* Sessions.                                                               *)

\* The user a request has proved to be has an organization to sign in to.
LEMMA SessionIssued ==
  ASSUME IInv, NEW c \in Call, issue_session_for(c)
  PROVE  /\ IInv'
         /\ \A t \in sessions' \ sessions :
              /\ organizations[t.org] = t.user /\ users[t.user] = t.email
              /\ Proves(c, t.user)
<1> DEFINE u == call[c].user
           mine == {m \in memberships :
                      m.user_id = u /\ m.org_id \in DOMAIN organizations}
<1>1. /\ Waits(c, "list_organizations")
      /\ UNCHANGED <<tables, oauth, now>>
  BY DEF issue_session_for
<1>2. /\ call[c] \in Request /\ Knows(call[c])
      /\ call \in [Call -> Request \cup {None}]
      /\ call[c].pc = "list_organizations"
  BY <1>1, Waiting
<1>3. u \in DOMAIN users /\ u \in UserId /\ users[u] \in Email
  BY <1>2 DEF Knows, CallOK, IInv, TypeOK
<1>4. Proves(c, u)
  BY <1>2 DEF Knows, CallOK, Proves, ProvesBy
<1>5. PICK o \in DOMAIN organizations :
        /\ {m \in memberships : m.user_id = u}
             = {[user_id |-> u, org_id |-> o, role |-> "admin"]}
        /\ {x \in DOMAIN organizations : organizations[x] = u} = {o}
  BY <1>3 DEF IInv, AccountsAreWhole
<1>6. mine # {} /\ \A m \in mine : m.org_id = o /\ m.role = "admin"
  <2>1. [user_id |-> u, org_id |-> o, role |-> "admin"] \in mine
    BY <1>5
  <2>2. \A m \in mine : m = [user_id |-> u, org_id |-> o, role |-> "admin"]
    BY <1>5
  <2>3. QED
    BY <2>1, <2>2
<1>7. organizations[o] = u /\ o \in OrgId
  BY <1>5 DEF IInv, TypeOK
<1>8. CASE BackendFails(c) /\ UNCHANGED sessions
  BY <1>1, <1>8, BackendFailsIInv
<1>9. ASSUME NEW m \in mine, End(c, "ok"),
             sessions' = sessions \cup
               {[user |-> u, email |-> users[u], org |-> m.org_id,
                 role |-> m.role, exp |-> now + SessionTtl]}
      PROVE  /\ IInv'
             /\ \A t \in sessions' \ sessions :
                  /\ organizations[t.org] = t.user /\ users[t.user] = t.email
                  /\ Proves(c, t.user)
  <2> DEFINE t == [user |-> u, email |-> users[u], org |-> o,
                   role |-> "admin", exp |-> now + SessionTtl]
             r == Done(call[c], "ok")
  <2>1. sessions' = sessions \cup {t}
    BY <1>6, <1>9
  <2>2. now + SessionTtl \in Nat
    BY AccountsAssumption DEF IInv, TypeOK
  <2>3. /\ t \in Session /\ t.user = u /\ t.org = o /\ t.email = users[u]
    BY <1>3, <1>7, <2>2 DEF Session
  <2> HIDE DEF t
  <2>4. CallOK(r, users', identities', sessions')
    BY <1>2, DoneKnows DEF Answer
  <2>5. r.pc = "done"
    BY <1>2, DoneKnows DEF Answer
  <2>6. call' = [call EXCEPT ![c] = r]
    BY <1>2, <1>9 DEF End
  <2> HIDE DEF r
  <2>7. Grows
    BY <1>1, <2>1 DEF Grows, tables
  <2>8. CallsOK' /\ call' \in [Call -> Request \cup {None}]
    BY <2>4, <2>6, <2>7, CallsStep
  <2>9. StatesOK'
    <3>1. \A e \in Call : Storing(e)' =>
            e # c /\ Storing(e) /\ call'[e] = call[e]
      BY <2>5, <2>6, StoringStep
    <3>2. QED
      BY <1>1, <3>1 DEF IInv, StatesOK, oauth
  <2>10. SessionsOK'
    BY <1>1, <1>3, <2>1, <2>3 DEF IInv, SessionsOK, tables
  <2>11. TypeOK'
    BY <1>1, <2>1, <2>3, <2>8 DEF IInv, TypeOK, tables, oauth
  <2>12. IdentitiesOK' /\ AccountsAreWhole' /\ KeysAreUnique'
    BY <1>1 DEF IInv, IdentitiesOK, AccountsAreWhole, KeysAreUnique, tables
  <2>13. StatesAreSingleUse'
    BY <1>1 DEF IInv, StatesAreSingleUse, oauth
  <2>14. IInv'
    BY <2>8, <2>9, <2>10, <2>11, <2>12, <2>13 DEF IInv
  <2>15. QED
    BY <1>4, <1>7, <2>1, <2>3, <2>14
<1>10. QED
  BY <1>6, <1>8, <1>9 DEF issue_session_for

-----------------------------------------------------------------------------
(* New accounts.                                                           *)

\* The new account is whole, and the others stay so: no row that is there
\* is of a user, or in an organization, that is not.
LEMMA InsertedWhole ==
  ASSUME IInv, NEW u \in UserId \ DOMAIN users,
         NEW o \in OrgId \ DOMAIN organizations, NEW email,
         NEW provider, NEW subject, NEW secret,
         InsertAccount(u, o, email, provider, subject, secret)
  PROVE  AccountsAreWhole'
<1> DEFINE i == [user_id |-> u, provider |-> provider,
                 provider_user_id |-> subject, secret |-> secret]
           m(v, x) == [user_id |-> v, org_id |-> x, role |-> "admin"]
<1>1. /\ DOMAIN users' = DOMAIN users \cup {u}
      /\ DOMAIN organizations' = DOMAIN organizations \cup {o}
      /\ organizations'[o] = u
      /\ \A x \in DOMAIN organizations : organizations'[x] = organizations[x]
  BY DEF InsertAccount
<1>2. /\ identities' = identities \cup {i} /\ i.user_id = u
      /\ memberships' = memberships \cup {m(u, o)} /\ m(u, o).user_id = u
      /\ m(u, o).org_id = o
  BY DEF InsertAccount
<1>3. /\ \A j \in identities : j.user_id \in DOMAIN users
      /\ \A x \in DOMAIN organizations : organizations[x] \in DOMAIN users
      /\ \A n \in memberships :
           n.user_id \in DOMAIN users /\ n.org_id \in DOMAIN organizations
  BY DEF IInv, AccountsAreWhole
<1>4. /\ \E k \in identities' : {j \in identities' : j.user_id = u} = {k}
      /\ {n \in memberships' : n.user_id = u} = {m(u, o)}
      /\ {x \in DOMAIN organizations' : organizations'[x] = u} = {o}
  <2> HIDE DEF i, m
  <2>1. {j \in identities' : j.user_id = u} = {i}
    BY <1>2, <1>3
  <2>2. {n \in memberships' : n.user_id = u} = {m(u, o)}
    BY <1>2, <1>3
  <2>3. {x \in DOMAIN organizations' : organizations'[x] = u} = {o}
    BY <1>1, <1>3
  <2>4. QED
    BY <1>2, <2>1, <2>2, <2>3
<1>5. ASSUME NEW v \in DOMAIN users
      PROVE  /\ \E k \in identities' : {j \in identities' : j.user_id = v} = {k}
             /\ \E x \in DOMAIN organizations' :
                  /\ {n \in memberships' : n.user_id = v} = {m(v, x)}
                  /\ {y \in DOMAIN organizations' : organizations'[y] = v} = {x}
  <2>1. PICK k \in identities : {j \in identities : j.user_id = v} = {k}
    BY DEF IInv, AccountsAreWhole
  <2>2. PICK x \in DOMAIN organizations :
          /\ {n \in memberships : n.user_id = v} = {m(v, x)}
          /\ {y \in DOMAIN organizations : organizations[y] = v} = {x}
    BY DEF IInv, AccountsAreWhole
  <2> HIDE DEF i, m
  <2>3. {j \in identities' : j.user_id = v} = {j \in identities : j.user_id = v}
    BY <1>2
  <2>4. {n \in memberships' : n.user_id = v}
          = {n \in memberships : n.user_id = v}
    BY <1>2
  <2>5. {y \in DOMAIN organizations' : organizations'[y] = v}
          = {y \in DOMAIN organizations : organizations[y] = v}
    BY <1>1
  <2>6. QED
    BY <1>1, <1>2, <2>1, <2>2, <2>3, <2>4, <2>5
<1>6. /\ \A j \in identities' : j.user_id \in DOMAIN users'
      /\ \A x \in DOMAIN organizations' : organizations'[x] \in DOMAIN users'
      /\ \A n \in memberships' :
           n.user_id \in DOMAIN users' /\ n.org_id \in DOMAIN organizations'
  <2> HIDE DEF i, m
  <2>1. QED
    BY <1>1, <1>2, <1>3
<1>7. QED
  BY <1>1, <1>4, <1>5, <1>6 DEF AccountsAreWhole

\* The unique indexes have let the account in.
LEMMA InsertedUnique ==
  ASSUME IInv, NEW u \in UserId \ DOMAIN users,
         NEW o \in OrgId \ DOMAIN organizations, NEW email,
         NEW provider, NEW subject, NEW secret,
         InsertAccount(u, o, email, provider, subject, secret),
         \A v \in DOMAIN users : LOWER(users[v]) # LOWER(email),
         \A i \in identities : i.provider = provider =>
           i.provider_user_id # subject
  PROVE  KeysAreUnique'
<1>1. /\ DOMAIN users' = DOMAIN users \cup {u} /\ users'[u] = email
      /\ \A v \in DOMAIN users : users'[v] = users[v]
  BY DEF InsertAccount
<1>2. \A v, w \in DOMAIN users' :
        LOWER(users'[v]) = LOWER(users'[w]) => v = w
  BY <1>1 DEF IInv, KeysAreUnique
<1>3. \A i, j \in identities' :
        i.provider = j.provider /\ i.provider_user_id = j.provider_user_id
          => i = j
  BY DEF InsertAccount, IInv, KeysAreUnique
<1>4. QED
  BY <1>2, <1>3 DEF KeysAreUnique

\* A new account, of the request that has asked for it.
LEMMA UserCreated ==
  ASSUME IInv, NEW c \in Call, CreateUser(c)
  PROVE  IInv'
<1> DEFINE r == call[c]
           provider == IF r.rpc = "Signup" THEN "password" ELSE "github"
<1>1. Waits(c, "create_user") /\ UNCHANGED <<oauth, sessions, now>>
  BY DEF CreateUser
<1>2. /\ r \in Request /\ Knows(r) /\ r.pc = "create_user"
      /\ call \in [Call -> Request \cup {None}]
  BY <1>1, Waiting
<1>3. /\ r.email \in Email
      /\ \/ r.rpc = "Signup" /\ r.password \in Password
         \/ r.rpc = "CompleteOAuth" /\ r.subject \in Subject
              /\ r.password = None
  BY <1>2 DEF Knows, CallOK
<1>4. CASE UNCHANGED tables /\ (End(c, "already_exists") \/ BackendFails(c))
  BY <1>1, <1>4, EndIInv, BackendFailsIInv DEF Answer
<1>5. ASSUME ~Taken(r.email, provider, r.subject),
             NEW u \in UserId \ DOMAIN users,
             NEW o \in OrgId \ DOMAIN organizations,
             InsertAccount(u, o, r.email, provider,
               IF provider = "password" THEN u ELSE r.subject, r.password),
             GoOnAs(c, "list_organizations", u) \/ BackendFails(c)
      PROVE  IInv'
  <2> DEFINE subject == IF provider = "password" THEN u ELSE r.subject
             i == [user_id |-> u, provider |-> provider,
                   provider_user_id |-> subject, secret |-> r.password]
             p == [r EXCEPT !.pc = "list_organizations"]
             q == [p EXCEPT !.user = u]
  <2>1. /\ DOMAIN users' = DOMAIN users \cup {u} /\ users'[u] = r.email
        /\ \A v \in DOMAIN users : users'[v] = users[v]
        /\ DOMAIN organizations' = DOMAIN organizations \cup {o}
        /\ organizations'[o] = u
        /\ \A x \in DOMAIN organizations : organizations'[x] = organizations[x]
    BY <1>5 DEF InsertAccount
  <2>2. /\ identities' = identities \cup {i}
        /\ memberships' = memberships \cup
             {[user_id |-> u, org_id |-> o, role |-> "admin"]}
    BY <1>5 DEF InsertAccount
  <2>3. /\ i \in Identity /\ i.user_id = u /\ i.provider = provider
        /\ i.provider_user_id = subject /\ i.secret = r.password
        /\ i.provider = "password" =>
             i.provider_user_id = i.user_id /\ i.secret \in Password
    BY <1>3 DEF Identity
  <2>4. AccountsAreWhole'
    BY <1>5, InsertedWhole
  <2>5. KeysAreUnique'
    <3>1. \A v \in DOMAIN users : LOWER(users[v]) # LOWER(r.email)
      BY <1>5 DEF Taken
    <3>2. \A j \in identities : j.provider = provider =>
            j.provider_user_id # subject
      <4>1. CASE provider = "password"
        BY <1>5, <4>1 DEF IInv, IdentitiesOK, AccountsAreWhole
      <4>2. CASE provider # "password"
        BY <1>5, <4>2 DEF Taken
      <4>3. QED
        BY <4>1, <4>2
    <3>3. QED
      BY <1>5, <3>1, <3>2, InsertedUnique
  <2>6. /\ users' \in [DOMAIN users' -> Email] /\ DOMAIN users' \subseteq UserId
        /\ organizations' \in [DOMAIN organizations' -> UserId]
        /\ DOMAIN organizations' \subseteq OrgId
        /\ identities' \subseteq Identity
        /\ memberships' \subseteq Membership
    <3> HIDE DEF i
    <3>1. users' \in [DOMAIN users' -> Email]
      BY <1>3, <1>5 DEF InsertAccount, IInv, TypeOK
    <3>2. organizations' \in [DOMAIN organizations' -> UserId]
      BY <1>5 DEF InsertAccount, IInv, TypeOK
    <3>3. [user_id |-> u, org_id |-> o, role |-> "admin"] \in Membership
      BY DEF Membership
    <3>4. QED
      BY <2>1, <2>2, <2>3, <3>1, <3>2, <3>3 DEF IInv, TypeOK
  <2>7. /\ q \in Request /\ q.pc = "list_organizations" /\ q.user = u
        /\ q.rpc = r.rpc /\ q.email = r.email /\ q.password = r.password
        /\ q.subject = r.subject
    <3>1. /\ p \in Request /\ p.pc = "list_organizations" /\ p.rpc = r.rpc
          /\ p.email = r.email /\ p.password = r.password
          /\ p.subject = r.subject
      BY <1>2, GoesOn DEF Await
    <3> HIDE DEF p
    <3>2. QED
      BY <3>1, ActsAs
  <2>8. ProvesBy(q, u, users', identities')
    <3> HIDE DEF i, q
    <3>1. i \in identities' /\ LOWER(users'[u]) = LOWER(q.email)
      BY <2>1, <2>2, <2>7
    <3>2. IF q.rpc = "CompleteOAuth"
          THEN i.provider = "github" /\ i.provider_user_id = q.subject
          ELSE i.provider = "password" /\ i.secret = q.password
      BY <1>3, <2>3, <2>7
    <3>3. QED
      BY <2>3, <3>1, <3>2 DEF ProvesBy
  <2>9. PICK d \in {q, Done(r, "internal")} : call' = [call EXCEPT ![c] = d]
    BY <1>2, <1>5 DEF GoOnAs, BackendFails, End
  <2>10. CallOK(d, users', identities', sessions')
         /\ d.pc # "store_oauth_state"
    <3>1. CASE d = q
      <4> HIDE DEF q, i
      <4>1. u \in DOMAIN users'
        BY <2>1
      <4>2. QED
        BY <2>7, <2>8, <3>1, <4>1 DEF CallOK
    <3>2. CASE d = Done(r, "internal")
      BY <1>2, <3>2, DoneKnows DEF Answer
    <3>3. QED
      BY <3>1, <3>2
  <2> HIDE DEF i, p, q, r, provider, subject
  <2>11. Grows
    BY <1>1, <2>1, <2>2 DEF Grows
  <2>12. CallsOK' /\ call' \in [Call -> Request \cup {None}]
    BY <2>9, <2>10, <2>11, CallsStep
  <2>13. StatesOK'
    <3>1. \A e \in Call : Storing(e)' =>
            e # c /\ Storing(e) /\ call'[e] = call[e]
      BY <2>9, <2>10, StoringStep
    <3>2. QED
      BY <1>1, <3>1 DEF IInv, StatesOK, oauth
  <2>14. TypeOK'
    BY <1>1, <2>6, <2>12 DEF IInv, TypeOK, oauth
  <2>15. IdentitiesOK' /\ SessionsOK'
    BY <1>1, <2>1, <2>2, <2>3 DEF IInv, IdentitiesOK, SessionsOK
  <2>16. StatesAreSingleUse'
    BY <1>1 DEF IInv, StatesAreSingleUse, oauth
  <2>17. QED
    BY <2>4, <2>5, <2>12, <2>13, <2>14, <2>15, <2>16 DEF IInv
<1>6. QED
  BY <1>4, <1>5 DEF CreateUser, signup_with_personal_org

-----------------------------------------------------------------------------
(* Every reachable state.                                                  *)

LEMMA InitIInv == Init => IInv
<1> SUFFICES ASSUME Init PROVE IInv
  OBVIOUS
<1>1. TypeOK
  BY AccountsAssumption DEF Init, TypeOK
<1>2. CallsOK /\ StatesOK
  BY DEF Init, CallsOK, StatesOK, Storing, Waits
<1>3. IdentitiesOK /\ SessionsOK /\ AccountsAreWhole
  BY DEF Init, IdentitiesOK, SessionsOK, AccountsAreWhole
<1>4. KeysAreUnique /\ StatesAreSingleUse
  BY DEF Init, KeysAreUnique, StatesAreSingleUse
<1>5. QED
  BY <1>1, <1>2, <1>3, <1>4 DEF IInv

LEMMA NextIInv == IInv /\ [Next]_vars => IInv'
<1> SUFFICES ASSUME IInv, [Next]_vars PROVE IInv'
  OBVIOUS
<1>1. CASE UNCHANGED vars
  BY <1>1 DEF vars, tables, oauth, IInv, TypeOK, CallsOK, Knows, IdentitiesOK,
     SessionsOK, StatesOK, Storing, Waits, AccountsAreWhole, KeysAreUnique,
     StatesAreSingleUse
<1>2. CASE Tick
  BY <1>2, TickIInv
<1>3. ASSUME NEW c \in Call,
             \/ signup(c) \/ login(c) \/ start_o_auth(c) \/ complete_o_auth(c)
             \/ whoami(c) \/ Answered(c)
      PROVE  IInv'
  BY <1>3, SignupArrives, LoginArrives, StartArrives, CompleteArrives,
     WhoamiArrives, AnsweredIInv
<1>4. ASSUME NEW c \in Call,
             \/ get_user_by_email(c) \/ CheckPassword(c) \/ complete_github(c)
             \/ find_identity(c) \/ get_user(c) \/ WhoamiReads(c)
      PROVE  IInv'
  BY <1>4, UserFound, PasswordChecked, GitHubAnswers, IdentityFound, UserRead,
     WhoamiAnswers
<1>5. ASSUME NEW c \in Call,
             \/ store_oauth_state(c) \/ consume_oauth_state(c)
             \/ CreateUser(c) \/ issue_session_for(c)
      PROVE  IInv'
  BY <1>5, StateStored, StateConsumed, UserCreated, SessionIssued
<1>6. QED
  BY <1>1, <1>2, <1>3, <1>4, <1>5 DEF Next

LEMMA SpecIInv == Spec => []IInv
BY InitIInv, NextIInv, PTL DEF Spec

\* Every account there ever is has one identity, one personal organization
\* and its admin membership (create_user's batch in repo_d1.rs).
THEOREM WholeAccounts == Spec => []AccountsAreWhole
<1>1. IInv => AccountsAreWhole
  BY DEF IInv
<1>2. QED
  BY <1>1, SpecIInv, PTL

\* No two accounts share an address up to case, and no two identities a
\* user of their provider.
THEOREM UniqueKeys == Spec => []KeysAreUnique
<1>1. IInv => KeysAreUnique
  BY DEF IInv
<1>2. QED
  BY <1>1, SpecIInv, PTL

\* An OAuth state lets one CompleteOAuth on, ever (consume_oauth_state).
THEOREM SingleUseStates == Spec => []StatesAreSingleUse
<1>1. IInv => StatesAreSingleUse
  BY DEF IInv
<1>2. QED
  BY <1>1, SpecIInv, PTL

\* The errors the handlers keep for a row that points at a missing one
\* (admin.rs) are never answered.
THEOREM NeverDangles == Spec => []NothingDangles
<1>1. IInv => NothingDangles
  BY DEF IInv, CallsOK, Knows, CallOK, NothingDangles, Waits
<1>2. QED
  BY <1>1, SpecIInv, PTL

\* Only issue_session_for mints sessions.
LEMMA OnlyIssueMints ==
  ASSUME IInv, [Next]_vars, sessions' # sessions
  PROVE  \E c \in Call : issue_session_for(c)
BY DEF Next, vars, tables, oauth, Tick, Refuse, Arrive, signup, CreateUser,
   login, get_user_by_email, CheckPassword, start_o_auth, store_oauth_state,
   complete_o_auth, consume_oauth_state, complete_github, find_identity,
   get_user, whoami, WhoamiReads, Answered

\* A session names a user its caller has proved to be, with the user's
\* address and organization (issue_session_for).
THEOREM ProvedSessions == Spec => SessionsAreProved
<1>1. ASSUME IInv, [Next]_vars, NEW t \in sessions' \ sessions
      PROVE  /\ organizations[t.org] = t.user /\ users[t.user] = t.email
             /\ \E c \in Call :
                  /\ Waits(c, "list_organizations") /\ call'[c].res = "ok"
                  /\ Proves(c, t.user)
  <2>1. PICK c \in Call : issue_session_for(c)
    BY <1>1, OnlyIssueMints
  <2>2. Waits(c, "list_organizations")
    BY <2>1 DEF issue_session_for
  <2>3. call'[c].res = "ok"
    <3>1. call \in [Call -> Request \cup {None}]
      BY <1>1, <2>2, Waiting
    <3>2. End(c, "ok")
      BY <1>1, <2>1 DEF issue_session_for
    <3>3. QED
      BY <3>1, <3>2 DEF End, Done, Blank
  <2>4. QED
    BY <1>1, <2>1, <2>2, <2>3, SessionIssued
<1>2. IInv /\ [Next]_vars =>
        [ \A t \in sessions' \ sessions :
            /\ organizations[t.org] = t.user /\ users[t.user] = t.email
            /\ \E c \in Call :
                 /\ Waits(c, "list_organizations") /\ call'[c].res = "ok"
                 /\ Proves(c, t.user) ]_vars
  BY <1>1
<1>3. QED
  BY <1>2, SpecIInv, PTL DEF Spec, SessionsAreProved
=============================================================================
