--------------------------- MODULE DatabasesProofs ---------------------------
(***************************************************************************)
(* Theorems about Databases, for any number of requests, databases,        *)
(* organizations, sessions and names, and for every bound.                 *)
(*                                                                         *)
(* IInv is the inductive invariant.  Beside the properties to prove it     *)
(* says what a request knows where it waits (CallOK): whose row it has     *)
(* read, that it may delete it, that its token was minted.  What a request *)
(* knows stays true while others run, because rows and tokens are created  *)
(* once and histories only grow (Grows).                                   *)
(***************************************************************************)
EXTENDS Databases, TLAPS

\* A request that waits where it does: given the organizations cr of the
\* databases there ever were, the tokens minted and the databases deleted.
CallOK(r, cr, minted, deleted) ==
  /\ r \in Request
  /\ r.gone \subseteq deleted
  /\ r.pc = "create_query" =>
       r.session \in Session /\ r.name \in Name /\ r.name = trim(r.name)
  /\ r.pc \in {"get_query", "get_answer", "delete_query"} =>
       /\ r.session \in Session /\ r.database \in DatabaseId
       /\ \/ r.rpc = "DeleteDatabase" /\ r.session.role = "admin"
          \/ r.rpc = "IssueSyncToken" /\ r.ttl \in Ttl
  /\ r.pc \in {"get_answer", "delete_query"} =>
       /\ r.database \in DOMAIN cr
       /\ r.row \in Row /\ r.row.org_id = cr[r.database]
  /\ r.pc = "get_answer" => r.database \notin r.gone
  /\ r.pc = "delete_query" =>
       r.rpc = "DeleteDatabase" /\ r.row.org_id = r.session.org
  /\ r.pc \in {"edge", "object"} =>
       \E m \in minted \cup {SessionToken(t) : t \in Session} :
         /\ r.token.claims = m.claims
         /\ m.caveats \subseteq r.token.caveats

Knows(r) == CallOK(r, created, sync_tokens, AnsweredDeletions)

CallsOK == \A c \in Call : call[c] # None => Knows(call[c])

\* A row belongs to who created it, and its name has no blanks around it.
RowsOK ==
  \A d \in DOMAIN databases :
    /\ databases[d].org_id = created[d]
    /\ databases[d].name = trim(databases[d].name)

\* A token names a database and the organization that created it.
TokensOK ==
  \A t \in sync_tokens :
    LET d == t.claims.database_id
    IN  d \in DOMAIN created /\ created[d] = t.claims.org_id

\* Only what was created has been deleted.
DeletedWasCreated ==
  \A d \in DatabaseId : deletions[d] > 0 => d \in DOMAIN created

\* The inductive invariant.
IInv ==
  /\ TypeOK
  /\ CallsOK
  /\ RowsOK
  /\ TokensOK
  /\ DeletedWasCreated
  /\ NamesAreUnique
  /\ DeletionsAreFinal

\* What no step takes back.
Grows ==
  /\ DOMAIN created \subseteq DOMAIN created'
  /\ \A d \in DOMAIN created : created'[d] = created[d]
  /\ sync_tokens \subseteq sync_tokens'
  /\ AnsweredDeletions \subseteq AnsweredDeletions'

-----------------------------------------------------------------------------
(* One request moves, the others keep what they know.                      *)

\* What a request knows is not taken back.
LEMMA KnowsStays ==
  ASSUME NEW r, Knows(r), Grows
  PROVE  CallOK(r, created', sync_tokens', AnsweredDeletions')
BY DEF Knows, CallOK, Grows

\* It is enough to look at the request that moves.
LEMMA CallsStep ==
  ASSUME IInv, Grows, NEW c \in Call, NEW r,
         call' = [call EXCEPT ![c] = r],
         r = None \/ CallOK(r, created', sync_tokens', AnsweredDeletions')
  PROVE  CallsOK' /\ call' \in [Call -> Request \cup {None}]
<1>1. call \in [Call -> Request \cup {None}]
  BY DEF IInv, TypeOK
<1>2. r \in Request \cup {None}
  BY DEF CallOK
<1>3. ASSUME NEW e \in Call, call'[e] # None
      PROVE  CallOK(call'[e], created', sync_tokens', AnsweredDeletions')
  <2>1. CASE e = c
    BY <1>1, <1>3, <2>1
  <2>2. CASE e # c
    <3>1. call'[e] = call[e]
      BY <1>1, <2>2
    <3>2. Knows(call[e])
      BY <1>3, <3>1 DEF IInv, CallsOK
    <3>3. QED
      BY <3>1, <3>2, KnowsStays
  <2>3. QED
    BY <2>1, <2>2
<1>4. QED
  BY <1>1, <1>2, <1>3 DEF CallsOK, Knows

\* What a step that moves a request only leaves alone.
tables == <<databases, sync_tokens, created, deletions>>

\* A step that moves one request and touches no table.
LEMMA OnlyCallMoves ==
  ASSUME IInv, NEW c \in Call, NEW r, call' = [call EXCEPT ![c] = r],
         r = None \/ Knows(r), UNCHANGED tables, UNCHANGED now
  PROVE  IInv'
<1>1. AnsweredDeletions' = AnsweredDeletions
  BY DEF tables, AnsweredDeletions
<1>2. Grows
  BY <1>1 DEF tables, Grows
<1>3. CallsOK' /\ call' \in [Call -> Request \cup {None}]
  BY <1>1, <1>2, CallsStep DEF tables, Knows
<1>4. QED
  BY <1>3 DEF IInv, TypeOK, RowsOK, TokensOK, DeletedWasCreated,
              NamesAreUnique, DeletionsAreFinal, tables

\* A new request is one.
LEMMA BlankType ==
  ASSUME NEW rpc \in Rpc, NEW pc \in Await \cup {"done"}
  PROVE  Blank(rpc, pc) \in Request
BY DEF Blank, Request

\* A request that has been answered knows nothing.
LEMMA DoneKnows ==
  ASSUME NEW r \in Request, NEW res \in Answer,
         NEW cr, NEW minted, NEW deleted
  PROVE  CallOK(Done(r, res), cr, minted, deleted)
<1>1. r.rpc \in Rpc
  BY DEF Request
<1>2. Done(r, res) \in Request
  BY <1>1 DEF Done, Blank, Request
<1>3. QED
  BY <1>2 DEF CallOK, Done, Blank

\* The request of a process that waits.
LEMMA Waiting ==
  ASSUME IInv, NEW c \in Call, NEW pc, Waits(c, pc)
  PROVE  /\ call[c] \in Request /\ call[c].pc = pc /\ Knows(call[c])
         /\ call[c] # None
BY DEF IInv, CallsOK, Waits, Knows, CallOK

\* An early return, whatever the reason.
LEMMA EndIInv ==
  ASSUME IInv, NEW c \in Call, NEW pc, Waits(c, pc), NEW res \in Answer,
         End(c, res), UNCHANGED tables, UNCHANGED now
  PROVE  IInv'
<1>1. call \in [Call -> Request \cup {None}] /\ call[c] \in Request
  BY Waiting DEF IInv, TypeOK
<1>2. call' = [call EXCEPT ![c] = Done(call[c], res)]
  BY <1>1 DEF End
<1>3. Knows(Done(call[c], res))
  BY <1>1, DoneKnows DEF Knows
<1>4. QED
  BY <1>2, <1>3, OnlyCallMoves

\* A request comes in.
LEMMA ArriveIInv ==
  ASSUME IInv, NEW c \in Call, NEW r, Arrive(c, r), Knows(r)
  PROVE  IInv'
BY OnlyCallMoves DEF Arrive, tables

-----------------------------------------------------------------------------
(* Requests come in.                                                       *)

\* A refused request is done as it comes in.
LEMMA RefuseIInv ==
  ASSUME IInv, NEW c \in Call, Refuse(c)
  PROVE  IInv'
<1>1. PICK x \in Refusal : Arrive(c, [Blank(x[1], "done") EXCEPT !.res = x[2]])
  BY DEF Refuse
<1>2. x[1] \in Rpc /\ x[2] \in Answer
  BY DEF Refusal, Rpc, Answer
<1>3. Knows([Blank(x[1], "done") EXCEPT !.res = x[2]])
  BY <1>2 DEF Knows, CallOK, Blank, Request
<1>4. QED
  BY <1>1, <1>3, ArriveIInv

\* CreateDatabase brings a session and a trimmed name.
LEMMA CreateArrives ==
  ASSUME IInv, NEW c \in Call, create_database(c)
  PROVE  IInv'
<1>1. PICK t \in LiveAdmin, n \in Name :
        Arrive(c, [Blank("CreateDatabase", "create_query") EXCEPT
                     !.session = t, !.name = trim(n)])
  BY DEF create_database
<1> DEFINE r == [Blank("CreateDatabase", "create_query") EXCEPT
                   !.session = t, !.name = trim(n)]
<1>2. t \in Session
  BY DEF LiveAdmin, LiveSession
<1>3. trim(n) \in Name /\ trim(trim(n)) = trim(n)
  BY DEF trim, Name
<1>4. r \in Request
  BY <1>2, <1>3 DEF Blank, Request, Rpc, Await
<1>5. Knows(r)
  BY <1>2, <1>3, <1>4 DEF Knows, CallOK, Blank
<1>6. QED
  BY <1>1, <1>5, ArriveIInv

\* ListDatabases brings a session and knows nothing.
LEMMA ListArrives ==
  ASSUME IInv, NEW c \in Call, list_databases(c)
  PROVE  IInv'
<1>1. PICK t \in LiveSession :
        Arrive(c, [Blank("ListDatabases", "list_query") EXCEPT !.session = t])
  BY DEF list_databases
<1> DEFINE r == [Blank("ListDatabases", "list_query") EXCEPT !.session = t]
<1>2. r \in Request
  BY DEF LiveSession, Blank, Request, Rpc, Await
<1>3. Knows(r)
  BY <1>2 DEF Knows, CallOK, Blank
<1>4. QED
  BY <1>1, <1>3, ArriveIInv

\* DeleteDatabase brings the session of an admin.
LEMMA DeleteArrives ==
  ASSUME IInv, NEW c \in Call, delete_database(c)
  PROVE  IInv'
<1>1. PICK t \in LiveAdmin, d \in DatabaseId :
        Arrive(c, [Blank("DeleteDatabase", "get_query") EXCEPT
                     !.session = t, !.database = d])
  BY DEF delete_database
<1> DEFINE r == [Blank("DeleteDatabase", "get_query") EXCEPT
                   !.session = t, !.database = d]
<1>2. t \in Session /\ t.role = "admin"
  BY DEF LiveAdmin, LiveSession
<1>3. r \in Request
  BY <1>2 DEF Blank, Request, Rpc, Await
<1>4. Knows(r)
  BY <1>2, <1>3 DEF Knows, CallOK, Blank
<1>5. QED
  BY <1>1, <1>4, ArriveIInv

\* IssueSyncToken notes which deletions have been answered.
LEMMA IssueArrives ==
  ASSUME IInv, NEW c \in Call, issue_sync_token(c)
  PROVE  IInv'
<1>1. PICK t \in LiveSession, d \in DatabaseId, ttl \in Ttl :
        Arrive(c, [Blank("IssueSyncToken", "get_query") EXCEPT
                     !.session = t, !.database = d, !.ttl = ttl,
                     !.gone = AnsweredDeletions])
  BY DEF issue_sync_token
<1> DEFINE r == [Blank("IssueSyncToken", "get_query") EXCEPT
                   !.session = t, !.database = d, !.ttl = ttl,
                   !.gone = AnsweredDeletions]
<1>2. t \in Session /\ AnsweredDeletions \subseteq DatabaseId
  BY DEF LiveSession, AnsweredDeletions
<1>3. r \in Request
  BY <1>2 DEF Blank, Request, Rpc, Await
<1>4. Knows(r)
  BY <1>2, <1>3 DEF Knows, CallOK, Blank
<1>5. QED
  BY <1>1, <1>4, ArriveIInv

\* A token of a session is one.
LEMMA SessionTokenType ==
  ASSUME NEW t \in Session
  PROVE  SessionToken(t) \in Macaroon
BY DatabasesAssumption DEF SessionToken, mint_session, pack, Macaroon, Claims,
   Caveat

\* An upgrade brings a token that was minted, with caveats added to it.
LEMMA UpgradeArrives ==
  ASSUME IInv, NEW c \in Call, forward(c)
  PROVE  IInv'
<1>1. PICK m \in sync_tokens \cup {SessionToken(x) : x \in Session},
           caveats \in Appended :
        Arrive(c, [Blank("Sync", "edge") EXCEPT !.token = append(m, caveats)])
  BY DEF forward
<1> DEFINE r == [Blank("Sync", "edge") EXCEPT !.token = append(m, caveats)]
<1>2. m \in Macaroon /\ caveats \in SUBSET Caveat
  BY SessionTokenType, DatabasesAssumption DEF IInv, TypeOK
<1>3. /\ append(m, caveats) \in Macaroon
      /\ append(m, caveats).claims = m.claims
      /\ m.caveats \subseteq append(m, caveats).caveats
  BY <1>2 DEF append, Macaroon
<1>4. r \in Request
  BY <1>3 DEF Blank, Request, Rpc, Await
<1>5. Knows(r)
  BY <1>3, <1>4 DEF Knows, CallOK, Blank
<1>6. QED
  BY <1>1, <1>5, ArriveIInv

-----------------------------------------------------------------------------
(* Steps that change no table.                                             *)

\* A request goes on with its variables.
LEMMA GoOnIInv ==
  ASSUME IInv, NEW c \in Call, NEW from, Waits(c, from), NEW pc, GoOn(c, pc),
         Knows([call[c] EXCEPT !.pc = pc]), UNCHANGED tables, UNCHANGED now
  PROVE  IInv'
<1>1. call \in [Call -> Request \cup {None}] /\ call[c] \in Request
  BY Waiting DEF IInv, TypeOK
<1>2. call' = [call EXCEPT ![c] = [call[c] EXCEPT !.pc = pc]]
  BY <1>1 DEF GoOn
<1>3. QED
  BY <1>2, OnlyCallMoves

\* get_database: the row is the one of its creation, and its deletion had
\* not been answered when the request came in.
LEMMA GetIInv ==
  ASSUME IInv, NEW c \in Call, get_database(c)
  PROVE  IInv'
<1> DEFINE d == call[c].database
<1>1. /\ call[c] \in Request /\ call[c].pc = "get_query" /\ Knows(call[c])
      /\ Waits(c, "get_query")
  BY Waiting DEF get_database
<1>2. UNCHANGED tables /\ UNCHANGED now
  BY DEF get_database, tables
<1>3. CASE End(c, "not_found") \/ End(c, "internal")
  BY <1>1, <1>2, <1>3, EndIInv DEF Answer
<1>4. CASE /\ d \in DOMAIN databases
           /\ call' = [call EXCEPT ![c].pc = "get_answer",
                                   ![c].row = databases[d]]
  <2> DEFINE r == [call[c] EXCEPT !.pc = "get_answer", !.row = databases[d]]
  <2>1. call \in [Call -> Request \cup {None}]
    BY DEF IInv, TypeOK
  <2>2. call' = [call EXCEPT ![c] = r]
    BY <1>1, <1>4, <2>1
  <2>3. /\ databases[d] \in Row /\ d \in DOMAIN created
        /\ databases[d].org_id = created[d]
    BY <1>4 DEF IInv, TypeOK, RowsOK
  <2>4. d \notin AnsweredDeletions
    BY <1>4 DEF IInv, TypeOK, DeletionsAreFinal, AnsweredDeletions
  <2>5. d \notin call[c].gone
    BY <1>1, <2>4 DEF Knows, CallOK
  <2>6. r \in Request
    BY <1>1, <2>3 DEF Request, Await
  <2>7. /\ r.gone = call[c].gone /\ r.session = call[c].session
        /\ r.database = d /\ r.rpc = call[c].rpc /\ r.ttl = call[c].ttl
        /\ r.row = databases[d] /\ r.pc = "get_answer"
    BY <1>1 DEF Request
  <2>8. Knows(r)
    BY <1>1, <2>3, <2>5, <2>6, <2>7 DEF Knows, CallOK
  <2>9. QED
    BY <1>2, <2>2, <2>8, OnlyCallMoves
<1>5. QED
  BY <1>3, <1>4 DEF get_database, BackendFails

\* The check of the row lets DeleteDatabase on.
LEMMA GoOnToDeleteIInv ==
  ASSUME IInv, NEW c \in Call, GoOnToDelete(c)
  PROVE  IInv'
<1> DEFINE r == [call[c] EXCEPT !.pc = "delete_query"]
<1>1. /\ call[c] \in Request /\ call[c].pc = "get_answer" /\ Knows(call[c])
      /\ Waits(c, "get_answer")
  BY Waiting DEF GoOnToDelete
<1>2. /\ r.gone = call[c].gone /\ r.session = call[c].session
      /\ r.database = call[c].database /\ r.rpc = call[c].rpc
      /\ r.row = call[c].row /\ r.pc = "delete_query" /\ r.ttl = call[c].ttl
      /\ r \in Request
  BY <1>1 DEF Request, Await
<1>3. Knows(r)
  BY <1>1, <1>2 DEF Knows, CallOK, GoOnToDelete, OwnRow
<1>4. QED
  BY <1>1, <1>3, GoOnIInv DEF GoOnToDelete, tables

\* The edge lets a token on.
LEMMA EdgeIInv ==
  ASSUME IInv, NEW c \in Call, VerifyAtEdge(c)
  PROVE  IInv'
<1> DEFINE r == [call[c] EXCEPT !.pc = "object"]
<1>1. /\ call[c] \in Request /\ call[c].pc = "edge" /\ Knows(call[c])
      /\ Waits(c, "edge")
  BY Waiting DEF VerifyAtEdge
<1>2. UNCHANGED tables /\ UNCHANGED now
  BY DEF VerifyAtEdge, tables
<1>3. CASE End(c, "unauthenticated")
  BY <1>1, <1>2, <1>3, EndIInv DEF Answer
<1>4. CASE GoOn(c, "object")
  <2>1. /\ r.gone = call[c].gone /\ r.token = call[c].token
        /\ r.pc = "object" /\ r \in Request
    BY <1>1 DEF Request, Await
  <2>2. Knows(r)
    BY <1>1, <2>1 DEF Knows, CallOK
  <2>3. QED
    BY <1>1, <1>2, <1>4, <2>2, GoOnIInv
<1>5. QED
  BY <1>3, <1>4 DEF VerifyAtEdge

\* The steps that only end a request.
LEMMA EndingIInv ==
  ASSUME IInv, NEW c \in Call,
         \/ ListQuery(c) \/ DenyForeign(c) \/ RejectDirection(c)
         \/ VerifyInObject(c)
  PROVE  IInv'
<1>1. UNCHANGED tables /\ UNCHANGED now
  BY DEF tables, ListQuery, DenyForeign, RejectDirection, VerifyInObject
<1>2. CASE ListQuery(c)
  BY <1>1, <1>2, EndIInv DEF ListQuery, BackendFails, Answer
<1>3. CASE DenyForeign(c)
  BY <1>1, <1>3, EndIInv DEF DenyForeign, Answer
<1>4. CASE RejectDirection(c)
  BY <1>1, <1>4, EndIInv DEF RejectDirection, Answer
<1>5. CASE VerifyInObject(c)
  BY <1>1, <1>5, EndIInv DEF VerifyInObject, Answer
<1>6. QED
  BY <1>2, <1>3, <1>4, <1>5

\* A process is free again.
LEMMA AnsweredIInv ==
  ASSUME IInv, NEW c \in Call, Answered(c)
  PROVE  IInv'
BY OnlyCallMoves DEF Answered, tables

\* Time passes.
LEMMA TickIInv ==
  ASSUME IInv, Tick
  PROVE  IInv'
<1>1. now' \in 0 .. MaxNow
  BY DatabasesAssumption DEF IInv, TypeOK, Tick
<1>2. QED
  BY <1>1 DEF IInv, TypeOK, CallsOK, Knows, RowsOK, TokensOK,
              DeletedWasCreated, NamesAreUnique, DeletionsAreFinal,
              AnsweredDeletions, Tick

-----------------------------------------------------------------------------
(* Steps that change a table.                                              *)

\* CreateQuery, when its statement is carried out: the identifier is new,
\* and no row of the organization has the name.
LEMMA InsertIInv ==
  ASSUME IInv, NEW c \in Call, Waits(c, "create_query"),
         NEW row, row = [name |-> call[c].name, org_id |-> call[c].session.org],
         ~ \E d \in DOMAIN databases : databases[d] = row,
         NEW d \in DatabaseId, d \notin DOMAIN created,
         databases' = [x \in DOMAIN databases \cup {d} |->
                         IF x = d THEN row ELSE databases[x]],
         created' = [x \in DOMAIN created \cup {d} |->
                       IF x = d THEN row.org_id ELSE created[x]],
         NEW res \in Answer, End(c, res),
         UNCHANGED <<sync_tokens, deletions, now>>
  PROVE  IInv'
<1>1. TypeOK /\ call[c] \in Request /\ Knows(call[c])
      /\ call[c].pc = "create_query"
  BY Waiting DEF IInv
<1>2. /\ row \in Row /\ row.name = trim(row.name)
  BY <1>1, DatabasesAssumption DEF Knows, CallOK, Row
<1>3. /\ DOMAIN databases' = DOMAIN databases \cup {d}
      /\ databases'[d] = row /\ d \notin DOMAIN databases
      /\ \A e \in DOMAIN databases : databases'[e] = databases[e]
  BY <1>1 DEF TypeOK
<1>4. /\ DOMAIN created' = DOMAIN created \cup {d}
      /\ created'[d] = row.org_id
      /\ \A e \in DOMAIN created : created'[e] = created[e]
  OBVIOUS
<1>5. Grows
  BY <1>4 DEF Grows, AnsweredDeletions
<1>6. CallsOK' /\ call' \in [Call -> Request \cup {None}]
  <2>1. call' = [call EXCEPT ![c] = Done(call[c], res)]
    BY <1>1 DEF TypeOK, End
  <2>2. CallOK(Done(call[c], res), created', sync_tokens', AnsweredDeletions')
    BY <1>1, DoneKnows
  <2>3. QED
    BY <1>5, <2>1, <2>2, CallsStep
<1>7. TypeOK'
  <2>1. databases' \in [DOMAIN databases' -> Row]
    BY <1>1, <1>2, <1>3 DEF TypeOK
  <2>2. created' \in [DOMAIN created' -> OrgId]
    BY <1>1, <1>2, <1>4 DEF TypeOK, Row
  <2>3. QED
    BY <1>1, <1>3, <1>4, <1>6, <2>1, <2>2 DEF TypeOK
<1>8. RowsOK'
  BY <1>1, <1>2, <1>3, <1>4 DEF IInv, RowsOK, TypeOK
<1>9. TokensOK' /\ DeletedWasCreated'
  BY <1>4 DEF IInv, TokensOK, DeletedWasCreated
<1>10. NamesAreUnique'
  <2>1. ASSUME NEW e \in DOMAIN databases, databases[e].org_id = row.org_id,
               databases[e].name.text = row.name.text
        PROVE  FALSE
    <3>1. databases[e] \in Row /\ databases[e].name = trim(databases[e].name)
      BY DEF IInv, TypeOK, RowsOK
    <3>2. databases[e].name = row.name
      BY <1>2, <2>1, <3>1 DEF Row, Name, trim
    <3>3. databases[e] = row
      BY <1>2, <2>1, <3>1, <3>2 DEF Row
    <3>4. QED
      BY <3>3
  <2>2. QED
    BY <1>3, <2>1 DEF IInv, NamesAreUnique
<1>11. DeletionsAreFinal'
  <2>1. ~(deletions[d] > 0) /\ deletions[d] \in Nat
    BY <1>1 DEF IInv, DeletedWasCreated, TypeOK
  <2>2. QED
    BY <1>3, <2>1 DEF IInv, DeletionsAreFinal
<1>12. QED
  BY <1>6, <1>7, <1>8, <1>9, <1>10, <1>11 DEF IInv

\* CreateQuery, whatever comes of it.
LEMMA CreateQueryIInv ==
  ASSUME IInv, NEW c \in Call, CreateQuery(c)
  PROVE  IInv'
<1> DEFINE row == [name |-> call[c].name, org_id |-> call[c].session.org]
<1> HIDE DEF row
<1>1. Waits(c, "create_query") /\ UNCHANGED <<sync_tokens, deletions, now>>
  BY DEF CreateQuery
<1>2. CASE UNCHANGED <<databases, created>>
  <2>1. End(c, "already_exists") \/ End(c, "internal") \/ End(c, "ok")
    BY DEF CreateQuery, BackendFails
  <2>2. QED
    BY <1>1, <1>2, <2>1, EndIInv DEF Answer, tables
<1>3. CASE /\ ~ \E d \in DOMAIN databases : databases[d] = row
           /\ \E d \in DatabaseId \ DOMAIN created :
                /\ databases' = [x \in DOMAIN databases \cup {d} |->
                     IF x = d THEN row ELSE databases[x]]
                /\ created' = [x \in DOMAIN created \cup {d} |->
                     IF x = d THEN row.org_id ELSE created[x]]
           /\ End(c, "ok") \/ End(c, "internal")
  BY <1>1, <1>3, InsertIInv DEF row, Answer
<1>4. QED
  BY <1>2, <1>3 DEF CreateQuery, BackendFails, row

\* DeleteQuery: the row goes, and at most one deletion finds it there.
LEMMA DeleteQueryIInv ==
  ASSUME IInv, NEW c \in Call, DeleteQuery(c)
  PROVE  IInv'
<1> DEFINE d == call[c].database
           rest == [x \in DOMAIN databases \ {d} |-> databases[x]]
<1>1. TypeOK /\ call[c] \in Request /\ Knows(call[c])
      /\ call[c].pc = "delete_query"
      /\ Waits(c, "delete_query") /\ UNCHANGED <<sync_tokens, created, now>>
  BY Waiting DEF IInv, DeleteQuery
<1>2. d \in DatabaseId /\ d \in DOMAIN created
  BY <1>1 DEF Knows, CallOK
<1>3. PICK res \in Answer : End(c, res)
  BY DEF DeleteQuery, BackendFails, Answer
<1>4. databases' = databases \/ databases' = rest
  BY DEF DeleteQuery
<1>5. /\ DOMAIN databases' \subseteq DOMAIN databases
      /\ \A e \in DOMAIN databases' : databases'[e] = databases[e]
      /\ databases' \in [DOMAIN databases' -> Row]
  BY <1>1, <1>4 DEF TypeOK
<1>6. \/ UNCHANGED deletions
      \/ /\ d \in DOMAIN databases /\ d \notin DOMAIN databases'
         /\ deletions' = [deletions EXCEPT ![d] = @ + 1]
  BY DEF DeleteQuery
<1>7. deletions' \in [DatabaseId -> Nat]
      /\ \A e \in DatabaseId : deletions'[e] >= deletions[e]
  BY <1>1, <1>6 DEF TypeOK
<1>8. Grows
  BY <1>1, <1>7 DEF Grows, AnsweredDeletions, TypeOK
<1>9. CallsOK' /\ call' \in [Call -> Request \cup {None}]
  <2>1. call' = [call EXCEPT ![c] = Done(call[c], res)]
    BY <1>1, <1>3 DEF TypeOK, End
  <2>2. CallOK(Done(call[c], res), created', sync_tokens', AnsweredDeletions')
    BY <1>1, DoneKnows
  <2>3. QED
    BY <1>8, <2>1, <2>2, CallsStep
<1>10. TypeOK'
  BY <1>1, <1>5, <1>7, <1>9 DEF TypeOK
<1>11. RowsOK' /\ TokensOK' /\ NamesAreUnique'
  BY <1>1, <1>5 DEF IInv, RowsOK, TokensOK, NamesAreUnique
<1>12. DeletedWasCreated'
  BY <1>1, <1>2, <1>6 DEF IInv, DeletedWasCreated, TypeOK
<1>13. DeletionsAreFinal'
  BY <1>1, <1>5, <1>6 DEF IInv, DeletionsAreFinal, TypeOK
<1>14. QED
  BY <1>9, <1>10, <1>11, <1>12, <1>13 DEF IInv

\* The new token of MintSync.
Minted(r) == mint_sync(r.session.org, r.database, now + lifetime(r.ttl))

\* A token lives for a natural number of seconds: the default if none was
\* asked for, else neither beyond the request nor beyond the cap.
LEMMA LifetimeOK ==
  ASSUME NEW ttl \in Ttl
  PROVE  /\ lifetime(ttl) \in Nat
         /\ IF ttl = 0 THEN lifetime(ttl) = sync_token_ttl_seconds
            ELSE /\ lifetime(ttl) <= ttl
                 /\ lifetime(ttl) <= max_sync_token_ttl_seconds
BY DatabasesAssumption DEF lifetime

\* The expiry a request may get.
Within(exp, ttl) ==
  IF ttl = 0 THEN exp = now + sync_token_ttl_seconds
  ELSE exp - now <= ttl /\ exp - now <= max_sync_token_ttl_seconds

\* It names the database that was asked for, created by the organization of
\* the session.
LEMMA MintedOK ==
  ASSUME IInv, NEW c \in Call, MintSync(c)
  PROVE  /\ sync_tokens' = sync_tokens \cup {Minted(call[c])}
         /\ Minted(call[c]) \in Macaroon
         /\ Minted(call[c]).claims.database_id = call[c].database
         /\ \A exp \in Minted(call[c]).caveats : Within(exp, call[c].ttl)
         /\ call[c].database \in DOMAIN created
         /\ created[call[c].database] = Minted(call[c]).claims.org_id
         /\ call[c].database \notin call[c].gone
<1>1. call[c] \in Request /\ call[c].pc = "get_answer" /\ Knows(call[c])
  BY Waiting DEF MintSync
<1>2. /\ call[c].session \in Session /\ call[c].database \in DatabaseId
      /\ call[c].ttl \in Ttl /\ call[c].database \notin call[c].gone
      /\ call[c].database \in DOMAIN created
      /\ created[call[c].database] = call[c].row.org_id
      /\ call[c].row.org_id = call[c].session.org
  BY <1>1 DEF Knows, CallOK, MintSync, OwnRow
<1>3. lifetime(call[c].ttl) \in Nat
  BY <1>2, LifetimeOK
<1>4. now \in Nat /\ call[c].session.org \in OrgId
  BY <1>2, DatabasesAssumption DEF IInv, TypeOK
<1>5. now + lifetime(call[c].ttl) \in Nat
      /\ Within(now + lifetime(call[c].ttl), call[c].ttl)
  BY <1>2, <1>3, <1>4, LifetimeOK, DatabasesAssumption DEF Within
<1>6. Minted(call[c]) \in Macaroon
  BY <1>2, <1>4, <1>5 DEF Minted, mint_sync, pack, Macaroon, Claims, Caveat
<1>7. QED
  BY <1>2, <1>5, <1>6 DEF Minted, MintSync, mint_sync, pack

\* MintSync keeps the invariant.
LEMMA MintSyncIInv ==
  ASSUME IInv, NEW c \in Call, MintSync(c)
  PROVE  IInv'
<1>1. TypeOK /\ call[c] \in Request /\ End(c, "ok")
      /\ UNCHANGED <<databases, created, deletions, now>>
  BY Waiting DEF IInv, MintSync
<1>2. Grows
  BY <1>1, MintedOK DEF Grows, AnsweredDeletions
<1>3. CallsOK' /\ call' \in [Call -> Request \cup {None}]
  <2>1. call' = [call EXCEPT ![c] = Done(call[c], "ok")]
    BY <1>1 DEF TypeOK, End
  <2>2. CallOK(Done(call[c], "ok"), created', sync_tokens', AnsweredDeletions')
    BY <1>1, DoneKnows DEF Answer
  <2>3. QED
    BY <1>2, <2>1, <2>2, CallsStep
<1>4. TypeOK'
  BY <1>1, <1>3, MintedOK DEF TypeOK
<1>5. TokensOK'
  BY <1>1, MintedOK DEF IInv, TokensOK
<1>6. RowsOK' /\ DeletedWasCreated' /\ NamesAreUnique' /\ DeletionsAreFinal'
  BY <1>1 DEF IInv, RowsOK, DeletedWasCreated, NamesAreUnique, DeletionsAreFinal
<1>7. QED
  BY <1>3, <1>4, <1>5, <1>6 DEF IInv

-----------------------------------------------------------------------------
(* The invariant.                                                          *)

\* There is nothing yet.
THEOREM InitIInv == Init => IInv
<1> SUFFICES ASSUME Init PROVE IInv
  OBVIOUS
<1>1. databases = <<>> /\ created = <<>> /\ DOMAIN <<>> = {}
  BY DEF Init
<1>2. deletions \in [DatabaseId -> Nat] /\ \A d \in DatabaseId : deletions[d] = 0
  BY DEF Init
<1>3. TypeOK
  <2>1. \A S : <<>> \in [{} -> S]
    OBVIOUS
  <2>2. now \in 0 .. MaxNow /\ call \in [Call -> Request \cup {None}]
    BY DatabasesAssumption DEF Init
  <2>3. QED
    BY <1>1, <1>2, <2>1, <2>2 DEF Init, TypeOK
<1>4. QED
  BY <1>1, <1>2, <1>3 DEF Init, IInv, CallsOK, RowsOK, TokensOK,
     DeletedWasCreated, NamesAreUnique, DeletionsAreFinal

\* Every step keeps the invariant.
THEOREM NextIInv == IInv /\ [Next]_vars => IInv'
<1> SUFFICES ASSUME IInv, [Next]_vars PROVE IInv'
  OBVIOUS
<1>1. CASE Tick
  BY <1>1, TickIInv
<1>2. ASSUME NEW c \in Call,
             \/ Refuse(c) \/ Answered(c) \/ create_database(c)
             \/ list_databases(c) \/ delete_database(c)
             \/ issue_sync_token(c) \/ forward(c)
      PROVE  IInv'
  BY <1>2, RefuseIInv, AnsweredIInv, CreateArrives, ListArrives,
     DeleteArrives, IssueArrives, UpgradeArrives
<1>3. ASSUME NEW c \in Call,
             \/ CreateQuery(c) \/ get_database(c) \/ GoOnToDelete(c)
             \/ DeleteQuery(c) \/ MintSync(c) \/ VerifyAtEdge(c)
      PROVE  IInv'
  BY <1>3, CreateQueryIInv, GetIInv, GoOnToDeleteIInv, DeleteQueryIInv,
     MintSyncIInv, EdgeIInv
<1>4. ASSUME NEW c \in Call,
             \/ ListQuery(c) \/ DenyForeign(c) \/ RejectDirection(c)
             \/ VerifyInObject(c)
      PROVE  IInv'
  BY <1>4, EndingIInv
<1>5. CASE UNCHANGED vars
  BY <1>5 DEF vars, IInv, TypeOK, CallsOK, Knows, RowsOK, TokensOK,
     DeletedWasCreated, NamesAreUnique, DeletionsAreFinal, AnsweredDeletions
<1>6. QED
  BY <1>1, <1>2, <1>3, <1>4, <1>5 DEF Next

\* The inductive invariant holds in every reachable state.
THEOREM SpecIInv == Spec => []IInv
BY InitIInv, NextIInv, PTL DEF Spec

\* However many creations race, in however many organizations, two databases
\* of one organization never share a name.
THEOREM UniqueNames == Spec => []NamesAreUnique
<1>1. IInv => NamesAreUnique
  BY DEF IInv
<1>2. QED
  BY <1>1, SpecIInv, PTL

\* Of any number of DeleteDatabase calls for a database at most one is
\* answered ok, and no row of that identifier is seen after it.
THEOREM FinalDeletions == Spec => []DeletionsAreFinal
<1>1. IInv => DeletionsAreFinal
  BY DEF IInv
<1>2. QED
  BY <1>1, SpecIInv, PTL

-----------------------------------------------------------------------------
(* What a step may not do.                                                 *)

\* The actions that write a table.
LEMMA Writers ==
  ASSUME [Next]_vars
  PROVE  /\ databases' # databases =>
              \E c \in Call : CreateQuery(c) \/ DeleteQuery(c)
         /\ sync_tokens' # sync_tokens => \E c \in Call : MintSync(c)
<1>1. CASE Tick \/ UNCHANGED vars
  BY <1>1 DEF Tick, vars
<1>2. ASSUME NEW c \in Call,
             \/ Refuse(c) \/ Answered(c) \/ create_database(c)
             \/ list_databases(c) \/ delete_database(c)
             \/ issue_sync_token(c) \/ forward(c)
      PROVE  UNCHANGED <<databases, sync_tokens>>
  BY <1>2 DEF Refuse, Answered, create_database, list_databases,
     delete_database, issue_sync_token, forward, Arrive
<1>3. ASSUME NEW c \in Call,
             \/ ListQuery(c) \/ get_database(c) \/ DenyForeign(c)
             \/ GoOnToDelete(c) \/ RejectDirection(c)
             \/ VerifyAtEdge(c) \/ VerifyInObject(c)
      PROVE  UNCHANGED <<databases, sync_tokens>>
  BY <1>3 DEF ListQuery, get_database, DenyForeign, GoOnToDelete,
     RejectDirection, VerifyAtEdge, VerifyInObject
<1>4. ASSUME NEW c \in Call, CreateQuery(c) \/ DeleteQuery(c)
      PROVE  UNCHANGED sync_tokens
  BY <1>4 DEF CreateQuery, DeleteQuery
<1>5. ASSUME NEW c \in Call, MintSync(c)
      PROVE  UNCHANGED databases
  BY <1>5 DEF MintSync
<1>6. QED
  BY <1>1, <1>2, <1>3, <1>4, <1>5 DEF Next

\* The steps of the action properties, without their subscripts.
OnlyOwnersDeleteStep ==
  \A d \in DOMAIN databases \ DOMAIN databases' :
    \E c \in Call :
      /\ Waits(c, "delete_query") /\ call[c].database = d
      /\ call[c].session.role = "admin"
      /\ call[c].session.org = databases[d].org_id

NoTokenAfterDeletionStep ==
  \A t \in sync_tokens' \ sync_tokens :
    \E c \in Call :
      /\ Waits(c, "get_answer")
      /\ call[c].database = t.claims.database_id
      /\ call[c].database \notin call[c].gone

RequestsAreCappedStep ==
  \A t \in sync_tokens' \ sync_tokens :
    \E c \in Call :
      /\ Waits(c, "get_answer") /\ call'[c].res = "ok"
      /\ call[c].database = t.claims.database_id
      /\ \A exp \in t.caveats : Within(exp, call[c].ttl)

AdmissionStep ==
  \A c \in Call :
    Waits(c, "object") /\ Waits(c, "done")' /\ call'[c].res = "ok" =>
      \E t \in sync_tokens :
        LET d == t.claims.database_id
        IN  /\ t.claims = call[c].token.claims
            /\ t.caveats \subseteq call[c].token.caveats
            /\ \A exp \in t.caveats : exp > now
            /\ d \in DOMAIN created /\ created[d] = t.claims.org_id

\* The row DeleteQuery removes belongs to the organization of the caller:
\* the row it read had the same creator as the one it removes.
LEMMA OwnersDelete ==
  ASSUME IInv, [Next]_vars
  PROVE  OnlyOwnersDeleteStep
<1> SUFFICES ASSUME NEW d \in DOMAIN databases \ DOMAIN databases'
             PROVE  \E c \in Call :
                      /\ Waits(c, "delete_query") /\ call[c].database = d
                      /\ call[c].session.role = "admin"
                      /\ call[c].session.org = databases[d].org_id
  BY DEF OnlyOwnersDeleteStep
<1>1. PICK c \in Call : CreateQuery(c) \/ DeleteQuery(c)
  BY Writers
<1>2. ASSUME CreateQuery(c) PROVE FALSE
  <2>1. DOMAIN databases \subseteq DOMAIN databases'
    BY <1>2 DEF CreateQuery
  <2>2. QED
    BY <2>1
<1>3. Waits(c, "delete_query") /\ d = call[c].database
  BY <1>1, <1>2 DEF DeleteQuery
<1>4. Knows(call[c]) /\ call[c].pc = "delete_query"
  BY <1>3, Waiting
<1>5. /\ call[c].session.role = "admin"
      /\ call[c].session.org = created[d]
  BY <1>3, <1>4 DEF Knows, CallOK
<1>6. databases[d].org_id = created[d]
  BY DEF IInv, RowsOK
<1>7. QED
  BY <1>3, <1>5, <1>6

\* A new token is the one MintSync mints.
LEMMA MintedByMintSync ==
  ASSUME IInv, [Next]_vars, NEW t \in sync_tokens' \ sync_tokens
  PROVE  \E c \in Call : MintSync(c) /\ t = Minted(call[c])
BY Writers, MintedOK

\* The object lets in whom it verifies, and what it verifies was minted.
LEMMA Admission ==
  ASSUME IInv, [Next]_vars
  PROVE  AdmissionStep
<1> SUFFICES ASSUME NEW c \in Call, Waits(c, "object"), Waits(c, "done")',
                    call'[c].res = "ok"
             PROVE  \E t \in sync_tokens :
                      LET d == t.claims.database_id
                      IN  /\ t.claims = call[c].token.claims
                          /\ t.caveats \subseteq call[c].token.caveats
                          /\ \A exp \in t.caveats : exp > now
                          /\ d \in DOMAIN created
                          /\ created[d] = t.claims.org_id
  BY DEF AdmissionStep
<1>1. /\ call[c] \in Request /\ call[c].pc = "object" /\ Knows(call[c])
      /\ call[c] # None
  BY Waiting
<1>2. PICK m \in sync_tokens \cup {SessionToken(t) : t \in Session} :
        /\ call[c].token.claims = m.claims
        /\ m.caveats \subseteq call[c].token.caveats
  BY <1>1 DEF Knows, CallOK
<1>3. VerifyInObject(c)
  <2>1. call'[c] # call[c]
    BY <1>1 DEF Waits
  <2>2. PICK e \in Call :
          \/ Refuse(e) \/ Answered(e)
          \/ create_database(e) \/ CreateQuery(e)
          \/ list_databases(e) \/ ListQuery(e)
          \/ delete_database(e) \/ issue_sync_token(e) \/ get_database(e)
          \/ DenyForeign(e) \/ GoOnToDelete(e) \/ DeleteQuery(e)
          \/ RejectDirection(e) \/ MintSync(e)
          \/ forward(e) \/ VerifyAtEdge(e) \/ VerifyInObject(e)
    BY <2>1 DEF Next, Tick, vars
  <2>3. \E r : call' = [call EXCEPT ![e] = r]
    BY <2>2 DEF Refuse, Answered, create_database, CreateQuery,
       list_databases, ListQuery, delete_database, issue_sync_token,
       get_database, DenyForeign, GoOnToDelete, DeleteQuery,
       RejectDirection, MintSync, forward, VerifyAtEdge, VerifyInObject,
       Arrive, End, GoOn, BackendFails
  <2>4. e = c
    BY <2>1, <2>3 DEF IInv, TypeOK
  <2>5. QED
    BY <1>1, <2>2, <2>4 DEF Refuse, Answered, create_database, CreateQuery,
       list_databases, ListQuery, delete_database, issue_sync_token,
       get_database, DenyForeign, GoOnToDelete, DeleteQuery,
       RejectDirection, MintSync, forward, VerifyAtEdge, Arrive, Waits
<1>4. verify_sync(call[c].token, now)
  BY <1>1, <1>3 DEF VerifyInObject, IInv, TypeOK, End, Done, Blank
<1>5. m \in sync_tokens
  <2>1. m.claims.purpose = "sync"
    BY <1>2, <1>4 DEF verify_sync, check_purpose
  <2>2. \A t \in Session : SessionToken(t).claims.purpose = "session"
    BY DEF SessionToken, mint_session, pack
  <2>3. QED
    BY <2>1, <2>2
<1>6. \A exp \in m.caveats : exp > now
  BY <1>2, <1>4 DEF verify_sync, unpack
<1>7. QED
  BY <1>2, <1>5, <1>6 DEF IInv, TokensOK

\* A row goes only by the hand of an admin of the organization that owns it,
\* however long before it the caller's right was checked.
THEOREM OwnersOnly == Spec => OnlyOwnersDelete
<1>1. IInv /\ [Next]_vars => [OnlyOwnersDeleteStep]_vars
  BY OwnersDelete
<1>2. QED
  BY <1>1, SpecIInv, PTL DEF Spec, OnlyOwnersDelete, OnlyOwnersDeleteStep

\* No IssueSyncToken that comes in after a deletion was answered mints a
\* token for the database that was deleted.
THEOREM NoLateToken == Spec => NoTokenAfterDeletion
<1>1. ASSUME IInv, [Next]_vars PROVE NoTokenAfterDeletionStep
  <2>1. ASSUME NEW t \in sync_tokens' \ sync_tokens
        PROVE  \E c \in Call :
                 /\ Waits(c, "get_answer")
                 /\ call[c].database = t.claims.database_id
                 /\ call[c].database \notin call[c].gone
    <3>1. PICK c \in Call : MintSync(c) /\ t = Minted(call[c])
      BY <1>1, MintedByMintSync
    <3>2. QED
      BY <1>1, <3>1, MintedOK DEF MintSync
  <2>2. QED
    BY <2>1 DEF NoTokenAfterDeletionStep
<1>2. QED
  BY <1>1, SpecIInv, PTL DEF Spec, NoTokenAfterDeletion,
     NoTokenAfterDeletionStep

\* Whatever lifetime is asked for, a token expires within it and within the
\* cap; one that none was asked for gets the default, for any two settings.
THEOREM CappedRequests == Spec => RequestsAreCapped
<1>1. ASSUME IInv, [Next]_vars PROVE RequestsAreCappedStep
  <2>1. ASSUME NEW t \in sync_tokens' \ sync_tokens
        PROVE  \E c \in Call :
                 /\ Waits(c, "get_answer") /\ call'[c].res = "ok"
                 /\ call[c].database = t.claims.database_id
                 /\ \A exp \in t.caveats : Within(exp, call[c].ttl)
    <3>1. PICK c \in Call : MintSync(c) /\ t = Minted(call[c])
      BY <1>1, MintedByMintSync
    <3>2. Waits(c, "get_answer") /\ call'[c].res = "ok"
      BY <1>1, <3>1 DEF MintSync, End, Done, Blank, IInv, TypeOK
    <3>3. QED
      BY <1>1, <3>1, <3>2, MintedOK
  <2>2. QED
    BY <2>1 DEF RequestsAreCappedStep
<1>2. QED
  BY <1>1, SpecIInv, PTL DEF Spec, RequestsAreCapped, RequestsAreCappedStep,
     Within

\* An object admits a client only with a token minted for a database of the
\* organization it names, which lives at that moment by the expiry it was
\* minted with, whatever caveats were appended to it.
THEOREM AuthorizedAdmissions == Spec => AdmissionsAreAuthorized
<1>1. IInv /\ [Next]_vars => [AdmissionStep]_vars
  BY Admission
<1>2. QED
  BY <1>1, SpecIInv, PTL DEF Spec, AdmissionsAreAuthorized, AdmissionStep
=============================================================================
