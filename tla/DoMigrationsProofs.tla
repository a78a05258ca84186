------------------------- MODULE DoMigrationsProofs -------------------------
(***************************************************************************)
(* Theorems about DoMigrations, for any list of migrations with increasing *)
(* versions, any number of objects and requests, and any number of faults. *)
(*                                                                         *)
(* An object's part of the invariant speaks of that object alone, so it is *)
(* stated once, as ObjectOK of the object's own values, and a step is      *)
(* looked at only for the object that takes it.  All the object's SQL does *)
(* to a database is let it grow, which keeps what had been made (MadeStays)*)
(***************************************************************************)
EXTENDS DoMigrations, TLAPS

StampsOf(t) ==
  IF schema_version \in DOMAIN t THEN t[schema_version] ELSE {}

MadeIn(t, m) == \A s \in DOMAIN creates(m) : creates(m)[s] \in DOMAIN t

DbOK(t) ==
  /\ t \in [DOMAIN t -> SUBSET (Nat \cup PageRow)]
  /\ StampsOf(t) \subseteq {MIGRATIONS[m].version : m \in Version}
  /\ \A v \in StampsOf(t) : \A m \in Version :
       MIGRATIONS[m].version <= v => MadeIn(t, m)

PassedOK(n, t, p) ==
  p # Idle =>
    /\ p.current \in {0} \cup StampsOf(t)
    /\ p.m <= n + 1
    /\ \A m \in Version : m < p.m => MadeIn(t, m)
    /\ p.m <= n =>
         /\ p.s <= Len(creates(p.m)) + 1
         /\ \A s \in DOMAIN creates(p.m) :
              s < p.s => creates(p.m)[s] \in DOMAIN t

\* An object with tables t, latch l, position p and tasks y, under n.
ObjectOK(n, t, l, p, y) ==
  /\ DbOK(t)
  /\ l \in BOOLEAN /\ y \in BOOLEAN /\ p \in Position \cup {Idle}
  /\ PassedOK(n, t, p)
  /\ l => \A m \in 1 .. n : MadeIn(t, m)
  /\ y => l
  /\ l => p = Idle

Ok(o) == ObjectOK(deployed, db[o], latch[o], at[o], serving[o])

Shapes ==
  /\ deployed \in Version
  /\ db = [o \in Object |-> db[o]]
  /\ latch \in [Object -> BOOLEAN]
  /\ at \in [Object -> Position \cup {Idle}]
  /\ serving \in [Object -> BOOLEAN]
  /\ faults \in 0 .. MaxFaults

WorkerOK ==
  /\ d1 \in [DOMAIN d1 -> SUBSET Account]
  /\ SCHEMA_READY \in BOOLEAN
  /\ req \in [Request -> {"none", "batch", "answer", "serving"}]
  /\ \A r \in Request :
       req[r] \in {"answer", "serving"} \/ SCHEMA_READY \/ ~auto_migrate
         => SCHEMA \subseteq DOMAIN d1

-----------------------------------------------------------------------------

\* The invariant, an object at a time.
LEMMA Parts == IInv <=> Shapes /\ WorkerOK /\ \A o \in Object : Ok(o)
<1>. USE DEF stamps, StampsOf, Made, MadeIn
<1>1. ASSUME IInv PROVE Shapes /\ WorkerOK
  BY <1>1 DEF IInv, TypeOK, Shapes, WorkerOK, LatchesAreTrue
<1>2. ASSUME IInv, NEW o \in Object PROVE Ok(o)
  <2>1. DbOK(db[o])
    BY <1>2 DEF IInv, TypeOK, StampsAreTrue, DbOK
  <2>2. PassedOK(deployed, db[o], at[o])
    BY <1>2 DEF IInv, PassedIsMade, PassedOK
  <2>. QED  BY <1>2, <2>1, <2>2 DEF IInv, TypeOK, LatchesAreTrue, Ok, ObjectOK
<1>3. ASSUME Shapes, WorkerOK, \A o \in Object : Ok(o) PROVE IInv
  <2>1. TypeOK
    BY <1>3 DEF Shapes, WorkerOK, Ok, ObjectOK, DbOK, TypeOK
  <2>2. StampsAreTrue
    BY <1>3 DEF Ok, ObjectOK, DbOK, StampsAreTrue
  <2>3. \A o \in Object : PassedIsMade(o)
    BY <1>3 DEF Ok, ObjectOK, PassedOK, PassedIsMade
  <2>4. LatchesAreTrue
    BY <1>3 DEF Ok, ObjectOK, WorkerOK, LatchesAreTrue
  <2>. QED  BY <2>1, <2>2, <2>3, <2>4 DEF IInv
<1>. QED  BY <1>1, <1>2, <1>3

LEMMA PartsNext == IInv' <=> (Shapes /\ WorkerOK /\ \A o \in Object : Ok(o))'
BY Parts, PTL

\* Facts about the list of migrations.
LEMMA Versions ==
  /\ Version = 1 .. Len(MIGRATIONS) /\ Len(MIGRATIONS) \in Nat \ {0}
  /\ \A m \in Version :
       /\ MIGRATIONS[m].version \in Nat \ {0}
       /\ creates(m) \in Seq(STRING) /\ Len(creates(m)) \in Nat
       /\ DOMAIN creates(m) = 1 .. Len(creates(m))
  /\ 1 \in Version
<1>1. MIGRATIONS \in Seq([version : Nat \ {0}, creates : Seq(STRING)])
        /\ MIGRATIONS # <<>>
  BY MigrationsAssumption
<1>2. Len(MIGRATIONS) \in Nat \ {0} /\ Version = 1 .. Len(MIGRATIONS)
  BY <1>1 DEF Version
<1>3. ASSUME NEW m \in Version
      PROVE  MIGRATIONS[m].version \in Nat \ {0} /\ creates(m) \in Seq(STRING)
  <2>. DEFINE Entry == [version : Nat \ {0}, creates : Seq(STRING)]
  <2>1. MIGRATIONS \in Seq(Entry) /\ m \in 1 .. Len(MIGRATIONS)
    BY <1>1, <1>2
  <2>2. \A S, q : q \in Seq(S) => \A i \in 1 .. Len(q) : q[i] \in S
    OBVIOUS
  <2>3. MIGRATIONS[m] \in Entry
    BY <2>1, <2>2
  <2>. QED  BY <2>3 DEF creates
<1>. QED  BY <1>2, <1>3

\* A statement makes a table and keeps the rows there are.
LEMMA CreateGrows ==
  ASSUME NEW t, NEW x, t \in [DOMAIN t -> SUBSET (Nat \cup PageRow)]
  PROVE  LET new == create_if_not_exists(t, x)
         IN  /\ DOMAIN new = DOMAIN t \cup {x}
             /\ new \in [DOMAIN new -> SUBSET (Nat \cup PageRow)]
             /\ Keeps(t, new)
             /\ StampsOf(new) = StampsOf(t)
BY DEF create_if_not_exists, Keeps, StampsOf

LEMMA InsertGrows ==
  ASSUME NEW t, t \in [DOMAIN t -> SUBSET (Nat \cup PageRow)],
         NEW x \in DOMAIN t, NEW row \in Nat \cup PageRow
  PROVE  LET new == insert(t, x, row)
         IN  /\ DOMAIN new = DOMAIN t
             /\ new \in [DOMAIN new -> SUBSET (Nat \cup PageRow)]
             /\ Keeps(t, new)
             /\ StampsOf(new) = IF x = schema_version
                                THEN StampsOf(t) \cup {row} ELSE StampsOf(t)
BY DEF insert, Keeps, StampsOf

\* What was made stays made.
LEMMA MadeStays ==
  ASSUME NEW t, NEW u, DOMAIN t \subseteq DOMAIN u, NEW m, MadeIn(t, m)
  PROVE  MadeIn(u, m)
BY DEF MadeIn

-----------------------------------------------------------------------------

LEMMA InitIInv == Init => IInv
<1>. SUFFICES ASSUME Init PROVE Shapes /\ WorkerOK /\ \A o \in Object : Ok(o)
  BY Parts
<1>1. Shapes
  BY MigrationsAssumption DEF Init, Shapes, Idle
<1>2. WorkerOK
  BY MigrationsAssumption DEF Init, WorkerOK, Empty
<1>3. ASSUME NEW o \in Object PROVE Ok(o)
  <2>1. db[o] = Empty /\ latch[o] = FALSE /\ at[o] = Idle /\ serving[o] = FALSE
    BY DEF Init
  <2>2. DbOK(Empty)
    BY DEF DbOK, Empty, StampsOf
  <2>. QED  BY <2>1, <2>2 DEF Ok, ObjectOK, PassedOK
<1>. QED  BY <1>1, <1>2, <1>3

\* A step of one object: the others stay as they are.
LEMMA OneObject ==
  ASSUME IInv, NEW o \in Object, UNCHANGED <<deployed, isolate>>,
         faults' \in 0 .. MaxFaults,
         NEW t, NEW l \in BOOLEAN, NEW p \in Position \cup {Idle},
         NEW y \in BOOLEAN,
         db' = [db EXCEPT ![o] = t], latch' = [latch EXCEPT ![o] = l],
         at' = [at EXCEPT ![o] = p], serving' = [serving EXCEPT ![o] = y],
         ObjectOK(deployed, t, l, p, y)
  PROVE  IInv'
<1>. Shapes /\ WorkerOK /\ \A x \in Object : Ok(x)
  BY Parts
<1>1. Shapes'
  BY DEF Shapes
<1>2. WorkerOK'
  BY DEF WorkerOK, isolate
<1>3. ASSUME NEW x \in Object PROVE Ok(x)'
  <2>1. CASE x = o
    BY <2>1 DEF Ok, Shapes
  <2>2. CASE x # o
    BY <2>2 DEF Ok, Shapes
  <2>. QED  BY <2>1, <2>2
<1>. QED  BY <1>1, <1>2, <1>3, PartsNext

-----------------------------------------------------------------------------
(* The steps of an object.                                                 *)

LEMMA FetchStep ==
  ASSUME IInv, NEW o \in Object, fetch(o)  PROVE IInv'
<1>. Shapes /\ Ok(o)
  BY Parts
<1>1. PICK y \in BOOLEAN : /\ serving' = [serving EXCEPT ![o] = y]
                           /\ y => latch[o]
  BY DEF fetch, Admit, Shapes
<1>2. ObjectOK(deployed, db[o], latch[o], at[o], y)
  BY <1>1 DEF Ok, ObjectOK
<1>3. /\ latch[o] \in BOOLEAN /\ at[o] \in Position \cup {Idle}
      /\ faults' \in 0 .. MaxFaults /\ UNCHANGED <<deployed, isolate>>
      /\ db' = [db EXCEPT ![o] = db[o]]
      /\ latch' = [latch EXCEPT ![o] = latch[o]]
      /\ at' = [at EXCEPT ![o] = at[o]]
  BY DEF fetch, Shapes
<1>. QED  BY <1>1, <1>2, <1>3, OneObject

LEMMA EnsureStep ==
  ASSUME IInv, NEW o \in Object, ensure_schema(o)  PROVE IInv'
<1>. Shapes /\ Ok(o)
  BY Parts
<1>1. PICK v \in {0} \cup StampsOf(db[o]) :
        at' = [at EXCEPT ![o] = [m |-> 1, s |-> 1, current |-> v]]
  BY DEF ensure_schema, stamps, StampsOf
<1>. DEFINE p == [m |-> 1, s |-> 1, current |-> v]
<1>2. v \in Nat
  BY Versions DEF Ok, ObjectOK, DbOK
<1>3. p \in Position /\ p # Idle
  BY <1>2, Versions DEF Position, Idle
<1>4. PassedOK(deployed, db[o], p)
  BY Versions DEF PassedOK, Shapes
<1>5. ObjectOK(deployed, db[o], latch[o], p, serving[o])
  BY <1>3, <1>4 DEF Ok, ObjectOK, ensure_schema
<1>6. faults' \in 0 .. MaxFaults
  BY MigrationsAssumption DEF ensure_schema, current_version, Fault, Shapes
<1>7. /\ latch[o] \in BOOLEAN /\ serving[o] \in BOOLEAN
      /\ UNCHANGED <<deployed, isolate>>
      /\ db' = [db EXCEPT ![o] = db[o]]
      /\ latch' = [latch EXCEPT ![o] = latch[o]]
      /\ serving' = [serving EXCEPT ![o] = serving[o]]
  BY DEF ensure_schema, Shapes
<1>. HIDE DEF p
<1>. QED  BY <1>1, <1>3, <1>5, <1>6, <1>7, OneObject DEF p

\* Where ensure_schema is when it has something to do.
LEMMA Running ==
  ASSUME IInv, NEW o \in Object, NEW m \in Version, NEW s, Runs(o, m, s)
  PROVE  /\ at[o] \in Position /\ at[o] # Idle
         /\ at[o] = [m |-> m, s |-> s, current |-> at[o].current]
         /\ at[o].current \in Nat /\ s \in Nat \ {0}
         /\ m <= deployed /\ deployed \in 1 .. Len(MIGRATIONS)
         /\ ~latch[o] /\ ~serving[o]
<1>. Shapes /\ Ok(o)
  BY Parts
<1>. QED  BY Versions DEF Runs, Shapes, Ok, ObjectOK, Position

LEMMA SkipStep ==
  ASSUME IInv, NEW o \in Object, Skip(o)  PROVE IInv'
<1>. Shapes /\ Ok(o)
  BY Parts
<1>1. PICK m \in Version :
        /\ Runs(o, m, 1) /\ ~Pending(o, m)
        /\ at' = [at EXCEPT ![o].m = m + 1]
  BY DEF Skip
<1>. DEFINE p == [m |-> m + 1, s |-> 1, current |-> at[o].current]
<1>2. /\ at[o] = [m |-> m, s |-> 1, current |-> at[o].current]
      /\ at[o] # Idle /\ at[o].current \in Nat
      /\ m <= deployed /\ deployed \in 1 .. Len(MIGRATIONS)
      /\ ~latch[o] /\ ~serving[o]
  BY <1>1, Running
<1>3. /\ m \in 1 .. Len(MIGRATIONS) /\ Version \subseteq Nat
      /\ Len(MIGRATIONS) \in Nat /\ MIGRATIONS[m].version \in Nat \ {0}
      /\ \A k \in Version : Len(creates(k)) \in Nat
  BY Versions
<1>4. at' = [at EXCEPT ![o] = p]
  <2>1. [at[o] EXCEPT !.m = m + 1] = p
    BY <1>2
  <2>. QED  BY <1>1, <2>1
<1>5. p \in Position /\ p # Idle
  BY <1>2, <1>3 DEF Position, Idle
<1>6. PassedOK(deployed, db[o], p)
  <2>1. PassedOK(deployed, db[o], at[o])
    BY DEF Ok, ObjectOK
  <2>2. /\ at[o].current \in {0} \cup StampsOf(db[o])
        /\ \A k \in Version : k < m => MadeIn(db[o], k)
    BY <1>2, <2>1 DEF PassedOK
  <2>3. MadeIn(db[o], m)
    BY <1>1, <1>2, <1>3, <2>2 DEF Pending, Ok, ObjectOK, DbOK
  <2>4. \A k \in Version : k < m + 1 => MadeIn(db[o], k)
    BY <1>3, <2>2, <2>3
  <2>5. m + 1 <= deployed + 1
    BY <1>2, <1>3
  <2>6. m + 1 <= deployed => m + 1 \in Version
    BY <1>2, <1>3, Versions
  <2>7. m + 1 <= deployed =>
          /\ 1 <= Len(creates(m + 1)) + 1
          /\ \A s \in DOMAIN creates(m + 1) : ~(s < 1)
    BY <1>3, <2>6, Versions
  <2>. QED  BY <2>2, <2>4, <2>5, <2>7 DEF PassedOK
<1>7. ObjectOK(deployed, db[o], latch[o], p, serving[o])
  BY <1>2, <1>5, <1>6 DEF Ok, ObjectOK
<1>8. /\ latch[o] \in BOOLEAN /\ serving[o] \in BOOLEAN
      /\ faults' \in 0 .. MaxFaults /\ UNCHANGED <<deployed, isolate>>
      /\ db' = [db EXCEPT ![o] = db[o]]
      /\ latch' = [latch EXCEPT ![o] = latch[o]]
      /\ serving' = [serving EXCEPT ![o] = serving[o]]
  BY DEF Skip, Shapes
<1>. HIDE DEF p
<1>. QED  BY <1>4, <1>5, <1>7, <1>8, OneObject

LEMMA ExecStep ==
  ASSUME IInv, NEW o \in Object, Exec(o)  PROVE IInv'
<1>. Shapes /\ Ok(o)
  BY Parts
<1>0. PICK m \in Version : \E s \in DOMAIN creates(m) : run_statement(o, m, s)
  BY DEF Exec
<1>1. PICK s \in DOMAIN creates(m) : run_statement(o, m, s)
  BY <1>0
<1>. DEFINE p == [m |-> m, s |-> s + 1, current |-> at[o].current]
            t == create_if_not_exists(db[o], creates(m)[s])
<1>2. /\ at[o] = [m |-> m, s |-> s, current |-> at[o].current]
      /\ at[o] # Idle /\ at[o].current \in Nat
      /\ m <= deployed /\ deployed \in Nat /\ ~latch[o] /\ ~serving[o]
  BY <1>1, Running DEF run_statement
<1>3. m \in 1 .. Len(MIGRATIONS) /\ s \in Nat \ {0} /\ s <= Len(creates(m))
      /\ Len(creates(m)) \in Nat /\ Len(MIGRATIONS) \in Nat
      /\ DOMAIN creates(m) \subseteq Nat
  BY Versions
<1>4. /\ at' = [at EXCEPT ![o] = p] /\ db' = [db EXCEPT ![o] = t]
      /\ latch' = [latch EXCEPT ![o] = latch[o]]
      /\ serving' = [serving EXCEPT ![o] = serving[o]]
      /\ UNCHANGED <<deployed, isolate, faults>>
  <2>1. [at[o] EXCEPT !.s = s + 1] = p
    BY <1>2
  <2>2. at' = [at EXCEPT ![o] = [at[o] EXCEPT !.s = s + 1]]
    BY <1>1 DEF run_statement
  <2>. QED  BY <1>1, <2>1, <2>2 DEF run_statement, Shapes
<1>5. p \in Position /\ p # Idle
  BY <1>2, <1>3 DEF Position, Idle
<1>6. /\ DOMAIN t = DOMAIN db[o] \cup {creates(m)[s]}
      /\ t \in [DOMAIN t -> SUBSET (Nat \cup PageRow)]
      /\ StampsOf(t) = StampsOf(db[o])
  BY CreateGrows DEF Ok, ObjectOK, DbOK
<1>7. \A k : MadeIn(db[o], k) => MadeIn(t, k)
  BY <1>6, MadeStays
<1>. HIDE DEF t
<1>8. DbOK(t)
  BY <1>6, <1>7 DEF Ok, ObjectOK, DbOK
<1>9. PassedOK(deployed, t, p)
  <2>1. PassedOK(deployed, db[o], at[o])
    BY DEF Ok, ObjectOK
  <2>2. /\ at[o].current \in {0} \cup StampsOf(db[o])
        /\ \A k \in Version : k < m => MadeIn(db[o], k)
        /\ \A k \in DOMAIN creates(m) :
             k < s => creates(m)[k] \in DOMAIN db[o]
    BY <1>2, <2>1 DEF PassedOK
  <2>3. \A k \in DOMAIN creates(m) :
             k < s + 1 => creates(m)[k] \in DOMAIN t
    BY <1>3, <1>6, <2>2
  <2>4. m <= deployed + 1 /\ s + 1 <= Len(creates(m)) + 1
    BY <1>2, <1>3
  <2>. QED  BY <1>6, <1>7, <2>2, <2>3, <2>4 DEF PassedOK
<1>10. ObjectOK(deployed, t, latch[o], p, serving[o])
  BY <1>2, <1>5, <1>8, <1>9 DEF Ok, ObjectOK
<1>11. latch[o] \in BOOLEAN /\ serving[o] \in BOOLEAN /\ faults' \in 0 .. MaxFaults
  BY <1>4 DEF Shapes
<1>. HIDE DEF p
<1>. QED  BY <1>4, <1>5, <1>10, <1>11, OneObject

\* The first migration has made the table for the stamps.
LEMMA HasTables ==
  ASSUME NEW t, MadeIn(t, 1)
  PROVE  schema_version \in DOMAIN t /\ pages \in DOMAIN t
BY MigrationsAssumption DEF MadeIn, creates

LEMMA StampStep ==
  ASSUME IInv, NEW o \in Object, Stamp(o)  PROVE IInv'
<1>. Shapes /\ Ok(o)
  BY Parts
<1>1. PICK m \in Version : stamp(o, m)
  BY DEF Stamp
<1>. DEFINE s == Len(creates(m)) + 1
            v == MIGRATIONS[m].version
            p == [m |-> m + 1, s |-> 1, current |-> at[o].current]
            t == insert(db[o], schema_version, v)
<1>2. /\ at[o] = [m |-> m, s |-> s, current |-> at[o].current]
      /\ at[o] # Idle /\ at[o].current \in Nat
      /\ m <= deployed /\ deployed \in 1 .. Len(MIGRATIONS)
      /\ ~latch[o] /\ ~serving[o]
  BY <1>1, Running DEF stamp
<1>3. /\ m \in 1 .. Len(MIGRATIONS) /\ Len(MIGRATIONS) \in Nat
      /\ Version = 1 .. Len(MIGRATIONS) /\ v \in Nat \ {0}
      /\ Len(creates(m)) \in Nat /\ DOMAIN creates(m) = 1 .. Len(creates(m))
      /\ \A k \in Version : /\ MIGRATIONS[k].version \in Nat
                            /\ Len(creates(k)) \in Nat
                            /\ DOMAIN creates(k) = 1 .. Len(creates(k))
  BY Versions
<1>4. /\ at' = [at EXCEPT ![o] = p] /\ db' = [db EXCEPT ![o] = t]
      /\ latch' = [latch EXCEPT ![o] = latch[o]]
      /\ serving' = [serving EXCEPT ![o] = serving[o]]
      /\ UNCHANGED <<deployed, isolate, faults>>
  <2>1. at' = [at EXCEPT ![o] = p]
    BY <1>1 DEF stamp, Shapes
  <2>2. db' = [db EXCEPT ![o] = t]
    BY <1>1 DEF stamp
  <2>. QED  BY <1>1, <2>1, <2>2 DEF stamp, Shapes
<1>5. p \in Position /\ p # Idle
  BY <1>2, <1>3 DEF Position, Idle
<1>6. \A k \in Version : k <= m => MadeIn(db[o], k)
  <2>1. PassedOK(deployed, db[o], at[o])
    BY DEF Ok, ObjectOK
  <2>2. /\ \A k \in Version : k < m => MadeIn(db[o], k)
        /\ \A i \in DOMAIN creates(m) :
             i < s => creates(m)[i] \in DOMAIN db[o]
    BY <1>2, <2>1 DEF PassedOK
  <2>3. MadeIn(db[o], m)
    BY <1>3, <2>2 DEF MadeIn
  <2>. QED  BY <1>3, <2>2, <2>3
<1>7. schema_version \in DOMAIN db[o]
  <2>1. MadeIn(db[o], 1)
    BY <1>3, <1>6, Versions
  <2>. QED  BY <2>1, HasTables
<1>8. /\ DOMAIN t = DOMAIN db[o]
      /\ t \in [DOMAIN t -> SUBSET (Nat \cup PageRow)]
      /\ StampsOf(t) = StampsOf(db[o]) \cup {v}
  BY <1>3, <1>7, InsertGrows DEF Ok, ObjectOK, DbOK
<1>9. \A k : MadeIn(db[o], k) => MadeIn(t, k)
  BY <1>8, MadeStays
<1>. HIDE DEF t
<1>10. \A k \in Version : MIGRATIONS[k].version <= v => k <= m
  <2>. SUFFICES ASSUME NEW k \in Version, k > m
                PROVE  ~(MIGRATIONS[k].version <= v)
    BY <1>3
  <2>1. MIGRATIONS[m].version < MIGRATIONS[k].version
    BY <1>3, MigrationsAssumption DEF Version
  <2>. QED  BY <1>3, <2>1
<1>11. DbOK(t)
  BY <1>3, <1>6, <1>8, <1>9, <1>10 DEF Ok, ObjectOK, DbOK
<1>12. PassedOK(deployed, t, p)
  <2>1. PassedOK(deployed, db[o], at[o])
    BY DEF Ok, ObjectOK
  <2>2. at[o].current \in {0} \cup StampsOf(db[o])
    BY <1>2, <2>1 DEF PassedOK
  <2>3. \A k \in Version : k < m + 1 => MadeIn(t, k)
    BY <1>3, <1>6, <1>9
  <2>4. m + 1 <= deployed => m + 1 \in Version
    BY <1>2, <1>3
  <2>5. m + 1 <= deployed =>
          /\ 1 <= Len(creates(m + 1)) + 1
          /\ \A i \in DOMAIN creates(m + 1) : ~(i < 1)
    BY <1>3, <2>4
  <2>6. m + 1 <= deployed + 1
    BY <1>2, <1>3
  <2>. QED  BY <1>8, <2>2, <2>3, <2>5, <2>6 DEF PassedOK
<1>13. ObjectOK(deployed, t, latch[o], p, serving[o])
  BY <1>2, <1>5, <1>11, <1>12 DEF Ok, ObjectOK
<1>14. latch[o] \in BOOLEAN /\ serving[o] \in BOOLEAN /\ faults' \in 0 .. MaxFaults
  BY <1>4 DEF Shapes
<1>. HIDE DEF p
<1>. QED  BY <1>4, <1>5, <1>13, <1>14, OneObject

LEMMA ReadyStep ==
  ASSUME IInv, NEW o \in Object, SchemaReady(o)  PROVE IInv'
<1>. Shapes /\ Ok(o)
  BY Parts
<1>1. PICK y \in BOOLEAN : serving' = [serving EXCEPT ![o] = y]
  BY DEF SchemaReady, Admit, Shapes
<1>2. \A m \in 1 .. deployed : MadeIn(db[o], m)
  <2>1. at[o] \in Position /\ PassedOK(deployed, db[o], at[o])
    BY DEF SchemaReady, Ok, ObjectOK
  <2>2. deployed \in 1 .. Len(MIGRATIONS) /\ Len(MIGRATIONS) \in Nat
    BY Versions DEF Shapes
  <2>3. at[o].m \in Nat /\ at[o].m > deployed
    BY <2>1, <2>2 DEF SchemaReady, Position
  <2>4. \A m \in Version : m < at[o].m => MadeIn(db[o], m)
    BY <2>1 DEF PassedOK, SchemaReady
  <2>. QED  BY <2>2, <2>3, <2>4, Versions
<1>3. ObjectOK(deployed, db[o], TRUE, Idle, y)
  BY <1>2 DEF Ok, ObjectOK, PassedOK
<1>4. /\ faults' \in 0 .. MaxFaults /\ UNCHANGED <<deployed, isolate>>
      /\ db' = [db EXCEPT ![o] = db[o]]
      /\ latch' = [latch EXCEPT ![o] = TRUE]
      /\ at' = [at EXCEPT ![o] = Idle]
  BY DEF SchemaReady, Shapes
<1>. QED  BY <1>1, <1>3, <1>4, OneObject

\* Steps that leave the database alone, and end or begin no more than that.
LEMMA ExecFailsStep ==
  ASSUME IInv, NEW o \in Object, ExecFails(o)  PROVE IInv'
<1>. Shapes /\ Ok(o)
  BY Parts
<1>1. ObjectOK(deployed, db[o], latch[o], Idle, serving[o])
  BY DEF Ok, ObjectOK, PassedOK
<1>2. faults' \in 0 .. MaxFaults
  BY MigrationsAssumption DEF ExecFails, Fault, Shapes
<1>3. /\ latch[o] \in BOOLEAN /\ serving[o] \in BOOLEAN
      /\ UNCHANGED <<deployed, isolate>>
      /\ db' = [db EXCEPT ![o] = db[o]]
      /\ latch' = [latch EXCEPT ![o] = latch[o]]
      /\ at' = [at EXCEPT ![o] = Idle]
      /\ serving' = [serving EXCEPT ![o] = serving[o]]
  BY DEF ExecFails, Shapes
<1>. QED  BY <1>1, <1>2, <1>3, OneObject

LEMMA TaskEndsStep ==
  ASSUME IInv, NEW o \in Object, TaskEnds(o)  PROVE IInv'
<1>. Shapes /\ Ok(o)
  BY Parts
<1>1. ObjectOK(deployed, db[o], latch[o], at[o], FALSE)
  BY DEF Ok, ObjectOK
<1>2. /\ latch[o] \in BOOLEAN /\ at[o] \in Position \cup {Idle}
      /\ faults' \in 0 .. MaxFaults /\ UNCHANGED <<deployed, isolate>>
      /\ db' = [db EXCEPT ![o] = db[o]]
      /\ latch' = [latch EXCEPT ![o] = latch[o]]
      /\ at' = [at EXCEPT ![o] = at[o]]
      /\ serving' = [serving EXCEPT ![o] = FALSE]
  BY DEF TaskEnds, Shapes
<1>. QED  BY <1>1, <1>2, OneObject

\* A task finds the table of pages, as the object serves.
LEMMA PutStep ==
  ASSUME IInv, NEW o \in Object, put_page(o)
  PROVE  IInv' /\ pages \in DOMAIN db[o]
<1>. Shapes /\ Ok(o)
  BY Parts
<1>1. PICK row \in PageRow : db' = [db EXCEPT ![o] = insert(@, pages, row)]
  BY DEF put_page
<1>. DEFINE t == insert(db[o], pages, row)
<1>2. latch[o] /\ at[o] = Idle /\ serving[o]
  BY DEF put_page, Ok, ObjectOK
<1>3. MadeIn(db[o], 1)
  <2>1. 1 \in 1 .. deployed
    BY Versions DEF Shapes
  <2>. QED  BY <1>2, <2>1 DEF Ok, ObjectOK
<1>4. pages \in DOMAIN db[o] /\ pages # schema_version
  BY <1>3, HasTables, MigrationsAssumption
<1>5. /\ DOMAIN t = DOMAIN db[o]
      /\ t \in [DOMAIN t -> SUBSET (Nat \cup PageRow)]
      /\ StampsOf(t) = StampsOf(db[o])
  BY <1>4, InsertGrows DEF Ok, ObjectOK, DbOK
<1>6. \A k : MadeIn(db[o], k) => MadeIn(t, k)
  BY <1>5, MadeStays
<1>. HIDE DEF t
<1>7. ObjectOK(deployed, t, latch[o], at[o], serving[o])
  BY <1>2, <1>5, <1>6 DEF Ok, ObjectOK, DbOK, PassedOK
<1>8. /\ latch[o] \in BOOLEAN /\ serving[o] \in BOOLEAN
      /\ at[o] \in Position \cup {Idle}
      /\ faults' \in 0 .. MaxFaults /\ UNCHANGED <<deployed, isolate>>
      /\ latch' = [latch EXCEPT ![o] = latch[o]]
      /\ at' = [at EXCEPT ![o] = at[o]]
      /\ serving' = [serving EXCEPT ![o] = serving[o]]
  BY DEF put_page, Shapes
<1>9. db' = [db EXCEPT ![o] = t]
  BY <1>1 DEF t
<1>. QED  BY <1>4, <1>7, <1>8, <1>9, OneObject

-----------------------------------------------------------------------------
(* Steps of all objects, and those of the worker.                          *)

\* An instance that starts again trusts nothing but the database.
LEMMA EvictStep ==
  ASSUME IInv, NEW S, Evict(S), deployed' \in Version,
         faults' \in 0 .. MaxFaults, WorkerOK',
         deployed' = deployed \/ S = Object
  PROVE  IInv'
<1>. Shapes /\ \A o \in Object : Ok(o)
  BY Parts
<1>1. Shapes'
  BY DEF Evict, Shapes
<1>2. ASSUME NEW o \in Object PROVE Ok(o)'
  <2>1. db'[o] = db[o] /\ DbOK(db[o])
    BY DEF Evict, Ok, ObjectOK
  <2>2. CASE o \in S
    <3>1. at'[o] = Idle /\ latch'[o] = FALSE /\ serving'[o] = FALSE
      BY <2>2 DEF Evict
    <3>. QED  BY <2>1, <3>1 DEF Ok, ObjectOK, PassedOK
  <2>3. CASE o \notin S
    <3>1. /\ at'[o] = at[o] /\ latch'[o] = latch[o] /\ serving'[o] = serving[o]
          /\ deployed' = deployed
      BY <2>3 DEF Evict, Shapes
    <3>. QED  BY <2>1, <3>1 DEF Ok
  <2>. QED  BY <2>2, <2>3
<1>. QED  BY <1>1, <1>2, PartsNext

\* A step of the worker leaves the objects alone.
LEMMA WorkerStep ==
  ASSUME IInv, UNCHANGED <<deployed, object>>, faults' \in 0 .. MaxFaults,
         WorkerOK'
  PROVE  IInv'
<1>. Shapes /\ \A o \in Object : Ok(o)
  BY Parts
<1>1. Shapes'
  BY DEF Shapes, object
<1>2. ASSUME NEW o \in Object PROVE Ok(o)'
  BY DEF Ok, object
<1>. QED  BY <1>1, <1>2, PartsNext

LEMMA RequestStep ==
  ASSUME IInv, NEW r \in Request,
         build_state(r) \/ Batch(r) \/ BatchAnswered(r) \/ Handle(r)
  PROVE  IInv'
<1>. Shapes /\ WorkerOK
  BY Parts
<1>1. CASE build_state(r)
  BY <1>1, MigrationsAssumption, WorkerStep DEF build_state, WorkerOK, Shapes
<1>2. CASE Batch(r)
  <2>1. /\ d1' \in [DOMAIN d1' -> SUBSET Account]
        /\ SCHEMA \subseteq DOMAIN d1 => SCHEMA \subseteq DOMAIN d1'
        /\ req'[r] = "answer" => SCHEMA \subseteq DOMAIN d1'
    BY <1>2 DEF Batch, WorkerOK
  <2>2. /\ req' \in [Request -> {"none", "batch", "answer", "serving"}]
        /\ req'[r] \in {"answer", "none"}
        /\ \A q \in Request \ {r} : req'[q] = req[q]
    BY <1>2 DEF Batch, WorkerOK
  <2>3. WorkerOK'
    BY <1>2, <2>1, <2>2 DEF Batch, WorkerOK
  <2>4. faults' \in 0 .. MaxFaults
    BY <1>2, MigrationsAssumption DEF Batch, Fault, Shapes
  <2>. QED  BY <1>2, <2>3, <2>4, WorkerStep DEF Batch
<1>3. CASE BatchAnswered(r)
  BY <1>3, WorkerStep DEF BatchAnswered, WorkerOK, Shapes
<1>4. CASE Handle(r)
  <2>1. DOMAIN d1' = DOMAIN d1 /\ d1' \in [DOMAIN d1 -> SUBSET Account]
    BY <1>4 DEF Handle, insert, WorkerOK
  <2>2. /\ req' \in [Request -> {"none", "batch", "answer", "serving"}]
        /\ req'[r] = "none" /\ \A q \in Request \ {r} : req'[q] = req[q]
    BY <1>4 DEF Handle, WorkerOK
  <2>3. WorkerOK'
    BY <1>4, <2>1, <2>2 DEF Handle, WorkerOK
  <2>. QED  BY <1>4, <2>3, WorkerStep DEF Handle, Shapes
<1>. QED  BY <1>1, <1>2, <1>3, <1>4

\* A static that is down again claims nothing.
LEMMA RestartedWorker ==
  ASSUME WorkerOK, IsolateRestarts  PROVE WorkerOK'
BY DEF WorkerOK, IsolateRestarts

LEMMA NextIInv ==
  ASSUME IInv, [Next]_vars  PROVE IInv'
<1>. Shapes /\ WorkerOK
  BY Parts
<1>1. CASE UNCHANGED vars
  BY <1>1, WorkerStep DEF vars, object, isolate, Shapes, WorkerOK
<1>2. ASSUME NEW o \in Object,
             \/ fetch(o) \/ ensure_schema(o) \/ Migrates(o) \/ ExecFails(o)
             \/ put_page(o) \/ TaskEnds(o)
      PROVE  IInv'
  BY <1>2, FetchStep, EnsureStep, SkipStep, ExecStep, StampStep, ReadyStep,
     ExecFailsStep, PutStep, TaskEndsStep DEF Migrates
<1>3. ASSUME NEW o \in Object, EvictOne(o) PROVE IInv'
  <2>1. WorkerOK'
    BY <1>3 DEF EvictOne, isolate, WorkerOK
  <2>2. faults' \in 0 .. MaxFaults
    BY <1>3, MigrationsAssumption DEF EvictOne, Fault, Shapes
  <2>. QED  BY <1>3, <2>1, <2>2, EvictStep DEF EvictOne, Shapes
<1>4. ASSUME NEW r \in Request,
             build_state(r) \/ Batch(r) \/ BatchAnswered(r) \/ Handle(r)
      PROVE  IInv'
  BY <1>4, RequestStep
<1>5. CASE IsolateRestarts /\ Fault /\ UNCHANGED <<deployed, object>>
  <2>1. faults' \in 0 .. MaxFaults
    BY <1>5, MigrationsAssumption DEF Fault, Shapes
  <2>. QED  BY <1>5, <2>1, RestartedWorker, WorkerStep
<1>6. CASE Deploy
  <2>1. faults' \in 0 .. MaxFaults
    BY <1>6, MigrationsAssumption DEF Deploy, Fault, Shapes
  <2>. QED  BY <1>6, <2>1, RestartedWorker, EvictStep DEF Deploy
<1>. QED  BY <1>1, <1>2, <1>3, <1>4, <1>5, <1>6 DEF Next

-----------------------------------------------------------------------------
(* Theorems.                                                               *)

\* The inductive invariant: stamps, positions and latches tell the truth
\* about what is in the database, whatever fails and whenever.
THEOREM SpecIInv == Spec => []IInv
BY InitIInv, NextIInv, PTL DEF Spec

\* do_migrations.rs: a stamp is never ahead of the tables it vouches for.
THEOREM TrueStamps == Spec => []StampsAreTrue
<1>1. IInv => StampsAreTrue
  BY DEF IInv
<1>. QED  BY <1>1, SpecIInv, PTL

\* do_edge_replica.rs and lib.rs: who is served finds every table there is
\* to be under the build that runs.
THEOREM SchemaServed == Spec => []ServedFindsSchema
<1>1. IInv => ServedFindsSchema
  BY DEF IInv, LatchesAreTrue, ServedFindsSchema
<1>. QED  BY <1>1, SpecIInv, PTL

\* No step of an object or of the worker takes a row or a table away.
LEMMA StepKeeps ==
  ASSUME IInv, [Next]_vars
  PROVE  Keeps(d1, d1') /\ \A o \in Object : Keeps(db[o], db'[o])
<1>. Shapes /\ WorkerOK /\ \A o \in Object : Ok(o)
  BY Parts
<1>1. (db' = db) => \A o \in Object : Keeps(db[o], db'[o])
  BY DEF Keeps
<1>2. (d1' = d1) => Keeps(d1, d1')
  BY DEF Keeps
<1>3. ASSUME NEW o \in Object, NEW t, Keeps(db[o], t),
             db' = [db EXCEPT ![o] = t]
      PROVE  \A x \in Object : Keeps(db[x], db'[x])
  BY <1>3 DEF Shapes, Keeps
<1>4. ASSUME NEW o \in Object, Exec(o)
      PROVE  d1' = d1 /\ \A x \in Object : Keeps(db[x], db'[x])
  <2>1. PICK m \in Version : \E s \in DOMAIN creates(m) : run_statement(o, m, s)
    BY <1>4 DEF Exec
  <2>2. PICK s \in DOMAIN creates(m) : run_statement(o, m, s)
    BY <2>1
  <2>3. Keeps(db[o], create_if_not_exists(db[o], creates(m)[s]))
    BY CreateGrows DEF Ok, ObjectOK, DbOK
  <2>. QED  BY <1>3, <2>2, <2>3 DEF run_statement, isolate
<1>5. ASSUME NEW o \in Object, Stamp(o)
      PROVE  d1' = d1 /\ \A x \in Object : Keeps(db[x], db'[x])
  <2>1. PICK m \in Version : stamp(o, m)
    BY <1>5 DEF Stamp
  <2>2. Keeps(db[o], insert(db[o], schema_version, MIGRATIONS[m].version))
    BY DEF Keeps, insert
  <2>. QED  BY <1>3, <2>1, <2>2 DEF stamp, isolate
<1>6. ASSUME NEW o \in Object, put_page(o)
      PROVE  d1' = d1 /\ \A x \in Object : Keeps(db[x], db'[x])
  <2>1. PICK row \in PageRow : db' = [db EXCEPT ![o] = insert(@, pages, row)]
    BY <1>6 DEF put_page
  <2>2. Keeps(db[o], insert(db[o], pages, row))
    BY DEF Keeps, insert
  <2>. QED  BY <1>3, <1>6, <2>1, <2>2 DEF put_page, isolate
<1>7. ASSUME NEW o \in Object,
             \/ fetch(o) \/ ensure_schema(o) \/ Skip(o) \/ SchemaReady(o)
             \/ ExecFails(o) \/ TaskEnds(o) \/ EvictOne(o)
      PROVE  db' = db /\ d1' = d1
  BY <1>7 DEF fetch, ensure_schema, Skip, SchemaReady, ExecFails, TaskEnds,
              EvictOne, Evict, isolate
<1>8. ASSUME NEW r \in Request,
             build_state(r) \/ Batch(r) \/ BatchAnswered(r) \/ Handle(r)
      PROVE  db' = db /\ Keeps(d1, d1')
  <2>1. db' = db
    BY <1>8 DEF build_state, Batch, BatchAnswered, Handle, object
  <2>2. CASE Batch(r)
    BY <2>1, <2>2 DEF Batch, Keeps
  <2>3. CASE Handle(r)
    BY <2>1, <2>3 DEF Handle, Keeps, insert
  <2>4. CASE build_state(r) \/ BatchAnswered(r)
    BY <1>2, <2>1, <2>4 DEF build_state, BatchAnswered
  <2>. QED  BY <1>8, <2>1, <2>2, <2>3, <2>4
<1>9. CASE IsolateRestarts /\ Fault /\ UNCHANGED <<deployed, object>>
  BY <1>1, <1>2, <1>9 DEF IsolateRestarts, object
<1>10. CASE Deploy
  BY <1>1, <1>2, <1>10 DEF Deploy, Evict, IsolateRestarts
<1>11. CASE UNCHANGED vars
  BY <1>1, <1>2, <1>11 DEF vars, object, isolate
<1>. QED
  BY <1>1, <1>2, <1>4, <1>5, <1>6, <1>7, <1>8, <1>9, <1>10, <1>11
  DEF Next, Migrates

\* do_migrations.rs, repo_d1.rs: a migration that runs again loses no row.
THEOREM SurvivingRows == Spec => RowsSurvive
BY SpecIInv, StepKeeps, PTL DEF Spec, RowsSurvive

=============================================================================
