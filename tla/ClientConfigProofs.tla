-------------------------- MODULE ClientConfigProofs --------------------------
(***************************************************************************)
(* Theorems about ClientConfig, for any number of commands and servers.    *)
(***************************************************************************)
EXTENDS ClientConfig, TLAPS

LEMMA DefaultIsWhole == default \in Config /\ Whole(default)
BY ConfigAssumption DEF default, Config, Whole

LEMMA InitIInv == Init => IInv
<1>. SUFFICES ASSUME Init PROVE IInv
  OBVIOUS
<1>1. file \in {None} \cup Config
  BY DEF Init, Config
<1>2. TypeOK
  BY <1>1, DefaultIsWhole DEF Init, TypeOK
<1>3. FileIsWhole
  BY ConfigAssumption DEF Init, FileIsWhole, Whole, Config
<1>4. HeldIsWhole
  BY DefaultIsWhole DEF Init, HeldIsWhole
<1>5. SavesAreAlone /\ SavedIsKept
  BY DEF Init, SavesAreAlone, SavedIsKept, Writing
<1>. QED  BY <1>2, <1>3, <1>4, <1>5 DEF IInv

\* What main makes of the file and of --server.
LEMMA OverrideKeeps ==
  ASSUME NEW c \in Config, NEW s \in Server \cup {None}
  PROVE  /\ override(c, s) \in Config
         /\ s = None /\ Whole(c) => Whole(override(c, s))
BY ConfigAssumption DEF override, Config, Whole

LEMMA LoadStep ==
  ASSUME IInv, NEW p \in Process, load(p)  PROVE IInv'
<1>. DEFINE f == IF file = None THEN default ELSE file
            c == override(f, server[p])
<1>1. TypeOK /\ FileIsWhole /\ HeldIsWhole /\ SavesAreAlone /\ SavedIsKept
  BY DEF IInv
<1>2. f \in Config /\ Whole(f)
  BY <1>1, DefaultIsWhole DEF load, TypeOK, FileIsWhole
<1>3. c \in Config /\ (server[p] = None => Whole(c))
  BY <1>1, <1>2, OverrideKeeps DEF TypeOK
<1>. HIDE DEF f
<1>4. PICK l \in {"rpc", "failed"} :
        /\ l = "rpc" /\ command[p] \in Authed => c.session_token # None
        /\ pc[p] = "idle" /\ pc' = [pc EXCEPT ![p] = l]
        /\ config' = [config EXCEPT ![p] = c]
        /\ UNCHANGED <<file, command, server, kept, disturbed>>
  BY DEF load, Goto, f
<1>. HIDE DEF c
<1>5. TypeOK'
  BY <1>1, <1>3, <1>4 DEF TypeOK
<1>6. FileIsWhole'
  BY <1>1, <1>4 DEF FileIsWhole
<1>7. HeldIsWhole'
  BY <1>1, <1>3, <1>4 DEF HeldIsWhole, TypeOK
<1>8. \A q \in Process : Writing(q)' <=> Writing(q)
  BY <1>1, <1>4 DEF Writing, TypeOK
<1>9. SavesAreAlone' /\ SavedIsKept'
  BY <1>1, <1>4, <1>8 DEF SavesAreAlone, SavedIsKept
<1>. QED  BY <1>5, <1>6, <1>7, <1>9 DEF IInv

LEMMA LoadFailsStep ==
  ASSUME IInv, NEW p \in Process, LoadFails(p)  PROVE IInv'
<1>1. TypeOK /\ FileIsWhole /\ HeldIsWhole /\ SavesAreAlone /\ SavedIsKept
  BY DEF IInv
<1>2. TypeOK' /\ FileIsWhole' /\ HeldIsWhole'
  BY <1>1 DEF LoadFails, Goto, TypeOK, FileIsWhole, HeldIsWhole
<1>3. \A q \in Process : Writing(q)' <=> Writing(q)
  BY <1>1 DEF LoadFails, Goto, Writing, TypeOK
<1>4. SavesAreAlone' /\ SavedIsKept'
  BY <1>1, <1>3 DEF LoadFails, SavesAreAlone, SavedIsKept
<1>. QED  BY <1>2, <1>4 DEF IInv

LEMMA AnsweredStep ==
  ASSUME IInv, NEW p \in Process, Answered(p)  PROVE IInv'
<1>1. TypeOK /\ FileIsWhole /\ HeldIsWhole /\ SavesAreAlone /\ SavedIsKept
  BY DEF IInv
<1>. DEFINE t == [server |-> config[p].server, to |-> p]
            c == [config[p] EXCEPT !.session_token = t]
<1>2. config[p] \in Config /\ c \in Config /\ Whole(c)
  BY <1>1 DEF TypeOK, Config, Token, Whole
<1>3. /\ pc[p] = "rpc"
      /\ \/ pc' = [pc EXCEPT ![p] = "save"] /\ config' = [config EXCEPT ![p] = c]
         \/ pc' = [pc EXCEPT ![p] = "ok"] /\ UNCHANGED config
      /\ UNCHANGED <<file, command, server, kept, disturbed>>
  BY DEF Answered, Goto
<1>. HIDE DEF c
<1>4. TypeOK'
  BY <1>1, <1>2, <1>3 DEF TypeOK
<1>5. FileIsWhole'
  BY <1>1, <1>3 DEF FileIsWhole
<1>6. HeldIsWhole'
  BY <1>1, <1>2, <1>3 DEF HeldIsWhole, TypeOK
<1>7. \A q \in Process : Writing(q)' <=> Writing(q)
  BY <1>1, <1>3 DEF Writing, TypeOK
<1>8. SavesAreAlone' /\ SavedIsKept'
  BY <1>1, <1>3, <1>7 DEF SavesAreAlone, SavedIsKept
<1>. QED  BY <1>4, <1>5, <1>6, <1>8 DEF IInv

\* From here on the file is this command's, if it is alone.
LEMMA TruncateStep ==
  ASSUME IInv, NEW p \in Process, truncate(p)  PROVE IInv'
<1>1. TypeOK /\ FileIsWhole /\ HeldIsWhole /\ SavesAreAlone /\ SavedIsKept
  BY DEF IInv
<1>2. TypeOK' /\ FileIsWhole'
  BY <1>1, ConfigAssumption DEF truncate, Goto, TypeOK, FileIsWhole
<1>3. HeldIsWhole'
  BY <1>1 DEF truncate, Goto, HeldIsWhole, TypeOK
<1>4. Writing(p)' /\ \A q \in Process \ {p} : Writing(q)' <=> Writing(q)
  BY <1>1 DEF truncate, Goto, Writing, TypeOK
<1>5. SavesAreAlone' /\ SavedIsKept'
  BY <1>4 DEF truncate, SavesAreAlone, SavedIsKept
<1>. QED  BY <1>2, <1>3, <1>5 DEF IInv

LEMMA WriteStep ==
  ASSUME IInv, NEW p \in Process, write(p)  PROVE IInv'
<1>1. TypeOK /\ FileIsWhole /\ HeldIsWhole /\ SavesAreAlone /\ SavedIsKept
  BY DEF IInv
<1>2. config[p] \in Config /\ Whole(config[p])
  BY <1>1 DEF write, Writing, TypeOK, HeldIsWhole
<1>3. TypeOK'
  BY <1>1, <1>2 DEF write, Goto, TypeOK
<1>4. FileIsWhole'
  BY <1>2, ConfigAssumption DEF write, FileIsWhole
<1>5. HeldIsWhole'
  BY <1>1 DEF write, Goto, HeldIsWhole, TypeOK
<1>6. ~Writing(p)' /\ \A q \in Process \ {p} : Writing(q)' <=> Writing(q)
  BY <1>1 DEF write, Goto, Writing, TypeOK
<1>7. disturbed \/ (file' = config[p] /\ \A q \in Process : ~Writing(q)')
  BY <1>1, <1>6 DEF write, SavesAreAlone
<1>8. SavesAreAlone' /\ SavedIsKept'
  BY <1>7 DEF write, SavesAreAlone, SavedIsKept
<1>. QED  BY <1>3, <1>4, <1>5, <1>8 DEF IInv

LEMMA FailsStep ==
  ASSUME IInv, NEW p \in Process, Fails(p)  PROVE IInv'
<1>1. TypeOK /\ FileIsWhole /\ HeldIsWhole /\ SavesAreAlone /\ SavedIsKept
  BY DEF IInv
<1>2. TypeOK' /\ FileIsWhole'
  BY <1>1 DEF Fails, Goto, TypeOK, FileIsWhole, Writing
<1>3. HeldIsWhole'
  BY <1>1 DEF Fails, Goto, HeldIsWhole, TypeOK
<1>4. \A q \in Process \ {p} : Writing(q)' <=> Writing(q)
  BY <1>1 DEF Fails, Goto, Writing, TypeOK
<1>5. Writing(p) \/ \A q \in Process : Writing(q)' <=> Writing(q)
  BY <1>1, <1>4 DEF Fails, Goto, Writing, TypeOK
<1>6. SavesAreAlone' /\ SavedIsKept'
  BY <1>1, <1>5 DEF Fails, SavesAreAlone, SavedIsKept
<1>. QED  BY <1>2, <1>3, <1>6 DEF IInv

LEMMA NextIInv ==
  ASSUME IInv, [Next]_vars  PROVE IInv'
<1>1. CASE UNCHANGED vars
  BY <1>1 DEF IInv, vars, TypeOK, FileIsWhole, HeldIsWhole, SavesAreAlone,
              SavedIsKept, Writing
<1>2. ASSUME NEW p \in Process, Step(p) PROVE IInv'
  BY <1>2, LoadStep, LoadFailsStep, AnsweredStep, TruncateStep, WriteStep,
     FailsStep DEF Step
<1>. QED  BY <1>1, <1>2 DEF Next, Finished

-----------------------------------------------------------------------------

\* config.rs: the file and what the running commands hold are whole, and an
\* undisturbed save is alone with the file.
THEOREM SpecIInv == Spec => []IInv
BY InitIInv, NextIInv, PTL DEF Spec

\* config.rs, save: what has been saved stays until the next save.
THEOREM KeptSaves == Spec => []SavedIsKept
<1>1. IInv => SavedIsKept
  BY DEF IInv
<1>. QED  BY <1>1, SpecIInv, PTL

\* transport.rs, authed_admin_client: the token that goes out was issued by
\* the server it goes to, unless the command line names another.
THEOREM TokensGoHome == Spec => []TokenGoesHome
<1>1. ASSUME IInv PROVE TokenGoesHome
  <2>. SUFFICES ASSUME NEW p \in Process, pc[p] = "rpc", command[p] \in Authed,
                       server[p] = None
                PROVE  config[p].session_token
                         \in [server : {config[p].server}, to : Process]
    BY DEF TokenGoesHome
  <2>1. config[p] \in Config /\ Whole(config[p])
          /\ config[p].session_token # None
    BY <1>1 DEF IInv, TypeOK, HeldIsWhole
  <2>2. config[p].session_token \in Token
    BY <2>1 DEF Config
  <2>. QED  BY <2>1, <2>2 DEF Whole, Token
<1>. QED  BY <1>1, SpecIInv, PTL
=============================================================================
