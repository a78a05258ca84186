---------------------------- MODULE ClientConfig ----------------------------
(***************************************************************************)
(* The config file of the command line client: the server it talks to and  *)
(* the session token it got there.                                         *)
(*                                                                         *)
(* Every command loads the file first, and may be given another server on  *)
(* its command line.  The commands that sign in write the whole file back  *)
(* when their RPC has succeeded: first it is truncated, then the text is   *)
(* written.  Nothing keeps two commands from running at once, or a command *)
(* from being killed in between.  A text this short is written at once, or *)
(* not at all.                                                             *)
(***************************************************************************)
EXTENDS Naturals

CONSTANTS
  Process,         \* runs of the client, one command each
  Server,
  DEFAULT_SERVER,
  None, Empty, Torn

\* Only sign-ins are given a token; only authed commands need one.  A sync
\* takes nothing from the file but the server.
SignIn == {"signup", "login", "oauth_complete"}
DbCommand == {"create", "list", "delete", "token"}
Authed == {"whoami"} \cup DbCommand
Command == SignIn \cup Authed \cup {"oauth_start", "push", "pull"}

\* Session tokens: who has issued them, and to which run.
Token == [server : Server, to : Process]

Config == [server : Server, session_token : Token \cup {None}]

ASSUME ConfigAssumption ==
  /\ DEFAULT_SERVER \in Server
  /\ None \notin Token /\ None \notin Config /\ None \notin Server
  /\ Empty \notin Config /\ Torn \notin Config
  /\ None # Empty /\ None # Torn /\ Empty # Torn

VARIABLES
  file,     \* None if there is none; Empty and Torn do not parse
  pc,       \* pc[p]: idle, rpc, save, write, then ok or failed
  command,  \* command[p], and
  server,   \* server[p]: the --server of p, or None: its command line
  config,   \* config[p]: the Config of p once it is loaded
  kept,     \* history: what the last save wrote, or what there was at first
  disturbed \* history: the last save was cut short, or another overlapped it

vars == <<file, pc, command, server, config, kept, disturbed>>

default == [server |-> DEFAULT_SERVER, session_token |-> None]

TypeOK ==
  /\ file \in Config \cup {None, Empty, Torn}
  /\ pc \in [Process -> {"idle", "rpc", "save", "write", "ok", "failed"}]
  /\ command \in [Process -> Command]
  /\ server \in [Process -> Server \cup {None}]
  /\ config \in [Process -> Config]
  /\ kept \in Config \cup {None}
  /\ disturbed \in BOOLEAN

\* No file yet, or one that names a server.
Init ==
  /\ file \in {None} \cup [server : Server, session_token : {None}]
  /\ pc = [p \in Process |-> "idle"]
  /\ command \in [Process -> Command]
  /\ server \in [Process -> Server \cup {None}]
  /\ config = [p \in Process |-> default]
  /\ kept = file
  /\ disturbed = FALSE

Goto(p, l) == pc' = [pc EXCEPT ![p] = l]

Writing(p) == pc[p] = "write"

-----------------------------------------------------------------------------

\* What p works with, when the file says c and its command line says s.
override(c, s) == IF s = None THEN c ELSE [c EXCEPT !.server = s]

\* Config::load and main: an authed command without a token ends here.
load(p) ==
  LET c == override(IF file = None THEN default ELSE file, server[p])
  IN  /\ pc[p] = "idle" /\ file \notin {Empty, Torn}
      /\ config' = [config EXCEPT ![p] = c]
      /\ Goto(p, IF command[p] \in Authed /\ c.session_token = None
                 THEN "failed" ELSE "rpc")
      /\ UNCHANGED <<file, command, server, kept, disturbed>>

LoadFails(p) ==
  /\ pc[p] = "idle" /\ file \in {Empty, Torn}
  /\ Goto(p, "failed")
  /\ UNCHANGED <<file, command, server, config, kept, disturbed>>

\* Mutant: the token is saved whether the server has given one or not.
Answered_anyway(p) ==
  /\ pc[p] = "rpc"
  /\ \E t \in {config[p].session_token,
               [server |-> config[p].server, to |-> p]} :
       config' = [config EXCEPT ![p].session_token = t]
  /\ Goto(p, IF command[p] \in SignIn THEN "save" ELSE "ok")
  /\ UNCHANGED <<file, command, server, kept, disturbed>>

\* The server answers; a sign-in goes on to save the token.
Answered(p) ==
  /\ pc[p] = "rpc"
  /\ IF command[p] \in SignIn
     THEN /\ Goto(p, "save")
          /\ config' = [config EXCEPT ![p].session_token =
                          [server |-> config[p].server, to |-> p]]
     ELSE Goto(p, "ok") /\ UNCHANGED config
  /\ UNCHANGED <<file, command, server, kept, disturbed>>

\* Mutant: the file is opened while the RPC is on its way.
truncate_early(p) ==
  /\ pc[p] \in {"rpc", "save"} /\ command[p] \in SignIn
  /\ file' = Empty
  /\ IF pc[p] = "rpc" THEN UNCHANGED <<pc, disturbed>>
     ELSE /\ Goto(p, "write")
          /\ disturbed' = \E q \in Process : Writing(q)
  /\ UNCHANGED <<command, server, config, kept>>

\* std::fs::write opens with O_TRUNC ...
truncate(p) ==
  /\ pc[p] = "save"
  /\ file' = Empty
  /\ Goto(p, "write")
  /\ disturbed' = \E q \in Process : Writing(q)
  /\ UNCHANGED <<command, server, config, kept>>

\* Mutant: the token goes to the file, the server there stays.
write_token(p) ==
  LET c == IF kept = None THEN default ELSE kept
      new == [c EXCEPT !.session_token = config[p].session_token]
  IN  /\ Writing(p)
      /\ file' \in {new} \cup (IF file = Empty THEN {} ELSE {Torn})
      /\ kept' = new
      /\ Goto(p, "ok")
      /\ UNCHANGED <<command, server, config, disturbed>>

\* ... and writes from the start.  Over the text of another, which may be
\* longer, the rest of that text stays and nothing parses.
write(p) ==
  /\ Writing(p)
  /\ file' \in {config[p]} \cup (IF file = Empty THEN {} ELSE {Torn})
  /\ kept' = config[p]
  /\ Goto(p, "ok")
  /\ UNCHANGED <<command, server, config, disturbed>>

\* The RPC, the open or the write fails, or the process is killed.
Fails(p) ==
  /\ pc[p] \in {"rpc", "save", "write"}
  /\ Goto(p, "failed")
  /\ disturbed' = (disturbed \/ Writing(p))
  /\ UNCHANGED <<file, command, server, config, kept>>

Step(p) ==
  load(p) \/ LoadFails(p) \/ Answered(p) \/ truncate(p) \/ write(p) \/ Fails(p)

Finished == (\A p \in Process : pc[p] \in {"ok", "failed"}) /\ UNCHANGED vars

Next == (\E p \in Process : Step(p)) \/ Finished

Spec == Init /\ [][Next]_vars

-----------------------------------------------------------------------------
(* Properties.                                                             *)

Whole(c) == c.session_token # None => c.session_token.server = c.server

\* A file that parses never pairs a server with the token of another,
\* however sign-ins to different servers overlap, fail or die.
FileIsWhole == file \in Config => Whole(file)

\* What a command holds that was given no server of its own is whole too,
\* and so is what a sign-in is about to save; an authed command has a token.
HeldIsWhole ==
  \A p \in Process :
    /\ pc[p] = "rpc" /\ command[p] \in Authed
         => config[p].session_token # None
    /\ pc[p] = "rpc" /\ server[p] = None => Whole(config[p])
    /\ pc[p] \in {"save", "write"} => Whole(config[p])

\* An undisturbed save has truncated the file and is alone with it.
SavesAreAlone ==
  ~disturbed =>
    /\ \A p, q \in Process : Writing(p) /\ Writing(q) => p = q
    /\ (\E p \in Process : Writing(p)) => file = Empty

\* Between saves the file is what the last save wrote, unless that one was
\* cut short or another overlapped it: only a sign-in that has succeeded
\* changes it, and nothing else makes it unreadable.
SavedIsKept ==
  ~disturbed /\ (\A p \in Process : ~Writing(p)) => file = kept

IInv == TypeOK /\ FileIsWhole /\ HeldIsWhole /\ SavesAreAlone /\ SavedIsKept

\* A session token is only sent to the server that issued it, unless the
\* user names another on the command line.
TokenGoesHome ==
  \A p \in Process :
    pc[p] = "rpc" /\ command[p] \in Authed /\ server[p] = None =>
      config[p].session_token \in [server : {config[p].server}, to : Process]
=============================================================================
