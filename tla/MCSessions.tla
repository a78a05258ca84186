----------------------------- MODULE MCSessions -----------------------------
(* Who runs which session, in the finite instances of SyncSystem: two      *)
(* hosts and two sessions.                                                 *)
EXTENDS TLC

CONSTANTS h1, h2, s1, s2

\* One session each.
EachOwner == s1 :> h1 @@ s2 :> h2

\* Both sessions on h1: a command and its retry.
RetryOwner == s1 :> h1 @@ s2 :> h1

PushPull == s1 :> "push" @@ s2 :> "pull"

PushPush == s1 :> "push" @@ s2 :> "push"

\* The tokens of the sessions: each of its command's direction, ...
FitPushPull == {PushPull}

FitPushPush == {PushPush}

\* ... or both for the other command, or one of the two.
FitOrSwapped == {PushPull, s1 :> "pull" @@ s2 :> "push"}

OneUnfit ==
  {PushPull, s1 :> "push" @@ s2 :> "push", s1 :> "pull" @@ s2 :> "pull"}
=============================================================================
