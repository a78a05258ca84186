-------------------------- MODULE SyncSessionProofs --------------------------
(***************************************************************************)
(* Theorems about one sync session (SyncSession), for every page count,    *)
(* every Content and every bound.                                          *)
(*                                                                         *)
(* IInv is the inductive invariant.  Beside the properties to prove it     *)
(* says which control positions of the FSM can meet (Shape, Ready), that   *)
(* emitted_complete is set before SyncComplete is on the wire, and that    *)
(* the walk of handle_complete leaves no unclaimed row behind its cursor.  *)
(***************************************************************************)
EXTENDS SyncSession, SyncFsmProofs

\* The rows behind the cursor of the walk are claimed or sent.
WalkLeavesNoGap ==
  task = "open" /\ fsm.cursor # 0 =>
    \A p \in DOMAIN pages : p < fsm.cursor => Offered(p)

\* The inductive invariant.
IInv ==
  /\ TypeOK
  /\ Shape(fsm)
  /\ task = "open" => Ready(fsm)
  /\ Completions # {} => fsm.emitted_complete
  /\ CompleteIsLast
  /\ PendingWasRequested
  /\ WalkLeavesNoGap

\* The step of PullOffersEveryPage.
OffersStep ==
  fsm.direction = "pull" /\ ~fsm.emitted_complete /\ fsm'.emitted_complete
    => \A p \in DOMAIN pages \cap (1 .. fsm.server_max_page) : Offered(p)

-----------------------------------------------------------------------------
(* The history.                                                            *)

\* Frames appended to the history keep what was sent before.
LEMMA HistoryGrows ==
  ASSUME NEW s \in Seq(ServerFrame), NEW m \in ServerFrame
  PROVE  /\ s \o <<m>> = Append(s, m)
         /\ Append(s, m) \in Seq(ServerFrame)
         /\ Len(Append(s, m)) = Len(s) + 1
         /\ DOMAIN s = 1 .. Len(s) /\ Len(s) \in Nat
         /\ DOMAIN Append(s, m) = 1 .. Len(s) + 1
         /\ \A i \in 1 .. Len(s) : Append(s, m)[i] = s[i]
         /\ Append(s, m)[Len(s) + 1] = m
OBVIOUS

\* A frame of a client is well-formed.
LEMMA ClientFramesWellFormed ==
  ASSUME NEW msg \in ClientFrame
  PROVE  WellFormed(msg)
BY DEF ClientFrame, WellFormed, Hello, PageHash, PageHashBatch, RequestPage,
       PageDataBatch, Complete

-----------------------------------------------------------------------------

\* A session starts in the invariant.
THEOREM InitIInv == Init => IInv
<1> SUFFICES ASSUME Init PROVE IInv
  OBVIOUS
<1>1. PICK dir \in Direction : fsm = new(dir)
  BY DEF Init
<1>2. Ready(fsm) /\ Shape(fsm) /\ fsm \in Fsm
  BY <1>1, NewReady DEF Ready, Shape
<1>3. fsm.cursor = 0 /\ fsm.pending_requests = {}
  BY <1>1 DEF new
<1>4. sent = <<>> /\ task = "open" /\ pages \in Pages
  BY DEF Init
<1>5. DOMAIN sent = {} /\ Completions = {}
  BY <1>4 DEF Completions
<1>6. QED
  BY <1>2, <1>3, <1>4, <1>5
     DEF IInv, TypeOK, CompleteIsLast, PendingWasRequested, WalkLeavesNoGap

\* One turn of apply, judged by Legal alone: the invariant holds after the
\* task has settled its outcome, and a pull that completes has offered its
\* pages.
LEMMA SettleIInv ==
  ASSUME IInv, task = "open", NEW o, Legal(fsm, pages, o), Settle(o)
  PROVE  IInv' /\ OffersStep
<1>0. /\ sent \in Seq(ServerFrame) /\ fsm \in Fsm /\ pages \in Pages
      /\ Ready(fsm) /\ Shape(fsm)
      /\ fsm' = o.fsm /\ pages' = o.pages
  BY DEF IInv, TypeOK, Settle
<1>1. /\ fsm' \in Fsm /\ Shape(fsm') /\ pages' \in Pages
      /\ task' \in {"open"} \cup Ending
  <2>1. task' \in {"open"} \cup Ending
    BY DEF Settle, Ending
  <2>2. QED
    BY <1>0, <2>1 DEF Legal, Shape
<1>2. Error \in ServerFrame /\ Error.kind # "SyncComplete"
  BY DEF ServerFrame, Error
<1>3. \/ sent' = sent
      \/ \E m \in ServerFrame : /\ sent' = Append(sent, m)
                                /\ m = Error \/ o.out = <<m>>
  <2>1. CASE o.res = "ok"
    <3>1. sent' = sent \o o.out
      BY <2>1 DEF Settle
    <3>2. CASE o.out = <<>>
      BY <1>0, <3>1, <3>2
    <3>3. ASSUME NEW m \in ServerFrame, o.out = <<m>>
          PROVE  sent' = Append(sent, m)
      BY <1>0, <3>1, <3>3, HistoryGrows
    <3>4. QED
      BY <3>2, <3>3 DEF Legal
  <2>2. CASE o.res # "ok"
    BY <1>2, <2>2 DEF Settle
  <2>3. QED
    BY <2>1, <2>2
<1>4. sent' \in Seq(ServerFrame)
  BY <1>0, <1>3, HistoryGrows
\* What was on the wire is still there.
<1>5. /\ DOMAIN sent \subseteq DOMAIN sent'
      /\ \A i \in DOMAIN sent : sent'[i] = sent[i]
  BY <1>0, <1>3, HistoryGrows
<1>6. task' = "open" => Ready(fsm')
  BY <1>0 DEF Settle, Legal
<1>7. (Completions # {})' => fsm'.emitted_complete
  <2> SUFFICES ASSUME NEW i \in DOMAIN sent', sent'[i].kind = "SyncComplete"
               PROVE  fsm'.emitted_complete
    BY DEF Completions
  <2>1. CASE i \in DOMAIN sent
    <3>1. fsm.emitted_complete
      BY <1>5, <2>1 DEF IInv, Completions
    <3>2. QED
      BY <1>0, <3>1 DEF Legal
  <2>2. CASE i \notin DOMAIN sent
    <3>1. PICK m \in ServerFrame : /\ sent' = Append(sent, m)
                                   /\ m = Error \/ o.out = <<m>>
      BY <1>3, <2>2
    <3>2. sent'[i] = m
      <4>1. i \in 1 .. Len(sent) + 1 /\ i \notin 1 .. Len(sent)
        BY <1>0, <2>2, <3>1, HistoryGrows
      <4>2. QED
        BY <1>0, <3>1, <4>1, HistoryGrows
    <3>3. o.out = <<m>>
      BY <1>2, <3>1, <3>2
    <3>4. QED
      BY <1>0, <3>2, <3>3 DEF Legal
  <2>3. QED
    BY <2>1, <2>2
<1>8. CompleteIsLast'
  <2> SUFFICES ASSUME NEW i \in DOMAIN sent', sent'[i].kind = "SyncComplete",
                      NEW j \in i + 1 .. Len(sent')
               PROVE  sent'[j] = Error
    BY DEF CompleteIsLast, Completions
  <2>1. CASE sent' = sent
    BY <2>1 DEF IInv, CompleteIsLast, Completions
  <2>2. ASSUME NEW m \in ServerFrame, sent' = Append(sent, m),
               m = Error \/ o.out = <<m>>
        PROVE  sent'[j] = Error
    <3>1. i \in 1 .. Len(sent) /\ j \in i + 1 .. Len(sent) + 1
      BY <1>0, <2>2, HistoryGrows
    <3>2. sent[i].kind = "SyncComplete" /\ i \in DOMAIN sent
      BY <1>0, <1>5, <3>1, HistoryGrows
    <3>3. fsm.emitted_complete
      BY <3>2 DEF IInv, Completions
    <3>4. m = Error
      BY <2>2, <3>3, EmptyIsNoFrame DEF Legal
    <3>5. CASE j \in i + 1 .. Len(sent)
      <4>1. sent[j] = Error
        BY <3>2, <3>5 DEF IInv, CompleteIsLast, Completions
      <4>2. j \in 1 .. Len(sent)
        BY <1>0, <3>1, <3>5
      <4>3. QED
        BY <1>0, <1>5, <4>1, <4>2, HistoryGrows
    <3>6. CASE j = Len(sent) + 1
      BY <1>0, <2>2, <3>4, <3>6, HistoryGrows
    <3>7. QED
      BY <1>0, <3>1, <3>5, <3>6
  <2>3. QED
    BY <1>3, <2>1, <2>2
<1>9. PendingWasRequested'
  <2> SUFFICES ASSUME task' = "open", NEW p \in fsm'.pending_requests
               PROVE  \E i \in DOMAIN sent' : sent'[i] = RequestPage(p)
    BY DEF PendingWasRequested
  <2>1. CASE p \in fsm.pending_requests
    <3>1. PICK i \in DOMAIN sent : sent[i] = RequestPage(p)
      BY <2>1 DEF IInv, PendingWasRequested
    <3>2. QED
      BY <1>5, <3>1
  <2>2. CASE p \notin fsm.pending_requests
    <3>1. o.res = "ok" /\ sent' = sent \o o.out
      BY DEF Settle
    <3>2. o.out = <<RequestPage(p)>>
      BY <1>0, <2>2, <3>1 DEF Legal
    <3>3. p \in PageNo
      BY <1>1 DEF Fsm
    <3>4. RequestPage(p) \in ServerFrame
      BY <3>3 DEF RequestPage, ServerFrame
    <3>5. sent' = Append(sent, RequestPage(p))
      BY <1>0, <3>1, <3>2, <3>4, HistoryGrows
    <3>6. QED
      BY <1>0, <3>4, <3>5, HistoryGrows
  <2>3. QED
    BY <2>1, <2>2
<1>10. WalkLeavesNoGap'
  <2> SUFFICES ASSUME task' = "open", fsm'.cursor # 0,
                      NEW p \in DOMAIN pages', p < fsm'.cursor
               PROVE  Offered(p)'
    BY DEF WalkLeavesNoGap
  <2>1. o.res = "ok" /\ sent' = sent \o o.out
    BY DEF Settle
  <2>2. p \in DOMAIN pages
    BY <1>0, <2>1 DEF Legal
  <2>3. p \in PageNo
    BY <1>0, <2>2, RowData
  <2>4. Offered(p) => Offered(p)'
    BY <1>0, <1>5 DEF Offered, Legal
  <2>5. CASE p < fsm.cursor
    <3>1. fsm.cursor # 0
      BY <2>3, <2>5 DEF PageNo
    <3>2. Offered(p)
      BY <2>2, <2>5, <3>1 DEF IInv, WalkLeavesNoGap
    <3>3. QED
      BY <2>4, <3>2
  <2>6. CASE p \in fsm.client_seen
    BY <2>4, <2>6 DEF Offered
  <2>7. ASSUME NEW d, o.out = <<PageData(p, d)>>
        PROVE  Offered(p)'
    <3> DEFINE m == PageData(p, d)
    <3>1. m \in ServerFrame
      <4>1. o.out # <<>>
        BY <2>7
      <4>2. QED
        BY <2>7, <4>1 DEF Legal
    <3>2. m.kind = "PageData" /\ m.page_no = p
      BY DEF PageData
    <3> HIDE DEF m
    <3>3. sent' = Append(sent, m)
      BY <1>0, <2>1, <2>7, <3>1, HistoryGrows DEF m
    <3>4. QED
      BY <1>0, <3>1, <3>2, <3>3, HistoryGrows DEF Offered
  <2>8. QED
    BY <1>0, <2>1, <2>2, <2>5, <2>6, <2>7 DEF Legal
<1>11. OffersStep
  <2> SUFFICES ASSUME fsm.direction = "pull", ~fsm.emitted_complete,
                      fsm'.emitted_complete,
                      NEW p \in DOMAIN pages \cap (1 .. fsm.server_max_page)
               PROVE  Offered(p)
    BY DEF OffersStep
  <2>1. p \in PageNo /\ p <= fsm.server_max_page
    BY <1>0, RowData DEF Fsm
  <2>2. p < fsm.cursor \/ p \in fsm.client_seen
    BY <1>0, <2>1 DEF Legal
  <2>3. CASE p < fsm.cursor
    <3>1. fsm.cursor # 0
      BY <2>1, <2>3 DEF PageNo
    <3>2. QED
      BY <2>3, <3>1 DEF IInv, WalkLeavesNoGap
  <2>4. QED
    BY <2>2, <2>3 DEF Offered
<1>12. QED
  BY <1>1, <1>4, <1>6, <1>7, <1>8, <1>9, <1>10, <1>11 DEF IInv, TypeOK

\* What a step from outside apply leaves alone.
LEMMA FsmKept ==
  ASSUME IInv, fsm' = fsm, sent' \in {sent, Append(sent, Error)},
         pages' \in Pages, task' \in {"open"} \cup Ending,
         task = "open",
         task' = "open" => sent' = sent /\ fsm.cursor = 0
  PROVE  IInv' /\ OffersStep
<1>0. /\ sent \in Seq(ServerFrame) /\ fsm \in Fsm
      /\ Ready(fsm) /\ Shape(fsm)
  BY DEF IInv, TypeOK
<1>1. Error \in ServerFrame /\ Error.kind # "SyncComplete"
  BY DEF ServerFrame, Error
<1>2. /\ sent' \in Seq(ServerFrame) /\ DOMAIN sent \subseteq DOMAIN sent'
      /\ \A i \in DOMAIN sent : sent'[i] = sent[i]
      /\ \A i \in DOMAIN sent' \ DOMAIN sent : sent'[i] = Error
  <2>1. CASE sent' = sent
    BY <1>0, <2>1
  <2>2. CASE sent' = Append(sent, Error)
    <3>1. \A i \in 1 .. Len(sent) + 1 : i \in 1 .. Len(sent) \/ i = Len(sent) + 1
      BY <1>0
    <3>2. QED
      BY <1>0, <1>1, <2>2, <3>1, HistoryGrows
  <2>3. QED
    BY <2>1, <2>2
<1>3. Completions' = Completions
  BY <1>1, <1>2 DEF Completions
<1>4. CompleteIsLast'
  <2> SUFFICES ASSUME NEW i \in Completions, NEW j \in i + 1 .. Len(sent')
               PROVE  sent'[j] = Error
    BY <1>3 DEF CompleteIsLast
  <2>1. j \in DOMAIN sent' /\ i \in 1 .. Len(sent) /\ Len(sent) \in Nat
    BY <1>0, <1>2 DEF Completions
  <2>2. CASE j \in DOMAIN sent
    <3>1. j \in i + 1 .. Len(sent)
      BY <1>0, <2>1, <2>2
    <3>2. QED
      BY <1>2, <2>2, <3>1 DEF IInv, CompleteIsLast
  <2>3. QED
    BY <1>2, <2>1, <2>2
<1>5. PendingWasRequested'
  BY <1>2 DEF IInv, PendingWasRequested
<1>6. WalkLeavesNoGap'
  BY DEF WalkLeavesNoGap
<1>7. OffersStep
  BY DEF OffersStep
<1>8. QED
  BY <1>0, <1>2, <1>3, <1>4, <1>5, <1>6, <1>7 DEF IInv, TypeOK

\* Every step keeps the invariant, and is a step of PullOffersEveryPage.
THEOREM NextIInv == IInv /\ [Next]_vars => IInv' /\ [OffersStep]_vars
<1> SUFFICES ASSUME IInv, [Next]_vars
             PROVE  IInv' /\ [OffersStep]_vars
  OBVIOUS
<1>0. /\ sent \in Seq(ServerFrame) /\ fsm \in Fsm /\ pages \in Pages
      /\ Shape(fsm) /\ (task = "open" => Ready(fsm))
  BY DEF IInv, TypeOK
<1>1. ASSUME NEW msg \in ClientFrame, Receive(msg)
      PROVE  IInv' /\ OffersStep
  <2>1. task = "open" /\ Between(fsm)
    BY <1>0, <1>1 DEF Receive, Between
  <2>2. PICK o \in apply(fsm, pages, msg) : Settle(o)
    BY <1>1 DEF Receive
  <2>3. Legal(fsm, pages, o)
    BY <1>0, <2>1, <2>2, ClientFramesWellFormed, ApplyLegal
  <2>4. QED
    BY <2>1, <2>2, <2>3, SettleIInv
<1>2. CASE Resume
  <2>1. PICK o \in resume(fsm, pages) : Settle(o)
    BY <1>2 DEF Resume
  <2>2. Legal(fsm, pages, o)
    BY <1>0, <1>2, <2>1, ResumeLegal DEF Resume
  <2>3. QED
    BY <1>2, <2>1, <2>2, SettleIInv DEF Resume
<1>3. ASSUME NEW code \in {"1002", "1003"}, Reject(code)
      PROVE  IInv' /\ OffersStep
  BY <1>0, <1>3, FsmKept DEF Reject, Ending
<1>4. CASE PeerClose
  <2>1. fsm' = fsm
    BY <1>0, <1>4, ClientClosedNoop DEF PeerClose, Between
  <2>2. QED
    BY <1>0, <1>4, <2>1, FsmKept DEF PeerClose, Ending
<1>5. CASE EventError
  BY <1>0, <1>5, FsmKept DEF EventError, Ending
<1>6. ASSUME NEW p \in PageNo, NEW d \in Content, ForeignPut(p, d)
      PROVE  IInv' /\ OffersStep
  <2>1. pages' \in Pages
    BY <1>0, <1>6, PutPageType DEF ForeignPut
  <2>2. fsm.cursor = 0
    BY <1>6 DEF ForeignPut, Idle
  <2>3. QED
    BY <1>0, <1>6, <2>1, <2>2, FsmKept DEF ForeignPut
<1>7. CASE UNCHANGED vars
  BY <1>7 DEF vars, IInv, TypeOK, Completions, CompleteIsLast,
              PendingWasRequested, WalkLeavesNoGap, Offered
<1>8. QED
  BY <1>1, <1>2, <1>3, <1>4, <1>5, <1>6, <1>7 DEF Next

-----------------------------------------------------------------------------
(* The theorems.                                                           *)

\* The inductive invariant holds in every reachable state of a session.
THEOREM SpecIInv == Spec => []IInv
BY InitIInv, NextIInv, PTL DEF Spec

\* The state of a session stays in its types.
THEOREM TypeCorrect == Spec => []TypeOK
<1>1. IInv => TypeOK
  BY DEF IInv
<1>2. QED
  BY <1>1, SpecIInv, PTL

\* SyncComplete is sent at most once, and at most an Error follows it.
THEOREM AtMostOneSyncComplete == Spec => []CompleteIsLast
<1>1. IInv => CompleteIsLast
  BY DEF IInv
<1>2. QED
  BY <1>1, SpecIInv, PTL

\* After the client's Complete an open session waits for page bytes.
THEOREM NoSilentStall == Spec => []WaitsForPages
<1>1. IInv => WaitsForPages
  BY DEF IInv, WaitsForPages, Ready
<1>2. QED
  BY <1>1, SpecIInv, PTL

\* The pages waited for are pages whose RequestPage was sent.
THEOREM WaitsForWhatItRequested == Spec => []PendingWasRequested
<1>1. IInv => PendingWasRequested
  BY DEF IInv
<1>2. QED
  BY <1>1, SpecIInv, PTL

\* SyncComplete on the wire means the session is settled, for good.
THEOREM CompletionIsFinal == Spec => []CompleteMeansSettled
<1>1. IInv => CompleteMeansSettled
  BY DEF IInv, CompleteMeansSettled, Shape
<1>2. QED
  BY <1>1, SpecIInv, PTL

\* A pull completes only when every row up to its max_page was claimed by
\* the client or sent to it.
THEOREM PullIsComplete == Spec => PullOffersEveryPage
<1>1. IInv /\ [Next]_vars =>
        [ fsm.direction = "pull" /\ ~fsm.emitted_complete
            /\ fsm'.emitted_complete
          => \A p \in DOMAIN pages \cap (1 .. fsm.server_max_page) :
               Offered(p) ]_vars
  BY NextIInv DEF OffersStep
<1>2. QED
  BY <1>1, SpecIInv, PTL DEF Spec, PullOffersEveryPage
=============================================================================
