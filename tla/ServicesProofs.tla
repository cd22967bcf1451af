--------------------------- MODULE ServicesProofs ---------------------------
(***************************************************************************)
(* Proofs about the services beside the approval gate.                     *)
(***************************************************************************)
EXTENDS Services, CountingProofs, Integers, Sequences, FiniteSetTheorems,
        TLAPS
-----------------------------------------------------------------------------
(* Connecting a Facebook page                                                *)

\* Where a request has already picked its page.
MetaPicked == {"checking", "finding", "inserting", "updating", "refused", "completing"}

\* What a request holds, with a session or without one.
MetaAnyJob == [session : Sessions \cup {None}, page : Pages \cup {None},
               overwrite : BOOLEAN, saw : Pages \cup {None}]

\* What the proof needs of the types; what a session's status is plays no part
\* but for "completed".
MetaShapes ==
    /\ metaSession \in [Sessions -> {"absent", "pending", "expired", "failed", "selecting_page",
                                     "awaiting_overwrite_confirmation", "completed"}]
    /\ metaOffered \in [Sessions -> SUBSET Pages]
    /\ metaSelected \in [Sessions -> Pages \cup {None}]
    /\ metaPage \in Pages \cup {None}
    /\ metaPc \in [Slots -> {"idle", "exchanging"} \cup MetaPicked]
    /\ metaJob \in [Slots -> MetaAnyJob]

\* Candidates come from Facebook, and a page is checked against them once, in
\* the request that picks it: later steps use the request's own copy.
MetaOfferedIsKnown ==
    /\ \A s \in Sessions : metaOffered[s] \subseteq metaKnown
    /\ \A t \in Slots : metaPc[t] \in MetaPicked => metaJob[t].page \in metaKnown

\* A request about to complete its session has written its page.
MetaWrittenIsEver == \A t \in Slots : metaPc[t] = "completing" => metaJob[t].page \in metaEver

\* While a session is completed its page was written at some time, unless it
\* has since been opened again for another page.
MetaConnectInv ==
    /\ MetaShapes
    /\ MetaOfferedIsKnown
    /\ MetaWrittenIsEver
    /\ Meta!ConnectedWasOffered
    /\ Meta!CompletedWasConnected

-----------------------------------------------------------------------------
(* Steps that move a request, and steps that do not *)

\* A request leaves: what the others hold is untouched.
LEMMA MetaFinishKeeps ==
    ASSUME MetaShapes, MetaOfferedIsKnown, MetaWrittenIsEver, NEW t \in Slots, Meta!Finish(t),
           metaKnown \subseteq metaKnown', metaEver' = metaEver,
           \A s \in Sessions : metaOffered'[s] \subseteq metaKnown'
    PROVE  /\ metaPc' \in [Slots -> {"idle", "exchanging"} \cup MetaPicked]
           /\ metaJob' \in [Slots -> MetaAnyJob]
           /\ MetaOfferedIsKnown'
           /\ MetaWrittenIsEver'
<1>1. metaPc' = [metaPc EXCEPT ![t] = "idle"] /\ metaJob' = [metaJob EXCEPT ![t] = Meta!Idle]
  BY DEF Meta!Finish
<1>2. /\ metaPc' \in [Slots -> {"idle", "exchanging"} \cup MetaPicked]
      /\ metaJob' \in [Slots -> MetaAnyJob]
  BY <1>1 DEF MetaShapes, Meta!Idle, MetaAnyJob
<1>3. \A u \in Slots : u # t => metaPc'[u] = metaPc[u] /\ metaJob'[u] = metaJob[u]
  BY <1>1 DEF MetaShapes
<1>4. metaPc'[t] = "idle"
  BY <1>1 DEF MetaShapes
<1>5. MetaOfferedIsKnown'
  BY <1>3, <1>4 DEF MetaOfferedIsKnown, MetaPicked
<1>6. MetaWrittenIsEver'
  BY <1>3, <1>4 DEF MetaWrittenIsEver
<1> QED
  BY <1>2, <1>5, <1>6

\* A request moves on with the page it picked, from one place after the
\* picking to another; a page it has written is remembered.
LEMMA MetaMoveKeeps ==
    ASSUME MetaShapes, MetaOfferedIsKnown, MetaWrittenIsEver, NEW t \in Slots,
           metaPc[t] \in MetaPicked, NEW where \in MetaPicked,
           metaPc' = [metaPc EXCEPT ![t] = where],
           metaJob' \in [Slots -> MetaAnyJob],
           \A u \in Slots : metaJob'[u].page = metaJob[u].page,
           metaOffered' = metaOffered, metaKnown' = metaKnown, metaEver \subseteq metaEver',
           where = "completing" => metaJob[t].page \in metaEver'
    PROVE  /\ metaPc' \in [Slots -> {"idle", "exchanging"} \cup MetaPicked]
           /\ MetaOfferedIsKnown'
           /\ MetaWrittenIsEver'
<1>1. metaPc' \in [Slots -> {"idle", "exchanging"} \cup MetaPicked]
  BY DEF MetaShapes
<1>2. metaPc'[t] = where /\ \A u \in Slots : u # t => metaPc'[u] = metaPc[u]
  BY DEF MetaShapes
<1>3. MetaOfferedIsKnown'
  BY <1>2 DEF MetaOfferedIsKnown
<1>4. MetaWrittenIsEver'
  BY <1>2 DEF MetaWrittenIsEver
<1> QED
  BY <1>1, <1>3, <1>4

\* A request of which only the picked page matters is in no one's way.
LEMMA MetaBeginKeeps ==
    ASSUME MetaShapes, MetaOfferedIsKnown, MetaWrittenIsEver, NEW t \in Slots,
           NEW where \in {"exchanging", "checking"}, NEW j \in MetaAnyJob,
           Meta!Begin(t, where, j),
           where = "checking" => j.page \in metaKnown,
           metaOffered' = metaOffered, metaKnown' = metaKnown, metaEver' = metaEver
    PROVE  /\ metaPc' \in [Slots -> {"idle", "exchanging"} \cup MetaPicked]
           /\ metaJob' \in [Slots -> MetaAnyJob]
           /\ MetaOfferedIsKnown'
           /\ MetaWrittenIsEver'
<1>1. metaPc' = [metaPc EXCEPT ![t] = where] /\ metaJob' = [metaJob EXCEPT ![t] = j]
  BY DEF Meta!Begin
<1>2. /\ metaPc' \in [Slots -> {"idle", "exchanging"} \cup MetaPicked]
      /\ metaJob' \in [Slots -> MetaAnyJob]
  BY <1>1 DEF MetaShapes, MetaPicked
<1>3. \A u \in Slots : u # t => metaPc'[u] = metaPc[u] /\ metaJob'[u] = metaJob[u]
  BY <1>1 DEF MetaShapes
<1>4. metaPc'[t] = where /\ metaJob'[t] = j
  BY <1>1 DEF MetaShapes
<1>5. MetaOfferedIsKnown'
  BY <1>3, <1>4 DEF MetaOfferedIsKnown, MetaPicked
<1>6. MetaWrittenIsEver'
  BY <1>3, <1>4 DEF MetaWrittenIsEver
<1> QED
  BY <1>2, <1>5, <1>6

-----------------------------------------------------------------------------
(* The invariant *)

\* Overlapping callbacks, selections, disconnections and restarts keep it.
LEMMA MetaConnectInvHolds == Meta!Spec => []MetaConnectInv
<1>1. Meta!Init => MetaConnectInv
  BY DEF Meta!Init, MetaConnectInv, MetaShapes, Meta!Idle, MetaAnyJob,
     MetaPicked, MetaOfferedIsKnown, MetaWrittenIsEver,
     Meta!ConnectedWasOffered, Meta!CompletedWasConnected
<1>2. ASSUME MetaConnectInv, [Meta!Next]_(Meta!vars)
      PROVE  MetaConnectInv'
  <2>0. MetaShapes /\ MetaOfferedIsKnown /\ MetaWrittenIsEver
    BY <1>2 DEF MetaConnectInv
  <2>1. ASSUME NEW s \in Sessions,
               Meta!StartConnection(s) \/ Meta!QuarterHourPasses(s) \/ Meta!CallbackRefused(s)
        PROVE  MetaConnectInv'
    <3>1. /\ metaOffered' = metaOffered /\ metaSelected' = metaSelected /\ metaPage' = metaPage
          /\ metaPc' = metaPc /\ metaJob' = metaJob /\ metaKnown' = metaKnown
          /\ metaEver' = metaEver
      BY <2>1 DEF Meta!StartConnection, Meta!QuarterHourPasses,
         Meta!CallbackRefused, Meta!rowVars, Meta!procVars, Meta!histVars
    <3>2. \E new \in {"pending", "expired", "failed", metaSession[s]} :
             metaSession' = [metaSession EXCEPT ![s] = new]
      <4>1. CASE Meta!StartConnection(s)
        BY <4>1 DEF Meta!StartConnection
      <4>2. CASE Meta!QuarterHourPasses(s)
        BY <4>2, <2>0 DEF Meta!QuarterHourPasses, MetaShapes
      <4>3. CASE Meta!CallbackRefused(s)
        BY <4>3 DEF Meta!CallbackRefused
      <4> QED
        BY <2>1, <4>1, <4>2, <4>3
    <3>3. MetaShapes'
      BY <2>0, <3>1, <3>2 DEF MetaShapes
    <3>4. MetaOfferedIsKnown' /\ MetaWrittenIsEver'
      BY <2>0, <3>1 DEF MetaOfferedIsKnown, MetaWrittenIsEver
    <3>5. Meta!ConnectedWasOffered'
      BY <1>2, <3>1 DEF MetaConnectInv, Meta!ConnectedWasOffered
    <3>6. Meta!CompletedWasConnected'
      BY <1>2, <2>0, <3>1, <3>2 DEF MetaConnectInv, MetaShapes,
         Meta!CompletedWasConnected
    <3> QED
      BY <3>3, <3>4, <3>5, <3>6 DEF MetaConnectInv
  <2>2. ASSUME NEW t \in Slots, NEW s \in Sessions, Meta!Callback(t, s)
        PROVE  MetaConnectInv'
    <3>1. /\ Meta!Begin(t, "exchanging", [Meta!Idle EXCEPT !.session = s])
          /\ metaSession' = metaSession /\ metaOffered' = metaOffered
          /\ metaSelected' = metaSelected
          /\ metaPage' = metaPage /\ metaKnown' = metaKnown /\ metaEver' = metaEver
      BY <2>2 DEF Meta!Callback, Meta!oauthVars, Meta!rowVars, Meta!histVars
    <3>2. [Meta!Idle EXCEPT !.session = s] \in MetaAnyJob
      BY DEF Meta!Idle, MetaAnyJob
    <3>3. /\ metaPc' \in [Slots -> {"idle", "exchanging"} \cup MetaPicked]
          /\ metaJob' \in [Slots -> MetaAnyJob]
          /\ MetaOfferedIsKnown' /\ MetaWrittenIsEver'
      BY <2>0, <3>1, <3>2, MetaBeginKeeps
    <3> QED
      BY <1>2, <3>1, <3>3 DEF MetaConnectInv, MetaShapes,
         Meta!ConnectedWasOffered, Meta!CompletedWasConnected
  <2>3. ASSUME NEW t \in Slots, NEW s \in Sessions, NEW p \in Pages,
               NEW overwrite \in BOOLEAN, Meta!SelectPage(t, s, p, overwrite)
        PROVE  MetaConnectInv'
    <3> DEFINE j == [session |-> s, page |-> p, overwrite |-> overwrite, saw |-> None]
    <3>1. /\ Meta!Begin(t, "checking", j) /\ p \in metaOffered[s]
          /\ metaSession' = metaSession /\ metaOffered' = metaOffered
          /\ metaSelected' = metaSelected
          /\ metaPage' = metaPage /\ metaKnown' = metaKnown /\ metaEver' = metaEver
      BY <2>3 DEF Meta!SelectPage, Meta!oauthVars, Meta!rowVars, Meta!histVars
    <3>2. j \in MetaAnyJob /\ j.page \in metaKnown
      BY <2>0, <3>1 DEF MetaAnyJob, MetaShapes, MetaOfferedIsKnown
    <3> HIDE DEF j
    <3>3. /\ metaPc' \in [Slots -> {"idle", "exchanging"} \cup MetaPicked]
          /\ metaJob' \in [Slots -> MetaAnyJob]
          /\ MetaOfferedIsKnown' /\ MetaWrittenIsEver'
      BY <2>0, <3>1, <3>2, MetaBeginKeeps
    <3> QED
      BY <1>2, <3>1, <3>3 DEF MetaConnectInv, MetaShapes,
         Meta!ConnectedWasOffered, Meta!CompletedWasConnected
  <2>4. ASSUME NEW t \in Slots, Meta!PagesOffered(t)
        PROVE  MetaConnectInv'
    <3>1. /\ Meta!Finish(t) /\ metaSelected' = metaSelected /\ metaPage' = metaPage
          /\ metaEver' = metaEver
      BY <2>4 DEF Meta!PagesOffered, Meta!rowVars
    <3>2. PICK S \in SUBSET Pages :
             /\ metaSession' = [metaSession EXCEPT ![metaJob[t].session] =
                              IF S = {} THEN "failed" ELSE "selecting_page"]
             /\ metaOffered' = IF S = {} THEN metaOffered
                               ELSE [metaOffered EXCEPT ![metaJob[t].session] = S]
             /\ metaKnown' = metaKnown \cup S
      BY <2>4 DEF Meta!PagesOffered
    <3>3. metaOffered' \in [Sessions -> SUBSET Pages]
      BY <2>0, <3>2 DEF MetaShapes
    <3>4. \A s \in Sessions : metaOffered'[s] \subseteq metaKnown'
      BY <2>0, <3>2 DEF MetaShapes, MetaOfferedIsKnown
    <3>5. /\ metaPc' \in [Slots -> {"idle", "exchanging"} \cup MetaPicked]
          /\ metaJob' \in [Slots -> MetaAnyJob]
          /\ MetaOfferedIsKnown' /\ MetaWrittenIsEver'
      BY <2>0, <3>1, <3>2, <3>4, MetaFinishKeeps
    <3>6. \E new \in {"failed", "selecting_page"} :
             metaSession' = [metaSession EXCEPT ![metaJob[t].session] = new]
      BY <3>2
    <3>7. MetaShapes'
      BY <2>0, <3>1, <3>3, <3>5, <3>6 DEF MetaShapes
    <3>8. Meta!ConnectedWasOffered'
      BY <1>2, <3>1, <3>2 DEF MetaConnectInv, Meta!ConnectedWasOffered
    <3>9. Meta!CompletedWasConnected'
      BY <1>2, <2>0, <3>1, <3>6 DEF MetaConnectInv, MetaShapes,
         Meta!CompletedWasConnected
    <3> QED
      BY <3>5, <3>7, <3>8, <3>9 DEF MetaConnectInv
  <2>5. ASSUME NEW t \in Slots, Meta!ExchangeFails(t) \/ Meta!Answer500(t)
        PROVE  MetaConnectInv'
    <3>1. /\ Meta!Finish(t) /\ metaSession' = metaSession /\ metaOffered' = metaOffered
          /\ metaSelected' = metaSelected
          /\ metaPage' = metaPage /\ metaKnown' = metaKnown /\ metaEver' = metaEver
      BY <2>5 DEF Meta!ExchangeFails, Meta!Answer500, Meta!oauthVars,
         Meta!rowVars, Meta!histVars
    <3>2. /\ metaPc' \in [Slots -> {"idle", "exchanging"} \cup MetaPicked]
          /\ metaJob' \in [Slots -> MetaAnyJob]
          /\ MetaOfferedIsKnown' /\ MetaWrittenIsEver'
      BY <2>0, <3>1, MetaFinishKeeps DEF MetaOfferedIsKnown
    <3> QED
      BY <1>2, <3>1, <3>2 DEF MetaConnectInv, MetaShapes,
         Meta!ConnectedWasOffered, Meta!CompletedWasConnected
  <2>6. ASSUME NEW t \in Slots, Meta!AskToOverwrite(t)
        PROVE  MetaConnectInv'
    <3>1. /\ Meta!Finish(t) /\ metaOffered' = metaOffered /\ metaPage' = metaPage
          /\ metaKnown' = metaKnown /\ metaEver' = metaEver
          /\ metaSession' = [metaSession EXCEPT ![metaJob[t].session] = "awaiting_overwrite_confirmation"]
          /\ metaSelected' = [metaSelected EXCEPT ![metaJob[t].session] = metaJob[t].page]
      BY <2>6 DEF Meta!AskToOverwrite, Meta!rowVars, Meta!histVars
    <3>2. /\ metaPc' \in [Slots -> {"idle", "exchanging"} \cup MetaPicked]
          /\ metaJob' \in [Slots -> MetaAnyJob]
          /\ MetaOfferedIsKnown' /\ MetaWrittenIsEver'
      BY <2>0, <3>1, MetaFinishKeeps DEF MetaOfferedIsKnown
    <3>3. metaJob[t].page \in Pages \cup {None}
      BY <2>0 DEF MetaShapes, MetaAnyJob
    <3>4. MetaShapes'
      BY <2>0, <3>1, <3>2, <3>3 DEF MetaShapes
    <3>5. Meta!CompletedWasConnected'
      BY <1>2, <2>0, <3>1 DEF MetaConnectInv, MetaShapes,
         Meta!CompletedWasConnected
    <3> QED
      BY <1>2, <3>1, <3>2, <3>4, <3>5 DEF MetaConnectInv,
         Meta!ConnectedWasOffered
  <2>7. ASSUME NEW t \in Slots, Meta!MayConnect(t) \/ Meta!FindRow(t) \/ Meta!InsertRefused(t)
        PROVE  MetaConnectInv'
    <3>1. /\ metaSession' = metaSession /\ metaOffered' = metaOffered
          /\ metaSelected' = metaSelected
          /\ metaPage' = metaPage /\ metaKnown' = metaKnown /\ metaEver' = metaEver
          /\ metaPc[t] \in MetaPicked
      BY <2>7 DEF Meta!MayConnect, Meta!FindRow, Meta!InsertRefused,
         Meta!oauthVars, Meta!rowVars, Meta!histVars, MetaPicked
    <3>2. PICK where \in {"finding", "inserting", "updating", "refused"} :
             metaPc' = [metaPc EXCEPT ![t] = where]
      BY <2>7 DEF Meta!MayConnect, Meta!FindRow, Meta!InsertRefused, Meta!GoTo
    <3>3. /\ metaJob' \in [Slots -> MetaAnyJob]
          /\ \A u \in Slots : metaJob'[u].page = metaJob[u].page
      <4>1. CASE Meta!MayConnect(t)
        <5>1. metaJob' = [metaJob EXCEPT ![t].saw = Meta!Connected]
          BY <4>1 DEF Meta!MayConnect
        <5>2. Meta!Connected \in Pages \cup {None}
          BY <2>0 DEF MetaShapes, Meta!Connected
        <5> QED
          BY <2>0, <5>1, <5>2 DEF MetaShapes, MetaAnyJob
      <4>2. CASE Meta!FindRow(t) \/ Meta!InsertRefused(t)
        BY <2>0, <4>2 DEF Meta!FindRow, Meta!InsertRefused, Meta!GoTo,
           MetaShapes
      <4> QED
        BY <2>7, <4>1, <4>2
    <3>4. /\ metaPc' \in [Slots -> {"idle", "exchanging"} \cup MetaPicked]
          /\ MetaOfferedIsKnown' /\ MetaWrittenIsEver'
      BY <2>0, <3>1, <3>2, <3>3, MetaMoveKeeps DEF MetaPicked
    <3> QED
      BY <1>2, <3>1, <3>3, <3>4 DEF MetaConnectInv, MetaShapes,
         Meta!ConnectedWasOffered, Meta!CompletedWasConnected
  <2>8. ASSUME NEW t \in Slots, Meta!InsertRow(t) \/ Meta!UpdateRow(t)
        PROVE  MetaConnectInv'
    <3>1. /\ metaSession' = metaSession /\ metaOffered' = metaOffered
          /\ metaSelected' = metaSelected /\ metaKnown' = metaKnown
          /\ metaPage' = metaJob[t].page /\ metaEver' = metaEver \cup {metaJob[t].page}
          /\ metaPc' = [metaPc EXCEPT ![t] = "completing"] /\ metaJob' = metaJob
          /\ metaPc[t] \in MetaPicked
      BY <2>8 DEF Meta!InsertRow, Meta!UpdateRow, Meta!GoTo, Meta!oauthVars,
         MetaPicked
    <3>2. /\ metaPc' \in [Slots -> {"idle", "exchanging"} \cup MetaPicked]
          /\ MetaOfferedIsKnown' /\ MetaWrittenIsEver'
      BY <2>0, <3>1, MetaMoveKeeps DEF MetaPicked, MetaShapes
    <3>3. Meta!ConnectedWasOffered'
      BY <2>0, <3>1 DEF MetaOfferedIsKnown, Meta!ConnectedWasOffered
    <3>4. metaJob[t].page \in Pages \cup {None}
      BY <2>0 DEF MetaShapes, MetaAnyJob
    <3> QED
      BY <1>2, <2>0, <3>1, <3>2, <3>3, <3>4 DEF MetaConnectInv, MetaShapes,
         Meta!CompletedWasConnected
  <2>9. ASSUME NEW t \in Slots, Meta!CompleteSession(t)
        PROVE  MetaConnectInv'
    <3>1. /\ Meta!Finish(t) /\ metaOffered' = metaOffered /\ metaPage' = metaPage
          /\ metaKnown' = metaKnown /\ metaEver' = metaEver
          /\ metaSession' = [metaSession EXCEPT ![metaJob[t].session] = "completed"]
          /\ metaSelected' = [metaSelected EXCEPT ![metaJob[t].session] = metaJob[t].page]
      BY <2>9 DEF Meta!CompleteSession, Meta!rowVars, Meta!histVars
    <3>2. /\ metaPc' \in [Slots -> {"idle", "exchanging"} \cup MetaPicked]
          /\ metaJob' \in [Slots -> MetaAnyJob]
          /\ MetaOfferedIsKnown' /\ MetaWrittenIsEver'
      BY <2>0, <3>1, MetaFinishKeeps DEF MetaOfferedIsKnown
    <3>3. metaJob[t].page \in Pages \cup {None} /\ metaJob[t].page \in metaEver
      BY <2>0, <2>9 DEF MetaShapes, MetaAnyJob, Meta!CompleteSession,
         MetaWrittenIsEver
    <3>4. MetaShapes'
      BY <2>0, <3>1, <3>2, <3>3 DEF MetaShapes
    <3>5. Meta!CompletedWasConnected'
      BY <1>2, <2>0, <3>1, <3>3 DEF MetaConnectInv, MetaShapes,
         Meta!CompletedWasConnected
    <3> QED
      BY <1>2, <3>1, <3>2, <3>4, <3>5 DEF MetaConnectInv,
         Meta!ConnectedWasOffered
  <2>10. CASE Meta!Disconnect \/ UNCHANGED Meta!vars
    <3>1. /\ metaSession' = metaSession /\ metaOffered' = metaOffered
          /\ metaSelected' = metaSelected
          /\ metaPage' = metaPage /\ metaPc' = metaPc /\ metaJob' = metaJob
          /\ metaKnown' = metaKnown /\ metaEver' = metaEver
      BY <2>10 DEF Meta!Disconnect, Meta!vars, Meta!oauthVars, Meta!rowVars,
         Meta!procVars, Meta!histVars
    <3> QED
      BY <1>2, <3>1 DEF MetaConnectInv, MetaShapes, MetaOfferedIsKnown,
         MetaWrittenIsEver, Meta!ConnectedWasOffered,
         Meta!CompletedWasConnected
  <2>11. CASE Meta!Crash
    <3>1. /\ metaSession' = metaSession /\ metaOffered' = metaOffered
          /\ metaSelected' = metaSelected
          /\ metaPage' = metaPage /\ metaKnown' = metaKnown /\ metaEver' = metaEver
          /\ metaPc' = [t \in Slots |-> "idle"] /\ metaJob' = [t \in Slots |-> Meta!Idle]
      BY <2>11 DEF Meta!Crash, Meta!oauthVars, Meta!rowVars, Meta!histVars
    <3> QED
      BY <1>2, <3>1 DEF MetaConnectInv, MetaShapes, Meta!Idle, MetaAnyJob,
         MetaPicked, MetaOfferedIsKnown, MetaWrittenIsEver,
         Meta!ConnectedWasOffered, Meta!CompletedWasConnected
  <2> QED
    BY <1>2, <2>1, <2>2, <2>3, <2>4, <2>5, <2>6, <2>7, <2>8, <2>9, <2>10,
       <2>11
    DEF Meta!Next, Meta!SelectSteps
<1> QED
  BY <1>1, <1>2, PTL DEF Meta!Spec

\* Only pages Facebook offered to this tenant are connected, however often a
\* session's link is opened again and whatever else runs meanwhile.
THEOREM MetaOnlyOffered == Meta!Spec => []Meta!ConnectedWasOffered
<1>1. MetaConnectInv => Meta!ConnectedWasOffered
  BY DEF MetaConnectInv
<1> QED
  BY <1>1, MetaConnectInvHolds, PTL

\* A session says completed only once its page was written, although the row
\* and the session are written in two transactions and a restart may fall
\* between them.
THEOREM MetaCompletedMeansWritten == Meta!Spec => []Meta!CompletedWasConnected
<1>1. MetaConnectInv => Meta!CompletedWasConnected
  BY DEF MetaConnectInv
<1> QED
  BY <1>1, MetaConnectInvHolds, PTL

\* A request that reads or writes the page has one, and an active connection
\* too.
MetaChecked ==
    /\ metaActive => metaPage \in Pages
    /\ \A t \in Slots :
         /\ metaPc[t] \in MetaPicked => metaJob[t] \in Meta!Jobs /\ metaJob[t].page \in Pages
         /\ metaPc[t] = "exchanging" => metaJob[t].session \in Sessions
         /\ metaPc[t] \in {"finding", "inserting", "updating"} =>
                  metaJob[t].overwrite \/ metaJob[t].saw = None
                      \/ metaJob[t].saw = metaJob[t].page

\* What a request holds, and what the table has.
MetaAskInv == Meta!TypeOK /\ MetaChecked

\* It holds over requests that interleave at every transaction.
LEMMA MetaAskInvHolds == Meta!Spec => []MetaAskInv
<1>1. Meta!Init => MetaAskInv
  <2>1. Meta!Init => MetaChecked
    BY DEF Meta!Init, MetaChecked, MetaPicked
  <2>2. Meta!Init => /\ metaActive \in BOOLEAN /\ metaOver \in SUBSET Sessions
                     /\ metaKnown \in SUBSET Pages /\ metaEver \in SUBSET Pages
    BY DEF Meta!Init
  <2>3. Meta!Init => /\ metaPc \in [Slots -> {"idle", "exchanging", "checking", "finding",
                                              "inserting",
                                             "updating", "refused", "completing"}]
                     /\ metaJob \in [Slots -> Meta!Jobs \cup {Meta!Idle}]
                     /\ metaRequests \in Nat /\ metaCrashes \in Nat
    BY DEF Meta!Init
  <2>4. Meta!Init => /\ metaOffered \in [Sessions -> SUBSET Pages]
                     /\ metaSelected \in [Sessions -> Pages \cup {None}]
                     /\ metaPage \in Pages \cup {None}
                     /\ metaSession \in [Sessions -> {"absent", "pending", "expired", "failed",
                                         "selecting_page", "awaiting_overwrite_confirmation",
                                         "completed"}]
    BY DEF Meta!Init
  <2> QED
    BY <2>1, <2>2, <2>3, <2>4 DEF MetaAskInv, Meta!TypeOK
<1>2. ASSUME MetaAskInv, [Meta!Next]_(Meta!vars)
      PROVE  MetaAskInv'
  <2> USE DEF MetaAskInv, Meta!TypeOK, MetaChecked, MetaPicked, Meta!Idle, Meta!Jobs,
              Meta!oauthVars, Meta!rowVars, Meta!procVars, Meta!histVars
  <2>1. ASSUME NEW s \in Sessions, Meta!StartConnection(s)
        PROVE  MetaAskInv'
    BY <1>2, <2>1 DEF Meta!StartConnection
  <2>2. ASSUME NEW s \in Sessions, Meta!QuarterHourPasses(s)
        PROVE  MetaAskInv'
    BY <1>2, <2>2 DEF Meta!QuarterHourPasses
  <2>3. ASSUME NEW s \in Sessions, Meta!CallbackRefused(s)
        PROVE  MetaAskInv'
    BY <1>2, <2>3 DEF Meta!CallbackRefused, Meta!Request
  <2>4. ASSUME NEW t \in Slots, NEW s \in Sessions, Meta!Callback(t, s)
        PROVE  MetaAskInv'
    <3> DEFINE j == [Meta!Idle EXCEPT !.session = s]
    <3>2. j \in Meta!Jobs /\ j.session \in Sessions
      OBVIOUS
    <3>3. metaJob' = [metaJob EXCEPT ![t] = j] /\ metaPc' = [metaPc EXCEPT ![t] = "exchanging"]
      BY <2>4 DEF Meta!Callback, Meta!Begin
    <3> HIDE DEF j, Meta!Jobs, Meta!Idle
    <3>4. metaJob' \in [Slots -> Meta!Jobs \cup {Meta!Idle}]
      BY <1>2, <3>2, <3>3
    <3>5. metaRequests' \in Nat /\ metaCrashes' \in Nat
      BY <1>2, <2>4 DEF Meta!Callback, Meta!Request
    <3>6. UNCHANGED <<Meta!oauthVars, Meta!rowVars, Meta!histVars>>
      BY <2>4 DEF Meta!Callback
    <3>7. MetaChecked'
      BY <1>2, <3>2, <3>3, <3>6
    <3> QED
      BY <1>2, <3>3, <3>4, <3>5, <3>6, <3>7
  <2>5. ASSUME NEW t \in Slots, NEW s \in Sessions, NEW p \in Pages, NEW overwrite \in BOOLEAN,
               Meta!SelectPage(t, s, p, overwrite)
        PROVE  MetaAskInv'
    BY <1>2, <2>5 DEF Meta!SelectPage, Meta!Request, Meta!Begin
  <2>6. ASSUME NEW t \in Slots, Meta!PagesOffered(t)
        PROVE  MetaAskInv'
    BY <1>2, <2>6 DEF Meta!PagesOffered, Meta!Finish, Meta!NoCount
  <2>7. ASSUME NEW t \in Slots, Meta!ExchangeFails(t)
        PROVE  MetaAskInv'
    BY <1>2, <2>7 DEF Meta!ExchangeFails, Meta!Finish, Meta!NoCount
  <2>8. ASSUME NEW t \in Slots, Meta!AskToOverwrite(t)
        PROVE  MetaAskInv'
    BY <1>2, <2>8 DEF Meta!AskToOverwrite, Meta!Finish, Meta!NoCount
  <2>9. ASSUME NEW t \in Slots, Meta!MayConnect(t)
        PROVE  MetaAskInv'
    BY <1>2, <2>9 DEF Meta!MayConnect, Meta!RequiresOverwrite, Meta!Connected,
       Meta!NoCount
  <2>10. ASSUME NEW t \in Slots, Meta!FindRow(t)
        PROVE  MetaAskInv'
    BY <1>2, <2>10 DEF Meta!FindRow, Meta!GoTo, Meta!NoCount
  <2>11. ASSUME NEW t \in Slots, Meta!InsertRow(t)
        PROVE  MetaAskInv'
    BY <1>2, <2>11 DEF Meta!InsertRow, Meta!GoTo, Meta!NoCount
  <2>12. ASSUME NEW t \in Slots, Meta!InsertRefused(t)
        PROVE  MetaAskInv'
    BY <1>2, <2>12 DEF Meta!InsertRefused, Meta!GoTo, Meta!NoCount
  <2>13. ASSUME NEW t \in Slots, Meta!Answer500(t)
        PROVE  MetaAskInv'
    BY <1>2, <2>13 DEF Meta!Answer500, Meta!Finish, Meta!NoCount
  <2>14. ASSUME NEW t \in Slots, Meta!UpdateRow(t)
        PROVE  MetaAskInv'
    BY <1>2, <2>14 DEF Meta!UpdateRow, Meta!GoTo, Meta!NoCount
  <2>15. ASSUME NEW t \in Slots, Meta!CompleteSession(t)
        PROVE  MetaAskInv'
    BY <1>2, <2>15 DEF Meta!CompleteSession, Meta!Finish, Meta!NoCount
  <2>16. CASE Meta!Disconnect
    <3>1. metaActive' = FALSE
      BY <2>16 DEF Meta!Disconnect
    <3>2. metaActive' \in BOOLEAN
      BY <3>1
    <3> HIDE DEF Meta!Jobs
    <3> QED
      BY <1>2, <2>16, <3>1, <3>2 DEF Meta!Disconnect, Meta!Request
  <2>17. CASE Meta!Crash
    BY <1>2, <2>17 DEF Meta!Crash
  <2>18. CASE UNCHANGED Meta!vars
    BY <1>2, <2>18 DEF Meta!vars
  <2> QED
    BY <1>2, <2>1, <2>2, <2>3, <2>4, <2>5, <2>6, <2>7, <2>8, <2>9, <2>10,
       <2>11,
       <2>12, <2>13, <2>14, <2>15, <2>16, <2>17, <2>18 DEF Meta!Next, Meta!SelectSteps
<1> QED
  BY <1>1, <1>2, PTL DEF Meta!Spec

\* A page that is connected is replaced only by a request whose owner agreed.
THEOREM MetaOwnerWasAsked ==
    ASSUME None \notin Pages
    PROVE  Meta!Spec => Meta!NoSilentOverwrite
<1>1. ASSUME MetaAskInv, [Meta!Next]_(Meta!vars)
      PROVE  [\A t \in Slots :
                metaActive /\ metaPc[t] = "updating" /\ metaPc'[t] = "completing" =>
                  metaJob[t].overwrite \/ metaJob[t].saw # Meta!Connected
                      \/ metaPage' = metaPage]_(Meta!vars)
  <2> SUFFICES ASSUME NEW t \in Slots, metaActive, metaPc[t] = "updating",
                      metaPc'[t] = "completing",
                      ~metaJob[t].overwrite, metaJob[t].saw = Meta!Connected
               PROVE  metaPage' = metaPage
    OBVIOUS
  <2>1. metaJob[t].page = metaPage
    BY <1>1 DEF MetaAskInv, MetaChecked, Meta!Connected
  <2>2. metaPage' = metaJob[t].page
    BY <1>1
    DEF MetaAskInv, Meta!TypeOK, Meta!Next, Meta!SelectSteps, Meta!StartConnection,
        Meta!QuarterHourPasses, Meta!CallbackRefused, Meta!Callback, Meta!SelectPage,
        Meta!Begin, Meta!PagesOffered, Meta!ExchangeFails, Meta!Finish,
        Meta!AskToOverwrite, Meta!MayConnect, Meta!FindRow, Meta!GoTo, Meta!InsertRow,
        Meta!InsertRefused, Meta!Answer500, Meta!UpdateRow, Meta!CompleteSession,
        Meta!Disconnect, Meta!Crash, Meta!procVars, Meta!vars
  <2> QED
    BY <2>1, <2>2
<1> QED
  BY <1>1, MetaAskInvHolds, PTL DEF Meta!Spec, Meta!NoSilentOverwrite
-----------------------------------------------------------------------------
(* Tokens of Google                                                          *)

GoogleDocuments == Google!Credentials \cup {Google!NothingStored}

\* The types, without the counters, and a running request holds a document.
GoogleShapes ==
    /\ googleStored \in GoogleDocuments
    /\ googlePc \in [Slots -> {"idle", "refreshing", "serving"}]
    /\ googleHeld \in [Slots -> GoogleDocuments]
    /\ googleServed \in [Slots -> GoogleDocuments]
    /\ googleOvertaken \in BOOLEAN
    /\ \A t \in Slots : googlePc[t] # "idle" => googleHeld[t] \in Google!Credentials

\* A document's token was issued for its account, wherever the document is:
\* a refresh writes back what it read, so the documents being held count too.
GoogleMatched(c) == c # Google!NothingStored => c.grant = c.account

GoogleAllMatched ==
    /\ GoogleMatched(googleStored)
    /\ \A t \in Slots : GoogleMatched(googleHeld[t]) /\ GoogleMatched(googleServed[t])

\* What a refresh will write back is of the account put in last, as long as
\* no PUT fell between its read and its write.
GoogleLastPutHeld ==
    ~googleOvertaken =>
        /\ googleStored # Google!NothingStored => googleStored.account = googleWanted
        /\ \A t \in Slots : googlePc[t] = "refreshing" => googleHeld[t].account = googleWanted

GoogleConnectorInv == GoogleShapes /\ GoogleAllMatched /\ GoogleLastPutHeld

-----------------------------------------------------------------------------
(* The steps of one request, whatever PUTs and refreshes surround it *)

\* The owner's PUT (api_router's connector endpoint) replaces the document.
LEMMA GooglePutKeeps ==
    ASSUME None \notin Accounts, GoogleConnectorInv,
           NEW a \in Accounts, Google!UpsertConnector(a)
    PROVE  GoogleConnectorInv'
<1> DEFINE new == [account |-> a, grant |-> a, fresh |-> TRUE, status |-> "healthy"]
<1>1. /\ googleStored' = new /\ googleWanted' = a
      /\ googleOvertaken' = (googleOvertaken \/ \E t \in Slots : googlePc[t] = "refreshing")
      /\ googlePc' = googlePc /\ googleHeld' = googleHeld /\ googleServed' = googleServed
  BY DEF Google!UpsertConnector, Google!procVars
<1>2. new \in Google!Credentials
  BY DEF Google!Credentials
<1>3. GoogleShapes'
  BY <1>1, <1>2, Zenon DEF GoogleConnectorInv, GoogleShapes, GoogleDocuments
<1>4. GoogleAllMatched'
  BY <1>1 DEF GoogleConnectorInv, GoogleAllMatched, GoogleMatched,
     Google!NothingStored
<1>5. GoogleLastPutHeld'
  BY <1>1 DEF GoogleConnectorInv, GoogleLastPutHeld, Google!NothingStored
<1> QED
  BY <1>3, <1>4, <1>5 DEF GoogleConnectorInv

\* A request that reads the document (_resolve_client_context) holds what is
\* stored.
LEMMA GoogleResolveKeeps ==
    ASSUME None \notin Accounts, GoogleConnectorInv,
           NEW t \in Slots, Google!ResolveClient(t)
    PROVE  GoogleConnectorInv'
<1>1. /\ googlePc' = [googlePc EXCEPT ![t] = IF googleStored.fresh THEN "serving" ELSE "refreshing"]
      /\ googleHeld' = [googleHeld EXCEPT ![t] = googleStored]
      /\ googleServed' = [googleServed EXCEPT ![t] = Google!NothingStored]
      /\ googleStored' = googleStored /\ googleWanted' = googleWanted
      /\ googleOvertaken' = googleOvertaken
      /\ googleStored # Google!NothingStored
  BY DEF Google!ResolveClient
<1>2. googleStored \in Google!Credentials
  BY <1>1 DEF GoogleConnectorInv, GoogleShapes, GoogleDocuments
<1>3. GoogleShapes'
  BY <1>1, <1>2 DEF GoogleConnectorInv, GoogleShapes, GoogleDocuments
<1>4. GoogleAllMatched'
  BY <1>1 DEF GoogleConnectorInv, GoogleShapes, GoogleAllMatched,
     GoogleMatched
<1>5. GoogleLastPutHeld'
  BY <1>1 DEF GoogleConnectorInv, GoogleShapes, GoogleLastPutHeld
<1> QED
  BY <1>3, <1>4, <1>5 DEF GoogleConnectorInv

\* A document written back by a refresh, with a new token or with the mark of
\* a refusal, is of the account and the grant that were read.
LEMMA GoogleWrittenBack ==
    ASSUME None \notin Accounts, GoogleConnectorInv, NEW t \in Slots,
           googlePc[t] = "refreshing",
           NEW c \in Google!Credentials,
           c.account = googleHeld[t].account, c.grant = googleHeld[t].grant,
           googleStored' = c, googleWanted' = googleWanted, googleOvertaken' = googleOvertaken
    PROVE  /\ googleStored' \in GoogleDocuments
           /\ GoogleMatched(c)
           /\ ~googleOvertaken => c.account = googleWanted
<1>1. googleHeld[t] \in Google!Credentials
  BY DEF GoogleConnectorInv, GoogleShapes
<1>2. googleHeld[t] # Google!NothingStored
  BY <1>1 DEF Google!Credentials, Google!NothingStored
<1>3. GoogleMatched(c)
  BY <1>2 DEF GoogleConnectorInv, GoogleAllMatched, GoogleMatched
<1> QED
  BY <1>3 DEF GoogleDocuments, GoogleConnectorInv, GoogleLastPutHeld

\* Google issued a token.
LEMMA GoogleRefreshKeeps ==
    ASSUME None \notin Accounts, GoogleConnectorInv,
           NEW t \in Slots, Google!Refreshed(t)
    PROVE  GoogleConnectorInv'
<1> DEFINE new == [googleHeld[t] EXCEPT !.fresh = TRUE, !.status = "healthy"]
<1>1. /\ googlePc[t] = "refreshing"
      /\ googleStored' = new
      /\ googlePc' = [googlePc EXCEPT ![t] = "serving"]
      /\ googleHeld' = [googleHeld EXCEPT ![t] = new]
      /\ googleServed' = googleServed /\ googleWanted' = googleWanted
      /\ googleOvertaken' = googleOvertaken
  BY DEF Google!Refreshed
<1>2. googleHeld[t] \in Google!Credentials
  BY <1>1 DEF GoogleConnectorInv, GoogleShapes
<1>3. new \in Google!Credentials /\ new.account = googleHeld[t].account
    /\ new.grant = googleHeld[t].grant
  BY <1>2 DEF Google!Credentials
<1> HIDE DEF new
<1>4. /\ new \in GoogleDocuments
      /\ GoogleMatched(new)
      /\ ~googleOvertaken => new.account = googleWanted
  BY <1>1, <1>3, GoogleWrittenBack
<1>5. GoogleShapes'
  BY <1>1, <1>3, <1>4 DEF GoogleConnectorInv, GoogleShapes
<1>6. GoogleAllMatched'
  BY <1>1, <1>4 DEF GoogleConnectorInv, GoogleShapes, GoogleAllMatched
<1>7. GoogleLastPutHeld'
  BY <1>1, <1>4 DEF GoogleConnectorInv, GoogleShapes, GoogleLastPutHeld
<1> QED
  BY <1>5, <1>6, <1>7 DEF GoogleConnectorInv

\* A request that ends, after a refusal of Google or without one, leaves every
\* other request what it holds.
LEMMA GoogleFinishKeeps ==
    ASSUME None \notin Accounts, GoogleConnectorInv, NEW t \in Slots, Google!Finish(t),
           googleStored' \in GoogleDocuments, GoogleMatched(googleStored'),
           ~googleOvertaken => (googleStored' # Google!NothingStored
                                 => googleStored'.account = googleWanted),
           googleWanted' = googleWanted, googleOvertaken' = googleOvertaken,
           googleServed' \in [Slots -> GoogleDocuments],
           \A u \in Slots : GoogleMatched(googleServed'[u])
    PROVE  GoogleConnectorInv'
<1>1. googlePc' = [googlePc EXCEPT ![t] = "idle"]
    /\ googleHeld' = [googleHeld EXCEPT ![t] = Google!NothingStored]
  BY DEF Google!Finish
<1>2. GoogleShapes'
  BY <1>1 DEF GoogleConnectorInv, GoogleShapes, GoogleDocuments
<1>3. GoogleAllMatched'
  BY <1>1 DEF GoogleConnectorInv, GoogleShapes, GoogleAllMatched,
     GoogleMatched
<1>4. GoogleLastPutHeld'
  BY <1>1 DEF GoogleConnectorInv, GoogleShapes, GoogleLastPutHeld
<1> QED
  BY <1>2, <1>3, <1>4 DEF GoogleConnectorInv

-----------------------------------------------------------------------------
(* The invariant *)

\* Any number of requests, refreshes and PUTs keep the three parts.
LEMMA GoogleConnectorInvHolds ==
    ASSUME None \notin Accounts
    PROVE  Google!Spec => []GoogleConnectorInv
<1>1. Google!Init => GoogleConnectorInv
  BY DEF Google!Init, GoogleConnectorInv, GoogleShapes, GoogleDocuments,
     GoogleAllMatched, GoogleMatched, GoogleLastPutHeld
<1>2. ASSUME GoogleConnectorInv, [Google!Next]_(Google!vars)
      PROVE  GoogleConnectorInv'
  <2>1. ASSUME NEW a \in Accounts, Google!UpsertConnector(a)
        PROVE  GoogleConnectorInv'
    BY <1>2, <2>1, GooglePutKeeps
  <2>2. CASE Google!HourPasses
    <3>1. /\ googleStored # Google!NothingStored
          /\ googleStored' = [googleStored EXCEPT !.fresh = FALSE]
          /\ googlePc' = googlePc /\ googleHeld' = googleHeld /\ googleServed' = googleServed
          /\ googleWanted' = googleWanted /\ googleOvertaken' = googleOvertaken
      BY <2>2 DEF Google!HourPasses, Google!procVars
    <3>2. googleStored \in Google!Credentials
      BY <1>2, <3>1 DEF GoogleConnectorInv, GoogleShapes, GoogleDocuments
    <3>3. googleStored' \in Google!Credentials /\ googleStored'.account = googleStored.account
                                               /\ googleStored'.grant = googleStored.grant
      BY <3>1, <3>2 DEF Google!Credentials
    <3>4. GoogleShapes'
      BY <1>2, <3>1, <3>3, Zenon DEF GoogleConnectorInv, GoogleShapes,
         GoogleDocuments
    <3>5. GoogleAllMatched'
      BY <1>2, <3>1, <3>3 DEF GoogleConnectorInv, GoogleAllMatched,
         GoogleMatched
    <3>6. GoogleLastPutHeld'
      BY <1>2, <3>1, <3>3 DEF GoogleConnectorInv, GoogleLastPutHeld
    <3> QED
      BY <3>4, <3>5, <3>6 DEF GoogleConnectorInv
  <2>3. ASSUME NEW t \in Slots, Google!ResolveClient(t)
        PROVE  GoogleConnectorInv'
    BY <1>2, <2>3, GoogleResolveKeeps
  <2>4. ASSUME NEW t \in Slots, Google!Refreshed(t)
        PROVE  GoogleConnectorInv'
    BY <1>2, <2>4, GoogleRefreshKeeps
  <2>5. ASSUME NEW t \in Slots, Google!RefreshRefused(t)
        PROVE  GoogleConnectorInv'
    <3> DEFINE marked == [googleHeld[t] EXCEPT !.status = "failed"]
    <3>1. /\ googlePc[t] = "refreshing" /\ googleStored' = marked /\ Google!Finish(t)
          /\ googleServed' = googleServed /\ googleWanted' = googleWanted
          /\ googleOvertaken' = googleOvertaken
      BY <2>5 DEF Google!RefreshRefused
    <3>2. googleHeld[t] \in Google!Credentials
      BY <1>2, <3>1 DEF GoogleConnectorInv, GoogleShapes
    <3>3. marked \in Google!Credentials /\ marked.account = googleHeld[t].account
                                        /\ marked.grant = googleHeld[t].grant
      BY <3>2 DEF Google!Credentials
    <3> HIDE DEF marked
    <3>4. /\ marked \in GoogleDocuments
          /\ GoogleMatched(marked)
          /\ ~googleOvertaken => marked.account = googleWanted
      BY <1>2, <3>1, <3>3, GoogleWrittenBack
    <3>5. googleServed' \in [Slots -> GoogleDocuments]
        /\ \A u \in Slots : GoogleMatched(googleServed'[u])
      BY <1>2, <3>1 DEF GoogleConnectorInv, GoogleShapes, GoogleAllMatched
    <3> QED
      BY <1>2, <3>1, <3>4, <3>5, GoogleFinishKeeps
  <2>6. ASSUME NEW t \in Slots, Google!RefreshRaises(t)
        PROVE  GoogleConnectorInv'
    <3>1. /\ Google!Finish(t) /\ googleStored' = googleStored /\ googleServed' = googleServed
          /\ googleWanted' = googleWanted /\ googleOvertaken' = googleOvertaken
      BY <2>6 DEF Google!RefreshRaises
    <3>2. /\ googleStored' \in GoogleDocuments /\ GoogleMatched(googleStored')
          /\ ~googleOvertaken
              => (googleStored' # Google!NothingStored => googleStored'.account = googleWanted)
      BY <1>2, <3>1 DEF GoogleConnectorInv, GoogleShapes, GoogleAllMatched,
         GoogleLastPutHeld
    <3>3. googleServed' \in [Slots -> GoogleDocuments]
        /\ \A u \in Slots : GoogleMatched(googleServed'[u])
      BY <1>2, <3>1 DEF GoogleConnectorInv, GoogleShapes, GoogleAllMatched
    <3> QED
      BY <1>2, <3>1, <3>2, <3>3, GoogleFinishKeeps
  <2>7. ASSUME NEW t \in Slots, Google!CallGoogle(t)
        PROVE  GoogleConnectorInv'
    <3>1. /\ Google!Finish(t) /\ googleStored' = googleStored /\ googleWanted' = googleWanted
          /\ googleOvertaken' = googleOvertaken
          /\ googleServed' = [googleServed EXCEPT ![t] = googleHeld[t]]
      BY <2>7 DEF Google!CallGoogle
    <3>2. /\ googleStored' \in GoogleDocuments /\ GoogleMatched(googleStored')
          /\ ~googleOvertaken
              => (googleStored' # Google!NothingStored => googleStored'.account = googleWanted)
      BY <1>2, <3>1 DEF GoogleConnectorInv, GoogleShapes, GoogleAllMatched,
         GoogleLastPutHeld
    <3>3. googleServed' \in [Slots -> GoogleDocuments]
        /\ \A u \in Slots : GoogleMatched(googleServed'[u])
      BY <1>2, <3>1 DEF GoogleConnectorInv, GoogleShapes, GoogleAllMatched
    <3> QED
      BY <1>2, <3>1, <3>2, <3>3, GoogleFinishKeeps
  <2>8. CASE UNCHANGED Google!vars
    BY <1>2, <2>8 DEF Google!vars, Google!procVars, GoogleConnectorInv,
       GoogleShapes, GoogleAllMatched, GoogleMatched, GoogleLastPutHeld
  <2> QED
    BY <1>2, <2>1, <2>2, <2>3, <2>4, <2>5, <2>6, <2>7, <2>8 DEF Google!Next
<1> QED
  BY <1>1, <1>2, PTL DEF Google!Spec

\* Google is never called for one account with the token of another: clients
\* are built from documents that were matched when they were read.
THEOREM GoogleTokensMatch ==
    ASSUME None \notin Accounts
    PROVE  Google!Spec => []Google!TokenMatchesAccount
<1>1. GoogleConnectorInv => Google!TokenMatchesAccount
  BY DEF GoogleConnectorInv, GoogleAllMatched, GoogleMatched,
     Google!TokenMatchesAccount
<1> QED
  BY <1>1, GoogleConnectorInvHolds, PTL

\* The account the owner put in last is the one stored, unless the PUT fell
\* into a refresh, whatever the number of requests under way.
THEOREM GoogleLastPutKept ==
    ASSUME None \notin Accounts
    PROVE  Google!Spec => []Google!LastPutStands
<1>1. GoogleConnectorInv => Google!LastPutStands
  BY DEF GoogleConnectorInv, GoogleLastPutHeld, Google!LastPutStands
<1> QED
  BY <1>1, GoogleConnectorInvHolds, PTL

\* What the other invariant leaves out: the last PUT and the counters.
GoogleCounted ==
    /\ googleWanted \in Accounts \cup {None}
    /\ googlePuts \in 0..MaxPuts /\ googleExpiries \in 0..MaxExpiries
    /\ googleMishaps \in 0..MaxMishaps

\* Every variable of the connector stays in its set.
THEOREM GoogleTypeCorrect ==
    ASSUME None \notin Accounts,
           MaxPuts \in Nat, MaxExpiries \in Nat, MaxMishaps \in Nat
    PROVE  Google!Spec => []Google!TypeOK
<1>1. Google!Init => GoogleCounted
  BY DEF Google!Init, GoogleCounted
<1>2. ASSUME GoogleCounted, [Google!Next]_(Google!vars)
      PROVE  GoogleCounted'
  <2> USE DEF GoogleCounted, Google!NoCount
  <2>1. ASSUME NEW a \in Accounts, Google!UpsertConnector(a)
        PROVE  GoogleCounted'
    BY <1>2, <2>1 DEF Google!UpsertConnector
  <2>2. CASE Google!HourPasses
    BY <1>2, <2>2 DEF Google!HourPasses
  <2>3. ASSUME NEW t \in Slots,
               Google!ResolveClient(t) \/ Google!Refreshed(t) \/ Google!CallGoogle(t)
        PROVE  GoogleCounted'
    BY <1>2, <2>3 DEF Google!ResolveClient, Google!Refreshed,
       Google!CallGoogle
  <2>4. ASSUME NEW t \in Slots, Google!RefreshRefused(t) \/ Google!RefreshRaises(t)
        PROVE  GoogleCounted'
    BY <1>2, <2>4 DEF Google!RefreshRefused, Google!RefreshRaises
  <2>5. CASE UNCHANGED Google!vars
    BY <1>2, <2>5 DEF Google!vars
  <2> QED
    BY <1>2, <2>1, <2>2, <2>3, <2>4, <2>5 DEF Google!Next
<1>3. GoogleConnectorInv /\ GoogleCounted => Google!TypeOK
  BY DEF GoogleConnectorInv, GoogleShapes, GoogleDocuments, GoogleCounted,
     Google!TypeOK
<1> QED
  BY <1>1, <1>2, <1>3, GoogleConnectorInvHolds, PTL DEF Google!Spec
-----------------------------------------------------------------------------
(* Links, merges and tags of customers                                       *)

\* Nobody is not a user; the bounds are numbers.
CustomersBounded ==
    /\ None \notin Users
    /\ MaxMessages \in Nat /\ MaxCustomerRequests \in Nat /\ MaxSyncs \in Nat

\* What a merge holds between its transactions.
CustomersMerges == [source : Customers!Profiles \cup {None},
                    target : Customers!Profiles \cup {None},
                    saw : {None}, theirs : Nat, ours : Nat, tags : SUBSET Tags]

\* The links and the profiles.
CustomersProfilesOK ==
    /\ customerLink \in [Users -> Customers!Profiles \cup {None}]
    /\ customerCount \in [Customers!Profiles -> Nat]
    /\ customerInto \in [Customers!Profiles -> Customers!Profiles \cup {None}]
    /\ customerStatus \in [Customers!Profiles -> {"none", "active", "merged"}]

\* The tags and who has them.
CustomersTagsOK ==
    /\ customerUsable \in SUBSET Tags
    /\ customerAssigned \in [Customers!Profiles -> SUBSET Tags]
    /\ customerRemoved \in [Customers!Profiles -> SUBSET Tags]

\* What the webhook and the unit of work hold.
CustomersLoopOK ==
    /\ customerEvent \in [user : Users \cup {None}, profile : Customers!Profiles \cup {None},
                          count : Nat]
    /\ customerUnsaved \in SUBSET Customers!Profiles
    /\ customerRows \in [Customers!Profiles -> Customers!Rows]

\* How far the merges are.
CustomersMergesOK ==
    /\ customerPc \in [OneSlot -> {"idle", "read", "tags read"}]
    /\ customerMerge \in [OneSlot -> CustomersMerges]

\* The bounded counters.
CustomersCountersOK ==
    /\ customerMessages \in 0..MaxMessages /\ customerRequests \in 0..MaxCustomerRequests
    /\ customerSyncs \in 0..MaxSyncs

\* What became of earlier merges.
CustomersHistoryOK == customerSpoiled \in BOOLEAN /\ customerReused \in BOOLEAN

\* A merge is of two profiles.
CustomersMerging ==
    \A t \in OneSlot : customerPc[t] # "idle" =>
        /\ customerMerge[t].source \in Customers!Profiles
        /\ customerMerge[t].target \in Customers!Profiles
        /\ customerMerge[t].source # customerMerge[t].target

\* What a transaction may rely on.
CustomersTypeInv == CustomersProfilesOK /\ CustomersTagsOK /\ CustomersLoopOK
    /\ CustomersMergesOK /\ CustomersCountersOK /\ CustomersHistoryOK /\ CustomersMerging

\* It holds over messages, merges, syncs and tag changes.
LEMMA CustomersTypeInvHolds ==
    ASSUME CustomersBounded
    PROVE  Customers!Spec => []CustomersTypeInv
<1>1. Customers!Init => CustomersTypeInv
  <2> USE DEF Customers!Init, CustomersBounded
  <2>1. Customers!Init => CustomersProfilesOK
    BY DEF CustomersProfilesOK, Customers!Profiles, Customers!Rows,
       Customers!Row, Customers!NoEvent, Customers!NoMerge, CustomersMerges
  <2>2. Customers!Init => CustomersTagsOK
    BY DEF CustomersTagsOK, Customers!Profiles, Customers!Rows, Customers!Row,
       Customers!NoEvent, Customers!NoMerge, CustomersMerges
  <2>3. Customers!Init => CustomersLoopOK
    BY DEF CustomersLoopOK, Customers!Profiles, Customers!Rows, Customers!Row,
       Customers!NoEvent, Customers!NoMerge, CustomersMerges
  <2>4. Customers!Init => CustomersMergesOK
    BY DEF CustomersMergesOK, Customers!Profiles, Customers!Rows,
       Customers!Row, Customers!NoEvent, Customers!NoMerge, CustomersMerges
  <2>5. Customers!Init => CustomersCountersOK
    BY DEF CustomersCountersOK, Customers!Profiles, Customers!Rows,
       Customers!Row, Customers!NoEvent, Customers!NoMerge, CustomersMerges
  <2>6. Customers!Init => CustomersHistoryOK
    BY DEF CustomersHistoryOK, Customers!Profiles, Customers!Rows,
       Customers!Row, Customers!NoEvent, Customers!NoMerge, CustomersMerges
  <2>7. Customers!Init => CustomersMerging
    BY DEF CustomersMerging, Customers!Profiles, Customers!Rows,
       Customers!Row, Customers!NoEvent, Customers!NoMerge, CustomersMerges
  <2> QED
    BY <2>1, <2>2, <2>3, <2>4, <2>5, <2>6, <2>7 DEF CustomersTypeInv
<1>2. ASSUME CustomersTypeInv, [Customers!Next]_(Customers!vars)
      PROVE  CustomersTypeInv'
  <2> USE DEF CustomersTypeInv, Customers!Profiles, Customers!profileVars,
              Customers!tagVars, Customers!loopVars, Customers!mergeVars,
              Customers!histVars, Customers!bounds
  <2>1. ASSUME NEW u \in Users, Customers!FirstEvent(u)
        PROVE  CustomersTypeInv'
    <3>1. CustomersProfilesOK'
      BY <1>2, <2>1 DEF Customers!FirstEvent, Customers!Message,
         CustomersProfilesOK
    <3>2. CustomersTagsOK'
      BY <1>2, <2>1 DEF Customers!FirstEvent, Customers!Message,
         CustomersTagsOK
    <3>3. CustomersLoopOK'
      BY <1>2, <2>1 DEF Customers!FirstEvent, Customers!Message,
         CustomersLoopOK, CustomersProfilesOK, Customers!Rows,
         Customers!NoEvent
    <3>4. CustomersMergesOK'
      BY <1>2, <2>1 DEF Customers!FirstEvent, Customers!Message,
         CustomersMergesOK, CustomersMerges, Customers!NoMerge
    <3>5. CustomersCountersOK'
      BY <1>2, <2>1 DEF Customers!FirstEvent, Customers!Message,
         CustomersCountersOK, CustomersBounded
    <3>6. CustomersHistoryOK'
      BY <1>2, <2>1 DEF Customers!FirstEvent, Customers!Message,
         CustomersHistoryOK
    <3>7. CustomersMerging'
      BY <1>2, <2>1 DEF Customers!FirstEvent, Customers!Message,
         CustomersMerging, CustomersMergesOK, CustomersMerges,
         Customers!NoMerge
    <3> QED
      BY <3>1, <3>2, <3>3, <3>4, <3>5, <3>6, <3>7
  <2>2. ASSUME NEW u \in Users, Customers!EventRead(u)
        PROVE  CustomersTypeInv'
    <3>1. CustomersProfilesOK'
      BY <1>2, <2>2 DEF Customers!EventRead, Customers!Message,
         CustomersProfilesOK
    <3>2. CustomersTagsOK'
      BY <1>2, <2>2 DEF Customers!EventRead, Customers!Message,
         CustomersTagsOK
    <3>3. CustomersLoopOK'
      BY <1>2, <2>2 DEF Customers!EventRead, Customers!Message,
         CustomersLoopOK, CustomersProfilesOK, Customers!Rows,
         Customers!NoEvent
    <3>4. CustomersMergesOK'
      BY <1>2, <2>2 DEF Customers!EventRead, Customers!Message,
         CustomersMergesOK, CustomersMerges, Customers!NoMerge
    <3>5. CustomersCountersOK'
      BY <1>2, <2>2 DEF Customers!EventRead, Customers!Message,
         CustomersCountersOK, CustomersBounded
    <3>6. CustomersHistoryOK'
      BY <1>2, <2>2 DEF Customers!EventRead, Customers!Message,
         CustomersHistoryOK
    <3>7. CustomersMerging'
      BY <1>2, <2>2 DEF Customers!EventRead, Customers!Message,
         CustomersMerging, CustomersMergesOK, CustomersMerges,
         Customers!NoMerge
    <3> QED
      BY <3>1, <3>2, <3>3, <3>4, <3>5, <3>6, <3>7
  <2>3. CASE Customers!EventCounted
    <3>1. CustomersProfilesOK'
      <4>1. customerEvent.count + 1 \in Nat
        BY <1>2 DEF CustomersLoopOK
      <4>2. customerCount' = [customerCount EXCEPT ![customerEvent.profile] = customerEvent.count + 1] /\ UNCHANGED <<customerLink, customerInto, customerStatus>>
        BY <2>3 DEF Customers!EventCounted
      <4> QED
        BY <1>2, <4>1, <4>2 DEF CustomersProfilesOK
    <3>2. CustomersTagsOK'
      BY <1>2, <2>3 DEF Customers!EventCounted, CustomersTagsOK
    <3>3. CustomersLoopOK'
      BY <1>2, <2>3 DEF Customers!EventCounted, CustomersLoopOK,
         CustomersProfilesOK, Customers!Rows, Customers!NoEvent
    <3>4. CustomersMergesOK'
      BY <1>2, <2>3 DEF Customers!EventCounted, CustomersMergesOK,
         CustomersMerges, Customers!NoMerge
    <3>5. CustomersCountersOK'
      BY <1>2, <2>3 DEF Customers!EventCounted, CustomersCountersOK,
         CustomersBounded
    <3>6. CustomersHistoryOK'
      BY <1>2, <2>3 DEF Customers!EventCounted, CustomersHistoryOK
    <3>7. CustomersMerging'
      BY <1>2, <2>3 DEF Customers!EventCounted, CustomersMerging,
         CustomersMergesOK, CustomersMerges, Customers!NoMerge
    <3> QED
      BY <3>1, <3>2, <3>3, <3>4, <3>5, <3>6, <3>7
  <2>4. CASE Customers!SyncReads
    <3>1. CustomersProfilesOK'
      BY <1>2, <2>4 DEF Customers!SyncReads, Customers!Row,
         CustomersProfilesOK
    <3>2. CustomersTagsOK'
      BY <1>2, <2>4 DEF Customers!SyncReads, Customers!Row, CustomersTagsOK
    <3>3. CustomersLoopOK'
      BY <1>2, <2>4 DEF Customers!SyncReads, Customers!Row, CustomersLoopOK,
         CustomersProfilesOK, Customers!Rows, Customers!NoEvent
    <3>4. CustomersMergesOK'
      BY <1>2, <2>4 DEF Customers!SyncReads, Customers!Row, CustomersMergesOK,
         CustomersMerges, Customers!NoMerge
    <3>5. CustomersCountersOK'
      BY <1>2, <2>4 DEF Customers!SyncReads, Customers!Row,
         CustomersCountersOK, CustomersBounded
    <3>6. CustomersHistoryOK'
      BY <1>2, <2>4 DEF Customers!SyncReads, Customers!Row, CustomersHistoryOK
    <3>7. CustomersMerging'
      BY <1>2, <2>4 DEF Customers!SyncReads, Customers!Row, CustomersMerging,
         CustomersMergesOK, CustomersMerges, Customers!NoMerge
    <3> QED
      BY <3>1, <3>2, <3>3, <3>4, <3>5, <3>6, <3>7
  <2>5. ASSUME NEW p \in Customers!Profiles, Customers!SyncSaves(p)
        PROVE  CustomersTypeInv'
    <3>1. CustomersProfilesOK'
      BY <1>2, <2>5 DEF Customers!SyncSaves, CustomersProfilesOK,
         CustomersLoopOK, Customers!Rows
    <3>2. CustomersTagsOK'
      BY <1>2, <2>5 DEF Customers!SyncSaves, CustomersTagsOK
    <3>3. CustomersLoopOK'
      BY <1>2, <2>5 DEF Customers!SyncSaves, CustomersLoopOK,
         CustomersProfilesOK, Customers!Rows, Customers!NoEvent
    <3>4. CustomersMergesOK'
      BY <1>2, <2>5 DEF Customers!SyncSaves, CustomersMergesOK,
         CustomersMerges, Customers!NoMerge
    <3>5. CustomersCountersOK'
      BY <1>2, <2>5 DEF Customers!SyncSaves, CustomersCountersOK,
         CustomersBounded
    <3>6. CustomersHistoryOK'
      BY <1>2, <2>5 DEF Customers!SyncSaves, CustomersHistoryOK
    <3>7. CustomersMerging'
      BY <1>2, <2>5 DEF Customers!SyncSaves, CustomersMerging,
         CustomersMergesOK, CustomersMerges, Customers!NoMerge
    <3> QED
      BY <3>1, <3>2, <3>3, <3>4, <3>5, <3>6, <3>7
  <2>6. ASSUME NEW u \in Users, NEW p \in Customers!Profiles, Customers!RelinkProfile(u, p)
        PROVE  CustomersTypeInv'
    <3>1. CustomersProfilesOK'
      BY <1>2, <2>6 DEF Customers!RelinkProfile, Customers!Request,
         CustomersProfilesOK
    <3>2. CustomersTagsOK'
      BY <1>2, <2>6 DEF Customers!RelinkProfile, Customers!Request,
         CustomersTagsOK
    <3>3. CustomersLoopOK'
      BY <1>2, <2>6 DEF Customers!RelinkProfile, Customers!Request,
         CustomersLoopOK, CustomersProfilesOK, Customers!Rows,
         Customers!NoEvent
    <3>4. CustomersMergesOK'
      BY <1>2, <2>6 DEF Customers!RelinkProfile, Customers!Request,
         CustomersMergesOK, CustomersMerges, Customers!NoMerge
    <3>5. CustomersCountersOK'
      BY <1>2, <2>6 DEF Customers!RelinkProfile, Customers!Request,
         CustomersCountersOK, CustomersBounded
    <3>6. CustomersHistoryOK'
      BY <1>2, <2>6 DEF Customers!RelinkProfile, Customers!Request,
         CustomersHistoryOK
    <3>7. CustomersMerging'
      BY <1>2, <2>6 DEF Customers!RelinkProfile, Customers!Request,
         CustomersMerging, CustomersMergesOK, CustomersMerges,
         Customers!NoMerge
    <3> QED
      BY <3>1, <3>2, <3>3, <3>4, <3>5, <3>6, <3>7
  <2>7. ASSUME NEW p \in Customers!Profiles, NEW g \in Tags, Customers!AssignTag(p, g)
        PROVE  CustomersTypeInv'
    <3>1. CustomersProfilesOK'
      BY <1>2, <2>7 DEF Customers!AssignTag, Customers!Request,
         CustomersProfilesOK
    <3>2. CustomersTagsOK'
      BY <1>2, <2>7 DEF Customers!AssignTag, Customers!Request,
         CustomersTagsOK
    <3>3. CustomersLoopOK'
      BY <1>2, <2>7 DEF Customers!AssignTag, Customers!Request,
         CustomersLoopOK, CustomersProfilesOK, Customers!Rows,
         Customers!NoEvent
    <3>4. CustomersMergesOK'
      BY <1>2, <2>7 DEF Customers!AssignTag, Customers!Request,
         CustomersMergesOK, CustomersMerges, Customers!NoMerge
    <3>5. CustomersCountersOK'
      BY <1>2, <2>7 DEF Customers!AssignTag, Customers!Request,
         CustomersCountersOK, CustomersBounded
    <3>6. CustomersHistoryOK'
      BY <1>2, <2>7 DEF Customers!AssignTag, Customers!Request,
         CustomersHistoryOK
    <3>7. CustomersMerging'
      BY <1>2, <2>7 DEF Customers!AssignTag, Customers!Request,
         CustomersMerging, CustomersMergesOK, CustomersMerges,
         Customers!NoMerge
    <3> QED
      BY <3>1, <3>2, <3>3, <3>4, <3>5, <3>6, <3>7
  <2>8. ASSUME NEW p \in Customers!Profiles, NEW g \in Tags, Customers!RemoveTag(p, g)
        PROVE  CustomersTypeInv'
    <3>1. CustomersProfilesOK'
      BY <1>2, <2>8 DEF Customers!RemoveTag, Customers!Request,
         CustomersProfilesOK
    <3>2. CustomersTagsOK'
      BY <1>2, <2>8 DEF Customers!RemoveTag, Customers!Request,
         CustomersTagsOK
    <3>3. CustomersLoopOK'
      BY <1>2, <2>8 DEF Customers!RemoveTag, Customers!Request,
         CustomersLoopOK, CustomersProfilesOK, Customers!Rows,
         Customers!NoEvent
    <3>4. CustomersMergesOK'
      BY <1>2, <2>8 DEF Customers!RemoveTag, Customers!Request,
         CustomersMergesOK, CustomersMerges, Customers!NoMerge
    <3>5. CustomersCountersOK'
      BY <1>2, <2>8 DEF Customers!RemoveTag, Customers!Request,
         CustomersCountersOK, CustomersBounded
    <3>6. CustomersHistoryOK'
      BY <1>2, <2>8 DEF Customers!RemoveTag, Customers!Request,
         CustomersHistoryOK
    <3>7. CustomersMerging'
      BY <1>2, <2>8 DEF Customers!RemoveTag, Customers!Request,
         CustomersMerging, CustomersMergesOK, CustomersMerges,
         Customers!NoMerge
    <3> QED
      BY <3>1, <3>2, <3>3, <3>4, <3>5, <3>6, <3>7
  <2>9. ASSUME NEW g \in Tags, Customers!DeactivateTag(g)
        PROVE  CustomersTypeInv'
    <3>1. CustomersProfilesOK'
      BY <1>2, <2>9 DEF Customers!DeactivateTag, Customers!Request,
         CustomersProfilesOK
    <3>2. CustomersTagsOK'
      BY <1>2, <2>9 DEF Customers!DeactivateTag, Customers!Request,
         CustomersTagsOK
    <3>3. CustomersLoopOK'
      BY <1>2, <2>9 DEF Customers!DeactivateTag, Customers!Request,
         CustomersLoopOK, CustomersProfilesOK, Customers!Rows,
         Customers!NoEvent
    <3>4. CustomersMergesOK'
      BY <1>2, <2>9 DEF Customers!DeactivateTag, Customers!Request,
         CustomersMergesOK, CustomersMerges, Customers!NoMerge
    <3>5. CustomersCountersOK'
      BY <1>2, <2>9 DEF Customers!DeactivateTag, Customers!Request,
         CustomersCountersOK, CustomersBounded
    <3>6. CustomersHistoryOK'
      BY <1>2, <2>9 DEF Customers!DeactivateTag, Customers!Request,
         CustomersHistoryOK
    <3>7. CustomersMerging'
      BY <1>2, <2>9 DEF Customers!DeactivateTag, Customers!Request,
         CustomersMerging, CustomersMergesOK, CustomersMerges,
         Customers!NoMerge
    <3> QED
      BY <3>1, <3>2, <3>3, <3>4, <3>5, <3>6, <3>7
  <2>10. ASSUME NEW t \in OneSlot, NEW s \in Customers!Profiles, NEW g \in Customers!Profiles,
                Customers!MergeReads(t, s, g)
        PROVE  CustomersTypeInv'
    <3>1. CustomersProfilesOK'
      BY <1>2, <2>10 DEF Customers!MergeReads, Customers!Request,
         CustomersProfilesOK
    <3>2. CustomersTagsOK'
      BY <1>2, <2>10 DEF Customers!MergeReads, Customers!Request,
         CustomersTagsOK
    <3>3. CustomersLoopOK'
      BY <1>2, <2>10 DEF Customers!MergeReads, Customers!Request,
         CustomersLoopOK, CustomersProfilesOK, Customers!Rows,
         Customers!NoEvent
    <3>4. CustomersMergesOK'
      BY <1>2, <2>10 DEF Customers!MergeReads, Customers!Request,
         CustomersMergesOK, CustomersMerges, Customers!NoMerge,
         CustomersProfilesOK
    <3>5. CustomersCountersOK'
      BY <1>2, <2>10 DEF Customers!MergeReads, Customers!Request,
         CustomersCountersOK, CustomersBounded
    <3>6. CustomersHistoryOK'
      BY <1>2, <2>10 DEF Customers!MergeReads, Customers!Request,
         CustomersHistoryOK
    <3>7. CustomersMerging'
      BY <1>2, <2>10 DEF Customers!MergeReads, Customers!Request,
         CustomersMerging, CustomersMergesOK, CustomersMerges,
         Customers!NoMerge
    <3> QED
      BY <3>1, <3>2, <3>3, <3>4, <3>5, <3>6, <3>7
  <2>11. ASSUME NEW t \in OneSlot, Customers!MergeReadsTags(t)
        PROVE  CustomersTypeInv'
    <3>1. CustomersProfilesOK'
      BY <1>2, <2>11 DEF Customers!MergeReadsTags, CustomersProfilesOK
    <3>2. CustomersTagsOK'
      BY <1>2, <2>11 DEF Customers!MergeReadsTags, CustomersTagsOK
    <3>3. CustomersLoopOK'
      BY <1>2, <2>11 DEF Customers!MergeReadsTags, CustomersLoopOK,
         CustomersProfilesOK, Customers!Rows, Customers!NoEvent
    <3>4. CustomersMergesOK'
      BY <1>2, <2>11 DEF Customers!MergeReadsTags, CustomersMergesOK,
         CustomersMerges, Customers!NoMerge, CustomersTagsOK, CustomersMerging
    <3>5. CustomersCountersOK'
      BY <1>2, <2>11 DEF Customers!MergeReadsTags, CustomersCountersOK,
         CustomersBounded
    <3>6. CustomersHistoryOK'
      BY <1>2, <2>11 DEF Customers!MergeReadsTags, CustomersHistoryOK
    <3>7. CustomersMerging'
      BY <1>2, <2>11 DEF Customers!MergeReadsTags, CustomersMerging,
         CustomersMergesOK, CustomersMerges, Customers!NoMerge
    <3> QED
      BY <3>1, <3>2, <3>3, <3>4, <3>5, <3>6, <3>7
  <2>12. ASSUME NEW t \in OneSlot, Customers!MergeCommits(t)
        PROVE  CustomersTypeInv'
    <3>1. CustomersProfilesOK'
      <4> DEFINE m == customerMerge[t]
      <4>1. /\ customerCount' = [customerCount EXCEPT ![m.target] = m.ours + m.theirs]
            /\ customerInto' = [customerInto EXCEPT ![m.source] = m.target]
            /\ customerStatus' = [customerStatus EXCEPT ![m.source] = "merged"]
            /\ customerLink' = [u \in Users |-> IF customerLink[u] = m.source THEN m.target ELSE customerLink[u]]
            /\ customerPc[t] = "tags read"
        BY <2>12 DEF Customers!MergeCommits
      <4>2. m.ours + m.theirs \in Nat /\ m.source \in Customers!Profiles
          /\ m.target \in Customers!Profiles
        <5>1. m \in CustomersMerges
          BY <1>2 DEF CustomersMergesOK
        <5>2. m.source \in Customers!Profiles /\ m.target \in Customers!Profiles
          BY <1>2, <4>1 DEF CustomersMerging
        <5> HIDE DEF m
        <5> QED
          BY <5>1, <5>2 DEF CustomersMerges
      <4> HIDE DEF m
      <4>3. customerLink' \in [Users -> Customers!Profiles \cup {None}]
        BY <1>2, <4>1, <4>2 DEF CustomersProfilesOK
      <4> QED
        BY <1>2, <4>1, <4>2, <4>3 DEF CustomersProfilesOK
    <3>2. CustomersTagsOK'
      BY <1>2, <2>12 DEF Customers!MergeCommits, Customers!Moved,
         Customers!Exists, CustomersTagsOK, CustomersMergesOK,
         CustomersMerges, CustomersMerging
    <3>3. CustomersLoopOK'
      BY <1>2, <2>12 DEF Customers!MergeCommits, Customers!Moved,
         Customers!Exists, CustomersLoopOK, CustomersProfilesOK,
         Customers!Rows, Customers!NoEvent
    <3>4. CustomersMergesOK'
      BY <1>2, <2>12 DEF Customers!MergeCommits, Customers!Moved,
         Customers!Exists, CustomersMergesOK, CustomersMerges,
         Customers!NoMerge
    <3>5. CustomersCountersOK'
      BY <1>2, <2>12 DEF Customers!MergeCommits, Customers!Moved,
         Customers!Exists, CustomersCountersOK, CustomersBounded
    <3>6. CustomersHistoryOK'
      BY <1>2, <2>12 DEF Customers!MergeCommits, Customers!Moved,
         Customers!Exists, CustomersHistoryOK
    <3>7. CustomersMerging'
      BY <1>2, <2>12 DEF Customers!MergeCommits, Customers!Moved,
         Customers!Exists, CustomersMerging, CustomersMergesOK,
         CustomersMerges, Customers!NoMerge
    <3> QED
      BY <3>1, <3>2, <3>3, <3>4, <3>5, <3>6, <3>7
  <2>13. ASSUME NEW t \in OneSlot, Customers!MergeRaises(t)
        PROVE  CustomersTypeInv'
    <3>1. CustomersProfilesOK'
      BY <1>2, <2>13 DEF Customers!MergeRaises, CustomersProfilesOK
    <3>2. CustomersTagsOK'
      BY <1>2, <2>13 DEF Customers!MergeRaises, CustomersTagsOK
    <3>3. CustomersLoopOK'
      BY <1>2, <2>13 DEF Customers!MergeRaises, CustomersLoopOK,
         CustomersProfilesOK, Customers!Rows, Customers!NoEvent
    <3>4. CustomersMergesOK'
      BY <1>2, <2>13 DEF Customers!MergeRaises, CustomersMergesOK,
         CustomersMerges, Customers!NoMerge
    <3>5. CustomersCountersOK'
      BY <1>2, <2>13 DEF Customers!MergeRaises, CustomersCountersOK,
         CustomersBounded
    <3>6. CustomersHistoryOK'
      BY <1>2, <2>13 DEF Customers!MergeRaises, CustomersHistoryOK
    <3>7. CustomersMerging'
      BY <1>2, <2>13 DEF Customers!MergeRaises, CustomersMerging,
         CustomersMergesOK, CustomersMerges, Customers!NoMerge
    <3> QED
      BY <3>1, <3>2, <3>3, <3>4, <3>5, <3>6, <3>7
  <2>14. CASE UNCHANGED Customers!vars
    <3>1. CustomersProfilesOK'
      BY <1>2, <2>14 DEF Customers!vars, CustomersProfilesOK
    <3>2. CustomersTagsOK'
      BY <1>2, <2>14 DEF Customers!vars, CustomersTagsOK
    <3>3. CustomersLoopOK'
      BY <1>2, <2>14 DEF Customers!vars, CustomersLoopOK, CustomersProfilesOK,
         Customers!Rows, Customers!NoEvent
    <3>4. CustomersMergesOK'
      BY <1>2, <2>14 DEF Customers!vars, CustomersMergesOK, CustomersMerges,
         Customers!NoMerge
    <3>5. CustomersCountersOK'
      BY <1>2, <2>14 DEF Customers!vars, CustomersCountersOK, CustomersBounded
    <3>6. CustomersHistoryOK'
      BY <1>2, <2>14 DEF Customers!vars, CustomersHistoryOK
    <3>7. CustomersMerging'
      BY <1>2, <2>14 DEF Customers!vars, CustomersMerging, CustomersMergesOK,
         CustomersMerges, Customers!NoMerge
    <3> QED
      BY <3>1, <3>2, <3>3, <3>4, <3>5, <3>6, <3>7
  <2> QED
    BY <1>2, <2>1, <2>2, <2>3, <2>4, <2>5, <2>6, <2>7, <2>8, <2>9, <2>10,
       <2>11,
       <2>12, <2>13, <2>14 DEF Customers!Next, Customers!LoopSteps, Customers!Requests,
       Customers!MergeSteps
<1> QED
  BY <1>1, <1>2, PTL DEF Customers!Spec

\* It contains the type invariant of the model.
LEMMA CustomersTypeInvIsTypeOK == CustomersTypeInv => Customers!TypeOK
  BY DEF CustomersTypeInv, Customers!TypeOK, CustomersProfilesOK,
     CustomersTagsOK, CustomersLoopOK, CustomersMergesOK, CustomersCountersOK,
     CustomersHistoryOK, CustomersMerges, Customers!NoMerge

\* A merge is undone or redirected only by a commit made from rows that were
\* read before it.
THEOREM CustomersMergeLastsHolds ==
    ASSUME CustomersBounded
    PROVE  Customers!Spec => Customers!MergeLasts
<1>1. ASSUME CustomersTypeInv, [Customers!Next]_(Customers!vars)
      PROVE  [\A p \in Customers!Profiles :
                customerInto[p] # None /\ customerInto'[p] # customerInto[p] =>
                  \/ p \in customerUnsaved /\ customerRows[p].into # customerInto[p]
                  \/ \E t \in OneSlot : customerPc[t] = "tags read"
                      /\ customerMerge[t].source = p
                                     /\ customerMerge[t].saw # customerInto[p]]_(Customers!vars)
  <2> SUFFICES ASSUME NEW p \in Customers!Profiles, customerInto[p] # None,
                      customerInto'[p] # customerInto[p]
               PROVE  \/ p \in customerUnsaved /\ customerRows[p].into # customerInto[p]
                      \/ \E t \in OneSlot : customerPc[t] = "tags read"
                          /\ customerMerge[t].source = p
                                         /\ customerMerge[t].saw # customerInto[p]
    OBVIOUS
  <2>1. customerInto \in [Customers!Profiles -> Customers!Profiles \cup {None}]
    BY <1>1 DEF CustomersTypeInv, CustomersProfilesOK
  <2>2. ASSUME NEW q \in Customers!Profiles, Customers!SyncSaves(q)
        PROVE  p \in customerUnsaved /\ customerRows[p].into # customerInto[p]
    BY <2>1, <2>2 DEF Customers!SyncSaves
  <2>3. ASSUME NEW t \in OneSlot, Customers!MergeCommits(t)
        PROVE  customerPc[t] = "tags read" /\ customerMerge[t].source = p
            /\ customerMerge[t].saw # customerInto[p]
    <3>1. customerPc[t] = "tags read" /\ customerMerge[t].source = p
      BY <2>1, <2>3 DEF Customers!MergeCommits
    <3>2. customerMerge[t].saw = None
      BY <1>1 DEF CustomersTypeInv, CustomersMergesOK, CustomersMerges
    <3> QED
      BY <3>1, <3>2
  <2>4. CASE UNCHANGED customerInto
    BY <2>4
  <2> QED
    BY <1>1, <2>2, <2>3, <2>4
    DEF Customers!Next, Customers!LoopSteps, Customers!Requests, Customers!MergeSteps,
        Customers!FirstEvent, Customers!EventRead, Customers!EventCounted,
        Customers!SyncReads, Customers!RelinkProfile, Customers!AssignTag,
        Customers!RemoveTag, Customers!DeactivateTag, Customers!MergeReads,
        Customers!MergeReadsTags, Customers!MergeRaises, Customers!profileVars,
        Customers!vars
<1> QED
  BY <1>1, CustomersTypeInvHolds, PTL DEF Customers!Spec, Customers!MergeLasts

\* The target of a merge has the tags of both profiles, unless the target's
\* changed after the merge had read them.
THEOREM CustomersTagsSurviveMergeHolds ==
    ASSUME CustomersBounded
    PROVE  Customers!Spec => Customers!TagsSurviveMerge
<1>1. ASSUME CustomersTypeInv, [Customers!Next]_(Customers!vars)
      PROVE  [\A t \in OneSlot :
                LET s == customerMerge[t].source
                    g == customerMerge[t].target IN
                customerPc[t] = "tags read" /\ customerInto' # customerInto
                    /\ customerInto'[s] = g /\ customerPc'[t] = "idle" =>
                            \/ customerAssigned[s] \cup customerAssigned[g] \subseteq customerAssigned'[g]
                            \/ customerMerge[t].tags # customerAssigned[g]]_(Customers!vars)
  <2> SUFFICES ASSUME NEW t \in OneSlot, customerPc[t] = "tags read",
                      customerInto' # customerInto, customerPc'[t] = "idle",
                      customerMerge[t].tags = customerAssigned[customerMerge[t].target]
               PROVE  customerAssigned[customerMerge[t].source] \cup customerAssigned[customerMerge[t].target]
                        \subseteq customerAssigned'[customerMerge[t].target]
    OBVIOUS
  <2>1. customerPc \in [OneSlot -> {"idle", "read", "tags read"}]
    BY <1>1 DEF CustomersTypeInv, CustomersMergesOK
  <2>2. \E u \in OneSlot : Customers!MergeCommits(u)
    BY <1>1, <2>1
    DEF Customers!Next, Customers!LoopSteps, Customers!Requests, Customers!MergeSteps,
        Customers!FirstEvent, Customers!EventRead, Customers!EventCounted,
        Customers!SyncReads, Customers!SyncSaves, Customers!RelinkProfile,
        Customers!AssignTag, Customers!RemoveTag, Customers!DeactivateTag,
        Customers!MergeReads, Customers!MergeReadsTags, Customers!MergeRaises,
        Customers!profileVars, Customers!mergeVars, Customers!vars
  <2>3. Customers!MergeCommits(t)
    <3>1. PICK u \in OneSlot : Customers!MergeCommits(u)
      BY <2>2
    <3>2. customerPc' = [customerPc EXCEPT ![u] = "idle"]
      BY <3>1 DEF Customers!MergeCommits
    <3>3. u = t
      BY <2>1, <3>2
    <3> QED
      BY <3>1, <3>3
  <2> DEFINE s == customerMerge[t].source
             g == customerMerge[t].target
  <2>4. s \in Customers!Profiles /\ g \in Customers!Profiles /\ s # g
    BY <1>1 DEF CustomersTypeInv, CustomersMerging
  <2>5. customerAssigned' = [customerAssigned EXCEPT ![g] = @ \cup (customerAssigned[s] \ customerMerge[t].tags), ![s] = {}]
    BY <2>3 DEF Customers!MergeCommits, Customers!Moved
  <2> HIDE DEF s, g
  <2>6. customerAssigned'[g] = customerAssigned[g] \cup (customerAssigned[s] \ customerMerge[t].tags)
    BY <1>1, <2>4, <2>5 DEF CustomersTypeInv, CustomersTagsOK
  <2> QED
    BY <2>6 DEF s, g
<1> QED
  BY <1>1, CustomersTypeInvHolds, PTL DEF Customers!Spec,
     Customers!TagsSurviveMerge

\* A user without a link has no profile, and nobody works on one.
CustomersUnborn ==
    /\ \A u \in Users : customerLink[u] = None =>
         /\ customerStatus[u] = "none" /\ customerInto[u] = None /\ u \notin customerUnsaved
         /\ \A t \in OneSlot : customerPc[t] # "idle"
             => u # customerMerge[t].source /\ u # customerMerge[t].target
    /\ customerEvent # Customers!NoEvent
        => customerEvent.user \in Users /\ customerLink[customerEvent.user] # None

\* A profile is made with its link, in one transaction.
LEMMA CustomersUnbornHolds ==
    ASSUME CustomersBounded
    PROVE  Customers!Spec => []CustomersUnborn
<1>1. Customers!Init => CustomersUnborn
  BY DEF Customers!Init, CustomersUnborn, Customers!Profiles
<1>2. ASSUME CustomersTypeInv, CustomersUnborn, [Customers!Next]_(Customers!vars)
      PROVE  CustomersUnborn'
  <2> USE DEF CustomersUnborn, CustomersTypeInv, Customers!Profiles,
              Customers!profileVars, Customers!tagVars, Customers!loopVars,
              Customers!mergeVars, Customers!histVars, Customers!bounds
  <2>1. ASSUME NEW u \in Users, Customers!FirstEvent(u)
        PROVE  CustomersUnborn'
    <3>1. /\ customerLink' = [customerLink EXCEPT ![u] = u]
          /\ customerStatus' = [customerStatus EXCEPT ![u] = "active"]
          /\ customerInto' = customerInto /\ customerUnsaved' = customerUnsaved
          /\ customerPc' = customerPc /\ customerMerge' = customerMerge
          /\ customerEvent' = customerEvent
          /\ customerEvent = Customers!NoEvent
      BY <2>1 DEF Customers!FirstEvent, Customers!EventLoopFree,
         Customers!EventLoopFree, CustomersProfilesOK, CustomersLoopOK,
         CustomersMergesOK, CustomersMerging, CustomersBounded
    <3>2. customerLink'[u] # None /\ \A v \in Users \ {u} : customerLink'[v] = customerLink[v]
        /\ customerStatus'[v] = customerStatus[v]
      BY <1>2, <3>1 DEF CustomersProfilesOK, CustomersBounded
    <3> HIDE DEF CustomersTypeInv
    <3> QED
      BY <1>2, <3>1, <3>2
  <2>2. ASSUME NEW u \in Users, Customers!EventRead(u)
        PROVE  CustomersUnborn'
    BY <1>2, <2>2 DEF Customers!EventRead, Customers!Message,
       CustomersProfilesOK, Customers!NoEvent
  <2>3. CASE Customers!EventCounted
    BY <1>2, <2>3 DEF Customers!EventCounted
  <2>4. CASE Customers!SyncReads
    BY <1>2, <2>4 DEF Customers!SyncReads, Customers!Row, Customers!Exists
  <2>5. ASSUME NEW p \in Customers!Profiles, Customers!SyncSaves(p)
        PROVE  CustomersUnborn'
    BY <1>2, <2>5 DEF Customers!SyncSaves, CustomersProfilesOK,
       CustomersLoopOK, Customers!Exists
  <2>6. ASSUME NEW u \in Users, NEW p \in Customers!Profiles, Customers!RelinkProfile(u, p)
        PROVE  CustomersUnborn'
    BY <1>2, <2>6 DEF Customers!RelinkProfile, Customers!Request,
       CustomersProfilesOK, CustomersBounded, Customers!Exists
  <2>7. ASSUME NEW p \in Customers!Profiles, NEW g \in Tags, Customers!AssignTag(p, g)
        PROVE  CustomersUnborn'
    BY <1>2, <2>7 DEF Customers!AssignTag, Customers!Request
  <2>8. ASSUME NEW p \in Customers!Profiles, NEW g \in Tags, Customers!RemoveTag(p, g)
        PROVE  CustomersUnborn'
    BY <1>2, <2>8 DEF Customers!RemoveTag, Customers!Request
  <2>9. ASSUME NEW g \in Tags, Customers!DeactivateTag(g)
        PROVE  CustomersUnborn'
    BY <1>2, <2>9 DEF Customers!DeactivateTag, Customers!Request
  <2>10. ASSUME NEW t \in OneSlot, NEW s \in Customers!Profiles, NEW g \in Customers!Profiles,
                Customers!MergeReads(t, s, g)
        PROVE  CustomersUnborn'
    BY <1>2, <2>10 DEF Customers!MergeReads, Customers!Request,
       CustomersMergesOK, Customers!Exists
  <2>11. ASSUME NEW t \in OneSlot, Customers!MergeReadsTags(t)
        PROVE  CustomersUnborn'
    <3>1. /\ customerMerge' = [customerMerge EXCEPT ![t].tags = customerAssigned[customerMerge[t].target]]
          /\ customerPc[t] = "read" /\ customerPc' = [customerPc EXCEPT ![t] = "tags read"]
          /\ customerLink' = customerLink /\ customerStatus' = customerStatus
          /\ customerInto' = customerInto /\ customerUnsaved' = customerUnsaved
          /\ customerEvent' = customerEvent
      BY <2>11 DEF Customers!MergeReadsTags, CustomersMergesOK,
         CustomersMerges
    <3>2. customerPc \in [OneSlot -> {"idle", "read", "tags read"}]
        /\ customerMerge \in [OneSlot -> CustomersMerges]
      BY <1>2 DEF CustomersMergesOK
    <3>3. \A v \in OneSlot \ {t} : customerMerge'[v] = customerMerge[v]
        /\ customerPc'[v] = customerPc[v]
      BY <3>1, <3>2
    <3>4. customerMerge'[t] = [customerMerge[t] EXCEPT !.tags = customerAssigned[customerMerge[t].target]] /\ customerMerge[t] \in CustomersMerges
      BY <3>1, <3>2
    <3>5. customerMerge'[t].source = customerMerge[t].source
        /\ customerMerge'[t].target = customerMerge[t].target
      BY <3>4 DEF CustomersMerges
    <3>6. \A v \in OneSlot : customerPc'[v] # "idle"
        => customerPc[v] # "idle" /\ customerMerge'[v].source = customerMerge[v].source
                                           /\ customerMerge'[v].target = customerMerge[v].target
      <4>1. customerPc'[t] = "tags read"
        BY <3>1, <3>2
      <4> QED
        BY <3>1, <3>3, <3>5, <4>1
    <3>7. UNCHANGED <<customerLink, customerStatus, customerInto, customerUnsaved,
                      customerEvent>>
      BY <3>1
    <3>8. CustomersUnborn
      BY <1>2
    <3> HIDE DEF CustomersTypeInv
    <3> QED
      BY <3>6, <3>7, <3>8 DEF Customers!NoEvent
  <2>12. ASSUME NEW t \in OneSlot, Customers!MergeCommits(t)
        PROVE  CustomersUnborn'
    BY <1>2, <2>12 DEF Customers!MergeCommits, Customers!Moved,
       Customers!Exists, CustomersProfilesOK, CustomersMergesOK,
       Customers!NoMerge, CustomersMerging, CustomersBounded
  <2>13. ASSUME NEW t \in OneSlot, Customers!MergeRaises(t)
        PROVE  CustomersUnborn'
    BY <1>2, <2>13 DEF Customers!MergeRaises, CustomersMergesOK,
       Customers!NoMerge
  <2>14. CASE UNCHANGED Customers!vars
    BY <1>2, <2>14 DEF Customers!vars
  <2> QED
    BY <1>2, <2>1, <2>2, <2>3, <2>4, <2>5, <2>6, <2>7, <2>8, <2>9, <2>10,
       <2>11,
       <2>12, <2>13, <2>14 DEF Customers!Next, Customers!LoopSteps, Customers!Requests,
       Customers!MergeSteps
<1> QED
  BY <1>1, <1>2, CustomersTypeInvHolds, PTL DEF Customers!Spec

\* The profile a user is linked to is one the owner sees.
THEOREM CustomersLinkIsVisibleHolds ==
    ASSUME CustomersBounded
    PROVE  Customers!Spec => []Customers!LinkIsVisible
<1>1. Customers!Init => Customers!LinkIsVisible
  BY DEF Customers!Init, Customers!LinkIsVisible
<1>2. ASSUME CustomersTypeInv, CustomersUnborn, Customers!LinkIsVisible,
             [Customers!Next]_(Customers!vars)
      PROVE  Customers!LinkIsVisible'
  <2> USE DEF Customers!LinkIsVisible, CustomersTypeInv, CustomersUnborn, CustomersProfilesOK,
              CustomersMergesOK, CustomersMerging, Customers!Profiles, Customers!profileVars,
              Customers!tagVars, Customers!loopVars, Customers!mergeVars, Customers!histVars,
              Customers!bounds
  <2>1. ASSUME NEW u \in Users, Customers!FirstEvent(u)
        PROVE  Customers!LinkIsVisible'
    BY <1>2, <2>1 DEF Customers!FirstEvent, Customers!Message
  <2>2. ASSUME NEW u \in Users, Customers!EventRead(u)
        PROVE  Customers!LinkIsVisible'
    BY <1>2, <2>2 DEF Customers!EventRead, Customers!Message
  <2>3. CASE Customers!EventCounted
    BY <1>2, <2>3 DEF Customers!EventCounted
  <2>4. CASE Customers!SyncReads
    BY <1>2, <2>4 DEF Customers!SyncReads, Customers!Row
  <2>5. ASSUME NEW p \in Customers!Profiles, Customers!SyncSaves(p)
        PROVE  Customers!LinkIsVisible'
    <3> SUFFICES ASSUME NEW u \in Users, customerLink'[u] # None,
                        customerInto'[customerLink'[u]] # None, ~customerSpoiled'
                 PROVE  customerReused'
      OBVIOUS
    <3>1. /\ customerLink' = customerLink /\ customerReused' = customerReused
          /\ customerInto' = [customerInto EXCEPT ![p] = customerRows[p].into]
          /\ ~customerSpoiled /\ customerInto[p] = customerRows[p].into
      BY <2>5 DEF Customers!SyncSaves
    <3>2. \A q \in Customers!Profiles : customerInto'[q] = customerInto[q]
      BY <1>2, <3>1
    <3>5. customerLink \in [Users -> Customers!Profiles \cup {None}] /\ customerLink[u] # None
      BY <1>2, <3>1
    <3>6. customerLink[u] \in Customers!Profiles
      BY <3>5
    <3>3. customerInto[customerLink[u]] = None \/ customerReused
      BY <1>2, <3>1, <3>5
    <3> HIDE DEF CustomersUnborn, CustomersProfilesOK, CustomersMergesOK, CustomersMerging
    <3> QED
      BY <3>1, <3>2, <3>3, <3>6
  <2>6. ASSUME NEW u \in Users, NEW p \in Customers!Profiles, Customers!RelinkProfile(u, p)
        PROVE  Customers!LinkIsVisible'
    BY <1>2, <2>6 DEF Customers!RelinkProfile, Customers!Request
  <2>7. ASSUME NEW p \in Customers!Profiles, NEW g \in Tags, Customers!AssignTag(p, g)
        PROVE  Customers!LinkIsVisible'
    BY <1>2, <2>7 DEF Customers!AssignTag, Customers!Request
  <2>8. ASSUME NEW p \in Customers!Profiles, NEW g \in Tags, Customers!RemoveTag(p, g)
        PROVE  Customers!LinkIsVisible'
    BY <1>2, <2>8 DEF Customers!RemoveTag, Customers!Request
  <2>9. ASSUME NEW g \in Tags, Customers!DeactivateTag(g)
        PROVE  Customers!LinkIsVisible'
    BY <1>2, <2>9 DEF Customers!DeactivateTag, Customers!Request
  <2>10. ASSUME NEW t \in OneSlot, NEW s \in Customers!Profiles, NEW g \in Customers!Profiles,
                Customers!MergeReads(t, s, g)
        PROVE  Customers!LinkIsVisible'
    BY <1>2, <2>10 DEF Customers!MergeReads, Customers!Request
  <2>11. ASSUME NEW t \in OneSlot, Customers!MergeReadsTags(t)
        PROVE  Customers!LinkIsVisible'
    BY <1>2, <2>11 DEF Customers!MergeReadsTags
  <2>12. ASSUME NEW t \in OneSlot, Customers!MergeCommits(t)
        PROVE  Customers!LinkIsVisible'
    BY <1>2, <2>12 DEF Customers!MergeCommits, Customers!Moved,
       Customers!Exists
  <2>13. ASSUME NEW t \in OneSlot, Customers!MergeRaises(t)
        PROVE  Customers!LinkIsVisible'
    BY <1>2, <2>13 DEF Customers!MergeRaises
  <2>14. CASE UNCHANGED Customers!vars
    BY <1>2, <2>14 DEF Customers!vars
  <2> QED
    BY <1>2, <2>1, <2>2, <2>3, <2>4, <2>5, <2>6, <2>7, <2>8, <2>9, <2>10,
       <2>11, <2>12, <2>13, <2>14 DEF Customers!Next, Customers!LoopSteps,
       Customers!Requests, Customers!MergeSteps
<1> QED
  BY <1>1, <1>2, CustomersTypeInvHolds, CustomersUnbornHolds, PTL DEF
     Customers!Spec
-----------------------------------------------------------------------------
(* Counts: every event is on one profile the owner sees                     *)

\* The profiles the owner sees.
CustomersVisible == {p \in Customers!Profiles : customerInto[p] = None}

\* A profile nobody was linked to has counted nothing; a linked profile was made.
CustomersCounted ==
    /\ \A u \in Users : customerLink[u] = None => customerCount[u] = 0
    /\ \A u \in Users : customerLink[u] # None => customerLink[customerLink[u]] # None
    /\ customerEvent # Customers!NoEvent
        => customerEvent.profile \in Users /\ customerLink[customerEvent.profile] # None

\* The sum is what the messages came to, less the one that is being counted.
CustomersSummed ==
    ~customerSpoiled /\ ~customerReused =>
        customerMessages = Total(customerCount,
                                 CustomersVisible) + (IF customerEvent = Customers!NoEvent THEN 0 ELSE 1)

\* A step that changes no link, no count and no event.
LEMMA CustomersCountsStay ==
    ASSUME CustomersCounted, CustomersSummed,
           UNCHANGED <<customerLink, customerCount, customerInto, customerEvent,
                       customerMessages, customerSpoiled, customerReused>>
    PROVE  CustomersCounted' /\ CustomersSummed'
<1>1. CustomersCounted'
  BY DEF CustomersCounted
<1>2. CustomersVisible' = CustomersVisible
  BY DEF CustomersVisible
<1> QED
  BY <1>1, <1>2 DEF CustomersSummed

\* Every transaction keeps the sum.
LEMMA CustomersSumKept ==
    ASSUME CustomersBounded, IsFiniteSet(Users), CustomersTypeInv, CustomersUnborn,
           Customers!LinkIsVisible, CustomersCounted, CustomersSummed,
           [Customers!Next]_(Customers!vars)
    PROVE  CustomersCounted' /\ CustomersSummed'
<1>0. /\ customerLink \in [Users -> Users \cup {None}] /\ customerCount \in [Users -> Nat]
      /\ customerInto \in [Users -> Users \cup {None}] /\ customerMessages \in Nat
      /\ customerSpoiled \in BOOLEAN /\ customerReused \in BOOLEAN
  BY DEF CustomersTypeInv, CustomersProfilesOK, CustomersCountersOK,
     CustomersHistoryOK, Customers!Profiles, CustomersBounded
<1>00. CustomersVisible \in SUBSET Users
  BY DEF CustomersVisible, Customers!Profiles
<1>1. ASSUME NEW u \in Users, Customers!FirstEvent(u)
      PROVE  CustomersCounted' /\ CustomersSummed'
  <2>1. /\ customerEvent = Customers!NoEvent /\ customerLink[u] = None
        /\ customerMessages' = customerMessages + 1
        /\ customerLink' = [customerLink EXCEPT ![u] = u]
        /\ customerCount' = [customerCount EXCEPT ![u] = 1]
        /\ UNCHANGED <<customerInto, customerEvent, customerSpoiled, customerReused>>
    BY <1>1 DEF Customers!FirstEvent, Customers!EventLoopFree,
       Customers!Message, Customers!loopVars, Customers!histVars
  <2>2. customerInto[u] = None /\ customerCount[u] = 0 /\ u # None
    BY <2>1 DEF CustomersUnborn, CustomersCounted, CustomersBounded
  <2>3. CustomersCounted'
    BY <1>0, <2>1, <2>2 DEF CustomersCounted
  <2>4. CustomersVisible' = CustomersVisible /\ u \in CustomersVisible
    BY <2>1, <2>2 DEF CustomersVisible, Customers!Profiles
  <2>5. /\ customerCount' \in [Users -> Nat] /\ customerCount'[u] = 1
        /\ \A y \in CustomersVisible \ {u} : customerCount'[y] = customerCount[y]
    BY <1>0, <1>00, <2>1
  <2>6. Total(customerCount',
              CustomersVisible) = (Total(customerCount,
                                         CustomersVisible) - customerCount[u]) + customerCount'[u]
    BY <1>0, <1>00, <2>4, <2>5, TotalPut
  <2>7. Total(customerCount, CustomersVisible) \in Nat
    BY <1>0, <1>00, TotalNat
  <2> QED
    BY <1>0, <2>1, <2>2, <2>3, <2>4, <2>5, <2>6, <2>7 DEF CustomersSummed
<1>2. ASSUME NEW u \in Users, Customers!EventRead(u)
      PROVE  CustomersCounted' /\ CustomersSummed'
  <2>1. /\ customerEvent = Customers!NoEvent /\ customerEvent'.user = u
        /\ customerMessages' = customerMessages + 1
        /\ UNCHANGED <<customerLink, customerCount, customerInto, customerSpoiled,
                       customerReused>>
    BY <1>2 DEF Customers!EventRead, Customers!EventLoopFree,
       Customers!Message, Customers!profileVars, Customers!histVars
  <2>2. customerEvent' # Customers!NoEvent
    BY <2>1 DEF Customers!NoEvent, CustomersBounded
  <2>3. CustomersCounted'
    <3>1. customerEvent'.profile = customerLink[u] /\ customerLink[u] # None
      BY <1>2 DEF Customers!EventRead
    <3>2. customerEvent'.profile \in Users /\ customerLink[customerEvent'.profile] # None
      BY <1>0, <3>1 DEF CustomersCounted
    <3> QED
      BY <2>1, <3>2 DEF CustomersCounted
  <2>4. CustomersVisible' = CustomersVisible
    BY <2>1 DEF CustomersVisible
  <2>5. Total(customerCount, CustomersVisible) \in Nat
    BY <1>0, <1>00, TotalNat
  <2> QED
    BY <1>0, <2>1, <2>2, <2>3, <2>4, <2>5 DEF CustomersSummed
<1>3. CASE Customers!EventCounted
  <2> DEFINE p == customerEvent.profile
  <2>1. /\ customerEvent # Customers!NoEvent /\ customerEvent' = Customers!NoEvent
        /\ customerCount' = [customerCount EXCEPT ![p] = customerEvent.count + 1]
        /\ customerSpoiled' = (customerSpoiled \/ customerLink[customerEvent.user] # p
                                \/ customerCount[p] # customerEvent.count)
        /\ UNCHANGED <<customerLink, customerInto, customerReused, customerMessages>>
    BY <1>3 DEF Customers!EventCounted, Customers!bounds
  <2>2. customerEvent.user \in Users /\ customerLink[customerEvent.user] # None /\ p \in Users
      /\ customerLink[p] # None
    BY <2>1 DEF CustomersUnborn, CustomersCounted
  <2> HIDE DEF p
  <2>3. CustomersCounted'
    BY <1>0, <2>1, <2>2 DEF CustomersCounted
  <2>4. CustomersSummed'
    <3> SUFFICES ASSUME ~customerSpoiled', ~customerReused'
                 PROVE  customerMessages' = Total(customerCount',
                                                  CustomersVisible') + (IF customerEvent' = Customers!NoEvent THEN 0 ELSE 1)
      BY DEF CustomersSummed
    <3>1. ~customerSpoiled /\ ~customerReused /\ p = customerLink[customerEvent.user]
        /\ customerEvent.count = customerCount[p]
      BY <1>0, <2>1
    <3>2. customerInto[p] = None
      BY <2>2, <3>1 DEF Customers!LinkIsVisible
    <3>3. CustomersVisible' = CustomersVisible /\ p \in CustomersVisible
      BY <2>1, <2>2, <3>2 DEF CustomersVisible, Customers!Profiles
    <3>4. /\ customerCount' \in [Users -> Nat] /\ customerCount'[p] = customerCount[p] + 1
          /\ customerCount[p] \in Nat
          /\ \A y \in Users \ {p} : customerCount'[y] = customerCount[y]
      BY <1>0, <2>1, <2>2, <3>1
    <3>5. Total(customerCount',
                CustomersVisible) = (Total(customerCount,
                                           CustomersVisible) - customerCount[p]) + customerCount'[p]
      BY <1>0, <1>00, <3>3, <3>4, TotalPut
    <3>6. Total(customerCount, CustomersVisible) \in Nat
      BY <1>0, <1>00, TotalNat
    <3>7. customerMessages = Total(customerCount, CustomersVisible) + 1
        /\ customerMessages' = customerMessages
      BY <2>1, <3>1 DEF CustomersSummed
    <3> QED
      BY <2>1, <3>3, <3>4, <3>5, <3>6, <3>7
  <2> QED
    BY <2>3, <2>4
<1>4. CASE Customers!SyncReads
  <2>1. UNCHANGED <<customerLink, customerCount, customerInto, customerEvent, customerMessages,
                    customerSpoiled, customerReused>>
    BY <1>4 DEF Customers!SyncReads, Customers!profileVars, Customers!histVars
  <2> QED
    BY <2>1, CustomersCountsStay
<1>5. ASSUME NEW p \in Customers!Profiles, Customers!SyncSaves(p)
      PROVE  CustomersCounted' /\ CustomersSummed'
  <2>1. /\ p \in customerUnsaved /\ p \in Users
        /\ customerCount' = [customerCount EXCEPT ![p] = customerRows[p].count]
        /\ customerInto' = [customerInto EXCEPT ![p] = customerRows[p].into]
        /\ customerSpoiled' = (customerSpoiled \/ customerCount[p] # customerRows[p].count
                                \/ customerInto[p] # customerRows[p].into)
        /\ UNCHANGED <<customerLink, customerEvent, customerMessages, customerReused>>
    BY <1>5 DEF Customers!SyncSaves, Customers!bounds, Customers!Profiles
  <2>2. customerLink[p] # None
    BY <2>1 DEF CustomersUnborn
  <2>3. CustomersCounted'
    BY <1>0, <2>1, <2>2 DEF CustomersCounted
  <2>4. CustomersSummed'
    <3>1. ~customerSpoiled'
        => customerCount' = customerCount /\ customerInto' = customerInto /\ ~customerSpoiled
      BY <1>0, <2>1
    <3>2. ~customerSpoiled' => CustomersVisible' = CustomersVisible
      BY <3>1 DEF CustomersVisible
    <3> QED
      BY <2>1, <3>1, <3>2 DEF CustomersSummed
  <2> QED
    BY <2>3, <2>4
<1>6. ASSUME NEW u \in Users, NEW p \in Customers!Profiles, Customers!RelinkProfile(u, p)
      PROVE  CustomersCounted' /\ CustomersSummed'
  <2>1. /\ customerLink[u] # None /\ customerStatus[p] # "none" /\ p \in Users
        /\ customerLink' = [customerLink EXCEPT ![u] = p]
        /\ UNCHANGED <<customerCount, customerInto, customerEvent, customerMessages,
                       customerSpoiled, customerReused>>
    BY <1>6 DEF Customers!RelinkProfile, Customers!Exists, Customers!Request,
       Customers!Profiles, Customers!profileVars, Customers!loopVars,
       Customers!histVars
  <2>2. p # None /\ customerLink[p] # None
    BY <2>1 DEF CustomersUnborn, CustomersBounded
  <2>3. \A v \in Users : customerLink'[v] = None <=> customerLink[v] = None
    BY <1>0, <2>1, <2>2
  <2>4. \A v \in Users : customerLink'[v] # None
      => customerLink'[v] = p \/ customerLink'[v] = customerLink[v]
    BY <1>0, <2>1
  <2>5. CustomersCounted'
    <3>1. \A v \in Users : customerLink'[v] = None => customerCount'[v] = 0
      BY <2>1, <2>3 DEF CustomersCounted
    <3>2. ASSUME NEW v \in Users, customerLink'[v] # None
          PROVE  customerLink'[customerLink'[v]] # None
      <4>1. CASE customerLink'[v] = p
        BY <2>1, <2>2, <2>3, <4>1
      <4>2. CASE customerLink'[v] = customerLink[v]
        <5>1. customerLink[v] \in Users /\ customerLink[customerLink[v]] # None
          BY <1>0, <3>2, <4>2 DEF CustomersCounted
        <5> QED
          BY <2>3, <4>2, <5>1
      <4> QED
        BY <2>4, <3>2, <4>1, <4>2
    <3>3. customerEvent' # Customers!NoEvent
        => customerEvent'.profile \in Users /\ customerLink'[customerEvent'.profile] # None
      BY <2>1, <2>3 DEF CustomersCounted
    <3> QED
      BY <3>1, <3>2, <3>3 DEF CustomersCounted
  <2>6. CustomersVisible' = CustomersVisible
    BY <2>1 DEF CustomersVisible
  <2> QED
    BY <2>1, <2>5, <2>6 DEF CustomersSummed
<1>7. ASSUME NEW p \in Customers!Profiles, NEW g \in Tags,
             Customers!AssignTag(p, g) \/ Customers!RemoveTag(p, g)
      PROVE  CustomersCounted' /\ CustomersSummed'
  <2>1. UNCHANGED <<customerLink, customerCount, customerInto, customerEvent, customerMessages,
                    customerSpoiled, customerReused>>
    BY <1>7 DEF Customers!AssignTag, Customers!RemoveTag, Customers!Request,
       Customers!profileVars, Customers!loopVars, Customers!histVars
  <2> QED
    BY <2>1, CustomersCountsStay
<1>8. ASSUME NEW t \in OneSlot,
             (\E s \in Customers!Profiles,
              g \in Customers!Profiles : Customers!MergeReads(t, s, g))
             \/ Customers!MergeReadsTags(t) \/ Customers!MergeRaises(t)
      PROVE  CustomersCounted' /\ CustomersSummed'
  <2>1. UNCHANGED <<customerLink, customerCount, customerInto, customerEvent, customerMessages,
                    customerSpoiled, customerReused>>
    BY <1>8 DEF Customers!MergeReads, Customers!MergeReadsTags,
       Customers!MergeRaises, Customers!Request, Customers!profileVars,
       Customers!loopVars, Customers!histVars, Customers!bounds
  <2> QED
    BY <2>1, CustomersCountsStay
<1>9. ASSUME NEW t \in OneSlot, Customers!MergeCommits(t)
      PROVE  CustomersCounted' /\ CustomersSummed'
  <2> DEFINE s == customerMerge[t].source
             g == customerMerge[t].target
             ours == customerMerge[t].ours
             theirs == customerMerge[t].theirs
  <2>1. /\ customerPc[t] = "tags read"
        /\ customerCount' = [customerCount EXCEPT ![g] = ours + theirs]
        /\ customerInto' = [customerInto EXCEPT ![s] = g]
        /\ customerLink' = [u \in Users |-> IF customerLink[u] = s THEN g ELSE customerLink[u]]
        /\ customerSpoiled' = (customerSpoiled \/ customerInto[s] # None
                                \/ customerCount[g] # ours \/ customerCount[s] # theirs)
        /\ customerReused' = (customerReused \/ customerInto[g] # None)
        /\ UNCHANGED <<customerEvent, customerMessages>>
    BY <1>9 DEF Customers!MergeCommits, Customers!loopVars, Customers!bounds
  <2>2. s \in Users /\ g \in Users /\ s # g
    BY <2>1 DEF CustomersTypeInv, CustomersMerging, Customers!Profiles
  <2>3. customerLink[g] # None /\ g # None /\ s # None
    BY <2>1, <2>2 DEF CustomersUnborn, CustomersBounded
  <2> HIDE DEF s, g, ours, theirs
  <2>4. \A v \in Users : customerLink'[v] = None <=> customerLink[v] = None
    BY <2>1, <2>3
  <2>5. CustomersCounted'
    <3>1. \A v \in Users : customerLink'[v] = None => customerCount'[v] = 0
      BY <1>0, <2>1, <2>2, <2>3, <2>4 DEF CustomersCounted
    <3>2. ASSUME NEW v \in Users, customerLink'[v] # None
          PROVE  customerLink'[customerLink'[v]] # None
      <4>1. CASE customerLink[v] = s
        BY <2>1, <2>2, <2>3, <2>4, <4>1
      <4>2. CASE customerLink[v] # s
        <5>1. customerLink'[v] = customerLink[v]
          BY <2>1, <4>2
        <5>2. customerLink[v] \in Users /\ customerLink[customerLink[v]] # None
          BY <1>0, <3>2, <5>1 DEF CustomersCounted
        <5> QED
          BY <2>4, <5>1, <5>2
      <4> QED
        BY <4>1, <4>2
    <3>3. customerEvent' # Customers!NoEvent
        => customerEvent'.profile \in Users /\ customerLink'[customerEvent'.profile] # None
      BY <2>1, <2>4 DEF CustomersCounted
    <3> QED
      BY <3>1, <3>2, <3>3 DEF CustomersCounted
  <2>6. CustomersSummed'
    <3> SUFFICES ASSUME ~customerSpoiled', ~customerReused'
                 PROVE  customerMessages' = Total(customerCount',
                                                  CustomersVisible') + (IF customerEvent' = Customers!NoEvent THEN 0 ELSE 1)
      BY DEF CustomersSummed
    <3>1. /\ ~customerSpoiled /\ ~customerReused /\ customerInto[s] = None
          /\ customerInto[g] = None
          /\ ours = customerCount[g] /\ theirs = customerCount[s]
      BY <1>0, <2>1
    <3>2. CustomersVisible' = CustomersVisible \ {s} /\ s \in CustomersVisible
        /\ g \in CustomersVisible'
      BY <1>0, <2>1, <2>2, <2>3, <3>1 DEF CustomersVisible, Customers!Profiles
    <3>3. /\ customerCount[g] \in Nat /\ customerCount[s] \in Nat
          /\ customerCount' \in [Users -> Nat]
          /\ customerCount'[g] = customerCount[g] + customerCount[s]
          /\ \A y \in Users \ {g} : customerCount'[y] = customerCount[y]
      <4>1. ours \in Nat /\ theirs \in Nat /\ ours + theirs \in Nat
        BY <1>0, <2>2, <3>1
      <4>2. customerCount' \in [Users -> Nat] /\ customerCount'[g] = ours + theirs
        BY <1>0, <2>1, <2>2, <4>1
      <4> QED
        BY <1>0, <2>1, <3>1, <4>1, <4>2
    <3>4. Total(customerCount, CustomersVisible) = customerCount[s] + Total(customerCount,
                                                                            CustomersVisible \ {s})
      BY <1>0, <1>00, <3>2, TotalSplits
    <3>5. CustomersVisible \ {s} \in SUBSET Users /\ g \in CustomersVisible \ {s}
      BY <1>00, <3>2
    <3>6. Total(customerCount',
                CustomersVisible \ {s}) = (Total(customerCount,
                                                 CustomersVisible \ {s}) - customerCount[g]) + customerCount'[g]
      BY <1>0, <3>3, <3>5, TotalPut
    <3>7. Total(customerCount, CustomersVisible \ {s}) \in Nat
      BY <1>0, <3>5, TotalNat
    <3>8. customerMessages = Total(customerCount,
                                   CustomersVisible) + (IF customerEvent = Customers!NoEvent THEN 0 ELSE 1)
      BY <3>1 DEF CustomersSummed
    <3>9. Total(customerCount', CustomersVisible') = Total(customerCount, CustomersVisible)
      BY <3>2, <3>3, <3>4, <3>6, <3>7
    <3> QED
      BY <2>1, <3>8, <3>9
  <2> QED
    BY <2>5, <2>6
<1>10. CASE UNCHANGED Customers!vars
  <2>1. UNCHANGED <<customerLink, customerCount, customerInto, customerEvent, customerMessages,
                    customerSpoiled, customerReused>>
    BY <1>10 DEF Customers!vars, Customers!profileVars, Customers!loopVars,
       Customers!histVars, Customers!bounds
  <2> QED
    BY <2>1, CustomersCountsStay
<1>11. ASSUME NEW g \in Tags, Customers!DeactivateTag(g)
       PROVE  CustomersCounted' /\ CustomersSummed'
  <2>1. UNCHANGED <<customerLink, customerCount, customerInto, customerEvent, customerMessages,
                    customerSpoiled, customerReused>>
    BY <1>11 DEF Customers!DeactivateTag, Customers!Request,
       Customers!profileVars, Customers!loopVars, Customers!histVars
  <2> QED
    BY <2>1, CustomersCountsStay
<1> QED
  BY <1>1, <1>2, <1>3, <1>4, <1>5, <1>6, <1>7, <1>8, <1>9, <1>10, <1>11
  DEF Customers!Next, Customers!LoopSteps, Customers!Requests, Customers!MergeSteps

\* Every event is counted on one profile the owner sees, over messages, links
\* moved and merges, unless two transactions overlapped on a row or a profile
\* was merged into one that was merged itself.
THEOREM CustomersCountsAddUpHolds ==
    ASSUME CustomersBounded, IsFiniteSet(Users)
    PROVE  Customers!Spec => []Customers!CountsAddUp
<1>1. Customers!Init => CustomersCounted /\ CustomersSummed
  <2> SUFFICES ASSUME Customers!Init
               PROVE  CustomersCounted /\ CustomersSummed
    OBVIOUS
  <2>1. /\ customerLink = [u \in Users |-> None] /\ customerCount = [p \in Users |-> 0]
        /\ CustomersVisible = Users /\ customerEvent = Customers!NoEvent /\ customerMessages = 0
    BY DEF Customers!Init, CustomersVisible, Customers!Profiles
  <2>2. Total(customerCount, Users) = 0
    BY <2>1, TotalNone
  <2> QED
    BY <2>1, <2>2 DEF CustomersCounted, CustomersSummed
<1>2. CustomersTypeInv /\ CustomersUnborn /\ Customers!LinkIsVisible /\ CustomersCounted
    /\ CustomersSummed /\ [Customers!Next]_(Customers!vars)
        => (CustomersCounted /\ CustomersSummed)'
  BY CustomersSumKept
<1>3. CustomersTypeInv /\ CustomersSummed => Customers!CountsAddUp
  <2> SUFFICES ASSUME CustomersTypeInv, CustomersSummed, ~customerSpoiled, ~customerReused,
                      customerEvent = Customers!NoEvent
               PROVE  customerMessages = Customers!FoldFunctionOnSet(LAMBDA x, y : x + y, 0,
                                                                     customerCount, CustomersVisible)
    BY DEF Customers!CountsAddUp, CustomersVisible
  <2>1. customerMessages = Total(customerCount, CustomersVisible)
    <3>1. Total(customerCount, CustomersVisible) \in Nat
      BY TotalNat DEF CustomersVisible, Customers!Profiles, CustomersTypeInv,
         CustomersProfilesOK
    <3> QED
      BY <3>1 DEF CustomersSummed
  <2> QED
    BY <2>1 DEF Total, Unfolds, Some, Customers!FoldFunctionOnSet,
       Customers!MapThenFoldSet
<1> QED
  BY <1>1, <1>2, <1>3, CustomersTypeInvHolds, CustomersUnbornHolds,
     CustomersLinkIsVisibleHolds, PTL DEF Customers!Spec
-----------------------------------------------------------------------------
(* Recurring jobs                                                            *)

\* The periods as configured; nobody is not a tenant.
JobsTurns ==
    /\ Day \in Nat /\ ReportRetry \in 0..Day /\ ScanRetry \in 0..Day
    /\ None \notin Tenants
    /\ MaxJobFaults \in Nat /\ MaxCrashes \in Nat

\* The loop is at a tenant exactly while it sends his reports.
JobsVisiting ==
    /\ jobCurrent # None <=> jobLoop = "sending"
    /\ jobLoop # "sending" => jobLeft = {}

\* The rows of jobs and what the loop holds across its awaits.
JobsTypeInv == Jobs!TypeOK /\ JobsVisiting

\* What is early is paid for by a broken delivery, and otherwise a report is
\* due again a day after it was sent.
JobsOwed ==
    \A t \in Tenants, r \in Recipients :
        /\ jobEarly[t][r] <= jobBroken[t]
        /\ jobCurrent # t =>
              \/ jobAgo[t][r] + jobDue[t]["meta_insights_report"] >= Day
              \/ jobEarly[t][r] < jobBroken[t]
        /\ jobCurrent = t /\ r \in jobLeft
            => jobAgo[t][r] = Day \/ jobEarly[t][r] < jobBroken[t]

\* It holds over restarts and lost claims.
LEMMA JobsTypeInvHolds ==
    ASSUME JobsTurns
    PROVE  Jobs!Spec => []JobsTypeInv
<1>1. Jobs!Init => JobsTypeInv
  BY DEF Jobs!Init, JobsTypeInv, Jobs!TypeOK, JobsVisiting, JobsTurns,
     Jobs!Jobs, Jobs!Lease
<1>2. ASSUME JobsTypeInv, [Jobs!Next]_(Jobs!vars)
      PROVE  JobsTypeInv'
  <2> USE DEF JobsTypeInv, Jobs!TypeOK, JobsVisiting, JobsTurns, Jobs!Jobs, Jobs!Lease
  <2>1. CASE Jobs!WakeUp
    BY <1>2, <2>1 DEF Jobs!WakeUp
  <2>2. ASSUME NEW t \in Tenants, Jobs!PassOver(t)
        PROVE  JobsTypeInv'
    BY <1>2, <2>2 DEF Jobs!PassOver
  <2>3. ASSUME NEW t \in Tenants, Jobs!ClaimReport(t)
        PROVE  JobsTypeInv'
    BY <1>2, <2>3 DEF Jobs!ClaimReport, Jobs!ClaimDueRecurringJob
  <2>4. ASSUME NEW r \in Recipients, Jobs!PushReport(r)
        PROVE  JobsTypeInv'
    BY <1>2, <2>4 DEF Jobs!PushReport
  <2>5. CASE Jobs!ReportDone
    BY <1>2, <2>5 DEF Jobs!ReportDone, Jobs!MarkUntil
  <2>6. CASE Jobs!RunScans
    BY <1>2, <2>6 DEF Jobs!RunScans, Jobs!Scanned, Jobs!Claimable
  <2>7. CASE Jobs!ReportFails
    BY <1>2, <2>7 DEF Jobs!ReportFails, Jobs!MarkUntil
  <2>8. ASSUME NEW t \in Tenants, Jobs!ScanFails(t)
        PROVE  JobsTypeInv'
    BY <1>2, <2>8 DEF Jobs!ScanFails, Jobs!Scanned, Jobs!Claimable
  <2>9. CASE Jobs!Tick
    <3>1. \A n \in Nat : Jobs!Sooner(n) \in 0..n
      BY DEF Jobs!Sooner
    <3>2. Day \in Nat /\ Day - Day = 0
      OBVIOUS
    <3>3. /\ jobDue' = [t \in Tenants |-> [j \in Jobs!Jobs |-> Jobs!Sooner(jobDue[t][j])]]
          /\ jobLocked' = [t \in Tenants |-> [j \in Jobs!Jobs |-> Jobs!Sooner(jobLocked[t][j])]]
          /\ jobAgo' = [t \in Tenants |-> [r \in Recipients |-> Day - Jobs!Sooner(Day - jobAgo[t][r])]]
          /\ jobWake' = Jobs!Sooner(jobWake)
      BY <2>9 DEF Jobs!Tick
    <3>4. /\ jobDue \in [Tenants -> [Jobs!Jobs -> 0..Day]]
          /\ jobLocked \in [Tenants -> [Jobs!Jobs -> 0..Jobs!Lease]]
          /\ jobAgo \in [Tenants -> [Recipients -> 0..Day]]
      BY <1>2
    <3>5. jobDue' \in [Tenants -> [Jobs!Jobs -> 0..Day]]
      <4>1. ASSUME NEW t \in Tenants, NEW j \in Jobs!Jobs
            PROVE  Jobs!Sooner(jobDue[t][j]) \in 0..Day
        <5>1. jobDue[t][j] \in 0..Day
          BY <3>4
        <5> QED
          BY <3>1, <3>2, <5>1
      <4> QED
        BY <3>3, <4>1
    <3>6. jobLocked' \in [Tenants -> [Jobs!Jobs -> 0..Jobs!Lease]]
      <4>1. ASSUME NEW t \in Tenants, NEW j \in Jobs!Jobs
            PROVE  Jobs!Sooner(jobLocked[t][j]) \in 0..Jobs!Lease
        <5>1. jobLocked[t][j] \in 0..Jobs!Lease
          BY <3>4
        <5> QED
          BY <3>1, <5>1
      <4> QED
        BY <3>3, <4>1
    <3>7. jobAgo' \in [Tenants -> [Recipients -> 0..Day]]
      <4>1. ASSUME NEW t \in Tenants, NEW r \in Recipients
            PROVE  Day - Jobs!Sooner(Day - jobAgo[t][r]) \in 0..Day
        <5>1. jobAgo[t][r] \in 0..Day
          BY <3>4
        <5> QED
          BY <3>1, <3>2, <5>1
      <4> QED
        BY <3>3, <4>1
    <3>8. jobWake' \in {0, 1}
      BY <1>2, <3>3 DEF Jobs!Sooner
    <3> QED
      BY <1>2, <2>9, <3>5, <3>6, <3>7, <3>8 DEF Jobs!Tick
  <2>10. CASE Jobs!Restart
    BY <1>2, <2>10 DEF Jobs!Restart
  <2>11. CASE UNCHANGED Jobs!vars
    BY <1>2, <2>11 DEF Jobs!vars
  <2> QED
    BY <1>2, <2>1, <2>2, <2>3, <2>4, <2>5, <2>6, <2>7, <2>8, <2>9, <2>10,
       <2>11 DEF Jobs!Next, Jobs!LoopStep
<1> QED
  BY <1>1, <1>2, PTL DEF Jobs!Spec

\* A report leaves a day after the one before, unless a delivery broke off and
\* is retried.
LEMMA JobsOwedHolds ==
    ASSUME JobsTurns
    PROVE  Jobs!Spec => []JobsOwed
<1>1. Jobs!Init => JobsOwed
  <2> SUFFICES ASSUME Jobs!Init, NEW t \in Tenants, NEW r \in Recipients
               PROVE  /\ jobEarly[t][r] <= jobBroken[t]
                      /\ jobAgo[t][r] + jobDue[t]["meta_insights_report"] >= Day
                      /\ jobAgo[t][r] = Day
    BY DEF JobsOwed
  <2>1. /\ jobEarly[t][r] = 0 /\ jobBroken[t] = 0 /\ jobAgo[t][r] = Day
        /\ jobDue[t]["meta_insights_report"] = 0
    BY DEF Jobs!Init, Jobs!Jobs
  <2> QED
    BY <2>1 DEF JobsTurns
<1>2. ASSUME JobsTypeInv, JobsOwed, [Jobs!Next]_(Jobs!vars)
      PROVE  JobsOwed'
  <2> USE DEF JobsOwed, JobsTypeInv, Jobs!TypeOK, JobsVisiting, JobsTurns, Jobs!Jobs, Jobs!Lease
  <2>1. CASE Jobs!WakeUp
    BY <1>2, <2>1 DEF Jobs!WakeUp
  <2>2. ASSUME NEW t \in Tenants, Jobs!PassOver(t)
        PROVE  JobsOwed'
    BY <1>2, <2>2 DEF Jobs!PassOver
  <2>3. ASSUME NEW t \in Tenants, Jobs!ClaimReport(t)
        PROVE  JobsOwed'
    <3>1. SUFFICES ASSUME NEW u \in Tenants, NEW r \in Recipients
                   PROVE  /\ jobEarly[u][r] <= jobBroken[u]
                          /\ t # u =>
                                \/ jobAgo[u][r] + jobDue[u]["meta_insights_report"] >= Day
                                \/ jobEarly[u][r] < jobBroken[u]
                          /\ t = u => jobAgo[u][r] = Day \/ jobEarly[u][r] < jobBroken[u]
      BY <2>3 DEF Jobs!ClaimReport
    <3>2. /\ jobAgo[u][r] \in 0..Day /\ jobEarly[u][r] \in Nat /\ jobBroken[u] \in Nat
          /\ jobDue[t]["meta_insights_report"] = 0 /\ jobCurrent = None
          /\ None \notin Tenants /\ Day \in Nat
      BY <1>2, <2>3 DEF Jobs!ClaimReport, Jobs!ClaimDueRecurringJob
    <3> QED
      BY <1>2, <3>2
  <2>4. ASSUME NEW r \in Recipients, Jobs!PushReport(r)
        PROVE  JobsOwed'
    BY <1>2, <2>4 DEF Jobs!PushReport
  <2>5. CASE Jobs!ReportDone
    BY <1>2, <2>5 DEF Jobs!ReportDone, Jobs!MarkUntil
  <2>6. CASE Jobs!RunScans
    BY <1>2, <2>6 DEF Jobs!RunScans, Jobs!Scanned, Jobs!Claimable
  <2>7. CASE Jobs!ReportFails
    BY <1>2, <2>7 DEF Jobs!ReportFails, Jobs!MarkUntil
  <2>8. ASSUME NEW t \in Tenants, Jobs!ScanFails(t)
        PROVE  JobsOwed'
    BY <1>2, <2>8 DEF Jobs!ScanFails, Jobs!Scanned, Jobs!Claimable
  <2>9. CASE Jobs!Tick
    <3>1. SUFFICES ASSUME NEW t \in Tenants, NEW r \in Recipients
                   PROVE  /\ jobEarly[t][r] <= jobBroken[t]
                          /\ jobCurrent # t =>
                                \/ jobAgo'[t][r] + jobDue'[t]["meta_insights_report"] >= Day
                                \/ jobEarly[t][r] < jobBroken[t]
                          /\ jobCurrent = t /\ r \in jobLeft
                              => jobAgo'[t][r] = Day \/ jobEarly[t][r] < jobBroken[t]
      BY <2>9 DEF Jobs!Tick
    <3>2. /\ jobAgo[t][r] \in 0..Day /\ jobDue[t]["meta_insights_report"] \in 0..Day
          /\ jobEarly[t][r] \in Nat /\ jobBroken[t] \in Nat /\ Day \in Nat
      BY <1>2
    <3>3. /\ jobAgo'[t][r] = Day - Jobs!Sooner(Day - jobAgo[t][r])
          /\ jobDue'[t]["meta_insights_report"] = Jobs!Sooner(jobDue[t]["meta_insights_report"])
      BY <2>9 DEF Jobs!Tick
    <3>4. /\ jobEarly[t][r] <= jobBroken[t]
          /\ jobCurrent # t =>
                \/ jobAgo[t][r] + jobDue[t]["meta_insights_report"] >= Day
                \/ jobEarly[t][r] < jobBroken[t]
          /\ jobCurrent = t /\ r \in jobLeft
              => jobAgo[t][r] = Day \/ jobEarly[t][r] < jobBroken[t]
      BY <1>2
    <3> HIDE DEF JobsOwed, JobsTypeInv, Jobs!TypeOK, JobsVisiting, JobsTurns
    <3> QED
      BY <3>2, <3>3, <3>4 DEF Jobs!Sooner
  <2>10. CASE Jobs!Restart
    BY <1>2, <2>10 DEF Jobs!Restart
  <2>11. CASE UNCHANGED Jobs!vars
    BY <1>2, <2>11 DEF Jobs!vars
  <2> QED
    BY <1>2, <2>1, <2>2, <2>3, <2>4, <2>5, <2>6, <2>7, <2>8, <2>9, <2>10,
       <2>11 DEF Jobs!Next, Jobs!LoopStep
<1> QED
  BY <1>1, <1>2, JobsTypeInvHolds, PTL DEF Jobs!Spec
-----------------------------------------------------------------------------
(* Onboarding                                                                *)

\* The bounds are numbers.
BoardingBounded == MaxDetours \in Nat /\ MaxCrashes \in Nat

\* What the knowledge base keeps: answers, sites and summaries.
BoardingEntry == Answers \union Sites \union [Boarding!Fields -> Names \union {None}]

\* The steps of the dialogue, in order.
BoardingStepNames == {"new", "asking_name", "asking_industry", "asking_sleep_threshold",
                      "asking_address",
                      "awaiting_docs", "interview_q1", "interview_q2", "interview_q3",
                      "completed"}

\* Every variable is in its set, the kept entries too.
BoardingRowsOK ==
    /\ boardingStep \in BoardingStepNames
    /\ boardingProfile \in [Boarding!Fields -> Names \union {None}]
    /\ boardingEntries \in [Boarding!Categories -> Seq(BoardingEntry)]
    /\ boardingWebsite \in [{"website_source_url", "website_summary"} -> SUBSET Sites]
    /\ boardingReading \subseteq Sites
    /\ boardingSaid \in [Boarding!Questions -> Answers \union {None}]
    /\ boardingTorn \in [Boarding!Categories -> Nat]
    /\ boardingDetours \in 0 .. MaxDetours /\ boardingCrashes \in 0 .. MaxCrashes
    /\ \A c \in Boarding!Categories : boardingTorn[c] <= boardingCrashes

\* It contains the type invariant of the model.
LEMMA BoardingRowsAreTyped ==
    ASSUME BoardingBounded
    PROVE  BoardingRowsOK => Boarding!TypeOK
<1>1. BoardingStepNames \subseteq Boarding!Steps
  BY DEF BoardingStepNames, Boarding!Steps, Boarding!Following
<1> QED
  BY <1>1 DEF BoardingRowsOK, Boarding!TypeOK, BoardingEntry, BoardingBounded

\* The question a field is asked by.
BoardingAsked == [core_value |-> "interview_q1", pain_point |-> "interview_q2",
                  goal |-> "interview_q3"]

\* The dialogue has left the question behind.
BoardingPassed(q) ==
    \/ boardingStep = "completed"
    \/ boardingStep = "interview_q3" /\ q # "interview_q3"
    \/ boardingStep = "interview_q2" /\ q = "interview_q1"

\* Who left a question behind has its last answer kept last, and others are
\* paid for by a crash.
BoardingAnswered(q) ==
    LET kept == boardingEntries[Boarding!Category[q]]
        n == boardingTorn[Boarding!Category[q]]
    IN  IF BoardingPassed(q) THEN Len(kept) \in 1 .. 1 + n /\ kept[Len(kept)] = boardingSaid[q]
                             ELSE Len(kept) <= n

\* The summary is the last entry of its category, once the dialogue is
\* finished.
BoardingSummed ==
    /\ Len(boardingEntries["basic_info"]) <= boardingTorn["basic_info"] + (IF boardingStep = "completed" THEN 1 ELSE 0)
    /\ boardingStep = "completed" => Len(boardingEntries["basic_info"]) >= 1
    /\ boardingStep \in Boarding!Fields \cup {"new"} => boardingEntries["basic_info"] = <<>>
    /\ \A i \in 1 .. Len(boardingEntries["basic_info"]) : boardingEntries["basic_info"][i] = boardingProfile

\* The inductive invariant of the interview.
BoardingBoardInv ==
    /\ BoardingAnswered("interview_q1") /\ BoardingAnswered("interview_q2")
    /\ BoardingAnswered("interview_q3")
    /\ BoardingSummed

\* What appending to a list changes.
LEMMA BoardingAppendIs ==
    ASSUME NEW S, NEW s \in Seq(S), NEW x \in S
    PROVE  /\ Append(s, x) \in Seq(S) /\ Len(Append(s, x)) = Len(s) + 1
           /\ Append(s, x)[Len(Append(s, x))] = x
           /\ \A i \in 1 .. Len(s) : Append(s, x)[i] = s[i]
           /\ Len(s) \in Nat
  OBVIOUS

\* Keeping an answer touches its category and, at the end, the summary's.
LEMMA BoardingKeptIs ==
    ASSUME BoardingRowsOK, NEW a \in Answers, boardingStep \in Boarding!Questions
    PROVE  /\ Boarding!Kept(a) \in [Boarding!Categories -> Seq(BoardingEntry)]
           /\ Boarding!Kept(a)[Boarding!Category[boardingStep]] = Append(boardingEntries[Boarding!Category[boardingStep]], a)
           /\ boardingStep = "interview_q3"
               => Boarding!Kept(a)["basic_info"] = Append(boardingEntries["basic_info"],
                                                          boardingProfile)
           /\ \A c \in Boarding!Categories :
                c # Boarding!Category[boardingStep]
                    /\ ~(boardingStep = "interview_q3" /\ c = "basic_info")
                        => Boarding!Kept(a)[c] = boardingEntries[c]
<1> DEFINE c == Boarding!Category[boardingStep]
           e == [boardingEntries EXCEPT ![c] = Append(@, a)]
<1>1. c \in Boarding!Categories /\ c # "basic_info"
  BY DEF Boarding!Category, Boarding!Categories, Boarding!Questions
<1>2. a \in BoardingEntry /\ boardingProfile \in BoardingEntry
    /\ "basic_info" \in Boarding!Categories
  BY DEF BoardingEntry, BoardingRowsOK, Boarding!Categories
<1>3. Boarding!Kept(a) = IF boardingStep = "interview_q3"
                         THEN [e EXCEPT !["basic_info"] = Append(@, boardingProfile)] ELSE e
  BY DEF Boarding!Kept
<1>4. boardingEntries \in [Boarding!Categories -> Seq(BoardingEntry)]
  BY DEF BoardingRowsOK
<1> HIDE DEF c
<1>5. /\ e \in [Boarding!Categories -> Seq(BoardingEntry)]
      /\ e[c] = Append(boardingEntries[c], a)
      /\ \A d \in Boarding!Categories \ {c} : e[d] = boardingEntries[d]
  BY <1>1, <1>2, <1>4, BoardingAppendIs
<1> HIDE DEF e
<1>6. CASE boardingStep = "interview_q3"
  <2> DEFINE f == [e EXCEPT !["basic_info"] = Append(@, boardingProfile)]
  <2>1. /\ f \in [Boarding!Categories -> Seq(BoardingEntry)]
        /\ f["basic_info"] = Append(e["basic_info"], boardingProfile)
        /\ \A d \in Boarding!Categories \ {"basic_info"} : f[d] = e[d]
    BY <1>2, <1>5, BoardingAppendIs
  <2> QED
    BY <1>1, <1>2, <1>3, <1>5, <1>6, <2>1 DEF c
<1>7. CASE boardingStep # "interview_q3"
  BY <1>1, <1>3, <1>5, <1>7 DEF c
<1> QED
  BY <1>6, <1>7

\* Every variable stays in its set.
LEMMA BoardingRowsHold ==
    ASSUME BoardingBounded
    PROVE  Boarding!Spec => []BoardingRowsOK
<1>1. Boarding!Init => BoardingRowsOK
  BY DEF Boarding!Init, BoardingRowsOK, BoardingStepNames, BoardingBounded,
     BoardingEntry
<1>2. ASSUME BoardingRowsOK, [Boarding!Next]_(Boarding!vars)
      PROVE  BoardingRowsOK'
  <2> USE DEF BoardingRowsOK, BoardingStepNames, BoardingBounded, Boarding!Questions
  <2>1. CASE Boarding!Open
    BY <1>2, <2>1 DEF Boarding!Open, Boarding!Following
  <2>2. CASE Boarding!SkipDocs
    BY <1>2, <2>2 DEF Boarding!SkipDocs, Boarding!Following
  <2>3. ASSUME NEW n \in Names, Boarding!Tell(n)
        PROVE  BoardingRowsOK'
    BY <1>2, <2>3 DEF Boarding!Tell, Boarding!Following, Boarding!Fields
  <2>4. ASSUME NEW a \in Answers, Boarding!Answer(a)
        PROVE  BoardingRowsOK'
    BY <1>2, <2>4, BoardingKeptIs DEF Boarding!Answer, Boarding!Following
  <2>5. ASSUME NEW a \in Answers, Boarding!AnswerTorn(a)
        PROVE  BoardingRowsOK'
    <3>1. boardingStep \in Boarding!Questions
        /\ UNCHANGED <<boardingStep, boardingProfile, boardingWebsite, boardingSaid,
                       boardingDetours>> /\ boardingReading' = {}
          /\ boardingCrashes' = boardingCrashes + 1 /\ boardingCrashes' \in 0 .. MaxCrashes
      BY <1>2, <2>5 DEF Boarding!AnswerTorn
    <3>2. PICK e \in {Boarding!Kept(a),
                      [boardingEntries EXCEPT ![Boarding!Category[boardingStep]] = Append(@,
                                                                                          a)]} : boardingEntries' = e
      BY <2>5 DEF Boarding!AnswerTorn
    <3>3. boardingEntries' \in [Boarding!Categories -> Seq(BoardingEntry)]
        /\ \A c \in Boarding!Categories : Len(boardingEntries'[c]) - Len(boardingEntries[c]) \in {0, 1}
      <4>1. Boarding!Category[boardingStep] \in Boarding!Categories /\ a \in BoardingEntry
          /\ boardingEntries \in [Boarding!Categories -> Seq(BoardingEntry)]
          /\ boardingProfile \in BoardingEntry
        BY <1>2, <2>5, <3>1 DEF Boarding!Category, Boarding!Categories,
           BoardingEntry
      <4>2. CASE boardingEntries' = Boarding!Kept(a)
        <5>1. BoardingRowsOK /\ Boarding!Kept(a) \in [Boarding!Categories -> Seq(BoardingEntry)]
          BY <1>2, <2>5, <3>1, BoardingKeptIs
        <5>2. ASSUME NEW c \in Boarding!Categories
              PROVE  Len(Boarding!Kept(a)[c]) - Len(boardingEntries[c]) \in {0, 1}
          <6> HIDE DEF BoardingRowsOK
          <6>1. CASE c = Boarding!Category[boardingStep]
            BY <2>5, <3>1, <4>1, <5>1, <6>1, BoardingKeptIs, BoardingAppendIs
          <6>2. CASE c = "basic_info" /\ boardingStep = "interview_q3"
            BY <2>5, <3>1, <4>1, <5>1, <6>2, BoardingKeptIs, BoardingAppendIs
          <6>3. CASE c # Boarding!Category[boardingStep]
              /\ ~(boardingStep = "interview_q3" /\ c = "basic_info")
            BY <2>5, <3>1, <4>1, <5>1, <6>3, BoardingKeptIs
          <6> QED
            BY <6>1, <6>2, <6>3
        <5> QED
          BY <4>2, <5>1, <5>2
      <4>3. CASE boardingEntries' = [boardingEntries EXCEPT ![Boarding!Category[boardingStep]] = Append(@, a)]
        BY <4>1, <4>3, BoardingAppendIs
      <4> QED
        BY <3>2, <4>2, <4>3
    <3>4. /\ boardingTorn' = [c \in Boarding!Categories |-> boardingTorn[c] + Len(boardingEntries'[c]) - Len(boardingEntries[c])]
      BY <2>5 DEF Boarding!AnswerTorn
    <3>5. \A c \in Boarding!Categories : boardingTorn'[c] \in Nat
        /\ boardingTorn'[c] <= boardingCrashes'
      <4> SUFFICES ASSUME NEW c \in Boarding!Categories
                   PROVE  boardingTorn'[c] \in Nat /\ boardingTorn'[c] <= boardingCrashes'
        OBVIOUS
      <4>1. boardingTorn'[c] = boardingTorn[c] + Len(boardingEntries'[c]) - Len(boardingEntries[c]) /\ boardingTorn[c] \in Nat /\ boardingTorn[c] <= boardingCrashes
            /\ Len(boardingEntries'[c]) \in Nat /\ Len(boardingEntries[c]) \in Nat
        BY <1>2, <3>3, <3>4
      <4> QED
        BY <1>2, <3>1, <3>3, <4>1
    <3>6. boardingTorn' \in [Boarding!Categories -> Nat]
      BY <3>4, <3>5
    <3> QED
      BY <1>2, <3>1, <3>3, <3>5, <3>6
  <2>6. ASSUME NEW m \in Answers \union Sites, Boarding!Material(m)
        PROVE  BoardingRowsOK'
    <3>1. m \in BoardingEntry /\ "brand_material" \in Boarding!Categories
      BY <2>6 DEF BoardingEntry, Boarding!Categories
    <3>2. boardingEntries' \in [Boarding!Categories -> Seq(BoardingEntry)]
      BY <1>2, <2>6, <3>1, BoardingAppendIs DEF Boarding!Material
    <3>3. boardingReading' \subseteq Sites /\ boardingDetours' \in 0 .. MaxDetours
      BY <1>2, <2>6 DEF Boarding!Material, Boarding!Detour
    <3> QED
      BY <1>2, <2>6, <3>2, <3>3 DEF Boarding!Material
  <2>7. ASSUME NEW s \in Sites, Boarding!PersistResult(s)
        PROVE  BoardingRowsOK'
    <3>1. boardingWebsite' \in [{"website_source_url", "website_summary"} -> SUBSET Sites]
      <4>1. DOMAIN boardingWebsite = {"website_source_url", "website_summary"}
        BY <1>2
      <4>2. CASE boardingWebsite' = [c \in DOMAIN boardingWebsite |-> {s}]
        BY <2>7, <4>1, <4>2
      <4>3. ASSUME NEW saved \in SUBSET {"website_source_url"},
                   boardingWebsite' = [c \in DOMAIN boardingWebsite |-> IF c \in saved THEN {s} ELSE {}]
            PROVE  boardingWebsite' \in [{"website_source_url",
                                          "website_summary"} -> SUBSET Sites]
        BY <2>7, <4>1, <4>3
      <4> QED
        BY <2>7, <4>2, <4>3 DEF Boarding!PersistResult
    <3>2. boardingReading' \subseteq Sites /\ boardingCrashes' \in 0 .. MaxCrashes
        /\ boardingCrashes <= boardingCrashes'
      BY <1>2, <2>7 DEF Boarding!PersistResult
    <3> QED
      BY <1>2, <2>7, <3>1, <3>2 DEF Boarding!PersistResult
  <2>8. ASSUME NEW s \in Sites, Boarding!FetchFails(s)
        PROVE  BoardingRowsOK'
    BY <1>2, <2>8 DEF Boarding!FetchFails
  <2>9. ASSUME NEW back \in Boarding!Questions, Boarding!Redo(back)
        PROVE  BoardingRowsOK'
    BY <1>2, <2>9 DEF Boarding!Redo, Boarding!Detour, Boarding!Erased
  <2>10. CASE Boarding!Restart
    BY <1>2, <2>10 DEF Boarding!Restart
  <2>11. CASE UNCHANGED Boarding!vars
    BY <1>2, <2>11 DEF Boarding!vars
  <2> QED
    BY <1>2, <2>1, <2>2, <2>3, <2>4, <2>5, <2>6, <2>7, <2>8, <2>9, <2>10,
       <2>11 DEF Boarding!Next
<1> QED
  BY <1>1, <1>2, PTL DEF Boarding!Spec

\* It holds over detours and over a crash between answer and step.
LEMMA BoardingBoardInvHolds ==
    ASSUME BoardingBounded
    PROVE  Boarding!Spec => []BoardingBoardInv
<1>1. Boarding!Init => BoardingBoardInv
  BY DEF Boarding!Init, BoardingBoardInv, BoardingAnswered, BoardingPassed,
     BoardingSummed, Boarding!Category, Boarding!Categories
<1>2. ASSUME BoardingRowsOK, BoardingBoardInv, [Boarding!Next]_(Boarding!vars)
      PROVE  BoardingBoardInv'
  <2> USE DEF BoardingBoardInv, BoardingAnswered, BoardingPassed, BoardingSummed,
              BoardingRowsOK, Boarding!Category, Boarding!Categories, Boarding!Questions
  <2>1. CASE Boarding!Open
    BY <1>2, <2>1 DEF Boarding!Open, Boarding!Following, Boarding!Fields
  <2>2. CASE Boarding!SkipDocs
    BY <1>2, <2>2 DEF Boarding!SkipDocs, Boarding!Following, Boarding!Fields
  <2>3. ASSUME NEW n \in Names, Boarding!Tell(n)
        PROVE  BoardingBoardInv'
    <3>1. /\ boardingStep \in {"asking_name", "asking_industry", "asking_sleep_threshold",
                               "asking_address"}
          /\ boardingStep' \in {"asking_name", "asking_industry", "asking_sleep_threshold",
                                "asking_address",
                               "awaiting_docs"}
          /\ UNCHANGED <<boardingEntries, boardingSaid, boardingTorn>>
      BY <2>3 DEF Boarding!Tell, Boarding!Following, Boarding!Fields
    <3>2. boardingEntries["basic_info"] = <<>> /\ Len(<<>>) = 0
      BY <1>2, <3>1 DEF Boarding!Fields
    <3> QED
      BY <1>2, <3>1, <3>2
  <2>4. ASSUME NEW a \in Answers, Boarding!Answer(a)
        PROVE  BoardingBoardInv'
    <3>1. /\ boardingStep \in Boarding!Questions /\ boardingEntries' = Boarding!Kept(a)
          /\ boardingSaid' = [boardingSaid EXCEPT ![boardingStep] = a]
          /\ boardingStep' = Boarding!Following[boardingStep]
          /\ boardingProfile' = boardingProfile /\ boardingTorn' = boardingTorn
      BY <2>4 DEF Boarding!Answer
    <3>2. boardingEntries \in [Boarding!Categories -> Seq(BoardingEntry)]
        /\ boardingTorn \in [Boarding!Categories -> Nat]
      BY <1>2
    <3>3. BoardingRowsOK
      BY <1>2
    <3>4. a \in BoardingEntry /\ boardingProfile \in BoardingEntry
      BY <1>2, <2>4 DEF BoardingEntry
    <3>5. CASE boardingStep = "interview_q1"
      <4>1. /\ boardingEntries'["core_value"] = Append(boardingEntries["core_value"], a)
            /\ boardingEntries'["pain_point"] = boardingEntries["pain_point"]
            /\ boardingEntries'["goal"] = boardingEntries["goal"]
            /\ boardingEntries'["basic_info"] = boardingEntries["basic_info"]
        <5> HIDE DEF BoardingRowsOK
        <5> QED
          BY <2>4, <3>1, <3>3, <3>5, BoardingKeptIs
      <4>2. boardingStep' = "interview_q2" /\ boardingSaid'["interview_q1"] = a
        BY <1>2, <3>1, <3>5 DEF Boarding!Following
      <4>3. /\ Len(boardingEntries'["core_value"]) = Len(boardingEntries["core_value"]) + 1
            /\ boardingEntries'["core_value"][Len(boardingEntries'["core_value"])] = a
            /\ Len(boardingEntries["core_value"]) \in Nat
        BY <3>2, <3>4, <4>1, BoardingAppendIs
      <4>4. BoardingAnswered("interview_q1")'
        BY <1>2, <3>1, <3>2, <3>5, <4>1, <4>2, <4>3
      <4>5. BoardingAnswered("interview_q2")'
        BY <1>2, <3>1, <3>2, <3>5, <4>1, <4>2, <4>3
      <4>6. BoardingAnswered("interview_q3")'
        BY <1>2, <3>1, <3>2, <3>5, <4>1, <4>2, <4>3
      <4>7. BoardingSummed'
        BY <1>2, <3>1, <3>2, <3>5, <4>1, <4>2 DEF Boarding!Fields
      <4> QED
        BY <4>4, <4>5, <4>6, <4>7
    <3>6. CASE boardingStep = "interview_q2"
      <4>1. /\ boardingEntries'["pain_point"] = Append(boardingEntries["pain_point"], a)
            /\ boardingEntries'["core_value"] = boardingEntries["core_value"]
            /\ boardingEntries'["goal"] = boardingEntries["goal"]
            /\ boardingEntries'["basic_info"] = boardingEntries["basic_info"]
        <5> HIDE DEF BoardingRowsOK
        <5> QED
          BY <2>4, <3>1, <3>3, <3>6, BoardingKeptIs
      <4>2. boardingStep' = "interview_q3" /\ boardingSaid'["interview_q2"] = a
          /\ boardingSaid'["interview_q1"] = boardingSaid["interview_q1"]
        BY <1>2, <3>1, <3>6 DEF Boarding!Following
      <4>3. /\ Len(boardingEntries'["pain_point"]) = Len(boardingEntries["pain_point"]) + 1
            /\ boardingEntries'["pain_point"][Len(boardingEntries'["pain_point"])] = a
            /\ Len(boardingEntries["pain_point"]) \in Nat
        BY <3>2, <3>4, <4>1, BoardingAppendIs
      <4>4. BoardingAnswered("interview_q1")'
        BY <1>2, <3>1, <3>2, <3>6, <4>1, <4>2, <4>3
      <4>5. BoardingAnswered("interview_q2")'
        <5>1. Len(boardingEntries["pain_point"]) <= boardingTorn["pain_point"]
            /\ boardingTorn["pain_point"] \in Nat
          BY <1>2, <3>2, <3>6
        <5>2. Len(boardingEntries'["pain_point"]) \in 1 .. 1 + boardingTorn'["pain_point"]
          BY <3>1, <4>3, <5>1
        <5> QED
          BY <4>2, <4>3, <5>2
      <4>6. BoardingAnswered("interview_q3")'
        BY <1>2, <3>1, <3>2, <3>6, <4>1, <4>2, <4>3
      <4>7. BoardingSummed'
        BY <1>2, <3>1, <3>2, <3>6, <4>1, <4>2 DEF Boarding!Fields
      <4> QED
        BY <4>4, <4>5, <4>6, <4>7
    <3>7. CASE boardingStep = "interview_q3"
      <4>1. /\ boardingEntries'["goal"] = Append(boardingEntries["goal"], a)
            /\ boardingEntries'["core_value"] = boardingEntries["core_value"]
            /\ boardingEntries'["pain_point"] = boardingEntries["pain_point"]
            /\ boardingEntries'["basic_info"] = Append(boardingEntries["basic_info"],
                                                       boardingProfile)
        <5> HIDE DEF BoardingRowsOK
        <5> QED
          BY <2>4, <3>1, <3>3, <3>7, BoardingKeptIs
      <4>2. /\ boardingStep' = "completed" /\ boardingSaid'["interview_q3"] = a
            /\ boardingSaid'["interview_q1"] = boardingSaid["interview_q1"]
            /\ boardingSaid'["interview_q2"] = boardingSaid["interview_q2"]
        BY <1>2, <3>1, <3>7 DEF Boarding!Following
      <4>3. /\ Len(boardingEntries'["goal"]) = Len(boardingEntries["goal"]) + 1
            /\ boardingEntries'["goal"][Len(boardingEntries'["goal"])] = a
            /\ Len(boardingEntries["goal"]) \in Nat
        BY <3>2, <3>4, <4>1, BoardingAppendIs
      <4>4. /\ Len(boardingEntries'["basic_info"]) = Len(boardingEntries["basic_info"]) + 1
            /\ boardingEntries'["basic_info"][Len(boardingEntries'["basic_info"])] = boardingProfile
            /\ \A i \in 1 .. Len(boardingEntries["basic_info"]) : boardingEntries'["basic_info"][i] = boardingEntries["basic_info"][i]
            /\ Len(boardingEntries["basic_info"]) \in Nat
        BY <3>2, <3>4, <4>1, BoardingAppendIs
      <4>5. BoardingSummed'
        <5>1. \A i \in 1 .. Len(boardingEntries'["basic_info"]) : boardingEntries'["basic_info"][i] = boardingProfile
          <6>1. \A i \in 1 .. Len(boardingEntries["basic_info"]) : boardingEntries["basic_info"][i] = boardingProfile
            BY <1>2
          <6> QED
            BY <4>4, <6>1
        <5>2. /\ Len(boardingEntries'["basic_info"]) <= boardingTorn'["basic_info"] + 1
              /\ Len(boardingEntries'["basic_info"]) >= 1
          <6>1. Len(boardingEntries["basic_info"]) <= boardingTorn["basic_info"] + 0
              /\ boardingTorn["basic_info"] \in Nat
            BY <1>2, <3>2, <3>7
          <6> QED
            BY <3>1, <4>4, <6>1
        <5> QED
          BY <3>1, <4>2, <5>1, <5>2 DEF Boarding!Fields
      <4>7. BoardingAnswered("interview_q1")'
        BY <1>2, <3>1, <3>2, <3>7, <4>1, <4>2
      <4>8. BoardingAnswered("interview_q2")'
        BY <1>2, <3>1, <3>2, <3>7, <4>1, <4>2
      <4>9. BoardingAnswered("interview_q3")'
        <5>1. Len(boardingEntries["goal"]) <= boardingTorn["goal"]
            /\ boardingTorn["goal"] \in Nat
          BY <1>2, <3>2, <3>7
        <5>2. Len(boardingEntries'["goal"]) \in 1 .. 1 + boardingTorn'["goal"]
          BY <3>1, <4>3, <5>1
        <5> QED
          BY <4>2, <4>3, <5>2
      <4>6. BoardingAnswered("interview_q1")' /\ BoardingAnswered("interview_q2")'
          /\ BoardingAnswered("interview_q3")'
        BY <4>7, <4>8, <4>9
      <4> QED
        BY <4>5, <4>6
    <3> QED
      BY <3>1, <3>5, <3>6, <3>7
  <2>5. ASSUME NEW a \in Answers, Boarding!AnswerTorn(a)
        PROVE  BoardingBoardInv'
    <3>1. /\ boardingStep \in Boarding!Questions
          /\ UNCHANGED <<boardingStep, boardingProfile, boardingSaid>>
          /\ boardingEntries' \in {Boarding!Kept(a),
                                   [boardingEntries EXCEPT ![Boarding!Category[boardingStep]] = Append(@, a)]}
          /\ boardingTorn' = [c \in Boarding!Categories |-> boardingTorn[c] + Len(boardingEntries'[c]) - Len(boardingEntries[c])]
      BY <2>5 DEF Boarding!AnswerTorn
    <3>2. boardingEntries \in [Boarding!Categories -> Seq(BoardingEntry)]
        /\ boardingTorn \in [Boarding!Categories -> Nat]
      BY <1>2
    <3>3. BoardingRowsOK /\ a \in BoardingEntry /\ boardingProfile \in BoardingEntry
      BY <1>2, <2>5 DEF BoardingEntry
    <3>4. \A c \in Boarding!Categories :
            \/ boardingEntries'[c] = boardingEntries[c]
            \/ boardingEntries'[c] = Append(boardingEntries[c], a)
                /\ c = Boarding!Category[boardingStep]
            \/ boardingEntries'[c] = Append(boardingEntries[c], boardingProfile)
                /\ c = "basic_info" /\ boardingStep = "interview_q3"
      <4>1. CASE boardingEntries' = Boarding!Kept(a)
        <5> HIDE DEF BoardingRowsOK, Boarding!Categories, Boarding!Category
        <5> QED
          BY <2>5, <3>1, <3>3, <4>1, BoardingKeptIs
      <4>2. CASE boardingEntries' = [boardingEntries EXCEPT ![Boarding!Category[boardingStep]] = Append(@, a)]
        BY <3>1, <3>2, <4>2
      <4> QED
        BY <3>1, <4>1, <4>2
    <3>5. \A c \in Boarding!Categories :
            /\ Len(boardingEntries[c]) \in Nat
            /\ \/ boardingEntries'[c] = boardingEntries[c] /\ boardingTorn'[c] = boardingTorn[c]
               \/ Len(boardingEntries'[c]) = Len(boardingEntries[c]) + 1
                   /\ boardingTorn'[c] = boardingTorn[c] + 1
      <4> SUFFICES ASSUME NEW c \in Boarding!Categories
                   PROVE  /\ Len(boardingEntries[c]) \in Nat
                          /\ \/ boardingEntries'[c] = boardingEntries[c]
                                /\ boardingTorn'[c] = boardingTorn[c]
                             \/ Len(boardingEntries'[c]) = Len(boardingEntries[c]) + 1
                                 /\ boardingTorn'[c] = boardingTorn[c] + 1
        OBVIOUS
      <4>1. boardingTorn'[c] = boardingTorn[c] + Len(boardingEntries'[c]) - Len(boardingEntries[c]) /\ boardingTorn[c] \in Nat
            /\ boardingEntries[c] \in Seq(BoardingEntry)
        BY <3>1, <3>2
      <4> HIDE DEF Boarding!Categories, Boarding!Category
      <4> QED
        BY <3>3, <3>4, <4>1, BoardingAppendIs
    <3>6. ASSUME NEW q \in Boarding!Questions, BoardingAnswered(q)
          PROVE  BoardingAnswered(q)'
      <4> DEFINE c == Boarding!Category[q]
      <4>1. c \in Boarding!Categories /\ c # "basic_info"
          /\ (BoardingPassed(q) => c # Boarding!Category[boardingStep])
        BY <3>1
      <4>2. CASE BoardingPassed(q)
        <5>1. boardingEntries'[c] = boardingEntries[c] /\ boardingTorn'[c] = boardingTorn[c]
          BY <3>4, <3>5, <4>1, <4>2
        <5> QED
          BY <3>1, <3>6, <5>1, <4>2
      <4>3. CASE ~BoardingPassed(q)
        <5>1. Len(boardingEntries'[c]) <= boardingTorn'[c]
          <6>1. Len(boardingEntries[c]) <= boardingTorn[c]
            BY <3>6, <4>3
          <6>2. Len(boardingEntries[c]) \in Nat /\ boardingTorn[c] \in Nat
            BY <3>2, <3>5, <4>1
          <6> HIDE DEF c
          <6> QED
            <7>1. \/ boardingEntries'[c] = boardingEntries[c]
                     /\ boardingTorn'[c] = boardingTorn[c]
                  \/ Len(boardingEntries'[c]) = Len(boardingEntries[c]) + 1
                      /\ boardingTorn'[c] = boardingTorn[c] + 1
              BY <3>5, <4>1
            <7> QED
              BY <6>1, <6>2, <7>1
        <5> QED
          BY <3>1, <4>3, <5>1
      <4> QED
        BY <4>2, <4>3
    <3>7. BoardingSummed'
      <4>1. \/ boardingEntries'["basic_info"] = boardingEntries["basic_info"]
               /\ boardingTorn'["basic_info"] = boardingTorn["basic_info"]
            \/ /\ boardingEntries'["basic_info"] = Append(boardingEntries["basic_info"],
                                                          boardingProfile)
               /\ boardingTorn'["basic_info"] = boardingTorn["basic_info"] + 1
        <5>1. "basic_info" \in Boarding!Categories
            /\ "basic_info" # Boarding!Category[boardingStep]
          BY <3>1
        <5>2. \/ boardingEntries'["basic_info"] = boardingEntries["basic_info"]
              \/ boardingEntries'["basic_info"] = Append(boardingEntries["basic_info"],
                                                         boardingProfile)
          BY <3>4, <5>1
        <5>3. Append(boardingEntries["basic_info"],
                     boardingProfile) # boardingEntries["basic_info"]
          BY <3>2, <3>3, <5>1, BoardingAppendIs
        <5>4. boardingTorn["basic_info"] + 1 # boardingTorn["basic_info"]
          BY <3>2, <5>1
        <5>5. Len(Append(boardingEntries["basic_info"],
                         boardingProfile)) = Len(boardingEntries["basic_info"]) + 1
          BY <3>2, <3>3, <5>1, BoardingAppendIs
        <5>6. /\ Len(boardingEntries["basic_info"]) \in Nat
              /\ \/ boardingEntries'["basic_info"] = boardingEntries["basic_info"]
                    /\ boardingTorn'["basic_info"] = boardingTorn["basic_info"]
                 \/ /\ Len(boardingEntries'["basic_info"]) = Len(boardingEntries["basic_info"]) + 1
                    /\ boardingTorn'["basic_info"] = boardingTorn["basic_info"] + 1
          BY <3>5, <5>1
        <5> QED
          BY <5>2, <5>3, <5>6
      <4>2. CASE boardingEntries'["basic_info"] = boardingEntries["basic_info"]
          /\ boardingTorn'["basic_info"] = boardingTorn["basic_info"]
        BY <1>2, <3>1, <4>2
      <4>3. CASE /\ boardingEntries'["basic_info"] = Append(boardingEntries["basic_info"],
                                                            boardingProfile)
                 /\ boardingTorn'["basic_info"] = boardingTorn["basic_info"] + 1
        <5>1. /\ Len(boardingEntries'["basic_info"]) = Len(boardingEntries["basic_info"]) + 1
              /\ boardingEntries'["basic_info"][Len(boardingEntries'["basic_info"])] = boardingProfile
              /\ \A i \in 1 .. Len(boardingEntries["basic_info"]) : boardingEntries'["basic_info"][i] = boardingEntries["basic_info"][i]
              /\ Len(boardingEntries["basic_info"]) \in Nat
          BY <3>2, <3>3, <4>3, BoardingAppendIs
        <5>2. \A i \in 1 .. Len(boardingEntries'["basic_info"]) : boardingEntries'["basic_info"][i] = boardingProfile
          <6>1. \A i \in 1 .. Len(boardingEntries["basic_info"]) : boardingEntries["basic_info"][i] = boardingProfile
            BY <1>2
          <6> QED
            BY <5>1, <6>1
        <5>3. boardingStep' \in Boarding!Questions /\ boardingStep \in Boarding!Questions
          BY <3>1
        <5>4. Len(boardingEntries'["basic_info"]) <= boardingTorn'["basic_info"]
          <6>1. Len(boardingEntries["basic_info"]) <= boardingTorn["basic_info"] + 0
              /\ boardingTorn["basic_info"] \in Nat
            BY <1>2, <3>2, <5>3
          <6> QED
            BY <4>3, <5>1, <6>1
        <5> QED
          <6>1. boardingStep' # "completed" /\ boardingStep' \notin Boarding!Fields \cup {"new"}
            BY <5>3 DEF Boarding!Fields
          <6>2. boardingTorn'["basic_info"] \in Nat
              /\ Len(boardingEntries'["basic_info"]) \in Nat
            BY <3>2, <4>3, <5>1
          <6>3. boardingProfile' = boardingProfile
            BY <3>1
          <6> QED
            BY <5>2, <5>4, <6>1, <6>2, <6>3
      <4> QED
        BY <4>1, <4>2, <4>3
    <3> QED
      BY <1>2, <3>6, <3>7
  <2>6. ASSUME NEW m \in Answers \union Sites, Boarding!Material(m)
        PROVE  BoardingBoardInv'
    BY <1>2, <2>6 DEF Boarding!Material, Boarding!Detour
  <2>7. ASSUME NEW s \in Sites, Boarding!PersistResult(s)
        PROVE  BoardingBoardInv'
    BY <1>2, <2>7 DEF Boarding!PersistResult
  <2>8. ASSUME NEW s \in Sites, Boarding!FetchFails(s)
        PROVE  BoardingBoardInv'
    BY <1>2, <2>8 DEF Boarding!FetchFails
  <2>9. ASSUME NEW back \in Boarding!Questions, Boarding!Redo(back)
        PROVE  BoardingBoardInv'
    <3>1. /\ boardingStep \in {"interview_q2", "interview_q3"} /\ boardingStep' = back
          /\ back \in {"interview_q1", "interview_q2"}
              /\ (boardingStep = "interview_q2" => back = "interview_q1")
          /\ boardingEntries' = Boarding!Erased(back)
          /\ UNCHANGED <<boardingProfile, boardingSaid, boardingTorn>>
      BY <2>9 DEF Boarding!Redo
    <3>2. boardingEntries \in [Boarding!Categories -> Seq(BoardingEntry)]
        /\ boardingTorn \in [Boarding!Categories -> Nat] /\ Len(<<>>) = 0
      BY <1>2
    <3>3. /\ boardingEntries'["core_value"] = IF back = "interview_q1" THEN <<>> ELSE boardingEntries["core_value"]
          /\ boardingEntries'["pain_point"] = IF back = "interview_q2"
              \/ boardingStep = "interview_q3"
                                              THEN <<>> ELSE boardingEntries["pain_point"]
          /\ boardingEntries'["goal"] = boardingEntries["goal"]
          /\ boardingEntries'["basic_info"] = boardingEntries["basic_info"]
      BY <3>1 DEF Boarding!Erased
    <3>4. BoardingSummed'
      BY <1>2, <3>1, <3>2, <3>3 DEF Boarding!Fields
    <3>5. BoardingAnswered("interview_q1")' /\ BoardingAnswered("interview_q2")'
        /\ BoardingAnswered("interview_q3")'
      BY <1>2, <3>1, <3>2, <3>3
    <3> QED
      BY <3>4, <3>5
  <2>10. CASE Boarding!Restart
    BY <1>2, <2>10 DEF Boarding!Restart
  <2>11. CASE UNCHANGED Boarding!vars
    BY <1>2, <2>11 DEF Boarding!vars
  <2> QED
    BY <1>2, <2>1, <2>2, <2>3, <2>4, <2>5, <2>6, <2>7, <2>8, <2>9, <2>10,
       <2>11 DEF Boarding!Next
<1> QED
  BY <1>1, <1>2, BoardingRowsHold, PTL DEF Boarding!Spec

\* A finished onboarding kept the boss's last answer to every question last, and
\* other entries only where a crash tore a commit from the next.
LEMMA BoardingCompletedIsAnsweredHolds ==
    ASSUME BoardingBounded
    PROVE  Boarding!Spec => []Boarding!CompletedIsAnswered
<1>1. BoardingRowsOK /\ BoardingBoardInv => Boarding!CompletedIsAnswered
  <2> SUFFICES ASSUME BoardingRowsOK, BoardingBoardInv, boardingStep = "completed"
               PROVE  Boarding!CompletedIsAnswered
    BY DEF Boarding!CompletedIsAnswered
  <2>1. boardingTorn \in [Boarding!Categories -> Nat]
      /\ boardingEntries \in [Boarding!Categories -> Seq(BoardingEntry)]
    BY DEF BoardingRowsOK
  <2>2. ASSUME NEW q \in Boarding!Questions
        PROVE  /\ Len(boardingEntries[Boarding!Category[q]]) \in 1 .. 1 + boardingTorn[Boarding!Category[q]]
               /\ boardingEntries[Boarding!Category[q]][Len(boardingEntries[Boarding!Category[q]])] = boardingSaid[q]
    <3>1. BoardingAnswered(q)
      BY DEF BoardingBoardInv, Boarding!Questions
    <3> QED
      BY <3>1 DEF BoardingAnswered, BoardingPassed
  <2>3. "basic_info" \in Boarding!Categories
    BY DEF Boarding!Categories, Boarding!Category, Boarding!Questions
  <2>4. boardingTorn["basic_info"] \in Nat /\ Len(boardingEntries["basic_info"]) \in Nat
    BY <2>1, <2>3
  <2>5. /\ Len(boardingEntries["basic_info"]) \in 1 .. 1 + boardingTorn["basic_info"]
        /\ \A i \in 1 .. Len(boardingEntries["basic_info"]) : boardingEntries["basic_info"][i] = boardingProfile
    BY <2>4 DEF BoardingBoardInv, BoardingSummed
  <2> QED
    BY <2>2, <2>5 DEF Boarding!CompletedIsAnswered
<1> QED
  BY <1>1, BoardingRowsHold, BoardingBoardInvHolds, PTL
-----------------------------------------------------------------------------
(* Shops and their administrators                                            *)

\* The bounds are numbers.
ShopsRequested == MaxShopRequests \in Nat /\ MaxCrashes \in Nat

\* What a request holds between its transactions.
ShopsJob == [tenant : Accounts \cup {None}, user : Bosses \cup {None}, active : Shops!States,
             renamed : BOOLEAN, fields : SUBSET Shops!Fields,
             channel : [Shops!Fields -> 0..MaxShopRequests],
             n : 0..MaxShopRequests, clear : BOOLEAN]

\* A request that is under way works for a tenant.
ShopsJobRead ==
    /\ shopJob \in [Slots -> ShopsJob]
    /\ \A t \in Slots :
        /\ shopPc[t] # "idle" => shopJob[t].tenant \in Accounts
        /\ shopPc[t] = "putting" => shopJob[t].n > 0 /\ shopJob[t].fields # {}
        /\ shopPc[t] = "binding" => shopJob[t].user \in Bosses

\* The rows of tenants, channels and members, and how often each was put.
ShopsRowsRead ==
    /\ shopActive \in [Accounts -> Shops!States] /\ shopRenamed \in [Accounts -> BOOLEAN]
    /\ shopChannel \in [Accounts -> [Shops!Fields -> 0..MaxShopRequests]]
    /\ shopPut \in [Accounts -> [Shops!Fields -> 0..MaxShopRequests]]
    /\ shopMember \in [Accounts -> [Bosses -> Shops!States]]
    /\ shopMade \subseteq Accounts /\ shopOwns \subseteq Bosses /\ shopRaced \subseteq Bosses
    /\ shopPc \in [Slots -> {"idle", "putting", "deactivating", "naming", "binding"}]
    /\ shopRequests \in 0..MaxShopRequests /\ shopCrashes \in 0..MaxCrashes

\* The rows and what the requests hold of them.
ShopsTypeInv == ShopsRowsRead /\ ShopsJobRead

\* It contains the type invariant of the model.
LEMMA ShopsTypeInvIsTypeOK == ShopsTypeInv => Shops!TypeOK
<1> SUFFICES ASSUME ShopsTypeInv
             PROVE  Shops!TypeOK
  OBVIOUS
<1>1. ASSUME NEW t \in Slots
      PROVE  DOMAIN shopJob[t] = DOMAIN Shops!NoJob
  <2>1. shopJob[t] \in ShopsJob
    BY DEF ShopsTypeInv, ShopsJobRead
  <2>2. DOMAIN shopJob[t] = {"tenant", "user", "active", "renamed", "fields", "channel", "n",
                             "clear"}
    BY <2>1 DEF ShopsJob
  <2> QED
    BY <2>2 DEF Shops!NoJob
<1> QED
  BY <1>1 DEF ShopsTypeInv, ShopsRowsRead, Shops!TypeOK

\* It holds over overlapping requests and restarts.
LEMMA ShopsTypeInvHolds ==
    ASSUME ShopsRequested
    PROVE  Shops!Spec => []ShopsTypeInv
<1>1. Shops!Init => ShopsTypeInv
  <2> USE DEF Shops!Init, Shops!NoChannel
  <2>1. Shops!NoJob \in ShopsJob
    BY DEF Shops!NoJob, ShopsJob, Shops!States, ShopsRequested
  <2>2. Shops!Init => shopActive \in [Accounts -> Shops!States]
    BY <2>1 DEF Shops!States, ShopsRequested
  <2>3. Shops!Init => shopRenamed \in [Accounts -> BOOLEAN]
    BY <2>1 DEF Shops!States, ShopsRequested
  <2>4. Shops!Init => shopChannel \in [Accounts -> [Shops!Fields -> 0..MaxShopRequests]]
    BY <2>1 DEF Shops!States, ShopsRequested
  <2>5. Shops!Init => shopPut \in [Accounts -> [Shops!Fields -> 0..MaxShopRequests]]
    BY <2>1 DEF Shops!States, ShopsRequested
  <2>6. Shops!Init => shopMember \in [Accounts -> [Bosses -> Shops!States]]
    BY <2>1 DEF Shops!States, ShopsRequested
  <2>7. Shops!Init => shopMade \subseteq Accounts /\ shopOwns \subseteq Bosses
      /\ shopRaced \subseteq Bosses
    BY <2>1 DEF Shops!States, ShopsRequested
  <2>8. Shops!Init => shopPc \in [Slots -> {"idle", "putting", "deactivating", "naming",
                                            "binding"}]
    BY <2>1 DEF Shops!States, ShopsRequested
  <2>9. Shops!Init => shopRequests \in 0..MaxShopRequests /\ shopCrashes \in 0..MaxCrashes
    BY <2>1 DEF Shops!States, ShopsRequested
  <2>10. Shops!Init => ShopsJobRead
    BY <2>1 DEF Shops!States, ShopsRequested, ShopsJobRead
  <2> QED
    BY <2>2, <2>3, <2>4, <2>5, <2>6, <2>7, <2>8, <2>9, <2>10 DEF ShopsTypeInv,
       ShopsRowsRead
<1>2. ASSUME ShopsTypeInv, [Shops!Next]_(Shops!vars)
      PROVE  ShopsTypeInv'
  <2> USE DEF ShopsTypeInv, ShopsRowsRead, ShopsJobRead, ShopsRequested, Shops!rows,
              Shops!procVars, Shops!history
  <2>0. Shops!NoChannel \in [Shops!Fields -> 0..MaxShopRequests] /\ Shops!NoJob \in ShopsJob
      /\ {"none", "yes", "no"} \subseteq Shops!States
    BY DEF Shops!NoChannel, Shops!NoJob, ShopsJob, Shops!States
  <2>1. ASSUME NEW x \in Accounts, NEW u \in Bosses, Shops!Provision(x, u)
        PROVE  ShopsTypeInv'
    <3>1. shopActive' \in [Accounts -> Shops!States]
      BY <1>2, <2>1, <2>0 DEF Shops!Provision, Shops!Request, Shops!Elsewhere
    <3>2. shopRenamed' \in [Accounts -> BOOLEAN]
      BY <1>2, <2>1, <2>0 DEF Shops!Provision, Shops!Request, Shops!Elsewhere
    <3>3. shopChannel' \in [Accounts -> [Shops!Fields -> 0..MaxShopRequests]]
      BY <1>2, <2>1, <2>0 DEF Shops!Provision, Shops!Request, Shops!Elsewhere
    <3>4. shopPut' \in [Accounts -> [Shops!Fields -> 0..MaxShopRequests]]
      BY <1>2, <2>1, <2>0 DEF Shops!Provision, Shops!Request, Shops!Elsewhere
    <3>5. shopMember' \in [Accounts -> [Bosses -> Shops!States]]
      BY <1>2, <2>1, <2>0 DEF Shops!Provision, Shops!Request, Shops!Elsewhere
    <3>6. shopMade' \subseteq Accounts /\ shopOwns' \subseteq Bosses
        /\ shopRaced' \subseteq Bosses
      BY <1>2, <2>1, <2>0 DEF Shops!Provision, Shops!Request, Shops!Elsewhere
    <3>7. shopPc' \in [Slots -> {"idle", "putting", "deactivating", "naming", "binding"}]
      BY <1>2, <2>1, <2>0 DEF Shops!Provision, Shops!Request, Shops!Elsewhere
    <3>8. shopRequests' \in 0..MaxShopRequests /\ shopCrashes' \in 0..MaxCrashes
      BY <1>2, <2>1, <2>0 DEF Shops!Provision, Shops!Request, Shops!Elsewhere
    <3>9. ShopsJobRead'
      BY <1>2, <2>1, <2>0 DEF Shops!Provision, Shops!Request, Shops!Elsewhere
    <3> QED
      BY <3>1, <3>2, <3>3, <3>4, <3>5, <3>6, <3>7, <3>8, <3>9
  <2>2. ASSUME NEW x \in Accounts, NEW u \in Bosses, Shops!MemberLeaves(x, u)
        PROVE  ShopsTypeInv'
    <3>1. shopActive' \in [Accounts -> Shops!States]
      BY <1>2, <2>2, <2>0 DEF Shops!MemberLeaves, Shops!Request
    <3>2. shopRenamed' \in [Accounts -> BOOLEAN]
      BY <1>2, <2>2, <2>0 DEF Shops!MemberLeaves, Shops!Request
    <3>3. shopChannel' \in [Accounts -> [Shops!Fields -> 0..MaxShopRequests]]
      BY <1>2, <2>2, <2>0 DEF Shops!MemberLeaves, Shops!Request
    <3>4. shopPut' \in [Accounts -> [Shops!Fields -> 0..MaxShopRequests]]
      BY <1>2, <2>2, <2>0 DEF Shops!MemberLeaves, Shops!Request
    <3>5. shopMember' \in [Accounts -> [Bosses -> Shops!States]]
      BY <1>2, <2>2, <2>0 DEF Shops!MemberLeaves, Shops!Request
    <3>6. shopMade' \subseteq Accounts /\ shopOwns' \subseteq Bosses
        /\ shopRaced' \subseteq Bosses
      BY <1>2, <2>2, <2>0 DEF Shops!MemberLeaves, Shops!Request
    <3>7. shopPc' \in [Slots -> {"idle", "putting", "deactivating", "naming", "binding"}]
      BY <1>2, <2>2, <2>0 DEF Shops!MemberLeaves, Shops!Request
    <3>8. shopRequests' \in 0..MaxShopRequests /\ shopCrashes' \in 0..MaxCrashes
      BY <1>2, <2>2, <2>0 DEF Shops!MemberLeaves, Shops!Request
    <3>9. ShopsJobRead'
      BY <1>2, <2>2, <2>0 DEF Shops!MemberLeaves, Shops!Request
    <3> QED
      BY <3>1, <3>2, <3>3, <3>4, <3>5, <3>6, <3>7, <3>8, <3>9
  <2>3. ASSUME NEW t \in Slots, NEW x \in Accounts, NEW fs \in SUBSET Shops!Fields,
               Shops!ChannelRead(t, x, fs)
        PROVE  ShopsTypeInv'
    <3> DEFINE j == [Shops!NoJob EXCEPT !.tenant = x, !.fields = fs, !.channel = shopChannel[x],
                     !.n = shopRequests + 1]
    <3>1. j \in ShopsJob /\ j.tenant \in Accounts /\ j.n > 0 /\ j.fields # {}
      <4>1. shopRequests + 1 \in 0..MaxShopRequests /\ shopRequests + 1 > 0
          /\ shopChannel[x] \in [Shops!Fields -> 0..MaxShopRequests]
        BY <1>2, <2>3 DEF Shops!ChannelRead, Shops!Begin, Shops!Request
      <4>2. fs \in SUBSET Shops!Fields /\ fs # {} /\ x \in Accounts
        BY <2>3 DEF Shops!ChannelRead
      <4> QED
        BY <2>0, <4>1, <4>2 DEF ShopsJob
    <3>2. /\ shopJob' = [shopJob EXCEPT ![t] = j] /\ shopPc[t] = "idle"
          /\ UNCHANGED <<Shops!rows, Shops!history, shopCrashes>>
      BY <2>3 DEF Shops!ChannelRead, Shops!Begin, Shops!Request
    <3>3. shopRequests' \in 0..MaxShopRequests
        /\ shopPc' \in [Slots -> {"idle", "putting", "deactivating", "naming", "binding"}]
      BY <1>2, <2>3 DEF Shops!ChannelRead, Shops!Begin, Shops!Request
    <3> HIDE DEF j
    <3>4. ShopsJobRead'
      BY <1>2, <3>1, <3>2, <2>3 DEF Shops!ChannelRead, Shops!Begin
    <3> QED
      BY <1>2, <3>2, <3>3, <3>4
  <2>4. ASSUME NEW t \in Slots, NEW x \in Accounts, NEW at \in {"deactivating", "naming"},
               Shops!TenantRead(t, x, at)
        PROVE  ShopsTypeInv'
    <3> DEFINE j == [Shops!NoJob EXCEPT !.tenant = x, !.active = shopActive[x],
                     !.renamed = shopRenamed[x]]
    <3>1. j \in ShopsJob /\ j.tenant \in Accounts
      BY <1>2, <2>0, <2>4 DEF Shops!TenantRead, ShopsJob, Shops!Begin,
         Shops!Request, Shops!States
    <3>2. /\ shopJob' = [shopJob EXCEPT ![t] = j] /\ shopPc[t] = "idle"
          /\ UNCHANGED <<Shops!rows, Shops!history, shopCrashes>>
      BY <2>4 DEF Shops!TenantRead, Shops!Begin, Shops!Request
    <3>3. shopRequests' \in 0..MaxShopRequests
        /\ shopPc' \in [Slots -> {"idle", "putting", "deactivating", "naming", "binding"}]
      BY <1>2, <2>4 DEF Shops!TenantRead, Shops!Begin, Shops!Request
    <3> HIDE DEF j
    <3>4. ShopsJobRead'
      BY <1>2, <3>1, <3>2, <2>4 DEF Shops!TenantRead, Shops!Begin
    <3> QED
      BY <1>2, <3>2, <3>3, <3>4
  <2>5. ASSUME NEW t \in Slots, NEW x \in Accounts, NEW u \in Bosses, Shops!MemberRead(t, x, u)
        PROVE  ShopsTypeInv'
    <3> DEFINE j == [Shops!NoJob EXCEPT !.tenant = x, !.user = u,
                     !.clear = ~Shops!Elsewhere(x, u)]
    <3>1. j \in ShopsJob /\ j.tenant \in Accounts /\ j.user \in Bosses
      BY <1>2, <2>0, <2>5 DEF Shops!MemberRead, ShopsJob, Shops!Begin,
         Shops!Request, Shops!States
    <3>2. /\ shopJob' = [shopJob EXCEPT ![t] = j] /\ shopPc[t] = "idle"
          /\ UNCHANGED <<Shops!rows, Shops!history, shopCrashes>>
      BY <2>5 DEF Shops!MemberRead, Shops!Begin, Shops!Request
    <3>3. shopRequests' \in 0..MaxShopRequests
        /\ shopPc' \in [Slots -> {"idle", "putting", "deactivating", "naming", "binding"}]
      BY <1>2, <2>5 DEF Shops!MemberRead, Shops!Begin, Shops!Request
    <3> HIDE DEF j
    <3>4. ShopsJobRead'
      BY <1>2, <3>1, <3>2, <2>5 DEF Shops!MemberRead, Shops!Begin
    <3> QED
      BY <1>2, <3>2, <3>3, <3>4
  <2>6. ASSUME NEW t \in Slots, Shops!ChannelPut(t)
        PROVE  ShopsTypeInv'
    <3>1. shopActive' \in [Accounts -> Shops!States]
      BY <1>2, <2>6, <2>0 DEF Shops!ChannelPut, Shops!Commit, Shops!SetColumns
    <3>2. shopRenamed' \in [Accounts -> BOOLEAN]
      BY <1>2, <2>6, <2>0 DEF Shops!ChannelPut, Shops!Commit, Shops!SetColumns
    <3>a. shopJob[t].tenant \in Accounts /\ shopJob[t].n \in 0..MaxShopRequests
      BY <1>2, <2>6 DEF Shops!ChannelPut, Shops!Commit, ShopsJob
    <3>b. Shops!SetColumns(shopJob[t]) \in [Shops!Fields -> 0..MaxShopRequests]
      BY <1>2, <3>a DEF Shops!SetColumns
    <3>3. shopChannel' \in [Accounts -> [Shops!Fields -> 0..MaxShopRequests]]
      BY <1>2, <2>6, <3>a, <3>b DEF Shops!ChannelPut
    <3>4. shopPut' \in [Accounts -> [Shops!Fields -> 0..MaxShopRequests]]
      <4>1. [f \in Shops!Fields |-> IF f \in shopJob[t].fields THEN shopJob[t].n ELSE shopPut[shopJob[t].tenant][f]]
              \in [Shops!Fields -> 0..MaxShopRequests]
        BY <1>2, <3>a
      <4> QED
        BY <1>2, <2>6, <3>a, <4>1 DEF Shops!ChannelPut
    <3>5. shopMember' \in [Accounts -> [Bosses -> Shops!States]]
      BY <1>2, <2>6, <2>0 DEF Shops!ChannelPut, Shops!Commit, Shops!SetColumns
    <3>6. shopMade' \subseteq Accounts /\ shopOwns' \subseteq Bosses
        /\ shopRaced' \subseteq Bosses
      BY <1>2, <2>6, <2>0 DEF Shops!ChannelPut, Shops!Commit, Shops!SetColumns
    <3>7. shopPc' \in [Slots -> {"idle", "putting", "deactivating", "naming", "binding"}]
      BY <1>2, <2>6, <2>0 DEF Shops!ChannelPut, Shops!Commit, Shops!SetColumns
    <3>8. shopRequests' \in 0..MaxShopRequests /\ shopCrashes' \in 0..MaxCrashes
      BY <1>2, <2>6, <2>0 DEF Shops!ChannelPut, Shops!Commit, Shops!SetColumns
    <3>9. ShopsJobRead'
      BY <1>2, <2>6, <2>0 DEF Shops!ChannelPut, Shops!Commit, Shops!SetColumns
    <3> QED
      BY <3>1, <3>2, <3>3, <3>4, <3>5, <3>6, <3>7, <3>8, <3>9
  <2>7. ASSUME NEW t \in Slots, Shops!Deactivated(t)
        PROVE  ShopsTypeInv'
    <3>1. shopActive' \in [Accounts -> Shops!States]
      BY <1>2, <2>7, <2>0 DEF Shops!Deactivated, Shops!Commit
    <3>2. shopRenamed' \in [Accounts -> BOOLEAN]
      BY <1>2, <2>7, <2>0 DEF Shops!Deactivated, Shops!Commit, ShopsJob
    <3>3. shopChannel' \in [Accounts -> [Shops!Fields -> 0..MaxShopRequests]]
      BY <1>2, <2>7, <2>0 DEF Shops!Deactivated, Shops!Commit
    <3>4. shopPut' \in [Accounts -> [Shops!Fields -> 0..MaxShopRequests]]
      BY <1>2, <2>7, <2>0 DEF Shops!Deactivated, Shops!Commit
    <3>5. shopMember' \in [Accounts -> [Bosses -> Shops!States]]
      BY <1>2, <2>7, <2>0 DEF Shops!Deactivated, Shops!Commit
    <3>6. shopMade' \subseteq Accounts /\ shopOwns' \subseteq Bosses
        /\ shopRaced' \subseteq Bosses
      BY <1>2, <2>7, <2>0 DEF Shops!Deactivated, Shops!Commit
    <3>7. shopPc' \in [Slots -> {"idle", "putting", "deactivating", "naming", "binding"}]
      BY <1>2, <2>7, <2>0 DEF Shops!Deactivated, Shops!Commit
    <3>8. shopRequests' \in 0..MaxShopRequests /\ shopCrashes' \in 0..MaxCrashes
      BY <1>2, <2>7, <2>0 DEF Shops!Deactivated, Shops!Commit
    <3>9. ShopsJobRead'
      BY <1>2, <2>7, <2>0 DEF Shops!Deactivated, Shops!Commit
    <3> QED
      BY <3>1, <3>2, <3>3, <3>4, <3>5, <3>6, <3>7, <3>8, <3>9
  <2>8. ASSUME NEW t \in Slots, Shops!Named(t)
        PROVE  ShopsTypeInv'
    <3>1. shopActive' \in [Accounts -> Shops!States]
      BY <1>2, <2>8, <2>0 DEF Shops!Named, Shops!Commit, ShopsJob
    <3>2. shopRenamed' \in [Accounts -> BOOLEAN]
      BY <1>2, <2>8, <2>0 DEF Shops!Named, Shops!Commit
    <3>3. shopChannel' \in [Accounts -> [Shops!Fields -> 0..MaxShopRequests]]
      BY <1>2, <2>8, <2>0 DEF Shops!Named, Shops!Commit
    <3>4. shopPut' \in [Accounts -> [Shops!Fields -> 0..MaxShopRequests]]
      BY <1>2, <2>8, <2>0 DEF Shops!Named, Shops!Commit
    <3>5. shopMember' \in [Accounts -> [Bosses -> Shops!States]]
      BY <1>2, <2>8, <2>0 DEF Shops!Named, Shops!Commit
    <3>6. shopMade' \subseteq Accounts /\ shopOwns' \subseteq Bosses
        /\ shopRaced' \subseteq Bosses
      BY <1>2, <2>8, <2>0 DEF Shops!Named, Shops!Commit
    <3>7. shopPc' \in [Slots -> {"idle", "putting", "deactivating", "naming", "binding"}]
      BY <1>2, <2>8, <2>0 DEF Shops!Named, Shops!Commit
    <3>8. shopRequests' \in 0..MaxShopRequests /\ shopCrashes' \in 0..MaxCrashes
      BY <1>2, <2>8, <2>0 DEF Shops!Named, Shops!Commit
    <3>9. ShopsJobRead'
      BY <1>2, <2>8, <2>0 DEF Shops!Named, Shops!Commit
    <3> QED
      BY <3>1, <3>2, <3>3, <3>4, <3>5, <3>6, <3>7, <3>8, <3>9
  <2>9. ASSUME NEW t \in Slots, Shops!MemberBound(t)
        PROVE  ShopsTypeInv'
    <3>1. shopActive' \in [Accounts -> Shops!States]
      BY <1>2, <2>9, <2>0 DEF Shops!MemberBound, Shops!Commit, Shops!Elsewhere
    <3>2. shopRenamed' \in [Accounts -> BOOLEAN]
      BY <1>2, <2>9, <2>0 DEF Shops!MemberBound, Shops!Commit, Shops!Elsewhere
    <3>3. shopChannel' \in [Accounts -> [Shops!Fields -> 0..MaxShopRequests]]
      BY <1>2, <2>9, <2>0 DEF Shops!MemberBound, Shops!Commit, Shops!Elsewhere
    <3>4. shopPut' \in [Accounts -> [Shops!Fields -> 0..MaxShopRequests]]
      BY <1>2, <2>9, <2>0 DEF Shops!MemberBound, Shops!Commit, Shops!Elsewhere
    <3>5. shopMember' \in [Accounts -> [Bosses -> Shops!States]]
      BY <1>2, <2>9, <2>0 DEF Shops!MemberBound, Shops!Commit, Shops!Elsewhere
    <3>6. shopMade' \subseteq Accounts /\ shopOwns' \subseteq Bosses
        /\ shopRaced' \subseteq Bosses
      BY <1>2, <2>9, <2>0 DEF Shops!MemberBound, Shops!Commit, Shops!Elsewhere
    <3>7. shopPc' \in [Slots -> {"idle", "putting", "deactivating", "naming", "binding"}]
      BY <1>2, <2>9, <2>0 DEF Shops!MemberBound, Shops!Commit, Shops!Elsewhere
    <3>8. shopRequests' \in 0..MaxShopRequests /\ shopCrashes' \in 0..MaxCrashes
      BY <1>2, <2>9, <2>0 DEF Shops!MemberBound, Shops!Commit, Shops!Elsewhere
    <3>9. ShopsJobRead'
      BY <1>2, <2>9, <2>0 DEF Shops!MemberBound, Shops!Commit, Shops!Elsewhere
    <3> QED
      BY <3>1, <3>2, <3>3, <3>4, <3>5, <3>6, <3>7, <3>8, <3>9
  <2>10. CASE Shops!Crash
    <3>1. shopActive' \in [Accounts -> Shops!States]
      BY <1>2, <2>10, <2>0 DEF Shops!Crash
    <3>2. shopRenamed' \in [Accounts -> BOOLEAN]
      BY <1>2, <2>10, <2>0 DEF Shops!Crash
    <3>3. shopChannel' \in [Accounts -> [Shops!Fields -> 0..MaxShopRequests]]
      BY <1>2, <2>10, <2>0 DEF Shops!Crash
    <3>4. shopPut' \in [Accounts -> [Shops!Fields -> 0..MaxShopRequests]]
      BY <1>2, <2>10, <2>0 DEF Shops!Crash
    <3>5. shopMember' \in [Accounts -> [Bosses -> Shops!States]]
      BY <1>2, <2>10, <2>0 DEF Shops!Crash
    <3>6. shopMade' \subseteq Accounts /\ shopOwns' \subseteq Bosses
        /\ shopRaced' \subseteq Bosses
      BY <1>2, <2>10, <2>0 DEF Shops!Crash
    <3>7. shopPc' \in [Slots -> {"idle", "putting", "deactivating", "naming", "binding"}]
      BY <1>2, <2>10, <2>0 DEF Shops!Crash
    <3>8. shopRequests' \in 0..MaxShopRequests /\ shopCrashes' \in 0..MaxCrashes
      BY <1>2, <2>10, <2>0 DEF Shops!Crash
    <3>9. ShopsJobRead'
      BY <1>2, <2>10, <2>0 DEF Shops!Crash
    <3> QED
      BY <3>1, <3>2, <3>3, <3>4, <3>5, <3>6, <3>7, <3>8, <3>9
  <2>11. CASE UNCHANGED Shops!vars
    BY <1>2, <2>11 DEF Shops!vars
  <2> QED
    BY <1>2, <2>1, <2>2, <2>3, <2>4, <2>5, <2>6, <2>7, <2>8, <2>9, <2>10,
       <2>11 DEF Shops!Next
<1> QED
  BY <1>1, <1>2, PTL DEF Shops!Spec

\* No request writes an older credential over a newer one.
LEMMA ShopsNoFieldUndoneHolds ==
    ASSUME ShopsRequested
    PROVE  Shops!Spec => []Shops!NoFieldUndone
<1>1. Shops!Init => Shops!NoFieldUndone
  BY DEF Shops!Init, Shops!NoFieldUndone
<1>2. ASSUME ShopsTypeInv, Shops!NoFieldUndone, [Shops!Next]_(Shops!vars)
      PROVE  Shops!NoFieldUndone'
  <2> USE DEF Shops!NoFieldUndone, ShopsTypeInv, ShopsRowsRead, ShopsJobRead, Shops!rows,
              Shops!procVars, Shops!history
  <2>1. ASSUME NEW x \in Accounts, NEW u \in Bosses, Shops!Provision(x, u)
        PROVE  Shops!NoFieldUndone'
    BY <1>2, <2>1 DEF Shops!Provision, Shops!Request, Shops!Elsewhere
  <2>2. ASSUME NEW x \in Accounts, NEW u \in Bosses, Shops!MemberLeaves(x, u)
        PROVE  Shops!NoFieldUndone'
    BY <1>2, <2>2 DEF Shops!MemberLeaves, Shops!Request
  <2>3. ASSUME NEW t \in Slots, NEW x \in Accounts, NEW fs \in SUBSET Shops!Fields,
               Shops!ChannelRead(t, x, fs)
        PROVE  Shops!NoFieldUndone'
    BY <1>2, <2>3 DEF Shops!ChannelRead, Shops!Begin, Shops!Request
  <2>4. ASSUME NEW t \in Slots, NEW x \in Accounts, NEW at \in {"deactivating", "naming"},
               Shops!TenantRead(t, x, at)
        PROVE  Shops!NoFieldUndone'
    BY <1>2, <2>4 DEF Shops!TenantRead, Shops!Begin, Shops!Request
  <2>5. ASSUME NEW t \in Slots, NEW x \in Accounts, NEW u \in Bosses, Shops!MemberRead(t, x, u)
        PROVE  Shops!NoFieldUndone'
    BY <1>2, <2>5 DEF Shops!MemberRead, Shops!Begin, Shops!Request
  <2>6. ASSUME NEW t \in Slots, Shops!ChannelPut(t)
        PROVE  Shops!NoFieldUndone'
    BY <1>2, <2>6 DEF Shops!ChannelPut, Shops!Commit, Shops!SetColumns
  <2>7. ASSUME NEW t \in Slots, Shops!Deactivated(t)
        PROVE  Shops!NoFieldUndone'
    BY <1>2, <2>7 DEF Shops!Deactivated, Shops!Commit
  <2>8. ASSUME NEW t \in Slots, Shops!Named(t)
        PROVE  Shops!NoFieldUndone'
    BY <1>2, <2>8 DEF Shops!Named, Shops!Commit
  <2>9. ASSUME NEW t \in Slots, Shops!MemberBound(t)
        PROVE  Shops!NoFieldUndone'
    BY <1>2, <2>9 DEF Shops!MemberBound, Shops!Commit, Shops!Elsewhere
  <2>10. CASE Shops!Crash
    BY <1>2, <2>10 DEF Shops!Crash
  <2>11. CASE UNCHANGED Shops!vars
    BY <1>2, <2>11 DEF Shops!vars
  <2> QED
    BY <1>2, <2>1, <2>2, <2>3, <2>4, <2>5, <2>6, <2>7, <2>8, <2>9, <2>10,
       <2>11 DEF Shops!Next
<1> QED
  BY <1>1, <1>2, ShopsTypeInvHolds, PTL DEF Shops!Spec

\* A tenant that was provisioned has every row it needs.
LEMMA ShopsWholeShopHolds ==
    ASSUME ShopsRequested
    PROVE  Shops!Spec => []Shops!WholeShop
<1>1. Shops!Init => Shops!WholeShop
  BY DEF Shops!Init, Shops!WholeShop
<1>2. ASSUME ShopsTypeInv, Shops!WholeShop, [Shops!Next]_(Shops!vars)
      PROVE  Shops!WholeShop'
  <2> USE DEF Shops!WholeShop, ShopsTypeInv, ShopsRowsRead, ShopsJobRead, Shops!States,
              Shops!rows, Shops!procVars, Shops!history
  <2>1. ASSUME NEW x \in Accounts, NEW u \in Bosses, Shops!Provision(x, u)
        PROVE  Shops!WholeShop'
    <3>1. ASSUME NEW y \in shopMade'
          PROVE  shopChannel'[y] # Shops!NoChannel
              /\ \E v \in Bosses : shopMember'[y][v] # "none"
      <4>1. CASE y = x
        <5>1. shopChannel'[y]["channel_id"] = shopRequests + 1
          BY <1>2, <2>1, <4>1 DEF Shops!Provision, Shops!Request, Shops!Fields
        <5>2. shopMember'[y][u] = "yes"
          BY <1>2, <2>1, <4>1 DEF Shops!Provision
        <5> QED
          BY <1>2, <5>1, <5>2 DEF Shops!NoChannel, Shops!Fields
      <4>2. CASE y # x
        BY <1>2, <2>1, <3>1, <4>2 DEF Shops!Provision
      <4> QED
        BY <4>1, <4>2
    <3> QED
      BY <3>1
  <2>2. ASSUME NEW x \in Accounts, NEW u \in Bosses, Shops!MemberLeaves(x, u)
        PROVE  Shops!WholeShop'
    BY <1>2, <2>2 DEF Shops!MemberLeaves, Shops!Request
  <2>3. ASSUME NEW t \in Slots, NEW x \in Accounts, NEW fs \in SUBSET Shops!Fields,
               Shops!ChannelRead(t, x, fs)
        PROVE  Shops!WholeShop'
    BY <1>2, <2>3 DEF Shops!ChannelRead, Shops!Begin, Shops!Request
  <2>4. ASSUME NEW t \in Slots, NEW x \in Accounts, NEW at \in {"deactivating", "naming"},
               Shops!TenantRead(t, x, at)
        PROVE  Shops!WholeShop'
    BY <1>2, <2>4 DEF Shops!TenantRead, Shops!Begin, Shops!Request
  <2>5. ASSUME NEW t \in Slots, NEW x \in Accounts, NEW u \in Bosses, Shops!MemberRead(t, x, u)
        PROVE  Shops!WholeShop'
    BY <1>2, <2>5 DEF Shops!MemberRead, Shops!Begin, Shops!Request
  <2>6. ASSUME NEW t \in Slots, Shops!ChannelPut(t)
        PROVE  Shops!WholeShop'
    <3> DEFINE j == shopJob[t]
    <3>1. PICK f \in Shops!Fields : f \in j.fields /\ j.n > 0 /\ j.n \in Nat
        /\ j.tenant \in Accounts
      BY <1>2, <2>6 DEF Shops!ChannelPut, Shops!Commit, ShopsJob
    <3>2. Shops!SetColumns(j)[f] = j.n
      BY <3>1 DEF Shops!SetColumns
    <3>3. Shops!SetColumns(j) # Shops!NoChannel
      BY <3>1, <3>2 DEF Shops!NoChannel
    <3>4. shopMade' = shopMade /\ shopMember' = shopMember
        /\ (shopChannel' = shopChannel
             \/ shopChannel' = [shopChannel EXCEPT ![j.tenant] = Shops!SetColumns(j)])
      BY <2>6 DEF Shops!ChannelPut
    <3> HIDE DEF j
    <3> QED
      BY <1>2, <3>1, <3>3, <3>4
  <2>7. ASSUME NEW t \in Slots, Shops!Deactivated(t)
        PROVE  Shops!WholeShop'
    BY <1>2, <2>7 DEF Shops!Deactivated, Shops!Commit
  <2>8. ASSUME NEW t \in Slots, Shops!Named(t)
        PROVE  Shops!WholeShop'
    BY <1>2, <2>8 DEF Shops!Named, Shops!Commit
  <2>9. ASSUME NEW t \in Slots, Shops!MemberBound(t)
        PROVE  Shops!WholeShop'
    BY <1>2, <2>9 DEF Shops!MemberBound, Shops!Commit, Shops!Elsewhere
  <2>10. CASE Shops!Crash
    BY <1>2, <2>10 DEF Shops!Crash
  <2>11. CASE UNCHANGED Shops!vars
    BY <1>2, <2>11 DEF Shops!vars
  <2> QED
    BY <1>2, <2>1, <2>2, <2>3, <2>4, <2>5, <2>6, <2>7, <2>8, <2>9, <2>10,
       <2>11 DEF Shops!Next
<1> QED
  BY <1>1, <1>2, ShopsTypeInvHolds, PTL DEF Shops!Spec
\* Each binding that is under way saw no other tenant, and a user has two only
\* when a provisioning or an overlap gave him the second.
ShopsOneTenantEach ==
    /\ \A t \in Slots : shopPc[t] = "binding" => shopJob[t].clear
    /\ \A u \in Bosses \ (shopOwns \cup shopRaced) : \A x, y \in Accounts :
          shopMember[x][u] = "yes" /\ shopMember[y][u] = "yes" => x = y

\* A new membership of a user who has none elsewhere is his only one.
LEMMA ShopsFirstMembership ==
    ASSUME ShopsTypeInv, ShopsOneTenantEach, NEW x \in Accounts, NEW u \in Bosses,
           shopMember' = [shopMember EXCEPT ![x][u] = "yes"],
           shopOwns \subseteq shopOwns', shopRaced \subseteq shopRaced',
           u \notin shopOwns' \cup shopRaced' => ~Shops!Elsewhere(x, u)
    PROVE  \A v \in Bosses \ (shopOwns' \cup shopRaced') : \A y, z \in Accounts :
              shopMember'[y][v] = "yes" /\ shopMember'[z][v] = "yes" => y = z
<1> SUFFICES ASSUME NEW v \in Bosses \ (shopOwns' \cup shopRaced'), NEW y \in Accounts,
                    NEW z \in Accounts,
                    shopMember'[y][v] = "yes", shopMember'[z][v] = "yes"
             PROVE  y = z
  OBVIOUS
<1>0. shopMember \in [Accounts -> [Bosses -> Shops!States]]
  BY DEF ShopsTypeInv, ShopsRowsRead
<1>1. CASE v = u
  <2>1. \A w \in Accounts : w # x
      => shopMember'[w][u] = shopMember[w][u] /\ shopMember[w][u] # "yes"
    BY <1>0, <1>1 DEF Shops!Elsewhere
  <2> QED
    BY <1>1, <2>1
<1>2. CASE v # u
  <2>1. \A w \in Accounts : shopMember'[w][v] = shopMember[w][v]
    BY <1>0, <1>2
  <2> QED
    BY <2>1 DEF ShopsOneTenantEach
<1> QED
  BY <1>1, <1>2

\* A request that changes neither memberships nor what was noted of them.
LEMMA ShopsMembershipStays ==
    ASSUME ShopsOneTenantEach, UNCHANGED <<shopMember, shopOwns, shopRaced>>,
           \A t \in Slots : shopPc'[t] = "binding" => shopJob'[t].clear
    PROVE  ShopsOneTenantEach'
BY DEF ShopsOneTenantEach

\* The shops count with the same operator.
LEMMA ShopsSizeIs ==
    ASSUME NEW S
    PROVE  Shops!Cardinality(S) = Cardinality(S)
BY DEF Shops!Cardinality, Cardinality

\* A LINE user commands one tenant but for the two ways the code leaves open.
LEMMA ShopsBoundOnceHolds ==
    ASSUME ShopsRequested
    PROVE  Shops!Spec => []Shops!BoundOnce
<1>1. Shops!Init => ShopsOneTenantEach
  BY DEF Shops!Init, ShopsOneTenantEach
<1>2. ASSUME ShopsTypeInv, ShopsOneTenantEach, [Shops!Next]_(Shops!vars)
      PROVE  ShopsOneTenantEach'
  <2>0. /\ shopPc \in [Slots -> {"idle", "putting", "deactivating", "naming", "binding"}]
        /\ shopJob \in [Slots -> ShopsJob]
        /\ shopMember \in [Accounts -> [Bosses -> Shops!States]]
        /\ \A t \in Slots : shopPc[t] = "binding" => shopJob[t].clear
    BY <1>2 DEF ShopsTypeInv, ShopsRowsRead, ShopsJobRead, ShopsOneTenantEach
  <2>1. ASSUME NEW x \in Accounts, NEW u \in Bosses, Shops!Provision(x, u)
        PROVE  ShopsOneTenantEach'
    <3>1. /\ shopMember' = [shopMember EXCEPT ![x][u] = "yes"]
          /\ shopOwns \subseteq shopOwns' /\ shopRaced' = shopRaced
          /\ u \notin shopOwns' => ~Shops!Elsewhere(x, u)
          /\ shopPc' = shopPc /\ shopJob' = shopJob
      BY <2>1 DEF Shops!Provision, Shops!procVars
    <3> QED
      BY <1>2, <2>0, <3>1, ShopsFirstMembership DEF ShopsOneTenantEach
  <2>2. ASSUME NEW x \in Accounts, NEW u \in Bosses, Shops!MemberLeaves(x, u)
        PROVE  ShopsOneTenantEach'
    <3>1. \A y \in Accounts, v \in Bosses : shopMember'[y][v] = "yes"
        => shopMember[y][v] = "yes"
      BY <2>0, <2>2 DEF Shops!MemberLeaves
    <3>2. UNCHANGED <<shopOwns, shopRaced, shopPc, shopJob>>
      BY <2>2 DEF Shops!MemberLeaves, Shops!history, Shops!procVars
    <3> QED
      BY <1>2, <3>1, <3>2 DEF ShopsOneTenantEach
  <2>3. ASSUME NEW t \in Slots, NEW x \in Accounts, NEW fs \in SUBSET Shops!Fields,
               Shops!ChannelRead(t, x, fs)
        PROVE  ShopsOneTenantEach'
    <3>1. UNCHANGED <<shopMember, shopOwns, shopRaced>>
      BY <2>3 DEF Shops!ChannelRead, Shops!rows, Shops!history
    <3>2. \A s \in Slots : shopPc'[s] = "binding" => shopJob'[s].clear
      BY <2>0, <2>3 DEF Shops!ChannelRead, Shops!Begin
    <3> QED
      BY <1>2, <3>1, <3>2, ShopsMembershipStays
  <2>4. ASSUME NEW t \in Slots, NEW x \in Accounts, NEW at \in {"deactivating", "naming"},
               Shops!TenantRead(t, x, at)
        PROVE  ShopsOneTenantEach'
    <3>1. UNCHANGED <<shopMember, shopOwns, shopRaced>>
      BY <2>4 DEF Shops!TenantRead, Shops!rows, Shops!history
    <3>2. \A s \in Slots : shopPc'[s] = "binding" => shopJob'[s].clear
      BY <2>0, <2>4 DEF Shops!TenantRead, Shops!Begin
    <3> QED
      BY <1>2, <3>1, <3>2, ShopsMembershipStays
  <2>5. ASSUME NEW t \in Slots, NEW x \in Accounts, NEW u \in Bosses, Shops!MemberRead(t, x, u)
        PROVE  ShopsOneTenantEach'
    <3>1. UNCHANGED <<shopMember, shopOwns, shopRaced>>
      BY <2>5 DEF Shops!MemberRead, Shops!rows, Shops!history
    <3>2. \A s \in Slots : shopPc'[s] = "binding" => shopJob'[s].clear
      BY <2>0, <2>5 DEF Shops!MemberRead, Shops!BoundElsewhere, Shops!Begin,
         Shops!NoJob
    <3> QED
      BY <1>2, <3>1, <3>2, ShopsMembershipStays
  <2>6. ASSUME NEW t \in Slots, Shops!ChannelPut(t) \/ Shops!Deactivated(t) \/ Shops!Named(t)
        PROVE  ShopsOneTenantEach'
    <3>1. UNCHANGED <<shopMember, shopOwns, shopRaced>>
      BY <2>6 DEF Shops!ChannelPut, Shops!Deactivated, Shops!Named,
         Shops!history
    <3>2. \A s \in Slots : shopPc'[s] = "binding" => shopJob'[s].clear
      BY <2>0, <2>6 DEF Shops!ChannelPut, Shops!Deactivated, Shops!Named,
         Shops!Commit
    <3> QED
      BY <1>2, <3>1, <3>2, ShopsMembershipStays
  <2>7. ASSUME NEW t \in Slots, Shops!MemberBound(t)
        PROVE  ShopsOneTenantEach'
    <3> DEFINE x == shopJob[t].tenant
               u == shopJob[t].user
    <3>1. x \in Accounts /\ u \in Bosses /\ shopJob[t].clear
      BY <1>2, <2>0, <2>7 DEF Shops!MemberBound, Shops!Commit, ShopsTypeInv,
         ShopsJobRead
    <3>2. /\ shopMember' = [shopMember EXCEPT ![x][u] = "yes"]
          /\ shopOwns' = shopOwns /\ shopRaced \subseteq shopRaced'
          /\ u \notin shopRaced' => ~Shops!Elsewhere(x, u)
      BY <2>7, <3>1 DEF Shops!MemberBound
    <3>3. \A s \in Slots : shopPc'[s] = "binding" => shopJob'[s].clear
      BY <2>0, <2>7 DEF Shops!MemberBound, Shops!Commit
    <3> HIDE DEF x, u
    <3>4. \A v \in Bosses \ (shopOwns' \cup shopRaced') : \A y, z \in Accounts :
             shopMember'[y][v] = "yes" /\ shopMember'[z][v] = "yes" => y = z
      BY <1>2, <3>1, <3>2, ShopsFirstMembership
    <3> QED
      BY <3>3, <3>4 DEF ShopsOneTenantEach
  <2>8. CASE Shops!Crash
    <3>1. UNCHANGED <<shopMember, shopOwns, shopRaced>> /\ \A s \in Slots : shopPc'[s] = "idle"
      BY <2>8 DEF Shops!Crash, Shops!rows, Shops!history
    <3> QED
      BY <1>2, <3>1, ShopsMembershipStays
  <2>9. CASE UNCHANGED Shops!vars
    <3>1. UNCHANGED <<shopMember, shopOwns, shopRaced, shopPc, shopJob>>
      BY <2>9 DEF Shops!vars, Shops!rows, Shops!history, Shops!procVars
    <3> QED
      BY <1>2, <2>0, <3>1, ShopsMembershipStays
  <2> QED
    BY <1>2, <2>1, <2>2, <2>3, <2>4, <2>5, <2>6, <2>7, <2>8, <2>9 DEF
       Shops!Next
<1>3. ShopsOneTenantEach => Shops!BoundOnce
  <2> SUFFICES ASSUME ShopsOneTenantEach, NEW u \in Bosses \ (shopOwns \cup shopRaced)
               PROVE  Shops!Cardinality({x \in Accounts : shopMember[x][u] = "yes"}) <= 1
    BY DEF Shops!BoundOnce
  <2> DEFINE S == {x \in Accounts : shopMember[x][u] = "yes"}
  <2>1. \A x, y \in S : x = y
    BY DEF ShopsOneTenantEach
  <2>2. CASE S = {}
    BY <2>2, FS_EmptySet, ShopsSizeIs
  <2>3. CASE S # {}
    <3>1. PICK x \in S : S = {x}
      BY <2>1, <2>3
    <3> QED
      <4>1. Shops!Cardinality(S) = Cardinality({x})
        BY ONLY <3>1, ShopsSizeIs
      <4>2. Cardinality({x}) = 1
        BY FS_Singleton
      <4> QED
        BY <4>1, <4>2
  <2> QED
    BY <2>2, <2>3
<1> QED
  BY <1>1, <1>2, <1>3, ShopsTypeInvHolds, PTL DEF Shops!Spec
-----------------------------------------------------------------------------
(* Replays of Meta events                                                    *)

\* There are finitely many events to replay; the bounds are numbers.
ReplaysFinite ==
    /\ IsFiniteSet((Photos \union Sentences))
    /\ MaxRuns \in Nat /\ MaxMishaps \in Nat

\* Every other request is at an await.
ReplaysAlone(t) == \A o \in Slots \ {t} : Replays!AtAwait(o)

\* What a replay holds: what is left, asked for and failed.
ReplaysJob == [todo : Seq((Photos \union Sentences)), asked : SUBSET (Photos \union Sentences),
               failed : SUBSET (Photos \union Sentences), stop : BOOLEAN]

\* The rows, the cards and what the replays hold.
ReplaysRowsOK ==
    /\ replayEngaged \subseteq (Photos \union Sentences)
    /\ replayWaiting \subseteq replayEngaged
    /\ replayCards \in [(Photos \union Sentences) -> Nat]
    /\ replayAudits \in [(Photos \union Sentences) -> Nat]
    /\ replayPc \in [Slots -> {"idle", "next", "drafting", "requeueing", "notifying",
                               "replayed", "done"}]
    /\ replayJob \in [Slots -> ReplaysJob]
    /\ replayBroken \in [Slots -> BOOLEAN]
    /\ replayRuns \in 0..MaxRuns /\ replayMishaps \in 0..MaxMishaps

\* A replay is at one event.
ReplaysBusy == {"drafting", "requeueing", "notifying", "replayed"}

\* It has an event, and only its awaits let another request run.
ReplaysPlaced ==
    \A t \in Slots :
        /\ replayPc[t] \in ReplaysBusy => replayJob[t].todo # <<>>
        /\ replayPc[t] \in {"next", "requeueing", "replayed"} => ReplaysAlone(t)
        /\ replayPc[t] = "requeueing" => Replays!Current(t) \in replayEngaged \ replayWaiting
        /\ replayPc[t] \in {"notifying", "replayed"} => Replays!Current(t) \in replayWaiting

\* What a replay may rely on after an await.
ReplaysTypeInv == ReplaysRowsOK /\ ReplaysPlaced

\* The rest of a list holds every element but the first.
LEMMA ReplaysTailSet ==
    ASSUME NEW S, NEW s \in Seq(S), s # <<>>
    PROVE  /\ Tail(s) \in Seq(S) /\ Head(s) \in S
           /\ Replays!ToSet(s) \subseteq {Head(s)} \cup Replays!ToSet(Tail(s))
<1>1. Tail(s) \in Seq(S) /\ Head(s) \in S
  OBVIOUS
<1>2. ASSUME NEW i \in DOMAIN s
      PROVE  s[i] \in {Head(s)} \cup Replays!ToSet(Tail(s))
  <2>1. CASE i = 1
    BY <2>1
  <2>2. CASE i # 1
    <3>1. i - 1 \in DOMAIN Tail(s) /\ Tail(s)[i - 1] = s[i]
      BY <1>2, <2>2
    <3> QED
      BY <3>1 DEF Replays!ToSet
  <2> QED
    BY <2>1, <2>2
<1> QED
  BY <1>1, <1>2 DEF Replays!ToSet

\* The replays count with the same operator.
LEMMA ReplaysSizeIs ==
    ASSUME NEW S
    PROVE  Replays!Cardinality(S) = Cardinality(S)
BY DEF Replays!Cardinality, Cardinality

\* Every order of finitely many events is a list of events.
LEMMA ReplaysListedIs ==
    ASSUME ReplaysFinite, NEW S \in SUBSET (Photos \union Sentences),
           NEW s \in Replays!SetToSeqs(S)
    PROVE  s \in Seq((Photos \union Sentences))
<1>1. Cardinality(S) \in Nat
  BY FS_Subset, FS_CardinalityType DEF ReplaysFinite
<1> QED
  BY <1>1, ReplaysSizeIs DEF Replays!SetToSeqs

\* It contains the type invariant of the model.
LEMMA ReplaysTypeInvIsTypeOK == ReplaysTypeInv => Replays!TypeOK
<1> SUFFICES ASSUME ReplaysTypeInv
             PROVE  Replays!TypeOK
  OBVIOUS
<1>1. ASSUME NEW t \in Slots
      PROVE  DOMAIN replayJob[t] = DOMAIN Replays!NoJob
  <2>1. replayJob[t] \in ReplaysJob
    BY DEF ReplaysTypeInv, ReplaysRowsOK
  <2>2. DOMAIN replayJob[t] = {"todo", "asked", "failed", "stop"}
    BY <2>1 DEF ReplaysJob
  <2> QED
    BY <2>2 DEF Replays!NoJob
<1> QED
  BY <1>1 DEF ReplaysTypeInv, ReplaysRowsOK, Replays!TypeOK

\* An event has one card, and one request that is about to push it.
ReplaysCardInv ==
    /\ \A e \in (Photos \union Sentences) : replayCards[e] <= 1
        /\ (replayCards[e] > 0 => e \in replayWaiting)
    /\ \A t \in Slots : replayPc[t] = "notifying" =>
          /\ replayCards[Replays!Current(t)] = 0
          /\ \A o \in Slots \ {t} : replayPc[o] = "notifying"
              => Replays!Current(o) # Replays!Current(t)

\* What was asked for is repaired, failed or still to be done.
ReplaysAskedInv ==
    \A t \in Slots : replayPc[t] # "idle" /\ ~replayBroken[t] =>
        /\ replayPc[t] = "done" => replayJob[t].todo = <<>>
        /\ \/ replayJob[t].asked \subseteq replayWaiting \cup replayJob[t].failed \cup Replays!ToSet(replayJob[t].todo)
           \/ replayJob[t].stop /\ replayJob[t].failed # {}

\* It holds over overlapping replays and failing drafts.
LEMMA ReplaysTypeInvHolds ==
    ASSUME ReplaysFinite
    PROVE  Replays!Spec => []ReplaysTypeInv
<1>1. Replays!Init => ReplaysTypeInv
  BY DEF Replays!Init, ReplaysTypeInv, ReplaysRowsOK, ReplaysPlaced,
     ReplaysFinite, Replays!NoJob, ReplaysJob, ReplaysBusy, ReplaysAlone,
     Replays!AtAwait
<1>2. ASSUME ReplaysTypeInv, [Replays!Next]_(Replays!vars)
      PROVE  ReplaysTypeInv'
  <2> USE DEF ReplaysTypeInv, ReplaysRowsOK, ReplaysPlaced, ReplaysFinite, ReplaysAlone,
              Replays!AtAwait, ReplaysBusy, Replays!Current, Replays!NoneLeft, ReplaysJob,
              Replays!NoJob, Replays!bounds
  <2>1. ASSUME NEW t \in Slots, NEW p \in Replays!Policies, NEW stop \in BOOLEAN,
               ReplaysAlone(t), Replays!StartRun(t, p, stop)
        PROVE  ReplaysTypeInv'
    <3>1. replayEngaged' \subseteq (Photos \union Sentences)
        /\ replayWaiting' \subseteq replayEngaged'
      BY <1>2, <2>1 DEF Replays!StartRun, Replays!GoTo
    <3>2. replayCards' \in [(Photos \union Sentences) -> Nat]
        /\ replayAudits' \in [(Photos \union Sentences) -> Nat]
      BY <1>2, <2>1 DEF Replays!StartRun, Replays!GoTo
    <3>3. replayPc' \in [Slots -> {"idle", "next", "drafting", "requeueing", "notifying",
                                   "replayed", "done"}]
      BY <1>2, <2>1 DEF Replays!StartRun, Replays!GoTo
    <3>4. replayJob' \in [Slots -> ReplaysJob]
      <4>1. PICK s \in Replays!SetToSeqs({e \in (Photos \union Sentences) : Replays!MatchesPolicy(e, p)}) :
              replayJob' = [replayJob EXCEPT ![t] = [todo |-> s, asked |-> Replays!ToSet(s),
                                                     failed |-> {}, stop |-> stop]]
        BY <2>1 DEF Replays!StartRun
      <4>2. s \in Seq((Photos \union Sentences))
        BY ReplaysListedIs DEF ReplaysFinite
      <4>3. Replays!ToSet(s) \subseteq (Photos \union Sentences)
        BY <4>2 DEF Replays!ToSet
      <4>4. [todo |-> s, asked |-> Replays!ToSet(s), failed |-> {},
             stop |-> stop] \in ReplaysJob
        BY <2>1, <4>2, <4>3
      <4> QED
        BY <1>2, <4>1, <4>4
    <3>5. replayBroken' \in [Slots -> BOOLEAN]
      BY <1>2, <2>1 DEF Replays!StartRun, Replays!GoTo
    <3>6. replayRuns' \in 0..MaxRuns /\ replayMishaps' \in 0..MaxMishaps
      BY <1>2, <2>1 DEF Replays!StartRun, Replays!GoTo
    <3>7. \A o \in Slots : replayPc'[o] \in ReplaysBusy => replayJob'[o].todo # <<>>
      BY <1>2, <2>1 DEF Replays!StartRun, Replays!GoTo
    <3>8. \A o \in Slots : replayPc'[o] \in {"next", "requeueing", "replayed"}
        => ReplaysAlone(o)'
      <4>1. \A o \in Slots \ {t} : replayPc'[o] = replayPc[o]
        BY <1>2, <2>1 DEF Replays!StartRun, Replays!GoTo
      <4>2. \A o \in Slots \ {t} : replayPc[o] \in {"idle", "drafting", "notifying", "done"}
        BY <2>1
      <4> QED
        BY <4>1, <4>2
    <3>9. \A o \in Slots : replayPc'[o] = "requeueing"
        => Replays!Current(o)' \in replayEngaged' \ replayWaiting'
      BY <1>2, <2>1 DEF Replays!StartRun, Replays!GoTo
    <3>10. \A o \in Slots : replayPc'[o] \in {"notifying", "replayed"}
        => Replays!Current(o)' \in replayWaiting'
      BY <1>2, <2>1 DEF Replays!StartRun, Replays!GoTo
    <3> HIDE DEF ReplaysAlone, Replays!AtAwait, ReplaysBusy, Replays!Current, Replays!NoneLeft,
                 ReplaysJob, Replays!NoJob, ReplaysFinite
    <3> QED
      BY <3>1, <3>2, <3>3, <3>4, <3>5, <3>6, <3>7, <3>8, <3>9, <3>10
  <2>2. ASSUME NEW t \in Slots, ReplaysAlone(t), Replays!Finished(t)
        PROVE  ReplaysTypeInv'
    BY <1>2, <2>2 DEF Replays!Finished, Replays!GoTo, Replays!NoneLeft
  <2>3. ASSUME NEW t \in Slots, ReplaysAlone(t), Replays!PassedOver(t)
        PROVE  ReplaysTypeInv'
    <3>1. replayEngaged' \subseteq (Photos \union Sentences)
        /\ replayWaiting' \subseteq replayEngaged'
      BY <1>2, <2>3 DEF Replays!PassedOver, Replays!StopsOnError
    <3>2. replayCards' \in [(Photos \union Sentences) -> Nat]
        /\ replayAudits' \in [(Photos \union Sentences) -> Nat]
      BY <1>2, <2>3 DEF Replays!PassedOver, Replays!StopsOnError
    <3>3. replayPc' \in [Slots -> {"idle", "next", "drafting", "requeueing", "notifying",
                                   "replayed", "done"}]
      BY <1>2, <2>3 DEF Replays!PassedOver, Replays!StopsOnError
    <3>4. replayJob' \in [Slots -> ReplaysJob]
      <4>1. replayJob[t].todo \in Seq((Photos \union Sentences)) /\ replayJob[t].todo # <<>>
        BY <1>2, <2>3 DEF Replays!PassedOver, Replays!StopsOnError
      <4>2. Tail(replayJob[t].todo) \in Seq((Photos \union Sentences))
          /\ Replays!Current(t) \in (Photos \union Sentences)
        BY <4>1
      <4> DEFINE left == IF Replays!StopsOnError(t) THEN <<>> ELSE Tail(replayJob[t].todo)
      <4>3. left \in Seq((Photos \union Sentences))
          /\ replayJob[t].failed \cup {Replays!Current(t)} \in SUBSET (Photos \union Sentences)
        BY <1>2, <2>3, <4>2
      <4>4. replayJob' = [replayJob EXCEPT ![t].failed = replayJob[t].failed \cup {Replays!Current(t)}, ![t].todo = left]
        BY <2>3 DEF Replays!PassedOver
      <4>5. replayJob[t] \in ReplaysJob
        BY <1>2, <2>3
      <4>6. [replayJob[t] EXCEPT !.failed = replayJob[t].failed \cup {Replays!Current(t)},
             !.todo = left] \in ReplaysJob
        <5> HIDE DEF left, Replays!Current
        <5> QED
          BY <4>3, <4>5
      <4>7. replayJob' = [replayJob EXCEPT ![t] = [replayJob[t] EXCEPT !.failed = replayJob[t].failed \cup {Replays!Current(t)}, !.todo = left]]
        <5> HIDE DEF left, Replays!Current, ReplaysJob
        <5> QED
          BY <1>2, <2>3, <4>4
      <4> HIDE DEF ReplaysJob, Replays!Current, left
      <4> QED
        BY <1>2, <4>6, <4>7
    <3>5. replayBroken' \in [Slots -> BOOLEAN]
      BY <1>2, <2>3 DEF Replays!PassedOver, Replays!StopsOnError
    <3>6. replayRuns' \in 0..MaxRuns /\ replayMishaps' \in 0..MaxMishaps
      BY <1>2, <2>3 DEF Replays!PassedOver, Replays!StopsOnError
    <3>7. \A o \in Slots : replayPc'[o] \in ReplaysBusy => replayJob'[o].todo # <<>>
      BY <1>2, <2>3 DEF Replays!PassedOver, Replays!StopsOnError
    <3>8. \A o \in Slots : replayPc'[o] \in {"next", "requeueing", "replayed"}
        => ReplaysAlone(o)'
      <4>1. \A o \in Slots \ {t} : replayPc'[o] = replayPc[o]
        BY <1>2, <2>3 DEF Replays!PassedOver, Replays!StopsOnError
      <4>2. \A o \in Slots \ {t} : replayPc[o] \in {"idle", "drafting", "notifying", "done"}
        BY <2>3
      <4> QED
        BY <4>1, <4>2
    <3>9. \A o \in Slots : replayPc'[o] = "requeueing"
        => Replays!Current(o)' \in replayEngaged' \ replayWaiting'
      BY <1>2, <2>3 DEF Replays!PassedOver, Replays!StopsOnError
    <3>10. \A o \in Slots : replayPc'[o] \in {"notifying", "replayed"}
        => Replays!Current(o)' \in replayWaiting'
      BY <1>2, <2>3 DEF Replays!PassedOver, Replays!StopsOnError
    <3> HIDE DEF ReplaysAlone, Replays!AtAwait, ReplaysBusy, Replays!Current, Replays!NoneLeft,
                 ReplaysJob, Replays!NoJob, ReplaysFinite
    <3> QED
      BY <3>1, <3>2, <3>3, <3>4, <3>5, <3>6, <3>7, <3>8, <3>9, <3>10
  <2>4. ASSUME NEW t \in Slots, ReplaysAlone(t), Replays!Duplicate(t)
        PROVE  ReplaysTypeInv'
    <3>1. replayEngaged' \subseteq (Photos \union Sentences)
        /\ replayWaiting' \subseteq replayEngaged'
      BY <1>2, <2>4 DEF Replays!Duplicate, Replays!GoTo
    <3>2. replayCards' \in [(Photos \union Sentences) -> Nat]
        /\ replayAudits' \in [(Photos \union Sentences) -> Nat]
      BY <1>2, <2>4 DEF Replays!Duplicate, Replays!GoTo
    <3>3. replayPc' \in [Slots -> {"idle", "next", "drafting", "requeueing", "notifying",
                                   "replayed", "done"}]
      BY <1>2, <2>4 DEF Replays!Duplicate, Replays!GoTo
    <3>4. replayJob' \in [Slots -> ReplaysJob]
      BY <1>2, <2>4 DEF Replays!Duplicate, Replays!GoTo
    <3>5. replayBroken' \in [Slots -> BOOLEAN]
      BY <1>2, <2>4 DEF Replays!Duplicate, Replays!GoTo
    <3>6. replayRuns' \in 0..MaxRuns /\ replayMishaps' \in 0..MaxMishaps
      BY <1>2, <2>4 DEF Replays!Duplicate, Replays!GoTo
    <3>7. \A o \in Slots : replayPc'[o] \in ReplaysBusy => replayJob'[o].todo # <<>>
      BY <1>2, <2>4 DEF Replays!Duplicate, Replays!GoTo
    <3>8. \A o \in Slots : replayPc'[o] \in {"next", "requeueing", "replayed"}
        => ReplaysAlone(o)'
      <4>1. \A o \in Slots \ {t} : replayPc'[o] = replayPc[o]
        BY <1>2, <2>4 DEF Replays!Duplicate, Replays!GoTo
      <4>2. \A o \in Slots \ {t} : replayPc[o] \in {"idle", "drafting", "notifying", "done"}
        BY <2>4
      <4> QED
        BY <4>1, <4>2
    <3>9. \A o \in Slots : replayPc'[o] = "requeueing"
        => Replays!Current(o)' \in replayEngaged' \ replayWaiting'
      BY <1>2, <2>4 DEF Replays!Duplicate, Replays!GoTo
    <3>10. \A o \in Slots : replayPc'[o] \in {"notifying", "replayed"}
        => Replays!Current(o)' \in replayWaiting'
      BY <1>2, <2>4 DEF Replays!Duplicate, Replays!GoTo
    <3> HIDE DEF ReplaysAlone, Replays!AtAwait, ReplaysBusy, Replays!Current, Replays!NoneLeft,
                 ReplaysJob, Replays!NoJob, ReplaysFinite
    <3> QED
      BY <3>1, <3>2, <3>3, <3>4, <3>5, <3>6, <3>7, <3>8, <3>9, <3>10
  <2>5. ASSUME NEW t \in Slots, ReplaysAlone(t), Replays!DraftReply(t)
        PROVE  ReplaysTypeInv'
    <3>1. replayEngaged' \subseteq (Photos \union Sentences)
        /\ replayWaiting' \subseteq replayEngaged'
      BY <1>2, <2>5 DEF Replays!DraftReply, Replays!GoTo
    <3>2. replayCards' \in [(Photos \union Sentences) -> Nat]
        /\ replayAudits' \in [(Photos \union Sentences) -> Nat]
      BY <1>2, <2>5 DEF Replays!DraftReply, Replays!GoTo
    <3>3. replayPc' \in [Slots -> {"idle", "next", "drafting", "requeueing", "notifying",
                                   "replayed", "done"}]
      BY <1>2, <2>5 DEF Replays!DraftReply, Replays!GoTo
    <3>4. replayJob' \in [Slots -> ReplaysJob]
      BY <1>2, <2>5 DEF Replays!DraftReply, Replays!GoTo
    <3>5. replayBroken' \in [Slots -> BOOLEAN]
      BY <1>2, <2>5 DEF Replays!DraftReply, Replays!GoTo
    <3>6. replayRuns' \in 0..MaxRuns /\ replayMishaps' \in 0..MaxMishaps
      BY <1>2, <2>5 DEF Replays!DraftReply, Replays!GoTo
    <3>7. \A o \in Slots : replayPc'[o] \in ReplaysBusy => replayJob'[o].todo # <<>>
      BY <1>2, <2>5 DEF Replays!DraftReply, Replays!GoTo
    <3>8. \A o \in Slots : replayPc'[o] \in {"next", "requeueing", "replayed"}
        => ReplaysAlone(o)'
      <4>1. \A o \in Slots \ {t} : replayPc'[o] = replayPc[o]
        BY <1>2, <2>5 DEF Replays!DraftReply, Replays!GoTo
      <4>2. \A o \in Slots \ {t} : replayPc[o] \in {"idle", "drafting", "notifying", "done"}
        BY <2>5
      <4> QED
        BY <4>1, <4>2
    <3>9. \A o \in Slots : replayPc'[o] = "requeueing"
        => Replays!Current(o)' \in replayEngaged' \ replayWaiting'
      BY <1>2, <2>5 DEF Replays!DraftReply, Replays!GoTo
    <3>10. \A o \in Slots : replayPc'[o] \in {"notifying", "replayed"}
        => Replays!Current(o)' \in replayWaiting'
      BY <1>2, <2>5 DEF Replays!DraftReply, Replays!GoTo
    <3> HIDE DEF ReplaysAlone, Replays!AtAwait, ReplaysBusy, Replays!Current, Replays!NoneLeft,
                 ReplaysJob, Replays!NoJob, ReplaysFinite
    <3> QED
      BY <3>1, <3>2, <3>3, <3>4, <3>5, <3>6, <3>7, <3>8, <3>9, <3>10
  <2>6. ASSUME NEW t \in Slots, ReplaysAlone(t), Replays!Requeue(t)
        PROVE  ReplaysTypeInv'
    <3>1. replayEngaged' \subseteq (Photos \union Sentences)
        /\ replayWaiting' \subseteq replayEngaged'
      BY <1>2, <2>6 DEF Replays!Requeue, Replays!GoTo
    <3>2. replayCards' \in [(Photos \union Sentences) -> Nat]
        /\ replayAudits' \in [(Photos \union Sentences) -> Nat]
      BY <1>2, <2>6 DEF Replays!Requeue, Replays!GoTo
    <3>3. replayPc' \in [Slots -> {"idle", "next", "drafting", "requeueing", "notifying",
                                   "replayed", "done"}]
      BY <1>2, <2>6 DEF Replays!Requeue, Replays!GoTo
    <3>4. replayJob' \in [Slots -> ReplaysJob]
      BY <1>2, <2>6 DEF Replays!Requeue, Replays!GoTo
    <3>5. replayBroken' \in [Slots -> BOOLEAN]
      BY <1>2, <2>6 DEF Replays!Requeue, Replays!GoTo
    <3>6. replayRuns' \in 0..MaxRuns /\ replayMishaps' \in 0..MaxMishaps
      BY <1>2, <2>6 DEF Replays!Requeue, Replays!GoTo
    <3>7. \A o \in Slots : replayPc'[o] \in ReplaysBusy => replayJob'[o].todo # <<>>
      BY <1>2, <2>6 DEF Replays!Requeue, Replays!GoTo
    <3>8. \A o \in Slots : replayPc'[o] \in {"next", "requeueing", "replayed"}
        => ReplaysAlone(o)'
      <4>1. \A o \in Slots \ {t} : replayPc'[o] = replayPc[o]
        BY <1>2, <2>6 DEF Replays!Requeue, Replays!GoTo
      <4>2. \A o \in Slots \ {t} : replayPc[o] \in {"idle", "drafting", "notifying", "done"}
        BY <2>6
      <4> QED
        BY <4>1, <4>2
    <3>9. \A o \in Slots : replayPc'[o] = "requeueing"
        => Replays!Current(o)' \in replayEngaged' \ replayWaiting'
      BY <1>2, <2>6 DEF Replays!Requeue, Replays!GoTo
    <3>10. \A o \in Slots : replayPc'[o] \in {"notifying", "replayed"}
        => Replays!Current(o)' \in replayWaiting'
      BY <1>2, <2>6 DEF Replays!Requeue, Replays!GoTo
    <3> HIDE DEF ReplaysAlone, Replays!AtAwait, ReplaysBusy, Replays!Current, Replays!NoneLeft,
                 ReplaysJob, Replays!NoJob, ReplaysFinite
    <3> QED
      BY <3>1, <3>2, <3>3, <3>4, <3>5, <3>6, <3>7, <3>8, <3>9, <3>10
  <2>7. ASSUME NEW t \in Slots, ReplaysAlone(t), Replays!Drafted(t)
        PROVE  ReplaysTypeInv'
    <3>1. replayEngaged' \subseteq (Photos \union Sentences)
        /\ replayWaiting' \subseteq replayEngaged'
      BY <1>2, <2>7 DEF Replays!Drafted, Replays!EngagementSaved,
         Replays!GoTo, Replays!Dies
    <3>2. replayCards' \in [(Photos \union Sentences) -> Nat]
        /\ replayAudits' \in [(Photos \union Sentences) -> Nat]
      BY <1>2, <2>7 DEF Replays!Drafted, Replays!EngagementSaved,
         Replays!GoTo, Replays!Dies
    <3>3. replayPc' \in [Slots -> {"idle", "next", "drafting", "requeueing", "notifying",
                                   "replayed", "done"}]
      BY <1>2, <2>7 DEF Replays!Drafted, Replays!EngagementSaved,
         Replays!GoTo, Replays!Dies
    <3>4. replayJob' \in [Slots -> ReplaysJob]
      BY <1>2, <2>7 DEF Replays!Drafted, Replays!EngagementSaved,
         Replays!GoTo, Replays!Dies
    <3>5. replayBroken' \in [Slots -> BOOLEAN]
      BY <1>2, <2>7 DEF Replays!Drafted, Replays!EngagementSaved,
         Replays!GoTo, Replays!Dies
    <3>6. replayRuns' \in 0..MaxRuns /\ replayMishaps' \in 0..MaxMishaps
      BY <1>2, <2>7 DEF Replays!Drafted, Replays!EngagementSaved,
         Replays!GoTo, Replays!Dies
    <3>7. \A o \in Slots : replayPc'[o] \in ReplaysBusy => replayJob'[o].todo # <<>>
      BY <1>2, <2>7 DEF Replays!Drafted, Replays!EngagementSaved,
         Replays!GoTo, Replays!Dies
    <3>8. \A o \in Slots : replayPc'[o] \in {"next", "requeueing", "replayed"}
        => ReplaysAlone(o)'
      <4>1. replayPc'[t] \in {"requeueing", "done"}
          /\ \A o \in Slots \ {t} : replayPc'[o] = replayPc[o]
        BY <1>2, <2>7 DEF Replays!Drafted, Replays!EngagementSaved,
           Replays!GoTo, Replays!Dies
      <4> QED
        BY <2>7, <4>1
    <3>9. \A o \in Slots : replayPc'[o] = "requeueing"
        => Replays!Current(o)' \in replayEngaged' \ replayWaiting'
      BY <1>2, <2>7 DEF Replays!Drafted, Replays!EngagementSaved,
         Replays!GoTo, Replays!Dies
    <3>10. \A o \in Slots : replayPc'[o] \in {"notifying", "replayed"}
        => Replays!Current(o)' \in replayWaiting'
      BY <1>2, <2>7 DEF Replays!Drafted, Replays!EngagementSaved,
         Replays!GoTo, Replays!Dies
    <3> HIDE DEF ReplaysAlone, Replays!AtAwait, ReplaysBusy, Replays!Current, Replays!NoneLeft,
                 ReplaysJob, Replays!NoJob, ReplaysFinite
    <3> QED
      BY <3>1, <3>2, <3>3, <3>4, <3>5, <3>6, <3>7, <3>8, <3>9, <3>10
  <2>8. ASSUME NEW t \in Slots, ReplaysAlone(t), Replays!RowSaved(t)
        PROVE  ReplaysTypeInv'
    BY <1>2, <2>8 DEF Replays!RowSaved, Replays!GoTo
  <2>9. ASSUME NEW t \in Slots, ReplaysAlone(t), Replays!Pushed(t)
        PROVE  ReplaysTypeInv'
    <3>1. replayEngaged' \subseteq (Photos \union Sentences)
        /\ replayWaiting' \subseteq replayEngaged'
      BY <1>2, <2>9 DEF Replays!Pushed, Replays!GoTo
    <3>2. replayCards' \in [(Photos \union Sentences) -> Nat]
        /\ replayAudits' \in [(Photos \union Sentences) -> Nat]
      BY <1>2, <2>9 DEF Replays!Pushed, Replays!GoTo
    <3>3. replayPc' \in [Slots -> {"idle", "next", "drafting", "requeueing", "notifying",
                                   "replayed", "done"}]
      BY <1>2, <2>9 DEF Replays!Pushed, Replays!GoTo
    <3>4. replayJob' \in [Slots -> ReplaysJob]
      BY <1>2, <2>9 DEF Replays!Pushed, Replays!GoTo
    <3>5. replayBroken' \in [Slots -> BOOLEAN]
      BY <1>2, <2>9 DEF Replays!Pushed, Replays!GoTo
    <3>6. replayRuns' \in 0..MaxRuns /\ replayMishaps' \in 0..MaxMishaps
      BY <1>2, <2>9 DEF Replays!Pushed, Replays!GoTo
    <3>7. \A o \in Slots : replayPc'[o] \in ReplaysBusy => replayJob'[o].todo # <<>>
      BY <1>2, <2>9 DEF Replays!Pushed, Replays!GoTo
    <3>8. \A o \in Slots : replayPc'[o] \in {"next", "requeueing", "replayed"}
        => ReplaysAlone(o)'
      <4>1. \A o \in Slots \ {t} : replayPc'[o] = replayPc[o]
        BY <1>2, <2>9 DEF Replays!Pushed, Replays!GoTo
      <4>2. \A o \in Slots \ {t} : replayPc[o] \in {"idle", "drafting", "notifying", "done"}
        BY <2>9
      <4> QED
        BY <4>1, <4>2
    <3>9. \A o \in Slots : replayPc'[o] = "requeueing"
        => Replays!Current(o)' \in replayEngaged' \ replayWaiting'
      BY <1>2, <2>9 DEF Replays!Pushed, Replays!GoTo
    <3>10. \A o \in Slots : replayPc'[o] \in {"notifying", "replayed"}
        => Replays!Current(o)' \in replayWaiting'
      BY <1>2, <2>9 DEF Replays!Pushed, Replays!GoTo
    <3> HIDE DEF ReplaysAlone, Replays!AtAwait, ReplaysBusy, Replays!Current, Replays!NoneLeft,
                 ReplaysJob, Replays!NoJob, ReplaysFinite
    <3> QED
      BY <3>1, <3>2, <3>3, <3>4, <3>5, <3>6, <3>7, <3>8, <3>9, <3>10
  <2>10. ASSUME NEW t \in Slots, ReplaysAlone(t), Replays!Audited(t)
        PROVE  ReplaysTypeInv'
    <3>1. replayEngaged' \subseteq (Photos \union Sentences)
        /\ replayWaiting' \subseteq replayEngaged'
      BY <1>2, <2>10 DEF Replays!Audited, Replays!GoTo, Replays!Leave
    <3>2. replayCards' \in [(Photos \union Sentences) -> Nat]
        /\ replayAudits' \in [(Photos \union Sentences) -> Nat]
      BY <1>2, <2>10 DEF Replays!Audited, Replays!GoTo, Replays!Leave
    <3>3. replayPc' \in [Slots -> {"idle", "next", "drafting", "requeueing", "notifying",
                                   "replayed", "done"}]
      BY <1>2, <2>10 DEF Replays!Audited, Replays!GoTo, Replays!Leave
    <3>4. replayJob' \in [Slots -> ReplaysJob]
      <4>1. replayJob[t].todo \in Seq((Photos \union Sentences)) /\ replayJob[t].todo # <<>>
        BY <1>2, <2>10 DEF Replays!Audited, Replays!GoTo, Replays!Leave
      <4>2. Tail(replayJob[t].todo) \in Seq((Photos \union Sentences))
          /\ Replays!Current(t) \in (Photos \union Sentences)
        BY <4>1
      <4> QED
        BY <1>2, <2>10, <4>2 DEF Replays!Audited, Replays!GoTo, Replays!Leave
    <3>5. replayBroken' \in [Slots -> BOOLEAN]
      BY <1>2, <2>10 DEF Replays!Audited, Replays!GoTo, Replays!Leave
    <3>6. replayRuns' \in 0..MaxRuns /\ replayMishaps' \in 0..MaxMishaps
      BY <1>2, <2>10 DEF Replays!Audited, Replays!GoTo, Replays!Leave
    <3>7. \A o \in Slots : replayPc'[o] \in ReplaysBusy => replayJob'[o].todo # <<>>
      BY <1>2, <2>10 DEF Replays!Audited, Replays!GoTo, Replays!Leave
    <3>8. \A o \in Slots : replayPc'[o] \in {"next", "requeueing", "replayed"}
        => ReplaysAlone(o)'
      <4>1. \A o \in Slots \ {t} : replayPc'[o] = replayPc[o]
        BY <1>2, <2>10 DEF Replays!Audited, Replays!GoTo, Replays!Leave
      <4>2. \A o \in Slots \ {t} : replayPc[o] \in {"idle", "drafting", "notifying", "done"}
        BY <2>10
      <4> QED
        BY <4>1, <4>2
    <3>9. \A o \in Slots : replayPc'[o] = "requeueing"
        => Replays!Current(o)' \in replayEngaged' \ replayWaiting'
      BY <1>2, <2>10 DEF Replays!Audited, Replays!GoTo, Replays!Leave
    <3>10. \A o \in Slots : replayPc'[o] \in {"notifying", "replayed"}
        => Replays!Current(o)' \in replayWaiting'
      BY <1>2, <2>10 DEF Replays!Audited, Replays!GoTo, Replays!Leave
    <3> HIDE DEF ReplaysAlone, Replays!AtAwait, ReplaysBusy, Replays!Current, Replays!NoneLeft,
                 ReplaysJob, Replays!NoJob, ReplaysFinite
    <3> QED
      BY <3>1, <3>2, <3>3, <3>4, <3>5, <3>6, <3>7, <3>8, <3>9, <3>10
  <2>11. ASSUME NEW t \in Slots, ReplaysAlone(t), Replays!PushFails(t)
        PROVE  ReplaysTypeInv'
    BY <1>2, <2>11 DEF Replays!PushFails, Replays!GoTo, Replays!Dies
  <2>12. ASSUME NEW t \in Slots, ReplaysAlone(t), Replays!Answered(t)
        PROVE  ReplaysTypeInv'
    BY <1>2, <2>12 DEF Replays!Answered, Replays!GoTo
  <2>13. CASE Replays!Crash
    BY <1>2, <2>13 DEF Replays!Crash
  <2>14. CASE UNCHANGED Replays!vars
    BY <1>2, <2>14 DEF Replays!vars
  <2> HIDE DEF ReplaysTypeInv, ReplaysRowsOK, ReplaysPlaced, ReplaysFinite
  <2> QED
    BY <1>2, <2>1, <2>2, <2>3, <2>4, <2>5, <2>6, <2>7, <2>8, <2>9, <2>10,
       <2>11,
       <2>12, <2>13, <2>14 DEF Replays!Next, Replays!RunSteps, ReplaysAlone
<1> QED
  BY <1>1, <1>2, PTL DEF Replays!Spec

\* Two replays of an event do not both push its card.
LEMMA ReplaysCardInvHolds ==
    ASSUME ReplaysFinite
    PROVE  Replays!Spec => []ReplaysCardInv
<1>1. Replays!Init => ReplaysCardInv
  BY DEF Replays!Init, ReplaysCardInv
<1>2. ASSUME ReplaysTypeInv, ReplaysCardInv, [Replays!Next]_(Replays!vars)
      PROVE  ReplaysCardInv'
  <2> USE DEF ReplaysCardInv, ReplaysTypeInv, ReplaysRowsOK, ReplaysPlaced, ReplaysAlone,
              Replays!AtAwait, ReplaysBusy, Replays!Current, ReplaysJob, Replays!NoJob,
              Replays!NoneLeft, Replays!bounds
  <2>1. ASSUME NEW t \in Slots, NEW p \in Replays!Policies, NEW stop \in BOOLEAN,
               ReplaysAlone(t), Replays!StartRun(t, p, stop)
        PROVE  ReplaysCardInv'
    BY <1>2, <2>1 DEF Replays!StartRun, Replays!GoTo
  <2>2. ASSUME NEW t \in Slots, ReplaysAlone(t), Replays!Finished(t)
        PROVE  ReplaysCardInv'
    BY <1>2, <2>2 DEF Replays!Finished, Replays!GoTo, Replays!NoneLeft
  <2>3. ASSUME NEW t \in Slots, ReplaysAlone(t), Replays!PassedOver(t)
        PROVE  ReplaysCardInv'
    BY <1>2, <2>3 DEF Replays!PassedOver, Replays!StopsOnError
  <2>4. ASSUME NEW t \in Slots, ReplaysAlone(t), Replays!Duplicate(t)
        PROVE  ReplaysCardInv'
    BY <1>2, <2>4 DEF Replays!Duplicate, Replays!GoTo
  <2>5. ASSUME NEW t \in Slots, ReplaysAlone(t), Replays!DraftReply(t)
        PROVE  ReplaysCardInv'
    BY <1>2, <2>5 DEF Replays!DraftReply, Replays!GoTo
  <2>6. ASSUME NEW t \in Slots, ReplaysAlone(t), Replays!Requeue(t)
        PROVE  ReplaysCardInv'
    BY <1>2, <2>6 DEF Replays!Requeue, Replays!GoTo
  <2>7. ASSUME NEW t \in Slots, ReplaysAlone(t), Replays!Drafted(t)
        PROVE  ReplaysCardInv'
    BY <1>2, <2>7 DEF Replays!Drafted, Replays!EngagementSaved, Replays!GoTo,
       Replays!Dies
  <2>8. ASSUME NEW t \in Slots, ReplaysAlone(t), Replays!RowSaved(t)
        PROVE  ReplaysCardInv'
    BY <1>2, <2>8 DEF Replays!RowSaved, Replays!GoTo
  <2>9. ASSUME NEW t \in Slots, ReplaysAlone(t), Replays!Pushed(t)
        PROVE  ReplaysCardInv'
    BY <1>2, <2>9 DEF Replays!Pushed, Replays!GoTo
  <2>10. ASSUME NEW t \in Slots, ReplaysAlone(t), Replays!Audited(t)
        PROVE  ReplaysCardInv'
    BY <1>2, <2>10 DEF Replays!Audited, Replays!GoTo, Replays!Leave
  <2>11. ASSUME NEW t \in Slots, ReplaysAlone(t), Replays!PushFails(t)
        PROVE  ReplaysCardInv'
    BY <1>2, <2>11 DEF Replays!PushFails, Replays!GoTo, Replays!Dies
  <2>12. ASSUME NEW t \in Slots, ReplaysAlone(t), Replays!Answered(t)
        PROVE  ReplaysCardInv'
    BY <1>2, <2>12 DEF Replays!Answered, Replays!GoTo
  <2>13. CASE Replays!Crash
    BY <1>2, <2>13 DEF Replays!Crash
  <2>14. CASE UNCHANGED Replays!vars
    BY <1>2, <2>14 DEF Replays!vars
  <2> HIDE DEF ReplaysCardInv, ReplaysTypeInv, ReplaysRowsOK, ReplaysPlaced
  <2> QED
    BY <1>2, <2>1, <2>2, <2>3, <2>4, <2>5, <2>6, <2>7, <2>8, <2>9, <2>10,
       <2>11,
       <2>12, <2>13, <2>14 DEF Replays!Next, Replays!RunSteps, ReplaysAlone
<1> QED
  BY <1>1, <1>2, ReplaysTypeInvHolds, PTL DEF Replays!Spec

\* A replay that ends leaves nothing out that it did not report.
LEMMA ReplaysAskedInvHolds ==
    ASSUME ReplaysFinite
    PROVE  Replays!Spec => []ReplaysAskedInv
<1>1. Replays!Init => ReplaysAskedInv
  BY DEF Replays!Init, ReplaysAskedInv
<1>2. ASSUME ReplaysTypeInv, ReplaysAskedInv, [Replays!Next]_(Replays!vars)
      PROVE  ReplaysAskedInv'
  <2> USE DEF ReplaysAskedInv, ReplaysTypeInv, ReplaysRowsOK, ReplaysPlaced, ReplaysAlone,
              Replays!AtAwait, ReplaysBusy, Replays!Current, ReplaysJob, Replays!NoJob,
              Replays!NoneLeft, Replays!bounds
  <2>1. ASSUME NEW t \in Slots, NEW p \in Replays!Policies, NEW stop \in BOOLEAN,
               ReplaysAlone(t), Replays!StartRun(t, p, stop)
        PROVE  ReplaysAskedInv'
    BY <1>2, <2>1 DEF Replays!StartRun, Replays!GoTo
  <2>2. ASSUME NEW t \in Slots, ReplaysAlone(t), Replays!Finished(t)
        PROVE  ReplaysAskedInv'
    BY <1>2, <2>2 DEF Replays!Finished, Replays!GoTo, Replays!NoneLeft
  <2>3. ASSUME NEW t \in Slots, ReplaysAlone(t), Replays!PassedOver(t)
        PROVE  ReplaysAskedInv'
    <3>1. replayJob[t].todo \in Seq((Photos \union Sentences)) /\ replayJob[t].todo # <<>>
        /\ replayPc[t] = "next" /\ replayJob[t] \in ReplaysJob
      BY <1>2, <2>3 DEF Replays!PassedOver
    <3>2. Replays!ToSet(replayJob[t].todo) \subseteq {Replays!Current(t)} \cup Replays!ToSet(Tail(replayJob[t].todo))
      BY <3>1, ReplaysTailSet
    <3>3. /\ replayJob'[t] = [replayJob[t] EXCEPT !.failed = @ \cup {Replays!Current(t)},
                                    !.todo = IF Replays!StopsOnError(t) THEN <<>> ELSE Tail(@)]
          /\ \A o \in Slots \ {t} : replayJob'[o] = replayJob[o]
          /\ replayPc' = replayPc /\ replayBroken' = replayBroken
          /\ replayWaiting' = replayWaiting
      BY <1>2, <2>3 DEF Replays!PassedOver
    <3>4. /\ replayJob'[t].failed = replayJob[t].failed \cup {Replays!Current(t)}
          /\ replayJob'[t].stop = replayJob[t].stop
          /\ replayJob'[t].asked = replayJob[t].asked
          /\ replayJob[t].stop \/ replayJob'[t].todo = Tail(replayJob[t].todo)
      BY <3>1, <3>3 DEF Replays!StopsOnError
    <3> HIDE DEF ReplaysJob, Replays!Current
    <3>5. CASE ~replayBroken[t]
      BY <1>2, <3>1, <3>2, <3>3, <3>4, <3>5
    <3>6. CASE replayBroken[t]
      BY <1>2, <3>1, <3>3, <3>6
    <3> QED
      BY <3>5, <3>6
  <2>4. ASSUME NEW t \in Slots, ReplaysAlone(t), Replays!Duplicate(t)
        PROVE  ReplaysAskedInv'
    BY <1>2, <2>4 DEF Replays!Duplicate, Replays!GoTo
  <2>5. ASSUME NEW t \in Slots, ReplaysAlone(t), Replays!DraftReply(t)
        PROVE  ReplaysAskedInv'
    BY <1>2, <2>5 DEF Replays!DraftReply, Replays!GoTo
  <2>6. ASSUME NEW t \in Slots, ReplaysAlone(t), Replays!Requeue(t)
        PROVE  ReplaysAskedInv'
    BY <1>2, <2>6 DEF Replays!Requeue, Replays!GoTo
  <2>7. ASSUME NEW t \in Slots, ReplaysAlone(t), Replays!Drafted(t)
        PROVE  ReplaysAskedInv'
    <3>1. /\ replayJob' = replayJob /\ replayWaiting' = replayWaiting
          /\ replayPc[t] = "drafting"
          /\ \A o \in Slots \ {t} : replayPc'[o] = replayPc[o]
              /\ replayBroken'[o] = replayBroken[o]
          /\ \/ replayPc'[t] = "requeueing" /\ replayBroken' = replayBroken
             \/ replayPc'[t] = "done" /\ replayBroken'[t]
      BY <1>2, <2>7 DEF Replays!Drafted, Replays!EngagementSaved,
         Replays!GoTo, Replays!Dies
    <3> SUFFICES ASSUME NEW o \in Slots, replayPc'[o] # "idle", ~replayBroken'[o]
                 PROVE  /\ replayPc'[o] = "done" => replayJob'[o].todo = <<>>
                        /\ \/ replayJob'[o].asked \subseteq replayWaiting' \cup replayJob'[o].failed \cup Replays!ToSet(replayJob'[o].todo)
                           \/ replayJob'[o].stop /\ replayJob'[o].failed # {}
      OBVIOUS
    <3> HIDE DEF ReplaysJob
    <3>2. CASE o = t
      BY <1>2, <3>1, <3>2
    <3>3. CASE o # t
      BY <1>2, <3>1, <3>3
    <3> QED
      BY <3>2, <3>3
  <2>8. ASSUME NEW t \in Slots, ReplaysAlone(t), Replays!RowSaved(t)
        PROVE  ReplaysAskedInv'
    BY <1>2, <2>8 DEF Replays!RowSaved, Replays!GoTo
  <2>9. ASSUME NEW t \in Slots, ReplaysAlone(t), Replays!Pushed(t)
        PROVE  ReplaysAskedInv'
    BY <1>2, <2>9 DEF Replays!Pushed, Replays!GoTo
  <2>10. ASSUME NEW t \in Slots, ReplaysAlone(t), Replays!Audited(t)
        PROVE  ReplaysAskedInv'
    <3>1. replayJob[t].todo \in Seq((Photos \union Sentences)) /\ replayJob[t].todo # <<>>
        /\ replayPc[t] = "replayed" /\ replayJob[t] \in ReplaysJob
      BY <1>2, <2>10 DEF Replays!Audited
    <3>2. Replays!ToSet(replayJob[t].todo) \subseteq {Replays!Current(t)} \cup Replays!ToSet(Tail(replayJob[t].todo)) /\ Replays!Current(t) \in replayWaiting
      BY <1>2, <3>1, ReplaysTailSet
    <3>3. /\ replayJob'[t] = [replayJob[t] EXCEPT !.todo = Tail(@)]
          /\ \A o \in Slots \ {t} : replayJob'[o] = replayJob[o] /\ replayPc'[o] = replayPc[o]
          /\ replayPc'[t] = "next" /\ replayBroken' = replayBroken
          /\ replayWaiting' = replayWaiting
      BY <1>2, <2>10 DEF Replays!Audited, Replays!Leave, Replays!GoTo
    <3>4. /\ replayJob'[t].failed = replayJob[t].failed
          /\ replayJob'[t].stop = replayJob[t].stop
          /\ replayJob'[t].asked = replayJob[t].asked
          /\ replayJob'[t].todo = Tail(replayJob[t].todo)
      BY <3>1, <3>3
    <3> HIDE DEF ReplaysJob, Replays!Current
    <3>5. CASE ~replayBroken[t]
      BY <1>2, <3>1, <3>2, <3>3, <3>4, <3>5
    <3>6. CASE replayBroken[t]
      <4> SUFFICES ASSUME NEW o \in Slots, replayPc'[o] # "idle", ~replayBroken'[o]
                   PROVE  /\ replayPc'[o] = "done" => replayJob'[o].todo = <<>>
                          /\ \/ replayJob'[o].asked \subseteq replayWaiting' \cup replayJob'[o].failed \cup Replays!ToSet(replayJob'[o].todo)
                             \/ replayJob'[o].stop /\ replayJob'[o].failed # {}
        OBVIOUS
      <4>1. o # t /\ ~replayBroken[o]
        BY <3>3, <3>6
      <4> QED
        BY <1>2, <3>3, <4>1
    <3> QED
      BY <3>5, <3>6
  <2>11. ASSUME NEW t \in Slots, ReplaysAlone(t), Replays!PushFails(t)
        PROVE  ReplaysAskedInv'
    BY <1>2, <2>11 DEF Replays!PushFails, Replays!GoTo, Replays!Dies
  <2>12. ASSUME NEW t \in Slots, ReplaysAlone(t), Replays!Answered(t)
        PROVE  ReplaysAskedInv'
    BY <1>2, <2>12 DEF Replays!Answered, Replays!GoTo
  <2>13. CASE Replays!Crash
    BY <1>2, <2>13 DEF Replays!Crash
  <2>14. CASE UNCHANGED Replays!vars
    BY <1>2, <2>14 DEF Replays!vars
  <2> HIDE DEF ReplaysAskedInv, ReplaysTypeInv
  <2> HIDE DEF ReplaysAskedInv, ReplaysTypeInv, ReplaysRowsOK, ReplaysPlaced
  <2> QED
    BY <1>2, <2>1, <2>2, <2>3, <2>4, <2>5, <2>6, <2>7, <2>8, <2>9, <2>10,
       <2>11,
       <2>12, <2>13, <2>14 DEF Replays!Next, Replays!RunSteps, ReplaysAlone
<1> QED
  BY <1>1, <1>2, ReplaysTypeInvHolds, PTL DEF Replays!Spec
-----------------------------------------------------------------------------
(* What is learnt from a boss                                                *)

\* The windows and the bounds are numbers.
LearnBounded ==
    /\ KnowledgeWindow \in Nat /\ MemoryWindow \in Nat
    /\ MaxTalk \in Nat /\ MaxUpdates \in Nat /\ MaxDecisions \in Nat /\ MaxCrashes \in Nat

\* What the knowledge base keeps of a conversation.
LearnEntries == [text : (Telling \union Judging), cat : {"inferred", "other"},
                 by : {"chat", "tool"}]

\* What an episode says became of a draft.
LearnOutcomes == {"accepted", "needs_revision", "decided"}

\* How far the refresh of the briefs has come.
LearnSaving ==
    /\ learnLeft \in {<<>>, Learn!SaveOrder, <<"owner", "summary">>, <<"summary">>}
    /\ learnBusy = "refresh" <=> learnLeft # <<>>
    /\ learnLeft \in {<<"owner", "summary">>, <<"summary">>}
        => learnBriefs["brand"].known = Len(learnKnowledge)
    /\ learnLeft = <<"summary">> => learnBriefs["owner"].known = Len(learnKnowledge)

\* A summary as new as the talk was written after the other two briefs.
LearnFresh ==
    /\ learnBriefs["summary"].talk <= learnTalk
    /\ learnBusy \in {"fact", "style", "verdict"}
        => learnHeard \in (Telling \union Judging) /\ learnBriefs["summary"].talk < learnTalk
    /\ learnBriefs["summary"].talk = learnTalk
        => learnBriefs["brand"].known >= learnLearnt
            /\ learnBriefs["owner"].known >= learnLearnt

\* The inductive invariant of conversations, knowledge and briefs.
LearnInv == Learn!TypeOK /\ LearnSaving /\ LearnFresh

\* What appending to a list changes.
LEMMA LearnAppendIs ==
    ASSUME NEW S, NEW s \in Seq(S), NEW x \in S
    PROVE  /\ Append(s, x) \in Seq(S) /\ Len(Append(s, x)) = Len(s) + 1
           /\ Append(s, x)[Len(s) + 1] = x
           /\ \A i \in 1 .. Len(s) : Append(s, x)[i] = s[i]
           /\ Len(s) \in Nat
  OBVIOUS

\* It holds over every interleaving of the promoter and the refresh.
LEMMA LearnInvHolds ==
    ASSUME LearnBounded
    PROVE  Learn!Init /\ [][Learn!Next]_(Learn!vars) => []LearnInv
<1>1. Learn!Init => LearnInv
  <2> USE DEF Learn!Init, LearnBounded
  <2>1. Learn!Init => learnTalk \in 0..MaxTalk /\ learnUpdates \in 0..MaxUpdates
      /\ learnDecisions \in 0..MaxDecisions /\ learnCrashes \in 0..MaxCrashes
    BY DEF Learn!Blank, Learn!Briefs
  <2>2. Learn!Init => learnQuiet \in BOOLEAN /\ learnHasTask \in BOOLEAN
    BY DEF Learn!Blank, Learn!Briefs
  <2>3. Learn!Init => learnHeard \in (Telling \union Judging) \cup {None}
      /\ learnBusy \in {"no", "fact", "style", "verdict", "refresh"}
    BY DEF Learn!Blank, Learn!Briefs
  <2>4. Learn!Init => learnKnowledge \in Seq(LearnEntries)
      /\ learnLearnt \in 0..Len(learnKnowledge)
    BY DEF Learn!Blank, Learn!Briefs
  <2>5. Learn!Init => learnPrefs \in Seq((Telling \union Judging) \cup {EditedText})
      /\ learnEpisodes \in Seq(LearnOutcomes)
    BY DEF Learn!Blank, Learn!Briefs
  <2>6. Learn!Init => learnBriefs \in [Learn!Briefs -> [talk : 0..MaxTalk, known : Nat]]
      /\ learnLeft \in Seq(Learn!Briefs)
    BY DEF Learn!Blank, Learn!Briefs
  <2>7. Learn!Init => LearnSaving
    BY DEF LearnSaving, LearnFresh, Learn!Blank, Learn!Briefs, Learn!SaveOrder
  <2>8. Learn!Init => LearnFresh
    BY DEF LearnSaving, LearnFresh, Learn!Blank, Learn!Briefs, Learn!SaveOrder
  <2> QED
    BY <2>1, <2>2, <2>3, <2>4, <2>5, <2>6, <2>7, <2>8 DEF LearnInv,
       Learn!TypeOK, LearnEntries, LearnOutcomes
<1>2. ASSUME LearnInv, [Learn!Next]_(Learn!vars)
      PROVE  LearnInv'
  <2> USE DEF LearnInv, Learn!TypeOK, LearnSaving, LearnFresh, LearnBounded, Learn!Free,
              Learn!Briefs, Learn!SaveOrder, LearnEntries, LearnOutcomes, Learn!learning,
              Learn!briefing
  <2>1. ASSUME NEW x \in (Telling \union Judging), Learn!BossSays(x)
        PROVE  LearnInv'
    <3>1. learnTalk' \in 0..MaxTalk /\ learnUpdates' \in 0..MaxUpdates
        /\ learnDecisions' \in 0..MaxDecisions /\ learnCrashes' \in 0..MaxCrashes
      BY <1>2, <2>1 DEF Learn!BossSays
    <3>2. learnQuiet' \in BOOLEAN /\ learnHasTask' \in BOOLEAN
      BY <1>2, <2>1 DEF Learn!BossSays
    <3>3. learnHeard' \in (Telling \union Judging) \cup {None}
        /\ learnBusy' \in {"no", "fact", "style", "verdict", "refresh"}
      BY <1>2, <2>1 DEF Learn!BossSays
    <3>4. learnKnowledge' \in Seq(LearnEntries) /\ learnLearnt' \in 0..Len(learnKnowledge')
      BY <1>2, <2>1 DEF Learn!BossSays
    <3>5. learnPrefs' \in Seq((Telling \union Judging) \cup {EditedText})
        /\ learnEpisodes' \in Seq(LearnOutcomes)
      BY <1>2, <2>1 DEF Learn!BossSays
    <3>6. learnBriefs' \in [Learn!Briefs -> [talk : 0..MaxTalk, known : Nat]]
        /\ learnLeft' \in Seq(Learn!Briefs)
      BY <1>2, <2>1 DEF Learn!BossSays
    <3>7. LearnSaving'
      BY <1>2, <2>1 DEF Learn!BossSays
    <3>8. LearnFresh'
      BY <1>2, <2>1 DEF Learn!BossSays
    <3> QED
      BY <3>1, <3>2, <3>3, <3>4, <3>5, <3>6, <3>7, <3>8
  <2>2. ASSUME NEW x \in (Telling \union Judging), NEW c \in {"inferred", "other"},
               Learn!ApplyKnowledgeUpdate(x, c)
        PROVE  LearnInv'
    <3>1. learnTalk' \in 0..MaxTalk /\ learnUpdates' \in 0..MaxUpdates
        /\ learnDecisions' \in 0..MaxDecisions /\ learnCrashes' \in 0..MaxCrashes
      BY <1>2, <2>2 DEF Learn!ApplyKnowledgeUpdate
    <3>2. learnQuiet' \in BOOLEAN /\ learnHasTask' \in BOOLEAN
      BY <1>2, <2>2 DEF Learn!ApplyKnowledgeUpdate
    <3>3. learnHeard' \in (Telling \union Judging) \cup {None}
        /\ learnBusy' \in {"no", "fact", "style", "verdict", "refresh"}
      BY <1>2, <2>2 DEF Learn!ApplyKnowledgeUpdate
    <3>4. learnKnowledge' \in Seq(LearnEntries) /\ learnLearnt' \in 0..Len(learnKnowledge')
      BY <1>2, <2>2 DEF Learn!ApplyKnowledgeUpdate
    <3>5. learnPrefs' \in Seq((Telling \union Judging) \cup {EditedText})
        /\ learnEpisodes' \in Seq(LearnOutcomes)
      BY <1>2, <2>2 DEF Learn!ApplyKnowledgeUpdate
    <3>6. learnBriefs' \in [Learn!Briefs -> [talk : 0..MaxTalk, known : Nat]]
        /\ learnLeft' \in Seq(Learn!Briefs)
      BY <1>2, <2>2 DEF Learn!ApplyKnowledgeUpdate
    <3>7. LearnSaving'
      BY <1>2, <2>2 DEF Learn!ApplyKnowledgeUpdate
    <3>8. LearnFresh'
      BY <1>2, <2>2 DEF Learn!ApplyKnowledgeUpdate
    <3> QED
      BY <3>1, <3>2, <3>3, <3>4, <3>5, <3>6, <3>7, <3>8
  <2>3. CASE Learn!OthersSay
    <3>1. learnTalk' \in 0..MaxTalk /\ learnUpdates' \in 0..MaxUpdates
        /\ learnDecisions' \in 0..MaxDecisions /\ learnCrashes' \in 0..MaxCrashes
      BY <1>2, <2>3 DEF Learn!OthersSay
    <3>2. learnQuiet' \in BOOLEAN /\ learnHasTask' \in BOOLEAN
      BY <1>2, <2>3 DEF Learn!OthersSay
    <3>3. learnHeard' \in (Telling \union Judging) \cup {None}
        /\ learnBusy' \in {"no", "fact", "style", "verdict", "refresh"}
      BY <1>2, <2>3 DEF Learn!OthersSay
    <3>4. learnKnowledge' \in Seq(LearnEntries) /\ learnLearnt' \in 0..Len(learnKnowledge')
      BY <1>2, <2>3 DEF Learn!OthersSay
    <3>5. learnPrefs' \in Seq((Telling \union Judging) \cup {EditedText})
        /\ learnEpisodes' \in Seq(LearnOutcomes)
      BY <1>2, <2>3 DEF Learn!OthersSay
    <3>6. learnBriefs' \in [Learn!Briefs -> [talk : 0..MaxTalk, known : Nat]]
        /\ learnLeft' \in Seq(Learn!Briefs)
      BY <1>2, <2>3 DEF Learn!OthersSay
    <3>7. LearnSaving'
      BY <1>2, <2>3 DEF Learn!OthersSay
    <3>8. LearnFresh'
      BY <1>2, <2>3 DEF Learn!OthersSay
    <3> QED
      BY <3>1, <3>2, <3>3, <3>4, <3>5, <3>6, <3>7, <3>8
  <2>4. CASE Learn!PromoteFact
    <3>1. learnTalk' \in 0..MaxTalk /\ learnUpdates' \in 0..MaxUpdates
        /\ learnDecisions' \in 0..MaxDecisions /\ learnCrashes' \in 0..MaxCrashes
      BY <1>2, <2>4 DEF Learn!PromoteFact
    <3>2. learnQuiet' \in BOOLEAN /\ learnHasTask' \in BOOLEAN
      BY <1>2, <2>4 DEF Learn!PromoteFact
    <3>3. learnHeard' \in (Telling \union Judging) \cup {None}
        /\ learnBusy' \in {"no", "fact", "style", "verdict", "refresh"}
      BY <1>2, <2>4 DEF Learn!PromoteFact
    <3>4. learnKnowledge' \in Seq(LearnEntries) /\ learnLearnt' \in 0..Len(learnKnowledge')
      <4> DEFINE new == [text |-> learnHeard, cat |-> "inferred", by |-> "chat"]
      <4>1. learnHeard \in (Telling \union Judging)
        BY <1>2, <2>4 DEF Learn!PromoteFact
      <4>2. new \in LearnEntries
        BY <4>1
      <4>3. learnKnowledge' = (IF learnHeard \in Telling
                                /\ ~Learn!KnownFact(learnHeard) THEN Append(learnKnowledge,
                                                                            new) ELSE learnKnowledge)
            /\ learnLearnt' = Len(learnKnowledge')
        BY <2>4 DEF Learn!PromoteFact
      <4> HIDE DEF new, LearnEntries
      <4>4. learnKnowledge \in Seq(LearnEntries)
        BY <1>2 DEF LearnEntries
      <4>5. learnKnowledge' \in Seq(LearnEntries)
        BY <4>2, <4>3, <4>4
      <4> QED
        BY <4>3, <4>5
    <3>5. learnPrefs' \in Seq((Telling \union Judging) \cup {EditedText})
        /\ learnEpisodes' \in Seq(LearnOutcomes)
      BY <1>2, <2>4 DEF Learn!PromoteFact
    <3>6. learnBriefs' \in [Learn!Briefs -> [talk : 0..MaxTalk, known : Nat]]
        /\ learnLeft' \in Seq(Learn!Briefs)
      BY <1>2, <2>4 DEF Learn!PromoteFact
    <3>7. LearnSaving'
      BY <1>2, <2>4 DEF Learn!PromoteFact
    <3>8. LearnFresh'
      BY <1>2, <2>4 DEF Learn!PromoteFact
    <3> QED
      BY <3>1, <3>2, <3>3, <3>4, <3>5, <3>6, <3>7, <3>8
  <2>5. CASE Learn!PromoteStyle
    <3>1. learnTalk' \in 0..MaxTalk /\ learnUpdates' \in 0..MaxUpdates
        /\ learnDecisions' \in 0..MaxDecisions /\ learnCrashes' \in 0..MaxCrashes
      BY <1>2, <2>5 DEF Learn!PromoteStyle, Learn!SavePreference
    <3>2. learnQuiet' \in BOOLEAN /\ learnHasTask' \in BOOLEAN
      BY <1>2, <2>5 DEF Learn!PromoteStyle, Learn!SavePreference
    <3>3. learnHeard' \in (Telling \union Judging) \cup {None}
        /\ learnBusy' \in {"no", "fact", "style", "verdict", "refresh"}
      BY <1>2, <2>5 DEF Learn!PromoteStyle, Learn!SavePreference
    <3>4. learnKnowledge' \in Seq(LearnEntries) /\ learnLearnt' \in 0..Len(learnKnowledge')
      BY <1>2, <2>5 DEF Learn!PromoteStyle, Learn!SavePreference
    <3>5. learnPrefs' \in Seq((Telling \union Judging) \cup {EditedText})
        /\ learnEpisodes' \in Seq(LearnOutcomes)
      <4>1. learnHeard \in (Telling \union Judging) \cup {EditedText}
        BY <1>2, <2>5 DEF Learn!PromoteStyle
      <4>2. learnPrefs' = learnPrefs \/ learnPrefs' = Append(learnPrefs, learnHeard)
        BY <2>5 DEF Learn!PromoteStyle, Learn!SavePreference
      <4>3. learnEpisodes' = learnEpisodes
        BY <2>5 DEF Learn!PromoteStyle
      <4>4. learnPrefs \in Seq((Telling \union Judging) \cup {EditedText})
          /\ learnEpisodes \in Seq(LearnOutcomes)
        BY <1>2
      <4> HIDE DEF LearnOutcomes
      <4> QED
        BY <4>1, <4>2, <4>3, <4>4
    <3>6. learnBriefs' \in [Learn!Briefs -> [talk : 0..MaxTalk, known : Nat]]
        /\ learnLeft' \in Seq(Learn!Briefs)
      BY <1>2, <2>5 DEF Learn!PromoteStyle, Learn!SavePreference
    <3>7. LearnSaving'
      BY <1>2, <2>5 DEF Learn!PromoteStyle, Learn!SavePreference
    <3>8. LearnFresh'
      BY <1>2, <2>5 DEF Learn!PromoteStyle, Learn!SavePreference
    <3> QED
      BY <3>1, <3>2, <3>3, <3>4, <3>5, <3>6, <3>7, <3>8
  <2>6. CASE Learn!PromoteVerdict
    <3>1. learnTalk' \in 0..MaxTalk /\ learnUpdates' \in 0..MaxUpdates
        /\ learnDecisions' \in 0..MaxDecisions /\ learnCrashes' \in 0..MaxCrashes
      BY <1>2, <2>6 DEF Learn!PromoteVerdict, Learn!SaveEpisode
    <3>2. learnQuiet' \in BOOLEAN /\ learnHasTask' \in BOOLEAN
      BY <1>2, <2>6 DEF Learn!PromoteVerdict, Learn!SaveEpisode
    <3>3. learnHeard' \in (Telling \union Judging) \cup {None}
        /\ learnBusy' \in {"no", "fact", "style", "verdict", "refresh"}
      BY <1>2, <2>6 DEF Learn!PromoteVerdict, Learn!SaveEpisode
    <3>4. learnKnowledge' \in Seq(LearnEntries) /\ learnLearnt' \in 0..Len(learnKnowledge')
      BY <1>2, <2>6 DEF Learn!PromoteVerdict, Learn!SaveEpisode
    <3>5. learnPrefs' \in Seq((Telling \union Judging) \cup {EditedText})
        /\ learnEpisodes' \in Seq(LearnOutcomes)
      <4>1. learnPrefs' = learnPrefs
        BY <2>6 DEF Learn!PromoteVerdict
      <4>2. learnEpisodes' = learnEpisodes
          \/ \E o \in LearnOutcomes : learnEpisodes' = Append(learnEpisodes, o)
        BY <2>6 DEF Learn!PromoteVerdict, Learn!SaveEpisode
      <4>3. learnPrefs \in Seq((Telling \union Judging) \cup {EditedText})
          /\ learnEpisodes \in Seq(LearnOutcomes)
        BY <1>2
      <4> HIDE DEF LearnOutcomes
      <4> QED
        BY <4>1, <4>2, <4>3
    <3>6. learnBriefs' \in [Learn!Briefs -> [talk : 0..MaxTalk, known : Nat]]
        /\ learnLeft' \in Seq(Learn!Briefs)
      BY <1>2, <2>6 DEF Learn!PromoteVerdict, Learn!SaveEpisode
    <3>7. LearnSaving'
      BY <1>2, <2>6 DEF Learn!PromoteVerdict, Learn!SaveEpisode
    <3>8. LearnFresh'
      BY <1>2, <2>6 DEF Learn!PromoteVerdict, Learn!SaveEpisode
    <3> QED
      BY <3>1, <3>2, <3>3, <3>4, <3>5, <3>6, <3>7, <3>8
  <2>7. CASE Learn!IdleRefresh
    BY <1>2, <2>7 DEF Learn!IdleRefresh, Learn!StartRefresh
  <2>8. CASE Learn!RefreshOnUse
    BY <1>2, <2>8 DEF Learn!RefreshOnUse, Learn!StartRefresh
  <2>9. CASE Learn!AfterDecision
    BY <1>2, <2>9 DEF Learn!AfterDecision, Learn!StartRefresh,
       Learn!SaveEpisode
  <2>10. CASE Learn!AfterEdit
    BY <1>2, <2>10 DEF Learn!AfterEdit, Learn!StartRefresh,
       Learn!SavePreference, Learn!SaveEpisode
  <2>11. CASE Learn!SaveBrief
    <3>1. learnTalk' \in 0..MaxTalk /\ learnUpdates' \in 0..MaxUpdates
        /\ learnDecisions' \in 0..MaxDecisions /\ learnCrashes' \in 0..MaxCrashes
      BY <1>2, <2>11 DEF Learn!SaveBrief
    <3>2. learnQuiet' \in BOOLEAN /\ learnHasTask' \in BOOLEAN
      BY <1>2, <2>11 DEF Learn!SaveBrief
    <3>3. learnHeard' \in (Telling \union Judging) \cup {None}
        /\ learnBusy' \in {"no", "fact", "style", "verdict", "refresh"}
      BY <1>2, <2>11 DEF Learn!SaveBrief
    <3>4. learnKnowledge' \in Seq(LearnEntries) /\ learnLearnt' \in 0..Len(learnKnowledge')
      BY <1>2, <2>11 DEF Learn!SaveBrief
    <3>5. learnPrefs' \in Seq((Telling \union Judging) \cup {EditedText})
        /\ learnEpisodes' \in Seq(LearnOutcomes)
      BY <1>2, <2>11 DEF Learn!SaveBrief
    <3> DEFINE now == [talk |-> learnTalk, known |-> Len(learnKnowledge)]
    <3>9. now \in [talk : 0..MaxTalk, known : Nat] /\ now.talk = learnTalk
        /\ now.known = Len(learnKnowledge)
      BY <1>2
    <3>10. /\ learnBriefs' = [learnBriefs EXCEPT ![Head(learnLeft)] = now]
           /\ learnLeft' = Tail(learnLeft)
           /\ learnBusy' = (IF Tail(learnLeft) = <<>> THEN "no" ELSE "refresh")
           /\ learnBusy = "refresh"
           /\ UNCHANGED <<learnTalk, learnKnowledge, learnHeard, learnLearnt>>
      BY <2>11 DEF Learn!SaveBrief
    <3> HIDE DEF now
    <3>11. \/ learnLeft = <<"brand", "owner", "summary">> /\ Head(learnLeft) = "brand"
              /\ Tail(learnLeft) = <<"owner", "summary">>
           \/ learnLeft = <<"owner", "summary">> /\ Head(learnLeft) = "owner"
               /\ Tail(learnLeft) = <<"summary">>
           \/ learnLeft = <<"summary">> /\ Head(learnLeft) = "summary" /\ Tail(learnLeft) = <<>>
      <4>1. \/ learnLeft = <<"brand", "owner", "summary">>
            \/ learnLeft = <<"owner", "summary">>
            \/ learnLeft = <<"summary">>
        BY <1>2, <3>10
      <4>2. CASE learnLeft = <<"brand", "owner", "summary">>
        BY <4>2
      <4>3. CASE learnLeft = <<"owner", "summary">>
        BY <4>3
      <4>4. CASE learnLeft = <<"summary">>
        BY <4>4
      <4> QED
        BY <4>1, <4>2, <4>3, <4>4
    <3>6. learnBriefs' \in [Learn!Briefs -> [talk : 0..MaxTalk, known : Nat]]
        /\ learnLeft' \in Seq(Learn!Briefs)
      BY <1>2, <3>9, <3>10, <3>11
    <3>7. LearnSaving'
      <4>1. CASE learnLeft = <<"brand", "owner", "summary">>
        BY <1>2, <3>9, <3>10, <3>11, <4>1
      <4>2. CASE learnLeft = <<"owner", "summary">>
        BY <1>2, <3>9, <3>10, <3>11, <4>2
      <4>3. CASE learnLeft = <<"summary">>
        BY <1>2, <3>9, <3>10, <3>11, <4>3
      <4> QED
        BY <3>11, <4>1, <4>2, <4>3
    <3>8. LearnFresh'
      BY <1>2, <3>9, <3>10, <3>11
    <3> QED
      BY <3>1, <3>2, <3>3, <3>4, <3>5, <3>6, <3>7, <3>8
  <2>12. CASE Learn!GrowsQuiet
    BY <1>2, <2>12 DEF Learn!GrowsQuiet
  <2>13. CASE Learn!RecordTask
    BY <1>2, <2>13 DEF Learn!RecordTask
  <2>14. CASE Learn!Crash
    BY <1>2, <2>14 DEF Learn!Crash
  <2>15. CASE UNCHANGED Learn!vars
    BY <1>2, <2>15 DEF Learn!vars
  <2> QED
    BY <1>2, <2>1, <2>2, <2>3, <2>4, <2>5, <2>6, <2>7, <2>8, <2>9, <2>10,
       <2>11,
       <2>12, <2>13, <2>14, <2>15 DEF Learn!Next, Learn!Promote
<1> QED
  BY <1>1, <1>2, PTL

\* A brief that looks fresh tells everything that was learnt by then.
THEOREM LearnFreshMeansWholeHolds ==
    ASSUME LearnBounded
    PROVE  Learn!Init /\ [][Learn!Next]_(Learn!vars) => []Learn!FreshMeansWhole
<1>1. LearnInv => Learn!FreshMeansWhole
  BY DEF LearnInv, LearnFresh, Learn!FreshMeansWhole
<1> QED
  BY <1>1, LearnInvHolds, PTL

\* What is no farther back than the window is found in it.
LEMMA LearnWithinHas ==
    ASSUME NEW S, NEW s \in Seq(S), NEW n \in Nat, NEW i \in 1..Len(s), Len(s) + 1 - i <= n
    PROVE  s[i] \in Learn!Within(s, n)
<1> DEFINE m == IF Len(s) > n THEN Len(s) - n + 1 ELSE 1
<1>1. m \in 1..Len(s) /\ i >= m /\ Len(s) \in Nat
  OBVIOUS
<1>2. Learn!Recent(s, n) = SubSeq(s, m, Len(s))
  BY DEF Learn!Recent
<1> HIDE DEF m
<1>3. Len(SubSeq(s, m, Len(s))) = Len(s) - m + 1
  BY <1>1
<1>4. i - m + 1 \in 1..(Len(s) - m + 1)
  BY <1>1
<1>5. SubSeq(s, m, Len(s))[i - m + 1] = s[i]
  BY <1>1, <1>4
<1> QED
  BY <1>2, <1>3, <1>4, <1>5 DEF Learn!Within

\* What a boss repeats enters the knowledge base again only beyond the window.
LearnKnowledgeApart ==
    \A i, j \in 1..Len(learnKnowledge) :
        i < j /\ learnKnowledge[j].by = "chat"
            /\ learnKnowledge[i].text = learnKnowledge[j].text
              /\ learnKnowledge[i].cat = "inferred" => j - i > KnowledgeWindow

\* A preference is written again only beyond the window.
LearnPrefsApart ==
    \A i, j \in 1..Len(learnPrefs) :
        i < j /\ learnPrefs[i] = learnPrefs[j] /\ learnPrefs[i] # EditedText
            => j - i > MemoryWindow

\* An episode is written again only beyond the window.
LearnEpisodesApart ==
    \A i, j \in 1..Len(learnEpisodes) :
        i < j /\ learnEpisodes[i] = learnEpisodes[j] /\ learnEpisodes[i] # "decided"
            => j - i > MemoryWindow

\* Together they are what the model promises.
LEMMA LearnApartIs == Learn!LearnedOnce
    <=> LearnKnowledgeApart /\ LearnPrefsApart /\ LearnEpisodesApart
  BY DEF Learn!LearnedOnce, Learn!Apart, LearnKnowledgeApart, LearnPrefsApart,
     LearnEpisodesApart

\* The promoter looks before it writes knowledge.
LEMMA LearnKnowledgeStaysApart ==
    ASSUME LearnBounded, LearnInv, LearnInv', LearnKnowledgeApart, [Learn!Next]_(Learn!vars)
    PROVE  LearnKnowledgeApart'
<1>1. learnKnowledge \in Seq(LearnEntries)
  BY DEF LearnInv, Learn!TypeOK, LearnEntries
<1>2. CASE \E x \in (Telling \union Judging),
c \in {"inferred", "other"} : Learn!ApplyKnowledgeUpdate(x, c)
  <2>1. PICK x \in (Telling \union Judging),
  c \in {"inferred", "other"} : Learn!ApplyKnowledgeUpdate(x, c)
    BY <1>2
  <2> DEFINE new == [text |-> x, cat |-> c, by |-> "tool"]
  <2>2. learnKnowledge' = Append(learnKnowledge, new) /\ new \in LearnEntries /\ new.by = "tool"
    BY <2>1 DEF Learn!ApplyKnowledgeUpdate, LearnEntries
  <2> HIDE DEF new
  <2>3. /\ Len(learnKnowledge') = Len(learnKnowledge) + 1
        /\ learnKnowledge'[Len(learnKnowledge) + 1] = new
        /\ \A i \in 1..Len(learnKnowledge) : learnKnowledge'[i] = learnKnowledge[i]
        /\ Len(learnKnowledge) \in Nat
    BY <1>1, <2>2, LearnAppendIs
  <2> QED
    BY <2>2, <2>3 DEF LearnKnowledgeApart
<1>3. CASE Learn!PromoteFact /\ learnKnowledge' # learnKnowledge
  <2> DEFINE new == [text |-> learnHeard, cat |-> "inferred", by |-> "chat"]
  <2>1. learnKnowledge' = Append(learnKnowledge, new) /\ ~Learn!KnownFact(learnHeard)
      /\ learnHeard \in (Telling \union Judging)
    BY <1>3 DEF Learn!PromoteFact, LearnInv, LearnFresh
  <2>2. new \in LearnEntries /\ new.text = learnHeard
    BY <2>1 DEF LearnEntries
  <2> HIDE DEF new
  <2>3. /\ Len(learnKnowledge') = Len(learnKnowledge) + 1
        /\ learnKnowledge'[Len(learnKnowledge) + 1] = new
        /\ \A i \in 1..Len(learnKnowledge) : learnKnowledge'[i] = learnKnowledge[i]
        /\ Len(learnKnowledge) \in Nat
    BY <1>1, <2>1, <2>2, LearnAppendIs
  <2>4. ASSUME NEW i \in 1..Len(learnKnowledge), learnKnowledge[i].text = learnHeard,
               learnKnowledge[i].cat = "inferred"
        PROVE  Len(learnKnowledge) + 1 - i > KnowledgeWindow
    <3>1. learnKnowledge[i] \notin Learn!Within(learnKnowledge, KnowledgeWindow)
      BY <2>1, <2>4 DEF Learn!KnownFact, Learn!LatestEntries
    <3>2. ~(Len(learnKnowledge) + 1 - i <= KnowledgeWindow)
      BY <1>1, <2>4, <3>1, LearnWithinHas DEF LearnBounded
    <3> QED
      BY <2>3, <3>2 DEF LearnBounded
  <2> QED
    BY <2>2, <2>3, <2>4 DEF LearnKnowledgeApart
<1>4. CASE learnKnowledge' = learnKnowledge
  BY <1>4 DEF LearnKnowledgeApart
<1> QED
  BY <1>2, <1>3, <1>4
  DEF Learn!Next, Learn!Promote, Learn!BossSays, Learn!OthersSay, Learn!PromoteFact,
      Learn!PromoteStyle, Learn!PromoteVerdict, Learn!IdleRefresh, Learn!RefreshOnUse,
      Learn!AfterDecision, Learn!AfterEdit, Learn!SaveBrief, Learn!GrowsQuiet,
      Learn!RecordTask, Learn!Crash, Learn!learning, Learn!vars

\* It looks before it writes a preference.
LEMMA LearnPrefsStayApart ==
    ASSUME LearnBounded, LearnInv, LearnInv', LearnPrefsApart, [Learn!Next]_(Learn!vars)
    PROVE  LearnPrefsApart'
<1>1. learnPrefs \in Seq((Telling \union Judging) \cup {EditedText})
  BY DEF LearnInv, Learn!TypeOK
<1>2. CASE Learn!AfterEdit
  <2>1. /\ learnPrefs' = Append(learnPrefs, EditedText)
        /\ Len(learnPrefs') = Len(learnPrefs) + 1
        /\ learnPrefs'[Len(learnPrefs) + 1] = EditedText
        /\ \A i \in 1..Len(learnPrefs) : learnPrefs'[i] = learnPrefs[i]
        /\ Len(learnPrefs) \in Nat
    BY <1>1, <1>2, LearnAppendIs DEF Learn!AfterEdit, Learn!SavePreference
  <2> QED
    BY <2>1 DEF LearnPrefsApart
<1>3. CASE Learn!PromoteStyle /\ learnPrefs' # learnPrefs
  <2>1. /\ learnPrefs' = Append(learnPrefs, learnHeard)
        /\ learnHeard \notin Learn!Within(learnPrefs, MemoryWindow)
        /\ learnHeard \in (Telling \union Judging)
    BY <1>3 DEF Learn!PromoteStyle, Learn!SavePreference, Learn!LatestEntries,
       LearnInv, LearnFresh
  <2>2. /\ Len(learnPrefs') = Len(learnPrefs) + 1
        /\ learnPrefs'[Len(learnPrefs) + 1] = learnHeard
        /\ \A i \in 1..Len(learnPrefs) : learnPrefs'[i] = learnPrefs[i]
        /\ Len(learnPrefs) \in Nat
    BY <1>1, <2>1, LearnAppendIs
  <2>3. ASSUME NEW i \in 1..Len(learnPrefs), learnPrefs[i] = learnHeard
        PROVE  Len(learnPrefs) + 1 - i > MemoryWindow
    <3>1. ~(Len(learnPrefs) + 1 - i <= MemoryWindow)
      BY <1>1, <2>1, <2>3, LearnWithinHas DEF LearnBounded
    <3> QED
      BY <2>2, <3>1 DEF LearnBounded
  <2> QED
    BY <2>2, <2>3 DEF LearnPrefsApart
<1>4. CASE learnPrefs' = learnPrefs
  BY <1>4 DEF LearnPrefsApart
<1> QED
  BY <1>2, <1>3, <1>4
  DEF Learn!Next, Learn!Promote, Learn!BossSays, Learn!ApplyKnowledgeUpdate,
      Learn!OthersSay, Learn!PromoteFact, Learn!PromoteVerdict, Learn!IdleRefresh,
      Learn!RefreshOnUse, Learn!AfterDecision, Learn!SaveBrief, Learn!GrowsQuiet,
      Learn!RecordTask, Learn!Crash, Learn!learning, Learn!vars

\* It looks before it writes an episode.
LEMMA LearnEpisodesStayApart ==
    ASSUME LearnBounded, LearnInv, LearnInv', LearnEpisodesApart, [Learn!Next]_(Learn!vars)
    PROVE  LearnEpisodesApart'
<1>1. learnEpisodes \in Seq(LearnOutcomes)
  BY DEF LearnInv, Learn!TypeOK, LearnOutcomes
<1>2. CASE Learn!AfterEdit \/ Learn!AfterDecision
  <2>1. /\ learnEpisodes' = Append(learnEpisodes, "decided")
        /\ Len(learnEpisodes') = Len(learnEpisodes) + 1
        /\ learnEpisodes'[Len(learnEpisodes) + 1] = "decided"
        /\ \A i \in 1..Len(learnEpisodes) : learnEpisodes'[i] = learnEpisodes[i]
        /\ Len(learnEpisodes) \in Nat
    BY <1>1, <1>2, LearnAppendIs DEF Learn!AfterEdit, Learn!AfterDecision,
       Learn!SaveEpisode, LearnOutcomes
  <2> QED
    BY <2>1 DEF LearnEpisodesApart
<1>3. CASE Learn!PromoteVerdict /\ learnEpisodes' # learnEpisodes
  <2>1. PICK o \in {"accepted", "needs_revision"} :
          learnEpisodes' = Append(learnEpisodes, o)
              /\ o \notin Learn!Within(learnEpisodes, MemoryWindow)
    BY <1>3 DEF Learn!PromoteVerdict, Learn!SaveEpisode, Learn!LatestEntries
  <2>2. /\ Len(learnEpisodes') = Len(learnEpisodes) + 1
        /\ learnEpisodes'[Len(learnEpisodes) + 1] = o
        /\ \A i \in 1..Len(learnEpisodes) : learnEpisodes'[i] = learnEpisodes[i]
        /\ Len(learnEpisodes) \in Nat
    BY <1>1, <2>1, LearnAppendIs DEF LearnOutcomes
  <2>3. ASSUME NEW i \in 1..Len(learnEpisodes), learnEpisodes[i] = o
        PROVE  Len(learnEpisodes) + 1 - i > MemoryWindow
    <3>1. ~(Len(learnEpisodes) + 1 - i <= MemoryWindow)
      BY <1>1, <2>1, <2>3, LearnWithinHas DEF LearnBounded
    <3> QED
      BY <2>2, <3>1 DEF LearnBounded
  <2> QED
    BY <2>2, <2>3 DEF LearnEpisodesApart
<1>4. CASE learnEpisodes' = learnEpisodes
  BY <1>4 DEF LearnEpisodesApart
<1> QED
  BY <1>2, <1>3, <1>4
  DEF Learn!Next, Learn!Promote, Learn!BossSays, Learn!ApplyKnowledgeUpdate,
      Learn!OthersSay, Learn!PromoteFact, Learn!PromoteStyle, Learn!PromoteVerdict,
      Learn!IdleRefresh, Learn!RefreshOnUse, Learn!SaveBrief, Learn!GrowsQuiet,
      Learn!RecordTask, Learn!Crash, Learn!learning, Learn!vars

\* What a boss repeats within the window is learnt once.
THEOREM LearnedOnceHolds ==
    ASSUME LearnBounded
    PROVE  Learn!Init /\ [][Learn!Next]_(Learn!vars) => []Learn!LearnedOnce
<1>1. Learn!Init => LearnKnowledgeApart /\ LearnPrefsApart /\ LearnEpisodesApart
  BY DEF Learn!Init, LearnKnowledgeApart, LearnPrefsApart, LearnEpisodesApart
<1>2. LearnInv /\ LearnInv' /\ LearnKnowledgeApart /\ LearnPrefsApart /\ LearnEpisodesApart
    /\ [Learn!Next]_(Learn!vars)
        => LearnKnowledgeApart' /\ LearnPrefsApart' /\ LearnEpisodesApart'
  BY LearnKnowledgeStaysApart, LearnPrefsStayApart, LearnEpisodesStayApart
<1> QED
  BY <1>1, <1>2, LearnInvHolds, LearnApartIs, PTL
=============================================================================
