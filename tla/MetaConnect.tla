---------------------------- MODULE MetaConnect ----------------------------
(***************************************************************************)
(* Connecting a tenant to a Facebook page: an OAuth session is started,    *)
(* Facebook calls back with a code, the owner picks one of the pages the   *)
(* account manages, and the connector row is written; /meta/disconnect     *)
(* deactivates it.                                                         *)
(*                                                                         *)
(* The endpoints are plain functions: they run in worker threads, and two  *)
(* of them interleave at every transaction and every call of Facebook.     *)
(***************************************************************************)
EXTENDS Integers

CONSTANTS
    Sessions,     \* OAuth sessions of the tenant
    Pages,        \* Facebook pages
    Threads,      \* slots for concurrently running requests
    NoPage, NoSession,
    MaxRequests,  \* bound: requests of the owner and callbacks of Facebook
    MaxCrashes    \* bound: restarts of the process

VARIABLES
    session,      \* status of each OAuth session
    offered,      \* page_candidates of each session
    selected,     \* selected_page_id of each session
    over,         \* sessions past expires_at
    page,         \* the page in the connector row, NoPage if there is no row
    active,       \* its is_active
    pc, job,      \* what a request does, for which session and page
    known, ever,  \* pages offered, and pages connected, at some time
    requests, crashes

oauthVars == <<session, offered, selected, over>>
procVars  == <<pc, job>>
histVars  == <<known, ever>>
rowVars   == <<page, active>>
vars == <<oauthVars, rowVars, procVars, histVars, requests, crashes>>

Idle == [session |-> NoSession, page |-> NoPage, overwrite |-> FALSE, saw |-> NoPage]
Jobs == [session : Sessions, page : Pages \cup {NoPage}, overwrite : BOOLEAN,
         saw : Pages \cup {NoPage}]

TypeOK ==
    /\ session \in [Sessions -> {"absent", "pending", "expired", "failed", "selecting_page",
                                 "awaiting_overwrite_confirmation", "completed"}]
    /\ offered \in [Sessions -> SUBSET Pages]
    /\ selected \in [Sessions -> Pages \cup {NoPage}]
    /\ over \in SUBSET Sessions
    /\ page \in Pages \cup {NoPage} /\ active \in BOOLEAN
    /\ pc \in [Threads -> {"idle", "exchanging", "checking", "finding", "inserting",
                           "updating", "refused", "completing"}]
    /\ job \in [Threads -> Jobs \cup {Idle}]
    /\ known \in SUBSET Pages /\ ever \in SUBSET Pages
    /\ requests \in Nat /\ crashes \in Nat

Init ==
    /\ session = [s \in Sessions |-> "absent"]
    /\ offered = [s \in Sessions |-> {}]
    /\ selected = [s \in Sessions |-> NoPage]
    /\ over = {} /\ known = {} /\ ever = {}
    /\ page = NoPage /\ active = FALSE
    /\ pc = [t \in Threads |-> "idle"]
    /\ job = [t \in Threads |-> Idle]
    /\ requests = 0 /\ crashes = 0

\* What get_connector_account returns.
Connected == IF active THEN page ELSE NoPage

Request ==
    /\ requests < MaxRequests
    /\ requests' = requests + 1
    /\ UNCHANGED crashes

NoCount == UNCHANGED <<requests, crashes>>

Begin(t, where, j) ==
    /\ pc[t] = "idle"
    /\ pc' = [pc EXCEPT ![t] = where]
    /\ job' = [job EXCEPT ![t] = j]

GoTo(t, where) ==
    /\ pc' = [pc EXCEPT ![t] = where]
    /\ UNCHANGED job

Finish(t) ==
    /\ pc' = [pc EXCEPT ![t] = "idle"]
    /\ job' = [job EXCEPT ![t] = Idle]

-----------------------------------------------------------------------------
(* The session *)

StartConnection(s) ==
    /\ session[s] = "absent"
    /\ session' = [session EXCEPT ![s] = "pending"]
    /\ UNCHANGED <<offered, selected, over, rowVars, procVars, histVars, requests, crashes>>

QuarterHourPasses(s) ==
    /\ session[s] # "absent" /\ s \notin over
    /\ over' = over \cup {s}
    /\ UNCHANGED <<session, offered, selected, rowVars, procVars, histVars, requests, crashes>>

\* The callback of a session that is over, or that the owner refused.
CallbackRefused(s) ==
    /\ session[s] # "absent"
    /\ Request
    /\ session' = [session EXCEPT ![s] = IF s \in over THEN "expired" ELSE "failed"]
    /\ UNCHANGED <<offered, selected, over, rowVars, procVars, histVars>>

\* A callback with a code, in whatever status the session is; Facebook is
\* asked for a token and for the pages.
Callback(t, s) ==
    /\ session[s] # "absent" /\ s \notin over
    /\ Request
    /\ Begin(t, "exchanging", [Idle EXCEPT !.session = s])
    /\ UNCHANGED <<oauthVars, rowVars, histVars>>

PagesOffered(t) ==
    /\ pc[t] = "exchanging"
    /\ \E S \in SUBSET Pages :
         /\ session' = [session EXCEPT ![job[t].session] =
                          IF S = {} THEN "failed" ELSE "selecting_page"]
         /\ offered' = IF S = {} THEN offered
                       ELSE [offered EXCEPT ![job[t].session] = S]
         /\ known' = known \cup S
    /\ Finish(t)
    /\ UNCHANGED <<selected, over, rowVars, ever>> /\ NoCount

\* Facebook refuses the code, or does not answer.
ExchangeFails(t) ==
    /\ pc[t] = "exchanging"
    /\ Finish(t)
    /\ UNCHANGED <<oauthVars, rowVars, histVars>> /\ NoCount

-----------------------------------------------------------------------------
(* Picking the page *)

\* Mutant: the page in the request is taken without looking for it.
SelectAnyPage(t, s, p, overwrite) ==
    /\ session[s] # "absent"
    /\ Request
    /\ Begin(t, "checking", [session |-> s, page |-> p, overwrite |-> overwrite, saw |-> NoPage])
    /\ UNCHANGED <<oauthVars, rowVars, histVars>>

\* select_page, by REST, by the web page, or by the web page on its own when
\* one page is offered: neither the status nor the age of the session counts.
SelectPage(t, s, p, overwrite) ==
    /\ session[s] # "absent"
    /\ p \in offered[s]
    /\ Request
    /\ Begin(t, "checking", [session |-> s, page |-> p, overwrite |-> overwrite, saw |-> NoPage])
    /\ UNCHANGED <<oauthVars, rowVars, histVars>>

\* Mutant: an existing connector is always replaced.
NeverAsks(t) == FALSE

\* Another page is connected and the owner has not agreed to replace it.
RequiresOverwrite(t) ==
    Connected \notin {NoPage, job[t].page} /\ ~job[t].overwrite

AskToOverwrite(t) ==
    /\ pc[t] = "checking"
    /\ RequiresOverwrite(t)
    /\ session' = [session EXCEPT ![job[t].session] = "awaiting_overwrite_confirmation"]
    /\ selected' = [selected EXCEPT ![job[t].session] = job[t].page]
    /\ Finish(t)
    /\ UNCHANGED <<offered, over, rowVars, histVars>> /\ NoCount

MayConnect(t) ==
    /\ pc[t] = "checking"
    /\ ~RequiresOverwrite(t)
    /\ pc' = [pc EXCEPT ![t] = "finding"]
    /\ job' = [job EXCEPT ![t].saw = Connected]
    /\ UNCHANGED <<oauthVars, rowVars, histVars>> /\ NoCount

\* save_connector_account looks for the active row and updates it; if there
\* is none it inserts one.
FindRow(t) ==
    /\ pc[t] = "finding"
    /\ GoTo(t, IF active THEN "updating" ELSE "inserting")
    /\ UNCHANGED <<oauthVars, rowVars, histVars>> /\ NoCount

InsertRow(t) ==
    /\ pc[t] = "inserting"
    /\ page = NoPage
    /\ page' = job[t].page /\ active' = TRUE
    /\ ever' = ever \cup {job[t].page}
    /\ GoTo(t, "completing")
    /\ UNCHANGED <<oauthVars, known>> /\ NoCount

\* The migrated schema keeps one row of a platform for a tenant, active or
\* not: the insert raises, and the session stays as it was.
InsertRefused(t) ==
    /\ pc[t] = "inserting"
    /\ page # NoPage
    /\ GoTo(t, "refused")
    /\ UNCHANGED <<oauthVars, rowVars, histVars>> /\ NoCount

Answer500(t) ==
    /\ pc[t] = "refused"
    /\ Finish(t)
    /\ UNCHANGED <<oauthVars, rowVars, histVars>> /\ NoCount

\* A row deactivated since it was found takes the page and stays inactive.
UpdateRow(t) ==
    /\ pc[t] = "updating"
    /\ page' = job[t].page
    /\ ever' = ever \cup {job[t].page}
    /\ GoTo(t, "completing")
    /\ UNCHANGED <<oauthVars, active, known>> /\ NoCount

\* Mutant: the session is completed before the connector is written.
CompleteFirst(t) ==
    /\ pc[t] \in {"finding", "completing"}
    /\ session' = [session EXCEPT ![job[t].session] = "completed"]
    /\ selected' = [selected EXCEPT ![job[t].session] = job[t].page]
    /\ Finish(t)
    /\ UNCHANGED <<offered, over, rowVars, histVars>> /\ NoCount

CompleteSession(t) ==
    /\ pc[t] = "completing"
    /\ session' = [session EXCEPT ![job[t].session] = "completed"]
    /\ selected' = [selected EXCEPT ![job[t].session] = job[t].page]
    /\ Finish(t)
    /\ UNCHANGED <<offered, over, rowVars, histVars>> /\ NoCount

\* The row stays, so that it is never found nor replaced again.
Disconnect ==
    /\ active
    /\ Request
    /\ active' = FALSE
    /\ UNCHANGED <<oauthVars, page, procVars, histVars>>

Crash ==
    /\ crashes < MaxCrashes
    /\ crashes' = crashes + 1
    /\ pc' = [t \in Threads |-> "idle"]
    /\ job' = [t \in Threads |-> Idle]
    /\ UNCHANGED <<oauthVars, rowVars, histVars, requests>>

SelectSteps(t) ==
    \/ AskToOverwrite(t) \/ MayConnect(t) \/ FindRow(t) \/ InsertRow(t) \/ InsertRefused(t)
    \/ Answer500(t) \/ UpdateRow(t) \/ CompleteSession(t)

Next ==
    \/ \E s \in Sessions : StartConnection(s) \/ QuarterHourPasses(s) \/ CallbackRefused(s)
    \/ \E t \in Threads, s \in Sessions :
         \/ Callback(t, s)
         \/ \E p \in Pages, overwrite \in BOOLEAN : SelectPage(t, s, p, overwrite)
    \/ \E t \in Threads : PagesOffered(t) \/ ExchangeFails(t) \/ SelectSteps(t)
    \/ Disconnect
    \/ Crash

Spec == Init /\ [][Next]_vars

-----------------------------------------------------------------------------
(* Properties *)

\* Only pages Facebook offered in a session of this tenant are connected,
\* although a session is used again after it was completed or refused.
ConnectedWasOffered == page # NoPage => page \in known

\* A connector in use is pointed at another page only if the owner agreed, or
\* if it changed between the check and the write.
NoSilentOverwrite ==
    [][\A t \in Threads :
         active /\ pc[t] = "updating" /\ pc'[t] = "completing" =>
             job[t].overwrite \/ job[t].saw # Connected \/ page' = page]_vars

\* A session says completed only once its page has been written.
CompletedWasConnected ==
    \A s \in Sessions : session[s] = "completed" => selected[s] \in ever

\* The page shown after a disconnect says that the owner can authorise again:
\* a connection is refused only if another one is there.
ReconnectWorks ==
    [][\A t \in Threads :
         pc[t] # "refused" /\ pc'[t] = "refused" => active]_vars
=============================================================================
