--------------------------- MODULE LegacyConnect ---------------------------
(***************************************************************************)
(* The OAuth flows of the first Kachu (src/kachu/auth/oauth.py): Google    *)
(* and Meta send the owner back with a state, a second token stands for    *)
(* the choice between several places, and what comes out is a row per      *)
(* connected platform.  One tenant; a consent is one visit to a connect    *)
(* link.  A token is in the store while its ticket says so, so popping it  *)
(* changes the ticket.  Every step is the code between two awaits.         *)
(***************************************************************************)
EXTENDS Naturals, FiniteSets

CONSTANTS
    Consents, Places, Threads, Nobody,
    Shared,                 \* tokens are kept in Redis, not in the process
    MaxFaults, MaxCrashes, MaxDisconnects

Platforms == {"gbp", "ga4", "meta"}
Requests  == {{"gbp", "ga4"}, {"gbp"}, {"ga4"}}
Nothing   == [by |-> Nobody, place |-> Nobody]
NoJob     == [consent |-> Nobody, place |-> Nobody]

VARIABLES
    ticket,     \* which token of a consent is in the state store
    wants,      \* the platforms a consent was asked for
    offered,    \* the places its discovery found
    account,    \* the active row of each platform
    links,      \* connections completed by a consent's callback or choice
    backfills,  \* consents whose location is looked up after the response
    pc, job,    \* requests in progress
    faults, crashes, disconnects

procVars == <<pc, job>>
bounds   == <<faults, crashes, disconnects>>
vars == <<ticket, wants, offered, account, links, backfills, procVars, bounds>>

TypeOK ==
    /\ ticket \in [Consents -> {"none", "state", "spent", "selection"}]
    /\ wants \in [Consents -> Requests \cup {{"meta"}, {}}]
    /\ offered \in [Consents -> SUBSET Places]
    /\ account \in [Platforms -> [by : Consents \cup {Nobody}, place : Places \cup {Nobody}]]
    /\ links \in [Consents -> Nat] /\ backfills \subseteq Consents
    /\ pc \in [Threads -> {"idle", "exchanging", "asking", "fetching"}]
    /\ job \in [Threads -> [consent : Consents \cup {Nobody}, place : Places \cup {Nobody}]]
    /\ faults \in 0..MaxFaults /\ crashes \in 0..MaxCrashes
    /\ disconnects \in 0..MaxDisconnects

Init ==
    /\ ticket = [c \in Consents |-> "none"]
    /\ wants = [c \in Consents |-> {}] /\ offered = [c \in Consents |-> {}]
    /\ account = [p \in Platforms |-> Nothing]
    /\ links = [c \in Consents |-> 0] /\ backfills = {}
    /\ pc = [t \in Threads |-> "idle"] /\ job = [t \in Threads |-> NoJob]
    /\ faults = 0 /\ crashes = 0 /\ disconnects = 0

NoCount == UNCHANGED bounds
Fault   == faults < MaxFaults /\ faults' = faults + 1 /\ UNCHANGED <<crashes, disconnects>>
GoTo(t, at, j) == pc' = [pc EXCEPT ![t] = at] /\ job' = [job EXCEPT ![t] = j]
Return(t)      == GoTo(t, "idle", NoJob)

\* save_connector_account: the active row is overwritten, or there is one now.
SavedAnalytics(c) == [account EXCEPT !["ga4"] = [by |-> c, place |-> Nobody]]
Linked(c) == links' = [links EXCEPT ![c] = @ + 1]

\* _save_google_business_connector and _save_meta_connector.
SavedLocation(c, x) == [account EXCEPT !["gbp"] = [by |-> c, place |-> x]]
SavedPage(c, x)     == [account EXCEPT !["meta"] = [by |-> c, place |-> x]]

\* What the discovery of a visit finds: the locations of every Google account,
\* or the pages of the granular scopes, looked up one by one, or of the token.
FoundLocations(c, L) == offered' = [offered EXCEPT ![c] = L]
FoundPages(c, L)     == offered' = [offered EXCEPT ![c] = L]

-----------------------------------------------------------------------------
\* _store_pending_state: the token of a visit is kept for ten minutes.
StoreState(c, w) ==
    /\ ticket[c] = "none"
    /\ ticket' = [ticket EXCEPT ![c] = "state"]
    /\ wants' = [wants EXCEPT ![c] = w]
    /\ UNCHANGED <<offered, account, links, backfills, procVars>> /\ NoCount

\* The two connect links; Google's may ask for one service or for both.
GoogleConnect(c) == \E w \in Requests : StoreState(c, w)
MetaConnect(c)   == StoreState(c, {"meta"})

Expire(c) ==
    /\ ticket[c] \in {"state", "selection"}
    /\ ticket' = [ticket EXCEPT ![c] = "spent"]
    /\ UNCHANGED <<wants, offered, account, links, backfills, procVars>> /\ NoCount

\* Mutant: the state is read and stays in the store.
PopKept(c) == UNCHANGED ticket

\* _pop_pending_state takes the token out in one step (GETDEL, or dict.pop).
Pop(c) == ticket' = [ticket EXCEPT ![c] = "spent"]

(* The callback, however often the browser calls it: without a state in the *)
(* store it answers 400.                                                    *)
Callback(t, c) ==
    /\ pc[t] = "idle" /\ ticket[c] = "state"
    /\ Pop(c)
    /\ GoTo(t, "exchanging", [consent |-> c, place |-> Nobody])
    /\ UNCHANGED <<wants, offered, account, links, backfills>> /\ NoCount

\* The token is taken, and Redis's answer is lost.
PopLost(c) ==
    /\ ticket[c] \in {"state", "selection"} /\ Shared /\ Fault
    /\ Pop(c)
    /\ UNCHANGED <<wants, offered, account, links, backfills, procVars>>

\* Google or Facebook refuses the code: the owner starts again.
ExchangeFails(t) ==
    /\ pc[t] = "exchanging" /\ Return(t) /\ Fault
    /\ UNCHANGED <<ticket, wants, offered, account, links, backfills>>

\* From the token on nothing is awaited: Analytics is saved, the locations are
\* listed (an error counts as none), and a single one is connected at once.
GoogleDiscovered(t) ==
    LET c == job[t].consent
        ga == IF "ga4" \in wants[c] THEN SavedAnalytics(c) ELSE account
    IN
    /\ pc[t] = "exchanging" /\ "meta" \notin wants[c]
    /\ \/ /\ "gbp" \notin wants[c]
          /\ account' = ga /\ Linked(c) /\ Return(t)
          /\ UNCHANGED <<offered, backfills>>
       \/ \E L \in SUBSET Places :
            /\ "gbp" \in wants[c] /\ FoundLocations(c, L)
            /\ IF Cardinality(L) > 1
               THEN /\ account' = ga /\ GoTo(t, "asking", job[t])
                    /\ UNCHANGED <<links, backfills>>
               ELSE /\ account' = [ga EXCEPT !["gbp"] =
                         [by |-> c, place |-> IF L = {} THEN Nobody ELSE CHOOSE x \in L : TRUE]]
                    /\ Linked(c) /\ Return(t)
                    /\ backfills' = IF L = {} THEN backfills \cup {c} ELSE backfills
    /\ UNCHANGED <<ticket, wants>> /\ NoCount

\* Pages are looked up; none ends the visit, and so does a single one, since
\* its token is asked for with a client that is closed by then.
MetaDiscovered(t) ==
    LET c == job[t].consent IN
    /\ pc[t] = "exchanging" /\ "meta" \in wants[c]
    /\ \E L \in SUBSET Places :
         /\ FoundPages(c, L)
         /\ IF Cardinality(L) > 1 THEN GoTo(t, "asking", job[t]) ELSE Return(t)
    /\ UNCHANGED <<ticket, wants, account, links, backfills>> /\ NoCount

\* The page with the choices carries a token of its own.
AskPlace(t) ==
    /\ pc[t] = "asking"
    /\ ticket' = [ticket EXCEPT ![job[t].consent] = "selection"]
    /\ Return(t)
    /\ UNCHANGED <<wants, offered, account, links, backfills>> /\ NoCount

AskFails(t) ==
    /\ pc[t] = "asking" /\ Return(t) /\ Fault
    /\ UNCHANGED <<ticket, wants, offered, account, links, backfills>>

-----------------------------------------------------------------------------
\* Mutant: the place in the link is taken without looking it up.
SelectAnyLocation(t, c, x) ==
    /\ pc[t] = "idle" /\ ticket[c] = "selection" /\ "gbp" \in wants[c]
    /\ Pop(c)
    /\ account' = SavedLocation(c, x) /\ Linked(c)
    /\ UNCHANGED <<wants, offered, backfills, procVars>> /\ NoCount

(* The links of the two selection pages: the token is used up even by a      *)
(* place that was not offered.                                               *)
SelectLocation(t, c, x) ==
    /\ pc[t] = "idle" /\ ticket[c] = "selection" /\ "gbp" \in wants[c]
    /\ Pop(c)
    /\ IF x \in offered[c] THEN account' = SavedLocation(c, x) /\ Linked(c)
                          ELSE UNCHANGED <<account, links>>
    /\ UNCHANGED <<wants, offered, backfills, procVars>> /\ NoCount

SelectPage(t, c, x) ==
    /\ pc[t] = "idle" /\ ticket[c] = "selection" /\ "meta" \in wants[c]
    /\ Pop(c)
    /\ IF x \in offered[c] THEN GoTo(t, "fetching", [consent |-> c, place |-> x])
                          ELSE UNCHANGED procVars
    /\ UNCHANGED <<wants, offered, account, links, backfills>> /\ NoCount

\* The page is saved with its own token, or without one if that failed.
PageTokenFetched(t) ==
    /\ pc[t] = "fetching"
    /\ account' = SavedPage(job[t].consent, job[t].place)
    /\ Linked(job[t].consent) /\ Return(t)
    /\ UNCHANGED <<ticket, wants, offered, backfills>> /\ NoCount

\* Runs in a thread after the response, however long Google takes, and writes
\* its location over the row of the platform.
Backfill(c) ==
    /\ c \in backfills
    /\ backfills' = backfills \ {c}
    /\ \/ \E x \in Places :
            /\ account' = SavedLocation(c, x)
            /\ offered' = [offered EXCEPT ![c] = @ \cup {x}]
       \/ UNCHANGED <<account, offered>>
    /\ UNCHANGED <<ticket, wants, links, procVars>> /\ NoCount

\* The dashboard's disconnect: the row is kept, but not active any more.
Disconnect(p) ==
    /\ account[p] # Nothing
    /\ disconnects < MaxDisconnects /\ disconnects' = disconnects + 1
    /\ account' = [account EXCEPT ![p] = Nothing]
    /\ UNCHANGED <<ticket, wants, offered, links, backfills, procVars, faults, crashes>>

Crash ==
    /\ crashes < MaxCrashes /\ crashes' = crashes + 1
    /\ pc' = [t \in Threads |-> "idle"] /\ job' = [t \in Threads |-> NoJob]
    /\ backfills' = {}
    /\ ticket' = IF Shared THEN ticket
                 ELSE [c \in Consents |-> IF ticket[c] = "none" THEN "none" ELSE "spent"]
    /\ UNCHANGED <<wants, offered, account, links, faults, disconnects>>

Next ==
    \/ \E c \in Consents :
         \/ GoogleConnect(c) \/ MetaConnect(c)
         \/ Expire(c) \/ PopLost(c) \/ Backfill(c)
         \/ \E t \in Threads : 
              \/ Callback(t, c)
              \/ \E x \in Places : SelectLocation(t, c, x) \/ SelectPage(t, c, x)
    \/ \E t \in Threads :
         \/ ExchangeFails(t) \/ GoogleDiscovered(t) \/ MetaDiscovered(t)
         \/ AskPlace(t) \/ AskFails(t) \/ PageTokenFetched(t)
    \/ \E p \in Platforms : Disconnect(p)
    \/ Crash

Spec == Init /\ [][Next]_vars

-----------------------------------------------------------------------------
\* What is connected was asked for by the consent it came from, and its place
\* is one that consent's own discovery found: over two visits at once, links
\* that are opened again and locations that arrive late.
ConnectedWasOffered ==
    \A p \in Platforms : account[p] # Nothing =>
        /\ p \in wants[account[p].by]
        /\ account[p].place \in offered[account[p].by] \cup {Nobody}

\* A visit to a connect link completes one connection at most, however often
\* its callback and its selection page are opened.
ConsentUsedOnce == \A c \in Consents : links[c] <= 1
=============================================================================
