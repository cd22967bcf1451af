-------------------------- MODULE GoogleConnector --------------------------
(***************************************************************************)
(* The Google Business credentials of one tenant: the owner's account, put *)
(* by the connector endpoint, and the access token, refreshed on the way   *)
(* by whatever needs a client of Google (reviews, posts, insights).        *)
(*                                                                         *)
(* The endpoints run in worker threads, so that a refresh, which calls     *)
(* Google between reading the row and writing it, overlaps with others and *)
(* with a new PUT.  Every write replaces the whole JSON document.          *)
(***************************************************************************)
EXTENDS Integers

CONSTANTS
    Accounts,    \* Google accounts the owner may connect
    Threads,     \* slots for concurrently running requests
    NoAccount,   \* there is no row
    MaxPuts, MaxExpiries, MaxMishaps   \* bounds

VARIABLES
    stored,      \* credentials_json
    pc, held,    \* what a request does, and the credentials it read
    served,      \* credentials a client was built from, none after a failure
    wanted,      \* account of the last PUT
    overtaken,   \* a PUT came between the read and the write of a refresh
    puts, expiries, mishaps

procVars == <<pc, held>>
vars == <<stored, procVars, served, wanted, overtaken, puts, expiries, mishaps>>

\* account: account_id and location_id; grant: the account the refresh token
\* and the access token were issued for; fresh: expires_at is not near.
Credentials == [account : Accounts, grant : Accounts, fresh : BOOLEAN,
                status : {"healthy", "failed"}]
NothingStored == [account |-> NoAccount]

TypeOK ==
    /\ stored \in Credentials \cup {NothingStored}
    /\ pc \in [Threads -> {"idle", "refreshing", "serving"}]
    /\ held \in [Threads -> Credentials \cup {NothingStored}]
    /\ served \in [Threads -> Credentials \cup {NothingStored}]
    /\ wanted \in Accounts \cup {NoAccount}
    /\ overtaken \in BOOLEAN
    /\ puts \in 0..MaxPuts /\ expiries \in 0..MaxExpiries /\ mishaps \in 0..MaxMishaps

Init ==
    /\ stored = NothingStored
    /\ pc = [t \in Threads |-> "idle"]
    /\ held = [t \in Threads |-> NothingStored]
    /\ served = [t \in Threads |-> NothingStored]
    /\ wanted = NoAccount
    /\ overtaken = FALSE
    /\ puts = 0 /\ expiries = 0 /\ mishaps = 0

NoCount == UNCHANGED <<puts, expiries, mishaps>>

Finish(t) ==
    /\ pc' = [pc EXCEPT ![t] = "idle"]
    /\ held' = [held EXCEPT ![t] = NothingStored]

\* Mutant: a row that exists keeps its account and location.
PutTokens(a) ==
    /\ puts < MaxPuts
    /\ puts' = puts + 1
    /\ stored' = [account |-> IF stored = NothingStored THEN a ELSE stored.account,
                  grant |-> a, fresh |-> TRUE, status |-> "healthy"]
    /\ wanted' = a
    /\ overtaken' = (overtaken \/ \E t \in Threads : pc[t] = "refreshing")
    /\ UNCHANGED <<procVars, served, expiries, mishaps>>

\* Mutant: the row gets a status of the other platform.
PutUnverified(a) ==
    /\ puts < MaxPuts
    /\ puts' = puts + 1
    /\ stored' = [account |-> a, grant |-> a, fresh |-> TRUE, status |-> "pending"]
    /\ wanted' = a
    /\ UNCHANGED <<procVars, served, overtaken, expiries, mishaps>>

\* PUT /google-business/connector.
UpsertConnector(a) ==
    /\ puts < MaxPuts
    /\ puts' = puts + 1
    /\ stored' = [account |-> a, grant |-> a, fresh |-> TRUE, status |-> "healthy"]
    /\ wanted' = a
    /\ overtaken' = (overtaken \/ \E t \in Threads : pc[t] = "refreshing")
    /\ UNCHANGED <<procVars, served, expiries, mishaps>>

HourPasses ==
    /\ expiries < MaxExpiries
    /\ stored # NothingStored /\ stored.fresh
    /\ stored' = [stored EXCEPT !.fresh = FALSE]
    /\ expiries' = expiries + 1
    /\ UNCHANGED <<procVars, served, wanted, overtaken, puts, mishaps>>

\* _resolve_client_context: the row is read; a token near its end makes the
\* request ask Google for another.
ResolveClient(t) ==
    /\ pc[t] = "idle" /\ stored # NothingStored
    /\ pc' = [pc EXCEPT ![t] = IF stored.fresh THEN "serving" ELSE "refreshing"]
    /\ held' = [held EXCEPT ![t] = stored]
    /\ served' = [served EXCEPT ![t] = NothingStored]
    /\ UNCHANGED <<stored, wanted, overtaken>> /\ NoCount

\* Mutant: the new token is put into whatever the row holds by now.
MergeToken(t) ==
    LET new == [stored EXCEPT !.grant = held[t].grant, !.fresh = TRUE, !.status = "healthy"] IN
    /\ pc[t] = "refreshing"
    /\ stored' = new
    /\ pc' = [pc EXCEPT ![t] = "serving"]
    /\ held' = [held EXCEPT ![t] = new]
    /\ UNCHANGED <<served, wanted, overtaken>> /\ NoCount

\* Google issued a token: the document read before the call is written back
\* with it, whatever the row holds by now.
Refreshed(t) ==
    LET new == [held[t] EXCEPT !.fresh = TRUE, !.status = "healthy"] IN
    /\ pc[t] = "refreshing"
    /\ stored' = new
    /\ pc' = [pc EXCEPT ![t] = "serving"]
    /\ held' = [held EXCEPT ![t] = new]
    /\ UNCHANGED <<served, wanted, overtaken>> /\ NoCount

\* Google refuses: the old document is written back, marked.
RefreshRefused(t) ==
    /\ pc[t] = "refreshing"
    /\ mishaps < MaxMishaps /\ mishaps' = mishaps + 1
    /\ stored' = [held[t] EXCEPT !.status = "failed"]
    /\ Finish(t)
    /\ UNCHANGED <<served, wanted, overtaken, puts, expiries>>

\* No refresh token, no OAuth client, or no answer: nothing is written.
RefreshRaises(t) ==
    /\ pc[t] = "refreshing"
    /\ mishaps < MaxMishaps /\ mishaps' = mishaps + 1
    /\ Finish(t)
    /\ UNCHANGED <<stored, served, wanted, overtaken, puts, expiries>>

CallGoogle(t) ==
    /\ pc[t] = "serving"
    /\ served' = [served EXCEPT ![t] = held[t]]
    /\ Finish(t)
    /\ UNCHANGED <<stored, wanted, overtaken>> /\ NoCount

Next ==
    \/ \E a \in Accounts : UpsertConnector(a)
    \/ HourPasses
    \/ \E t \in Threads :
         ResolveClient(t) \/ Refreshed(t) \/ RefreshRefused(t) \/ RefreshRaises(t)
         \/ CallGoogle(t)

Spec == Init /\ [][Next]_vars

-----------------------------------------------------------------------------
(* Properties *)

\* Google is never called for one account with the token of another, although
\* a refresh answers after the owner put another account in.
TokenMatchesAccount ==
    \A c \in {stored} \cup {served[t] : t \in Threads} :
        c # NothingStored => c.grant = c.account

\* The account the owner put in last is the one stored, unless the PUT fell
\* between the read and the write of a refresh, which then undoes it.
LastPutStands == stored # NothingStored /\ ~overtaken => stored.account = wanted
=============================================================================
