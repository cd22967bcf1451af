------------------------------ MODULE Tenancy ------------------------------
(***************************************************************************)
(* Shops as the administrator sets them up (src/kachu_plus/admin.py and    *)
(* the membership part of persistence/repository.py): a tenant, the        *)
(* credentials of its LINE channel, the LINE users who may command it.     *)
(*                                                                         *)
(* The endpoints run in worker threads, onboarding in the event loop.  A   *)
(* transaction reads the committed rows and writes the columns it set when *)
(* it commits; save_tenant writes back a whole row that was read before.   *)
(***************************************************************************)
EXTENDS Naturals, FiniteSets

CONSTANTS
    Tenants, Users,
    Threads, Nobody,
    MaxRequests, MaxCrashes

Fields == {"channel_id", "channel_secret", "channel_access_token"}

VARIABLES
    active,     \* is_active of each tenant, or that there is none
    renamed,    \* onboarding has named the tenant
    channel,    \* LINE credentials: for each field the number of the put it is from, 0 without a row
    member,     \* is_active of each membership, or that there is none
    made,       \* tenants set up by provision_tenant
    put,        \* the last committed put of each field
    owns,       \* users a provisioning made owners without a look at other tenants
    pc, job,    \* transactions under way and what they have read
    raced,      \* users another transaction bound between a check that saw none and its commit
    requests, crashes

rows     == <<active, renamed, channel, member>>
procVars == <<pc, job>>
history  == <<made, put, owns, raced>>
vars == <<rows, procVars, history, requests, crashes>>

NoChannel == [f \in Fields |-> 0]
States == {"none", "yes", "no"}
NoJob == [tenant |-> Nobody, user |-> Nobody, active |-> "none", renamed |-> FALSE,
          fields |-> {}, channel |-> NoChannel, n |-> 0, clear |-> FALSE]

TypeOK ==
    /\ active \in [Tenants -> States] /\ renamed \in [Tenants -> BOOLEAN]
    /\ channel \in [Tenants -> [Fields -> 0..MaxRequests]]
    /\ put \in [Tenants -> [Fields -> 0..MaxRequests]]
    /\ member \in [Tenants -> [Users -> States]]
    /\ made \subseteq Tenants /\ owns \subseteq Users /\ raced \subseteq Users
    /\ pc \in [Threads -> {"idle", "putting", "deactivating", "naming", "binding"}]
    /\ \A t \in Threads : DOMAIN job[t] = DOMAIN NoJob
    /\ requests \in 0..MaxRequests /\ crashes \in 0..MaxCrashes

\* A tenant may be there without a channel: update_line_channel allows for it.
Init ==
    /\ active \in [Tenants -> {"none", "yes"}]
    /\ \E x \in Tenants : active[x] = "none"
    /\ renamed = [x \in Tenants |-> FALSE]
    /\ channel = [x \in Tenants |-> NoChannel] /\ put = channel
    /\ member = [x \in Tenants |-> [u \in Users |-> "none"]]
    /\ made = {} /\ owns = {} /\ raced = {}
    /\ pc = [t \in Threads |-> "idle"] /\ job = [t \in Threads |-> NoJob]
    /\ requests = 0 /\ crashes = 0

-----------------------------------------------------------------------------
Request == requests < MaxRequests /\ requests' = requests + 1 /\ UNCHANGED crashes
Begin(t, at, j) ==
    /\ pc[t] = "idle" /\ Request
    /\ pc' = [pc EXCEPT ![t] = at] /\ job' = [job EXCEPT ![t] = j]
Commit(t, at) ==
    /\ pc[t] = at
    /\ pc' = [pc EXCEPT ![t] = "idle"] /\ job' = [job EXCEPT ![t] = NoJob]
    /\ UNCHANGED <<requests, crashes>>

Elsewhere(x, u) == \E y \in Tenants \ {x} : member[y][u] = "yes"

\* Mutant: the tenant is committed on its own.
ProvisionInParts(x, u) ==
    /\ active[x] = "none" /\ Request
    /\ active' = [active EXCEPT ![x] = "yes"]
    /\ made' = made \cup {x}
    /\ UNCHANGED <<renamed, channel, member, put, owns, raced, procVars>>

\* provision_tenant commits tenant, channel and owner together.  Unlike
\* create_tenant_membership it does not ask whose owner the user is already.
Provision(x, u) ==
    /\ active[x] = "none" /\ Request
    /\ active' = [active EXCEPT ![x] = "yes"]
    /\ channel' = [channel EXCEPT ![x] = [f \in Fields |-> requests']]
    /\ put' = [put EXCEPT ![x] = channel'[x]]
    /\ member' = [member EXCEPT ![x][u] = "yes"]
    /\ made' = made \cup {x}
    /\ owns' = IF Elsewhere(x, u) THEN owns \cup {u} ELSE owns
    /\ UNCHANGED <<renamed, raced, procVars>>

\* update_line_channel reads the row; a first one needs all the fields.
ChannelRead(t, x, fs) ==
    /\ active[x] # "none" /\ fs # {}
    /\ channel[x] = NoChannel => fs = Fields
    /\ Begin(t, "putting", [NoJob EXCEPT !.tenant = x, !.fields = fs,
                                         !.channel = channel[x], !.n = requests + 1])
    /\ UNCHANGED <<rows, history>>

\* Mutant: the whole row goes back as it was read.
WholeRow(j) == [f \in Fields |-> IF f \in j.fields THEN j.n ELSE j.channel[f]]
\* The columns that were set, over the others as they are now.
SetColumns(j) == [f \in Fields |-> IF f \in j.fields THEN j.n ELSE channel[j.tenant][f]]

\* A second first row breaks the unique key of the table and nothing is stored.
ChannelPut(t) ==
    LET j == job[t]
        duplicate == j.channel = NoChannel /\ channel[j.tenant] # NoChannel
    IN  /\ Commit(t, "putting")
        /\ \/ /\ ~duplicate
              /\ channel' = [channel EXCEPT ![j.tenant] = SetColumns(j)]
              /\ put' = [put EXCEPT ![j.tenant] = [f \in Fields |->
                            IF f \in j.fields THEN j.n ELSE @[f]]]
           \/ duplicate /\ UNCHANGED <<channel, put>>
        /\ UNCHANGED <<active, renamed, member, made, owns, raced>>

\* deactivate_tenant, and an answer of onboarding: the tenant is read, one
\* column is set, and save_tenant merges the whole row.
TenantRead(t, x, at) ==
    /\ active[x] = "yes" \/ (active[x] = "no" /\ at = "naming")
    /\ Begin(t, at, [NoJob EXCEPT !.tenant = x, !.active = active[x], !.renamed = renamed[x]])
    /\ UNCHANGED <<rows, history>>

Deactivated(t) ==
    LET j == job[t] IN
    /\ Commit(t, "deactivating")
    /\ active' = [active EXCEPT ![j.tenant] = "no"]
    /\ renamed' = [renamed EXCEPT ![j.tenant] = j.renamed]
    /\ UNCHANGED <<channel, member, history>>

Named(t) ==
    LET j == job[t] IN
    /\ Commit(t, "naming")
    /\ active' = [active EXCEPT ![j.tenant] = j.active]
    /\ renamed' = [renamed EXCEPT ![j.tenant] = TRUE]
    /\ UNCHANGED <<channel, member, history>>

\* Mutant: the other tenants are not asked.
NeverBound(x, u) == FALSE
\* The conflict create_tenant_membership looks for.
BoundElsewhere(x, u) == Elsewhere(x, u)

MemberRead(t, x, u) ==
    /\ active[x] # "none" /\ ~BoundElsewhere(x, u)
    /\ Begin(t, "binding", [NoJob EXCEPT !.tenant = x, !.user = u,
                                         !.clear = ~Elsewhere(x, u)])
    /\ UNCHANGED <<rows, history>>

\* The conflict is not looked for again, and no key of the table forbids it.
MemberBound(t) ==
    LET j == job[t]
    IN  /\ Commit(t, "binding")
        /\ member' = [member EXCEPT ![j.tenant][j.user] = "yes"]
        /\ raced' = IF j.clear /\ Elsewhere(j.tenant, j.user) THEN raced \cup {j.user} ELSE raced
        /\ UNCHANGED <<active, renamed, channel, made, put, owns>>

MemberLeaves(x, u) ==
    /\ member[x][u] = "yes" /\ Request
    /\ member' = [member EXCEPT ![x][u] = "no"]
    /\ UNCHANGED <<active, renamed, channel, history, procVars>>

\* Transactions that have not committed leave nothing behind.
Crash ==
    /\ crashes < MaxCrashes /\ crashes' = crashes + 1
    /\ pc' = [t \in Threads |-> "idle"] /\ job' = [t \in Threads |-> NoJob]
    /\ UNCHANGED <<rows, history, requests>>

Next ==
    \/ \E x \in Tenants, u \in Users : Provision(x, u) \/ MemberLeaves(x, u)
    \/ \E t \in Threads :
         \/ \E x \in Tenants, fs \in SUBSET Fields : ChannelRead(t, x, fs)
         \/ \E x \in Tenants, at \in {"deactivating", "naming"} : TenantRead(t, x, at)
         \/ \E x \in Tenants, u \in Users : MemberRead(t, x, u)
         \/ ChannelPut(t) \/ Deactivated(t) \/ Named(t) \/ MemberBound(t)
    \/ Crash

Spec == Init /\ [][Next]_vars

-----------------------------------------------------------------------------
\* A provisioned tenant has its credentials and somebody to command it, however
\* the process fails.
WholeShop == \A x \in made : channel[x] # NoChannel /\ \E u \in Users : member[x][u] # "none"

\* Administrators who put different credentials of a channel at a time do not
\* undo each other's.
NoFieldUndone == channel = put

\* A LINE user commands one tenant, unless he was provisioned as the owner of a
\* second one or two bindings of his overlapped.
BoundOnce ==
    \A u \in Users \ (owns \cup raced) :
        Cardinality({x \in Tenants : member[x][u] = "yes"}) <= 1

\* What deactivate_tenant promises; an answer of onboarding that was read
\* before and is saved after it breaks it, so no run checks it.
InactiveStays == [][\A x \in Tenants : active[x] = "no" => active'[x] = "no"]_active
=============================================================================
