----------------------------- MODULE Customers -----------------------------
(***************************************************************************)
(* The customer profiles of one tenant: LINE users are linked to profiles, *)
(* their interactions counted, tags put on and taken off, links moved by   *)
(* hand, duplicate profiles merged, and once a day every profile is read   *)
(* and written back to note how long the customer has been away.           *)
(*                                                                         *)
(* The webhook and the daily sync run in the event loop, one at a time;    *)
(* the endpoints run in worker threads.  A transaction reads the committed *)
(* rows and writes the columns it changed when it commits: transactions    *)
(* overlap between their reads and their commits.  The ones that read and  *)
(* write a single row are one step.                                        *)
(***************************************************************************)
EXTENDS Integers, Functions, FiniteSetsExt

CONSTANTS
    Users,        \* LINE users
    Tags,         \* tag definitions
    Threads,      \* slots for concurrently running merges
    Nobody,       \* no profile
    MaxMessages,  \* bound: events of LINE users
    MaxRequests,  \* bound: requests of the owner
    MaxSyncs      \* bound: rounds of the daily sync

\* The first event of a user makes a profile, named here for the user.
Profiles == Users

VARIABLES
    link,         \* the profile each user is linked to
    count, into, status,   \* interaction_count, merged_into_profile_id, status
    usable,       \* tags that are active
    assigned,     \* tags on each profile
    removed,      \* tags taken off, whose rows are kept
    event,        \* the interaction being recorded
    unsaved, rows,\* profiles the sync has not written back yet, and as it read them
    pc, merge,    \* merges under way
    spoiled,      \* a commit was made from a row that had changed since
    reused,       \* a profile was merged into one that was merged already
    messages, requests, syncs

profileVars == <<count, into, status>>
tagVars     == <<usable, assigned, removed>>
loopVars    == <<event, unsaved, rows>>
mergeVars   == <<pc, merge>>
histVars    == <<spoiled, reused>>
bounds      == <<messages, requests, syncs>>
vars == <<link, profileVars, tagVars, loopVars, mergeVars, histVars, bounds>>

Row(p) == [count |-> count[p], into |-> into[p]]
Rows   == [count : Nat, into : Profiles \cup {Nobody}]

NoEvent == [user |-> Nobody, profile |-> Nobody, count |-> 0]
NoMerge == [source |-> Nobody, target |-> Nobody, saw |-> Nobody, theirs |-> 0, ours |-> 0,
            tags |-> {}]

TypeOK ==
    /\ link \in [Users -> Profiles \cup {Nobody}]
    /\ count \in [Profiles -> Nat]
    /\ into \in [Profiles -> Profiles \cup {Nobody}]
    /\ status \in [Profiles -> {"none", "active", "merged"}]
    /\ usable \in SUBSET Tags
    /\ assigned \in [Profiles -> SUBSET Tags] /\ removed \in [Profiles -> SUBSET Tags]
    /\ event \in [user : Users \cup {Nobody}, profile : Profiles \cup {Nobody}, count : Nat]
    /\ unsaved \in SUBSET Profiles /\ rows \in [Profiles -> Rows]
    /\ pc \in [Threads -> {"idle", "read", "tags read"}]
    /\ \A t \in Threads : DOMAIN merge[t] = DOMAIN NoMerge
    /\ spoiled \in BOOLEAN /\ reused \in BOOLEAN
    /\ messages \in 0..MaxMessages /\ requests \in 0..MaxRequests /\ syncs \in 0..MaxSyncs

Init ==
    /\ link = [u \in Users |-> Nobody]
    /\ count = [p \in Profiles |-> 0]
    /\ into = [p \in Profiles |-> Nobody]
    /\ status = [p \in Profiles |-> "none"]
    /\ usable = Tags
    /\ assigned = [p \in Profiles |-> {}] /\ removed = [p \in Profiles |-> {}]
    /\ event = NoEvent
    /\ unsaved = {} /\ rows = [p \in Profiles |-> Row(p)]
    /\ pc = [t \in Threads |-> "idle"]
    /\ merge = [t \in Threads |-> NoMerge]
    /\ spoiled = FALSE /\ reused = FALSE
    /\ messages = 0 /\ requests = 0 /\ syncs = 0

Exists(p)  == status[p] # "none"
EventLoopFree == event = NoEvent /\ unsaved = {}

Request ==
    /\ requests < MaxRequests
    /\ requests' = requests + 1
    /\ UNCHANGED <<messages, syncs>>

-----------------------------------------------------------------------------
(* resolve_or_create_line_profile                                          *)

Message ==
    /\ messages < MaxMessages
    /\ messages' = messages + 1
    /\ UNCHANGED <<requests, syncs>>

FirstEvent(u) ==
    /\ EventLoopFree /\ link[u] = Nobody
    /\ Message
    /\ link' = [link EXCEPT ![u] = u]
    /\ count' = [count EXCEPT ![u] = 1]
    /\ status' = [status EXCEPT ![u] = "active"]
    /\ UNCHANGED <<into, tagVars, loopVars, mergeVars, histVars>>

\* The link and the profile are read.
EventRead(u) ==
    /\ EventLoopFree /\ link[u] # Nobody
    /\ Message
    /\ event' = [user |-> u, profile |-> link[u], count |-> count[link[u]]]
    /\ UNCHANGED <<link, profileVars, tagVars, unsaved, rows, mergeVars, histVars>>

\* Mutant: the count starts over.
EventCountedOnce ==
    /\ event # NoEvent
    /\ count' = [count EXCEPT ![event.profile] = 1]
    /\ spoiled' = (spoiled \/ link[event.user] # event.profile
                           \/ count[event.profile] # event.count)
    /\ event' = NoEvent
    /\ UNCHANGED <<link, into, status, tagVars, unsaved, rows, mergeVars, reused, bounds>>

EventCounted ==
    /\ event # NoEvent
    /\ count' = [count EXCEPT ![event.profile] = event.count + 1]
    /\ spoiled' = (spoiled \/ link[event.user] # event.profile
                           \/ count[event.profile] # event.count)
    /\ event' = NoEvent
    /\ UNCHANGED <<link, into, status, tagVars, unsaved, rows, mergeVars, reused, bounds>>

-----------------------------------------------------------------------------
(* SleepProfileSyncService                                                 *)

\* All profiles are read in one query.
SyncReads ==
    /\ EventLoopFree /\ syncs < MaxSyncs
    /\ \E p \in Profiles : Exists(p)
    /\ unsaved' = {p \in Profiles : Exists(p)}
    /\ rows' = [p \in Profiles |-> Row(p)]
    /\ syncs' = syncs + 1
    /\ UNCHANGED <<link, profileVars, tagVars, event, mergeVars, histVars,
                   messages, requests>>

\* save_customer_profile merges the object into the session: every column is
\* written as it was read, and a status merged becomes active or sleeping.
SyncSaves(p) ==
    /\ p \in unsaved
    /\ count' = [count EXCEPT ![p] = rows[p].count]
    /\ into' = [into EXCEPT ![p] = rows[p].into]
    /\ status' = [status EXCEPT ![p] = "active"]
    /\ spoiled' = (spoiled \/ count[p] # rows[p].count \/ into[p] # rows[p].into)
    /\ unsaved' = unsaved \ {p}
    /\ UNCHANGED <<link, tagVars, event, rows, mergeVars, reused, bounds>>

-----------------------------------------------------------------------------
(* Links and tags                                                          *)

\* Mutant: the link may be moved to a profile that was merged.
RelinkAnywhere(u, p) ==
    /\ link[u] # Nobody /\ Exists(p)
    /\ Request
    /\ link' = [link EXCEPT ![u] = p]
    /\ UNCHANGED <<profileVars, tagVars, loopVars, mergeVars, histVars>>

RelinkProfile(u, p) ==
    /\ link[u] # Nobody /\ Exists(p)
    /\ into[p] = Nobody
    /\ Request
    /\ link' = [link EXCEPT ![u] = p]
    /\ UNCHANGED <<profileVars, tagVars, loopVars, mergeVars, histVars>>

\* A row that was removed is revived.
AssignTag(p, g) ==
    /\ Exists(p) /\ g \in usable /\ g \notin assigned[p]
    /\ Request
    /\ assigned' = [assigned EXCEPT ![p] = @ \cup {g}]
    /\ removed' = [removed EXCEPT ![p] = @ \ {g}]
    /\ UNCHANGED <<link, profileVars, usable, loopVars, mergeVars, histVars>>

RemoveTag(p, g) ==
    /\ g \in assigned[p]
    /\ Request
    /\ assigned' = [assigned EXCEPT ![p] = @ \ {g}]
    /\ removed' = [removed EXCEPT ![p] = @ \cup {g}]
    /\ UNCHANGED <<link, profileVars, usable, loopVars, mergeVars, histVars>>

\* A tag is only marked: its assignments stay.
DeactivateTag(g) ==
    /\ g \in usable
    /\ Request
    /\ usable' = usable \ {g}
    /\ UNCHANGED <<link, profileVars, assigned, removed, loopVars, mergeVars, histVars>>

-----------------------------------------------------------------------------
(* merge_customer_profiles                                                 *)

\* Mutant: a profile that was merged is merged again.
MergeAgain(t, s, g) ==
    /\ pc[t] = "idle"
    /\ s # g /\ Exists(s) /\ Exists(g)
    /\ Request
    /\ pc' = [pc EXCEPT ![t] = "read"]
    /\ merge' = [merge EXCEPT ![t] = [source |-> s, target |-> g, saw |-> into[s],
                                      theirs |-> count[s], ours |-> count[g], tags |-> {}]]
    /\ UNCHANGED <<link, profileVars, tagVars, loopVars, histVars>>

\* Both profiles are read; only the source must not be merged yet.
MergeReads(t, s, g) ==
    /\ pc[t] = "idle"
    /\ s # g /\ Exists(s) /\ Exists(g)
    /\ into[s] = Nobody
    /\ Request
    /\ pc' = [pc EXCEPT ![t] = "read"]
    /\ merge' = [merge EXCEPT ![t] = [source |-> s, target |-> g, saw |-> into[s],
                                      theirs |-> count[s], ours |-> count[g], tags |-> {}]]
    /\ UNCHANGED <<link, profileVars, tagVars, loopVars, histVars>>

\* The active tags of the target are read.
MergeReadsTags(t) ==
    /\ pc[t] = "read"
    /\ pc' = [pc EXCEPT ![t] = "tags read"]
    /\ merge' = [merge EXCEPT ![t].tags = assigned[merge[t].target]]
    /\ UNCHANGED <<link, profileVars, tagVars, loopVars, histVars, bounds>>

\* Mutant: the tags that were deactivated stay behind.
MovedUsable(t) == (assigned[merge[t].source] \cap usable) \ merge[t].tags

\* What is moved from s to g: all assignments of s but the active ones g has.
Moved(t)    == assigned[merge[t].source] \ merge[t].tags
\* One row for a profile and a tag, active or removed: a move that would make
\* a second one raises.
Collides(t) ==
    LET g == merge[t].target IN
    (Moved(t) \cup removed[merge[t].source]) \cap (assigned[g] \cup removed[g]) # {}

MergeCommits(t) ==
    LET m == merge[t]
        s == m.source
        g == m.target IN
    /\ pc[t] = "tags read" /\ ~Collides(t)
    /\ count' = [count EXCEPT ![g] = m.ours + m.theirs]
    /\ into' = [into EXCEPT ![s] = g]
    /\ status' = [status EXCEPT ![s] = "merged"]
    /\ link' = [u \in Users |-> IF link[u] = s THEN g ELSE link[u]]
    /\ assigned' = [assigned EXCEPT ![g] = @ \cup Moved(t), ![s] = {}]
    /\ removed' = [removed EXCEPT ![g] = @ \cup removed[s], ![s] = assigned[s] \cap m.tags]
    /\ spoiled' = (spoiled \/ into[s] # Nobody \/ count[g] # m.ours \/ count[s] # m.theirs)
    /\ reused' = (reused \/ into[g] # Nobody)
    /\ pc' = [pc EXCEPT ![t] = "idle"]
    /\ merge' = [merge EXCEPT ![t] = NoMerge]
    /\ UNCHANGED <<usable, loopVars, bounds>>

\* IntegrityError: everything is rolled back.
MergeRaises(t) ==
    /\ pc[t] = "tags read" /\ Collides(t)
    /\ pc' = [pc EXCEPT ![t] = "idle"]
    /\ merge' = [merge EXCEPT ![t] = NoMerge]
    /\ UNCHANGED <<link, profileVars, tagVars, loopVars, histVars, bounds>>

LoopSteps ==
    \/ \E u \in Users : FirstEvent(u) \/ EventRead(u)
    \/ EventCounted
    \/ SyncReads
    \/ \E p \in Profiles : SyncSaves(p)

Requests ==
    \/ \E u \in Users, p \in Profiles : RelinkProfile(u, p)
    \/ \E p \in Profiles, g \in Tags : AssignTag(p, g) \/ RemoveTag(p, g)
    \/ \E g \in Tags : DeactivateTag(g)

MergeSteps(t) ==
    \/ \E s \in Profiles, g \in Profiles : MergeReads(t, s, g)
    \/ MergeReadsTags(t) \/ MergeCommits(t) \/ MergeRaises(t)

Next == LoopSteps \/ Requests \/ \E t \in Threads : MergeSteps(t)

Spec == Init /\ [][Next]_vars

-----------------------------------------------------------------------------
(* Properties *)

\* Every event is counted on one profile the owner sees, through all merges
\* and links moved: unless two transactions overlapped on a row, or a profile
\* was merged into one that was merged itself.
CountsAddUp ==
    ~spoiled /\ ~reused /\ event = NoEvent =>
        messages = FoldFunctionOnSet(LAMBDA x, y : x + y, 0, count,
                                     {p \in Profiles : into[p] = Nobody})

\* The profile a customer is linked to is one the owner sees.
LinkIsVisible ==
    \A u \in Users :
        link[u] # Nobody => into[link[u]] = Nobody \/ spoiled \/ reused

\* A merge is undone or redirected only by a commit made from rows that were
\* read before it: the sync's, or a second merge's.
MergeLasts ==
    [][\A p \in Profiles :
         into[p] # Nobody /\ into'[p] # into[p] =>
             \/ p \in unsaved /\ rows[p].into # into[p]
             \/ \E t \in Threads : pc[t] = "tags read" /\ merge[t].source = p
                                /\ merge[t].saw # into[p]]_vars

\* A merge keeps the tags of both profiles, unless the target's changed after
\* the merge had read them.
TagsSurviveMerge ==
    [][\A t \in Threads :
         LET s == merge[t].source
             g == merge[t].target IN
         pc[t] = "tags read" /\ into' # into /\ into'[s] = g /\ pc'[t] = "idle" =>
             \/ assigned[s] \cup assigned[g] \subseteq assigned'[g]
             \/ merge[t].tags # assigned[g]]_vars
=============================================================================
