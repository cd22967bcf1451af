---------------------------- MODULE LocalDrafts ----------------------------
(***************************************************************************)
(* The drafts Kachu+ gets approved and publishes without AgentOS: the      *)
(* items of a content plan that come due, the draft written in the chat    *)
(* from the last plan, and the replies to Facebook comments and messages.  *)
(*                                                                         *)
(* Each has a row in kachu_pending_approvals; an item and an engagement    *)
(* also have a record of their own, which other code keeps in step with    *)
(* the row.  A handler runs alone up to its next await.  Where it makes    *)
(* several writes or calls without an await, a step of the model is one    *)
(* of them, and only a crash comes between.                                *)
(***************************************************************************)
EXTENDS Integers, FiniteSets

CONSTANTS
    Items,        \* items of content plans
    Inlines,      \* drafts asked for in the chat
    Messages,     \* comments and private messages on the Facebook page
    Tasks,        \* slots for concurrently running requests
    NoJob,        \* the job of an idle coroutine
    MaxTaps,      \* bound: taps and instructions of the owner
    MaxFaults,    \* bound: failed calls
    MaxCrashes    \* bound: restarts of the process

Works    == Items \cup Inlines \cup Messages
Loop     == "content-plan-loop"
Procs    == Tasks \cup {Loop}
Channels == {"google", "meta"}

VARIABLES
    row,        \* the pending approval of each draft
    record,     \* status of the plan item or of the engagement
    platforms,  \* the channels a draft has text for
    due,        \* items whose scheduled_for has passed
    seen,       \* messages whose webhook event is recorded
    batch,      \* items the loop listed and has not reached
    pc, job,    \* coroutines
    posts,      \* outside: posts the provider made of each draft
    approvals,  \* approve taps on each draft
    declined,   \* drafts the owner tapped reject on, since the last other tap
    taps, faults, crashes

recVars  == <<row, record, seen>>
procVars == <<pc, job, batch>>
counters == <<taps, faults, crashes>>
vars == <<recVars, platforms, due, procVars, posts, approvals, declined, counters>>

Results == [work : Works, google : {"none", "published", "failed"},
                          meta   : {"none", "published", "failed"}]
\* Places where a handler is between two steps without an await.
Busy == {"saving", "google", "meta", "deciding", "closing"}

TypeOK ==
    /\ row \in [Works -> {"absent", "pending", "editing", "published", "delivery_failed"}]
    /\ record \in [Works -> {"absent", "planned", "awaiting_approval", "failed",
                             "published", "replied", "delivery_failed"}]
    /\ platforms \in [Works -> SUBSET Channels]
    /\ due \in SUBSET Items
    /\ seen \in SUBSET Messages
    /\ batch \in SUBSET Items
    /\ pc \in [Procs -> Busy \cup {"idle", "drafting", "notifying", "revising"}]
    /\ job \in [Procs -> Results \cup {NoJob}]
    /\ \A p \in Procs : pc[p] # "idle" => job[p] \in Results
    /\ posts \in [Works -> [Channels -> Nat]]
    /\ approvals \in [Works -> Nat]
    /\ declined \in SUBSET Works
    /\ taps \in Nat /\ faults \in Nat /\ crashes \in Nat

Init ==
    /\ row = [w \in Works |-> "absent"]
    /\ record = [w \in Works |-> "absent"]
    /\ platforms = [w \in Works |-> IF w \in Messages THEN {"meta"} ELSE Channels]
    /\ due = {} /\ seen = {} /\ batch = {}
    /\ pc = [p \in Procs |-> "idle"]
    /\ job = [p \in Procs |-> NoJob]
    /\ posts = [w \in Works |-> [c \in Channels |-> 0]]
    /\ approvals = [w \in Works |-> 0]
    /\ declined = {}
    /\ taps = 0 /\ faults = 0 /\ crashes = 0

-----------------------------------------------------------------------------
(* Coroutines *)

\* No handler is between two steps it makes without an await.
EventLoopFree == \A p \in Procs : pc[p] \notin Busy

NoResult(w) == [work |-> w, google |-> "none", meta |-> "none"]

Begin(p, where, w) ==
    /\ pc[p] = "idle" /\ EventLoopFree
    /\ pc' = [pc EXCEPT ![p] = where]
    /\ job' = [job EXCEPT ![p] = NoResult(w)]

GoTo(p, where) ==
    /\ pc' = [pc EXCEPT ![p] = where]
    /\ UNCHANGED job

Finish(p) ==
    /\ pc' = [pc EXCEPT ![p] = "idle"]
    /\ job' = [job EXCEPT ![p] = NoJob]

Tap ==
    /\ taps < MaxTaps
    /\ taps' = taps + 1
    /\ UNCHANGED <<faults, crashes>>

Fault ==
    /\ faults < MaxFaults
    /\ faults' = faults + 1
    /\ UNCHANGED <<taps, crashes>>

outside == <<platforms, due, posts, approvals, declined>>

-----------------------------------------------------------------------------
(* The loop that drafts the items of a plan when they come due             *)

\* POST /content-plans, once the plan is written; scheduled_for is ahead.
CreatePlan(i) ==
    /\ EventLoopFree
    /\ record[i] = "absent"
    /\ record' = [record EXCEPT ![i] = "planned"]
    /\ \E S \in SUBSET Channels \ {{}} : platforms' = [platforms EXCEPT ![i] = S]
    /\ UNCHANGED <<row, seen, due, procVars, posts, approvals, declined, counters>>

ComesDue(i) ==
    /\ EventLoopFree
    /\ record[i] = "planned" /\ i \notin due
    /\ due' = due \cup {i}
    /\ UNCHANGED <<recVars, platforms, procVars, posts, approvals, declined, counters>>

\* Mutant: an item with text for one channel only is not listed.
ListFullItems == {i \in due : record[i] = "planned" /\ platforms[i] = Channels}

ListDueItems == {i \in due : record[i] = "planned"}

\* process_due_items: the due items are listed once, then taken one by one.
LoopTick ==
    /\ EventLoopFree /\ pc[Loop] = "idle" /\ batch = {}
    /\ ListDueItems # {}
    /\ batch' = ListDueItems
    /\ UNCHANGED <<recVars, outside, pc, job, counters>>

\* dispatch_item up to the first call of the model.
DispatchItem(i) ==
    /\ i \in batch
    /\ batch' = batch \ {i}
    /\ Begin(Loop, "drafting", i)
    /\ UNCHANGED <<recVars, outside, counters>>

\* The first write of dispatch_item after the drafts are written.
ItemDrafted ==
    /\ pc[Loop] = "drafting" /\ EventLoopFree
    /\ record' = [record EXCEPT ![job[Loop].work] = "awaiting_approval"]
    /\ GoTo(Loop, "saving")
    /\ UNCHANGED <<row, seen, outside, batch, counters>>

\* The handler of process_due_items: the drafting or a push raised.
DispatchFails ==
    /\ pc[Loop] \in {"drafting", "notifying"} /\ EventLoopFree
    /\ record' = [record EXCEPT ![job[Loop].work] = "failed"]
    /\ Finish(Loop) /\ Fault
    /\ UNCHANGED <<row, seen, outside, batch>>

-----------------------------------------------------------------------------
(* Saving the row and telling the owner                                    *)

\* Mutant: the owner is told first, the row is saved afterwards.
SaveAfterTelling(p) ==
    /\ pc[p] = "saving"
    /\ GoTo(p, "notifying")
    /\ UNCHANGED <<recVars, outside, batch, counters>>

\* save_pending_approval: a row that exists is opened again.
SavePendingApproval(p) ==
    /\ pc[p] = "saving"
    /\ row' = [row EXCEPT ![job[p].work] = "pending"]
    /\ GoTo(p, "notifying")
    /\ UNCHANGED <<record, seen, outside, batch, counters>>

\* Every push to a recipient was taken.
Notified(p) ==
    /\ pc[p] = "notifying" /\ EventLoopFree
    /\ Finish(p)
    /\ UNCHANGED <<recVars, outside, batch, counters>>

\* A request ends with an exception of the model or of a push.
RequestFails(t) ==
    /\ pc[t] \in {"drafting", "notifying", "revising"} /\ EventLoopFree
    /\ Finish(t) /\ Fault
    /\ UNCHANGED <<recVars, outside, batch>>

-----------------------------------------------------------------------------
(* The draft asked for in the chat                                         *)

AskInline(t, n) ==
    /\ row[n] = "absent"
    /\ \A s \in Tasks : pc[s] # "idle" => job[s].work # n
    /\ Begin(t, "drafting", n) /\ Tap
    /\ UNCHANGED <<recVars, outside, batch>>

InlineDrafted(t) ==
    /\ pc[t] = "drafting" /\ job[t].work \in Inlines /\ EventLoopFree
    /\ GoTo(t, "saving")
    /\ UNCHANGED <<recVars, outside, batch, counters>>

-----------------------------------------------------------------------------
(* Comments and messages on the page                                       *)

\* Facebook delivers the event, for the first time or again.
IngestMetaEvent(t, m) ==
    /\ m \notin seen
    /\ seen' = seen \cup {m}
    /\ record[m] = "absent"
    /\ Begin(t, "drafting", m)
    /\ UNCHANGED <<row, record, outside, batch, counters>>

\* Mutant: a second event with the same id replaces the engagement.
EngagementReplaced(t) ==
    /\ pc[t] = "drafting" /\ job[t].work \in Messages /\ EventLoopFree
    /\ record' = [record EXCEPT ![job[t].work] = "awaiting_approval"]
    /\ GoTo(t, "saving")
    /\ UNCHANGED <<row, seen, outside, batch, counters>>

\* create_external_engagement, after the reply is drafted.
EngagementCreated(t) ==
    /\ pc[t] = "drafting" /\ job[t].work \in Messages /\ EventLoopFree
    /\ record[job[t].work] = "absent"
    /\ record' = [record EXCEPT ![job[t].work] = "awaiting_approval"]
    /\ GoTo(t, "saving")
    /\ UNCHANGED <<row, seen, outside, batch, counters>>

\* external_message_id is unique: the insert of the later coroutine raises.
EngagementExists(t) ==
    /\ pc[t] = "drafting" /\ job[t].work \in Messages /\ EventLoopFree
    /\ record[job[t].work] # "absent"
    /\ Finish(t)
    /\ UNCHANGED <<recVars, outside, batch, counters>>

\* Mutant: the replay of a stored event does not look for the row.
ReplaySavesAgain(t, m) ==
    /\ m \in seen
    /\ Begin(t, IF record[m] = "absent" THEN "drafting" ELSE "saving", m) /\ Tap
    /\ UNCHANGED <<recVars, outside, batch>>

\* An operator replays a stored event: what it lacks is made up for.
ReplayMetaEvent(t, m) ==
    /\ m \in seen
    /\ record[m] = "absent" \/ row[m] = "absent"
    /\ Begin(t, IF record[m] = "absent" THEN "drafting" ELSE "saving", m) /\ Tap
    /\ UNCHANGED <<recVars, outside, batch>>

-----------------------------------------------------------------------------
(* The owner's taps on the card                                            *)

\* Mutant: publish_content_bundle tries a call that raised once more.
PostTwice(t, c, next) ==
    /\ pc[t] = c
    /\ c \in platforms[job[t].work]
    /\ posts' = [posts EXCEPT ![job[t].work][c] = @ + 2]
    /\ job' = [job EXCEPT ![t][c] = "published"]
    /\ pc' = [pc EXCEPT ![t] = next]
    /\ UNCHANGED <<recVars, platforms, due, approvals, declined, batch, counters>>

\* The provider takes the post, and the record of it is written.
PostAccepted(t, c, next) ==
    /\ pc[t] = c
    /\ c \in platforms[job[t].work]
    /\ posts' = [posts EXCEPT ![job[t].work][c] = @ + 1]
    /\ job' = [job EXCEPT ![t][c] = "published"]
    /\ pc' = [pc EXCEPT ![t] = next]
    /\ UNCHANGED <<recVars, platforms, due, approvals, declined, batch, counters>>

\* No text for Google, or a channel that was not selected.
NothingToPost(t, c, next) ==
    /\ pc[t] = c
    /\ c \notin platforms[job[t].work]
    /\ GoTo(t, next)
    /\ UNCHANGED <<recVars, outside, batch, counters>>

\* A connector error: no usable credential, or Meta answers with an error.
PostRefused(t, c, next) ==
    /\ pc[t] = c
    /\ c \in platforms[job[t].work]
    /\ job' = [job EXCEPT ![t][c] = "failed"]
    /\ pc' = [pc EXCEPT ![t] = next]
    /\ Fault
    /\ UNCHANGED <<recVars, outside, batch>>

\* Any other error leaves the handler, and the answer of a post that was
\* made may be what got lost: the row and the record stay as they are.
PostRaises(t, c) ==
    /\ pc[t] = c
    /\ c \in platforms[job[t].work]
    /\ Finish(t) /\ Fault
    /\ \E n \in {0, 1} : posts' = [posts EXCEPT ![job[t].work][c] = @ + n]
    /\ UNCHANGED <<recVars, platforms, due, approvals, declined, batch>>

\* The tap publishes at once, whatever the status of the row.
TapApprove(t, w) ==
    /\ row[w] # "absent"
    /\ Begin(t, "google", w) /\ Tap
    /\ approvals' = [approvals EXCEPT ![w] = @ + 1]
    /\ declined' = declined \ {w}
    /\ UNCHANGED <<recVars, platforms, due, posts, batch>>

PublishBundle(t) ==
    \/ PostAccepted(t, "google", "meta")  \/ PostAccepted(t, "meta", "deciding")
    \/ NothingToPost(t, "google", "meta") \/ NothingToPost(t, "meta", "deciding")
    \/ PostRefused(t, "google", "meta")   \/ PostRefused(t, "meta", "deciding")
    \/ PostRaises(t, "google")            \/ PostRaises(t, "meta")

\* Mutant: one channel that took the post is enough.
AnySucceeded(r) == "published" \in {r.google, r.meta}

\* publish_content_bundle_succeeded, on a result with at least one entry.
Succeeded(r) ==
    /\ {r.google, r.meta} # {"none"}
    /\ {r.google, r.meta} \subseteq {"published", "none"}

DecidePending(t) ==
    /\ pc[t] = "deciding"
    /\ row' = [row EXCEPT ![job[t].work] =
                 IF Succeeded(job[t]) THEN "published" ELSE "delivery_failed"]
    /\ GoTo(t, "closing")
    /\ UNCHANGED <<record, seen, outside, batch, counters>>

\* Mutant: a failed delivery leaves the item and the engagement alone.
CloseOnSuccess(t) ==
    /\ pc[t] = "closing"
    /\ LET w == job[t].work IN
         record' = IF w \in Inlines \/ ~Succeeded(job[t]) THEN record
                   ELSE [record EXCEPT ![w] = IF w \in Items THEN "published" ELSE "replied"]
    /\ Finish(t)
    /\ UNCHANGED <<row, seen, outside, batch, counters>>

\* The item or the engagement follows the row.
CloseRecord(t) ==
    /\ pc[t] = "closing"
    /\ LET w == job[t].work IN
         record' = IF w \in Inlines THEN record
                   ELSE [record EXCEPT ![w] = IF ~Succeeded(job[t]) THEN "delivery_failed"
                                              ELSE IF w \in Items THEN "published"
                                              ELSE "replied"]
    /\ Finish(t)
    /\ UNCHANGED <<row, seen, outside, batch, counters>>

\* decide_pending_approval is called without its argument decision, which
\* raises: the tap changes nothing.
TapReject(w) ==
    /\ row[w] # "absent" /\ EventLoopFree /\ Tap
    /\ declined' = declined \cup {w}
    /\ UNCHANGED <<recVars, platforms, due, procVars, posts, approvals>>

TapEdit(w) ==
    /\ row[w] # "absent" /\ EventLoopFree /\ Tap
    /\ row' = [row EXCEPT ![w] = "editing"]
    /\ declined' = declined \ {w}
    /\ UNCHANGED <<record, seen, platforms, due, procVars, posts, approvals>>

\* The owner's instruction for a draft being edited; the model is awaited.
ReviseDraft(t, w) ==
    /\ row[w] = "editing"
    /\ Begin(t, "revising", w) /\ Tap
    /\ UNCHANGED <<recVars, outside, batch>>

DraftRevised(t) ==
    /\ pc[t] = "revising" /\ EventLoopFree
    /\ row' = [row EXCEPT ![job[t].work] = "pending"]
    /\ Finish(t)
    /\ UNCHANGED <<record, seen, outside, batch, counters>>

-----------------------------------------------------------------------------
\* The process restarts: every coroutine is gone.
Crash ==
    /\ crashes < MaxCrashes
    /\ crashes' = crashes + 1
    /\ pc' = [p \in Procs |-> "idle"]
    /\ job' = [p \in Procs |-> NoJob]
    /\ batch' = {}
    /\ UNCHANGED <<recVars, outside, taps, faults>>

LoopSteps ==
    \/ LoopTick \/ ItemDrafted \/ DispatchFails
    \/ \E i \in Items : DispatchItem(i)

RequestSteps(t) ==
    \/ InlineDrafted(t) \/ EngagementCreated(t) \/ EngagementExists(t)
    \/ RequestFails(t) \/ PublishBundle(t) \/ DecidePending(t) \/ CloseRecord(t)
    \/ DraftRevised(t)

OwnerActs ==
    \/ \E w \in Works : TapReject(w) \/ TapEdit(w)
    \/ \E t \in Tasks, w \in Works : TapApprove(t, w) \/ ReviseDraft(t, w)
    \/ \E t \in Tasks, n \in Inlines : AskInline(t, n)

Next ==
    \/ \E i \in Items : CreatePlan(i) \/ ComesDue(i)
    \/ LoopSteps
    \/ \E t \in Tasks, m \in Messages : IngestMetaEvent(t, m) \/ ReplayMetaEvent(t, m)
    \/ \E t \in Tasks : RequestSteps(t)
    \/ \E p \in Procs : SavePendingApproval(p) \/ Notified(p)
    \/ OwnerActs
    \/ Crash

Spec == Init /\ [][Next]_vars

\* The loop runs every minute, and a call it awaits ends.
Fairness ==
    /\ WF_vars(LoopTick)
    /\ WF_vars(\E i \in Items : DispatchItem(i))
    /\ WF_vars(ItemDrafted) /\ WF_vars(SavePendingApproval(Loop)) /\ WF_vars(Notified(Loop))
    /\ \A t \in Tasks :
         /\ WF_vars(RequestSteps(t))
         /\ WF_vars(SavePendingApproval(t)) /\ WF_vars(Notified(t))

FairSpec == Spec /\ Fairness

-----------------------------------------------------------------------------
(* Properties *)

\* No draft is posted more often to a channel than the owner approved it:
\* a tap posts once, and neither the loop nor a replayed event posts.
PostedByTap ==
    \A w \in Works : \A c \in Channels : posts[w][c] <= approvals[w]

\* A row that says published was posted on every channel it had a text for,
\* although the channels fail one by one.
PublishedEverywhere ==
    \A w \in Works : row[w] = "published" => \A c \in platforms[w] : posts[w][c] > 0

\* What waits for the owner can be decided: the row of an item or engagement
\* that awaits approval exists, unless a crash came between the two writes.
WaitingHasRow ==
    \A w \in Works :
        record[w] = "awaiting_approval" /\ row[w] = "absent" =>
            \/ \E p \in Procs : pc[p] = "saving" /\ job[p].work = w
            \/ crashes > 0

\* The item or engagement shows what became of the draft.  Besides a crash,
\* only a push that failed after the owner had decided breaks this.
RecordFollowsRow ==
    \A w \in Items \cup Messages :
        row[w] \in {"published", "delivery_failed"} =>
            \/ row[w] = "published" /\ record[w] \in {"published", "replied"}
            \/ row[w] = record[w]
            \/ record[w] = "failed"
            \/ \E t \in Tasks : pc[t] = "closing" /\ job[t].work = w
            \/ crashes > 0

\* A delivery that comes again, a replay or a round of the loop never opens
\* a decided draft again; only a text the owner dictated does.
DecidedStaysDecided ==
    [][\A w \in Works :
         row[w] \in {"published", "delivery_failed"} /\ row'[w] = "pending" =>
             \E t \in Tasks : pc[t] = "revising" /\ job[t].work = w]_vars

\* An item that is due is drafted or marked failed.
DueIsDrafted ==
    \A i \in Items : i \in due /\ record[i] = "planned" ~> record[i] # "planned"

\* A draft the owner rejected is not waiting for a decision any more.
RejectedIsClosed ==
    \A w \in Works : w \in declined => row[w] \notin {"pending", "delivery_failed"}
=============================================================================
