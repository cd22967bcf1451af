----------------------------- MODULE Approvals -----------------------------
(***************************************************************************)
(* The approval of an AgentOS run in Kachu+: the row Kachu+ keeps for the  *)
(* run (kachu_pending_approvals), the approval gate AgentOS keeps, and all *)
(* the coroutines that read one and write the other.                       *)
(*                                                                         *)
(* Kachu+ is one asyncio process: a coroutine runs alone up to its next    *)
(* await, so an action is the code between two awaits.  What a coroutine   *)
(* remembers across an await is its job.  The tools AgentOS calls to       *)
(* publish are plain functions that run in worker threads, so they         *)
(* interleave at every database transaction.                               *)
(*                                                                         *)
(* AgentOS and the publishing providers are external: they are modelled by *)
(* how this code uses them.                                                *)
(***************************************************************************)
EXTENDS Integers, FiniteSets

CONSTANTS
    Runs,         \* AgentOS runs
    Actors,       \* LINE users who may tap a card: owner and managers
    Drafts,       \* contents a draft may have
    Tasks,        \* slots for concurrently running request coroutines
    NoJob,        \* the job of an idle coroutine
    Nobody,       \* the actor of a row nobody acted on
    MaxTaps,      \* bound: actions of people
    MaxFaults,    \* bound: failed HTTP or model calls
    MaxCrashes,   \* bound: restarts of the process
    MaxNotify,    \* bound: notify-approval calls per run
    MaxAttempts   \* bound: publish calls per run

ASSUME RunsFinite == IsFiniteSet(Runs)

Publisher == "scheduled-publisher"
Operator  == "agentos-operator"
System    == "system"
Procs     == Tasks \cup {Publisher}
People    == Actors \cup {Publisher, Operator, System, Nobody}

ASSUME NamesDiffer ==
    /\ Publisher \notin Tasks
    /\ Publisher \notin Actors
    /\ Operator \notin Actors \cup {Publisher}
    /\ Nobody \notin Actors \cup {Publisher, Operator}

ASSUME BoundsNat ==
    /\ MaxTaps \in Nat
    /\ MaxFaults \in Nat
    /\ MaxCrashes \in Nat
    /\ MaxNotify \in Nat
    /\ MaxAttempts \in Nat

Statuses == {"absent", "pending", "editing", "schedule_requested",
             "schedule_confirmation", "scheduled", "approved", "rejected",
             "published", "delivery_failed"}
ScheduleActive == {"schedule_requested", "schedule_confirmation"}
Verdicts == {"approved", "rejected"}

VARIABLES
    \* the row of each run
    status, draft, actor, slot,
    touched,       \* rank of updated_at: the larger, the more recent
    \* AgentOS's gate of each run
    gate, gateDraft, decidedBy,
    \* coroutines and worker threads
    pc, job,
    publisherUp,   \* the task of ScheduledApprovalScheduler is alive
    batch,         \* rows the publisher listed and has not reached yet
    syncBatch,     \* rows the sync service listed and has not reached yet
    \* what happened outside the row, kept for the properties
    confirmed,     \* texts a row held when a person approved it, or confirmed
                   \* a schedule for it
    cameDue,       \* runs whose slot arrived while they were scheduled
    posted,        \* runs whose content a provider accepted
    outcome,       \* the last result of the publish tool, as AgentOS saw it
    \* bounded counters
    taps, faults, crashes, notified, attempts

rowVars   == <<status, draft, actor, slot, touched>>
gateVars  == <<gate, gateDraft, decidedBy>>
procVars  == <<pc, job>>
pubVars   == <<publisherUp, batch>>
histVars  == <<confirmed, cameDue>>
postVars  == <<posted, outcome>>
vars == <<rowVars, gateVars, procVars, pubVars, syncBatch, histVars, postVars,
          taps, faults, crashes, notified, attempts>>

Jobs == [run : Runs, draft : Drafts, verdict : Verdicts, actor : People]

TypeOK ==
    /\ status \in [Runs -> Statuses]
    /\ draft \in [Runs -> Drafts]
    /\ actor \in [Runs -> People]
    /\ slot \in [Runs -> {"none", "future", "due"}]
    /\ touched \in [Runs -> Nat]
    /\ gate \in [Runs -> {"none", "waiting", "approved", "rejected", "timed_out"}]
    /\ gateDraft \in [Runs -> Drafts]
    /\ decidedBy \in [Runs -> People]
    /\ pc \in [Procs -> {"idle", "pushing", "lookup", "deciding", "answered",
                         "revising", "posting", "posted"}]
    /\ job \in [Procs -> Jobs \cup {NoJob}]
    /\ \A p \in Procs : pc[p] # "idle" => job[p] \in Jobs
    /\ publisherUp \in BOOLEAN
    /\ batch \in SUBSET Runs
    /\ syncBatch \in SUBSET Runs
    /\ confirmed \in [Runs -> SUBSET Drafts]
    /\ cameDue \in SUBSET Runs
    /\ posted \in SUBSET Runs
    /\ outcome \in [Runs -> {"none", "failed", "published"}]
    /\ taps \in Nat /\ faults \in Nat /\ crashes \in Nat
    /\ notified \in [Runs -> Nat]
    /\ attempts \in [Runs -> Nat]

\* No row yet; AgentOS has generated a draft for each run.
Init ==
    /\ status = [r \in Runs |-> "absent"]
    /\ gateDraft \in [Runs -> Drafts]
    /\ draft = gateDraft
    /\ actor = [r \in Runs |-> Nobody]
    /\ slot = [r \in Runs |-> "none"]
    /\ touched = [r \in Runs |-> 0]
    /\ gate = [r \in Runs |-> "none"]
    /\ decidedBy = [r \in Runs |-> Nobody]
    /\ pc = [p \in Procs |-> "idle"]
    /\ job = [p \in Procs |-> NoJob]
    /\ publisherUp = TRUE
    /\ batch = {} /\ syncBatch = {}
    /\ confirmed = [r \in Runs |-> {}]
    /\ cameDue = {} /\ posted = {}
    /\ outcome = [r \in Runs |-> "none"]
    /\ taps = 0 /\ faults = 0 /\ crashes = 0
    /\ notified = [r \in Runs |-> 0]
    /\ attempts = [r \in Runs |-> 0]

-----------------------------------------------------------------------------
(* The repository's writes.  None of them looks at the status it replaces. *)

Touch(r) ==
    touched' = [s \in Runs |-> IF s = r THEN Cardinality(Runs)
                               ELSE IF touched[s] > touched[r] THEN touched[s] - 1
                               ELSE touched[s]]

SavePendingApproval(r, d) ==
    /\ status' = [status EXCEPT ![r] = "pending"]
    /\ draft' = [draft EXCEPT ![r] = d]
    /\ Touch(r)
    /\ UNCHANGED <<actor, slot>>

\* decision_payload_json is replaced, so a scheduled_for in it is gone.
DecidePendingApproval(r, decision, who) ==
    /\ status' = [status EXCEPT ![r] = decision]
    /\ actor' = [actor EXCEPT ![r] = who]
    /\ slot' = [slot EXCEPT ![r] = "none"]
    /\ Touch(r)
    /\ UNCHANGED draft

UpdatePendingApprovalStatus(r, new, who, when) ==
    /\ status' = [status EXCEPT ![r] = new]
    /\ actor' = [actor EXCEPT ![r] = who]
    /\ slot' = [slot EXCEPT ![r] = when]
    /\ Touch(r)
    /\ UNCHANGED draft

UpdatePendingApprovalDraft(r, d, who) ==
    /\ status' = [status EXCEPT ![r] = "pending"]
    /\ draft' = [draft EXCEPT ![r] = d]
    /\ actor' = [actor EXCEPT ![r] = who]
    /\ Touch(r)
    /\ UNCHANGED slot

\* The row of S that was written last.
IsLatest(r, S) == r \in S /\ \A s \in S : touched[s] <= touched[r]

EditingOf(a) == {r \in Runs : status[r] = "editing" /\ actor[r] = a}
SchedulePendingOf(a) == {r \in Runs : status[r] \in ScheduleActive /\ actor[r] = a}
\* Mutants: the listing forgets the time, the status, or reverses the comparison.
DueAnytime == {r \in Runs : status[r] = "scheduled"}
DueInAnyStatus == {r \in Runs : slot[r] = "due"}
DueReversed == {r \in Runs : status[r] = "scheduled" /\ slot[r] = "future"}

DueScheduled == {r \in Runs : status[r] = "scheduled" /\ slot[r] = "due"}

\* Mutant: only undelivered rows are polled.
OpenUndelivered == {r \in Runs : status[r] = "delivery_failed"}

OpenForSync == {r \in Runs : status[r] \in {"pending", "delivery_failed"}}

-----------------------------------------------------------------------------
(* Coroutines *)

Begin(p, where, j) ==
    /\ pc[p] = "idle"
    /\ pc' = [pc EXCEPT ![p] = where]
    /\ job' = [job EXCEPT ![p] = j]

GoTo(p, where) ==
    /\ pc' = [pc EXCEPT ![p] = where]
    /\ UNCHANGED job

Finish(p) ==
    /\ pc' = [pc EXCEPT ![p] = "idle"]
    /\ job' = [job EXCEPT ![p] = NoJob]

\* An exception leaves the coroutine.  A request answers 500 or is logged;
\* nothing catches it in the publisher's loop, whose task ends.
Abort(p) ==
    /\ Finish(p)
    /\ publisherUp' = (publisherUp /\ p # Publisher)
    /\ batch' = IF p = Publisher THEN {} ELSE batch

Tap ==
    /\ taps < MaxTaps
    /\ taps' = taps + 1
    /\ UNCHANGED <<faults, crashes, notified, attempts>>

NoCount == UNCHANGED <<taps, faults, crashes, notified, attempts>>

-----------------------------------------------------------------------------
(* POST /tools/notify-approval, the step of the run before its gate *)

\* AgentOS calls the tool, again if a call was lost; the row is (re)written.
NotifyApproval(t, r) ==
    /\ gate[r] = "none"
    /\ notified[r] < MaxNotify
    /\ notified' = [notified EXCEPT ![r] = @ + 1]
    /\ SavePendingApproval(r, gateDraft[r])
    /\ Begin(t, "pushing", [run |-> r, draft |-> gateDraft[r],
                            verdict |-> "approved", actor |-> System])
    /\ UNCHANGED <<gateVars, pubVars, syncBatch, histVars, postVars,
                   taps, faults, crashes, attempts>>

\* The tool answers, and the run goes on to wait at its gate.
OpenGate(r) ==
    /\ gate' = [gate EXCEPT ![r] = IF @ = "none" THEN "waiting" ELSE @]
    /\ UNCHANGED <<gateDraft, decidedBy>>

\* A recipient got the card.
NotifyDelivered(t) ==
    /\ pc[t] = "pushing"
    /\ OpenGate(job[t].run)
    /\ Finish(t)
    /\ NoCount
    /\ UNCHANGED <<rowVars, pubVars, syncBatch, histVars, postVars>>

\* No recipient got it: the row is marked, whatever became of it meanwhile.
NotifyUndelivered(t) ==
    /\ pc[t] = "pushing"
    /\ UpdatePendingApprovalStatus(job[t].run, "delivery_failed", System, "none")
    /\ OpenGate(job[t].run)
    /\ Finish(t)
    /\ NoCount
    /\ UNCHANGED <<pubVars, syncBatch, histVars, postVars>>

-----------------------------------------------------------------------------
(* Postbacks and replies that change the row before they await anything *)

TapEdit(a, r) ==
    /\ status[r] # "absent"
    /\ DecidePendingApproval(r, "editing", a)
    /\ Tap
    /\ UNCHANGED <<gateVars, procVars, pubVars, syncBatch, histVars, postVars>>

TapSchedule(a, r) ==
    /\ status[r] # "absent"
    /\ UpdatePendingApprovalStatus(r, "schedule_requested", a, "none")
    /\ Tap
    /\ UNCHANGED <<gateVars, procVars, pubVars, syncBatch, histVars, postVars>>

\* A text that names a time, from someone with a schedule dialogue open.
ScheduleReply(a, r) ==
    /\ IsLatest(r, SchedulePendingOf(a))
    /\ UpdatePendingApprovalStatus(r, "schedule_confirmation", a, "future")
    /\ Tap
    /\ UNCHANGED <<gateVars, procVars, pubVars, syncBatch, histVars, postVars>>

\* defer_with_schedule keeps the slot and does not ask whether it has passed.
TapConfirmSchedule(a, r) ==
    /\ status[r] = "schedule_confirmation"
    /\ slot[r] # "none"
    /\ UpdatePendingApprovalStatus(r, "scheduled", a, slot[r])
    /\ confirmed' = [confirmed EXCEPT ![r] = @ \cup {draft[r]}]
    /\ cameDue' = IF slot[r] = "due" THEN cameDue \cup {r} ELSE cameDue
    /\ Tap
    /\ UNCHANGED <<gateVars, procVars, pubVars, syncBatch, postVars>>

\* Mutant: a cancelled dialogue gets a status nothing else knows.
TapCancelToUnknown(a, r) ==
    /\ status[r] \in ScheduleActive
    /\ UpdatePendingApprovalStatus(r, "cancelled", a, "none")
    /\ Tap
    /\ UNCHANGED <<gateVars, procVars, pubVars, syncBatch, histVars, postVars>>

TapCancelSchedule(a, r) ==
    /\ status[r] \in ScheduleActive
    /\ UpdatePendingApprovalStatus(r,
           IF status[r] = "schedule_confirmation" THEN "schedule_requested"
                                                  ELSE "pending", a, "none")
    /\ Tap
    /\ UNCHANGED <<gateVars, procVars, pubVars, syncBatch, histVars, postVars>>

SlotArrives(r) ==
    /\ slot[r] = "future"
    /\ slot' = [slot EXCEPT ![r] = "due"]
    /\ cameDue' = IF status[r] = "scheduled" THEN cameDue \cup {r} ELSE cameDue
    /\ NoCount
    /\ UNCHANGED <<status, draft, actor, touched, gateVars, procVars, pubVars,
                   syncBatch, confirmed, postVars>>

-----------------------------------------------------------------------------
(* An edit instruction: the latest row the actor is editing is rewritten   *)
(* by the language model, which takes a while.                             *)

EditReply(t, a, r) ==
    /\ SchedulePendingOf(a) = {}     \* a schedule dialogue is served first
    /\ IsLatest(r, EditingOf(a))
    /\ Begin(t, "revising", [run |-> r, draft |-> draft[r],
                             verdict |-> "approved", actor |-> a])
    /\ Tap
    /\ UNCHANGED <<rowVars, gateVars, pubVars, syncBatch, histVars, postVars>>

Revised(t, d) ==
    /\ pc[t] = "revising"
    /\ UpdatePendingApprovalDraft(job[t].run, d, job[t].actor)
    /\ Finish(t)
    /\ NoCount
    /\ UNCHANGED <<gateVars, pubVars, syncBatch, histVars, postVars>>

-----------------------------------------------------------------------------
(* ApprovalBridge: approve and reject.  The row is read, the gate's        *)
(* approval is looked up, the decision is posted, the row is written.      *)

TapDecide(t, a, r, verdict) ==
    /\ status[r] # "absent"
    /\ Begin(t, "lookup", [run |-> r, draft |-> draft[r],
                           verdict |-> verdict, actor |-> a])
    /\ confirmed' = IF verdict = "approved"
                    THEN [confirmed EXCEPT ![r] = @ \cup {draft[r]}]
                    ELSE confirmed
    /\ Tap
    /\ UNCHANGED <<rowVars, gateVars, pubVars, syncBatch, cameDue, postVars>>

\* POST /line/{tenant}/approval-edit/{run}: the payload comes with the request.
CompleteEditAndApprove(t, a, r, d) ==
    /\ status[r] # "absent"
    /\ Begin(t, "lookup", [run |-> r, draft |-> d,
                           verdict |-> "approved", actor |-> a])
    /\ confirmed' = [confirmed EXCEPT ![r] = @ \cup {d}]
    /\ Tap
    /\ UNCHANGED <<rowVars, gateVars, pubVars, syncBatch, cameDue, postVars>>

LookupFound(p) ==
    /\ pc[p] = "lookup"
    /\ gate[job[p].run] = "waiting"
    /\ GoTo(p, "deciding")
    /\ NoCount
    /\ UNCHANGED <<rowVars, gateVars, pubVars, syncBatch, histVars, postVars>>

\* Mutant: the verdict is written even when AgentOS has nothing to decide.
LookupMissingButRecorded(p) ==
    /\ pc[p] = "lookup"
    /\ gate[job[p].run] # "waiting"
    /\ GoTo(p, "answered")
    /\ NoCount
    /\ UNCHANGED <<rowVars, gateVars, pubVars, syncBatch, histVars, postVars>>

\* No pending approval: "not_found", and the row stays as it is.
LookupMissing(p) ==
    /\ pc[p] = "lookup"
    /\ gate[job[p].run] # "waiting"
    /\ Finish(p)
    /\ NoCount
    /\ UNCHANGED <<rowVars, gateVars, pubVars, syncBatch, histVars, postVars>>

\* Mutant: the payload is read from the row after the await, not before it.
DecisionTakenLateDraft(p) ==
    LET r == job[p].run IN
    /\ pc[p] = "deciding"
    /\ gate[r] = "waiting"
    /\ gate' = [gate EXCEPT ![r] = job[p].verdict]
    /\ gateDraft' = IF job[p].verdict = "approved"
                    THEN [gateDraft EXCEPT ![r] = draft[r]] ELSE gateDraft
    /\ decidedBy' = [decidedBy EXCEPT ![r] = job[p].actor]
    /\ GoTo(p, "answered")
    /\ NoCount
    /\ UNCHANGED <<rowVars, pubVars, syncBatch, histVars, postVars>>

\* AgentOS takes the decision; its answer is on the way.
DecisionTaken(p) ==
    LET r == job[p].run IN
    /\ pc[p] = "deciding"
    /\ gate[r] = "waiting"
    /\ gate' = [gate EXCEPT ![r] = job[p].verdict]
    /\ gateDraft' = IF job[p].verdict = "approved"
                    THEN [gateDraft EXCEPT ![r] = job[p].draft] ELSE gateDraft
    /\ decidedBy' = [decidedBy EXCEPT ![r] = job[p].actor]
    /\ GoTo(p, "answered")
    /\ NoCount
    /\ UNCHANGED <<rowVars, pubVars, syncBatch, histVars, postVars>>

\* Mutant: an error status is taken for an answer.
DecisionRefusedIgnored(p) ==
    /\ pc[p] = "deciding"
    /\ gate[job[p].run] # "waiting"
    /\ GoTo(p, "answered")
    /\ NoCount
    /\ UNCHANGED <<rowVars, gateVars, pubVars, syncBatch, histVars, postVars>>

\* Someone else decided first: an error status, raised by raise_for_status.
DecisionRefused(p) ==
    /\ pc[p] = "deciding"
    /\ gate[job[p].run] # "waiting"
    /\ Abort(p)
    /\ NoCount
    /\ UNCHANGED <<rowVars, gateVars, syncBatch, histVars, postVars>>

RecordDecision(p) ==
    /\ pc[p] = "answered"
    /\ DecidePendingApproval(job[p].run, job[p].verdict, job[p].actor)
    /\ Finish(p)
    /\ NoCount
    /\ UNCHANGED <<gateVars, pubVars, syncBatch, histVars, postVars>>

\* A call fails or times out.  In "answered" AgentOS has decided all the same.
CallFails(p) ==
    /\ pc[p] \in {"lookup", "deciding", "answered", "revising"}
    /\ faults < MaxFaults
    /\ faults' = faults + 1
    /\ Abort(p)
    /\ UNCHANGED <<rowVars, gateVars, syncBatch, histVars, postVars,
                   taps, crashes, notified, attempts>>

-----------------------------------------------------------------------------
(* ScheduledApprovalService: list the due rows, then approve one by one    *)

PublisherJob(r) == [run |-> r, draft |-> draft[r],
                    verdict |-> "approved", actor |-> Publisher]

\* Nothing is awaited between the listing and the first row's approval.
PublisherTick(r) ==
    /\ publisherUp
    /\ batch = {}
    /\ r \in DueScheduled
    /\ Begin(Publisher, "lookup", PublisherJob(r))
    /\ batch' = DueScheduled \ {r}
    /\ NoCount
    /\ UNCHANGED <<rowVars, gateVars, publisherUp, syncBatch, histVars, postVars>>

\* A later row of the batch: its status is not read again, its draft is.
PublisherNext(r) ==
    /\ publisherUp
    /\ r \in batch
    /\ Begin(Publisher, "lookup", PublisherJob(r))
    /\ batch' = batch \ {r}
    /\ NoCount
    /\ UNCHANGED <<rowVars, gateVars, publisherUp, syncBatch, histVars, postVars>>

-----------------------------------------------------------------------------
(* PendingApprovalSyncService: list the open rows, then copy AgentOS's     *)
(* verdict into each                                                       *)

SyncTick ==
    /\ syncBatch = {}
    /\ OpenForSync # {}
    /\ syncBatch' = OpenForSync
    /\ NoCount
    /\ UNCHANGED <<rowVars, gateVars, procVars, pubVars, histVars, postVars>>

\* Mutant: a gate that ended without approval is copied as a rejection.
SyncEnded(r) ==
    /\ r \in syncBatch
    /\ gate[r] \in Verdicts \cup {"timed_out"}
    /\ DecidePendingApproval(r, IF gate[r] = "approved" THEN "approved" ELSE "rejected",
                             decidedBy[r])
    /\ syncBatch' = syncBatch \ {r}
    /\ NoCount
    /\ UNCHANGED <<gateVars, procVars, pubVars, histVars, postVars>>

SyncDecided(r) ==
    /\ r \in syncBatch
    /\ gate[r] \in Verdicts
    /\ DecidePendingApproval(r, gate[r], decidedBy[r])
    /\ syncBatch' = syncBatch \ {r}
    /\ NoCount
    /\ UNCHANGED <<gateVars, procVars, pubVars, histVars, postVars>>

SyncSkipped(r) ==
    /\ r \in syncBatch
    /\ gate[r] \notin Verdicts
    /\ syncBatch' = syncBatch \ {r}
    /\ NoCount
    /\ UNCHANGED <<rowVars, gateVars, procVars, pubVars, histVars, postVars>>

\* The call for one row fails; the loop goes on with the next.
SyncFails(r) ==
    /\ r \in syncBatch
    /\ faults < MaxFaults
    /\ faults' = faults + 1
    /\ syncBatch' = syncBatch \ {r}
    /\ UNCHANGED <<rowVars, gateVars, procVars, pubVars, histVars, postVars,
                   taps, crashes, notified, attempts>>

-----------------------------------------------------------------------------
(* AgentOS on its own *)

OperatorDecides(r, verdict) ==
    /\ gate[r] = "waiting"
    /\ gate' = [gate EXCEPT ![r] = verdict]
    /\ decidedBy' = [decidedBy EXCEPT ![r] = Operator]
    /\ NoCount
    /\ UNCHANGED <<rowVars, gateDraft, procVars, pubVars, syncBatch, histVars,
                   postVars>>

GateTimesOut(r) ==
    /\ gate[r] = "waiting"
    /\ gate' = [gate EXCEPT ![r] = "timed_out"]
    /\ NoCount
    /\ UNCHANGED <<rowVars, gateDraft, decidedBy, procVars, pubVars, syncBatch,
                   histVars, postVars>>

\* An approved run goes on to its publish step and repeats it until a call
\* reports success; one call at a time.
CallPublish(t, r) ==
    /\ gate[r] = "approved"
    /\ outcome[r] # "published"
    /\ \A p \in Tasks : pc[p] \in {"posting", "posted"} => job[p].run # r
    /\ attempts[r] < MaxAttempts
    /\ attempts' = [attempts EXCEPT ![r] = @ + 1]
    /\ Begin(t, "posting", [run |-> r, draft |-> gateDraft[r],
                            verdict |-> "approved", actor |-> System])
    /\ UNCHANGED <<rowVars, gateVars, pubVars, syncBatch, histVars, postVars,
                   taps, faults, crashes, notified>>

-----------------------------------------------------------------------------
(* The publish tools: publish-google-post, publish-content,                *)
(* post-review-reply                                                       *)

PostAccepted(t) ==
    /\ pc[t] = "posting"
    /\ posted' = posted \cup {job[t].run}
    /\ GoTo(t, "posted")
    /\ NoCount
    /\ UNCHANGED <<rowVars, gateVars, pubVars, syncBatch, histVars, outcome>>

RecordPublished(t) ==
    /\ pc[t] = "posted"
    /\ DecidePendingApproval(job[t].run, "published", System)
    /\ outcome' = [outcome EXCEPT ![job[t].run] = "published"]
    /\ Finish(t)
    /\ NoCount
    /\ UNCHANGED <<gateVars, pubVars, syncBatch, histVars, posted>>

\* The connector refuses, or one platform of two does.
PostRefused(t) ==
    /\ pc[t] = "posting"
    /\ posted' \in {posted, posted \cup {job[t].run}}
    /\ DecidePendingApproval(job[t].run, "delivery_failed", System)
    /\ outcome' = [outcome EXCEPT ![job[t].run] = "failed"]
    /\ Finish(t)
    /\ NoCount
    /\ UNCHANGED <<gateVars, pubVars, syncBatch, histVars>>

\* Google answers with an error status, or a call breaks off: the tools catch
\* connector errors only, so they answer 500 and the row is not written.
PostRaises(t) ==
    /\ pc[t] = "posting"
    /\ faults < MaxFaults
    /\ faults' = faults + 1
    /\ posted' \in {posted, posted \cup {job[t].run}}
    /\ outcome' = [outcome EXCEPT ![job[t].run] = "failed"]
    /\ Finish(t)
    /\ UNCHANGED <<rowVars, gateVars, pubVars, syncBatch, histVars,
                   taps, crashes, notified, attempts>>

-----------------------------------------------------------------------------
\* The process dies and starts again: what was in flight is lost.
Crash ==
    /\ crashes < MaxCrashes
    /\ crashes' = crashes + 1
    /\ pc' = [p \in Procs |-> "idle"]
    /\ job' = [p \in Procs |-> NoJob]
    /\ publisherUp' = TRUE
    /\ batch' = {} /\ syncBatch' = {}
    /\ UNCHANGED <<rowVars, gateVars, histVars, postVars,
                   taps, faults, notified, attempts>>

PersonActs ==
    \E a \in Actors, r \in Runs :
        \/ TapEdit(a, r)
        \/ TapSchedule(a, r)
        \/ ScheduleReply(a, r)
        \/ TapConfirmSchedule(a, r)
        \/ TapCancelSchedule(a, r)
        \/ \E t \in Tasks :
             \/ EditReply(t, a, r)
             \/ \E v \in Verdicts : TapDecide(t, a, r, v)
             \/ \E d \in Drafts : CompleteEditAndApprove(t, a, r, d)

BridgeSteps(p) ==
    \/ LookupFound(p) \/ LookupMissing(p)
    \/ DecisionTaken(p) \/ DecisionRefused(p) \/ RecordDecision(p)

ToolSteps(t) ==
    \/ NotifyDelivered(t) \/ NotifyUndelivered(t)
    \/ \E d \in Drafts : Revised(t, d)
    \/ PostAccepted(t) \/ RecordPublished(t) \/ PostRefused(t)

PublisherSteps == \E r \in Runs : PublisherTick(r) \/ PublisherNext(r)

SyncSteps == SyncTick \/ \E r \in Runs : SyncDecided(r) \/ SyncSkipped(r)

AgentOSActs ==
    \E r \in Runs :
        \/ \E v \in Verdicts : OperatorDecides(r, v)
        \/ GateTimesOut(r)
        \/ \E t \in Tasks : NotifyApproval(t, r) \/ CallPublish(t, r)

Next ==
    \/ PersonActs
    \/ AgentOSActs
    \/ \E p \in Procs : BridgeSteps(p) \/ CallFails(p)
    \/ \E t \in Tasks : ToolSteps(t) \/ PostRaises(t)
    \/ PublisherSteps
    \/ SyncSteps
    \/ \E r \in Runs : SyncFails(r) \/ SlotArrives(r)
    \/ Crash

Spec == Init /\ [][Next]_vars

\* The event loop resumes every coroutine whose call has returned, and the two
\* schedulers come round again.  People, AgentOS and the clock owe nothing.
Fairness ==
    /\ \A p \in Procs : WF_vars(BridgeSteps(p))
    /\ \A t \in Tasks : WF_vars(ToolSteps(t))
    /\ WF_vars(PublisherSteps)
    /\ WF_vars(SyncSteps)

FairSpec == Spec /\ Fairness

-----------------------------------------------------------------------------
(* Safety *)

\* A row that says "approved" or "rejected" (approval.py RecordDecision and the
\* sync service) says what AgentOS's gate says, and nothing reaches a provider
\* before the gate approved it, whoever raced whom and whatever was lost.
VerdictAgrees ==
    \A r \in Runs :
        /\ status[r] = "approved" => gate[r] = "approved"
        /\ status[r] = "rejected" => gate[r] = "rejected"
        /\ status[r] = "published" => r \in posted
        /\ r \in posted => gate[r] = "approved"

\* AgentOS releases a run only for a reason: a person approved exactly that
\* content, the publisher acted after the slot of a confirmed schedule had
\* come, or an operator decided at AgentOS.
ReleaseIsAuthorised ==
    \A r \in Runs : gate[r] = "approved" =>
        \/ decidedBy[r] \in Actors /\ gateDraft[r] \in confirmed[r]
        \/ decidedBy[r] = Publisher /\ r \in cameDue
        \/ decidedBy[r] = Operator

\* Why VerdictAgrees holds: a coroutine that has AgentOS's answer knows the
\* verdict, and only an approved run is in the hands of a publish tool.
VerdictInv ==
    /\ VerdictAgrees
    /\ \A p \in Procs :
        /\ pc[p] = "answered" => gate[job[p].run] = job[p].verdict
        /\ pc[p] \in {"posting", "posted"} => gate[job[p].run] = "approved"
        /\ pc[p] = "posted" => job[p].run \in posted

\* Why ReleaseIsAuthorised holds: so does every approval under way, and every
\* row the publisher may take up had its slot.
ReleaseInv ==
    /\ ReleaseIsAuthorised
    /\ \A p \in Procs :
        pc[p] \in {"lookup", "deciding"} /\ job[p].verdict = "approved" =>
            \/ job[p].actor \in Actors /\ job[p].draft \in confirmed[job[p].run]
            \/ job[p].actor = Publisher /\ job[p].run \in cameDue
    /\ DueScheduled \cup batch \subseteq cameDue

\* Content is never released unless a person confirmed that very content, by
\* approving it or by confirming its schedule (operators at AgentOS aside).
ReleasedWasConfirmed ==
    \A r \in Runs :
        gate[r] = "approved" /\ decidedBy[r] # Operator => gateDraft[r] \in confirmed[r]

\* Once the publish tool reported a failure to AgentOS, the row does not claim
\* a plain "approved" again (tools_router.py publish-* write delivery_failed).
FailureStaysVisible ==
    [][\A r \in Runs : outcome[r] = "failed" /\ status[r] = "delivery_failed"
                        => status'[r] # "approved"]_vars

-----------------------------------------------------------------------------
(* What all of this amounts to: ApprovalPromise *)

SourceOf(who) ==
    CASE who \in Actors   -> "person"
      [] who = Publisher  -> "schedule"
      [] who = Operator   -> "operator"
      [] OTHER            -> "nobody"

ClaimOf(new) == IF new \in Verdicts \cup {"published"} THEN new ELSE "open"

Sources == [r \in Runs |-> SourceOf(decidedBy[r])]
Claims  == [r \in Runs |-> ClaimOf(status[r])]

Promise == INSTANCE ApprovalPromise WITH
    verdict <- gate,
    content <- gateDraft,
    source  <- Sources,
    wanted  <- confirmed,
    due     <- cameDue,
    claim   <- Claims

\* Every interleaving of taps, polls, publisher, tools, crashes and lost answers
\* (approval.py, tools_router.py) is a history the promise allows: one decision
\* per run, released content vouched for, nothing posted unreleased, and each
\* single step of the row's claim justified by AgentOS's verdict.
ImplementsPromise == Promise!Spec

\* Why it does: the publisher never refuses, and no row is scheduled unless
\* someone confirmed its schedule.
PromiseInv ==
    /\ \A p \in Procs :
        pc[p] \in {"lookup", "deciding"} /\ job[p].verdict = "rejected" =>
            job[p].actor \in Actors
    /\ \A r \in Runs : status[r] = "scheduled" => confirmed[r] # {}

-----------------------------------------------------------------------------
(* Liveness *)

\* Eventual consistency: AgentOS's verdict, wherever it was taken, ends the
\* "pending" of the row for good, crashes and failed polls included.
PendingCatchesUp ==
    \A r \in Runs : <>[](gate[r] \in Verdicts => status[r] # "pending")

\* A scheduled row whose time has come and whose gate waits is released, unless
\* someone takes it out of the schedule or the publisher's task dies first.
DueIsReleased ==
    \A r \in Runs :
        (status[r] = "scheduled" /\ slot[r] = "due" /\ gate[r] = "waiting")
            ~> (gate[r] # "waiting" \/ status[r] # "scheduled" \/ ~publisherUp)
=============================================================================
