-------------------------- MODULE LegacyApprovals --------------------------
(***************************************************************************)
(* The approval gate of the first Kachu (src/kachu): the card's buttons,   *)
(* the edit sessions, the schedule dialogue and the minutely publisher.    *)
(*                                                                         *)
(* A draft is a version number.  AgentOS holds the gate of each run; it    *)
(* runs the publish tool once the gate is released, while a schedule       *)
(* rejects the gate and leaves the post to the publisher.  The edit        *)
(* session and the two schedule questions belong to the tenant, not to a   *)
(* run.  Every step is the code between two awaits.                        *)
(***************************************************************************)
EXTENDS Naturals, Sequences

CONSTANTS Runs, Threads, NoRun, MaxTaps, MaxRewrites, MaxFaults, MaxCrashes

VARIABLES
    gate,       \* AgentOS: the checkpoint the run waits at, or its outcome
    payload,    \* AgentOS: the draft its publish tool is given
    row,        \* kachu_approval_tasks: status and decision in one
    draft,      \* its draft_content
    sessions,   \* the tenant's edit sessions, oldest first
    request, confirm,   \* shared contexts: which run is being scheduled
    sched,      \* kachu_scheduled_publishes: status of the run's row
    pub,        \* the publisher's item and how far it is
    pc, job,    \* a background task of the webhook
    out,        \* runs AgentOS's publish tool posted
    printed,    \* posts of the publisher per run
    versions, taps, faults, crashes

gateVars    == <<gate, payload>>
rowVars     == <<row, draft>>
askVars     == <<request, confirm>>
pubVars     == <<sched, pub, printed>>
procVars    == <<pc, job>>
vars == <<gateVars, rowVars, sessions, askVars, pubVars, procVars, out,
          versions, taps, faults, crashes>>

Versions == 0..MaxRewrites
Open     == {"user", "system"}
Nothing  == [run |-> NoRun, draft |-> 0]
NoJob    == [act |-> "none", run |-> NoRun, draft |-> 0, seen |-> "none", sid |-> 0]
Idle     == [run |-> NoRun, at |-> "idle"]

TypeOK ==
    /\ gate \in [Runs -> Open \cup {"none", "released", "failed", "done", "rejected"}]
    /\ payload \in [Runs -> Versions] /\ draft \in [Runs -> Versions]
    /\ row \in [Runs -> {"none", "pending", "approved", "rejected", "scheduled", "published"}]
    /\ \A i \in 1..Len(sessions) :
          sessions[i] \in [run : Runs, base : Versions, edited : Versions,
                           step : {"feedback", "ig", "google", "completed"}]
    /\ request \in [run : Runs \cup {NoRun}, draft : Versions]
    /\ confirm \in [run : Runs \cup {NoRun}, draft : Versions]
    /\ sched \in [Runs -> {"none", "pending", "publishing", "published", "failed"}]
    /\ pub \in [run : Runs \cup {NoRun}, at : {"idle", "posting", "posted", "failed"}]
    /\ pc \in [Threads -> {"idle", "lookup", "decide", "answered", "auto", "record",
                           "rewriting", "saving", "closing"}]
    /\ job \in [Threads -> [act : {"none", "approve", "reject", "defer", "submit", "feedback"},
                            run : Runs \cup {NoRun}, draft : Versions,
                            seen : Open \cup {"none", "released", "rejected"}, sid : Nat]]
    /\ out \subseteq Runs /\ printed \in [Runs -> Nat]
    /\ versions \in Versions /\ taps \in 0..MaxTaps
    /\ faults \in 0..MaxFaults /\ crashes \in 0..MaxCrashes

\* A session of the two-step dialogue may be left from before the rewrite.
Init ==
    \E old \in Runs \cup {NoRun} :
        /\ gate = [r \in Runs |-> IF r = old THEN "user" ELSE "none"]
        /\ row = [r \in Runs |-> IF r = old THEN "pending" ELSE "none"]
        /\ payload = [r \in Runs |-> 0] /\ draft = [r \in Runs |-> 0]
        /\ sessions = IF old = NoRun THEN << >>
                      ELSE <<[run |-> old, base |-> 0, edited |-> 0, step |-> "ig"]>>
        /\ request = Nothing /\ confirm = Nothing
        /\ sched = [r \in Runs |-> "none"] /\ pub = Idle
        /\ pc = [t \in Threads |-> "idle"] /\ job = [t \in Threads |-> NoJob]
        /\ out = {} /\ printed = [r \in Runs |-> 0]
        /\ versions = 0 /\ taps = 0 /\ faults = 0 /\ crashes = 0

Tapped  == taps < MaxTaps /\ taps' = taps + 1 /\ UNCHANGED <<versions, faults, crashes>>
NoCount == UNCHANGED <<versions, taps, faults, crashes>>
Fault   == faults < MaxFaults /\ faults' = faults + 1 /\ UNCHANGED <<versions, taps, crashes>>

Start(t, at, j) ==
    /\ pc[t] = "idle"
    /\ pc' = [pc EXCEPT ![t] = at]
    /\ job' = [job EXCEPT ![t] = j]
GoTo(t, at) == pc' = [pc EXCEPT ![t] = at] /\ UNCHANGED job
Return(t)   == pc' = [pc EXCEPT ![t] = "idle"] /\ job' = [job EXCEPT ![t] = NoJob]

ClearContexts == request' = Nothing /\ confirm' = Nothing

OpenSessions == {i \in 1..Len(sessions) : sessions[i].step # "completed"}
ActiveSession == CHOOSE i \in OpenSessions : \A k \in OpenSessions : k <= i

-----------------------------------------------------------------------------
(* AgentOS asks for approval; a retried call finds the row and keeps it.    *)
NotifyApproval(r) ==
    /\ gate[r] = "none"
    /\ gate' = [gate EXCEPT ![r] = "user"]
    /\ row' = [row EXCEPT ![r] = "pending"]
    /\ UNCHANGED <<payload, draft, sessions, askVars, pubVars, procVars, out>> /\ NoCount

(* AgentOS runs publish-content or publish-google-post with its payload.    *)
\* A tool that posted records it; the run fails if its answer is lost.
AgentPublishes(r) ==
    /\ gate[r] = "released"
    /\ \/ gate' = [gate EXCEPT ![r] = "done"] /\ NoCount
       \/ gate' = [gate EXCEPT ![r] = "failed"] /\ Fault
    /\ out' = out \cup {r}
    /\ row' = [row EXCEPT ![r] = "published"]
    /\ UNCHANGED <<payload, draft, sessions, askVars, pubVars, procVars>>

AgentPublishFails(r) ==
    /\ gate[r] = "released"
    /\ gate' = [gate EXCEPT ![r] = "failed"] /\ Fault
    /\ UNCHANGED <<payload, rowVars, sessions, askVars, pubVars, procVars, out>>

\* The retry_run button of a failed run.
TapRetry(r) ==
    /\ gate[r] = "failed" /\ Tapped
    /\ gate' = [gate EXCEPT ![r] = "released"]
    /\ UNCHANGED <<payload, rowVars, sessions, askVars, pubVars, procVars, out>>

-----------------------------------------------------------------------------
(* The buttons of a card.  All but the schedule's clear its questions.      *)
TapDecision(t, r, act) ==
    /\ row[r] # "none" /\ Tapped
    /\ Start(t, "lookup", [NoJob EXCEPT !.act = act, !.run = r])
    /\ ClearContexts
    /\ UNCHANGED <<gateVars, rowVars, sessions, pubVars, out>>

TapEdit(r) ==
    /\ row[r] # "none" /\ Tapped
    /\ ClearContexts
    /\ sessions' = Append(sessions, [run |-> r, base |-> draft[r], edited |-> 0,
                                     step |-> "feedback"])
    /\ UNCHANGED <<gateVars, rowVars, pubVars, procVars, out>>

TapSchedule(r) ==
    /\ row[r] # "none" /\ Tapped
    /\ request' = [run |-> r, draft |-> draft[r]] /\ confirm' = Nothing
    /\ UNCHANGED <<gateVars, rowVars, sessions, pubVars, procVars, out>>

TapCancel(r) ==
    /\ row[r] # "none" /\ Tapped
    /\ confirm' = Nothing
    /\ request' = IF confirm.run = r THEN confirm ELSE Nothing
    /\ UNCHANGED <<gateVars, rowVars, sessions, pubVars, procVars, out>>

\* confirm_schedule_publish: the question must still be about this run.
TapConfirm(t, r) ==
    /\ confirm.run = r /\ Tapped
    /\ Start(t, "lookup", [NoJob EXCEPT !.act = "defer", !.run = r, !.draft = confirm.draft])
    /\ UNCHANGED <<gateVars, rowVars, sessions, askVars, pubVars, out>>

-----------------------------------------------------------------------------
(* get_pending_approval_id_for_run, then decide_approval.                   *)
\* An approval carries the row's draft as it is when the lookup answers.
Lookup(t) ==
    /\ pc[t] = "lookup"
    /\ LET r == job[t].run IN
       IF gate[r] \in Open
       THEN /\ pc' = [pc EXCEPT ![t] = "decide"]
            /\ job' = [job EXCEPT ![t].seen = gate[r],
                                  ![t].draft = IF job[t].act = "approve" THEN draft[r] ELSE @]
       ELSE Return(t)
    /\ UNCHANGED <<gateVars, rowVars, sessions, askVars, pubVars, out>> /\ NoCount

LookupFails(t) ==
    /\ \/ pc[t] = "lookup"
       \/ pc[t] = "answered" /\ job[t].act = "approve" /\ job[t].seen = "system"
    /\ Return(t) /\ Fault
    /\ UNCHANGED <<gateVars, rowVars, sessions, askVars, pubVars, out>>

\* What the decision does at AgentOS, if the approval is still pending.
Decides(t) ==
    LET r == job[t].run IN
    /\ gate[r] = job[t].seen
    /\ IF job[t].act \in {"approve", "submit"}
       THEN /\ gate' \in {[gate EXCEPT ![r] = g] :
                            g \in IF gate[r] = "user" THEN {"system", "released"}
                                                      ELSE {"released"}}
            /\ payload' = [payload EXCEPT ![r] = job[t].draft]
       ELSE gate' = [gate EXCEPT ![r] = "rejected"] /\ UNCHANGED payload

Decide(t) ==
    /\ pc[t] = "decide" /\ Decides(t)
    /\ pc' = [pc EXCEPT ![t] = "answered"]
    /\ job' = [job EXCEPT ![t].seen = gate'[job[t].run]]
    /\ UNCHANGED <<rowVars, sessions, askVars, pubVars, out>> /\ NoCount

DecideLost(t) ==
    /\ pc[t] = "decide" /\ Decides(t)
    /\ Return(t) /\ Fault
    /\ UNCHANGED <<rowVars, sessions, askVars, pubVars, out>>

\* Mutant: the schedule is kept whatever became of the decision.
DecideErrorIgnored(t) ==
    /\ pc[t] = "decide"
    /\ \/ gate[job[t].run] # job[t].seen /\ NoCount
       \/ Fault
    /\ IF job[t].act = "defer" THEN GoTo(t, "answered") ELSE Return(t)
    /\ UNCHANGED <<gateVars, rowVars, sessions, askVars, pubVars, out>>

\* Decided already, or not reached.
DecideError(t) ==
    /\ pc[t] = "decide"
    /\ \/ gate[job[t].run] # job[t].seen /\ NoCount
       \/ Fault
    /\ Return(t)
    /\ UNCHANGED <<gateVars, rowVars, sessions, askVars, pubVars, out>>

-----------------------------------------------------------------------------
(* The system's checkpoint behind the owner's is approved at once.          *)
SystemLookup(t) ==
    /\ pc[t] = "answered" /\ job[t].act = "approve" /\ job[t].seen = "system"
    /\ GoTo(t, IF gate[job[t].run] \in Open THEN "auto" ELSE "record")
    /\ UNCHANGED <<gateVars, rowVars, sessions, askVars, pubVars, out>> /\ NoCount

AutoApprove(t) ==
    /\ pc[t] = "auto"
    /\ gate' = [gate EXCEPT ![job[t].run] = IF @ = "system" THEN "released" ELSE @]
    /\ GoTo(t, "record")
    /\ UNCHANGED <<payload, rowVars, sessions, askVars, pubVars, out>> /\ NoCount

\* The error is logged and the tap still counts as an approval.
AutoApproveFails(t) ==
    /\ pc[t] = "auto" /\ GoTo(t, "record") /\ Fault
    /\ UNCHANGED <<gateVars, rowVars, sessions, askVars, pubVars, out>>

Verdict(act) == IF act = "reject" THEN "rejected" ELSE "approved"

\* decide_pending_approval looks at no status.
DecideRow(r, decision) == row' = [row EXCEPT ![r] = decision]

Record(t) ==
    /\ \/ pc[t] = "record"
       \/ /\ pc[t] = "answered" /\ job[t].act \in {"approve", "reject"}
          /\ ~(job[t].act = "approve" /\ job[t].seen = "system")
    /\ DecideRow(job[t].run, Verdict(job[t].act)) /\ Return(t)
    /\ UNCHANGED <<gateVars, draft, sessions, askVars, pubVars, out>> /\ NoCount

\* complete_edit_and_approve leaves a system checkpoint behind it as it is.
RecordEdit(t) ==
    /\ pc[t] = "answered" /\ job[t].act = "submit"
    /\ DecideRow(job[t].run, "approved") /\ GoTo(t, "closing")
    /\ UNCHANGED <<gateVars, draft, sessions, askVars, pubVars, out>> /\ NoCount

RecordSchedule(t) ==
    /\ pc[t] = "answered" /\ job[t].act = "defer"
    /\ DecideRow(job[t].run, "scheduled")
    /\ sched' = [sched EXCEPT ![job[t].run] = "pending"]
    /\ ClearContexts /\ Return(t)
    /\ UNCHANGED <<gateVars, draft, sessions, pub, printed, out>> /\ NoCount

-----------------------------------------------------------------------------
(* A text of the owner goes to the latest open edit session, and to the     *)
(* schedule's question only if there is none.                               *)
TextSession(t) ==
    /\ OpenSessions # {} /\ Tapped
    /\ LET i == ActiveSession
           s == sessions[i]
       IN Start(t, IF s.step = "feedback" THEN "rewriting" ELSE "saving",
                [NoJob EXCEPT !.act = "feedback", !.run = s.run, !.draft = s.base, !.sid = i])
    /\ UNCHANGED <<gateVars, rowVars, sessions, askVars, pubVars, out>>

TextTime ==
    /\ OpenSessions = {} /\ request # Nothing /\ Tapped
    /\ confirm' = request /\ request' = Nothing
    /\ UNCHANGED <<gateVars, rowVars, sessions, pubVars, procVars, out>>

\* The model answers with a new draft, or fails and the session's is kept.
Rewritten(t) ==
    /\ pc[t] = "rewriting"
    /\ \/ /\ versions < MaxRewrites /\ versions' = versions + 1
          /\ draft' = [draft EXCEPT ![job[t].run] = versions']
          /\ UNCHANGED <<taps, faults, crashes>>
       \/ draft' = [draft EXCEPT ![job[t].run] = job[t].draft] /\ Fault
    /\ GoTo(t, "closing")
    /\ UNCHANGED <<gateVars, row, sessions, askVars, pubVars, out>>

Close(t) ==
    /\ pc[t] = "closing"
    /\ sessions' = [sessions EXCEPT ![job[t].sid].step = "completed"]
    /\ Return(t)
    /\ UNCHANGED <<gateVars, rowVars, askVars, pubVars, out>> /\ NoCount

\* The owner's own text, or the session's draft if the platform is skipped.
Edited(t) ==
    \/ /\ versions < MaxRewrites /\ versions' = versions + 1
       /\ sessions' = [sessions EXCEPT ![job[t].sid].edited = versions',
                                       ![job[t].sid].step = "google"]
       /\ UNCHANGED <<taps, faults, crashes>>
    \/ /\ sessions' = [sessions EXCEPT ![job[t].sid].edited = job[t].draft,
                                       ![job[t].sid].step = "google"]
       /\ NoCount

SaveIgText(t) ==
    /\ pc[t] = "saving" /\ sessions[job[t].sid].step = "ig"
    /\ Edited(t) /\ Return(t)
    /\ UNCHANGED <<gateVars, rowVars, askVars, pubVars, out>>

\* What is submitted is the edit of the session that is the latest by then.
SubmitEdit(t) ==
    /\ pc[t] = "saving" /\ sessions[job[t].sid].step \in {"google", "completed"}
    /\ LET d == IF OpenSessions = {} THEN job[t].draft ELSE sessions[ActiveSession].edited IN
       job' = [job EXCEPT ![t].act = "submit", ![t].draft = d]
    /\ pc' = [pc EXCEPT ![t] = "lookup"]
    /\ UNCHANGED <<gateVars, rowVars, sessions, askVars, pubVars, out>> /\ NoCount

-----------------------------------------------------------------------------
(* The publisher's minutely job, one due row after the other.               *)
\* Mutant: the row is marked only after the post.
PickUnmarked(r) ==
    /\ pub = Idle /\ sched[r] = "pending"
    /\ pub' = [run |-> r, at |-> "posting"]
    /\ UNCHANGED <<gateVars, rowVars, sessions, askVars, sched, printed, procVars, out>>
    /\ NoCount

PickDue(r) ==
    /\ pub = Idle /\ sched[r] = "pending"
    /\ sched' = [sched EXCEPT ![r] = "publishing"]
    /\ pub' = [run |-> r, at |-> "posting"]
    /\ UNCHANGED <<gateVars, rowVars, sessions, askVars, printed, procVars, out>> /\ NoCount

\* The tool may post although its answer never arrives.
PostDue ==
    /\ pub.at = "posting"
    /\ printed' = [printed EXCEPT ![pub.run] = @ + 1]
    /\ row' = [row EXCEPT ![pub.run] = "published"]
    /\ \/ pub' = [pub EXCEPT !.at = "posted"] /\ NoCount
       \/ pub' = [pub EXCEPT !.at = "failed"] /\ Fault
    /\ UNCHANGED <<gateVars, draft, sessions, askVars, sched, procVars, out>>

\* No platform took it; publish-content says "published" all the same.
PostDueFails ==
    /\ pub.at = "posting" /\ Fault
    /\ row' \in {row, [row EXCEPT ![pub.run] = "published"]}
    /\ pub' = [pub EXCEPT !.at = "failed"]
    /\ UNCHANGED <<gateVars, draft, sessions, askVars, sched, printed, procVars, out>>

MarkPublished ==
    /\ pub.at \in {"posted", "failed"}
    /\ sched' = [sched EXCEPT ![pub.run] = IF pub.at = "posted" THEN "published" ELSE "failed"]
    /\ pub' = Idle
    /\ UNCHANGED <<gateVars, rowVars, sessions, askVars, printed, procVars, out>> /\ NoCount

-----------------------------------------------------------------------------
Crash ==
    /\ crashes < MaxCrashes /\ crashes' = crashes + 1
    /\ pc' = [t \in Threads |-> "idle"] /\ job' = [t \in Threads |-> NoJob]
    /\ pub' = Idle
    /\ UNCHANGED <<gateVars, rowVars, sessions, askVars, sched, printed, out,
                   versions, taps, faults>>

Next ==
    \/ \E r \in Runs :
         \/ NotifyApproval(r) \/ AgentPublishes(r) \/ AgentPublishFails(r) \/ TapRetry(r)
         \/ TapEdit(r) \/ TapSchedule(r) \/ TapCancel(r) \/ PickDue(r)
         \/ \E t \in Threads : TapConfirm(t, r)
         \/ \E t \in Threads, act \in {"approve", "reject"} : TapDecision(t, r, act)
    \/ \E t \in Threads :
         \/ Lookup(t) \/ LookupFails(t) \/ Decide(t) \/ DecideLost(t) \/ DecideError(t)
         \/ SystemLookup(t) \/ AutoApprove(t) \/ AutoApproveFails(t) \/ Record(t)
         \/ RecordEdit(t) \/ RecordSchedule(t) \/ TextSession(t) \/ Rewritten(t) \/ Close(t)
         \/ SaveIgText(t) \/ SubmitEdit(t)
    \/ TextTime \/ PostDue \/ PostDueFails \/ MarkPublished \/ Crash

Spec == Init /\ [][Next]_vars

-----------------------------------------------------------------------------
\* A draft goes out by one path: once a publication is scheduled, AgentOS's
\* own publish tool has not posted the run and never will, whichever buttons
\* were tapped meanwhile (handle_postback against defer_with_schedule).
OnePathOut ==
    \A r \in Runs : sched[r] # "none" => gate[r] = "rejected" /\ r \notin out

\* The publisher posts a scheduled publication at most once, although it may
\* be stopped between the post and the status, or lose the tool's answer.
ScheduledOnce == \A r \in Runs : printed[r] <= 1
=============================================================================
