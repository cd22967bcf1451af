--------------------------- MODULE PromiseProofs ---------------------------
(***************************************************************************)
(* Approvals implements ApprovalPromise: every step of the coroutines is a *)
(* step of the promise or changes nothing the promise speaks of.           *)
(***************************************************************************)
EXTENDS ApprovalsProofs

\* A write of a row's status changes that row's claim only (repository.py,
\* decide_pending_approval and the other writes).
LEMMA ClaimWritten ==
    ASSUME TypeOK, NEW r \in Runs, NEW new, status' = [status EXCEPT ![r] = new]
    PROVE  Claims' = [Claims EXCEPT ![r] = ClaimOf(new)]
BY DEF TypeOK, Claims

\* A decision at the gate changes that run's source only (approval.py).
LEMMA SourceWritten ==
    ASSUME TypeOK, NEW r \in Runs, NEW who, decidedBy' = [decidedBy EXCEPT ![r] = who]
    PROVE  Sources' = [Sources EXCEPT ![r] = SourceOf(who)]
BY DEF TypeOK, Sources

\* What the promise does not speak of may change freely.
LEMMA Stutters ==
    ASSUME UNCHANGED <<status, gate, gateDraft, decidedBy, confirmed, cameDue, posted>>
    PROVE  UNCHANGED Promise!vars
<1>1. UNCHANGED Claims /\ UNCHANGED Sources
  BY DEF Claims, Sources
<1>2. QED
  BY <1>1 DEF Promise!vars

\* A write of the row alone is a claim, which must be true (repository.py).
LEMMA ClaimStep ==
    ASSUME TypeOK, NEW r \in Runs, NEW new \in Statuses,
           status' = [status EXCEPT ![r] = new],
           UNCHANGED <<gate, gateDraft, decidedBy, confirmed, cameDue, posted>>,
           \/ new \notin {"approved", "rejected", "published"}
           \/ new \in Verdicts /\ gate[r] = new
           \/ new = "published" /\ r \in posted
    PROVE  Promise!Next
<1>1. Claims' = [Claims EXCEPT ![r] = ClaimOf(new)] /\ UNCHANGED Sources
  BY ClaimWritten DEF Sources
<1>2. Promise!Claim(r, ClaimOf(new))
  BY <1>1 DEF Promise!Claim, ClaimOf, Verdicts
<1>3. ClaimOf(new) \in {"open", "approved", "rejected", "published"}
  BY DEF ClaimOf, Verdicts
<1>4. QED
  BY <1>2, <1>3 DEF Promise!Next

\* A decision of a waiting gate is the promise's decision (approval.py).
LEMMA DecideStep ==
    ASSUME TypeOK, NEW r \in Runs, NEW v, NEW who,
           gate[r] = "waiting",
           gate' = [gate EXCEPT ![r] = v],
           decidedBy' = [decidedBy EXCEPT ![r] = who],
           UNCHANGED <<status, confirmed, cameDue, posted>>
    PROVE  Promise!Decide(r, v, SourceOf(who))
<1>1. Sources' = [Sources EXCEPT ![r] = SourceOf(who)] /\ UNCHANGED Claims
  BY SourceWritten DEF Claims
<1>2. QED
  BY <1>1 DEF Promise!Decide

\* Who decides, by the name the promise gives him (approval.py, actor_line_id).
LEMMA SourceNames ==
    /\ \A a \in Actors : SourceOf(a) = "person"
    /\ SourceOf(Publisher) = "schedule"
    /\ SourceOf(Operator) = "operator"
BY NamesDiffer DEF SourceOf

-----------------------------------------------------------------------------

\* The scheduled publisher never refuses, and a row is scheduled only when
\* somebody confirmed its schedule (approval.py, defer_with_schedule).
LEMMA PromiseInvHolds == Spec => []PromiseInv
<1>1. Init => PromiseInv
  BY DEF Init, PromiseInv
<1>2. TypeOK /\ PromiseInv /\ [Next]_vars => PromiseInv'
  <2> SUFFICES ASSUME TypeOK, PromiseInv, [Next]_vars PROVE PromiseInv'
    OBVIOUS
  <2> USE DEF PromiseInv
  <2>1. ASSUME NEW a \in Actors, NEW r \in Runs,
               TapEdit(a, r) \/ TapSchedule(a, r) \/ ScheduleReply(a, r)
               \/ TapCancelSchedule(a, r)
        PROVE  PromiseInv'
    <3>1. /\ \E new \in Statuses \ {"scheduled"} : status' = [status EXCEPT ![r] = new]
          /\ UNCHANGED <<pc, job, confirmed>>
      BY <2>1 DEF TapEdit, TapSchedule, ScheduleReply, TapCancelSchedule,
         DecidePendingApproval, UpdatePendingApprovalStatus, Statuses, procVars, histVars
    <3>2. QED
      BY <3>1 DEF TypeOK
  <2>2. ASSUME NEW a \in Actors, NEW r \in Runs, TapConfirmSchedule(a, r)
        PROVE  PromiseInv'
    BY <2>2 DEF TypeOK, TapConfirmSchedule, UpdatePendingApprovalStatus, procVars
  <2>3. ASSUME NEW t \in Tasks, NEW a \in Actors, NEW r \in Runs,
               EditReply(t, a, r)
               \/ (\E v \in Verdicts : TapDecide(t, a, r, v))
               \/ (\E d \in Drafts : CompleteEditAndApprove(t, a, r, d))
        PROVE  PromiseInv'
    <3>1. \E where \in {"revising", "lookup"} : \E j :
              /\ j.actor = a
              /\ pc' = [pc EXCEPT ![t] = where]
              /\ job' = [job EXCEPT ![t] = j]
      BY <2>3 DEF EditReply, TapDecide, CompleteEditAndApprove, Begin
    <3>2. /\ UNCHANGED status
          /\ \/ UNCHANGED confirmed
             \/ \E d : confirmed' = [confirmed EXCEPT ![r] = @ \cup {d}]
      BY <2>3 DEF EditReply, TapDecide, CompleteEditAndApprove, rowVars, histVars
    <3>3. QED
      BY <3>1, <3>2 DEF TypeOK, Procs
  <2>4. ASSUME NEW r \in Runs, NEW t \in Tasks, NotifyApproval(t, r) \/ CallPublish(t, r)
        PROVE  PromiseInv'
    <3>1. /\ \E where \in {"pushing", "posting"} : pc' = [pc EXCEPT ![t] = where]
          /\ \E j : job' = [job EXCEPT ![t] = j]
          /\ UNCHANGED status \/ status' = [status EXCEPT ![r] = "pending"]
          /\ UNCHANGED confirmed
      BY <2>4 DEF NotifyApproval, CallPublish, SavePendingApproval, Begin, rowVars, histVars
    <3>2. QED
      BY <3>1 DEF TypeOK, Procs
  <2>5. ASSUME NEW p \in Procs, BridgeSteps(p) \/ CallFails(p) PROVE PromiseInv'
    <3>1. \A q \in Procs : pc'[q] \in {"lookup", "deciding"} =>
              pc[q] \in {"lookup", "deciding"} /\ job'[q] = job[q]
      BY <2>5 DEF TypeOK, BridgeSteps, LookupFound, LookupMissing, DecisionTaken,
         DecisionRefused, RecordDecision, CallFails, Abort, GoTo, Finish
    <3>2. /\ UNCHANGED status
             \/ \E new \in Verdicts : status' = [status EXCEPT ![job[p].run] = new]
          /\ UNCHANGED confirmed
      BY <2>5 DEF TypeOK, BridgeSteps, LookupFound, LookupMissing, DecisionTaken,
         DecisionRefused, RecordDecision, CallFails, DecidePendingApproval, Jobs,
         rowVars, histVars
    <3>3. QED
      BY <3>1, <3>2 DEF TypeOK, Verdicts
  <2>6. ASSUME NEW t \in Tasks, ToolSteps(t) \/ PostRaises(t) PROVE PromiseInv'
    <3>1. \A q \in Procs : pc'[q] \in {"lookup", "deciding"} =>
              pc[q] \in {"lookup", "deciding"} /\ job'[q] = job[q]
      BY <2>6 DEF TypeOK, Procs, ToolSteps, NotifyDelivered, NotifyUndelivered, Revised,
         PostAccepted, RecordPublished, PostRefused, PostRaises, GoTo, Finish
    <3>2. /\ UNCHANGED status
             \/ \E new \in Statuses \ {"scheduled"} :
                   status' = [status EXCEPT ![job[t].run] = new]
          /\ UNCHANGED confirmed
      BY <2>6 DEF ToolSteps, NotifyDelivered, NotifyUndelivered, Revised, PostAccepted,
         RecordPublished, PostRefused, PostRaises, DecidePendingApproval,
         UpdatePendingApprovalStatus, UpdatePendingApprovalDraft, Statuses,
         rowVars, histVars
    <3>3. QED
      BY <3>1, <3>2 DEF TypeOK
  <2>7. ASSUME NEW r \in Runs, PublisherTick(r) \/ PublisherNext(r) PROVE PromiseInv'
    BY <2>7 DEF TypeOK, PublisherTick, PublisherNext, PublisherJob, Begin, Procs,
       rowVars, histVars
  <2>8. ASSUME NEW r \in Runs, SyncDecided(r) PROVE PromiseInv'
    BY <2>8 DEF TypeOK, SyncDecided, DecidePendingApproval, Verdicts, procVars, histVars
  <2>9. ASSUME NEW r \in Runs, SlotArrives(r) \/ SyncSkipped(r) \/ SyncFails(r)
               \/ (\E v \in Verdicts : OperatorDecides(r, v)) \/ GateTimesOut(r)
        PROVE  PromiseInv'
    BY <2>9 DEF SlotArrives, SyncSkipped, SyncFails, OperatorDecides, GateTimesOut,
       rowVars, procVars, histVars
  <2>10. CASE SyncTick \/ UNCHANGED vars
    BY <2>10 DEF SyncTick, vars, rowVars, procVars, histVars
  <2>11. CASE Crash
    BY <2>11 DEF Crash, rowVars, histVars
  <2>12. QED
    BY <2>1, <2>2, <2>3, <2>4, <2>5, <2>6, <2>7, <2>8, <2>9, <2>10, <2>11
    DEF Next, PersonActs, AgentOSActs, PublisherSteps, SyncSteps
<1>3. QED
  BY <1>1, <1>2, TypeCorrect, PTL DEF Spec

-----------------------------------------------------------------------------

\* The initial states of the runs are initial states of the promise.
LEMMA InitPromise == Init => Promise!Init
<1> SUFFICES ASSUME Init PROVE Promise!Init
  OBVIOUS
<1>1. Claims = [r \in Runs |-> "open"]
  BY DEF Init, Claims, ClaimOf, Verdicts
<1>2. Sources = [r \in Runs |-> "nobody"]
  <2>1. SourceOf(Nobody) = "nobody"
    BY NamesDiffer DEF SourceOf
  <2>2. QED
    BY <2>1 DEF Init, Sources
<1>3. QED
  BY <1>1, <1>2 DEF Init, Promise!Init

\* A bridge step decides, claims what was decided, or changes nothing the
\* promise speaks of (approval.py, ApprovalBridge).
LEMMA BridgePromise ==
    ASSUME TypeOK, VerdictInv, ReleaseInv, PromiseInv, NEW p \in Procs, BridgeSteps(p)
    PROVE  [Promise!Next]_(Promise!vars)
<1>1. CASE LookupFound(p) \/ LookupMissing(p) \/ DecisionRefused(p)
  BY <1>1, Stutters DEF LookupFound, LookupMissing, DecisionRefused,
     rowVars, gateVars, histVars, postVars
<1>2. CASE DecisionTaken(p)
  <2> DEFINE r == job[p].run
             d == job[p].draft
  <2>1. /\ r \in Runs /\ d \in Drafts /\ job[p].verdict \in Verdicts
        /\ pc[p] = "deciding"
        /\ gate[r] = "waiting"
        /\ gate' = [gate EXCEPT ![r] = job[p].verdict]
        /\ decidedBy' = [decidedBy EXCEPT ![r] = job[p].actor]
        /\ UNCHANGED <<status, confirmed, cameDue, posted>>
    BY <1>2 DEF TypeOK, Jobs, DecisionTaken, rowVars, histVars, postVars
  <2>2. Promise!Decide(r, job[p].verdict, SourceOf(job[p].actor))
    BY <2>1, DecideStep
  <2>3. CASE job[p].verdict = "approved"
    <3>1. gateDraft' = [gateDraft EXCEPT ![r] = d]
      BY <1>2, <2>3 DEF DecisionTaken
    <3>2. \/ d \in confirmed[r] /\ SourceOf(job[p].actor) = "person"
          \/ r \in cameDue /\ SourceOf(job[p].actor) = "schedule"
      BY <2>1, <2>3, SourceNames DEF ReleaseInv
    <3>3. Promise!Release(r, d)
      BY <2>2, <2>3, <3>1, <3>2 DEF Promise!Release
    <3>4. QED
      BY <2>1, <3>3 DEF Promise!Next
  <2>4. CASE job[p].verdict = "rejected"
    <3>1. UNCHANGED gateDraft
      BY <1>2, <2>4 DEF DecisionTaken
    <3>2. SourceOf(job[p].actor) = "person"
      BY <2>1, <2>4, SourceNames DEF PromiseInv
    <3>3. Promise!Refuse(r)
      BY <2>2, <2>4, <3>1, <3>2 DEF Promise!Refuse
    <3>4. QED
      BY <2>1, <3>3 DEF Promise!Next
  <2>5. QED
    BY <2>1, <2>3, <2>4 DEF Verdicts
<1>3. CASE RecordDecision(p)
  <2>1. /\ job[p].run \in Runs /\ job[p].verdict \in Verdicts
        /\ gate[job[p].run] = job[p].verdict
        /\ status' = [status EXCEPT ![job[p].run] = job[p].verdict]
        /\ UNCHANGED <<gate, gateDraft, decidedBy, confirmed, cameDue, posted>>
    BY <1>3 DEF TypeOK, Jobs, VerdictInv, RecordDecision, DecidePendingApproval,
       gateVars, histVars, postVars
  <2>2. job[p].verdict \in Statuses
    BY <2>1 DEF Verdicts, Statuses
  <2>3. QED
    BY <2>1, <2>2, ClaimStep
<1>4. QED
  BY <1>1, <1>2, <1>3 DEF BridgeSteps

\* A tool opens the gate, posts what was approved, or reports how it went
\* (tools_router.py, notify-approval and publish-*).
LEMMA ToolPromise ==
    ASSUME TypeOK, VerdictInv, NEW t \in Tasks, ToolSteps(t) \/ PostRaises(t)
    PROVE  [Promise!Next]_(Promise!vars)
<1> DEFINE r == job[t].run
<1>1. r \in Runs /\ t \in Procs
  BY DEF TypeOK, ToolSteps, NotifyDelivered, NotifyUndelivered, Revised,
     PostAccepted, RecordPublished, PostRefused, PostRaises, Jobs, Procs
<1> HIDE DEF r
<1>2. CASE NotifyDelivered(t) \/ NotifyUndelivered(t)
  <2>1. /\ \/ UNCHANGED status
           \/ status' = [status EXCEPT ![r] = "delivery_failed"]
        /\ gate' = [gate EXCEPT ![r] = IF @ = "none" THEN "waiting" ELSE @]
        /\ UNCHANGED <<gateDraft, decidedBy, confirmed, cameDue, posted>>
    BY <1>2 DEF NotifyDelivered, NotifyUndelivered, UpdatePendingApprovalStatus,
       OpenGate, rowVars, histVars, postVars, r
  <2>2. CASE gate[r] = "none"
    <3>1. ClaimOf(status[r]) = "open"
      BY <1>1, <2>2 DEF TypeOK, VerdictInv, VerdictAgrees, ClaimOf, Verdicts
    <3>2. UNCHANGED Claims
      <4>1. CASE UNCHANGED status
        BY <4>1 DEF Claims
      <4>2. CASE status' = [status EXCEPT ![r] = "delivery_failed"]
        <5>1. Claims' = [Claims EXCEPT ![r] = ClaimOf("delivery_failed")]
          BY <1>1, <4>2, ClaimWritten
        <5>2. QED
          BY <1>1, <3>1, <5>1 DEF Claims, ClaimOf, Verdicts
      <4>3. QED
        BY <2>1, <4>1, <4>2
    <3>3. Promise!Ask(r)
      BY <1>1, <2>1, <2>2, <3>2 DEF TypeOK, Sources, Promise!Ask
    <3>4. QED
      BY <1>1, <3>3 DEF Promise!Next
  <2>3. CASE gate[r] # "none"
    <3>1. UNCHANGED gate
      BY <1>1, <2>1, <2>3 DEF TypeOK
    <3>2. CASE UNCHANGED status
      BY <2>1, <3>1, <3>2, Stutters
    <3>3. CASE status' = [status EXCEPT ![r] = "delivery_failed"]
      BY <1>1, <2>1, <3>1, <3>3, ClaimStep DEF Statuses
    <3>4. QED
      BY <2>1, <3>2, <3>3
  <2>4. QED
    BY <2>2, <2>3
<1>3. ASSUME NEW d \in Drafts, Revised(t, d) PROVE Promise!Next
  <2>1. /\ status' = [status EXCEPT ![r] = "pending"]
        /\ UNCHANGED <<gate, gateDraft, decidedBy, confirmed, cameDue, posted>>
    BY <1>3 DEF Revised, UpdatePendingApprovalDraft, gateVars, histVars, postVars, r
  <2>2. QED
    BY <1>1, <2>1, ClaimStep DEF Statuses
<1>4. CASE RecordPublished(t)
  <2>1. /\ r \in posted
        /\ status' = [status EXCEPT ![r] = "published"]
        /\ UNCHANGED <<gate, gateDraft, decidedBy, confirmed, cameDue, posted>>
    BY <1>1, <1>4 DEF VerdictInv, RecordPublished, DecidePendingApproval,
       gateVars, histVars, r
  <2>2. QED
    BY <1>1, <2>1, ClaimStep DEF Statuses
<1>5. CASE PostAccepted(t) \/ PostRefused(t) \/ PostRaises(t)
  <2>1. /\ gate[r] = "approved"
        /\ \/ UNCHANGED status
           \/ status' = [status EXCEPT ![r] = "delivery_failed"]
        /\ posted' \in {posted, posted \cup {r}}
        /\ UNCHANGED <<gate, gateDraft, decidedBy, confirmed, cameDue>>
    BY <1>1, <1>5 DEF VerdictInv, PostAccepted, PostRefused, PostRaises,
       DecidePendingApproval, rowVars, gateVars, histVars, r
  <2>2. CASE posted' = posted
    BY <1>1, <2>1, <2>2, ClaimStep, Stutters DEF Statuses
  <2>3. CASE posted' = posted \cup {r}
    <3>1. Claims' \in {Claims, [Claims EXCEPT ![r] = "open"]}
      <4>1. CASE UNCHANGED status
        BY <4>1 DEF Claims
      <4>2. CASE status' = [status EXCEPT ![r] = "delivery_failed"]
        <5>1. ClaimOf("delivery_failed") = "open"
          BY DEF ClaimOf, Verdicts
        <5>2. QED
          BY <1>1, <4>2, <5>1, ClaimWritten
      <4>3. QED
        BY <2>1, <4>1, <4>2
    <3>2. Promise!Post(r)
      BY <2>1, <2>3, <3>1 DEF Promise!Post, Sources
    <3>3. QED
      BY <1>1, <3>2 DEF Promise!Next
  <2>4. QED
    BY <2>1, <2>2, <2>3
<1>6. QED
  BY <1>2, <1>3, <1>4, <1>5 DEF ToolSteps

\* A tap or reply wants a content, confirms a time for one, or reopens the claim
\* (line/webhook.py, the postbacks of a run).
LEMMA PersonPromise ==
    ASSUME TypeOK, PersonActs
    PROVE  [Promise!Next]_(Promise!vars)
<1>1. ASSUME NEW a \in Actors, NEW r \in Runs,
             TapEdit(a, r) \/ TapSchedule(a, r) \/ ScheduleReply(a, r)
             \/ TapCancelSchedule(a, r)
      PROVE  Promise!Next
  <2>1. /\ \E new \in Statuses \ {"approved", "rejected", "published"} :
              status' = [status EXCEPT ![r] = new]
        /\ UNCHANGED <<gate, gateDraft, decidedBy, confirmed, cameDue, posted>>
    BY <1>1 DEF TapEdit, TapSchedule, ScheduleReply, TapCancelSchedule,
       DecidePendingApproval, UpdatePendingApprovalStatus, Statuses,
       gateVars, histVars, postVars
  <2>2. QED
    BY <2>1, ClaimStep
<1>2. ASSUME NEW a \in Actors, NEW r \in Runs, TapConfirmSchedule(a, r)
      PROVE  Promise!Next
  <2>1. /\ status' = [status EXCEPT ![r] = "scheduled"]
        /\ confirmed' = [confirmed EXCEPT ![r] = @ \cup {draft[r]}]
        /\ cameDue' \in {cameDue, cameDue \cup {r}}
        /\ UNCHANGED <<gate, gateDraft, decidedBy, posted>>
    BY <1>2 DEF TapConfirmSchedule, UpdatePendingApprovalStatus, gateVars, postVars
  <2>2. Claims' = [Claims EXCEPT ![r] = "open"]
    <3>1. ClaimOf("scheduled") = "open"
      BY DEF ClaimOf, Verdicts
    <3>2. QED
      BY <2>1, <3>1, ClaimWritten
  <2>3. Promise!Schedule(r, draft[r])
    BY <2>1, <2>2 DEF Promise!Schedule, Sources
  <2>4. QED
    BY <2>3 DEF TypeOK, Promise!Next
<1>3. ASSUME NEW t \in Tasks, NEW a \in Actors, NEW r \in Runs,
             EditReply(t, a, r)
             \/ (\E v \in Verdicts : TapDecide(t, a, r, v))
             \/ (\E d \in Drafts : CompleteEditAndApprove(t, a, r, d))
      PROVE  [Promise!Next]_(Promise!vars)
  <2>1. /\ UNCHANGED <<status, gate, gateDraft, decidedBy, cameDue, posted>>
        /\ \/ UNCHANGED confirmed
           \/ \E d \in Drafts : confirmed' = [confirmed EXCEPT ![r] = @ \cup {d}]
    BY <1>3 DEF TypeOK, EditReply, TapDecide, CompleteEditAndApprove,
       rowVars, gateVars, histVars, postVars
  <2>2. CASE UNCHANGED confirmed
    BY <2>1, <2>2, Stutters
  <2>3. ASSUME NEW d \in Drafts, confirmed' = [confirmed EXCEPT ![r] = @ \cup {d}]
        PROVE  Promise!Next
    <3>1. Promise!Approve(r, d)
      BY <2>1, <2>3 DEF Promise!Approve, Claims, Sources
    <3>2. QED
      BY <3>1 DEF Promise!Next
  <2>4. QED
    BY <2>1, <2>2, <2>3
<1>4. QED
  BY <1>1, <1>2, <1>3 DEF PersonActs

\* AgentOS asks, decides and times out as the promise has it (external).
LEMMA AgentOSPromise ==
    ASSUME TypeOK, AgentOSActs
    PROVE  [Promise!Next]_(Promise!vars)
<1>1. ASSUME NEW r \in Runs, NEW v \in Verdicts, OperatorDecides(r, v)
      PROVE  Promise!Next
  <2>1. Promise!Decide(r, v, "operator") /\ UNCHANGED gateDraft
    <3>1. /\ gate[r] = "waiting"
          /\ gate' = [gate EXCEPT ![r] = v]
          /\ decidedBy' = [decidedBy EXCEPT ![r] = Operator]
          /\ UNCHANGED <<status, gateDraft, confirmed, cameDue, posted>>
      BY <1>1 DEF OperatorDecides, rowVars, histVars, postVars
    <3>2. QED
      BY <3>1, DecideStep, SourceNames
  <2>2. CASE v = "approved"
    <3>1. gateDraft' = [gateDraft EXCEPT ![r] = gateDraft[r]]
      BY <2>1 DEF TypeOK
    <3>2. Promise!Release(r, gateDraft[r])
      BY <2>1, <2>2, <3>1 DEF Promise!Release
    <3>3. QED
      BY <3>2 DEF TypeOK, Promise!Next
  <2>3. CASE v = "rejected"
    <3>1. Promise!Refuse(r)
      BY <2>1, <2>3 DEF Promise!Refuse
    <3>2. QED
      BY <3>1 DEF Promise!Next
  <2>4. QED
    BY <2>2, <2>3 DEF Verdicts
<1>2. ASSUME NEW r \in Runs, GateTimesOut(r) PROVE Promise!Next
  <2>1. /\ gate[r] = "waiting"
        /\ gate' = [gate EXCEPT ![r] = "timed_out"]
        /\ UNCHANGED <<status, gateDraft, decidedBy, confirmed, cameDue, posted>>
    BY <1>2 DEF GateTimesOut, rowVars, histVars, postVars
  <2>2. Sources' = [Sources EXCEPT ![r] = Sources[r]] /\ UNCHANGED Claims
    BY <2>1 DEF Sources, Claims
  <2>3. Promise!Expire(r)
    BY <2>1, <2>2 DEF Promise!Expire, Promise!Decide
  <2>4. QED
    BY <2>3 DEF Promise!Next
<1>3. ASSUME NEW r \in Runs, NEW t \in Tasks, NotifyApproval(t, r) PROVE Promise!Next
  <2>1. /\ status' = [status EXCEPT ![r] = "pending"]
        /\ UNCHANGED <<gate, gateDraft, decidedBy, confirmed, cameDue, posted>>
    BY <1>3 DEF NotifyApproval, SavePendingApproval, gateVars, histVars, postVars
  <2>2. QED
    BY <2>1, ClaimStep DEF Statuses
<1>4. ASSUME NEW r \in Runs, NEW t \in Tasks, CallPublish(t, r)
      PROVE  UNCHANGED Promise!vars
  BY <1>4, Stutters DEF CallPublish, rowVars, gateVars, histVars, postVars
<1>5. QED
  BY <1>1, <1>2, <1>3, <1>4 DEF AgentOSActs

\* The two pollers and the clock: verdicts are copied, a confirmed time comes
\* (approval.py, PendingApprovalSyncService and ScheduledApprovalService).
LEMMA PollPromise ==
    ASSUME TypeOK, PromiseInv, NEW r \in Runs,
           PublisherTick(r) \/ PublisherNext(r) \/ SyncDecided(r) \/ SyncSkipped(r)
           \/ SyncFails(r) \/ SlotArrives(r)
    PROVE  [Promise!Next]_(Promise!vars)
<1>1. CASE PublisherTick(r) \/ PublisherNext(r) \/ SyncSkipped(r) \/ SyncFails(r)
  BY <1>1, Stutters DEF PublisherTick, PublisherNext, SyncSkipped, SyncFails,
     rowVars, gateVars, histVars, postVars
<1>2. CASE SyncDecided(r)
  <2>1. /\ gate[r] \in Verdicts
        /\ status' = [status EXCEPT ![r] = gate[r]]
        /\ UNCHANGED <<gate, gateDraft, decidedBy, confirmed, cameDue, posted>>
    BY <1>2 DEF SyncDecided, DecidePendingApproval, gateVars, histVars, postVars
  <2>2. gate[r] \in Statuses
    BY <2>1 DEF Verdicts, Statuses
  <2>3. QED
    BY <2>1, <2>2, ClaimStep
<1>3. CASE SlotArrives(r)
  <2>1. /\ cameDue' = IF status[r] = "scheduled" THEN cameDue \cup {r} ELSE cameDue
        /\ UNCHANGED <<status, gate, gateDraft, decidedBy, confirmed, posted>>
    BY <1>3 DEF SlotArrives, gateVars, postVars
  <2>2. CASE status[r] = "scheduled"
    <3>1. Promise!TimeComes(r)
      BY <2>1, <2>2 DEF PromiseInv, Promise!TimeComes, Claims, Sources
    <3>2. QED
      BY <3>1 DEF Promise!Next
  <2>3. CASE status[r] # "scheduled"
    BY <2>1, <2>3, Stutters
  <2>4. QED
    BY <2>2, <2>3
<1>4. QED
  BY <1>1, <1>2, <1>3

-----------------------------------------------------------------------------

\* Whatever is interleaved, lost, retried or restarted, the approval of runs is
\* a behaviour of ApprovalPromise (approval.py, tools_router.py, webhook.py).
THEOREM PromiseKept == Spec => ImplementsPromise
<1>1. TypeOK /\ VerdictInv /\ ReleaseInv /\ PromiseInv /\ [Next]_vars
          => [Promise!Next]_(Promise!vars)
  <2> SUFFICES ASSUME TypeOK, VerdictInv, ReleaseInv, PromiseInv, [Next]_vars
               PROVE  [Promise!Next]_(Promise!vars)
    OBVIOUS
  <2>1. ASSUME NEW p \in Procs, CallFails(p) PROVE UNCHANGED Promise!vars
    BY <2>1, Stutters DEF CallFails, rowVars, gateVars, histVars, postVars
  <2>2. CASE SyncTick \/ Crash \/ UNCHANGED vars
    BY <2>2, Stutters DEF SyncTick, Crash, vars, rowVars, gateVars, histVars, postVars
  <2>3. QED
    BY <2>1, <2>2, PersonPromise, AgentOSPromise, BridgePromise, ToolPromise, PollPromise
    DEF Next, PublisherSteps, SyncSteps
<1>2. QED
  BY <1>1, InitPromise, TypeCorrect, VerdictInvHolds, ReleaseInvHolds, PromiseInvHolds, PTL
  DEF Spec, ImplementsPromise, Promise!Spec
=============================================================================
