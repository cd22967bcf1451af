-------------------------- MODULE ApprovalsProofs --------------------------
(***************************************************************************)
(* Proofs about Approvals, for any set of runs, people, drafts and request *)
(* slots and any bounds.                                                   *)
(***************************************************************************)
EXTENDS Approvals, FiniteSetTheorems, TLAPS

\* Reordering updated_at keeps it a natural number (repository.py, updated_at).
LEMMA TouchType ==
    ASSUME NEW r \in Runs, touched \in [Runs -> Nat], Touch(r)
    PROVE  touched' \in [Runs -> Nat]
<1>1. Cardinality(Runs) \in Nat
  BY RunsFinite, FS_CardinalityType
<1>2. \A s \in Runs : touched[s] > touched[r] => touched[s] - 1 \in Nat
  OBVIOUS
<1>3. QED
  BY <1>1, <1>2 DEF Touch

\* Every value the model keeps stays in its set.
THEOREM TypeCorrect == Spec => []TypeOK
<1>1. Init => TypeOK
  BY DEF Init, TypeOK, Statuses, People, Procs
<1>2. TypeOK /\ [Next]_vars => TypeOK'
  <2> SUFFICES ASSUME TypeOK, [Next]_vars PROVE TypeOK'
    OBVIOUS
  <2> USE DEF Statuses, People, Procs, Jobs, Verdicts, NoCount, Tap
  <2>1. ASSUME NEW a \in Actors, NEW r \in Runs,
               TapEdit(a, r) \/ TapSchedule(a, r) \/ ScheduleReply(a, r)
               \/ TapConfirmSchedule(a, r) \/ TapCancelSchedule(a, r)
        PROVE  TypeOK'
    <3>1. touched' \in [Runs -> Nat]
      BY <2>1, TouchType DEF TypeOK, TapEdit, TapSchedule, ScheduleReply, TapConfirmSchedule,
         TapCancelSchedule, DecidePendingApproval, UpdatePendingApprovalStatus
    <3>2. CASE TapEdit(a, r)
      BY <3>1, <3>2 DEF TypeOK, TapEdit, DecidePendingApproval,
         gateVars, procVars, pubVars, histVars, postVars
    <3>3. CASE TapSchedule(a, r)
      BY <3>1, <3>3 DEF TypeOK, TapSchedule, UpdatePendingApprovalStatus,
         gateVars, procVars, pubVars, histVars, postVars
    <3>4. CASE ScheduleReply(a, r)
      BY <3>1, <3>4 DEF TypeOK, ScheduleReply, UpdatePendingApprovalStatus,
         gateVars, procVars, pubVars, histVars, postVars
    <3>5. CASE TapConfirmSchedule(a, r)
      BY <3>1, <3>5 DEF TypeOK, TapConfirmSchedule, UpdatePendingApprovalStatus,
         gateVars, procVars, pubVars, postVars
    <3>6. CASE TapCancelSchedule(a, r)
      BY <3>1, <3>6 DEF TypeOK, TapCancelSchedule, UpdatePendingApprovalStatus,
         gateVars, procVars, pubVars, histVars, postVars
    <3>7. QED
      BY <2>1, <3>2, <3>3, <3>4, <3>5, <3>6
  <2>2. ASSUME NEW t \in Tasks, NEW a \in Actors, NEW r \in Runs,
               EditReply(t, a, r)
               \/ (\E v \in Verdicts : TapDecide(t, a, r, v))
               \/ (\E d \in Drafts : CompleteEditAndApprove(t, a, r, d))
        PROVE  TypeOK'
    <3>1. CASE EditReply(t, a, r)
      BY <3>1 DEF TypeOK, EditReply, Begin,
         rowVars, gateVars, pubVars, histVars, postVars
    <3>2. ASSUME NEW v \in Verdicts, TapDecide(t, a, r, v) PROVE TypeOK'
      BY <3>2 DEF TypeOK, TapDecide, Begin, rowVars, gateVars, pubVars, postVars
    <3>3. ASSUME NEW d \in Drafts, CompleteEditAndApprove(t, a, r, d) PROVE TypeOK'
      BY <3>3 DEF TypeOK, CompleteEditAndApprove, Begin,
         rowVars, gateVars, pubVars, postVars
    <3>4. QED
      BY <2>2, <3>1, <3>2, <3>3
  <2>3. ASSUME NEW r \in Runs, NEW t \in Tasks, NotifyApproval(t, r)
        PROVE  TypeOK'
    <3>1. touched' \in [Runs -> Nat]
      BY <2>3, TouchType DEF TypeOK, NotifyApproval, SavePendingApproval
    <3>2. /\ status' \in [Runs -> Statuses]
          /\ draft' \in [Runs -> Drafts]
          /\ notified' \in [Runs -> Nat]
          /\ UNCHANGED <<actor, slot>>
      BY <2>3 DEF TypeOK, NotifyApproval, SavePendingApproval
    <3>3. /\ pc' = [pc EXCEPT ![t] = "pushing"]
          /\ \E j \in Jobs : job' = [job EXCEPT ![t] = j]
      BY <2>3 DEF TypeOK, NotifyApproval, Begin
    <3>4. QED
      BY <2>3, <3>1, <3>2, <3>3 DEF TypeOK, NotifyApproval,
         gateVars, pubVars, histVars, postVars
  <2>4. ASSUME NEW r \in Runs, NEW t \in Tasks, CallPublish(t, r)
        PROVE  TypeOK'
    BY <2>4 DEF TypeOK, CallPublish, Begin, rowVars, gateVars, pubVars, histVars, postVars
  <2>5. ASSUME NEW r \in Runs,
               (\E v \in Verdicts : OperatorDecides(r, v)) \/ GateTimesOut(r)
        PROVE  TypeOK'
    BY <2>5 DEF TypeOK, OperatorDecides, GateTimesOut,
       rowVars, procVars, pubVars, histVars, postVars
  <2>6. ASSUME NEW p \in Procs, BridgeSteps(p) PROVE TypeOK'
    <3>1. CASE LookupFound(p)
      BY <3>1 DEF TypeOK, LookupFound, GoTo, rowVars, gateVars, pubVars, histVars, postVars
    <3>2. CASE LookupMissing(p)
      BY <3>2 DEF TypeOK, LookupMissing, Finish,
         rowVars, gateVars, pubVars, histVars, postVars
    <3>3. CASE DecisionTaken(p)
      <4>1. job[p] \in Jobs
        BY <3>3 DEF TypeOK, DecisionTaken
      <4>2. QED
        BY <3>3, <4>1 DEF TypeOK, DecisionTaken, GoTo, rowVars, pubVars, histVars, postVars
    <3>4. CASE DecisionRefused(p)
      BY <3>4 DEF TypeOK, DecisionRefused, Abort, Finish,
         rowVars, gateVars, histVars, postVars
    <3>5. CASE RecordDecision(p)
      <4>1. job[p] \in Jobs
        BY <3>5 DEF TypeOK, RecordDecision
      <4>2. touched' \in [Runs -> Nat]
        BY <3>5, <4>1, TouchType DEF TypeOK, RecordDecision, DecidePendingApproval
      <4>3. QED
        BY <3>5, <4>1, <4>2 DEF TypeOK, RecordDecision, DecidePendingApproval, Finish,
           gateVars, pubVars, histVars, postVars
    <3>6. QED
      BY <2>6, <3>1, <3>2, <3>3, <3>4, <3>5 DEF BridgeSteps
  <2>7. ASSUME NEW p \in Procs, CallFails(p) PROVE TypeOK'
    BY <2>7 DEF TypeOK, CallFails, Abort, Finish, rowVars, gateVars, histVars, postVars
  <2>8. ASSUME NEW t \in Tasks, ToolSteps(t) PROVE TypeOK'
    <3>1. job[t] \in Jobs /\ job[t].run \in Runs
      BY <2>8 DEF TypeOK, ToolSteps, NotifyDelivered, NotifyUndelivered, Revised,
         PostAccepted, RecordPublished, PostRefused
    <3>2. CASE NotifyDelivered(t)
      BY <3>1, <3>2 DEF TypeOK, NotifyDelivered, OpenGate, Finish,
         rowVars, pubVars, histVars, postVars
    <3>3. CASE NotifyUndelivered(t)
      <4>1. touched' \in [Runs -> Nat]
        BY <3>1, <3>3, TouchType DEF TypeOK, NotifyUndelivered, UpdatePendingApprovalStatus
      <4>2. QED
        BY <3>1, <3>3, <4>1 DEF TypeOK, NotifyUndelivered, UpdatePendingApprovalStatus,
           OpenGate, Finish, pubVars, histVars, postVars
    <3>4. ASSUME NEW d \in Drafts, Revised(t, d) PROVE TypeOK'
      <4>1. touched' \in [Runs -> Nat]
        BY <3>1, <3>4, TouchType DEF TypeOK, Revised, UpdatePendingApprovalDraft
      <4>2. QED
        BY <3>1, <3>4, <4>1 DEF TypeOK, Revised, UpdatePendingApprovalDraft, Finish,
           gateVars, pubVars, histVars, postVars
    <3>5. CASE PostAccepted(t)
      BY <3>1, <3>5 DEF TypeOK, PostAccepted, GoTo, rowVars, gateVars, pubVars, histVars
    <3>6. CASE RecordPublished(t)
      <4>1. touched' \in [Runs -> Nat]
        BY <3>1, <3>6, TouchType DEF TypeOK, RecordPublished, DecidePendingApproval
      <4>2. QED
        BY <3>1, <3>6, <4>1 DEF TypeOK, RecordPublished, DecidePendingApproval, Finish,
           gateVars, pubVars, histVars
    <3>7. CASE PostRefused(t)
      <4>1. touched' \in [Runs -> Nat]
        BY <3>1, <3>7, TouchType DEF TypeOK, PostRefused, DecidePendingApproval
      <4>2. QED
        BY <3>1, <3>7, <4>1 DEF TypeOK, PostRefused, DecidePendingApproval, Finish,
           gateVars, pubVars, histVars
    <3>8. QED
      BY <2>8, <3>2, <3>3, <3>4, <3>5, <3>6, <3>7 DEF ToolSteps
  <2>9. ASSUME NEW r \in Runs, PublisherTick(r) \/ PublisherNext(r) PROVE TypeOK'
    BY <2>9 DEF TypeOK, PublisherTick, PublisherNext, PublisherJob, DueScheduled, Begin,
       rowVars, gateVars, histVars, postVars
  <2>10. ASSUME SyncTick PROVE TypeOK'
    BY <2>10 DEF TypeOK, SyncTick, OpenForSync,
       rowVars, gateVars, procVars, pubVars, histVars, postVars
  <2>11. ASSUME NEW r \in Runs, SyncDecided(r) PROVE TypeOK'
    <3>1. touched' \in [Runs -> Nat]
      BY <2>11, TouchType DEF TypeOK, SyncDecided, DecidePendingApproval
    <3>2. QED
      BY <2>11, <3>1 DEF TypeOK, SyncDecided, DecidePendingApproval,
         gateVars, procVars, pubVars, histVars, postVars
  <2>12. ASSUME NEW r \in Runs, SyncSkipped(r) \/ SyncFails(r) PROVE TypeOK'
    BY <2>12 DEF TypeOK, SyncSkipped, SyncFails,
       rowVars, gateVars, procVars, pubVars, histVars, postVars
  <2>13. ASSUME NEW r \in Runs, SlotArrives(r) PROVE TypeOK'
    BY <2>13 DEF TypeOK, SlotArrives, gateVars, procVars, pubVars, postVars
  <2>14. CASE Crash
    BY <2>14 DEF TypeOK, Crash, rowVars, gateVars, histVars, postVars
  <2>15. ASSUME NEW t \in Tasks, PostRaises(t) PROVE TypeOK'
    BY <2>15 DEF TypeOK, PostRaises, Finish, rowVars, gateVars, pubVars, histVars
  <2>16. CASE UNCHANGED vars
    BY <2>16 DEF TypeOK, vars, rowVars, gateVars, procVars, pubVars, histVars, postVars
  <2>17. QED
    BY <2>1, <2>2, <2>3, <2>4, <2>5, <2>6, <2>7, <2>8, <2>9, <2>10, <2>11, <2>12,
       <2>13, <2>14, <2>15, <2>16
    DEF Next, PersonActs, AgentOSActs, PublisherSteps, SyncSteps
<1>3. QED
  BY <1>1, <1>2, PTL DEF Spec

-----------------------------------------------------------------------------

\* What a bridge step may do to the gate, used by both invariants below.
LEMMA GateStep ==
    ASSUME TypeOK, NEW p \in Procs, DecisionTaken(p)
    PROVE  /\ job[p] \in Jobs /\ job[p].run \in Runs
           /\ gate[job[p].run] = "waiting"
           /\ gate' = [gate EXCEPT ![job[p].run] = job[p].verdict]
BY DEF TypeOK, DecisionTaken, Jobs

\* A coroutine that has AgentOS's answer knows the verdict, and only approved
\* runs are in the hands of a publish tool (approval.py, tools_router.py).
LEMMA VerdictInvHolds == Spec => []VerdictInv
<1>1. Init => VerdictInv
  BY DEF Init, VerdictInv, VerdictAgrees
<1>2. TypeOK /\ VerdictInv /\ [Next]_vars => VerdictInv'
  <2> SUFFICES ASSUME TypeOK, VerdictInv, [Next]_vars PROVE VerdictInv'
    OBVIOUS
  <2> USE DEF VerdictInv, VerdictAgrees
  <2>1. ASSUME NEW a \in Actors, NEW r \in Runs,
               TapEdit(a, r) \/ TapSchedule(a, r) \/ ScheduleReply(a, r)
               \/ TapConfirmSchedule(a, r) \/ TapCancelSchedule(a, r)
        PROVE  VerdictInv'
    <3>1. \E new \in Statuses \ {"approved", "rejected", "published"} :
              status' = [status EXCEPT ![r] = new]
      BY <2>1 DEF TapEdit, TapSchedule, ScheduleReply, TapConfirmSchedule, TapCancelSchedule,
         DecidePendingApproval, UpdatePendingApprovalStatus, Statuses
    <3>2. UNCHANGED <<gate, pc, job, posted>>
      BY <2>1 DEF TapEdit, TapSchedule, ScheduleReply, TapConfirmSchedule,
         TapCancelSchedule, gateVars, procVars, postVars
    <3>3. QED
      BY <3>1, <3>2 DEF TypeOK
  <2>2. ASSUME NEW t \in Tasks, NEW a \in Actors, NEW r \in Runs,
               EditReply(t, a, r)
               \/ (\E v \in Verdicts : TapDecide(t, a, r, v))
               \/ (\E d \in Drafts : CompleteEditAndApprove(t, a, r, d))
        PROVE  VerdictInv'
    <3>1. \E where \in {"revising", "lookup"} : \E j : Begin(t, where, j)
      BY <2>2 DEF EditReply, TapDecide, CompleteEditAndApprove
    <3>2. UNCHANGED <<status, gate, posted>>
      BY <2>2 DEF EditReply, TapDecide, CompleteEditAndApprove,
         rowVars, gateVars, postVars
    <3>3. QED
      BY <3>1, <3>2 DEF TypeOK, Begin, Procs
  <2>3. ASSUME NEW r \in Runs, NEW t \in Tasks, NotifyApproval(t, r)
        PROVE  VerdictInv'
    <3>1. /\ status' = [status EXCEPT ![r] = "pending"]
          /\ pc' = [pc EXCEPT ![t] = "pushing"]
          /\ \E j : job' = [job EXCEPT ![t] = j]
          /\ UNCHANGED <<gate, posted>>
      BY <2>3 DEF NotifyApproval, SavePendingApproval, Begin, gateVars, postVars
    <3>2. QED
      BY <3>1 DEF TypeOK, Procs
  <2>4. ASSUME NEW r \in Runs, NEW t \in Tasks, CallPublish(t, r)
        PROVE  VerdictInv'
    <3>1. /\ gate[r] = "approved"
          /\ pc' = [pc EXCEPT ![t] = "posting"]
          /\ \E j : j.run = r /\ job' = [job EXCEPT ![t] = j]
          /\ UNCHANGED <<status, gate, posted>>
      BY <2>4 DEF CallPublish, Begin, rowVars, gateVars, postVars
    <3>2. QED
      BY <3>1 DEF TypeOK, Procs
  <2>5. ASSUME NEW r \in Runs,
               (\E v \in Verdicts : OperatorDecides(r, v)) \/ GateTimesOut(r)
        PROVE  VerdictInv'
    <3>1. gate[r] = "waiting" /\ \E new : gate' = [gate EXCEPT ![r] = new]
      BY <2>5 DEF OperatorDecides, GateTimesOut
    <3>2. UNCHANGED <<status, pc, job, posted>>
      BY <2>5 DEF OperatorDecides, GateTimesOut, rowVars, procVars, postVars
    <3>3. QED
      BY <3>1, <3>2 DEF TypeOK, Jobs, Verdicts
  <2>6. ASSUME NEW p \in Procs, BridgeSteps(p) PROVE VerdictInv'
    <3>1. CASE LookupFound(p) \/ LookupMissing(p) \/ DecisionRefused(p)
      <4>1. /\ \E where \in {"idle", "deciding"} : pc' = [pc EXCEPT ![p] = where]
            /\ \E j : job' = [job EXCEPT ![p] = j]
        BY <3>1 DEF TypeOK, LookupFound, LookupMissing, DecisionRefused, Abort, GoTo, Finish
      <4>2. UNCHANGED <<status, gate, posted>>
        BY <3>1 DEF LookupFound, LookupMissing, DecisionRefused,
           rowVars, gateVars, postVars
      <4>3. QED
        BY <4>1, <4>2 DEF TypeOK
    <3>2. CASE DecisionTaken(p)
      <4>1. /\ pc[p] = "deciding" /\ pc' = [pc EXCEPT ![p] = "answered"]
            /\ UNCHANGED <<status, job, posted>>
        BY <3>2 DEF DecisionTaken, GoTo, rowVars, postVars
      <4>2. QED
        BY <3>2, <4>1, GateStep DEF TypeOK, Jobs, Verdicts
    <3>3. CASE RecordDecision(p)
      <4>1. /\ job[p] \in Jobs
            /\ gate[job[p].run] = job[p].verdict
            /\ status' = [status EXCEPT ![job[p].run] = job[p].verdict]
            /\ pc' = [pc EXCEPT ![p] = "idle"]
            /\ job' = [job EXCEPT ![p] = NoJob]
            /\ UNCHANGED <<gate, posted>>
        BY <3>3 DEF TypeOK, RecordDecision, DecidePendingApproval, Finish,
           gateVars, postVars
      <4>2. QED
        BY <4>1 DEF TypeOK, Jobs, Verdicts
    <3>4. QED
      BY <2>6, <3>1, <3>2, <3>3 DEF BridgeSteps
  <2>7. ASSUME NEW p \in Procs, CallFails(p) PROVE VerdictInv'
    BY <2>7 DEF TypeOK, CallFails, Abort, Finish, rowVars, gateVars, postVars
  <2>8. ASSUME NEW t \in Tasks, ToolSteps(t) PROVE VerdictInv'
    <3>1. job[t] \in Jobs /\ job[t].run \in Runs /\ t \in Procs
      BY <2>8 DEF TypeOK, ToolSteps, NotifyDelivered, NotifyUndelivered, Revised,
         PostAccepted, RecordPublished, PostRefused, Jobs, Procs
    <3>2. CASE NotifyDelivered(t) \/ NotifyUndelivered(t)
      <4>1. /\ status' = status
               \/ status' = [status EXCEPT ![job[t].run] = "delivery_failed"]
            /\ gate' = [gate EXCEPT ![job[t].run] = IF @ = "none" THEN "waiting" ELSE @]
            /\ pc' = [pc EXCEPT ![t] = "idle"]
            /\ job' = [job EXCEPT ![t] = NoJob]
            /\ UNCHANGED posted
        BY <3>2 DEF NotifyDelivered, NotifyUndelivered, UpdatePendingApprovalStatus,
           OpenGate, Finish, rowVars, postVars
      <4>2. QED
        BY <3>1, <4>1 DEF TypeOK, Jobs, Verdicts
    <3>3. ASSUME NEW d \in Drafts, Revised(t, d) PROVE VerdictInv'
      BY <3>1, <3>3 DEF TypeOK, Revised, UpdatePendingApprovalDraft, Finish,
         gateVars, postVars
    <3>4. CASE PostAccepted(t)
      BY <3>1, <3>4 DEF TypeOK, PostAccepted, GoTo, rowVars, gateVars
    <3>5. CASE RecordPublished(t)
      BY <3>1, <3>5 DEF TypeOK, RecordPublished, DecidePendingApproval, Finish, gateVars
    <3>6. CASE PostRefused(t)
      BY <3>1, <3>6 DEF TypeOK, PostRefused, DecidePendingApproval, Finish, gateVars
    <3>7. QED
      BY <2>8, <3>2, <3>3, <3>4, <3>5, <3>6 DEF ToolSteps
  <2>9. ASSUME NEW r \in Runs, PublisherTick(r) \/ PublisherNext(r) PROVE VerdictInv'
    BY <2>9 DEF TypeOK, PublisherTick, PublisherNext, Begin, Procs,
       rowVars, gateVars, postVars
  <2>10. ASSUME NEW r \in Runs, SyncDecided(r) PROVE VerdictInv'
    BY <2>10 DEF TypeOK, SyncDecided, DecidePendingApproval, Verdicts,
       gateVars, procVars, postVars
  <2>11. ASSUME NEW r \in Runs,
                SyncSkipped(r) \/ SyncFails(r) \/ SlotArrives(r)
         PROVE  VerdictInv'
    BY <2>11 DEF SyncSkipped, SyncFails, SlotArrives,
       rowVars, gateVars, procVars, postVars
  <2>12. CASE SyncTick
    BY <2>12 DEF SyncTick, rowVars, gateVars, procVars, postVars
  <2>13. CASE Crash
    BY <2>13 DEF Crash, rowVars, gateVars, postVars
  <2>14. ASSUME NEW t \in Tasks, PostRaises(t) PROVE VerdictInv'
    BY <2>14 DEF TypeOK, PostRaises, Finish, Procs, Jobs, rowVars, gateVars
  <2>15. CASE UNCHANGED vars
    BY <2>15 DEF vars, rowVars, gateVars, procVars, postVars
  <2>16. QED
    BY <2>1, <2>2, <2>3, <2>4, <2>5, <2>6, <2>7, <2>8, <2>9, <2>10, <2>11, <2>12,
       <2>13, <2>14, <2>15
    DEF Next, PersonActs, AgentOSActs, PublisherSteps, SyncSteps
<1>3. QED
  BY <1>1, <1>2, TypeCorrect, PTL DEF Spec

\* Whoever raced whom, a row that says approved or rejected says what AgentOS's
\* gate says, and nothing reaches a provider before approval.
THEOREM VerdictsAgree == Spec => []VerdictAgrees
<1>1. VerdictInv => VerdictAgrees
  BY DEF VerdictInv
<1>2. QED
  BY <1>1, VerdictInvHolds, PTL

-----------------------------------------------------------------------------

\* The value of confirmed[r] only grows, and cameDue only grows.
EvidenceGrows ==
    /\ \A r \in Runs : confirmed[r] \subseteq confirmed'[r]
    /\ cameDue \subseteq cameDue'

\* Evidence once given is not lost: a step that touches no gate, no listing and
\* no coroutine's job keeps every release authorised.
LEMMA SameReleases ==
    ASSUME TypeOK, ReleaseInv, EvidenceGrows,
           UNCHANGED <<gate, gateDraft, decidedBy>>,
           \A p \in Procs : pc'[p] \in {"lookup", "deciding"} =>
               pc[p] \in {"lookup", "deciding"} /\ job'[p] = job[p],
           DueScheduled' \cup batch' \subseteq cameDue'
    PROVE  ReleaseInv'
<1>1. ReleaseIsAuthorised'
  BY DEF ReleaseInv, ReleaseIsAuthorised, EvidenceGrows
<1>2. ASSUME NEW p \in Procs, pc'[p] \in {"lookup", "deciding"}, job'[p].verdict = "approved"
      PROVE  \/ job'[p].actor \in Actors /\ job'[p].draft \in confirmed'[job'[p].run]
             \/ job'[p].actor = Publisher /\ job'[p].run \in cameDue'
  <2>1. pc[p] \in {"lookup", "deciding"} /\ job'[p] = job[p]
    BY <1>2
  <2>2. job[p].run \in Runs
    BY <2>1 DEF TypeOK, Jobs
  <2>3. QED
    BY <1>2, <2>1, <2>2 DEF ReleaseInv, EvidenceGrows
<1>3. QED
  BY <1>1, <1>2 DEF ReleaseInv

\* Every approval under way is backed by a person or by a slot that came, and so
\* is every row the publisher may take up (approval.py, scheduled publisher).
LEMMA ReleaseInvHolds == Spec => []ReleaseInv
<1>1. Init => ReleaseInv
  BY DEF Init, ReleaseInv, ReleaseIsAuthorised, DueScheduled
<1>2. TypeOK /\ ReleaseInv /\ [Next]_vars => ReleaseInv'
  <2> SUFFICES ASSUME TypeOK, ReleaseInv, [Next]_vars PROVE ReleaseInv'
    OBVIOUS
  <2> DEFINE Quiet == UNCHANGED <<gate, gateDraft, decidedBy, pc, job, batch>>
  <2>1. ASSUME NEW a \in Actors, NEW r \in Runs,
               TapEdit(a, r) \/ TapSchedule(a, r) \/ ScheduleReply(a, r)
               \/ TapConfirmSchedule(a, r) \/ TapCancelSchedule(a, r)
        PROVE  ReleaseInv'
    <3>1. Quiet
      BY <2>1 DEF TapEdit, TapSchedule, ScheduleReply, TapConfirmSchedule,
         TapCancelSchedule, gateVars, procVars, pubVars
    <3>2. EvidenceGrows
      BY <2>1 DEF TypeOK, TapEdit, TapSchedule, ScheduleReply, TapConfirmSchedule,
         TapCancelSchedule, histVars, EvidenceGrows
    <3>3. DueScheduled' \subseteq cameDue'
      <4>1. CASE TapConfirmSchedule(a, r)
        BY <4>1 DEF TypeOK, TapConfirmSchedule, UpdatePendingApprovalStatus,
           DueScheduled, ReleaseInv
      <4>2. CASE ~TapConfirmSchedule(a, r)
        <5>1. /\ \E new \in Statuses \ {"scheduled"} : status' = [status EXCEPT ![r] = new]
              /\ \E when : slot' = [slot EXCEPT ![r] = when]
              /\ UNCHANGED cameDue
          BY <2>1, <4>2 DEF TapEdit, TapSchedule, ScheduleReply, TapCancelSchedule,
             DecidePendingApproval, UpdatePendingApprovalStatus, Statuses, histVars
        <5>2. QED
          BY <5>1 DEF TypeOK, DueScheduled, ReleaseInv
      <4>3. QED
        BY <4>1, <4>2
    <3>4. QED
      BY <3>1, <3>2, <3>3, SameReleases DEF ReleaseInv, EvidenceGrows
  <2>2. ASSUME NEW t \in Tasks, NEW a \in Actors, NEW r \in Runs, EditReply(t, a, r)
        PROVE  ReleaseInv'
    <3>1. pc' = [pc EXCEPT ![t] = "revising"] /\ \E j : job' = [job EXCEPT ![t] = j]
      BY <2>2 DEF EditReply, Begin
    <3>2. UNCHANGED <<rowVars, gateVars, pubVars, histVars>>
      BY <2>2 DEF EditReply
    <3>3. QED
      BY <3>1, <3>2, SameReleases DEF TypeOK, Procs, ReleaseInv, EvidenceGrows,
         DueScheduled, rowVars, gateVars, pubVars, histVars
  <2>3. ASSUME NEW t \in Tasks, NEW a \in Actors, NEW r \in Runs,
               (\E v \in Verdicts : TapDecide(t, a, r, v))
               \/ (\E d \in Drafts : CompleteEditAndApprove(t, a, r, d))
        PROVE  ReleaseInv'
    <3>1. \E j \in Jobs :
             /\ j.actor \in Actors
             /\ j.verdict = "approved" => j.draft \in confirmed'[j.run]
             /\ job' = [job EXCEPT ![t] = j]
             /\ pc' = [pc EXCEPT ![t] = "lookup"]
      <4> DEFINE Approves(j) ==
              /\ j \in Jobs
              /\ j.actor \in Actors
              /\ j.verdict = "approved" => j.draft \in confirmed'[j.run]
              /\ job' = [job EXCEPT ![t] = j]
              /\ pc' = [pc EXCEPT ![t] = "lookup"]
      <4>1. ASSUME NEW v \in Verdicts, TapDecide(t, a, r, v)
            PROVE  Approves([run |-> r, draft |-> draft[r], verdict |-> v, actor |-> a])
        BY <4>1 DEF TypeOK, TapDecide, Begin, Jobs, People
      <4>2. ASSUME NEW d \in Drafts, CompleteEditAndApprove(t, a, r, d)
            PROVE  Approves([run |-> r, draft |-> d, verdict |-> "approved", actor |-> a])
        BY <4>2 DEF TypeOK, CompleteEditAndApprove, Begin, Jobs, People, Verdicts
      <4> HIDE DEF Approves
      <4>3. \E j : Approves(j)
        BY <2>3, <4>1, <4>2
      <4>4. QED
        BY <4>3 DEF Approves
    <3>2. UNCHANGED <<rowVars, gateVars, pubVars, cameDue>> /\ EvidenceGrows
      <4>1. UNCHANGED <<rowVars, gateVars, pubVars, cameDue>>
        BY <2>3 DEF TapDecide, CompleteEditAndApprove
      <4>2. UNCHANGED confirmed
            \/ \E d : confirmed' = [confirmed EXCEPT ![r] = @ \cup {d}]
        BY <2>3 DEF TapDecide, CompleteEditAndApprove
      <4>3. QED
        BY <4>1, <4>2 DEF TypeOK, EvidenceGrows
    <3>3. ReleaseIsAuthorised' /\ DueScheduled' \cup batch' \subseteq cameDue'
      BY <3>2 DEF ReleaseInv, ReleaseIsAuthorised, EvidenceGrows, DueScheduled,
         rowVars, gateVars, pubVars
    <3>4. ASSUME NEW p \in Procs, pc'[p] \in {"lookup", "deciding"},
                 job'[p].verdict = "approved"
          PROVE  \/ job'[p].actor \in Actors /\ job'[p].draft \in confirmed'[job'[p].run]
                 \/ job'[p].actor = Publisher /\ job'[p].run \in cameDue'
      <4>1. CASE p = t
        BY <3>1, <3>4, <4>1 DEF TypeOK, Procs
      <4>2. CASE p # t
        <5>1. pc'[p] = pc[p] /\ job'[p] = job[p]
          BY <3>1, <4>2 DEF TypeOK, Procs
        <5>2. job[p].run \in Runs
          BY <3>4, <5>1 DEF TypeOK, Jobs
        <5>3. QED
          BY <3>2, <3>4, <5>1, <5>2 DEF ReleaseInv, EvidenceGrows
      <4>3. QED
        BY <4>1, <4>2
    <3>5. QED
      BY <3>3, <3>4 DEF ReleaseInv
  <2>4. ASSUME NEW r \in Runs, NEW t \in Tasks, NotifyApproval(t, r) \/ CallPublish(t, r)
        PROVE  ReleaseInv'
    <3>1. /\ \E where \in {"pushing", "posting"} : pc' = [pc EXCEPT ![t] = where]
          /\ \E j : job' = [job EXCEPT ![t] = j]
      BY <2>4 DEF NotifyApproval, CallPublish, Begin
    <3>2. /\ \/ UNCHANGED status
             \/ status' = [status EXCEPT ![r] = "pending"]
          /\ UNCHANGED <<slot, gate, gateDraft, decidedBy, batch, confirmed, cameDue>>
      BY <2>4 DEF NotifyApproval, CallPublish, SavePendingApproval,
         rowVars, gateVars, pubVars, histVars
    <3>3. QED
      BY <3>1, <3>2, SameReleases DEF TypeOK, Procs, ReleaseInv, EvidenceGrows, DueScheduled
  <2>5. ASSUME NEW r \in Runs, NEW v \in Verdicts, OperatorDecides(r, v)
        PROVE  ReleaseInv'
    <3>1. ReleaseIsAuthorised'
      BY <2>5 DEF TypeOK, OperatorDecides, ReleaseInv, ReleaseIsAuthorised, histVars
    <3>2. UNCHANGED <<status, slot, pc, job, batch, confirmed, cameDue>>
      BY <2>5 DEF OperatorDecides, rowVars, procVars, pubVars, histVars
    <3>3. QED
      BY <3>1, <3>2 DEF ReleaseInv, DueScheduled
  <2>6. ASSUME NEW r \in Runs, GateTimesOut(r) PROVE ReleaseInv'
    <3>1. ReleaseIsAuthorised'
      BY <2>6 DEF TypeOK, GateTimesOut, ReleaseInv, ReleaseIsAuthorised, histVars
    <3>2. UNCHANGED <<status, slot, pc, job, batch, confirmed, cameDue>>
      BY <2>6 DEF GateTimesOut, rowVars, procVars, pubVars, histVars
    <3>3. QED
      BY <3>1, <3>2 DEF ReleaseInv, DueScheduled
  <2>7. ASSUME NEW p \in Procs, DecisionTaken(p) PROVE ReleaseInv'
    <3>1. /\ job[p] \in Jobs /\ job[p].run \in Runs
          /\ pc[p] = "deciding" /\ pc' = [pc EXCEPT ![p] = "answered"]
          /\ UNCHANGED <<status, slot, job, batch, confirmed, cameDue>>
      BY <2>7, GateStep DEF DecisionTaken, GoTo, rowVars, pubVars, histVars
    <3>2. /\ gate' = [gate EXCEPT ![job[p].run] = job[p].verdict]
          /\ decidedBy' = [decidedBy EXCEPT ![job[p].run] = job[p].actor]
          /\ gateDraft' = IF job[p].verdict = "approved"
                          THEN [gateDraft EXCEPT ![job[p].run] = job[p].draft]
                          ELSE gateDraft
      BY <2>7 DEF DecisionTaken
    <3>3. ASSUME NEW r \in Runs, gate'[r] = "approved"
          PROVE  \/ decidedBy'[r] \in Actors /\ gateDraft'[r] \in confirmed'[r]
                 \/ decidedBy'[r] = Publisher /\ r \in cameDue'
                 \/ decidedBy'[r] = Operator
      <4>1. CASE r = job[p].run
        BY <3>1, <3>2, <3>3, <4>1 DEF TypeOK, ReleaseInv
      <4>2. CASE r # job[p].run
        BY <3>1, <3>2, <3>3, <4>2 DEF TypeOK, ReleaseInv, ReleaseIsAuthorised
      <4>3. QED
        BY <4>1, <4>2
    <3>4. QED
      BY <3>1, <3>3 DEF TypeOK, ReleaseInv, ReleaseIsAuthorised, DueScheduled
  <2>8. ASSUME NEW p \in Procs,
               LookupFound(p) \/ LookupMissing(p) \/ DecisionRefused(p) \/ CallFails(p)
        PROVE  ReleaseInv'
    <3>1. /\ UNCHANGED <<status, slot, gate, gateDraft, decidedBy, confirmed, cameDue>>
          /\ batch' \subseteq batch
      BY <2>8 DEF LookupFound, LookupMissing, DecisionRefused, CallFails, Abort,
         rowVars, gateVars, pubVars, histVars
    <3>2. \A q \in Procs : pc'[q] \in {"lookup", "deciding"} =>
              pc[q] \in {"lookup", "deciding"} /\ job'[q] = job[q]
      BY <2>8 DEF TypeOK, LookupFound, LookupMissing, DecisionRefused, CallFails, Abort,
         GoTo, Finish
    <3>3. QED
      BY <3>1, <3>2, SameReleases DEF ReleaseInv, EvidenceGrows, DueScheduled
  <2>9. ASSUME NEW p \in Procs, RecordDecision(p) PROVE ReleaseInv'
    <3>1. /\ job[p].run \in Runs /\ job[p].verdict # "scheduled"
          /\ status' = [status EXCEPT ![job[p].run] = job[p].verdict]
          /\ \E when : slot' = [slot EXCEPT ![job[p].run] = when]
          /\ UNCHANGED <<gate, gateDraft, decidedBy, batch, confirmed, cameDue>>
      BY <2>9 DEF TypeOK, RecordDecision, DecidePendingApproval, Jobs, Verdicts,
         gateVars, pubVars, histVars
    <3>2. \A q \in Procs : pc'[q] \in {"lookup", "deciding"} =>
              pc[q] \in {"lookup", "deciding"} /\ job'[q] = job[q]
      BY <2>9 DEF TypeOK, RecordDecision, Finish
    <3>3. DueScheduled' \subseteq DueScheduled
      BY <3>1 DEF TypeOK, DueScheduled
    <3>4. QED
      BY <3>1, <3>2, <3>3, SameReleases DEF ReleaseInv, EvidenceGrows
  <2>10. ASSUME NEW t \in Tasks, ToolSteps(t) PROVE ReleaseInv'
    <3>1. job[t].run \in Runs /\ t \in Procs
      BY <2>10 DEF TypeOK, ToolSteps, NotifyDelivered, NotifyUndelivered, Revised,
         PostAccepted, RecordPublished, PostRefused, Jobs, Procs
    <3>2. /\ \/ UNCHANGED <<status, slot>>
             \/ \E new \in Statuses \ {"scheduled"} :
                   /\ status' = [status EXCEPT ![job[t].run] = new]
                   /\ \E when : slot' = [slot EXCEPT ![job[t].run] = when]
             \/ /\ status' = [status EXCEPT ![job[t].run] = "pending"]
                /\ UNCHANGED slot
          /\ UNCHANGED <<batch, confirmed, cameDue, gateDraft, decidedBy>>
      BY <2>10 DEF ToolSteps, NotifyDelivered, NotifyUndelivered, Revised, PostAccepted,
         RecordPublished, PostRefused, OpenGate, UpdatePendingApprovalStatus,
         UpdatePendingApprovalDraft, DecidePendingApproval, Statuses,
         rowVars, gateVars, pubVars, histVars
    <3>3. UNCHANGED gate \/ gate' = [gate EXCEPT ![job[t].run] =
                                        IF @ = "none" THEN "waiting" ELSE @]
      BY <2>10 DEF ToolSteps, NotifyDelivered, NotifyUndelivered, Revised, PostAccepted,
         RecordPublished, PostRefused, OpenGate, gateVars
    <3>4. ReleaseIsAuthorised'
      BY <3>1, <3>2, <3>3 DEF TypeOK, ReleaseInv, ReleaseIsAuthorised
    <3>5. \A q \in Procs : pc'[q] \in {"lookup", "deciding"} =>
              pc[q] \in {"lookup", "deciding"} /\ job'[q] = job[q]
      BY <2>10, <3>1 DEF TypeOK, ToolSteps, NotifyDelivered, NotifyUndelivered, Revised,
         PostAccepted, RecordPublished, PostRefused, GoTo, Finish
    <3>6. DueScheduled' \subseteq DueScheduled
      BY <3>1, <3>2 DEF TypeOK, DueScheduled
    <3>7. QED
      BY <3>2, <3>4, <3>5, <3>6 DEF TypeOK, ReleaseInv
  <2>11. ASSUME NEW r \in Runs, PublisherTick(r) \/ PublisherNext(r) PROVE ReleaseInv'
    <3>1. r \in DueScheduled \cup batch /\ batch' \subseteq DueScheduled \cup batch
      BY <2>11 DEF PublisherTick, PublisherNext
    <3>2. /\ pc' = [pc EXCEPT ![Publisher] = "lookup"]
          /\ job' = [job EXCEPT ![Publisher] = PublisherJob(r)]
          /\ UNCHANGED <<status, slot, gate, gateDraft, decidedBy, confirmed, cameDue>>
      BY <2>11 DEF PublisherTick, PublisherNext, Begin, rowVars, gateVars, histVars
    <3>3. r \in cameDue /\ DueScheduled' \cup batch' \subseteq cameDue'
      BY <3>1, <3>2 DEF ReleaseInv, DueScheduled
    <3>4. ReleaseIsAuthorised'
      BY <3>2 DEF ReleaseInv, ReleaseIsAuthorised
    <3>5. ASSUME NEW p \in Procs, pc'[p] \in {"lookup", "deciding"},
                 job'[p].verdict = "approved"
          PROVE  \/ job'[p].actor \in Actors /\ job'[p].draft \in confirmed'[job'[p].run]
                 \/ job'[p].actor = Publisher /\ job'[p].run \in cameDue'
      <4>1. CASE p = Publisher
        BY <3>2, <3>3, <4>1 DEF TypeOK, Procs, PublisherJob
      <4>2. CASE p # Publisher
        BY <3>2, <3>5, <4>2 DEF TypeOK, Procs, ReleaseInv
      <4>3. QED
        BY <4>1, <4>2
    <3>6. QED
      BY <3>3, <3>4, <3>5 DEF ReleaseInv
  <2>12. ASSUME NEW r \in Runs, SyncDecided(r) PROVE ReleaseInv'
    <3>1. /\ status' = [status EXCEPT ![r] = gate[r]] /\ gate[r] # "scheduled"
          /\ \E when : slot' = [slot EXCEPT ![r] = when]
          /\ Quiet /\ UNCHANGED <<confirmed, cameDue>>
      BY <2>12 DEF SyncDecided, DecidePendingApproval, Verdicts,
         gateVars, procVars, pubVars, histVars
    <3>2. DueScheduled' \subseteq DueScheduled
      BY <3>1 DEF TypeOK, DueScheduled
    <3>3. QED
      BY <3>1, <3>2, SameReleases DEF ReleaseInv, EvidenceGrows
  <2>13. ASSUME NEW r \in Runs, SyncSkipped(r) \/ SyncFails(r)
         PROVE  ReleaseInv'
    <3>1. Quiet /\ UNCHANGED <<status, slot, confirmed, cameDue>>
      BY <2>13 DEF SyncSkipped, SyncFails,
         rowVars, gateVars, procVars, pubVars, histVars
    <3>2. QED
      BY <3>1, SameReleases DEF ReleaseInv, EvidenceGrows, DueScheduled
  <2>14. CASE SyncTick
    BY <2>14, SameReleases DEF SyncTick, ReleaseInv, EvidenceGrows, DueScheduled,
       rowVars, gateVars, procVars, pubVars, histVars
  <2>15. ASSUME NEW r \in Runs, SlotArrives(r) PROVE ReleaseInv'
    <3>1. Quiet /\ EvidenceGrows
      BY <2>15 DEF TypeOK, SlotArrives, EvidenceGrows, gateVars, procVars, pubVars
    <3>2. DueScheduled' \subseteq cameDue'
      BY <2>15 DEF TypeOK, SlotArrives, DueScheduled, ReleaseInv
    <3>3. QED
      BY <3>1, <3>2, SameReleases DEF ReleaseInv, EvidenceGrows
  <2>16. CASE Crash
    BY <2>16 DEF Crash, ReleaseInv, ReleaseIsAuthorised, DueScheduled,
       rowVars, gateVars, histVars
  <2>17. ASSUME NEW t \in Tasks, PostRaises(t) PROVE ReleaseInv'
    <3>1. /\ \A q \in Procs : pc'[q] \in {"lookup", "deciding"} =>
                 pc[q] \in {"lookup", "deciding"} /\ job'[q] = job[q]
          /\ UNCHANGED <<status, slot, gate, gateDraft, decidedBy, batch, confirmed, cameDue>>
      BY <2>17 DEF TypeOK, PostRaises, Finish, Procs, rowVars, gateVars, pubVars, histVars
    <3>2. QED
      BY <3>1, SameReleases DEF ReleaseInv, EvidenceGrows, DueScheduled
  <2>18. CASE UNCHANGED vars
    BY <2>18, SameReleases DEF vars, ReleaseInv, EvidenceGrows, DueScheduled,
       rowVars, gateVars, procVars, pubVars, histVars
  <2>19. QED
    BY <2>1, <2>2, <2>3, <2>4, <2>5, <2>6, <2>7, <2>8, <2>9, <2>10, <2>11, <2>12,
       <2>13, <2>14, <2>15, <2>16, <2>17, <2>18
    DEF Next, PersonActs, AgentOSActs, BridgeSteps, PublisherSteps, SyncSteps
<1>3. QED
  BY <1>1, <1>2, TypeCorrect, PTL DEF Spec

\* AgentOS releases a run only because a person approved that content, because
\* the slot of a confirmed schedule came, or because its operator decided.
THEOREM ReleasesAuthorised == Spec => []ReleaseIsAuthorised
<1>1. ReleaseInv => ReleaseIsAuthorised
  BY DEF ReleaseInv
<1>2. QED
  BY <1>1, ReleaseInvHolds, PTL

-----------------------------------------------------------------------------
(* The very content                                                         *)

\* An approval under way carries a content that was confirmed, and so does a
\* row that is scheduled.
ConfirmInv ==
    /\ ReleasedWasConfirmed
    /\ \A p \in Procs :
        pc[p] \in {"lookup", "deciding"} /\ job[p].verdict = "approved" =>
            job[p].draft \in confirmed[job[p].run]
    /\ \A r \in Runs : status[r] = "scheduled" => draft[r] \in confirmed[r]

\* So does every due row the publisher listed and has not reached yet.
BatchConfirmed == \A r \in batch : draft[r] \in confirmed[r]

\* A step that touches no gate and no coroutine's job, and schedules nothing
\* that was not confirmed.
LEMMA SameContents ==
    ASSUME TypeOK, ConfirmInv,
           \A r \in Runs : confirmed[r] \subseteq confirmed'[r],
           UNCHANGED <<gate, gateDraft, decidedBy>>,
           \A p \in Procs : pc'[p] \in {"lookup", "deciding"} =>
               pc[p] \in {"lookup", "deciding"} /\ job'[p] = job[p],
           \A r \in Runs : status'[r] = "scheduled" =>
               \/ status[r] = "scheduled" /\ draft'[r] = draft[r]
               \/ draft'[r] \in confirmed'[r]
    PROVE  ConfirmInv'
<1>1. ReleasedWasConfirmed'
  BY DEF ConfirmInv, ReleasedWasConfirmed
<1>2. ASSUME NEW p \in Procs, pc'[p] \in {"lookup", "deciding"}, job'[p].verdict = "approved"
      PROVE  job'[p].draft \in confirmed'[job'[p].run]
  <2>1. pc[p] \in {"lookup", "deciding"} /\ job'[p] = job[p]
    BY <1>2
  <2>2. job[p].run \in Runs
    BY <2>1 DEF TypeOK, Jobs
  <2> QED
    BY <1>2, <2>1, <2>2 DEF ConfirmInv
<1>3. \A r \in Runs : status'[r] = "scheduled" => draft'[r] \in confirmed'[r]
  BY DEF ConfirmInv
<1> QED
  BY <1>1, <1>2, <1>3 DEF ConfirmInv

\* A coroutine takes up an approval of a content that was confirmed.
LEMMA Takes ==
    ASSUME TypeOK, ConfirmInv, NEW p \in Procs, NEW j \in Jobs,
           pc' = [pc EXCEPT ![p] = "lookup"], job' = [job EXCEPT ![p] = j],
           \A r \in Runs : confirmed[r] \subseteq confirmed'[r],
           j.verdict = "approved" => j.draft \in confirmed'[j.run],
           UNCHANGED <<status, draft, gate, gateDraft, decidedBy>>
    PROVE  ConfirmInv'
<1>1. ReleasedWasConfirmed' /\ \A r \in Runs : status'[r] = "scheduled" => draft'[r] \in confirmed'[r]
  BY DEF ConfirmInv, ReleasedWasConfirmed
<1>2. ASSUME NEW q \in Procs, pc'[q] \in {"lookup", "deciding"}, job'[q].verdict = "approved"
      PROVE  job'[q].draft \in confirmed'[job'[q].run]
  <2>1. CASE q = p
    BY <1>2, <2>1 DEF TypeOK
  <2>2. CASE q # p
    <3>1. pc'[q] = pc[q] /\ job'[q] = job[q]
      BY <2>2 DEF TypeOK
    <3>2. job[q].run \in Runs
      BY <1>2, <3>1 DEF TypeOK, Jobs
    <3> QED
      BY <1>2, <3>1, <3>2 DEF ConfirmInv
  <2> QED
    BY <2>1, <2>2
<1> QED
  BY <1>1, <1>2 DEF ConfirmInv

\* While what the publisher holds was confirmed, every step keeps it.
LEMMA ConfirmKept ==
    ASSUME TypeOK, ConfirmInv, BatchConfirmed, [Next]_vars
    PROVE  ConfirmInv'
<1>1. ASSUME NEW a \in Actors, NEW r \in Runs,
             TapEdit(a, r) \/ TapSchedule(a, r) \/ ScheduleReply(a, r) \/ TapCancelSchedule(a, r)
      PROVE  ConfirmInv'
  <2>1. UNCHANGED <<gate, gateDraft, decidedBy, pc, job, confirmed, draft>>
    BY <1>1 DEF TapEdit, TapSchedule, ScheduleReply, TapCancelSchedule, gateVars, procVars,
       histVars, DecidePendingApproval, UpdatePendingApprovalStatus
  <2>2. \E new \in Statuses \ {"scheduled"} : status' = [status EXCEPT ![r] = new]
    BY <1>1 DEF TapEdit, TapSchedule, ScheduleReply, TapCancelSchedule,
       DecidePendingApproval, UpdatePendingApprovalStatus, Statuses
  <2>3. \A s \in Runs : status'[s] = "scheduled" => status[s] = "scheduled"
    BY <2>2 DEF TypeOK
  <2> QED
    BY <2>1, <2>3, SameContents
<1>2. ASSUME NEW a \in Actors, NEW r \in Runs, TapConfirmSchedule(a, r)
      PROVE  ConfirmInv'
  <2>1. /\ UNCHANGED <<gate, gateDraft, decidedBy, pc, job, draft>>
        /\ status' = [status EXCEPT ![r] = "scheduled"]
        /\ confirmed' = [confirmed EXCEPT ![r] = @ \cup {draft[r]}]
    BY <1>2 DEF TapConfirmSchedule, UpdatePendingApprovalStatus, gateVars, procVars
  <2>2. /\ \A s \in Runs : confirmed[s] \subseteq confirmed'[s]
        /\ \A s \in Runs : status'[s] = "scheduled" => status[s] = "scheduled" \/ draft[s] \in confirmed'[s]
    BY <2>1 DEF TypeOK
  <2> QED
    BY <2>1, <2>2, SameContents
<1>3. ASSUME NEW t \in Tasks, NEW a \in Actors, NEW r \in Runs, EditReply(t, a, r)
      PROVE  ConfirmInv'
  <2>1. /\ pc' = [pc EXCEPT ![t] = "revising"] /\ \E j : job' = [job EXCEPT ![t] = j]
        /\ UNCHANGED <<status, draft, gate, gateDraft, decidedBy, confirmed>>
    BY <1>3 DEF EditReply, Begin, rowVars, gateVars, histVars
  <2> QED
    BY <2>1, SameContents DEF TypeOK, Procs
<1>4. ASSUME NEW t \in Tasks, NEW a \in Actors, NEW r \in Runs, NEW v \in Verdicts,
             TapDecide(t, a, r, v)
      PROVE  ConfirmInv'
  <2> DEFINE j == [run |-> r, draft |-> draft[r], verdict |-> v, actor |-> a]
  <2>1. /\ pc' = [pc EXCEPT ![t] = "lookup"] /\ job' = [job EXCEPT ![t] = j]
        /\ UNCHANGED <<status, draft, gate, gateDraft, decidedBy>>
    BY <1>4 DEF TapDecide, Begin, rowVars, gateVars
  <2>2. /\ \A s \in Runs : confirmed[s] \subseteq confirmed'[s]
        /\ v = "approved" => draft[r] \in confirmed'[r]
    BY <1>4 DEF TapDecide, TypeOK
  <2>3. j \in Jobs /\ j.verdict = v /\ j.draft = draft[r] /\ j.run = r /\ t \in Procs
    BY DEF TypeOK, Jobs, People, Procs
  <2> HIDE DEF j
  <2> QED
    BY <2>1, <2>2, <2>3, Takes
<1>5. ASSUME NEW t \in Tasks, NEW a \in Actors, NEW r \in Runs, NEW d \in Drafts,
             CompleteEditAndApprove(t, a, r, d)
      PROVE  ConfirmInv'
  <2> DEFINE j == [run |-> r, draft |-> d, verdict |-> "approved", actor |-> a]
  <2>1. /\ pc' = [pc EXCEPT ![t] = "lookup"] /\ job' = [job EXCEPT ![t] = j]
        /\ UNCHANGED <<status, draft, gate, gateDraft, decidedBy>>
    BY <1>5 DEF CompleteEditAndApprove, Begin, rowVars, gateVars
  <2>2. (\A s \in Runs : confirmed[s] \subseteq confirmed'[s]) /\ d \in confirmed'[r]
    BY <1>5 DEF CompleteEditAndApprove, TypeOK
  <2>3. j \in Jobs /\ j.draft = d /\ j.run = r /\ t \in Procs
    BY DEF TypeOK, Jobs, People, Procs, Verdicts
  <2> HIDE DEF j
  <2> QED
    BY <2>1, <2>2, <2>3, Takes
<1>6. ASSUME NEW r \in Runs, NEW t \in Tasks, NotifyApproval(t, r) \/ CallPublish(t, r)
      PROVE  ConfirmInv'
  <2>1. /\ \E where \in {"pushing", "posting"} : pc' = [pc EXCEPT ![t] = where]
        /\ \E j : job' = [job EXCEPT ![t] = j]
    BY <1>6 DEF NotifyApproval, CallPublish, Begin
  <2>2. /\ \/ UNCHANGED <<status, draft>>
           \/ status' = [status EXCEPT ![r] = "pending"] /\ \E d : draft' = [draft EXCEPT ![r] = d]
        /\ UNCHANGED <<gate, gateDraft, decidedBy, confirmed>>
    BY <1>6 DEF NotifyApproval, CallPublish, SavePendingApproval, rowVars, gateVars, histVars
  <2>3. \A s \in Runs : status'[s] = "scheduled" => status[s] = "scheduled" /\ draft'[s] = draft[s]
    BY <2>2 DEF TypeOK
  <2>4. \A p \in Procs : pc'[p] \in {"lookup", "deciding"} =>
            pc[p] \in {"lookup", "deciding"} /\ job'[p] = job[p]
    BY <2>1 DEF TypeOK, Procs
  <2> QED
    BY <2>2, <2>3, <2>4, SameContents
<1>7. ASSUME NEW r \in Runs, NEW v \in Verdicts, OperatorDecides(r, v)
      PROVE  ConfirmInv'
  <2>1. ReleasedWasConfirmed'
    BY <1>7 DEF TypeOK, OperatorDecides, ConfirmInv, ReleasedWasConfirmed, histVars
  <2>2. UNCHANGED <<status, draft, pc, job, confirmed>>
    BY <1>7 DEF OperatorDecides, rowVars, procVars, histVars
  <2> QED
    BY <2>1, <2>2 DEF ConfirmInv
<1>8. ASSUME NEW r \in Runs, GateTimesOut(r)
      PROVE  ConfirmInv'
  <2>1. ReleasedWasConfirmed'
    BY <1>8 DEF TypeOK, GateTimesOut, ConfirmInv, ReleasedWasConfirmed, histVars
  <2>2. UNCHANGED <<status, draft, pc, job, confirmed>>
    BY <1>8 DEF GateTimesOut, rowVars, procVars, histVars
  <2> QED
    BY <2>1, <2>2 DEF ConfirmInv
<1>9. ASSUME NEW p \in Procs, DecisionTaken(p)
      PROVE  ConfirmInv'
  <2>1. /\ job[p] \in Jobs /\ job[p].run \in Runs
        /\ pc[p] = "deciding" /\ pc' = [pc EXCEPT ![p] = "answered"]
        /\ UNCHANGED <<status, draft, job, confirmed>>
    BY <1>9, GateStep DEF DecisionTaken, GoTo, rowVars, histVars
  <2>2. /\ gate' = [gate EXCEPT ![job[p].run] = job[p].verdict]
        /\ decidedBy' = [decidedBy EXCEPT ![job[p].run] = job[p].actor]
        /\ gateDraft' = IF job[p].verdict = "approved"
                        THEN [gateDraft EXCEPT ![job[p].run] = job[p].draft]
                        ELSE gateDraft
    BY <1>9 DEF DecisionTaken
  <2>3. ASSUME NEW r \in Runs, gate'[r] = "approved", decidedBy'[r] # Operator
        PROVE  gateDraft'[r] \in confirmed'[r]
    <3>1. CASE r = job[p].run
      BY <2>1, <2>2, <2>3, <3>1 DEF TypeOK, ConfirmInv
    <3>2. CASE r # job[p].run
      BY <2>1, <2>2, <2>3, <3>2 DEF TypeOK, ConfirmInv, ReleasedWasConfirmed
    <3> QED
      BY <3>1, <3>2
  <2> QED
    BY <2>1, <2>3 DEF TypeOK, ConfirmInv, ReleasedWasConfirmed
<1>10. ASSUME NEW p \in Procs,
              LookupFound(p) \/ LookupMissing(p) \/ DecisionRefused(p) \/ CallFails(p)
       PROVE  ConfirmInv'
  <2>1. UNCHANGED <<status, draft, gate, gateDraft, decidedBy, confirmed>>
    BY <1>10 DEF LookupFound, LookupMissing, DecisionRefused, CallFails,
       rowVars, gateVars, histVars
  <2>2. \A q \in Procs : pc'[q] \in {"lookup", "deciding"} =>
            pc[q] \in {"lookup", "deciding"} /\ job'[q] = job[q]
    BY <1>10 DEF TypeOK, LookupFound, LookupMissing, DecisionRefused, CallFails, Abort,
       GoTo, Finish
  <2> QED
    BY <2>1, <2>2, SameContents
<1>11. ASSUME NEW p \in Procs, RecordDecision(p)
       PROVE  ConfirmInv'
  <2>1. /\ job[p].run \in Runs /\ job[p].verdict # "scheduled"
        /\ status' = [status EXCEPT ![job[p].run] = job[p].verdict]
        /\ UNCHANGED <<draft, gate, gateDraft, decidedBy, confirmed>>
    BY <1>11 DEF TypeOK, RecordDecision, DecidePendingApproval, Jobs, Verdicts, gateVars, histVars
  <2>2. \A q \in Procs : pc'[q] \in {"lookup", "deciding"} =>
            pc[q] \in {"lookup", "deciding"} /\ job'[q] = job[q]
    BY <1>11 DEF TypeOK, RecordDecision, Finish
  <2>3. \A r \in Runs : status'[r] = "scheduled" => status[r] = "scheduled"
    BY <2>1 DEF TypeOK
  <2> QED
    BY <2>1, <2>2, <2>3, SameContents
<1>12. ASSUME NEW t \in Tasks, ToolSteps(t)
       PROVE  ConfirmInv'
  <2>1. job[t].run \in Runs /\ t \in Procs
    BY <1>12 DEF TypeOK, ToolSteps, NotifyDelivered, NotifyUndelivered, Revised,
       PostAccepted, RecordPublished, PostRefused, Jobs, Procs
  <2>2. /\ \/ UNCHANGED <<status, draft>>
           \/ /\ \E new \in Statuses \ {"scheduled"} : status' = [status EXCEPT ![job[t].run] = new]
              /\ UNCHANGED draft
           \/ /\ status' = [status EXCEPT ![job[t].run] = "pending"]
              /\ \E d : draft' = [draft EXCEPT ![job[t].run] = d]
        /\ UNCHANGED <<confirmed, gateDraft, decidedBy>>
    BY <1>12 DEF ToolSteps, NotifyDelivered, NotifyUndelivered, Revised, PostAccepted,
       RecordPublished, PostRefused, OpenGate, UpdatePendingApprovalStatus,
       UpdatePendingApprovalDraft, DecidePendingApproval, Statuses, rowVars, gateVars, histVars
  <2>3. UNCHANGED gate \/ gate' = [gate EXCEPT ![job[t].run] =
                                      IF @ = "none" THEN "waiting" ELSE @]
    BY <1>12 DEF ToolSteps, NotifyDelivered, NotifyUndelivered, Revised, PostAccepted,
       RecordPublished, PostRefused, OpenGate, gateVars
  <2>4. ReleasedWasConfirmed'
    BY <2>1, <2>2, <2>3 DEF TypeOK, ConfirmInv, ReleasedWasConfirmed
  <2>5. \A q \in Procs : pc'[q] \in {"lookup", "deciding"} =>
            pc[q] \in {"lookup", "deciding"} /\ job'[q] = job[q]
    BY <1>12, <2>1 DEF TypeOK, ToolSteps, NotifyDelivered, NotifyUndelivered, Revised,
       PostAccepted, RecordPublished, PostRefused, GoTo, Finish
  <2>6. \A r \in Runs : status'[r] = "scheduled" => status[r] = "scheduled" /\ draft'[r] = draft[r]
    BY <2>1, <2>2 DEF TypeOK
  <2> QED
    BY <2>2, <2>4, <2>5, <2>6 DEF TypeOK, ConfirmInv
<1>13. ASSUME NEW r \in Runs, PublisherTick(r)
       PROVE  ConfirmInv'
  <2>1. /\ pc' = [pc EXCEPT ![Publisher] = "lookup"]
        /\ job' = [job EXCEPT ![Publisher] = PublisherJob(r)]
        /\ UNCHANGED <<status, draft, gate, gateDraft, decidedBy, confirmed>>
        /\ status[r] = "scheduled"
    BY <1>13 DEF PublisherTick, DueScheduled, Begin, rowVars, gateVars, histVars
  <2>2. /\ PublisherJob(r) \in Jobs /\ Publisher \in Procs
        /\ PublisherJob(r).draft = draft[r] /\ PublisherJob(r).run = r
    BY DEF TypeOK, PublisherJob, Jobs, People, Procs, Verdicts
  <2>3. draft[r] \in confirmed'[r]
    BY <2>1 DEF ConfirmInv
  <2> QED
    BY <2>1, <2>2, <2>3, Takes
<1>14. ASSUME NEW r \in Runs, SyncDecided(r)
       PROVE  ConfirmInv'
  <2>1. /\ status' = [status EXCEPT ![r] = gate[r]] /\ gate[r] # "scheduled"
        /\ UNCHANGED <<draft, gate, gateDraft, decidedBy, pc, job, confirmed>>
    BY <1>14 DEF SyncDecided, DecidePendingApproval, Verdicts, gateVars, procVars, histVars
  <2>2. \A s \in Runs : status'[s] = "scheduled" => status[s] = "scheduled"
    BY <2>1 DEF TypeOK
  <2> QED
    BY <2>1, <2>2, SameContents
<1>15. ASSUME NEW r \in Runs, SyncSkipped(r) \/ SyncFails(r) \/ SlotArrives(r)
       PROVE  ConfirmInv'
  <2>1. UNCHANGED <<status, draft, gate, gateDraft, decidedBy, pc, job, confirmed>>
    BY <1>15 DEF SyncSkipped, SyncFails, SlotArrives, rowVars, gateVars, procVars, histVars
  <2> QED
    BY <2>1, SameContents
<1>16. CASE Crash
  BY <1>16 DEF Crash, ConfirmInv, ReleasedWasConfirmed, rowVars, gateVars, histVars
<1>17. ASSUME NEW t \in Tasks, PostRaises(t)
       PROVE  ConfirmInv'
  <2>1. /\ \A q \in Procs : pc'[q] \in {"lookup", "deciding"} =>
               pc[q] \in {"lookup", "deciding"} /\ job'[q] = job[q]
        /\ UNCHANGED <<status, draft, gate, gateDraft, decidedBy, confirmed>>
    BY <1>17 DEF TypeOK, PostRaises, Finish, Procs, rowVars, gateVars, histVars
  <2> QED
    BY <2>1, SameContents
<1>18. CASE UNCHANGED vars \/ SyncTick
  <2>1. UNCHANGED <<status, draft, gate, gateDraft, decidedBy, pc, job, confirmed>>
    BY <1>18 DEF vars, SyncTick, rowVars, gateVars, procVars, histVars
  <2> QED
    BY <2>1, SameContents
<1>19. ASSUME NEW r \in Runs, PublisherNext(r)
       PROVE  ConfirmInv'
  <2>1. /\ pc' = [pc EXCEPT ![Publisher] = "lookup"]
        /\ job' = [job EXCEPT ![Publisher] = PublisherJob(r)]
        /\ UNCHANGED <<status, draft, gate, gateDraft, decidedBy, confirmed>>
        /\ r \in batch
    BY <1>19 DEF PublisherNext, Begin, rowVars, gateVars, histVars
  <2>2. /\ PublisherJob(r) \in Jobs /\ Publisher \in Procs
        /\ PublisherJob(r).draft = draft[r] /\ PublisherJob(r).run = r
    BY DEF TypeOK, PublisherJob, Jobs, People, Procs, Verdicts
  <2>3. draft[r] \in confirmed'[r]
    BY <2>1 DEF BatchConfirmed
  <2> QED
    BY <2>1, <2>2, <2>3, Takes
<1> QED
  BY <1>1, <1>2, <1>3, <1>4, <1>5, <1>6, <1>7, <1>8, <1>9, <1>10, <1>11, <1>12,
     <1>13, <1>14, <1>15, <1>16, <1>17, <1>18, <1>19
  DEF Next, PersonActs, AgentOSActs, BridgeSteps, PublisherSteps, SyncSteps

\* A person's confirmation is not taken back.
LEMMA ConfirmedGrows ==
    ASSUME TypeOK, [Next]_vars
    PROVE  \A r \in Runs : confirmed[r] \subseteq confirmed'[r]
<1>1. ASSUME NEW a \in Actors, NEW r \in Runs,
             TapEdit(a, r) \/ TapSchedule(a, r) \/ ScheduleReply(a, r)
             \/ TapConfirmSchedule(a, r) \/ TapCancelSchedule(a, r)
      PROVE  \A s \in Runs : confirmed[s] \subseteq confirmed'[s]
  BY <1>1 DEF TypeOK, TapEdit, TapSchedule, ScheduleReply, TapConfirmSchedule,
     TapCancelSchedule, histVars
<1>2. ASSUME NEW t \in Tasks, NEW a \in Actors, NEW r \in Runs,
             EditReply(t, a, r)
             \/ (\E v \in Verdicts : TapDecide(t, a, r, v))
             \/ (\E d \in Drafts : CompleteEditAndApprove(t, a, r, d))
      PROVE  \A s \in Runs : confirmed[s] \subseteq confirmed'[s]
  <2>1. \/ UNCHANGED confirmed
        \/ \E new : confirmed' = [confirmed EXCEPT ![r] = @ \cup new]
    <3>1. EditReply(t, a, r) => UNCHANGED confirmed
      BY DEF EditReply, histVars
    <3>2. ASSUME NEW v \in Verdicts, TapDecide(t, a, r, v)
          PROVE  \/ UNCHANGED confirmed
                 \/ \E new : confirmed' = [confirmed EXCEPT ![r] = @ \cup new]
      BY <3>2 DEF TapDecide
    <3>3. ASSUME NEW d \in Drafts, CompleteEditAndApprove(t, a, r, d)
          PROVE  \E new : confirmed' = [confirmed EXCEPT ![r] = @ \cup new]
      BY <3>3 DEF CompleteEditAndApprove
    <3> QED
      BY <1>2, <3>1, <3>2, <3>3
  <2> QED
    BY <2>1 DEF TypeOK
<1>3. ASSUME NEW r \in Runs,
             (\E v \in Verdicts : OperatorDecides(r, v)) \/ GateTimesOut(r)
             \/ (\E t \in Tasks : NotifyApproval(t, r) \/ CallPublish(t, r))
             \/ SyncDecided(r) \/ SyncSkipped(r) \/ SyncFails(r) \/ SlotArrives(r)
             \/ PublisherTick(r) \/ PublisherNext(r)
      PROVE  UNCHANGED confirmed
  BY <1>3 DEF OperatorDecides, GateTimesOut, NotifyApproval, CallPublish, SyncDecided,
     SyncSkipped, SyncFails, SlotArrives, PublisherTick, PublisherNext, histVars
<1>4. ASSUME NEW p \in Procs, LookupFound(p) \/ LookupMissing(p) \/ DecisionTaken(p)
                              \/ DecisionRefused(p) \/ CallFails(p) \/ RecordDecision(p)
      PROVE  UNCHANGED confirmed
  BY <1>4 DEF LookupFound, LookupMissing, DecisionTaken, DecisionRefused, CallFails,
     RecordDecision, histVars
<1>5. ASSUME NEW t \in Tasks, ToolSteps(t) \/ PostRaises(t)
      PROVE  UNCHANGED confirmed
  BY <1>5 DEF ToolSteps, NotifyDelivered, NotifyUndelivered, Revised, PostAccepted,
     RecordPublished, PostRefused, PostRaises, histVars
<1>6. CASE Crash \/ SyncTick \/ UNCHANGED vars
  BY <1>6 DEF Crash, SyncTick, vars, histVars
<1> QED
  BY <1>1, <1>2, <1>3, <1>4, <1>5, <1>6
  DEF Next, PersonActs, AgentOSActs, BridgeSteps, PublisherSteps, SyncSteps

\* The publisher lists a row only when it is scheduled and due.
LEMMA BatchIsDue ==
    ASSUME [Next]_vars
    PROVE  \/ batch' \subseteq batch
           \/ \E r \in DueScheduled :
                 batch' = DueScheduled \ {r} /\ UNCHANGED <<status, draft, confirmed>>
<1>1. CASE UNCHANGED batch
  BY <1>1
<1>2. ASSUME NEW r \in Runs, PublisherTick(r)
      PROVE  r \in DueScheduled /\ batch' = DueScheduled \ {r}
             /\ UNCHANGED <<status, draft, confirmed>>
  BY <1>2 DEF PublisherTick, rowVars, histVars
<1>3. ASSUME NEW p \in Procs, DecisionRefused(p) \/ CallFails(p)
      PROVE  batch' \subseteq batch
  BY <1>3 DEF DecisionRefused, CallFails, Abort
<1>4. CASE Crash
  BY <1>4 DEF Crash
<1>5. ASSUME NEW a \in Actors, NEW r \in Runs,
             TapEdit(a, r) \/ TapSchedule(a, r) \/ ScheduleReply(a, r)
             \/ TapConfirmSchedule(a, r) \/ TapCancelSchedule(a, r)
      PROVE  UNCHANGED batch
  BY <1>5 DEF TapEdit, TapSchedule, ScheduleReply, TapConfirmSchedule, TapCancelSchedule, pubVars
<1>6. ASSUME NEW t \in Tasks, NEW a \in Actors, NEW r \in Runs,
             EditReply(t, a, r)
             \/ (\E v \in Verdicts : TapDecide(t, a, r, v))
             \/ (\E d \in Drafts : CompleteEditAndApprove(t, a, r, d))
      PROVE  UNCHANGED batch
  BY <1>6 DEF EditReply, TapDecide, CompleteEditAndApprove, pubVars
<1>7. ASSUME NEW r \in Runs,
             (\E v \in Verdicts : OperatorDecides(r, v)) \/ GateTimesOut(r)
             \/ (\E t \in Tasks : NotifyApproval(t, r) \/ CallPublish(t, r))
             \/ SyncDecided(r) \/ SyncSkipped(r) \/ SyncFails(r) \/ SlotArrives(r)
      PROVE  UNCHANGED batch
  BY <1>7 DEF OperatorDecides, GateTimesOut, NotifyApproval, CallPublish, SyncDecided,
     SyncSkipped, SyncFails, SlotArrives, pubVars
<1>8. ASSUME NEW p \in Procs, LookupFound(p) \/ LookupMissing(p) \/ DecisionTaken(p)
                              \/ RecordDecision(p)
      PROVE  UNCHANGED batch
  BY <1>8 DEF LookupFound, LookupMissing, DecisionTaken, RecordDecision, pubVars
<1>9. ASSUME NEW t \in Tasks, ToolSteps(t) \/ PostRaises(t)
      PROVE  UNCHANGED batch
  BY <1>9 DEF ToolSteps, NotifyDelivered, NotifyUndelivered, Revised, PostAccepted,
     RecordPublished, PostRefused, PostRaises, pubVars
<1>10. CASE SyncTick \/ UNCHANGED vars
  BY <1>10 DEF SyncTick, vars, pubVars
<1>11. ASSUME NEW r \in Runs, PublisherNext(r)
       PROVE  batch' \subseteq batch
  BY <1>11 DEF PublisherNext
<1> QED
  BY <1>1, <1>2, <1>3, <1>4, <1>5, <1>6, <1>7, <1>8, <1>9, <1>10, <1>11
  DEF Next, PersonActs, AgentOSActs, BridgeSteps, PublisherSteps, SyncSteps

\* No draft is edited between the publisher's listing of the due rows and its
\* release of that draft.
BatchUnedited == \A r \in batch : draft'[r] = draft[r]

\* An edit of a row the publisher has listed is the only way around: without
\* it, what AgentOS releases is the very content a person confirmed, over any
\* number of edits, cancelled schedules, crashes and lost answers.
THEOREM UneditedIsConfirmed ==
    Spec /\ [][BatchUnedited]_vars => []ReleasedWasConfirmed
<1>1. Init => ConfirmInv /\ BatchConfirmed
  BY DEF Init, ConfirmInv, BatchConfirmed, ReleasedWasConfirmed
<1>2. TypeOK /\ ConfirmInv /\ BatchConfirmed /\ [Next]_vars /\ [BatchUnedited]_vars
      => (ConfirmInv /\ BatchConfirmed)'
  <2> SUFFICES ASSUME TypeOK, ConfirmInv, BatchConfirmed, [Next]_vars, [BatchUnedited]_vars
               PROVE  (ConfirmInv /\ BatchConfirmed)'
    OBVIOUS
  <2>1. \A r \in batch : draft'[r] = draft[r]
    BY DEF BatchUnedited, vars, rowVars
  <2>2. batch \subseteq Runs /\ \A r \in Runs : confirmed[r] \subseteq confirmed'[r]
    BY ConfirmedGrows DEF TypeOK
  <2>3. BatchConfirmed'
    <3>1. CASE batch' \subseteq batch
      BY <2>1, <2>2, <3>1 DEF BatchConfirmed
    <3>2. ASSUME NEW r \in DueScheduled, batch' = DueScheduled \ {r},
                 UNCHANGED <<status, draft, confirmed>>
          PROVE  BatchConfirmed'
      BY <3>2 DEF ConfirmInv, BatchConfirmed, DueScheduled
    <3> QED
      BY <3>1, <3>2, BatchIsDue
  <2> QED
    BY <2>3, ConfirmKept
<1>3. ConfirmInv => ReleasedWasConfirmed
  BY DEF ConfirmInv
<1> QED
  BY <1>1, <1>2, <1>3, TypeCorrect, PTL DEF Spec

\* So it is whenever there is no more than one run: nothing waits in a list.
THEOREM OneRunIsConfirmed ==
    ASSUME \A r, s \in Runs : r = s
    PROVE  Spec => []ReleasedWasConfirmed
<1>1. Init => batch = {}
  BY DEF Init
<1>2. batch = {} /\ [Next]_vars => (batch = {})'
  BY BatchIsDue DEF DueScheduled
<1>3. batch = {} => [BatchUnedited]_vars
  BY DEF BatchUnedited
<1> QED
  BY <1>1, <1>2, <1>3, UneditedIsConfirmed, PTL DEF Spec
=============================================================================
