---------------------------- MODULE Suggestions ----------------------------
(***************************************************************************)
(* The life of a proactive suggestion in Kachu+: the daily scan creates    *)
(* it, the owner accepts, dismisses or sends it from a LINE card or over   *)
(* REST, a round of the scheduler reminds and expires it, and a content    *)
(* suggestion is handed to AgentOS in the background without being asked.  *)
(*                                                                         *)
(* All of it runs on one event loop: an action is the code between two     *)
(* awaits.  A row read before an await is a detached object, and           *)
(* save_suggestion writes every column of it back.                         *)
(***************************************************************************)
EXTENDS Integers, Sequences, FiniteSets

CONSTANTS
    Suggs,        \* rows that may be created
    Kinds,        \* the nudges this instance detects
    Customers,    \* LINE users a campaign may reach
    Drafts,       \* texts of a draft message
    FirstDraft,   \* the text a suggestion is created with
    Tasks,        \* slots for concurrently running coroutines
    NoJob,        \* the job of an idle coroutine
    NoTask,       \* AgentOS holds no task under a key
    MaxTaps,      \* bound: actions of the owner
    MaxFaults,    \* bound: failed calls, and exceptions in the scheduler
    MaxCrashes    \* bound: restarts of the process

ContentGap        == "content_gap"
UnansweredReviews == "unanswered_reviews"
StaleKnowledge    == "stale_knowledge_base"
RecoverSleeping   == "recover_sleeping"
AgentOS           == "agentos"

AgentOSKinds == {ContentGap, UnansweredReviews}
Targets      == Customers \cup {AgentOS}

ASSUME KindsKnown ==
    Kinds \subseteq {ContentGap, UnansweredReviews, StaleKnowledge, RecoverSleeping}
ASSUME FirstDraftIsDraft == FirstDraft \in Drafts
ASSUME AgentOSIsNoCustomer == AgentOS \notin Customers
ASSUME BoundsNat == MaxTaps \in Nat /\ MaxFaults \in Nat /\ MaxCrashes \in Nat

VARIABLES
    \* the row of each suggestion
    status, kind, draft,
    age,          \* where now is with respect to expires_at
    reminded,     \* reminded_at is in the result snapshot
    \* coroutines
    pc, job,
    schedulerUp,  \* the task of ProactiveSuggestionScheduler is alive
    \* outside of the process
    agentTask,    \* AgentOS: the task held under the key of each kind
    pushed,       \* the drafts pushed to each customer for each suggestion
    reminders,    \* reminder cards pushed
    \* bounded counters
    taps, faults, crashes

rowVars  == <<status, kind, draft, reminded>>
procVars == <<pc, job>>
outside  == <<agentTask, pushed, reminders>>
counters == <<taps, faults, crashes>>
vars == <<rowVars, age, procVars, schedulerUp, outside, counters>>

Active   == {"pending", "accepted"}
Statuses == Active \cup {"absent", "sending", "sent", "reported",
                         "dismissed", "expired"}
AgentOSTasks == [sugg : Suggs, draft : Drafts]
Jobs == [sugg : Suggs, draft : Drafts, reminded : BOOLEAN, todo : SUBSET Targets]

ASSUME NoTaskIsNone == NoTask \notin AgentOSTasks

TypeOK ==
    /\ status \in [Suggs -> Statuses]
    /\ kind \in [Suggs -> Kinds]
    /\ draft \in [Suggs -> Drafts]
    /\ age \in [Suggs -> {"fresh", "late", "over"}]
    /\ reminded \in [Suggs -> BOOLEAN]
    /\ pc \in [Tasks -> {"idle", "created", "preparing", "sending"}]
    /\ job \in [Tasks -> Jobs \cup {NoJob}]
    /\ \A t \in Tasks : pc[t] # "idle" => job[t] \in Jobs
    /\ schedulerUp \in BOOLEAN
    /\ agentTask \in [AgentOSKinds -> AgentOSTasks \cup {NoTask}]
    /\ pushed \in [Suggs -> [Customers -> Seq(Drafts)]]
    /\ reminders \in [Suggs -> Nat]
    /\ taps \in Nat /\ faults \in Nat /\ crashes \in Nat

Init ==
    /\ status = [s \in Suggs |-> "absent"]
    /\ kind \in [Suggs -> Kinds]
    /\ draft = [s \in Suggs |-> FirstDraft]
    /\ age = [s \in Suggs |-> "fresh"]
    /\ reminded = [s \in Suggs |-> FALSE]
    /\ pc = [t \in Tasks |-> "idle"]
    /\ job = [t \in Tasks |-> NoJob]
    /\ schedulerUp = TRUE
    /\ agentTask = [k \in AgentOSKinds |-> NoTask]
    /\ pushed = [s \in Suggs |-> [c \in Customers |-> <<>>]]
    /\ reminders = [s \in Suggs |-> 0]
    /\ taps = 0 /\ faults = 0 /\ crashes = 0

-----------------------------------------------------------------------------
(* Coroutines *)

Begin(t, where, j) ==
    /\ pc[t] = "idle"
    /\ pc' = [pc EXCEPT ![t] = where]
    /\ job' = [job EXCEPT ![t] = j]

Finish(t) ==
    /\ pc' = [pc EXCEPT ![t] = "idle"]
    /\ job' = [job EXCEPT ![t] = NoJob]

\* The detached object a coroutine holds across its awaits.
Held(s, d, todo) == [sugg |-> s, draft |-> d, reminded |-> reminded[s], todo |-> todo]

Tap ==
    /\ taps < MaxTaps
    /\ taps' = taps + 1
    /\ UNCHANGED <<faults, crashes>>

-----------------------------------------------------------------------------
(* The scan: POST /suggestions/scan, or the day's recurring job            *)

\* Mutant: a row that is being sent expires too.
ExpiredWhileSending ==
    [s \in Suggs |-> IF status[s] \in Active \cup {"sending"} /\ age[s] = "over"
                     THEN "expired" ELSE status[s]]

\* Mutant: an accepted row never expires.
ExpiredPendingOnly ==
    [s \in Suggs |-> IF status[s] = "pending" /\ age[s] = "over"
                     THEN "expired" ELSE status[s]]

\* What expire_due_suggestions leaves.
ExpireDue ==
    [s \in Suggs |-> IF status[s] \in Active /\ age[s] = "over"
                     THEN "expired" ELSE status[s]]

\* Mutant: only a pending row counts as the active one.
ActivePendingOnly(k, st) == {s \in Suggs : kind[s] = k /\ st[s] = "pending"}

ActiveOf(k, st) == {s \in Suggs : kind[s] = k /\ st[s] \in Active}

\* The nudge is detected and a suggestion of its kind is still open.
ScanFindsActive(k) ==
    /\ ActiveOf(k, ExpireDue) # {}
    /\ status' = ExpireDue
    /\ UNCHANGED <<kind, draft, reminded, age, procVars, schedulerUp, outside,
                   counters>>

Create(s) ==
    /\ status[s] = "absent"
    /\ ActiveOf(kind[s], ExpireDue) = {}
    /\ status' = [ExpireDue EXCEPT ![s] = "pending"]
    /\ UNCHANGED <<kind, draft, reminded, age, schedulerUp, outside, counters>>

\* A card is pushed, or there is nobody to push it to.
ScanCreates(s) ==
    /\ Create(s)
    /\ UNCHANGED procVars

\* A content gap, with someone to tell: prepared in the background.
ScanPrepares(t, s) ==
    /\ kind[s] = ContentGap
    /\ Create(s)
    /\ Begin(t, "created", Held(s, draft[s], {AgentOS}))

-----------------------------------------------------------------------------
(* The background task of a content suggestion                             *)

\* Its first step: the row is read, and kept.
PrepareStarts(t) ==
    LET s == job[t].sugg IN
    /\ pc[t] = "created"
    /\ IF status[s] = "pending"
       THEN /\ pc' = [pc EXCEPT ![t] = "preparing"]
            /\ job' = [job EXCEPT ![t] = Held(s, draft[s], {AgentOS})]
       ELSE Finish(t)
    /\ UNCHANGED <<rowVars, age, schedulerUp, outside, counters>>

\* AgentOS answered.  The kept row, still "pending", is written back whole, so
\* the compare-and-set to "sent" after it cannot fail.
PrepareEnds(t) ==
    LET s == job[t].sugg IN
    /\ pc[t] = "preparing"
    /\ job[t].todo = {}
    /\ status' = [status EXCEPT ![s] = "sent"]
    /\ draft' = [draft EXCEPT ![s] = job[t].draft]
    /\ reminded' = [reminded EXCEPT ![s] = job[t].reminded]
    /\ Finish(t)
    /\ UNCHANGED <<kind, age, schedulerUp, outside, counters>>

-----------------------------------------------------------------------------
(* The owner *)

\* Mutant: the row gets a status no other code knows.
DismissUnknown(s) ==
    /\ status[s] \in Active
    /\ status' = [status EXCEPT ![s] = "rejected"]
    /\ Tap
    /\ UNCHANGED <<kind, draft, reminded, age, procVars, schedulerUp, outside>>

Dismiss(s) ==
    /\ status[s] \in Active
    /\ status' = [status EXCEPT ![s] = "dismissed"]
    /\ Tap
    /\ UNCHANGED <<kind, draft, reminded, age, procVars, schedulerUp, outside>>

\* Mutant: a row that is being sent can be accepted, and edited, again.
AcceptWhileSending(s, d) ==
    /\ status[s] \in Active \cup {"sending"}
    /\ status' = [status EXCEPT ![s] = "accepted"]
    /\ draft' = [draft EXCEPT ![s] = d]
    /\ Tap
    /\ UNCHANGED <<kind, reminded, age, procVars, schedulerUp, outside>>

\* decision = accept, without execute_now; the draft may be edited.
Accept(s, d) ==
    /\ status[s] \in Active
    /\ status' = [status EXCEPT ![s] = "accepted"]
    /\ draft' = [draft EXCEPT ![s] = d]
    /\ Tap
    /\ UNCHANGED <<kind, reminded, age, procVars, schedulerUp, outside>>

\* Mutant: a second send is not turned away while the first is under way.
SendTwice(t, s, d, todo) ==
    /\ status[s] \in Active \cup {"sending"}
    /\ IF kind[s] \in AgentOSKinds THEN todo = {AgentOS}
       ELSE kind[s] = RecoverSleeping /\ todo # {} /\ todo \subseteq Customers
    /\ status' = [status EXCEPT ![s] = "sending"]
    /\ draft' = [draft EXCEPT ![s] = d]
    /\ Begin(t, "sending", Held(s, d, todo))
    /\ Tap
    /\ UNCHANGED <<kind, reminded, age, schedulerUp, outside>>

\* POST send, or accept with execute_now: pending, accepted, sending, and then
\* the first call to AgentOS or LINE.
Send(t, s, d, todo) ==
    /\ status[s] \in Active
    /\ IF kind[s] \in AgentOSKinds THEN todo = {AgentOS}
       ELSE kind[s] = RecoverSleeping /\ todo # {} /\ todo \subseteq Customers
    /\ status' = [status EXCEPT ![s] = "sending"]
    /\ draft' = [draft EXCEPT ![s] = d]
    /\ Begin(t, "sending", Held(s, d, todo))
    /\ Tap
    /\ UNCHANGED <<kind, reminded, age, schedulerUp, outside>>

\* A campaign nobody can be reached for is "prepared", and done with.
SendToNobody(s, d) ==
    /\ status[s] \in Active
    /\ kind[s] = RecoverSleeping
    /\ status' = [status EXCEPT ![s] = "sent"]
    /\ draft' = [draft EXCEPT ![s] = d]
    /\ Tap
    /\ UNCHANGED <<kind, reminded, age, procVars, schedulerUp, outside>>

\* _execute_suggestion knows no way to carry out a stale-knowledge nudge.  It
\* raises 400, and the row has become "sending".
SendUnsupported(s, d) ==
    /\ status[s] \in Active
    /\ kind[s] = StaleKnowledge
    /\ status' = [status EXCEPT ![s] = "sending"]
    /\ draft' = [draft EXCEPT ![s] = d]
    /\ Tap
    /\ UNCHANGED <<kind, reminded, age, procVars, schedulerUp, outside>>

Report(s) ==
    /\ status[s] = "sent"
    /\ status' = [status EXCEPT ![s] = "reported"]
    /\ Tap
    /\ UNCHANGED <<kind, draft, reminded, age, procVars, schedulerUp, outside>>

-----------------------------------------------------------------------------
(* The calls *)

\* What AgentOS holds after create_task.  The idempotency key is a hash of the
\* tenant, the intent and suggested_action, which is one sentence for each kind:
\* neither the suggestion nor its draft is part of it.  AgentOS answers a key it
\* knows with the task it has.
CreateTask(k, s, d) ==
    agentTask' = [agentTask EXCEPT ![k] = IF @ = NoTask THEN [sugg |-> s, draft |-> d] ELSE @]

\* AgentOS takes the dispatch, or LINE pushes to one customer.
Deliver(t, x) ==
    LET s == job[t].sugg IN
    /\ pc[t] \in {"preparing", "sending"}
    /\ x \in job[t].todo
    /\ IF x = AgentOS
       THEN /\ CreateTask(kind[s], s, job[t].draft)
            /\ UNCHANGED pushed
       ELSE /\ pushed' = [pushed EXCEPT ![s][x] = Append(@, job[t].draft)]
            /\ UNCHANGED agentTask
    /\ job' = [job EXCEPT ![t].todo = @ \ {x}]
    /\ UNCHANGED <<rowVars, age, pc, schedulerUp, reminders, counters>>

\* The last call returned.  After a dispatch the kept row is written back;
\* then "sending" becomes "sent".
SendEnds(t) ==
    LET s == job[t].sugg IN
    /\ pc[t] = "sending"
    /\ job[t].todo = {}
    /\ IF kind[s] \in AgentOSKinds
       THEN /\ status' = [status EXCEPT ![s] = "sent"]
            /\ draft' = [draft EXCEPT ![s] = job[t].draft]
            /\ reminded' = [reminded EXCEPT ![s] = job[t].reminded]
       ELSE IF status[s] = "sending"
            THEN /\ status' = [status EXCEPT ![s] = "sent"]
                 /\ reminded' = [reminded EXCEPT ![s] = job[t].reminded]
                 /\ UNCHANGED draft
            ELSE UNCHANGED <<status, draft, reminded>>
    /\ Finish(t)
    /\ UNCHANGED <<kind, age, schedulerUp, outside, counters>>

\* A call fails, or its answer is lost: a send raises and leaves "sending"
\* behind, the background task logs and returns.
CallFails(t) ==
    /\ pc[t] \in {"preparing", "sending"}
    /\ faults < MaxFaults
    /\ faults' = faults + 1
    /\ Finish(t)
    /\ UNCHANGED <<rowVars, age, schedulerUp, outside, taps, crashes>>

-----------------------------------------------------------------------------
(* The scheduler's round, time, and the process                            *)

ToRemind == {s \in Suggs : ExpireDue[s] \in Active /\ age[s] = "late" /\ ~reminded[s]}

\* Mutant: the card goes out and reminded_at is not written.
RemindUnmarked ==
    /\ schedulerUp
    /\ status' = ExpireDue
    /\ reminders' = [s \in Suggs |-> reminders[s] + IF s \in ToRemind /\ reminders[s] < 2
                                                    THEN 1 ELSE 0]
    /\ UNCHANGED <<kind, draft, reminded, age, procVars, schedulerUp, agentTask, pushed,
                   counters>>

\* Expire what is over, then remind of what has less than twelve hours left.
RemindRound ==
    /\ schedulerUp
    /\ status' = ExpireDue
    /\ reminded' = [s \in Suggs |-> reminded[s] \/ s \in ToRemind]
    /\ reminders' = [s \in Suggs |-> reminders[s] + IF s \in ToRemind THEN 1 ELSE 0]
    /\ UNCHANGED <<kind, draft, age, procVars, schedulerUp, agentTask, pushed,
                   counters>>

\* No recipient or no access token: the round only expires.
QuietRound ==
    /\ schedulerUp
    /\ status' = ExpireDue
    /\ UNCHANGED <<kind, draft, reminded, age, procVars, schedulerUp, outside, counters>>

\* run_once raises (a report or a scan failed); the loop does not catch it.
SchedulerDies ==
    /\ schedulerUp
    /\ faults < MaxFaults
    /\ faults' = faults + 1
    /\ schedulerUp' = FALSE
    /\ UNCHANGED <<rowVars, age, procVars, outside, taps, crashes>>

\* Twelve hours pass; a call to AgentOS has a timeout of thirty seconds.
Ages(s) ==
    /\ status[s] # "absent"
    /\ \A t \in Tasks : pc[t] \in {"created", "preparing"} => job[t].sugg # s
    /\ \/ age[s] = "fresh" /\ age' = [age EXCEPT ![s] = "late"]
       \/ age[s] = "late"  /\ age' = [age EXCEPT ![s] = "over"]
    /\ UNCHANGED <<rowVars, procVars, schedulerUp, outside, counters>>

Crash ==
    /\ crashes < MaxCrashes
    /\ crashes' = crashes + 1
    /\ pc' = [t \in Tasks |-> "idle"]
    /\ job' = [t \in Tasks |-> NoJob]
    /\ schedulerUp' = TRUE
    /\ UNCHANGED <<rowVars, age, outside, taps, faults>>

-----------------------------------------------------------------------------
OwnerActs ==
    \E s \in Suggs :
        \/ Dismiss(s)
        \/ Report(s)
        \/ \E d \in Drafts :
             \/ Accept(s, d) \/ SendToNobody(s, d) \/ SendUnsupported(s, d)
             \/ \E t \in Tasks, todo \in SUBSET Targets : Send(t, s, d, todo)

Scan ==
    \/ \E k \in Kinds : ScanFindsActive(k)
    \/ \E s \in Suggs : ScanCreates(s) \/ \E t \in Tasks : ScanPrepares(t, s)

TaskSteps(t) ==
    \/ PrepareStarts(t) \/ PrepareEnds(t) \/ SendEnds(t)
    \/ \E x \in Targets : Deliver(t, x)

SchedulerRound == RemindRound \/ QuietRound

Next ==
    \/ OwnerActs
    \/ Scan
    \/ \E t \in Tasks : TaskSteps(t) \/ CallFails(t)
    \/ SchedulerRound
    \/ SchedulerDies
    \/ \E s \in Suggs : Ages(s)
    \/ Crash

Spec == Init /\ [][Next]_vars

\* Coroutines whose call returned go on, the scheduler's loop comes round while
\* its task lives, and time passes.  The owner and the scan owe nothing.
Fairness ==
    /\ \A t \in Tasks : WF_vars(TaskSteps(t))
    /\ WF_vars(SchedulerRound)
    /\ \A s \in Suggs : WF_vars(Ages(s))

FairSpec == Spec /\ Fairness

-----------------------------------------------------------------------------
(* Safety *)

\* Once a row is being sent its text is frozen (product rule R3): whatever a
\* customer was pushed, and the task AgentOS made for the row, say what the row
\* says; and a row that claims to be sent has AgentOS working on its kind.
SentAsWritten ==
    \A s \in Suggs :
        /\ status[s] \in {"sending", "sent", "reported"} =>
               \A c \in Customers : \A i \in 1..Len(pushed[s][c]) :
                   pushed[s][c][i] = draft[s]
        /\ status[s] \in {"sending", "sent", "reported"} /\ kind[s] = UnansweredReviews =>
               \A d \in Drafts :
                   agentTask[kind[s]] = [sugg |-> s, draft |-> d] => d = draft[s]
        /\ status[s] \in {"sent", "reported"} /\ kind[s] \in AgentOSKinds =>
               agentTask[kind[s]] # NoTask

\* However often the owner taps, and whatever fails, no customer is pushed the
\* same suggestion twice.
NobodyReachedTwice ==
    \A s \in Suggs, c \in Customers : Len(pushed[s][c]) <= 1

\* "The owner confirms the edited text and it is sent": a row that says so was
\* handed to AgentOS with its text.
SentIsHandedOver ==
    \A s \in Suggs :
        status[s] \in {"sent", "reported"} /\ kind[s] \in AgentOSKinds =>
            agentTask[kind[s]] = [sugg |-> s, draft |-> draft[s]]

\* The owner is not offered two open suggestions of a kind.
OneOpenPerKind ==
    \A r, s \in Suggs :
        kind[r] = kind[s] /\ status[r] \in Active /\ status[s] \in Active => r = s

\* "Reminded once", across rounds, restarts and rows written back.
RemindedOnce == \A s \in Suggs : reminders[s] <= 1

\* What may become of a decided or finished row.
DecisionStands(s) ==
    /\ status[s] \in {"dismissed", "expired"} => status'[s] = status[s]
    /\ status[s] = "sending" => status'[s] \in {"sending", "sent"}
    /\ status[s] \in {"sent", "reported"} => status'[s] \in {"sent", "reported"}

\* Rows in sending, sent, dismissed or expired are not decided again.
DecidedIsFinal == [][\A s \in Suggs : DecisionStands(s)]_vars

\* The same, for every kind nobody prepares in the background.
AskedIsFinal == [][\A s \in Suggs : kind[s] # ContentGap => DecisionStands(s)]_vars

\* Why the properties about sending hold.  A row that may still be sent has
\* reached nobody:
UnsentIsUntold ==
    \A s \in Suggs : status[s] \in Active \cup {"absent"} =>
        /\ \A c \in Customers : pushed[s][c] = <<>>
        /\ kind[s] = UnansweredReviews =>
               \A d \in Drafts : agentTask[kind[s]] # [sugg |-> s, draft |-> d]

OnlyCampaignsPush ==
    \A s \in Suggs, c \in Customers : kind[s] # RecoverSleeping => pushed[s][c] = <<>>

\* whoever sends a row holds its text, and those it has not reached;
Sender(t) == LET s == job[t].sugg IN
    /\ pc[t] = "sending" =>
        /\ status[s] \in {"sending", "sent", "reported"}
        /\ kind[s] # ContentGap => status[s] = "sending" /\ job[t].draft = draft[s]
        /\ kind[s] \notin AgentOSKinds => kind[s] = RecoverSleeping
        /\ \A x \in job[t].todo :
             IF kind[s] \in AgentOSKinds THEN x = AgentOS
             ELSE x \in Customers /\ pushed[s][x] = <<>>
    /\ pc[t] \in {"created", "preparing"} =>
        kind[s] = ContentGap /\ job[t].todo \subseteq {AgentOS}
    /\ pc[t] \in {"preparing", "sending"} /\ kind[s] \in AgentOSKinds =>
        AgentOS \in job[t].todo \/ agentTask[kind[s]] # NoTask

\* and nobody else sends it.
OneSender ==
    \A t, u \in Tasks :
        pc[t] = "sending" /\ pc[u] = "sending" /\ job[t].sugg = job[u].sugg => t = u

SendInv ==
    /\ UnsentIsUntold
    /\ OnlyCampaignsPush
    /\ \A t \in Tasks : Sender(t)
    /\ OneSender
    /\ SentAsWritten
    /\ NobodyReachedTwice

\* Why RemindedOnce holds: an open row that was reminded remembers it.
RemindInv ==
    \A s \in Suggs :
        /\ reminders[s] <= 1
        /\ status[s] = "absent" => reminders[s] = 0
        /\ status[s] \in Active /\ reminders[s] = 1 => reminded[s]

-----------------------------------------------------------------------------
(* Liveness *)

\* A suggestion nobody answers, or one accepted and never sent, does not stay
\* open for ever, as long as the scheduler's task lives.
OpenEnds ==
    \A s \in Suggs : status[s] \in Active ~> (status[s] \notin Active \/ ~schedulerUp)

\* An accepted suggestion that went into "sending" comes out of it.
SendingEnds == \A s \in Suggs : status[s] = "sending" ~> status[s] # "sending"
=============================================================================
