------------------------- MODULE LegacyAutomation -------------------------
(***************************************************************************)
(* What the first Kachu starts by itself (src/kachu/scheduler.py,          *)
(* proactive_monitor.py): the hourly round of the automations each tenant  *)
(* configured, as daily jobs of days of HoursPerDay hours.  The monthly    *)
(* calendar, one row that is written over, is left out.  Every step is the *)
(* code between two awaits.                                                *)
(***************************************************************************)
EXTENDS Naturals

CONSTANTS
    Tenants, Recipients, Nobody,
    HoursPerDay, MaxHour,
    MaxEdits, MaxFaults, MaxCrashes

TaskJobs == {"ga4", "google_post", "meta_post"}
Jobs     == TaskJobs \cup {"nudge"}
Off      == HoursPerDay
Days     == 0..(MaxHour \div HoursPerDay)
Tasks    == [tenant : Tenants, job : TaskJobs, key : Nat, day : Days]

VARIABLES
    clock,      \* hours since the start
    up,         \* the process runs
    hourOf,     \* the hour of day each tenant configured for each job, or Off
    tasks,      \* tasks at AgentOS: their idempotency key, and the day they are from
    round,      \* the round of automations in progress
    told,       \* audited nudges: tenant and day
    nudges,     \* nudges a recipient got on a day
    lostNudges, \* nudge rounds of a day that were cut off or whose answers were lost
    edits, faults, crashes

roundVars  == <<round, told, nudges, lostNudges>>
bounds     == <<edits, faults, crashes>>
vars == <<clock, up, hourOf, tasks, roundVars, bounds>>

Today == clock \div HoursPerDay
Fault == faults < MaxFaults /\ faults' = faults + 1 /\ UNCHANGED <<edits, crashes>>
NoRound  == [at |-> "idle", todo |-> {}, tenant |-> Nobody, due |-> {}, day |-> 0, to |-> {}, got |-> FALSE]

TypeOK ==
    /\ clock \in 0..MaxHour /\ up \in BOOLEAN
    /\ hourOf \in [Tenants -> [Jobs -> 0..Off]]
    /\ tasks \subseteq Tasks
    /\ round \in [at : {"idle", "next", "started", "nudging"}, todo : SUBSET Tenants,
                  tenant : Tenants \cup {Nobody}, due : SUBSET Jobs, day : Days,
                  to : SUBSET Recipients, got : BOOLEAN]
    /\ told \subseteq Tenants \X Days
    /\ nudges \in [Tenants -> [Recipients -> [Days -> Nat]]]
    /\ lostNudges \in [Tenants -> [Days -> Nat]]
    /\ edits \in 0..MaxEdits /\ faults \in 0..MaxFaults /\ crashes \in 0..MaxCrashes

Init ==
    /\ clock = 0 /\ up = TRUE
    /\ hourOf = [t \in Tenants |-> [j \in Jobs |-> Off]]
    /\ tasks = {} /\ round = NoRound /\ told = {}
    /\ nudges = [t \in Tenants |-> [r \in Recipients |-> [d \in Days |-> 0]]]
    /\ lostNudges = [t \in Tenants |-> [d \in Days |-> 0]]
    /\ edits = 0 /\ faults = 0 /\ crashes = 0

-----------------------------------------------------------------------------
\* AgentOS keeps one task for a key of a tenant and a job.
Keyed(t, j, k, d) ==
    IF \E x \in tasks : x.tenant = t /\ x.job = j /\ x.key = k THEN tasks
    ELSE tasks \cup {[tenant |-> t, job |-> j, key |-> k, day |-> d]}

(* The scheduler's hour.  A job that still runs is not started again, and a  *)
(* process that is down starts nothing: neither is made up for.              *)
Hour ==
    /\ clock < MaxHour /\ clock' = clock + 1
    /\ round' = IF up /\ round.at = "idle"
                THEN [NoRound EXCEPT !.at = "next", !.todo = Tenants] ELSE round
    /\ UNCHANGED <<up, hourOf, tasks, told, nudges, lostNudges, bounds>>

\* The owner saves the dashboard's automation settings.
EditSettings(t, j, h) ==
    /\ up /\ edits < MaxEdits /\ edits' = edits + 1
    /\ hourOf' = [hourOf EXCEPT ![t][j] = h]
    /\ UNCHANGED <<clock, up, tasks, roundVars, faults, crashes>>

\* _schedule_bucket, for a daily job: due in its hour of the tenant's clock.
DueJobs(t) == {j \in Jobs : hourOf[t][j] = clock % HoursPerDay}

\* The settings and the tenant's clock are read once, before its first job.
NextTenant(t) ==
    /\ round.at = "next" /\ round.due = {} /\ t \in round.todo
    /\ round' = [NoRound EXCEPT !.at = "next", !.todo = round.todo \ {t}, !.tenant = t,
                                !.due = DueJobs(t), !.day = Today]
    /\ UNCHANGED <<clock, up, hourOf, tasks, told, nudges, lostNudges, bounds>>

RoundEnds ==
    /\ round.at = "next" /\ round.due = {} /\ round.todo = {}
    /\ round' = NoRound
    /\ UNCHANGED <<clock, up, hourOf, tasks, told, nudges, lostNudges, bounds>>

Order == <<"ga4", "google_post", "meta_post", "nudge">>
First(j) ==
    /\ j \in round.due
    /\ \A a, b \in 1..4 : Order[a] \in round.due /\ Order[b] = j => b <= a

\* Mutant: the key of a scheduled task carries the hour.
HourKey == clock

\* The bucket in the key is the day the job was due on.
BucketKey == round.day

\* _trigger_ga4_report_for_tenant and _trigger_google_post_for_tenant.
TriggerTask(j) ==
    /\ round.at = "next" /\ j \in TaskJobs /\ First(j)
    /\ tasks' = Keyed(round.tenant, j, BucketKey, round.day)
    /\ round' = [round EXCEPT !.at = "started"]
    /\ UNCHANGED <<clock, up, hourOf, told, nudges, lostNudges, bounds>>

\* run_task answers, or fails like create_task, which is logged: either way
\* the round goes on with the next job.
TaskStarted(j) ==
    /\ round.at = "started" /\ First(j)
    /\ round' = [round EXCEPT !.at = "next", !.due = @ \ {j}]
    /\ UNCHANGED <<clock, up, hourOf, tasks, told, nudges, lostNudges, bounds>>

TriggerFails(j) ==
    /\ round.at = "next" /\ j \in TaskJobs /\ First(j) /\ Fault
    /\ \/ UNCHANGED tasks
       \/ tasks' = Keyed(round.tenant, j, BucketKey, round.day)     \* the answer is lost
    /\ round' = [round EXCEPT !.due = @ \ {j}]
    /\ UNCHANGED <<clock, up, hourOf, told, nudges, lostNudges>>

-----------------------------------------------------------------------------
\* Mutant: an earlier nudge of the day is not looked for.
NudgeAgain == TRUE

\* has_recent_audit_event: the nudge of this day has not been sent.
NotNudged == <<round.tenant, round.day>> \notin told

\* _trigger_nudge: nothing to say, no recipients, already said, or the day's
\* pushes used up: the tenant is done.
NoNudge ==
    /\ round.at = "next" /\ First("nudge")
    /\ round' = [round EXCEPT !.due = @ \ {"nudge"}]
    /\ UNCHANGED <<clock, up, hourOf, tasks, told, nudges, lostNudges, bounds>>

Nudge ==
    /\ round.at = "next" /\ First("nudge") /\ NotNudged
    /\ round' = [round EXCEPT !.at = "nudging", !.to = Recipients]
    /\ UNCHANGED <<clock, up, hourOf, tasks, told, nudges, lostNudges, bounds>>

Nudged(r) == [nudges EXCEPT ![round.tenant][r][round.day] = @ + 1]

PushNudge(r) ==
    /\ round.at = "nudging" /\ r \in round.to
    /\ nudges' = Nudged(r)
    /\ round' = [round EXCEPT !.to = @ \ {r}, !.got = TRUE]
    /\ UNCHANGED <<clock, up, hourOf, tasks, told, lostNudges, bounds>>

\* A recipient's push fails, and the next one is tried.
NudgeFails(r) ==
    /\ round.at = "nudging" /\ r \in round.to /\ Fault
    /\ \/ UNCHANGED <<nudges, lostNudges>>
       \/ /\ nudges' = Nudged(r)                                    \* the answer is lost
          /\ lostNudges' = [lostNudges EXCEPT ![round.tenant][round.day] = @ + 1]
    /\ round' = [round EXCEPT !.to = @ \ {r}]
    /\ UNCHANGED <<clock, up, hourOf, tasks, told>>

\* The audit says sent if one recipient got it, and failed otherwise.
AuditNudge ==
    /\ round.at = "nudging" /\ round.to = {}
    /\ told' = IF round.got THEN told \cup {<<round.tenant, round.day>>} ELSE told
    /\ round' = [round EXCEPT !.at = "next", !.due = @ \ {"nudge"}, !.got = FALSE]
    /\ UNCHANGED <<clock, up, hourOf, tasks, nudges, lostNudges, bounds>>

-----------------------------------------------------------------------------
Crash ==
    /\ up /\ crashes < MaxCrashes /\ crashes' = crashes + 1
    /\ up' = FALSE /\ round' = NoRound
    /\ lostNudges' = IF round.at = "nudging"
                     THEN [lostNudges EXCEPT ![round.tenant][round.day] = @ + 1] ELSE lostNudges
    /\ UNCHANGED <<clock, hourOf, tasks, told, nudges, edits, faults>>

Restart ==
    /\ ~up /\ up' = TRUE
    /\ UNCHANGED <<clock, hourOf, tasks, roundVars, bounds>>

Next ==
    \/ Hour \/ Crash \/ Restart
    \/ \E t \in Tenants :
         \/ NextTenant(t)
         \/ \E j \in Jobs, h \in 0..Off : EditSettings(t, j, h)
    \/ RoundEnds \/ NoNudge \/ Nudge \/ AuditNudge
    \/ \E j \in TaskJobs : TriggerTask(j) \/ TaskStarted(j) \/ TriggerFails(j)
    \/ \E r \in Recipients : PushNudge(r) \/ NudgeFails(r)

Spec == Init /\ [][Next]_vars

-----------------------------------------------------------------------------
\* A tenant has one task for a job and a day, though the owner moves the job to
\* a later hour of the same day, and rounds are late, cut off or lose answers.
TaskPerBucket ==
    \A x, y \in tasks :
        x.tenant = y.tenant /\ x.job = y.job /\ x.day = y.day => x = y

\* A recipient gets a day's nudge once, and once more for each round of that day
\* that was cut off or whose push was taken for failed.
NudgedOnce ==
    \A t \in Tenants, r \in Recipients, d \in Days : nudges[t][r][d] <= 1 + lostNudges[t][d]
=============================================================================
