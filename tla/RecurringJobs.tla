--------------------------- MODULE RecurringJobs ---------------------------
(***************************************************************************)
(* The recurring jobs of the proactive scheduler: one asyncio task walks   *)
(* the active tenants, claims each tenant's daily Meta report and daily    *)
(* scan in kachu_recurring_jobs under a lease, runs it and writes down     *)
(* when it is next due.  A job that raises is given a retry time and the   *)
(* exception is raised again, out of the loop: nothing restarts the task   *)
(* until the process starts anew.  Every time is kept as the number of     *)
(* turns of the loop (interval_seconds) it still lies ahead.               *)
(***************************************************************************)
EXTENDS Integers

CONSTANTS Tenants,      \* active tenants
          Recipients,   \* the LINE users a tenant's report is pushed to
          Nobody,       \* model value: no tenant is being reported to
          Day,          \* turns of the loop in 86400 seconds
          ReportRetry,  \* turns in the 3600 seconds after a failed report
          ScanRetry,    \* turns in the 900 seconds after a failed scan
          MaxFaults, MaxCrashes

VARIABLES due,          \* turns until next_run_at of each tenant's job
          locked,       \* turns until its locked_until
          loop,         \* "asleep", "reports", "sending", "dead"
          wake,         \* turns until the sleeping loop runs again
          todo,         \* tenants the report pass has yet to visit
          current,      \* the tenant whose report is being delivered
          left,         \* its recipients not yet pushed to
          ago,          \* history: turns since each recipient's last report
          early,        \* history: reports that came within a day of another
          broken,       \* history: deliveries cut short, per tenant
          faults, crashes

vars == <<due, locked, loop, wake, todo, current, left, ago, early,
          broken, faults, crashes>>

Jobs == {"meta_insights_report", "proactive_scan"}

\* lease_seconds is one turn of the loop.
Lease == 1

TypeOK ==
  /\ due \in [Tenants -> [Jobs -> 0 .. Day]]
  /\ locked \in [Tenants -> [Jobs -> 0 .. Lease]]
  /\ loop \in {"asleep", "reports", "sending", "dead"}
  /\ wake \in {0, 1}
  /\ todo \subseteq Tenants
  /\ current \in Tenants \union {Nobody}
  /\ left \subseteq Recipients
  /\ ago \in [Tenants -> [Recipients -> 0 .. Day]]
  /\ early \in [Tenants -> [Recipients -> Nat]]
  /\ broken \in [Tenants -> Nat]
  /\ faults \in 0 .. MaxFaults /\ crashes \in 0 .. MaxCrashes

Init ==
  /\ wake = 0 /\ loop = "asleep"
  /\ due = [t \in Tenants |-> [j \in Jobs |-> 0]]
  /\ locked = [t \in Tenants |-> [j \in Jobs |-> 0]]
  /\ todo = {} /\ current = Nobody /\ left = {}
  /\ ago = [t \in Tenants |-> [r \in Recipients |-> Day]]
  /\ early = [t \in Tenants |-> [r \in Recipients |-> 0]]
  /\ broken = [t \in Tenants |-> 0]
  /\ faults = 0 /\ crashes = 0

-----------------------------------------------------------------------------
(* The claim: refused while the lease runs and until the job is due.       *)

\* Mutant: the lease is looked at, next_run_at is not.
ClaimableEarly(t, j) == locked[t][j] = 0

ClaimDueRecurringJob(t, j) == locked[t][j] = 0 /\ due[t][j] = 0

\* mark_recurring_job_completed and mark_recurring_job_failed.
MarkUntil(t, j, turns) ==
  /\ due' = [due EXCEPT ![t][j] = turns]
  /\ locked' = [locked EXCEPT ![t][j] = 0]

-----------------------------------------------------------------------------
(* The report pass.                                                        *)

WakeUp ==
  /\ loop = "asleep" /\ wake = 0
  /\ loop' = "reports" /\ todo' = Tenants
  /\ UNCHANGED <<due, locked, wake, current, left, ago, early, broken,
                 faults, crashes>>

PassOver(t) ==
  /\ loop = "reports" /\ t \in todo
  /\ ~ ClaimDueRecurringJob(t, "meta_insights_report")
  /\ todo' = todo \ {t}
  /\ UNCHANGED <<due, locked, loop, wake, current, left, ago, early,
                 broken, faults, crashes>>

\* A tenant without insights, without a token or without recipients is
\* delivered to nobody and its job completes all the same.
ClaimReport(t) ==
  /\ loop = "reports" /\ t \in todo
  /\ ClaimDueRecurringJob(t, "meta_insights_report")
  /\ locked' = [locked EXCEPT ![t]["meta_insights_report"] = Lease]
  /\ loop' = "sending" /\ current' = t /\ left' \in {{}, Recipients}
  /\ todo' = todo \ {t}
  /\ UNCHANGED <<due, wake, ago, early, broken, faults, crashes>>

PushReport(r) ==
  /\ loop = "sending" /\ r \in left
  /\ ago' = [ago EXCEPT ![current][r] = 0]
  /\ early' = IF ago[current][r] < Day
              THEN [early EXCEPT ![current][r] = @ + 1] ELSE early
  /\ left' = left \ {r}
  /\ UNCHANGED <<due, locked, loop, wake, todo, current, broken,
                 faults, crashes>>

\* Mutant: a report is due again after the retry time, not after a day.
ReportDoneSoon ==
  /\ loop = "sending" /\ left = {}
  /\ MarkUntil(current, "meta_insights_report", ReportRetry)
  /\ loop' = "reports" /\ current' = Nobody
  /\ UNCHANGED <<wake, todo, left, ago, early, broken, faults, crashes>>

ReportDone ==
  /\ loop = "sending" /\ left = {}
  /\ MarkUntil(current, "meta_insights_report", Day)
  /\ loop' = "reports" /\ current' = Nobody
  /\ UNCHANGED <<wake, todo, left, ago, early, broken, faults, crashes>>

\* A push raises: the job is put off, the recipients already reached are not
\* remembered, and the exception leaves run_once.
ReportFails ==
  /\ loop = "sending" /\ faults < MaxFaults
  /\ MarkUntil(current, "meta_insights_report", ReportRetry)
  /\ broken' = [broken EXCEPT ![current] = @ + 1]
  /\ loop' = "dead" /\ todo' = {} /\ current' = Nobody /\ left' = {}
  /\ faults' = faults + 1
  /\ UNCHANGED <<wake, ago, early, crashes>>

-----------------------------------------------------------------------------
(* The scans: no await in them, so the pass over the tenants is one step.  *)

Claimable == {t \in Tenants : ClaimDueRecurringJob(t, "proactive_scan")}

Scanned(done, delay) ==
  /\ due' = [t \in Tenants |->
               IF t \in done
               THEN [due[t] EXCEPT !["proactive_scan"] = delay[t]]
               ELSE due[t]]
  /\ locked' = [t \in Tenants |->
               IF t \in done
               THEN [locked[t] EXCEPT !["proactive_scan"] = 0]
               ELSE locked[t]]

\* Mutant: the loop goes back to sleep without the scans.
RunNoScans ==
  /\ loop = "reports" /\ todo = {}
  /\ loop' = "asleep" /\ wake' = 1
  /\ UNCHANGED <<due, locked, todo, current, left, ago, early, broken,
                 faults, crashes>>

RunScans ==
  /\ loop = "reports" /\ todo = {}
  /\ Scanned(Claimable, [t \in Tenants |-> Day])
  /\ loop' = "asleep" /\ wake' = 1
  /\ UNCHANGED <<todo, current, left, ago, early, broken, faults,
                 crashes>>

\* The scan of t raises after the tenants listed before it were scanned.
ScanFails(t) ==
  /\ loop = "reports" /\ todo = {} /\ faults < MaxFaults
  /\ t \in Claimable
  /\ \E before \in SUBSET (Claimable \ {t}) :
       Scanned(before \union {t},
               [u \in Tenants |-> IF u = t THEN ScanRetry ELSE Day])
  /\ loop' = "dead" /\ faults' = faults + 1
  /\ UNCHANGED <<wake, todo, current, left, ago, early, broken, crashes>>

-----------------------------------------------------------------------------
(* The clock, and the process that stops and starts.                       *)

Sooner(turns) == IF turns = 0 THEN 0 ELSE turns - 1

\* Time passes where the loop awaits: asleep, and woken in the turn it asked
\* for, or in the middle of a delivery, for as long as that takes.
Tick ==
  /\ loop # "reports" /\ ~ (loop = "asleep" /\ wake = 0)
  /\ due' = [t \in Tenants |-> [j \in Jobs |-> Sooner(due[t][j])]]
  /\ locked' = [t \in Tenants |-> [j \in Jobs |-> Sooner(locked[t][j])]]
  /\ wake' = Sooner(wake)
  /\ ago' = [t \in Tenants |->
               [r \in Recipients |-> Day - Sooner(Day - ago[t][r])]]
  /\ UNCHANGED <<loop, todo, current, left, early, broken, faults, crashes>>

Restart ==
  /\ crashes < MaxCrashes
  /\ crashes' = crashes + 1
  /\ broken' = IF current = Nobody THEN broken
               ELSE [broken EXCEPT ![current] = @ + 1]
  /\ loop' = "asleep" /\ wake' = 0
  /\ todo' = {} /\ current' = Nobody /\ left' = {}
  /\ UNCHANGED <<due, locked, ago, early, faults>>

LoopStep ==
  \/ WakeUp
  \/ \E t \in Tenants : PassOver(t) \/ ClaimReport(t)
  \/ \E r \in Recipients : PushReport(r)
  \/ ReportDone
  \/ RunScans

Next ==
  \/ LoopStep
  \/ ReportFails
  \/ \E t \in Tenants : ScanFails(t)
  \/ Tick
  \/ Restart

Spec == Init /\ [][Next]_vars

\* The event loop keeps running a task that is ready, and time goes on.
Fairness == WF_vars(LoopStep) /\ WF_vars(Tick)

FairSpec == Spec /\ Fairness

-----------------------------------------------------------------------------
(* Properties.                                                             *)

\* A recipient gets at most one report a day, except once for every delivery
\* that a failed push or a stopped process cut short: what run_once has pushed
\* before the exception is pushed again by the retry (proactive.py).
OneReportADay ==
  \A t \in Tenants, r \in Recipients : early[t][r] <= broken[t]

\* Every run that falls due is carried out, for every tenant, unless an
\* exception has ended the loop, which nothing but a restart revives.
DueIsRun ==
  \A t \in Tenants, j \in Jobs :
    (due[t][j] = 0) ~> (due[t][j] > 0 \/ loop = "dead")
=============================================================================
