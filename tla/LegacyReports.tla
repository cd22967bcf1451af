--------------------------- MODULE LegacyReports ---------------------------
(***************************************************************************)
(* The first Kachu's report on the posts of the day before: every hour     *)
(* src/kachu/scheduler.py calls the endpoint send-post-performance-report  *)
(* (src/kachu/tools/router.py) of its own application, which walks the     *)
(* photo runs of the right age.  A scan ends before the next hour: each of *)
(* its calls is given up after seconds.  Every step is the code between    *)
(* two awaits.                                                             *)
(***************************************************************************)
EXTENDS Naturals

CONSTANTS
    Posts, Recipients, Nobody,
    MaxHour,
    MinAge, MaxAge,             \* hours after which a post is reported on
    MaxFaults, MaxCrashes

VARIABLES
    clock,      \* hours since the start
    up,         \* the process runs
    published,  \* the hour a post was published, MaxHour + 1 before
    scan,       \* the scan in progress
    reported,   \* posts whose report is audited
    reports,    \* reports on a post a recipient got
    broken,     \* deliveries of a post's report that broke off
    faults, crashes

bounds == <<faults, crashes>>
vars == <<clock, up, published, scan, reported, reports, broken, bounds>>

NoScan == [at |-> "idle", todo |-> {}, post |-> Nobody, to |-> {}]
Fault  == faults < MaxFaults /\ faults' = faults + 1 /\ UNCHANGED crashes

TypeOK ==
    /\ clock \in 0..MaxHour /\ up \in BOOLEAN
    /\ published \in [Posts -> 0..MaxHour + 1]
    /\ scan \in [at : {"idle", "next", "pushing"}, todo : SUBSET Posts,
                 post : Posts \cup {Nobody}, to : SUBSET Recipients]
    /\ reported \subseteq Posts
    /\ reports \in [Posts -> [Recipients -> Nat]] /\ broken \in [Posts -> Nat]
    /\ faults \in 0..MaxFaults /\ crashes \in 0..MaxCrashes

Init ==
    /\ clock = 0 /\ up = TRUE
    /\ published = [p \in Posts |-> MaxHour + 1] /\ scan = NoScan
    /\ reported = {} /\ reports = [p \in Posts |-> [r \in Recipients |-> 0]]
    /\ broken = [p \in Posts |-> 0]
    /\ faults = 0 /\ crashes = 0

-----------------------------------------------------------------------------
\* The pipeline finishes a photo run with a Facebook post.
Publish(p) ==
    /\ up /\ published[p] > MaxHour
    /\ published' = [published EXCEPT ![p] = clock]
    /\ UNCHANGED <<clock, up, scan, reported, reports, broken, bounds>>

\* list_completed_photo_runs_for_perf_check.
Eligible == {p \in Posts : published[p] + MinAge <= clock /\ clock <= published[p] + MaxAge}

\* The scheduler's hour; a process that is down misses it.
Hour ==
    /\ clock < MaxHour /\ clock' = clock + 1 /\ scan.at = "idle"
    /\ scan' = IF up THEN [NoScan EXCEPT !.at = "next", !.todo = Posts] ELSE scan
    /\ UNCHANGED <<up, published, reported, reports, broken, bounds>>

\* Mutant: the audit of an earlier report is not looked for.
DueEligible == Eligible

\* has_recent_audit_event: the posts of the right age not reported on yet.
DueReports == Eligible \ reported

\* send_post_performance_report: a post's insights are there.
NextReport(p) ==
    /\ scan.at = "next" /\ p \in scan.todo \cap DueReports
    /\ scan' = [at |-> "pushing", todo |-> scan.todo \ {p}, post |-> p, to |-> Recipients]
    /\ UNCHANGED <<clock, up, published, reported, reports, broken, bounds>>

\* The Graph API fails: the post is left to the next hour.
InsightsFail(p) ==
    /\ scan.at = "next" /\ p \in scan.todo \cap DueReports /\ Fault
    /\ scan' = [scan EXCEPT !.todo = @ \ {p}]
    /\ UNCHANGED <<clock, up, published, reported, reports, broken>>

ScanEnds ==
    /\ scan.at = "next" /\ scan.todo \cap DueReports = {}
    /\ scan' = NoScan
    /\ UNCHANGED <<clock, up, published, reported, reports, broken, bounds>>

Received(r) == [reports EXCEPT ![scan.post][r] = @ + 1]

Push(r) ==
    /\ scan.at = "pushing" /\ r \in scan.to
    /\ reports' = Received(r)
    /\ scan' = [scan EXCEPT !.to = @ \ {r}]
    /\ UNCHANGED <<clock, up, published, reported, broken, bounds>>

\* A push fails, or its answer is lost: the recipients after it are skipped and
\* nothing is audited.
PushFails(r) ==
    /\ scan.at = "pushing" /\ r \in scan.to /\ Fault
    /\ reports' \in {reports, Received(r)}
    /\ broken' = [broken EXCEPT ![scan.post] = @ + 1]
    /\ scan' = [scan EXCEPT !.at = "next", !.post = Nobody, !.to = {}]
    /\ UNCHANGED <<clock, up, published, reported>>

\* save_audit_event, once every recipient has it.
Audit ==
    /\ scan.at = "pushing" /\ scan.to = {}
    /\ reported' = reported \cup {scan.post}
    /\ scan' = [scan EXCEPT !.at = "next", !.post = Nobody]
    /\ UNCHANGED <<clock, up, published, reports, broken, bounds>>

Crash ==
    /\ up /\ crashes < MaxCrashes /\ crashes' = crashes + 1
    /\ up' = FALSE /\ scan' = NoScan
    /\ broken' = IF scan.at = "pushing" THEN [broken EXCEPT ![scan.post] = @ + 1] ELSE broken
    /\ UNCHANGED <<clock, published, reported, reports, faults>>

Restart ==
    /\ ~up /\ up' = TRUE
    /\ UNCHANGED <<clock, published, scan, reported, reports, broken, bounds>>

Next ==
    \/ \E p \in Posts : Publish(p) \/ NextReport(p) \/ InsightsFail(p)
    \/ \E r \in Recipients : Push(r) \/ PushFails(r)
    \/ Hour \/ ScanEnds \/ Audit \/ Crash \/ Restart

Spec == Init /\ [][Next]_vars

-----------------------------------------------------------------------------
\* A recipient gets one report on a post, and one more for each time its
\* delivery broke off: over hourly scans, restarts and lost answers.
ReportedOnce == \A p \in Posts, r \in Recipients : reports[p][r] <= 1 + broken[p]
=============================================================================
