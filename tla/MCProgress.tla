---------------------------- MODULE MCProgress ----------------------------
(***************************************************************************)
(* The components that owe something in time, side by side for one TLC     *)
(* run: the suggestions, the plan items that come due, the recurring jobs  *)
(* and the refresh of quiet tenants' briefs.  A behaviour picks one of     *)
(* them and keeps to it, and the fairness is that of the chosen one.       *)
(***************************************************************************)
EXTENDS Naturals

CONSTANTS
    None,                               \* model value: nothing, nobody
    t1, t2,                             \* coroutine slots
    s1, s2, d1, u1,                     \* suggestions, a text, a LINE user
    i1, n1, m1,                         \* a plan item, a chat draft, a comment
    c1, c2, r1                          \* tenants and a recipient

Slots == {t1, t2}
OneSlot == {t1}
Suggs == {s1, s2}
Texts == {d1}
Kinds == {"content_gap", "recover_sleeping"}
Users == {u1}
Items == {i1}
Inlines == {n1}
Messages == {m1}
Tenants == {c1, c2}
Recipients == {r1}
Sayings == {d1, m1}
Telling == {d1}
Judging == {m1}

VARIABLES
    part,
    suggStatus, suggKind, suggDraft, suggAge, suggReminded, suggPc, suggJob,
    suggSchedulerUp, suggAgentTask, suggPushed, suggReminders, suggTaps,
    suggFaults, suggCrashes,
    draftRow, draftRecord, draftPlatforms, draftDue, draftSeen, draftBatch,
    draftPc, draftJob, draftPosts, draftApprovals, draftDeclined, draftTaps,
    draftFaults, draftCrashes,
    jobDue, jobLocked, jobLoop, jobWake, jobTodo, jobCurrent, jobLeft, jobAgo,
    jobEarly, jobBroken, jobFaults, jobCrashes,
    learnTalk, learnQuiet, learnHeard, learnKnowledge, learnPrefs,
    learnEpisodes, learnLearnt, learnBriefs, learnBusy, learnLeft,
    learnHasTask, learnUpdates, learnDecisions, learnCrashes

suggVars == <<suggStatus, suggKind, suggDraft, suggAge, suggReminded, suggPc,
              suggJob, suggSchedulerUp, suggAgentTask, suggPushed,
              suggReminders, suggTaps, suggFaults, suggCrashes>>
draftVars == <<draftRow, draftRecord, draftPlatforms, draftDue, draftSeen,
               draftBatch, draftPc, draftJob, draftPosts, draftApprovals,
               draftDeclined, draftTaps, draftFaults, draftCrashes>>
jobVars == <<jobDue, jobLocked, jobLoop, jobWake, jobTodo, jobCurrent,
             jobLeft, jobAgo, jobEarly, jobBroken, jobFaults, jobCrashes>>
learnVars == <<learnTalk, learnQuiet, learnHeard, learnKnowledge, learnPrefs,
               learnEpisodes, learnLearnt, learnBriefs, learnBusy, learnLeft,
               learnHasTask, learnUpdates, learnDecisions, learnCrashes>>
vars == <<part, suggVars, draftVars, jobVars, learnVars>>

Suggestions == INSTANCE Suggestions WITH
    Suggs <- Suggs, Kinds <- Kinds, Customers <- Users, Drafts <- Texts,
    FirstDraft <- d1, Tasks <- OneSlot, NoJob <- None, NoTask <- None,
    MaxTaps <- 2, MaxFaults <- 1, MaxCrashes <- 1, status <- suggStatus,
    kind <- suggKind, draft <- suggDraft, age <- suggAge,
    reminded <- suggReminded, pc <- suggPc, job <- suggJob,
    schedulerUp <- suggSchedulerUp, agentTask <- suggAgentTask,
    pushed <- suggPushed, reminders <- suggReminders, taps <- suggTaps,
    faults <- suggFaults, crashes <- suggCrashes

Drafts == INSTANCE LocalDrafts WITH
    Items <- Items, Inlines <- Inlines, Messages <- Messages, Tasks <- Slots,
    NoJob <- None, MaxTaps <- 1, MaxFaults <- 1, MaxCrashes <- 1,
    row <- draftRow, record <- draftRecord, platforms <- draftPlatforms,
    due <- draftDue, seen <- draftSeen, batch <- draftBatch, pc <- draftPc,
    job <- draftJob, posts <- draftPosts, approvals <- draftApprovals,
    declined <- draftDeclined, taps <- draftTaps, faults <- draftFaults,
    crashes <- draftCrashes

Jobs == INSTANCE RecurringJobs WITH
    Tenants <- Tenants, Recipients <- Recipients, Nobody <- None, Day <- 3,
    ReportRetry <- 2, ScanRetry <- 1, MaxFaults <- 1, MaxCrashes <- 1,
    due <- jobDue, locked <- jobLocked, loop <- jobLoop, wake <- jobWake,
    todo <- jobTodo, current <- jobCurrent, left <- jobLeft, ago <- jobAgo,
    early <- jobEarly, broken <- jobBroken, faults <- jobFaults,
    crashes <- jobCrashes

Learn == INSTANCE Learning WITH
    Texts <- Sayings, Facts <- Telling, Styles <- Telling,
    Verdicts <- Judging, Nothing <- None, Edited <- t1, KnowledgeWindow <- 1,
    MemoryWindow <- 1, MaxTalk <- 2, MaxUpdates <- 0, MaxDecisions <- 0,
    MaxCrashes <- 1, talk <- learnTalk, quiet <- learnQuiet,
    heard <- learnHeard, knowledge <- learnKnowledge, prefs <- learnPrefs,
    episodes <- learnEpisodes, learnt <- learnLearnt, briefs <- learnBriefs,
    busy <- learnBusy, left <- learnLeft, hasTask <- learnHasTask,
    updates <- learnUpdates, decisions <- learnDecisions,
    crashes <- learnCrashes

-----------------------------------------------------------------------------
Init ==
  /\ part \in {"suggestions", "drafts", "jobs", "learning"}
  /\ Suggestions!Init
  /\ Drafts!Init
  /\ Jobs!Init
  /\ Learn!Init
  /\ part = "suggestions" \/ suggKind = [s \in Suggs |-> "content_gap"]

SuggestionsStep ==
  /\ part = "suggestions" /\ Suggestions!Next
  /\ UNCHANGED <<part, draftVars, jobVars, learnVars>>

DraftsStep ==
  /\ part = "drafts" /\ Drafts!Next
  /\ UNCHANGED <<part, suggVars, jobVars, learnVars>>

JobsStep ==
  /\ part = "jobs" /\ Jobs!Next
  /\ UNCHANGED <<part, suggVars, draftVars, learnVars>>

LearnStep ==
  /\ part = "learning" /\ Learn!Next
  /\ UNCHANGED <<part, suggVars, draftVars, jobVars>>

Next ==
  \/ SuggestionsStep
  \/ DraftsStep
  \/ JobsStep
  \/ LearnStep

Fairness ==
  /\ WF_suggVars(part = "suggestions" /\ Suggestions!TaskSteps(t1))
  /\ WF_suggVars(part = "suggestions" /\ Suggestions!SchedulerRound)
  /\ \A s \in Suggs : WF_suggVars(part = "suggestions" /\ Suggestions!Ages(s))
  /\ WF_draftVars(part = "drafts" /\ Drafts!LoopTick)
  /\ WF_draftVars(part = "drafts" /\ \E i \in Items : Drafts!DispatchItem(i))
  /\ WF_draftVars(part = "drafts" /\ Drafts!ItemDrafted)
  /\ \A p \in Slots \union {Drafts!Loop} :
       /\ WF_draftVars(part = "drafts" /\ Drafts!SavePendingApproval(p))
       /\ WF_draftVars(part = "drafts" /\ Drafts!Notified(p))
  /\ \A t \in Slots : WF_draftVars(part = "drafts" /\ Drafts!RequestSteps(t))
  /\ WF_jobVars(part = "jobs" /\ Jobs!LoopStep)
  /\ WF_jobVars(part = "jobs" /\ Jobs!Tick)
  /\ WF_learnVars(part = "learning" /\ Learn!IdleRefresh)
  /\ WF_learnVars(part = "learning" /\ Learn!SaveBrief)
  /\ WF_learnVars(part = "learning" /\ Learn!Promote)
  /\ WF_learnVars(part = "learning" /\ Learn!GrowsQuiet)

Spec == Init /\ [][Next]_vars /\ Fairness

-----------------------------------------------------------------------------
\* A suggestion that waits for the owner is decided, sent or expired.
OpenEnds == Suggestions!OpenEnds

\* A content plan's item that is due is drafted or marked failed.
DueIsDrafted == Drafts!DueIsDrafted

\* A recurring job that falls due is run, unless an exception ended the loop,
\* and a tenant that has gone quiet gets a summary of what was said last.
DueIsRun ==
  /\ part = "jobs" => Jobs!DueIsRun
  /\ part = "learning" => Learn!QuietIsSummarised
=============================================================================
