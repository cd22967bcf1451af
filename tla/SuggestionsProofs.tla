------------------------- MODULE SuggestionsProofs -------------------------
(***************************************************************************)
(* Proofs about Suggestions, for any rows, customers, drafts and coroutine *)
(* slots and any bounds.                                                   *)
(***************************************************************************)
EXTENDS Suggestions, TLAPS

\* What expire_due_suggestions leaves is a status of each row (repository.py).
LEMMA ExpireDueType ==
    ASSUME TypeOK
    PROVE  /\ ExpireDue \in [Suggs -> Statuses]
           /\ \A s \in Suggs :
                \/ ExpireDue[s] = status[s]
                \/ ExpireDue[s] = "expired" /\ status[s] \in Active
BY DEF TypeOK, ExpireDue, Statuses, Active

\* What a coroutine keeps across its awaits is a job (suggestions.py).
LEMMA HeldType ==
    ASSUME TypeOK, NEW s \in Suggs, NEW d \in Drafts, NEW todo \in SUBSET Targets
    PROVE  Held(s, d, todo) \in Jobs
BY DEF TypeOK, Held, Jobs

\* Every value the model keeps stays in its set.
THEOREM TypeCorrect == Spec => []TypeOK
<1>1. Init => TypeOK
  BY FirstDraftIsDraft DEF Init, TypeOK, Statuses
<1>2. TypeOK /\ [Next]_vars => TypeOK'
  <2> SUFFICES ASSUME TypeOK, [Next]_vars PROVE TypeOK'
    OBVIOUS
  <2>1. ASSUME NEW s \in Suggs, Dismiss(s) \/ Report(s) PROVE TypeOK'
    <3>1. /\ \E new \in Statuses : status' = [status EXCEPT ![s] = new]
          /\ taps' = taps + 1
      BY <2>1 DEF Dismiss, Report, Statuses, Tap
    <3>2. UNCHANGED <<kind, draft, reminded, age, procVars, schedulerUp, outside,
                      faults, crashes>>
      BY <2>1 DEF Dismiss, Report, Tap
    <3>3. QED
      BY <3>1, <3>2 DEF TypeOK, procVars, outside
  <2>2. ASSUME NEW s \in Suggs, NEW d \in Drafts,
               Accept(s, d) \/ SendToNobody(s, d) \/ SendUnsupported(s, d)
        PROVE  TypeOK'
    <3>1. /\ \E new \in Statuses : status' = [status EXCEPT ![s] = new]
          /\ draft' = [draft EXCEPT ![s] = d]
          /\ taps' = taps + 1
      BY <2>2 DEF Accept, SendToNobody, SendUnsupported, Statuses, Active, Tap
    <3>2. UNCHANGED <<kind, reminded, age, procVars, schedulerUp, outside, faults, crashes>>
      BY <2>2 DEF Accept, SendToNobody, SendUnsupported, Tap
    <3>3. QED
      BY <3>1, <3>2 DEF TypeOK, procVars, outside
  <2>3. ASSUME NEW s \in Suggs, NEW d \in Drafts, NEW t \in Tasks,
               NEW todo \in SUBSET Targets, Send(t, s, d, todo)
        PROVE  TypeOK'
    <3>1. Held(s, d, todo) \in Jobs
      BY HeldType
    <3>2. QED
      BY <2>3, <3>1 DEF TypeOK, Send, Begin, Statuses, Tap, outside
  <2>4. ASSUME NEW s \in Suggs, ScanCreates(s) PROVE TypeOK'
    BY <2>4, ExpireDueType DEF TypeOK, ScanCreates, Create, Statuses, Active,
       procVars, outside, counters
  <2>5. ASSUME NEW s \in Suggs, NEW t \in Tasks, ScanPrepares(t, s) PROVE TypeOK'
    <3>1. Held(s, draft[s], {AgentOS}) \in Jobs
      BY HeldType DEF TypeOK, Targets
    <3>2. QED
      BY <2>5, <3>1, ExpireDueType DEF TypeOK, ScanPrepares, Create, Begin, Statuses, Active,
         outside, counters
  <2>6. ASSUME NEW k \in Kinds, ScanFindsActive(k) PROVE TypeOK'
    BY <2>6, ExpireDueType DEF TypeOK, ScanFindsActive, procVars, outside, counters
  <2>7. ASSUME NEW t \in Tasks, PrepareStarts(t) PROVE TypeOK'
    <3>1. job[t] \in Jobs /\ job[t].sugg \in Suggs
      BY <2>7 DEF TypeOK, PrepareStarts, Jobs
    <3>2. Held(job[t].sugg, draft[job[t].sugg], {AgentOS}) \in Jobs
      BY <3>1, HeldType DEF TypeOK, Targets
    <3>3. \/ /\ pc' = [pc EXCEPT ![t] = "preparing"]
             /\ \E j \in Jobs : job' = [job EXCEPT ![t] = j]
          \/ /\ pc' = [pc EXCEPT ![t] = "idle"]
             /\ job' = [job EXCEPT ![t] = NoJob]
      BY <2>7, <3>2 DEF PrepareStarts, Finish
    <3>4. UNCHANGED <<rowVars, age, schedulerUp, outside, counters>>
      BY <2>7 DEF PrepareStarts
    <3>5. QED
      BY <3>3, <3>4 DEF TypeOK, rowVars, outside, counters
  <2>8. ASSUME NEW t \in Tasks, PrepareEnds(t) \/ SendEnds(t) PROVE TypeOK'
    <3>1. job[t] \in Jobs
      BY <2>8 DEF TypeOK, PrepareEnds, SendEnds
    <3>2. status' \in [Suggs -> Statuses]
      <4>1. \/ UNCHANGED status
            \/ \E new \in Statuses : status' = [status EXCEPT ![job[t].sugg] = new]
        BY <2>8 DEF PrepareEnds, SendEnds, Statuses
      <4>2. QED
        BY <4>1 DEF TypeOK
    <3>3. draft' \in [Suggs -> Drafts] /\ reminded' \in [Suggs -> BOOLEAN]
      BY <2>8, <3>1 DEF TypeOK, Jobs, PrepareEnds, SendEnds
    <3>4. Finish(t) /\ UNCHANGED <<kind, age, schedulerUp, outside, counters>>
      BY <2>8 DEF PrepareEnds, SendEnds
    <3>5. QED
      BY <3>2, <3>3, <3>4 DEF TypeOK, Finish, outside, counters
  <2>9. ASSUME NEW t \in Tasks, NEW x \in Targets, Deliver(t, x) PROVE TypeOK'
    <3>1. job[t] \in Jobs
      BY <2>9 DEF TypeOK, Deliver
    <3>2. [job[t] EXCEPT !.todo = @ \ {x}] \in Jobs
      BY <3>1 DEF Jobs
    <3>3. job' = [job EXCEPT ![t] = [job[t] EXCEPT !.todo = @ \ {x}]]
      BY <2>9 DEF Deliver
    <3>4. agentTask' \in [AgentOSKinds -> AgentOSTasks \cup {NoTask}]
      <4>1. job[t].sugg \in Suggs /\ job[t].draft \in Drafts
        BY <3>1 DEF Jobs
      <4>2. [sugg |-> job[t].sugg, draft |-> job[t].draft] \in AgentOSTasks
        BY <4>1 DEF AgentOSTasks
      <4>3. CASE x = AgentOS
        BY <2>9, <4>2, <4>3 DEF TypeOK, Deliver, CreateTask
      <4>4. CASE x # AgentOS
        BY <2>9, <4>4 DEF TypeOK, Deliver
      <4>5. QED
        BY <4>3, <4>4
    <3>5. pushed' \in [Suggs -> [Customers -> Seq(Drafts)]]
      <4>1. CASE x = AgentOS
        BY <2>9, <4>1 DEF TypeOK, Deliver
      <4>2. CASE x # AgentOS
        <5> DEFINE s == job[t].sugg
                   line == Append(pushed[s][x], job[t].draft)
        <5>1. x \in Customers /\ s \in Suggs /\ job[t].draft \in Drafts
          BY <3>1, <4>2 DEF Targets, Jobs
        <5>2. pushed[s] \in [Customers -> Seq(Drafts)] /\ line \in Seq(Drafts)
          BY <5>1 DEF TypeOK
        <5>3. pushed' = [pushed EXCEPT ![s] = [pushed[s] EXCEPT ![x] = line]]
          BY <2>9, <4>2 DEF Deliver
        <5> HIDE DEF s, line
        <5>4. QED
          BY <5>1, <5>2, <5>3 DEF TypeOK
      <4>3. QED
        BY <4>1, <4>2
    <3>6. UNCHANGED <<rowVars, age, pc, schedulerUp, reminders, counters>>
      BY <2>9 DEF Deliver
    <3>7. job' \in [Tasks -> Jobs \cup {NoJob}]
          /\ \A u \in Tasks : pc'[u] # "idle" => job'[u] \in Jobs
      BY <3>2, <3>3, <3>6 DEF TypeOK
    <3>8. QED
      BY <3>4, <3>5, <3>6, <3>7 DEF TypeOK, rowVars, counters
  <2>10. ASSUME NEW t \in Tasks, CallFails(t) PROVE TypeOK'
    BY <2>10 DEF TypeOK, CallFails, Finish, rowVars, outside
  <2>11. CASE RemindRound
    <3>1. reminders' \in [Suggs -> Nat]
      BY <2>11 DEF TypeOK, RemindRound
    <3>2. reminded' \in [Suggs -> BOOLEAN]
      BY <2>11 DEF TypeOK, RemindRound
    <3>3. /\ status' = ExpireDue
          /\ UNCHANGED <<kind, draft, age, procVars, schedulerUp, agentTask, pushed, counters>>
      BY <2>11 DEF RemindRound
    <3>4. QED
      BY <3>1, <3>2, <3>3, ExpireDueType DEF TypeOK, procVars, counters
  <2>12. CASE QuietRound
    <3>1. /\ status' \in [Suggs -> Statuses]
          /\ UNCHANGED <<kind, draft, reminded, age, procVars, schedulerUp, outside, counters>>
      BY <2>12, ExpireDueType DEF QuietRound
    <3>2. QED
      BY <3>1 DEF TypeOK, procVars, outside, counters
  <2>13. CASE SchedulerDies
    <3>1. schedulerUp' \in BOOLEAN /\ faults' = faults + 1
      BY <2>13 DEF SchedulerDies
    <3>2. UNCHANGED <<rowVars, age, procVars, outside, taps, crashes>>
      BY <2>13 DEF SchedulerDies
    <3>3. QED
      BY <3>1, <3>2 DEF TypeOK, rowVars, procVars, outside
  <2>14. ASSUME NEW s \in Suggs, Ages(s) PROVE TypeOK'
    BY <2>14 DEF TypeOK, Ages, rowVars, procVars, outside, counters
  <2>15. CASE Crash
    BY <2>15 DEF TypeOK, Crash, rowVars, outside
  <2>16. CASE UNCHANGED vars
    BY <2>16 DEF TypeOK, vars, rowVars, procVars, outside, counters
  <2>17. QED
    BY <2>1, <2>2, <2>3, <2>4, <2>5, <2>6, <2>7, <2>8, <2>9, <2>10, <2>11, <2>12, <2>13,
       <2>14, <2>15, <2>16
    DEF Next, OwnerActs, Scan, TaskSteps, SchedulerRound
<1>3. QED
  BY <1>1, <1>2, PTL DEF Spec

-----------------------------------------------------------------------------

\* The job of a coroutine under way names a row, a text and targets.
LEMMA JobKnown ==
    ASSUME TypeOK, NEW t \in Tasks, pc[t] # "idle"
    PROVE  /\ job[t].sugg \in Suggs
           /\ job[t].draft \in Drafts
           /\ job[t].todo \subseteq Targets
BY DEF TypeOK, Jobs

Told == {"sending", "sent", "reported"}

\* A step that tells nobody: rows are decided, expire or begin to be sent by
\* nobody, and told rows keep their text.
RowKept(s) ==
    /\ status'[s] \in Active \cup {"absent"} => status[s] \in Active \cup {"absent"}
    /\ status[s] \in Told =>
        /\ draft'[s] = draft[s]
        /\ status'[s] = status[s] \/ (status[s] = "sent" /\ status'[s] = "reported")
    /\ status[s] \notin Told /\ status'[s] \in Told =>
        /\ status[s] \in Active
        /\ kind[s] \in AgentOSKinds => status'[s] = "sending"

\* Coroutines end, or begin to prepare a content gap.
JobKept(t) ==
    \/ pc'[t] = "idle"
    \/ pc'[t] = pc[t] /\ job'[t] = job[t]
    \/ /\ pc'[t] \in {"created", "preparing"}
       /\ job'[t].todo = {AgentOS}
       /\ kind[job'[t].sugg] = ContentGap

\* Steps that tell nobody keep what is known of sending (suggestions.py).
LEMMA CalmStep ==
    ASSUME TypeOK, SendInv, UNCHANGED <<kind, pushed, agentTask>>,
           \A s \in Suggs : RowKept(s), \A t \in Tasks : JobKept(t)
    PROVE  SendInv'
<1>1. UnsentIsUntold'
  BY DEF SendInv, UnsentIsUntold, RowKept
<1>2. OnlyCampaignsPush' /\ NobodyReachedTwice'
  BY DEF SendInv, OnlyCampaignsPush, NobodyReachedTwice
<1>3. ASSUME NEW t \in Tasks PROVE Sender(t)'
  <2>1. CASE pc'[t] = "idle"
    BY <2>1 DEF Sender
  <2>2. CASE pc'[t] # "idle" /\ pc'[t] = pc[t] /\ job'[t] = job[t]
    <3>1. job[t].sugg \in Suggs
      BY <2>2, JobKnown
    <3>2. RowKept(job[t].sugg) /\ Sender(t)
      BY <3>1 DEF SendInv
    <3>3. QED
      BY <2>2, <3>2 DEF Sender, RowKept, Told
  <2>3. CASE /\ pc'[t] \in {"created", "preparing"}
             /\ job'[t].todo = {AgentOS}
             /\ kind[job'[t].sugg] = ContentGap
    BY <2>3 DEF Sender
  <2>4. QED
    BY <2>1, <2>2, <2>3 DEF JobKept
<1>4. OneSender'
  BY DEF SendInv, OneSender, JobKept
<1>5. SentAsWritten'
  <2> SUFFICES ASSUME NEW s \in Suggs, status'[s] \in Told
               PROVE  /\ \A c \in Customers : \A i \in 1..Len(pushed[s][c]) :
                            pushed[s][c][i] = draft'[s]
                      /\ kind[s] = UnansweredReviews => \A d \in Drafts :
                            agentTask[kind[s]] = [sugg |-> s, draft |-> d] => d = draft'[s]
                      /\ status'[s] # "sending" /\ kind[s] \in AgentOSKinds =>
                            agentTask[kind[s]] # NoTask
    BY DEF SentAsWritten, Told
  <2>1. CASE status[s] \in Told
    BY <2>1 DEF SendInv, SentAsWritten, RowKept, Told
  <2>2. CASE status[s] \notin Told
    <3>1. status[s] \in Active /\ (kind[s] \in AgentOSKinds => status'[s] = "sending")
      BY <2>2 DEF RowKept
    <3>2. \A c \in Customers : Len(pushed[s][c]) = 0
      BY <3>1 DEF SendInv, UnsentIsUntold
    <3>3. QED
      BY <3>1, <3>2 DEF SendInv, UnsentIsUntold
  <2>3. QED
    BY <2>1, <2>2
<1>6. QED
  BY <1>1, <1>2, <1>3, <1>4, <1>5 DEF SendInv

\* A send takes an open row, which nobody was told of (suggestions.py, send).
LEMMA SendStep ==
    ASSUME TypeOK, SendInv, NEW t \in Tasks, NEW s \in Suggs, NEW d \in Drafts,
           NEW todo \in SUBSET Targets, Send(t, s, d, todo)
    PROVE  SendInv'
<1>1. /\ status[s] \in Active
      /\ status' = [status EXCEPT ![s] = "sending"]
      /\ draft' = [draft EXCEPT ![s] = d]
      /\ pc' = [pc EXCEPT ![t] = "sending"]
      /\ job' = [job EXCEPT ![t] = Held(s, d, todo)]
      /\ UNCHANGED <<kind, pushed, agentTask>>
  BY DEF Send, Begin, outside
<1>2. IF kind[s] \in AgentOSKinds THEN todo = {AgentOS}
      ELSE kind[s] = RecoverSleeping /\ todo \subseteq Customers
  BY DEF Send
<1>3. /\ \A c \in Customers : pushed[s][c] = <<>>
      /\ kind[s] = UnansweredReviews =>
             \A e \in Drafts : agentTask[kind[s]] # [sugg |-> s, draft |-> e]
  BY <1>1 DEF SendInv, UnsentIsUntold
<1>4. \A u \in Tasks : pc[u] = "sending" => job[u].sugg \in Suggs /\ job[u].sugg # s
  BY <1>1, JobKnown DEF SendInv, Sender, Active
<1>5. job'[t].sugg = s /\ job'[t].draft = d /\ job'[t].todo = todo /\ pc'[t] = "sending"
  BY <1>1 DEF TypeOK, Held
<1>6. \A u \in Tasks : u # t => pc'[u] = pc[u] /\ job'[u] = job[u]
  BY <1>1 DEF TypeOK
<1>7. UnsentIsUntold' /\ OnlyCampaignsPush' /\ NobodyReachedTwice'
  BY <1>1 DEF TypeOK, SendInv, UnsentIsUntold, OnlyCampaignsPush, NobodyReachedTwice, Active
<1>8. ASSUME NEW u \in Tasks PROVE Sender(u)'
  <2>1. CASE u = t
    <3>1. status'[s] = "sending" /\ draft'[s] = d
      BY <1>1 DEF TypeOK
    <3>2. QED
      BY <1>1, <1>2, <1>3, <1>5, <2>1, <3>1 DEF Sender, AgentOSKinds
  <2>2. CASE u # t
    <3>1. pc[u] = "sending" =>
              /\ status'[job[u].sugg] = status[job[u].sugg]
              /\ draft'[job[u].sugg] = draft[job[u].sugg]
      BY <1>1, <1>4 DEF TypeOK
    <3>2. Sender(u)
      BY DEF SendInv
    <3>3. QED
      BY <1>1, <1>6, <2>2, <3>1, <3>2 DEF Sender
  <2>3. QED
    BY <2>1, <2>2
<1>9. OneSender'
  BY <1>4, <1>5, <1>6 DEF SendInv, OneSender
<1>10. SentAsWritten'
  <2> SUFFICES ASSUME NEW r \in Suggs, status'[r] \in Told
               PROVE  /\ \A c \in Customers : \A i \in 1..Len(pushed[r][c]) :
                            pushed[r][c][i] = draft'[r]
                      /\ kind[r] = UnansweredReviews => \A e \in Drafts :
                            agentTask[kind[r]] = [sugg |-> r, draft |-> e] => e = draft'[r]
                      /\ status'[r] # "sending" /\ kind[r] \in AgentOSKinds =>
                            agentTask[kind[r]] # NoTask
    BY <1>1 DEF SentAsWritten, Told
  <2>1. CASE r = s
    <3>1. status'[r] = "sending" /\ \A c \in Customers : Len(pushed[r][c]) = 0
      BY <1>1, <1>3, <2>1 DEF TypeOK
    <3>2. QED
      BY <1>3, <2>1, <3>1
  <2>2. CASE r # s
    <3>1. status'[r] = status[r] /\ draft'[r] = draft[r]
      BY <1>1, <2>2 DEF TypeOK
    <3>2. QED
      BY <3>1 DEF SendInv, SentAsWritten, Told
  <2>3. QED
    BY <2>1, <2>2
<1>11. QED
  BY <1>7, <1>8, <1>9, <1>10 DEF SendInv

\* A coroutine that writes its row back, after its calls (suggestions.py).
LEMMA EndStep ==
    ASSUME TypeOK, SendInv, NEW t \in Tasks, PrepareEnds(t) \/ SendEnds(t)
    PROVE  SendInv'
<1> DEFINE s == job[t].sugg
<1>1. s \in Suggs /\ job[t].draft \in Drafts /\ Sender(t)
  BY JobKnown DEF PrepareEnds, SendEnds, SendInv
<1>2. /\ pc' = [pc EXCEPT ![t] = "idle"]
      /\ job' = [job EXCEPT ![t] = NoJob]
      /\ UNCHANGED <<kind, pushed, agentTask>>
  BY DEF PrepareEnds, SendEnds, Finish, outside
<1>3. \/ status' = status /\ draft' = draft
      \/ status' = [status EXCEPT ![s] = "sent"] /\ draft' = draft
      \/ /\ status' = [status EXCEPT ![s] = "sent"]
         /\ draft' = [draft EXCEPT ![s] = job[t].draft]
  BY DEF PrepareEnds, SendEnds
<1>4. \/ kind[s] = ContentGap
      \/ /\ pc[t] = "sending"
         /\ status[s] = "sending"
         /\ job[t].draft = draft[s]
  BY <1>1 DEF PrepareEnds, SendEnds, Sender
<1>5. kind[s] \in AgentOSKinds => agentTask[kind[s]] # NoTask
  BY <1>1 DEF PrepareEnds, SendEnds, Sender
<1>6. \A r \in Suggs : r # s => status'[r] = status[r] /\ draft'[r] = draft[r]
  BY <1>3 DEF TypeOK
<1>7. \/ status'[s] = status[s] /\ draft'[s] = draft[s]
      \/ status'[s] = "sent" /\ (kind[s] = ContentGap \/ draft'[s] = draft[s])
  BY <1>1, <1>3, <1>4 DEF TypeOK
<1> HIDE DEF s
<1>8. UnsentIsUntold' /\ OnlyCampaignsPush' /\ NobodyReachedTwice'
  BY <1>2, <1>6, <1>7 DEF SendInv, UnsentIsUntold, OnlyCampaignsPush, NobodyReachedTwice,
     Active
<1>9. \A u \in Tasks : u # t => pc'[u] = pc[u] /\ job'[u] = job[u]
  BY <1>2 DEF TypeOK
<1>10. ASSUME NEW u \in Tasks PROVE Sender(u)'
  <2>1. CASE u = t
    <3>1. pc'[u] = "idle"
      BY <1>2, <2>1 DEF TypeOK
    <3>2. QED
      BY <3>1 DEF Sender
  <2>2. CASE u # t
    <3>1. Sender(u) /\ pc'[u] = pc[u] /\ job'[u] = job[u]
      BY <1>9, <2>2 DEF SendInv
    <3>2. CASE pc[u] = "sending"
      <4>1. job[u].sugg \in Suggs
        BY <3>2, JobKnown
      <4>2. kind[s] # ContentGap => job[u].sugg # s
        BY <1>4, <2>2, <3>2 DEF SendInv, OneSender, s
      <4>3. \/ /\ status'[job[u].sugg] = status[job[u].sugg]
               /\ draft'[job[u].sugg] = draft[job[u].sugg]
            \/ kind[job[u].sugg] = ContentGap /\ status'[job[u].sugg] = "sent"
        BY <1>6, <1>7, <4>1, <4>2
      <4>4. QED
        BY <1>2, <3>1, <3>2, <4>3 DEF Sender
    <3>3. CASE pc[u] # "sending"
      BY <1>2, <3>1, <3>3 DEF Sender
    <3>4. QED
      BY <3>2, <3>3
  <2>3. QED
    BY <2>1, <2>2
<1>11. OneSender'
  <2>1. \A u \in Tasks : pc'[u] = "sending" => u # t
    BY <1>2 DEF TypeOK
  <2>2. QED
    BY <1>9, <2>1 DEF SendInv, OneSender
<1>12. SentAsWritten'
  <2> SUFFICES ASSUME NEW r \in Suggs, status'[r] \in Told
               PROVE  /\ \A c \in Customers : \A i \in 1..Len(pushed[r][c]) :
                            pushed[r][c][i] = draft'[r]
                      /\ kind[r] = UnansweredReviews => \A e \in Drafts :
                            agentTask[kind[r]] = [sugg |-> r, draft |-> e] => e = draft'[r]
                      /\ status'[r] # "sending" /\ kind[r] \in AgentOSKinds =>
                            agentTask[kind[r]] # NoTask
    BY <1>2 DEF SentAsWritten, Told
  <2>1. CASE status'[r] = status[r] /\ draft'[r] = draft[r]
    BY <2>1 DEF SendInv, SentAsWritten, Told
  <2>2. CASE r = s /\ kind[s] = ContentGap
    <3>1. \A c \in Customers : Len(pushed[r][c]) = 0
      BY <2>2 DEF SendInv, OnlyCampaignsPush, ContentGap, RecoverSleeping
    <3>2. QED
      BY <1>5, <2>2, <3>1 DEF ContentGap, UnansweredReviews
  <2>3. CASE r = s /\ kind[s] # ContentGap /\ status'[s] = "sent"
    <3>1. status[r] \in Told /\ draft'[r] = draft[r]
      BY <1>4, <1>7, <2>3 DEF Told, s
    <3>2. QED
      BY <1>5, <2>3, <3>1 DEF SendInv, SentAsWritten, Told
  <2>4. QED
    BY <1>6, <1>7, <2>1, <2>2, <2>3
<1>13. QED
  BY <1>8, <1>10, <1>11, <1>12 DEF SendInv

\* AgentOS takes a dispatch: it keeps the task it has, or makes one that says
\* what the row says (service.py, the idempotency key of dispatch).
LEMMA DispatchStep ==
    ASSUME TypeOK, SendInv, NEW t \in Tasks, Deliver(t, AgentOS)
    PROVE  SendInv'
<1> DEFINE s == job[t].sugg
           new == [sugg |-> s, draft |-> job[t].draft]
<1>1. s \in Suggs /\ job[t].draft \in Drafts /\ Sender(t)
  BY JobKnown DEF Deliver, SendInv
<1>2. /\ AgentOS \in job[t].todo
      /\ agentTask' = [agentTask EXCEPT ![kind[s]] = IF @ = NoTask THEN new ELSE @]
      /\ job' = [job EXCEPT ![t].todo = @ \ {AgentOS}]
      /\ UNCHANGED <<status, draft, kind, pc, pushed>>
  BY DEF Deliver, CreateTask, rowVars
<1>3. /\ kind[s] \in AgentOSKinds
      /\ \/ kind[s] = ContentGap
         \/ pc[t] = "sending" /\ status[s] = "sending" /\ job[t].draft = draft[s]
  BY <1>1, <1>2, AgentOSIsNoCustomer DEF Deliver, Sender, AgentOSKinds
<1>4. new \in AgentOSTasks /\ new # NoTask /\ new.sugg = s /\ new.draft = job[t].draft
  BY <1>1, NoTaskIsNone DEF AgentOSTasks
<1>5. \A k \in AgentOSKinds :
        \/ agentTask'[k] = agentTask[k] /\ (agentTask[k] # NoTask \/ k # kind[s])
        \/ agentTask[k] = NoTask /\ k = kind[s] /\ agentTask'[k] = new
  BY <1>2, <1>3 DEF TypeOK
<1>6. UnansweredReviews \in AgentOSKinds /\ UnansweredReviews # ContentGap
  BY DEF AgentOSKinds, UnansweredReviews, ContentGap
<1>7. \A u \in Tasks :
        /\ job'[u].sugg = job[u].sugg /\ job'[u].draft = job[u].draft
        /\ u # t => job'[u].todo = job[u].todo
  BY <1>1, <1>2 DEF TypeOK, Deliver, Jobs
<1>8. job'[t].todo = job[t].todo \ {AgentOS}
  BY <1>2 DEF TypeOK, Deliver, Jobs
<1> HIDE DEF s, new
<1>9. UnsentIsUntold'
  <2> SUFFICES ASSUME NEW r \in Suggs, status[r] \in Active \cup {"absent"},
                      kind[r] = UnansweredReviews, NEW d \in Drafts
               PROVE  agentTask'[kind[r]] # [sugg |-> r, draft |-> d]
    BY <1>2 DEF SendInv, UnsentIsUntold
  <2>1. agentTask[kind[r]] # [sugg |-> r, draft |-> d]
    BY DEF SendInv, UnsentIsUntold
  <2>2. CASE agentTask'[kind[r]] = agentTask[kind[r]]
    BY <2>1, <2>2
  <2>3. CASE kind[r] = kind[s] /\ agentTask'[kind[r]] = new
    <3>1. r # s
      BY <1>3, <1>6, <2>3 DEF Active
    <3>2. QED
      BY <1>4, <2>3, <3>1
  <2>4. QED
    BY <1>5, <1>6, <2>2, <2>3
<1>10. OnlyCampaignsPush' /\ NobodyReachedTwice'
  BY <1>2 DEF SendInv, OnlyCampaignsPush, NobodyReachedTwice
<1>11. ASSUME NEW u \in Tasks PROVE Sender(u)'
  <2>1. Sender(u)
    BY DEF SendInv
  <2>2. /\ job'[u].sugg = job[u].sugg /\ job'[u].draft = job[u].draft
        /\ job'[u].todo \subseteq job[u].todo
        /\ UNCHANGED <<status, draft, kind, pc, pushed>>
    BY <1>2, <1>7, <1>8
  <2>3. pc[u] \in {"preparing", "sending"} /\ kind[job[u].sugg] \in AgentOSKinds =>
            AgentOS \in job'[u].todo \/ agentTask'[kind[job[u].sugg]] # NoTask
    <3>1. CASE u = t
      BY <1>3, <1>4, <1>5, <3>1 DEF s
    <3>2. CASE u # t
      BY <1>4, <1>5, <1>7, <2>1, <3>2 DEF Sender
    <3>3. QED
      BY <3>1, <3>2
  <2>4. QED
    BY <2>1, <2>2, <2>3 DEF Sender
<1>12. OneSender'
  BY <1>2, <1>7 DEF SendInv, OneSender
<1>13. SentAsWritten'
  <2> SUFFICES ASSUME NEW r \in Suggs, status[r] \in Told
               PROVE  /\ \A c \in Customers : \A i \in 1..Len(pushed[r][c]) :
                            pushed[r][c][i] = draft[r]
                      /\ kind[r] = UnansweredReviews => \A d \in Drafts :
                            agentTask'[kind[r]] = [sugg |-> r, draft |-> d] => d = draft[r]
                      /\ status[r] # "sending" /\ kind[r] \in AgentOSKinds =>
                            agentTask'[kind[r]] # NoTask
    BY <1>2 DEF SentAsWritten, Told
  <2>1. /\ \A c \in Customers : \A i \in 1..Len(pushed[r][c]) : pushed[r][c][i] = draft[r]
        /\ kind[r] = UnansweredReviews => \A d \in Drafts :
              agentTask[kind[r]] = [sugg |-> r, draft |-> d] => d = draft[r]
        /\ status[r] # "sending" /\ kind[r] \in AgentOSKinds => agentTask[kind[r]] # NoTask
    BY DEF SendInv, SentAsWritten, Told
  <2>2. ASSUME kind[r] = UnansweredReviews, NEW d \in Drafts,
               agentTask'[kind[r]] = [sugg |-> r, draft |-> d]
        PROVE  d = draft[r]
    <3>1. CASE agentTask'[kind[r]] = agentTask[kind[r]]
      BY <2>1, <2>2, <3>1
    <3>2. CASE kind[r] = kind[s] /\ agentTask'[kind[r]] = new
      <4>1. r = s /\ d = job[t].draft
        BY <1>4, <2>2, <3>2
      <4>2. QED
        BY <1>3, <1>6, <2>2, <4>1
    <3>3. QED
      BY <1>5, <1>6, <2>2, <3>1, <3>2
  <2>3. status[r] # "sending" /\ kind[r] \in AgentOSKinds => agentTask'[kind[r]] # NoTask
    BY <1>4, <1>5, <2>1
  <2>4. QED
    BY <2>1, <2>2, <2>3
<1>14. QED
  BY <1>9, <1>10, <1>11, <1>12, <1>13 DEF SendInv

\* LINE pushes to a customer of a campaign, who was not reached (suggestions.py).
LEMMA PushStep ==
    ASSUME TypeOK, SendInv, NEW t \in Tasks, NEW x \in Customers, Deliver(t, x)
    PROVE  SendInv'
<1> DEFINE s == job[t].sugg
           d == job[t].draft
<1>1. s \in Suggs /\ d \in Drafts /\ Sender(t)
  BY JobKnown DEF Deliver, SendInv
<1>2. /\ x \in job[t].todo /\ x # AgentOS
      /\ pushed' = [pushed EXCEPT ![s][x] = Append(@, d)]
      /\ job' = [job EXCEPT ![t].todo = @ \ {x}]
      /\ UNCHANGED <<status, draft, kind, pc, agentTask>>
  BY AgentOSIsNoCustomer DEF Deliver, rowVars
<1>3. /\ pc[t] = "sending" /\ status[s] = "sending" /\ d = draft[s]
      /\ kind[s] = RecoverSleeping /\ kind[s] \notin AgentOSKinds
      /\ pushed[s][x] = <<>>
  BY <1>1, <1>2 DEF Deliver, Sender, ContentGap, RecoverSleeping, UnansweredReviews,
     AgentOSKinds
<1>4. /\ \A u \in Tasks :
            /\ job'[u].sugg = job[u].sugg /\ job'[u].draft = job[u].draft
            /\ u # t => job'[u].todo = job[u].todo
      /\ job'[t].todo = job[t].todo \ {x}
  BY <1>1, <1>2 DEF TypeOK, Deliver, Jobs
<1>5. pushed'[s][x] = Append(<<>>, d)
  BY <1>1, <1>2, <1>3 DEF TypeOK
<1>6. \A r \in Suggs, c \in Customers : r # s \/ c # x => pushed'[r][c] = pushed[r][c]
  BY <1>1, <1>2 DEF TypeOK
<1> HIDE DEF s, d
<1>7. UnsentIsUntold'
  BY <1>2, <1>3, <1>6 DEF SendInv, UnsentIsUntold, Active
<1>8. OnlyCampaignsPush'
  BY <1>2, <1>3, <1>6 DEF SendInv, OnlyCampaignsPush
<1>9. Len(pushed'[s][x]) = 1 /\ pushed'[s][x][1] = d
  BY <1>5
<1>10. NobodyReachedTwice'
  <2>1. ASSUME NEW r \in Suggs, NEW c \in Customers
        PROVE  Len(pushed'[r][c]) <= 1
    <3>1. CASE r = s /\ c = x
      <4>1. Len(pushed'[r][c]) = 1
        BY <1>9, <3>1
      <4>2. QED
        BY <4>1
    <3>2. CASE r # s \/ c # x
      BY <1>6, <3>2 DEF SendInv, NobodyReachedTwice
    <3>3. QED
      BY <3>1, <3>2
  <2>2. QED
    BY <2>1 DEF NobodyReachedTwice
<1>11. ASSUME NEW u \in Tasks PROVE Sender(u)'
  <2>1. Sender(u)
    BY DEF SendInv
  <2>2. CASE u = t
    BY <1>1, <1>2, <1>3, <1>4, <1>6, <2>1, <2>2 DEF Sender, s
  <2>3. CASE u # t
    <3>1. pc[u] = "sending" => job[u].sugg \in Suggs /\ job[u].sugg # s
      BY <1>3, <2>3, JobKnown DEF SendInv, OneSender, s
    <3>2. QED
      BY <1>2, <1>4, <1>6, <2>1, <2>3, <3>1 DEF Sender
  <2>4. QED
    BY <2>2, <2>3
<1>12. OneSender'
  BY <1>2, <1>4 DEF SendInv, OneSender
<1>13. SentAsWritten'
  <2>1. ASSUME NEW r \in Suggs, status[r] \in Told, NEW c \in Customers,
               NEW i \in 1..Len(pushed'[r][c])
        PROVE  pushed'[r][c][i] = draft[r]
    <3>1. CASE r = s /\ c = x
      BY <1>3, <1>9, <2>1, <3>1
    <3>2. CASE r # s \/ c # x
      BY <1>6, <2>1, <3>2 DEF SendInv, SentAsWritten, Told
    <3>3. QED
      BY <3>1, <3>2
  <2>2. QED
    BY <1>2, <2>1 DEF SendInv, SentAsWritten, Told
<1>14. QED
  BY <1>7, <1>8, <1>10, <1>11, <1>12, <1>13 DEF SendInv

\* Why nobody is told anything but what the row says, nor twice.
LEMMA SendInvHolds == Spec => []SendInv
<1>1. Init => SendInv
  <2> SUFFICES ASSUME Init PROVE SendInv
    OBVIOUS
  <2>1. \A s \in Suggs : status[s] = "absent" /\ \A c \in Customers : pushed[s][c] = <<>>
    BY DEF Init
  <2>2. \A t \in Tasks : pc[t] = "idle"
    BY DEF Init
  <2>3. \A s \in Suggs, d \in Drafts :
            kind[s] = UnansweredReviews => agentTask[kind[s]] # [sugg |-> s, draft |-> d]
    BY NoTaskIsNone DEF Init, AgentOSKinds, AgentOSTasks
  <2>4. UnsentIsUntold /\ OnlyCampaignsPush
    BY <2>1, <2>3 DEF UnsentIsUntold, OnlyCampaignsPush
  <2>5. OneSender /\ \A t \in Tasks : Sender(t)
    BY <2>2 DEF OneSender, Sender
  <2>6. SentAsWritten /\ NobodyReachedTwice
    BY <2>1 DEF SentAsWritten, NobodyReachedTwice
  <2>7. QED
    BY <2>4, <2>5, <2>6 DEF SendInv
<1>2. TypeOK /\ SendInv /\ [Next]_vars => SendInv'
  <2> SUFFICES ASSUME TypeOK, SendInv, [Next]_vars PROVE SendInv'
    OBVIOUS
  <2>1. ASSUME NEW s \in Suggs, NEW d \in Drafts,
               Dismiss(s) \/ Report(s) \/ Accept(s, d) \/ SendToNobody(s, d)
               \/ SendUnsupported(s, d)
        PROVE  SendInv'
    <3>1. \A r \in Suggs : RowKept(r)
      <4>1. CASE Dismiss(s)
        BY <4>1 DEF TypeOK, Dismiss, RowKept, Told, Active
      <4>2. CASE Report(s)
        BY <4>2 DEF TypeOK, Report, RowKept, Told, Active
      <4>3. CASE Accept(s, d)
        BY <4>3 DEF TypeOK, Accept, RowKept, Told, Active
      <4>4. CASE SendToNobody(s, d)
        BY <4>4 DEF TypeOK, SendToNobody, RowKept, Told, Active, RecoverSleeping,
           AgentOSKinds, ContentGap, UnansweredReviews
      <4>5. CASE SendUnsupported(s, d)
        BY <4>5 DEF TypeOK, SendUnsupported, RowKept, Told, Active, StaleKnowledge
      <4>6. QED
        BY <2>1, <4>1, <4>2, <4>3, <4>4, <4>5
    <3>2. UNCHANGED <<kind, pushed, agentTask, pc, job>>
      BY <2>1 DEF Dismiss, Report, Accept, SendToNobody, SendUnsupported, procVars, outside
    <3>3. QED
      BY <3>1, <3>2, CalmStep DEF JobKept
  <2>2. ASSUME NEW s \in Suggs, ScanCreates(s) \/ (\E t \in Tasks : ScanPrepares(t, s))
        PROVE  SendInv'
    <3>1. \A r \in Suggs : RowKept(r)
      <4>1. status' = [ExpireDue EXCEPT ![s] = "pending"] /\ status[s] = "absent"
            /\ UNCHANGED draft
        BY <2>2 DEF ScanCreates, ScanPrepares, Create
      <4>2. ASSUME NEW r \in Suggs PROVE RowKept(r)
        <5>1. CASE r = s
          <6>1. status[r] = "absent" /\ status'[r] = "pending"
            BY <4>1, <5>1, ExpireDueType
          <6>2. QED
            BY <6>1 DEF RowKept, Told, Active
        <5>2. CASE r # s
          <6>1. status'[r] = status[r] \/ (status'[r] = "expired" /\ status[r] \in Active)
            BY <4>1, <5>2, ExpireDueType
          <6>2. draft'[r] = draft[r]
            BY <4>1
          <6>3. QED
            BY <6>1, <6>2 DEF RowKept, Told, Active
        <5>3. QED
          BY <5>1, <5>2
      <4>3. QED
        BY <4>2
    <3>2. \A u \in Tasks : JobKept(u)
      BY <2>2 DEF TypeOK, ScanCreates, ScanPrepares, Begin, Held, JobKept, procVars, Create
    <3>3. UNCHANGED <<kind, pushed, agentTask>>
      BY <2>2 DEF ScanCreates, ScanPrepares, Create, outside
    <3>4. QED
      BY <3>1, <3>2, <3>3, CalmStep
  <2>3. ASSUME (\E k \in Kinds : ScanFindsActive(k)) \/ RemindRound \/ QuietRound
        PROVE  SendInv'
    <3>1. status' = ExpireDue /\ UNCHANGED <<draft, kind, pushed, agentTask, pc, job>>
      BY <2>3 DEF ScanFindsActive, RemindRound, QuietRound, procVars, outside
    <3>2. ASSUME NEW r \in Suggs PROVE RowKept(r)
      <4>1. status'[r] = status[r] \/ (status'[r] = "expired" /\ status[r] \in Active)
        BY <3>1, ExpireDueType
      <4>2. QED
        BY <3>1, <4>1 DEF RowKept, Told, Active
    <3>3. QED
      BY <3>1, <3>2, CalmStep DEF JobKept
  <2>4. ASSUME NEW t \in Tasks, PrepareStarts(t) PROVE SendInv'
    <3>1. Sender(t)
      BY DEF SendInv
    <3>2. \A u \in Tasks : JobKept(u)
      BY <2>4, <3>1 DEF TypeOK, PrepareStarts, Sender, Held, Finish, JobKept, rowVars
    <3>3. UNCHANGED <<status, draft, kind, pushed, agentTask>>
      BY <2>4 DEF PrepareStarts, rowVars, outside
    <3>4. \A r \in Suggs : RowKept(r)
      BY <3>3 DEF RowKept
    <3>5. QED
      BY <3>2, <3>3, <3>4, CalmStep
  <2>5. ASSUME SchedulerDies \/ (\E s \in Suggs : Ages(s)) \/ Crash
               \/ (\E t \in Tasks : CallFails(t)) \/ UNCHANGED vars
        PROVE  SendInv'
    <3>1. UNCHANGED <<status, draft, kind, pushed, agentTask>>
      BY <2>5 DEF SchedulerDies, Ages, Crash, CallFails, vars, rowVars, outside
    <3>2. \A u \in Tasks : JobKept(u)
      BY <2>5 DEF TypeOK, SchedulerDies, Ages, Crash, CallFails, Finish, vars, procVars,
         JobKept
    <3>3. \A r \in Suggs : RowKept(r)
      BY <3>1 DEF RowKept
    <3>4. QED
      BY <3>1, <3>2, <3>3, CalmStep
  <2>6. ASSUME NEW t \in Tasks, NEW s \in Suggs, NEW d \in Drafts,
               NEW todo \in SUBSET Targets, Send(t, s, d, todo)
        PROVE  SendInv'
    BY <2>6, SendStep
  <2>7. ASSUME NEW t \in Tasks, NEW x \in Targets, Deliver(t, x) PROVE SendInv'
    BY <2>7, DispatchStep, PushStep DEF Targets
  <2>8. ASSUME NEW t \in Tasks, PrepareEnds(t) \/ SendEnds(t) PROVE SendInv'
    BY <2>8, EndStep
  <2>9. CASE OwnerActs
    BY <2>1, <2>6, <2>9, FirstDraftIsDraft DEF OwnerActs
  <2>10. CASE Scan \/ SchedulerRound
    BY <2>2, <2>3, <2>10 DEF Scan, SchedulerRound
  <2>11. ASSUME NEW t \in Tasks, TaskSteps(t) \/ CallFails(t) PROVE SendInv'
    BY <2>4, <2>5, <2>7, <2>8, <2>11 DEF TaskSteps
  <2>12. QED
    BY <2>5, <2>9, <2>10, <2>11 DEF Next
<1>3. QED
  BY <1>1, <1>2, TypeCorrect, PTL DEF Spec

\* Whatever a customer was pushed or AgentOS was handed says what the row says
\* while the row claims it was sent (product rule R3, suggestions.py).
THEOREM SentIsWritten == Spec => []SentAsWritten
<1>1. SendInv => SentAsWritten
  BY DEF SendInv
<1>2. QED
  BY <1>1, SendInvHolds, PTL

\* No customer is pushed a suggestion twice, however often the owner taps and
\* whatever fails (suggestions.py, _execute_suggestion).
THEOREM ReachedOnce == Spec => []NobodyReachedTwice
<1>1. SendInv => NobodyReachedTwice
  BY DEF SendInv
<1>2. QED
  BY <1>1, SendInvHolds, PTL

-----------------------------------------------------------------------------

\* An open row was open before, or is new and alone of its kind.
LEMMA OpensAlone ==
    ASSUME TypeOK, [Next]_vars, NEW s \in Suggs, status'[s] \in Active
    PROVE  /\ UNCHANGED kind
           /\ \/ status[s] \in Active
              \/ /\ status[s] = "absent"
                 /\ \A r \in Suggs : r # s /\ kind[r] = kind[s] => status'[r] \notin Active
<1>1. UNCHANGED kind
  BY DEF Next, OwnerActs, Scan, TaskSteps, SchedulerRound, Dismiss, Report, Accept,
     SendToNobody, SendUnsupported, Send, ScanFindsActive, ScanCreates, ScanPrepares, Create,
     PrepareStarts, PrepareEnds, SendEnds, Deliver, CallFails, RemindRound, QuietRound,
     SchedulerDies, Ages, Crash, vars, rowVars
<1>2. CASE \E r \in Suggs : Create(r)
  <2>1. PICK r \in Suggs : Create(r)
    BY <1>2
  <2>2. /\ status[r] = "absent"
        /\ status' = [ExpireDue EXCEPT ![r] = "pending"]
        /\ \A q \in Suggs : kind[q] = kind[r] => ExpireDue[q] \notin Active
    BY <2>1 DEF Create, ActiveOf
  <2>3. CASE s = r
    BY <1>1, <2>2, <2>3, ExpireDueType
  <2>4. CASE s # r
    BY <1>1, <2>2, <2>4, ExpireDueType DEF Active
  <2>5. QED
    BY <2>3, <2>4
<1>3. CASE \E r \in Suggs : Dismiss(r) \/ Report(r)
              \/ \E d \in Drafts : \/ Accept(r, d) \/ SendToNobody(r, d)
                                   \/ SendUnsupported(r, d)
                                   \/ \E t \in Tasks, todo \in SUBSET Targets : Send(t, r, d, todo)
  <2>1. PICK r \in Suggs :
            /\ status[r] \in Active \/ status'[r] \notin Active
            /\ \E new : status' = [status EXCEPT ![r] = new]
    <3>1. PICK r \in Suggs :
            \/ /\ status[r] \in Active
               /\ \E new : status' = [status EXCEPT ![r] = new]
            \/ status' = [status EXCEPT ![r] = "reported"]
      BY <1>3 DEF Dismiss, Report, Accept, SendToNobody, SendUnsupported, Send
    <3>2. QED
      BY <3>1 DEF TypeOK, Active
  <2>2. QED
    BY <1>1, <2>1 DEF TypeOK
<1>4. CASE \E t \in Tasks : PrepareEnds(t) \/ SendEnds(t)
  <2>1. \/ UNCHANGED status
        \/ \E r : status' = [status EXCEPT ![r] = "sent"]
    BY <1>4 DEF PrepareEnds, SendEnds
  <2>2. QED
    BY <1>1, <2>1 DEF TypeOK, Active
<1>5. CASE status' = ExpireDue \/ UNCHANGED status
  BY <1>1, <1>5, ExpireDueType DEF Active
<1>6. QED
  BY <1>2, <1>3, <1>4, <1>5 DEF Next, OwnerActs, Scan, TaskSteps, SchedulerRound,
     ScanFindsActive, ScanCreates, ScanPrepares, PrepareStarts, Deliver, CallFails,
     RemindRound, QuietRound, SchedulerDies, Ages, Crash, vars, rowVars

\* The owner is never offered two open suggestions of a kind, over scans, taps,
\* rows written back and restarts (suggestions.py, find_active_suggestion).
THEOREM OneIsOpen == Spec => []OneOpenPerKind
<1>1. Init => OneOpenPerKind
  BY DEF Init, OneOpenPerKind, Active
<1>2. TypeOK /\ OneOpenPerKind /\ [Next]_vars => OneOpenPerKind'
  <2> SUFFICES ASSUME TypeOK, OneOpenPerKind, [Next]_vars,
                      NEW r \in Suggs, NEW s \in Suggs, kind'[r] = kind'[s],
                      status'[r] \in Active, status'[s] \in Active, r # s
               PROVE  FALSE
    BY DEF OneOpenPerKind, Active
  <2>1. UNCHANGED kind /\ status[r] \in Active /\ status[s] \in Active
    BY OpensAlone
  <2>2. QED
    BY <2>1 DEF OneOpenPerKind
<1>3. QED
  BY <1>1, <1>2, TypeCorrect, PTL DEF Spec

-----------------------------------------------------------------------------

\* What a step does to the row of a suggestion: it is created, decided while
\* open, expires while open, is reported once sent, or is written back as sent.
LEMMA RowStep ==
    ASSUME TypeOK, [Next]_vars, NEW s \in Suggs, status'[s] # status[s]
    PROVE  /\ status'[s] # "absent"
           /\ \/ status[s] = "absent"
              \/ status[s] \in Active
              \/ status[s] = "sent" /\ status'[s] = "reported"
              \/ \E t \in Tasks :
                   /\ PrepareEnds(t) \/ SendEnds(t)
                   /\ s = job[t].sugg
                   /\ status'[s] = "sent"
<1>1. CASE \E r \in Suggs : Create(r)
  <2>1. PICK r \in Suggs : status[r] = "absent" /\ status' = [ExpireDue EXCEPT ![r] = "pending"]
    BY <1>1 DEF Create
  <2>2. QED
    BY <2>1, ExpireDueType
<1>2. CASE \E r \in Suggs : Dismiss(r) \/ Report(r)
              \/ \E d \in Drafts : \/ Accept(r, d) \/ SendToNobody(r, d)
                                   \/ SendUnsupported(r, d)
                                   \/ \E t \in Tasks, todo \in SUBSET Targets : Send(t, r, d, todo)
  <2>1. PICK r \in Suggs :
          \/ /\ status[r] \in Active
             /\ \E new \in Statuses \ {"absent"} : status' = [status EXCEPT ![r] = new]
          \/ status[r] = "sent" /\ status' = [status EXCEPT ![r] = "reported"]
    BY <1>2 DEF Dismiss, Report, Accept, SendToNobody, SendUnsupported, Send, Statuses, Active
  <2>2. QED
    BY <2>1 DEF TypeOK
<1>3. CASE \E t \in Tasks : PrepareEnds(t) \/ SendEnds(t)
  <2>1. PICK t \in Tasks : PrepareEnds(t) \/ SendEnds(t)
    BY <1>3
  <2>2. UNCHANGED status \/ status' = [status EXCEPT ![job[t].sugg] = "sent"]
    BY <2>1 DEF PrepareEnds, SendEnds
  <2>3. QED
    BY <2>1, <2>2 DEF TypeOK
<1>4. CASE status' = ExpireDue \/ UNCHANGED status
  BY <1>4, ExpireDueType
<1>5. QED
  BY <1>1, <1>2, <1>3, <1>4 DEF Next, OwnerActs, Scan, TaskSteps, SchedulerRound,
     ScanFindsActive, ScanCreates, ScanPrepares, PrepareStarts, Deliver, CallFails,
     RemindRound, QuietRound, SchedulerDies, Ages, Crash, vars, rowVars

\* A row of a kind nobody prepares in the background, once decided, expired or
\* under way, is not decided again (suggestions.py, decide_suggestion).
THEOREM AskedStaysFinal == Spec => AskedIsFinal
<1>1. TypeOK /\ SendInv /\ [Next]_vars =>
          [\A s \in Suggs : kind[s] # ContentGap => DecisionStands(s)]_vars
  <2> SUFFICES ASSUME TypeOK, SendInv, [Next]_vars, NEW s \in Suggs, kind[s] # ContentGap
               PROVE  DecisionStands(s)
    OBVIOUS
  <2>1. CASE status'[s] = status[s]
    BY <2>1 DEF DecisionStands
  <2>2. CASE status[s] \in Active \cup {"absent"}
    BY <2>2 DEF DecisionStands, Active
  <2>3. CASE status[s] = "sent" /\ status'[s] = "reported"
    BY <2>3 DEF DecisionStands
  <2>4. ASSUME NEW t \in Tasks, PrepareEnds(t) \/ SendEnds(t), s = job[t].sugg,
               status'[s] = "sent"
        PROVE  DecisionStands(s)
    <3>1. status[s] = "sending"
      BY <2>4 DEF SendInv, Sender, PrepareEnds, SendEnds
    <3>2. QED
      BY <2>4, <3>1 DEF DecisionStands
  <2>5. QED
    BY <2>1, <2>2, <2>3, <2>4, RowStep
<1>2. QED
  BY <1>1, TypeCorrect, SendInvHolds, PTL DEF Spec, AskedIsFinal

\* A suggestion is reminded of once, over rounds, restarts and rows written back
\* from before the reminder (proactive.py, reminded_at).
THEOREM RemindsOnce == Spec => []RemindedOnce
<1>1. Init => RemindInv
  BY DEF Init, RemindInv, Active
<1>2. TypeOK /\ RemindInv /\ [Next]_vars => RemindInv'
  <2> SUFFICES ASSUME TypeOK, RemindInv, [Next]_vars, NEW s \in Suggs
               PROVE  /\ reminders'[s] <= 1
                      /\ status'[s] = "absent" => reminders'[s] = 0
                      /\ status'[s] \in Active /\ reminders'[s] = 1 => reminded'[s]
    BY DEF RemindInv
  <2> DEFINE Known == /\ reminders[s] <= 1
                      /\ status[s] = "absent" => reminders[s] = 0
                      /\ status[s] \in Active /\ reminders[s] = 1 => reminded[s]
  <2>1. Known /\ reminders[s] \in Nat
    BY DEF RemindInv, TypeOK
  <2>2. CASE RemindRound
    <3>1. /\ status' = ExpireDue
          /\ reminded'[s] = (reminded[s] \/ s \in ToRemind)
          /\ reminders'[s] = reminders[s] + IF s \in ToRemind THEN 1 ELSE 0
      BY <2>2 DEF RemindRound
    <3>2. CASE s \in ToRemind
      <4>1. status[s] \in Active /\ ~reminded[s] /\ status'[s] \in Active
        BY <3>1, <3>2, ExpireDueType DEF ToRemind, Active
      <4>2. reminders[s] = 0
        BY <2>1, <4>1
      <4>3. reminded'[s]
        BY <3>1, <3>2
      <4>4. reminders'[s] = 1
        BY <3>1, <3>2, <4>2
      <4>5. QED
        BY <4>1, <4>3, <4>4 DEF Active
    <3>3. CASE s \notin ToRemind
      <4>1. reminders'[s] = reminders[s] /\ reminded'[s] = reminded[s]
        <5>1. reminders'[s] = reminders[s]
          BY <2>1, <3>1, <3>3
        <5>2. reminded'[s] = reminded[s]
          BY <3>1, <3>3 DEF TypeOK
        <5>3. QED
          BY <5>1, <5>2
      <4>2. \/ status'[s] = status[s]
            \/ status'[s] = "expired"
        BY <3>1, ExpireDueType
      <4>3. QED
        BY <2>1, <4>1, <4>2 DEF Active
    <3>4. QED
      BY <3>2, <3>3
  <2>3. CASE ~RemindRound
    <3>1. UNCHANGED reminders
      BY <2>3 DEF Next, OwnerActs, Scan, TaskSteps, SchedulerRound, Dismiss, Report, Accept,
         SendToNobody, SendUnsupported, Send, ScanFindsActive, ScanCreates, ScanPrepares,
         Create, PrepareStarts, PrepareEnds, SendEnds, Deliver, CallFails, QuietRound,
         SchedulerDies, Ages, Crash, vars, rowVars, outside
    <3>2. status'[s] = "absent" => status[s] = "absent"
      BY RowStep
    <3>3. status'[s] \in Active => status[s] \in Active \cup {"absent"}
      BY OpensAlone
    <3>4. status'[s] \in Active => reminded'[s] = reminded[s]
      <4>1. CASE \E t \in Tasks : PrepareEnds(t) \/ SendEnds(t)
        <5>1. PICK t \in Tasks : PrepareEnds(t) \/ SendEnds(t)
          BY <4>1
        <5>2. \/ UNCHANGED reminded
              \/ /\ status' = [status EXCEPT ![job[t].sugg] = "sent"]
                 /\ \E b : reminded' = [reminded EXCEPT ![job[t].sugg] = b]
          BY <5>1 DEF PrepareEnds, SendEnds
        <5>3. QED
          BY <5>2 DEF TypeOK, Active
      <4>2. CASE ~\E t \in Tasks : PrepareEnds(t) \/ SendEnds(t)
        <5>1. UNCHANGED reminded
          BY <2>3, <4>2 DEF Next, OwnerActs, Scan, TaskSteps, SchedulerRound, Dismiss,
             Report, Accept, SendToNobody, SendUnsupported, Send, ScanFindsActive,
             ScanCreates, ScanPrepares, Create, PrepareStarts, Deliver, CallFails,
             QuietRound, SchedulerDies, Ages, Crash, vars, rowVars
        <5>2. QED
          BY <5>1
      <4>3. QED
        BY <4>1, <4>2
    <3>5. QED
      BY <2>1, <3>1, <3>2, <3>3, <3>4
  <2>4. QED
    BY <2>2, <2>3
<1>3. RemindInv => RemindedOnce
  BY DEF RemindInv, RemindedOnce
<1>4. QED
  BY <1>1, <1>2, <1>3, TypeCorrect, PTL DEF Spec
=============================================================================
