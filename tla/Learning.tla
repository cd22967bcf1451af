----------------------------- MODULE Learning -----------------------------
(***************************************************************************)
(* What Kachu+ learns from a boss's messages, the five context briefs it   *)
(* derives from that, and the loop that refreshes them when a tenant goes  *)
(* quiet (src/kachu_plus/learning.py, memory_promotion.py).  One tenant    *)
(* and one kind of task.  None of this code awaits anything, so a refresh  *)
(* is never interleaved with a message; a crash may still cut it between   *)
(* two commits, and that is what its steps are for.                        *)
(***************************************************************************)
EXTENDS Naturals, Sequences, FiniteSets, SequencesExt

CONSTANTS
    Texts,              \* what a boss may say
    Facts, Styles,      \* those that state a fact, or a preference
    Verdicts,           \* those that judge the latest draft, if there is one
    Nothing, Edited,    \* no text; the text of an edited draft
    KnowledgeWindow,    \* 30 in the code, with 10 preferences and 5 episodes
    MemoryWindow,
    MaxTalk, MaxUpdates, MaxDecisions, MaxCrashes

\* The task and the customer brief, saved after these, are left out: nothing
\* decides by them.
Briefs == {"brand", "owner", "summary"}

VARIABLES
    talk,           \* number of rows of the conversation
    quiet,          \* IDLE_BRIEF_REFRESH_IDLE_SECONDS have passed since the last one
    heard,          \* the text being absorbed
    knowledge,      \* entries: text, category and where it came from
    prefs,          \* preferences a boss stated
    episodes,       \* outcomes, the decisions on approvals among them
    learnt,         \* length of knowledge once the last message was absorbed
    briefs,         \* what each brief was computed from; talk 0 if it was never saved
    busy, left,     \* what the event loop is in the middle of; the briefs still to save
    hasTask,        \* a task was dispatched for the tenant
    updates, decisions, crashes

learning == <<heard, knowledge, prefs, episodes, learnt>>
briefing == <<briefs, busy, left>>
vars == <<talk, quiet, learning, briefing, hasTask, updates, decisions, crashes>>

Blank == [talk |-> 0, known |-> 0]

TypeOK ==
    /\ talk \in 0..MaxTalk /\ quiet \in BOOLEAN
    /\ heard \in Texts \cup {Nothing}
    /\ knowledge \in Seq([text : Texts, cat : {"inferred", "other"}, by : {"chat", "tool"}])
    /\ prefs \in Seq(Texts \cup {Edited}) /\ episodes \in Seq({"accepted", "needs_revision", "decided"})
    /\ learnt \in 0..Len(knowledge)
    /\ briefs \in [Briefs -> [talk : 0..MaxTalk, known : Nat]]
    /\ busy \in {"no", "fact", "style", "verdict", "refresh"}
    /\ left \in Seq(Briefs)
    /\ hasTask \in BOOLEAN
    /\ updates \in 0..MaxUpdates /\ decisions \in 0..MaxDecisions
    /\ crashes \in 0..MaxCrashes

Init ==
    /\ talk = 0 /\ quiet = FALSE /\ heard = Nothing
    /\ knowledge = <<>> /\ prefs = <<>> /\ episodes = <<>> /\ learnt = 0
    /\ briefs = [b \in Briefs |-> Blank]
    /\ busy = "no" /\ left = <<>>
    /\ hasTask = FALSE /\ updates = 0 /\ decisions = 0 /\ crashes = 0

-----------------------------------------------------------------------------
Free == busy = "no"
Recent(s, n) == SubSeq(s, IF Len(s) > n THEN Len(s) - n + 1 ELSE 1, Len(s))
Within(s, n) == {Recent(s, n)[i] : i \in 1..Len(Recent(s, n))}

\* Mutant: the oldest entries are compared, not the latest.
FirstEntries(s, n) == ToSet(SubSeq(s, 1, IF Len(s) < n THEN Len(s) ELSE n))
\* The rows a repetition is looked for in.
LatestEntries(s, n) == Within(s, n)

KnownFact(x) == \E e \in LatestEntries(knowledge, KnowledgeWindow) :
                    e.text = x /\ e.cat = "inferred"

SavePreference(x) == prefs' = Append(prefs, x)
SaveEpisode(o)    == episodes' = Append(episodes, o)

\* _record_inbound_conversation saves a boss's message and hands it to
\* absorb_conversation at once; an onboarding answer states no new fact.
BossSays(x) ==
    /\ Free /\ talk < MaxTalk
    /\ talk' = talk + 1 /\ quiet' = FALSE /\ heard' = x
    /\ busy' \in {"fact", "style"}
    /\ UNCHANGED <<knowledge, prefs, episodes, learnt, briefs, left, hasTask, updates, decisions, crashes>>

\* Replies and customers' messages are rows nothing is learnt from.
OthersSay ==
    /\ Free /\ talk < MaxTalk
    /\ talk' = talk + 1 /\ quiet' = FALSE
    /\ UNCHANGED <<learning, briefing, hasTask, updates, decisions, crashes>>

\* The three parts of promote_conversation, each a commit of its own.
PromoteFact ==
    /\ busy = "fact" /\ busy' = "style"
    /\ knowledge' = IF heard \in Facts /\ ~KnownFact(heard)
                      THEN Append(knowledge, [text |-> heard, cat |-> "inferred", by |-> "chat"])
                      ELSE knowledge
    /\ learnt' = Len(knowledge')
    /\ UNCHANGED <<talk, quiet, heard, prefs, episodes, briefs, left, hasTask, updates, decisions, crashes>>

PromoteStyle ==
    /\ busy = "style" /\ busy' = "verdict"
    /\ IF heard \in Styles /\ heard \notin LatestEntries(prefs, MemoryWindow)
         THEN SavePreference(heard) ELSE UNCHANGED prefs
    /\ UNCHANGED <<talk, quiet, heard, knowledge, episodes, learnt, briefs, left, hasTask>>
    /\ UNCHANGED <<updates, decisions, crashes>>

PromoteVerdict ==
    /\ busy = "verdict" /\ busy' = "no" /\ heard' = Nothing
    /\ \/ /\ heard \in Verdicts /\ hasTask
          /\ \E o \in {"accepted", "needs_revision"} :
               IF o \in LatestEntries(episodes, MemoryWindow)
                 THEN UNCHANGED episodes ELSE SaveEpisode(o)
       \/ /\ ~(heard \in Verdicts /\ hasTask)
          /\ UNCHANGED episodes
    /\ UNCHANGED <<talk, quiet, knowledge, prefs, learnt, briefs, left, hasTask, updates, decisions, crashes>>

\* apply_knowledge_update adds the entry AgentOS's workflow ends in; it looks
\* for no earlier one, and refreshes nothing.
ApplyKnowledgeUpdate(x, cat) ==
    /\ Free /\ updates < MaxUpdates /\ updates' = updates + 1
    /\ knowledge' = Append(knowledge, [text |-> x, cat |-> cat, by |-> "tool"])
    /\ UNCHANGED <<talk, quiet, heard, prefs, episodes, learnt, briefing, hasTask, decisions, crashes>>

-----------------------------------------------------------------------------
\* Mutant: the summary, which the idle check goes by, is saved first.
SummaryFirst == <<"summary", "brand", "owner">>
\* refresh_briefs reads everything, then saves the briefs in this order.
SaveOrder == <<"brand", "owner", "summary">>

StartRefresh == busy' = "refresh" /\ left' = SaveOrder

\* save_context_brief.  Nothing moves between the reads and the last save.
SaveBrief ==
    /\ busy = "refresh"
    /\ briefs' = [briefs EXCEPT ![Head(left)] = [talk |-> talk, known |-> Len(knowledge)]]
    /\ left' = Tail(left) /\ busy' = IF Tail(left) = <<>> THEN "no" ELSE "refresh"
    /\ UNCHANGED <<talk, quiet, learning, hasTask, updates, decisions, crashes>>

\* Mutant: a summary that exists is taken to be up to date.
AnySummary == briefs["summary"].talk > 0
\* brief_updated_at >= latest_conversation_at.
Summarised == briefs["summary"].talk = talk

\* run_once: the tenant has talked, is quiet and its summary is behind.
IdleRefresh ==
    /\ Free /\ talk > 0 /\ quiet /\ ~Summarised
    /\ StartRefresh
    /\ UNCHANGED <<talk, quiet, learning, briefs, hasTask, updates, decisions, crashes>>

\* A consult refreshes the briefs at any time; _load_context_briefs when one of
\* the three it reads is missing or past its expires_at, which is any time too.
RefreshOnUse ==
    /\ Free /\ StartRefresh
    /\ UNCHANGED <<talk, quiet, learning, briefs, hasTask, updates, decisions, crashes>>

\* after_approval_decision: an episode without a look at earlier ones, the
\* profile (recomputed from the rows, modelled by nothing), and a refresh.
AfterDecision ==
    /\ Free
    /\ decisions < MaxDecisions /\ decisions' = decisions + 1
    /\ SaveEpisode("decided")
    /\ StartRefresh
    /\ UNCHANGED <<talk, quiet, heard, knowledge, prefs, learnt, briefs, hasTask, updates, crashes>>

\* after_preference_update: what a boss made of a draft is a preference and an
\* episode, again without a look at earlier ones.
AfterEdit ==
    /\ Free
    /\ decisions < MaxDecisions /\ decisions' = decisions + 1
    /\ SavePreference(Edited) /\ SaveEpisode("decided")
    /\ StartRefresh
    /\ UNCHANGED <<talk, quiet, heard, knowledge, learnt, briefs, hasTask, updates, crashes>>

GrowsQuiet ==
    /\ ~quiet /\ quiet' = TRUE
    /\ UNCHANGED <<talk, learning, briefing, hasTask, updates, decisions, crashes>>

-----------------------------------------------------------------------------
\* A first task is dispatched for the tenant; verdicts are about the latest one.
RecordTask ==
    /\ Free /\ ~hasTask /\ hasTask' = TRUE
    /\ UNCHANGED <<talk, quiet, learning, briefing, updates, decisions, crashes>>

Crash ==
    /\ crashes < MaxCrashes /\ crashes' = crashes + 1
    /\ busy' = "no" /\ left' = <<>>
    /\ heard' = Nothing
    /\ UNCHANGED <<talk, quiet, knowledge, prefs, episodes, learnt, briefs, hasTask, updates, decisions>>

Promote == PromoteFact \/ PromoteStyle \/ PromoteVerdict

Next ==
    \/ \E x \in Texts : BossSays(x) \/ \E c \in {"inferred", "other"} : ApplyKnowledgeUpdate(x, c)
    \/ OthersSay \/ Promote
    \/ IdleRefresh \/ RefreshOnUse \/ AfterDecision \/ AfterEdit \/ SaveBrief \/ GrowsQuiet
    \/ RecordTask \/ Crash

\* The idle loop keeps turning (nothing in run_once raises but the database),
\* code between two awaits runs on, and time passes.
Fairness ==
    /\ WF_vars(IdleRefresh) /\ WF_vars(SaveBrief) /\ WF_vars(Promote) /\ WF_vars(GrowsQuiet)

Spec == Init /\ [][Next]_vars /\ Fairness

-----------------------------------------------------------------------------
\* A boss who repeats himself is not learnt from twice: between two entries
\* with one text, the later of them taken from chat, lie as many others as the
\* promoter looks back over.  Updates that AgentOS applies come in between.
Apart(s, n, same(_, _)) == \A i, j \in 1..Len(s) : i < j /\ same(s[i], s[j]) => j - i > n
LearnedOnce ==
    /\ Apart(knowledge, KnowledgeWindow,
             LAMBDA a, b : b.by = "chat" /\ a.text = b.text /\ a.cat = "inferred")
    /\ Apart(prefs, MemoryWindow, LAMBDA a, b : a = b /\ a # Edited)
    /\ Apart(episodes, MemoryWindow, LAMBDA a, b : a = b /\ a # "decided")

\* A summary that is up to date vouches for the brand and the owner brief: they
\* know all that was learnt by the last message, whatever crash came between.
FreshMeansWhole ==
    Free /\ briefs["summary"].talk = talk => \A b \in {"brand", "owner"} : briefs[b].known >= learnt

\* A tenant that has gone quiet gets a summary of its last conversation.
QuietIsSummarised == [](quiet => <>(briefs["summary"].talk = talk \/ ~quiet))
=============================================================================
