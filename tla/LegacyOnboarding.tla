------------------------- MODULE LegacyOnboarding -------------------------
(***************************************************************************)
(* The first Kachu's onboarding of a boss in LINE                          *)
(* (src/kachu/onboarding/flow.py, knowledge_capture.py): a step in a row,  *)
(* and answers kept as knowledge.  Storing an answer awaits its embedding, *)
(* and the step is moved only after that, so a second message may find     *)
(* the old step.  One tenant.  Every step here is the code between two     *)
(* awaits.                                                                 *)
(***************************************************************************)
EXTENDS Naturals, FiniteSets

CONSTANTS
    Threads,
    MaxMessages, MaxCrashes

Questions  == {"interview_q1", "interview_q2", "interview_q3"}
Profile    == {"asking_name", "asking_industry", "asking_address"}
Steps      == {"new"} \cup Profile \cup {"awaiting_docs"} \cup Questions \cup {"completed"}
Categories == {"core_value", "pain_point", "goal", "basic_info", "document"}

VARIABLES
    step,       \* the row of the onboarding
    given,      \* fields of the tenant that are filled in
    entries,    \* knowledge: a category and the number of the message it is from
    said,       \* the last answer to each question, 0 if it was taken back
    drafts,     \* first drafts ordered for the boss
    pc, job,    \* messages in progress: where they wait, the step they read, their number
    overlapped, \* an answer was given, or one taken back, while one was stored
    torn,       \* a crash cut a message in two
    messages, crashes

procVars == <<pc, job>>
bounds   == <<messages, crashes>>
vars == <<step, given, entries, said, drafts, procVars, overlapped, torn, bounds>>

NoJob == [at |-> "new", n |-> 0]

TypeOK ==
    /\ step \in Steps /\ given \subseteq Profile
    /\ entries \subseteq [cat : Categories, n : 1..MaxMessages]
    /\ said \in [Questions -> 0..MaxMessages]
    /\ drafts \in Nat
    /\ pc \in [Threads -> {"idle", "storing", "summing", "parsing", "dispatching"}]
    /\ job \in [Threads -> [at : Steps, n : 0..MaxMessages]]
    /\ overlapped \in BOOLEAN /\ torn \in BOOLEAN
    /\ messages \in 0..MaxMessages /\ crashes \in 0..MaxCrashes

Init ==
    /\ step = "new" /\ given = {} /\ entries = {}
    /\ said = [q \in Questions |-> 0] /\ drafts = 0
    /\ pc = [t \in Threads |-> "idle"] /\ job = [t \in Threads |-> NoJob]
    /\ overlapped = FALSE /\ torn = FALSE /\ messages = 0 /\ crashes = 0

-----------------------------------------------------------------------------
Message(t) == pc[t] = "idle" /\ messages < MaxMessages /\ messages' = messages + 1 /\ UNCHANGED crashes
GoTo(t, at, j) == pc' = [pc EXCEPT ![t] = at] /\ job' = [job EXCEPT ![t] = j]
Done(t) == GoTo(t, "idle", NoJob)
Storing == \E t \in Threads : pc[t] \in {"storing", "summing"}

StepAfter == [new             |-> "asking_name",     asking_name    |-> "asking_industry",
              asking_industry |-> "asking_address",  asking_address |-> "awaiting_docs",
              interview_q1    |-> "interview_q2",    interview_q2   |-> "interview_q3"]

CategoryOf == [interview_q1 |-> "core_value", interview_q2 |-> "pain_point", interview_q3 |-> "goal"]

\* save_knowledge_entry adds a row; nothing in this flow looks for an earlier one.
Saved(c, n) == entries \cup {[cat |-> c, n |-> n]}

-----------------------------------------------------------------------------
\* The first message, and the three answers that fill in the tenant.
Profiled(t) ==
    /\ Message(t) /\ step \in {"new"} \cup Profile
    /\ given' = given \cup ({step} \cap Profile)
    /\ step' = StepAfter[step]
    /\ UNCHANGED <<entries, said, drafts, procVars, overlapped, torn>>

\* awaiting_docs: a word to skip, or a document, which is parsed first.
SkipDocs(t) ==
    /\ Message(t) /\ step = "awaiting_docs"
    /\ step' = "interview_q1"
    /\ UNCHANGED <<given, entries, said, drafts, procVars, overlapped, torn>>

Document(t) ==
    /\ Message(t) /\ step = "awaiting_docs"
    /\ GoTo(t, "parsing", [at |-> step, n |-> messages'])
    /\ UNCHANGED <<step, given, entries, said, drafts, overlapped, torn>>

\* A document that cannot be parsed is dropped; the step is left alone.
Parsed(t) ==
    /\ pc[t] = "parsing"
    /\ entries' \in {entries, Saved("document", job[t].n)}
    /\ Done(t)
    /\ UNCHANGED <<step, given, said, drafts, overlapped, torn, bounds>>

-----------------------------------------------------------------------------
\* An answer in the interview is stored under the step read with the message.
Answer(t) ==
    /\ Message(t) /\ step \in Questions
    /\ entries' = Saved(CategoryOf[step], messages')
    /\ said' = [said EXCEPT ![step] = messages']
    /\ GoTo(t, "storing", [at |-> step, n |-> messages'])
    /\ overlapped' = (overlapped \/ Storing)
    /\ UNCHANGED <<step, given, drafts, torn>>

\* The questions a redo message takes back, and the step it leads to.
RedoTargets == {q \in Questions : \/ q = "interview_q1" /\ step \in {"interview_q2", "interview_q3"}
                                  \/ q = "interview_q2" /\ step = "interview_q3"}

\* Mutant: going back to the first question leaves the second answer in place.
TakenBackOne(q) == {q}

\* Going back to a question takes back the answers from it on.
TakenBack(q) == IF q = "interview_q1" THEN {"interview_q1", "interview_q2"} ELSE {"interview_q2"}

\* The categories whose entries go: from the second question, only the first.
Erased(q) == {CategoryOf[x] : x \in TakenBack(q) \cap {y \in Questions : y # step}}

\* _detect_redo_step: the answers from that question on are deleted.
Redo(t, q) ==
    /\ Message(t) /\ q \in RedoTargets
    /\ entries' = {e \in entries : e.cat \notin Erased(q)}
    /\ said' = [x \in Questions |-> IF x \in TakenBack(q) THEN 0 ELSE said[x]]
    /\ step' = q
    /\ overlapped' = (overlapped \/ Storing)
    /\ UNCHANGED <<given, drafts, procVars, torn>>

\* The embedding is there, or failed: the step moves on from the question the
\* answer was given to, wherever the row is by now.
Stored(t) ==
    /\ pc[t] = "storing" /\ job[t].at # "interview_q3"
    /\ step' = StepAfter[job[t].at]
    /\ Done(t)
    /\ UNCHANGED <<given, entries, said, drafts, overlapped, torn, bounds>>

\* After the last answer the tenant's fields are summed up in an entry too.
GoalStored(t) ==
    /\ pc[t] = "storing" /\ job[t].at = "interview_q3"
    /\ entries' = Saved("basic_info", job[t].n)
    /\ GoTo(t, "summing", job[t])
    /\ UNCHANGED <<step, given, said, drafts, overlapped, torn, bounds>>

Completed(t) ==
    /\ pc[t] = "summing"
    /\ step' = "completed"
    /\ GoTo(t, "dispatching", job[t])
    /\ UNCHANGED <<given, entries, said, drafts, overlapped, torn, bounds>>

\* _dispatch_onboarding_aha: three drafts, one after the other; a failing one
\* is logged.
Aha(t) ==
    /\ pc[t] = "dispatching"
    /\ drafts' \in drafts .. drafts + 3
    /\ Done(t)
    /\ UNCHANGED <<step, given, entries, said, overlapped, torn, bounds>>

Crash ==
    /\ crashes < MaxCrashes /\ crashes' = crashes + 1
    /\ torn' = (torn \/ Storing)
    /\ pc' = [t \in Threads |-> "idle"] /\ job' = [t \in Threads |-> NoJob]
    /\ UNCHANGED <<step, given, entries, said, drafts, overlapped, messages>>

Next ==
    \/ \E t \in Threads :
         \/ Profiled(t) \/ SkipDocs(t) \/ Document(t) \/ Parsed(t)
         \/ Answer(t) \/ \E q \in Questions : Redo(t, q)
         \/ Stored(t) \/ GoalStored(t) \/ Completed(t) \/ Aha(t)
    \/ Crash

Spec == Init /\ [][Next]_vars

-----------------------------------------------------------------------------
Kept(c) == {e.n : e \in {x \in entries : x.cat = c}}

\* A finished onboarding left the tenant's fields, a goal and their summary,
\* whatever messages overlapped or crashes cut in two; and unless that happened
\* every question has one answer, the last one given, and drafts came once.
FinishedIsAnswered ==
    step = "completed" =>
        /\ given = Profile /\ Kept("goal") # {} /\ Kept("basic_info") # {}
        /\ ~overlapped /\ ~torn =>
             /\ \A q \in Questions : Kept(CategoryOf[q]) = {said[q]}
             /\ Cardinality(Kept("basic_info")) = 1 /\ drafts <= 3
=============================================================================
