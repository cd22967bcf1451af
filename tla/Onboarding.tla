----------------------------- MODULE Onboarding -----------------------------
(***************************************************************************)
(* The Day 0 dialogue of one tenant in LINE: the questions, the website    *)
(* that is read while the boss goes on talking, the three interview        *)
(* answers with their way back, and the knowledge entries all of it leaves *)
(* behind.  Each row is committed on its own, so a process that stops may  *)
(* leave an answer without the step that follows it.  One action is a      *)
(* handler up to its next await.                                           *)
(***************************************************************************)
EXTENDS Integers, Sequences, FiniteSets

CONSTANTS Names,        \* what the boss may say of the tenant itself
          Answers,      \* texts that answer an interview question
          Sites,        \* texts with a URL in them
          Unset,        \* model value: not told yet
          MaxDetours, MaxCrashes

VARIABLES step,         \* kachu_onboarding_states.step
          profile,      \* the tenant's own columns
          entries,      \* knowledge entries per category, in order
          website,      \* the site each website entry was taken from
          reading,      \* sites being fetched
          said,         \* history: the boss's last answer per category
          torn,         \* history: answers kept although the step was not
          detours, crashes

vars == <<step, profile, entries, website, reading, said, torn, detours,
          crashes>>

Fields == {"asking_name", "asking_industry", "asking_sleep_threshold",
           "asking_address"}
Questions == {"interview_q1", "interview_q2", "interview_q3"}
Category == [interview_q1 |-> "core_value", interview_q2 |-> "pain_point",
             interview_q3 |-> "goal"]
Categories == {"core_value", "pain_point", "goal", "basic_info",
               "brand_material"}
Following ==
  [new |-> "asking_name",                 asking_name |-> "asking_industry",
   asking_industry |-> "asking_sleep_threshold",
   asking_sleep_threshold |-> "asking_address",
   asking_address |-> "awaiting_docs",    awaiting_docs |-> "interview_q1",
   interview_q1 |-> "interview_q2",       interview_q2 |-> "interview_q3",
   interview_q3 |-> "completed"]
Steps == DOMAIN Following \union {"completed"}

TypeOK ==
  /\ step \in Steps
  /\ profile \in [Fields -> Names \union {Unset}]
  /\ entries \in [Categories -> Seq(Answers \union Sites \union
                                    [Fields -> Names \union {Unset}])]
  /\ website \in [{"website_source_url", "website_summary"} -> SUBSET Sites]
  /\ reading \subseteq Sites
  /\ said \in [Questions -> Answers \union {Unset}]
  /\ torn \in [Categories -> 0 .. MaxCrashes]
  /\ detours \in 0 .. MaxDetours /\ crashes \in 0 .. MaxCrashes

Init ==
  /\ step = "new"
  /\ profile = [f \in Fields |-> Unset]
  /\ entries = [c \in Categories |-> <<>>]
  /\ website = [c \in {"website_source_url", "website_summary"} |-> {}]
  /\ reading = {}
  /\ said = [q \in Questions |-> Unset]
  /\ torn = [c \in Categories |-> 0]
  /\ detours = 0 /\ crashes = 0

\* Messages that do not bring the dialogue forward are bounded.
Detour == detours < MaxDetours /\ detours' = detours + 1

-----------------------------------------------------------------------------
(* The questions about the tenant.                                         *)

\* A follow event or any message opens the dialogue; a follow event, an image
\* or an empty text changes nothing anywhere else.
Open ==
  /\ step = "new"
  /\ step' = Following[step]
  /\ UNCHANGED <<profile, entries, website, reading, said, torn, detours, crashes>>

\* The tenant row and the step are two commits: the answer alone may remain.
Tell(n) ==
  /\ step \in Fields
  /\ profile' = [profile EXCEPT ![step] = n]
  /\ \/ step' = Following[step] /\ UNCHANGED <<reading, crashes>>
     \/ /\ crashes < MaxCrashes /\ crashes' = crashes + 1
        /\ reading' = {} /\ UNCHANGED step
  /\ UNCHANGED <<entries, website, said, torn, detours>>

-----------------------------------------------------------------------------
(* The documents, and the website that is fetched meanwhile.               *)

SkipDocs ==
  /\ step = "awaiting_docs"
  /\ step' = Following[step]
  /\ UNCHANGED <<profile, entries, website, reading, said, torn, detours, crashes>>

\* Also a finished tenant's message with a URL that is routed to
\* "website_ingest".
Material(m) ==
  /\ step \in {"awaiting_docs", "completed"} /\ Detour
  /\ m \in Sites \/ step = "awaiting_docs"
  /\ entries' = [entries EXCEPT !["brand_material"] = Append(@, m)]
  /\ reading' = IF m \in Sites THEN reading \union {m} ELSE reading
  /\ UNCHANGED <<step, profile, website, said, torn, crashes>>

\* Mutant: what an earlier site left is kept.
PersistBeside(s) ==
  /\ s \in reading
  /\ reading' = reading \ {s}
  /\ website' = [c \in DOMAIN website |-> website[c] \union {s}]
  /\ UNCHANGED <<step, profile, entries, said, torn, detours, crashes>>

\* The old entries go first, then the new ones are written one by one: a stop
\* on the way leaves some of them.
PersistResult(s) ==
  /\ s \in reading
  /\ \/ /\ website' = [c \in DOMAIN website |-> {s}]
        /\ reading' = reading \ {s}
        /\ UNCHANGED crashes
     \/ /\ crashes < MaxCrashes /\ crashes' = crashes + 1
        /\ \E saved \in SUBSET {"website_source_url"} :
             website' = [c \in DOMAIN website |->
                           IF c \in saved THEN {s} ELSE {}]
        /\ reading' = {}
  /\ UNCHANGED <<step, profile, entries, said, torn, detours>>

FetchFails(s) ==
  /\ s \in reading
  /\ reading' = reading \ {s}
  /\ UNCHANGED <<step, profile, entries, website, said, torn, detours,
                 crashes>>

-----------------------------------------------------------------------------
(* The interview.                                                          *)

\* save_knowledge_entry, for the answer and at the end for the summary of the
\* tenant's own columns.
Kept(a) ==
  LET withAnswer == [entries EXCEPT ![Category[step]] = Append(@, a)]
  IN  IF step = "interview_q3"
      THEN [withAnswer EXCEPT !["basic_info"] = Append(@, profile)]
      ELSE withAnswer

\* Mutant: the way back to the first question keeps the second answer.
ErasedOnce(back) ==
  [entries EXCEPT ![Category[back]] = <<>>]

\* delete_knowledge_entries_by_category for the questions that come again.
Erased(back) ==
  [c \in Categories |->
     IF \/ c = Category[back]
        \/ c = "pain_point" /\ step = "interview_q3"
     THEN <<>> ELSE entries[c]]

Answer(a) ==
  /\ step \in Questions
  /\ entries' = Kept(a)
  /\ said' = [said EXCEPT ![step] = a]
  /\ step' = Following[step]
  /\ UNCHANGED <<profile, website, reading, torn, detours, crashes>>

\* The process stops after a commit and before the step moves on.
AnswerTorn(a) ==
  /\ step \in Questions
  /\ crashes < MaxCrashes /\ crashes' = crashes + 1
  /\ \/ entries' = Kept(a)
     \/ entries' = [entries EXCEPT ![Category[step]] = Append(@, a)]
  /\ torn' = [c \in Categories |->
                torn[c] + Len(entries'[c]) - Len(entries[c])]
  /\ reading' = {}
  /\ UNCHANGED <<step, profile, website, said, detours>>

\* "Again, please": one question back, or to a question named by its number.
Redo(back) ==
  /\ \/ step = "interview_q2" /\ back = "interview_q1"
     \/ step = "interview_q3" /\ back \in {"interview_q1", "interview_q2"}
  /\ Detour
  /\ entries' = Erased(back)
  /\ step' = back
  /\ UNCHANGED <<profile, website, reading, said, torn, crashes>>

Restart ==
  /\ crashes < MaxCrashes /\ crashes' = crashes + 1
  /\ reading' = {}
  /\ UNCHANGED <<step, profile, entries, website, said, torn, detours>>

Next ==
  \/ Open
  \/ SkipDocs
  \/ \E n \in Names : Tell(n)
  \/ \E a \in Answers : Answer(a) \/ AnswerTorn(a)
  \/ \E m \in Answers \union Sites : Material(m)
  \/ \E s \in Sites : PersistResult(s) \/ FetchFails(s)
  \/ \E back \in Questions : Redo(back)
  \/ Restart

Spec == Init /\ [][Next]_vars

-----------------------------------------------------------------------------
(* Properties.                                                             *)

\* A finished onboarding left exactly one entry for each interview question,
\* the boss's last answer to it, and one summary of the tenant as it was told,
\* however often questions were answered again; only a process that stopped
\* between an answer and its step leaves the answer a second time.
CompletedIsAnswered ==
  step = "completed" =>
    /\ \A q \in Questions :
         LET kept == entries[Category[q]]
         IN  /\ Len(kept) \in 1 .. 1 + torn[Category[q]]
             /\ kept[Len(kept)] = said[q]
    /\ Len(entries["basic_info"]) \in 1 .. 1 + torn["basic_info"]
    /\ \A i \in 1 .. Len(entries["basic_info"]) :
         entries["basic_info"][i] = profile

\* What the knowledge base says of the tenant's website was all taken from one
\* site, in whatever order the fetches of several come back.
OneSiteAtATime ==
  Cardinality(UNION {website[c] : c \in DOMAIN website}) <= 1
=============================================================================
