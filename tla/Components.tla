----------------------------- MODULE Components -----------------------------
(***************************************************************************)
(* The components beside the approval gate of Kachu+, side by side.  They  *)
(* share no rows: a behaviour picks one of them and keeps to it, so a run  *)
(* explores the sum of the components and not their product.  Each is an   *)
(* instance of its own module over variables of its own; MCComponents      *)
(* gives the sets and the bounds their values, ComponentsProofs proves     *)
(* what holds for every value.                                             *)
(***************************************************************************)
EXTENDS Naturals, Conversations, Services, FirstKachu

VARIABLE part

vars == <<part, draftVars, inboxVars, metaVars, googleVars, customerVars,
          jobVars, gateVars, dialogueVars, consentVars, roundVars, perfVars,
          welcomeVars, boardingVars, shopVars, replayVars, learnVars>>

-----------------------------------------------------------------------------
Init ==
  /\ part \in {"drafts", "inbox", "meta", "google", "customers", "jobs", "gate", "dialogue",
              "consents", "rounds", "perf", "welcome", "boarding", "shops",
              "replays", "learning"}
  /\ Drafts!Init
  /\ Inbox!Init
  /\ Meta!Init
  /\ Google!Init
  /\ Customers!Init
  /\ Jobs!Init
  /\ Gate!Init
  /\ Dialogue!Init
  /\ Consent!Init
  /\ Rounds!Init
  /\ Perf!Init
  /\ Welcome!Init
  /\ Boarding!Init
  /\ Shops!Init
  /\ Replays!Init
  /\ Learn!Init
  /\ part # "gate" => gateSessions = << >>    \* one start is enough for the others
  /\ part # "shops" => shopActive = [x \in Accounts |-> "none"]
  /\ part # "replays" => replayEngaged = {}

DraftsStep ==
  /\ part = "drafts" /\ Drafts!Next
  /\ UNCHANGED <<part, inboxVars, metaVars, googleVars, customerVars, jobVars,
                  gateVars, dialogueVars, consentVars, roundVars, perfVars,
                  welcomeVars, boardingVars, shopVars, replayVars, learnVars>>

InboxStep ==
  /\ part = "inbox" /\ Inbox!Next
  /\ UNCHANGED <<part, draftVars, metaVars, googleVars, customerVars, jobVars,
                  gateVars, dialogueVars, consentVars, roundVars, perfVars,
                  welcomeVars, boardingVars, shopVars, replayVars, learnVars>>

MetaStep ==
  /\ part = "meta" /\ Meta!Next
  /\ UNCHANGED <<part, draftVars, inboxVars, googleVars, customerVars,
                  jobVars, gateVars, dialogueVars, consentVars, roundVars,
                  perfVars, welcomeVars, boardingVars, shopVars, replayVars,
                  learnVars>>

GoogleStep ==
  /\ part = "google" /\ Google!Next
  /\ UNCHANGED <<part, draftVars, inboxVars, metaVars, customerVars, jobVars,
                  gateVars, dialogueVars, consentVars, roundVars, perfVars,
                  welcomeVars, boardingVars, shopVars, replayVars, learnVars>>

CustomersStep ==
  /\ part = "customers" /\ Customers!Next
  /\ UNCHANGED <<part, draftVars, inboxVars, metaVars, googleVars, jobVars,
                  gateVars, dialogueVars, consentVars, roundVars, perfVars,
                  welcomeVars, boardingVars, shopVars, replayVars, learnVars>>

JobsStep ==
  /\ part = "jobs" /\ Jobs!Next
  /\ UNCHANGED <<part, draftVars, inboxVars, metaVars, googleVars,
                  customerVars, gateVars, dialogueVars, consentVars,
                  roundVars, perfVars, welcomeVars, boardingVars, shopVars,
                  replayVars, learnVars>>

GateStep ==
  /\ part = "gate" /\ Gate!Next
  /\ UNCHANGED <<part, draftVars, inboxVars, metaVars, googleVars,
                  customerVars, jobVars, dialogueVars, consentVars, roundVars,
                  perfVars, welcomeVars, boardingVars, shopVars, replayVars,
                  learnVars>>

DialogueStep ==
  /\ part = "dialogue" /\ Dialogue!Next
  /\ UNCHANGED <<part, draftVars, inboxVars, metaVars, googleVars,
                  customerVars, jobVars, gateVars, consentVars, roundVars,
                  perfVars, welcomeVars, boardingVars, shopVars, replayVars,
                  learnVars>>

ConsentStep ==
  /\ part = "consents" /\ Consent!Next
  /\ UNCHANGED <<part, draftVars, inboxVars, metaVars, googleVars,
                  customerVars, jobVars, gateVars, dialogueVars, roundVars,
                  perfVars, welcomeVars, boardingVars, shopVars, replayVars,
                  learnVars>>

RoundsStep ==
  /\ part = "rounds" /\ Rounds!Next
  /\ UNCHANGED <<part, draftVars, inboxVars, metaVars, googleVars,
                  customerVars, jobVars, gateVars, dialogueVars, consentVars,
                  perfVars, welcomeVars, boardingVars, shopVars, replayVars,
                  learnVars>>

PerfStep ==
  /\ part = "perf" /\ Perf!Next
  /\ UNCHANGED <<part, draftVars, inboxVars, metaVars, googleVars,
                  customerVars, jobVars, gateVars, dialogueVars, consentVars,
                  roundVars, welcomeVars, boardingVars, shopVars, replayVars,
                  learnVars>>

WelcomeStep ==
  /\ part = "welcome" /\ Welcome!Next
  /\ UNCHANGED <<part, draftVars, inboxVars, metaVars, googleVars,
                  customerVars, jobVars, gateVars, dialogueVars, consentVars,
                  roundVars, perfVars, boardingVars, shopVars, replayVars,
                  learnVars>>

BoardingStep ==
  /\ part = "boarding" /\ Boarding!Next
  /\ UNCHANGED <<part, draftVars, inboxVars, metaVars, googleVars,
                  customerVars, jobVars, gateVars, dialogueVars, consentVars,
                  roundVars, perfVars, welcomeVars, shopVars, replayVars,
                  learnVars>>

ShopsStep ==
  /\ part = "shops" /\ Shops!Next
  /\ UNCHANGED <<part, draftVars, inboxVars, metaVars, googleVars,
                  customerVars, jobVars, gateVars, dialogueVars, consentVars,
                  roundVars, perfVars, welcomeVars, boardingVars, replayVars,
                  learnVars>>

ReplaysStep ==
  /\ part = "replays" /\ Replays!Next
  /\ UNCHANGED <<part, draftVars, inboxVars, metaVars, googleVars,
                  customerVars, jobVars, gateVars, dialogueVars, consentVars,
                  roundVars, perfVars, welcomeVars, boardingVars, shopVars,
                  learnVars>>

LearnStep ==
  /\ part = "learning" /\ Learn!Next
  /\ UNCHANGED <<part, draftVars, inboxVars, metaVars, googleVars,
                  customerVars, jobVars, gateVars, dialogueVars, consentVars,
                  roundVars, perfVars, welcomeVars, boardingVars, shopVars,
                  replayVars>>

Next ==
  \/ DraftsStep
  \/ InboxStep
  \/ MetaStep
  \/ GoogleStep
  \/ CustomersStep
  \/ JobsStep
  \/ GateStep
  \/ DialogueStep
  \/ ConsentStep
  \/ RoundsStep
  \/ PerfStep
  \/ WelcomeStep
  \/ BoardingStep
  \/ ShopsStep
  \/ ReplaysStep
  \/ LearnStep

Spec == Init /\ [][Next]_vars

-----------------------------------------------------------------------------
\* Every variable of the chosen component stays in its set.
TypeOK ==
  /\ part = "drafts" => Drafts!TypeOK
  /\ part = "inbox" => Inbox!TypeOK
  /\ part = "meta" => Meta!TypeOK
  /\ part = "google" => Google!TypeOK
  /\ part = "customers" => Customers!TypeOK
  /\ part = "jobs" => Jobs!TypeOK
  /\ part = "gate" => Gate!TypeOK
  /\ part = "dialogue" => Dialogue!TypeOK
  /\ part = "consents" => Consent!TypeOK
  /\ part = "rounds" => Rounds!TypeOK
  /\ part = "perf" => Perf!TypeOK
  /\ part = "welcome" => Welcome!TypeOK
  /\ part = "boarding" => Boarding!TypeOK
  /\ part = "shops" => Shops!TypeOK
  /\ part = "replays" => Replays!TypeOK
  /\ part = "learning" => Learn!TypeOK

\* An approve tap posts a local draft at most once to each channel.
PostedByTap == part = "drafts" => Drafts!PostedByTap

\* A local draft that says published was posted wherever it had a text for.
PublishedEverywhere == part = "drafts" => Drafts!PublishedEverywhere

\* An item or engagement that awaits approval has a row that can be decided.
WaitingHasRow == part = "drafts" => Drafts!WaitingHasRow

\* The item or engagement follows what became of its draft, and the briefs of
\* a tenant what was learnt from him.
RecordFollowsRow ==
  /\ part = "drafts" => Drafts!RecordFollowsRow
  /\ part = "learning" => Learn!FreshMeansWhole

\* No delivery, replay or round of the loop opens a decided draft again.
DecidedStaysDecided == Drafts!DecidedStaysDecided

\* A LINE event is handled once, and once more for each replay; replays of a
\* Meta event push one card; a visit to a connect link of the first Kachu
\* completes one connection at most.
HandledOnce ==
  /\ part = "inbox" => Inbox!HandledOnce
  /\ part = "replays" => Replays!CardedOnce
  /\ part = "consents" => Consent!ConsentUsedOnce

\* An image is acted upon once for each time it was handled: it enters the
\* knowledge base of Kachu+ once, and the first Kachu's question about it is
\* answered once.  What a boss repeats within the promoter's window is learnt once.
AbsorbedOnce ==
  /\ part = "inbox" => Inbox!AbsorbedOnce
  /\ part = "learning" => Learn!LearnedOnce
  /\ part = "dialogue" => Dialogue!AnsweredOnce

\* A customer whose conversation was taken over gets no answer of Kachu+.
SilentAfterHandoff == part = "inbox" => Inbox!SilentAfterHandoff

\* A closed question what to do with an image is never open again.
ClosedStaysClosed == Inbox!ClosedStaysClosed

\* Only pages that Facebook offered are connected, in either Kachu, and only
\* locations that Google offered.
ConnectedWasOffered ==
  /\ part = "meta" => Meta!ConnectedWasOffered
  /\ part = "consents" => Consent!ConnectedWasOffered

\* A connected page is replaced only if the owner agreed.
NoSilentOverwrite == Meta!NoSilentOverwrite

\* The Google account the owner put in last is the one stored, and so is each
\* credential of a LINE channel.
LastPutStands ==
  /\ part = "google" => Google!LastPutStands
  /\ part = "shops" => Shops!NoFieldUndone

\* Every event of a LINE user is counted, on a profile the owner sees, which is
\* the one the user is linked to; and a LINE user commands one tenant, unless he
\* was provisioned twice or two bindings overlapped.
CountsAddUp ==
  /\ part = "customers" => Customers!CountsAddUp /\ Customers!LinkIsVisible
  /\ part = "shops" => Shops!BoundOnce

\* A merge of two profiles is not undone by another transaction.
MergeLasts == Customers!MergeLasts

\* A merge keeps the tags of both profiles.
TagsSurviveMerge == Customers!TagsSurviveMerge

\* A recipient gets one Meta report a day, and of the first Kachu one nudge a
\* day and one report on a post, and one more for a broken delivery.
OneReportADay ==
  /\ part = "jobs" => Jobs!OneReportADay
  /\ part = "rounds" => Rounds!NudgedOnce
  /\ part = "perf" => Perf!ReportedOnce

\* A finished onboarding left the boss's last answer to every question, in
\* the first Kachu unless messages overlapped or a crash cut one in two.  A
\* provisioned tenant is whole, and a replay that was not cut short left no
\* event without what it lacked.
CompletedIsAnswered ==
  /\ part = "shops" => Shops!WholeShop
  /\ part = "replays" => Replays!RunRepairs
  /\ part = "boarding" => Boarding!CompletedIsAnswered
  /\ part = "welcome" => Welcome!FinishedIsAnswered

\* A draft of the first Kachu is published by AgentOS or by its own schedule.
OnePathOut == part = "gate" => Gate!OnePathOut

\* The first Kachu's publisher posts a scheduled draft at most once.
ScheduledOnce == part = "gate" => Gate!ScheduledOnce

\* A decision of the first Kachu is being dispatched, waits or is recorded.
NoDecisionDropped == part = "dialogue" => Dialogue!NoDecisionDropped

\* A decision of the first Kachu that carries a key has one task at AgentOS,
\* and so has an automation that is due on a day.
OneTaskPerDecision ==
  /\ part = "dialogue" => Dialogue!OneTaskPerDecision
  /\ part = "rounds" => Rounds!TaskPerBucket
=============================================================================
