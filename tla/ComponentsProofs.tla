-------------------------- MODULE ComponentsProofs --------------------------
(***************************************************************************)
(* What the components promise, together and for every value of the        *)
(* constants.  A step of the composition is a step of one component, and   *)
(* the others stutter; so a behaviour of the composition is a behaviour of *)
(* each of them, and has what the modules of proofs show of it.            *)
(***************************************************************************)
EXTENDS Components, ConversationsProofs, ServicesProofs, FirstKachuProofs,
        TLAPS

-----------------------------------------------------------------------------
(* From the composition to its components                                    *)

\* What a step of the composition is to each component.
StepOrIdle ==
    /\ Drafts!Next \/ UNCHANGED draftVars
    /\ Inbox!Next \/ UNCHANGED inboxVars
    /\ Meta!Next \/ UNCHANGED metaVars
    /\ Google!Next \/ UNCHANGED googleVars
    /\ Customers!Next \/ UNCHANGED customerVars
    /\ Jobs!Next \/ UNCHANGED jobVars
    /\ Gate!Next \/ UNCHANGED gateVars
    /\ Dialogue!Next \/ UNCHANGED dialogueVars
    /\ Consent!Next \/ UNCHANGED consentVars
    /\ Rounds!Next \/ UNCHANGED roundVars
    /\ Perf!Next \/ UNCHANGED perfVars
    /\ Welcome!Next \/ UNCHANGED welcomeVars
    /\ Boarding!Next \/ UNCHANGED boardingVars
    /\ Shops!Next \/ UNCHANGED shopVars
    /\ Replays!Next \/ UNCHANGED replayVars
    /\ Learn!Next \/ UNCHANGED learnVars

\* A step of the composition is a step of one component.
LEMMA StepIsOfOne ==
    ASSUME [Next]_vars
    PROVE  StepOrIdle
<1>1. CASE DraftsStep
  BY <1>1 DEF DraftsStep, StepOrIdle
<1>2. CASE InboxStep
  BY <1>2 DEF InboxStep, StepOrIdle
<1>3. CASE MetaStep
  BY <1>3 DEF MetaStep, StepOrIdle
<1>4. CASE GoogleStep
  BY <1>4 DEF GoogleStep, StepOrIdle
<1>5. CASE CustomersStep
  BY <1>5 DEF CustomersStep, StepOrIdle
<1>6. CASE JobsStep
  BY <1>6 DEF JobsStep, StepOrIdle
<1>7. CASE GateStep
  BY <1>7 DEF GateStep, StepOrIdle
<1>8. CASE DialogueStep
  BY <1>8 DEF DialogueStep, StepOrIdle
<1>9. CASE ConsentStep
  BY <1>9 DEF ConsentStep, StepOrIdle
<1>10. CASE RoundsStep
  BY <1>10 DEF RoundsStep, StepOrIdle
<1>11. CASE PerfStep
  BY <1>11 DEF PerfStep, StepOrIdle
<1>12. CASE WelcomeStep
  BY <1>12 DEF WelcomeStep, StepOrIdle
<1>13. CASE BoardingStep
  BY <1>13 DEF BoardingStep, StepOrIdle
<1>14. CASE ShopsStep
  BY <1>14 DEF ShopsStep, StepOrIdle
<1>15. CASE ReplaysStep
  BY <1>15 DEF ReplaysStep, StepOrIdle
<1>16. CASE LearnStep
  BY <1>16 DEF LearnStep, StepOrIdle
<1>17. CASE UNCHANGED vars
  BY <1>17 DEF vars, StepOrIdle
<1> QED
  BY <1>1, <1>2, <1>3, <1>4, <1>5, <1>6, <1>7, <1>8, <1>9, <1>10, <1>11,
     <1>12, <1>13, <1>14, <1>15, <1>16, <1>17 DEF Next

\* A behaviour of the composition is one of Drafts.
LEMMA DraftsRuns == Spec => Drafts!Spec
<1>1. Init => Drafts!Init
  BY DEF Init
<1>2. [Next]_vars => [Drafts!Next]_(Drafts!vars)
  <2>1. UNCHANGED draftVars => UNCHANGED Drafts!vars
    BY DEF draftVars, Drafts!vars, Drafts!recVars, Drafts!procVars,
       Drafts!counters
  <2> QED
    BY <2>1, StepIsOfOne DEF StepOrIdle
<1> QED
  BY <1>1, <1>2, PTL DEF Spec, Drafts!Spec

\* A behaviour of the composition is one of Inbox.
LEMMA InboxRuns == Spec => Inbox!Spec
<1>1. Init => Inbox!Init
  BY DEF Init
<1>2. [Next]_vars => [Inbox!Next]_(Inbox!vars)
  <2>1. UNCHANGED inboxVars => UNCHANGED Inbox!vars
    BY DEF inboxVars, Inbox!vars, Inbox!inboxVars, Inbox!assetVars,
       Inbox!talkVars, Inbox!procVars, Inbox!counters
  <2> QED
    BY <2>1, StepIsOfOne DEF StepOrIdle
<1> QED
  BY <1>1, <1>2, PTL DEF Spec, Inbox!Spec

\* A behaviour of the composition is one of Meta.
LEMMA MetaRuns == Spec => Meta!Spec
<1>1. Init => Meta!Init
  BY DEF Init
<1>2. [Next]_vars => [Meta!Next]_(Meta!vars)
  <2>1. UNCHANGED metaVars => UNCHANGED Meta!vars
    BY DEF metaVars, Meta!vars, Meta!oauthVars, Meta!procVars,
       Meta!histVars, Meta!rowVars
  <2> QED
    BY <2>1, StepIsOfOne DEF StepOrIdle
<1> QED
  BY <1>1, <1>2, PTL DEF Spec, Meta!Spec

\* A behaviour of the composition is one of Google.
LEMMA GoogleRuns == Spec => Google!Spec
<1>1. Init => Google!Init
  BY DEF Init
<1>2. [Next]_vars => [Google!Next]_(Google!vars)
  <2>1. UNCHANGED googleVars => UNCHANGED Google!vars
    BY DEF googleVars, Google!vars, Google!procVars
  <2> QED
    BY <2>1, StepIsOfOne DEF StepOrIdle
<1> QED
  BY <1>1, <1>2, PTL DEF Spec, Google!Spec

\* A behaviour of the composition is one of Customers.
LEMMA CustomersRuns == Spec => Customers!Spec
<1>1. Init => Customers!Init
  BY DEF Init
<1>2. [Next]_vars => [Customers!Next]_(Customers!vars)
  <2>1. UNCHANGED customerVars => UNCHANGED Customers!vars
    BY DEF customerVars, Customers!vars, Customers!profileVars,
       Customers!tagVars, Customers!loopVars, Customers!mergeVars,
       Customers!histVars, Customers!bounds
  <2> QED
    BY <2>1, StepIsOfOne DEF StepOrIdle
<1> QED
  BY <1>1, <1>2, PTL DEF Spec, Customers!Spec

\* A behaviour of the composition is one of Jobs.
LEMMA JobsRuns == Spec => Jobs!Spec
<1>1. Init => Jobs!Init
  BY DEF Init
<1>2. [Next]_vars => [Jobs!Next]_(Jobs!vars)
  <2>1. UNCHANGED jobVars => UNCHANGED Jobs!vars
    BY DEF jobVars, Jobs!vars
  <2> QED
    BY <2>1, StepIsOfOne DEF StepOrIdle
<1> QED
  BY <1>1, <1>2, PTL DEF Spec, Jobs!Spec

\* A behaviour of the composition is one of Gate.
LEMMA GateRuns == Spec => Gate!Spec
<1>1. Init => Gate!Init
  BY DEF Init
<1>2. [Next]_vars => [Gate!Next]_(Gate!vars)
  <2>1. UNCHANGED gateVars => UNCHANGED Gate!vars
    BY DEF gateVars, Gate!vars, Gate!gateVars, Gate!rowVars, Gate!askVars,
       Gate!pubVars, Gate!procVars
  <2> QED
    BY <2>1, StepIsOfOne DEF StepOrIdle
<1> QED
  BY <1>1, <1>2, PTL DEF Spec, Gate!Spec

\* A behaviour of the composition is one of Dialogue.
LEMMA DialogueRuns == Spec => Dialogue!Spec
<1>1. Init => Dialogue!Init
  BY DEF Init
<1>2. [Next]_vars => [Dialogue!Next]_(Dialogue!vars)
  <2>1. UNCHANGED dialogueVars => UNCHANGED Dialogue!vars
    BY DEF dialogueVars, Dialogue!vars, Dialogue!askVars, Dialogue!procVars,
       Dialogue!queueVars, Dialogue!histVars, Dialogue!bounds
  <2> QED
    BY <2>1, StepIsOfOne DEF StepOrIdle
<1> QED
  BY <1>1, <1>2, PTL DEF Spec, Dialogue!Spec

\* A behaviour of the composition is one of Consent.
LEMMA ConsentRuns == Spec => Consent!Spec
<1>1. Init => Consent!Init
  BY DEF Init
<1>2. [Next]_vars => [Consent!Next]_(Consent!vars)
  <2>1. UNCHANGED consentVars => UNCHANGED Consent!vars
    BY DEF consentVars, Consent!vars, Consent!procVars, Consent!bounds
  <2> QED
    BY <2>1, StepIsOfOne DEF StepOrIdle
<1> QED
  BY <1>1, <1>2, PTL DEF Spec, Consent!Spec

\* A behaviour of the composition is one of Rounds.
LEMMA RoundsRuns == Spec => Rounds!Spec
<1>1. Init => Rounds!Init
  BY DEF Init
<1>2. [Next]_vars => [Rounds!Next]_(Rounds!vars)
  <2>1. UNCHANGED roundVars => UNCHANGED Rounds!vars
    BY DEF roundVars, Rounds!vars, Rounds!roundVars, Rounds!bounds
  <2> QED
    BY <2>1, StepIsOfOne DEF StepOrIdle
<1> QED
  BY <1>1, <1>2, PTL DEF Spec, Rounds!Spec

\* A behaviour of the composition is one of Perf.
LEMMA PerfRuns == Spec => Perf!Spec
<1>1. Init => Perf!Init
  BY DEF Init
<1>2. [Next]_vars => [Perf!Next]_(Perf!vars)
  <2>1. UNCHANGED perfVars => UNCHANGED Perf!vars
    BY DEF perfVars, Perf!vars, Perf!bounds
  <2> QED
    BY <2>1, StepIsOfOne DEF StepOrIdle
<1> QED
  BY <1>1, <1>2, PTL DEF Spec, Perf!Spec

\* A behaviour of the composition is one of Welcome.
LEMMA WelcomeRuns == Spec => Welcome!Spec
<1>1. Init => Welcome!Init
  BY DEF Init
<1>2. [Next]_vars => [Welcome!Next]_(Welcome!vars)
  <2>1. UNCHANGED welcomeVars => UNCHANGED Welcome!vars
    BY DEF welcomeVars, Welcome!vars, Welcome!procVars, Welcome!bounds
  <2> QED
    BY <2>1, StepIsOfOne DEF StepOrIdle
<1> QED
  BY <1>1, <1>2, PTL DEF Spec, Welcome!Spec

\* A behaviour of the composition is one of Boarding.
LEMMA BoardingRuns == Spec => Boarding!Spec
<1>1. Init => Boarding!Init
  BY DEF Init
<1>2. [Next]_vars => [Boarding!Next]_(Boarding!vars)
  <2>1. UNCHANGED boardingVars => UNCHANGED Boarding!vars
    BY DEF boardingVars, Boarding!vars
  <2> QED
    BY <2>1, StepIsOfOne DEF StepOrIdle
<1> QED
  BY <1>1, <1>2, PTL DEF Spec, Boarding!Spec

\* A behaviour of the composition is one of Shops.
LEMMA ShopsRuns == Spec => Shops!Spec
<1>1. Init => Shops!Init
  BY DEF Init
<1>2. [Next]_vars => [Shops!Next]_(Shops!vars)
  <2>1. UNCHANGED shopVars => UNCHANGED Shops!vars
    BY DEF shopVars, Shops!vars, Shops!rows, Shops!procVars, Shops!history
  <2> QED
    BY <2>1, StepIsOfOne DEF StepOrIdle
<1> QED
  BY <1>1, <1>2, PTL DEF Spec, Shops!Spec

\* A behaviour of the composition is one of Replays.
LEMMA ReplaysRuns == Spec => Replays!Spec
<1>1. Init => Replays!Init
  BY DEF Init
<1>2. [Next]_vars => [Replays!Next]_(Replays!vars)
  <2>1. UNCHANGED replayVars => UNCHANGED Replays!vars
    BY DEF replayVars, Replays!vars, Replays!bounds
  <2> QED
    BY <2>1, StepIsOfOne DEF StepOrIdle
<1> QED
  BY <1>1, <1>2, PTL DEF Spec, Replays!Spec

\* A behaviour of the composition is one of Learn.
LEMMA LearnRuns == Spec => Learn!Init /\ [][Learn!Next]_(Learn!vars)
<1>1. Init => Learn!Init
  BY DEF Init
<1>2. [Next]_vars => [Learn!Next]_(Learn!vars)
  <2>1. UNCHANGED learnVars => UNCHANGED Learn!vars
    BY DEF learnVars, Learn!vars, Learn!learning, Learn!briefing
  <2> QED
    BY <2>1, StepIsOfOne DEF StepOrIdle
<1> QED
  BY <1>1, <1>2, PTL DEF Spec

-----------------------------------------------------------------------------
(* What the proofs ask of the constants                                      *)

\* The kinds of drafts are apart.
LEMMA DraftsAreApart == DraftsApart
  BY DraftKindsApart DEF DraftsApart, Drafts!Loop

\* A body is a list of events, and there are finitely many slots.
LEMMA BodiesAreEvents ==
    Bodies \subseteq Seq(Inbox!Events) /\ IsFiniteSet(Slots) /\ InboxApart
  BY EventsApart DEF Inbox!Events, InboxApart

\* Of the services.
LEMMA ServicesAreBounded ==
    /\ CustomersBounded /\ JobsTurns /\ BoardingBounded /\ ShopsRequested
    /\ ReplaysFinite /\ LearnBounded
  BY NoneMissing, PeriodsNat, EventsFinite, ServiceBoundsNat, MishapsNat
     DEF CustomersBounded, JobsTurns, BoardingBounded, ShopsRequested,
         ReplaysFinite, LearnBounded

\* Of the first Kachu.
LEMMA FirstKachuIsBounded ==
    GateCounted /\ DialogueBounded /\ RoundsHours /\ WelcomeBounded
  BY HoursNat, FirstBoundsNat, MishapsNat
     DEF GateCounted, DialogueBounded, RoundsHours, WelcomeBounded

-----------------------------------------------------------------------------
(* Kachu+ in the chat                                                        *)

\* Each channel gets a local draft at most once for each approve tap, over
\* retried drafts, double taps, crashes and lost answers.
THEOREM PostsAreApproved == Spec => []PostedByTap
<1>1. Drafts!PostedByTap => PostedByTap
  BY DEF PostedByTap
<1>2. Drafts!Spec => []Drafts!PostedByTap
  BY DraftsAreApart, DraftsPostsAreApproved
<1> QED
  BY <1>1, <1>2, DraftsRuns, PTL

\* A draft that says published went wherever it had a text for.
THEOREM PublishedMeansPosted == Spec => []PublishedEverywhere
<1>1. Drafts!PublishedEverywhere => PublishedEverywhere
  BY DEF PublishedEverywhere
<1>2. Drafts!Spec => []Drafts!PublishedEverywhere
  BY DraftsAreApart, DraftsPublishedIsPosted
<1> QED
  BY <1>1, <1>2, DraftsRuns, PTL

\* What awaits the owner's approval has a row he can decide, whatever failed
\* while it was drafted.
THEOREM WaitingIsDecidable == Spec => []WaitingHasRow
<1>1. Drafts!WaitingHasRow => WaitingHasRow
  BY DEF WaitingHasRow
<1>2. Drafts!Spec => []Drafts!WaitingHasRow
  BY DraftsAreApart, DraftsWaitingIsDecidable
<1> QED
  BY <1>1, <1>2, DraftsRuns, PTL

\* An item follows what became of its draft, and the briefs of a tenant what
\* was learnt from him, over every interleaving of promoter and refresh.
THEOREM RecordsFollow == Spec => []RecordFollowsRow
<1>1. Drafts!RecordFollowsRow /\ Learn!FreshMeansWhole => RecordFollowsRow
  BY DEF RecordFollowsRow
<1>2. Drafts!Spec => []Drafts!RecordFollowsRow
  BY DraftsAreApart, DraftsRecordFollows
<1>3. Learn!Init /\ [][Learn!Next]_(Learn!vars) => []Learn!FreshMeansWhole
  BY ServicesAreBounded, LearnFreshMeansWholeHolds
<1> QED
  BY <1>1, <1>2, <1>3, DraftsRuns, LearnRuns, PTL

\* No delivery, replay or round of the loop opens a decided draft again.
THEOREM DecidedForGood == Spec => DecidedStaysDecided
<1>1. Drafts!Spec => Drafts!DecidedStaysDecided
  BY DraftsAreApart, DraftsDecidedForGood
<1>2. Drafts!DecidedStaysDecided => DecidedStaysDecided
  BY DEF DecidedStaysDecided
<1> QED
  BY <1>1, <1>2, DraftsRuns, PTL

\* A LINE event is handled once, and once more for each replay of it; however
\* many replays of Meta events overlap the owner gets one card; and a visit to
\* a connect link of the first Kachu completes one connection.
THEOREM BegunOnce == Spec => []HandledOnce
<1>1. Inbox!HandledOnce /\ ReplaysCardInv /\ Consent!ConsentUsedOnce => HandledOnce
  BY DEF HandledOnce, ReplaysCardInv, Replays!CardedOnce
<1>2. Inbox!Spec => []Inbox!HandledOnce
  BY BodiesAreEvents, InboxBegunOnce
<1>3. Replays!Spec => []ReplaysCardInv
  BY ServicesAreBounded, ReplaysCardInvHolds
<1>4. Consent!Spec => []Consent!ConsentUsedOnce
  BY NobodyMissing, ConsentIsSpent
<1> QED
  BY <1>1, <1>2, <1>3, <1>4, InboxRuns, ReplaysRuns, ConsentRuns, PTL

\* An image enters the knowledge base once for each time it was handled, and
\* the first Kachu acts on a photo once for each question; what a boss repeats
\* within the window of the promoter is learnt once.
THEOREM EntriesArePaid == Spec => []AbsorbedOnce
<1>1. Inbox!AbsorbedOnce /\ Learn!LearnedOnce /\ DialogueOpen => AbsorbedOnce
  BY DEF AbsorbedOnce, DialogueOpen, Dialogue!AnsweredOnce
<1>2. Inbox!Spec => []Inbox!AbsorbedOnce
  BY BodiesAreEvents, InboxEntriesArePaid
<1>3. Learn!Init /\ [][Learn!Next]_(Learn!vars) => []Learn!LearnedOnce
  BY ServicesAreBounded, LearnedOnceHolds
<1>4. Dialogue!Spec => []DialogueOpen
  BY FirstKachuIsBounded, NobodyMissing, DialogueOpenHolds
<1> QED
  BY <1>1, <1>2, <1>3, <1>4, InboxRuns, LearnRuns, DialogueRuns, PTL

\* A customer who was handed to a human gets no answer of Kachu+ from then on,
\* although his message may have been on its way.
THEOREM LockedIsSilent == Spec => []SilentAfterHandoff
<1>1. Inbox!SilentAfterHandoff => SilentAfterHandoff
  BY DEF SilentAfterHandoff
<1>2. Inbox!Spec => []Inbox!SilentAfterHandoff
  BY BodiesAreEvents, InboxLockedIsSilent
<1> QED
  BY <1>1, <1>2, InboxRuns, PTL

\* A question what to do with an image, once closed, is never open again.
THEOREM ClosedForGood == Spec => ClosedStaysClosed
<1>1. Inbox!Spec => Inbox!ClosedStaysClosed
  BY BodiesAreEvents, InboxClosedForGood
<1>2. Inbox!ClosedStaysClosed => ClosedStaysClosed
  BY DEF ClosedStaysClosed
<1> QED
  BY <1>1, <1>2, InboxRuns, PTL

-----------------------------------------------------------------------------
(* The services                                                              *)

\* In either Kachu only what the platform offered this owner is connected.
THEOREM OnlyOfferedIsConnected == Spec => []ConnectedWasOffered
<1>1. Meta!ConnectedWasOffered /\ Consent!ConnectedWasOffered => ConnectedWasOffered
  BY DEF ConnectedWasOffered
<1>2. Consent!Spec => []Consent!ConnectedWasOffered
  BY NobodyMissing, ConsentConnectedAsOffered
<1> QED
  BY <1>1, <1>2, MetaOnlyOffered, MetaRuns, ConsentRuns, PTL

\* No interleaving of requests replaces a connected page unless the owner of
\* the request that writes agreed to it.
THEOREM OwnerWasAsked == Spec => NoSilentOverwrite
<1>1. Meta!Spec => Meta!NoSilentOverwrite
  BY NoneMissing, MetaOwnerWasAsked
<1>2. Meta!NoSilentOverwrite => NoSilentOverwrite
  BY DEF NoSilentOverwrite
<1> QED
  BY <1>1, <1>2, MetaRuns, PTL

\* What was put in last is kept: the Google account, although a refresh writes
\* the whole record, and each credential of a LINE channel.
THEOREM LastPutKept == Spec => []LastPutStands
<1>1. Google!LastPutStands /\ Shops!NoFieldUndone => LastPutStands
  BY DEF LastPutStands
<1>2. Google!Spec => []Google!LastPutStands
  BY NoneMissing, GoogleLastPutKept
<1>3. Shops!Spec => []Shops!NoFieldUndone
  BY ServicesAreBounded, ShopsNoFieldUndoneHolds
<1> QED
  BY <1>1, <1>2, <1>3, GoogleRuns, ShopsRuns, PTL

\* No message, sync or other merge undoes a merge of two profiles.
THEOREM MergedForGood == Spec => MergeLasts
<1>1. Customers!Spec => Customers!MergeLasts
  BY ServicesAreBounded, CustomersMergeLastsHolds
<1>2. Customers!MergeLasts => MergeLasts
  BY DEF MergeLasts
<1> QED
  BY <1>1, <1>2, CustomersRuns, PTL

\* A merge loses no tag of either profile.
THEOREM TagsAreKept == Spec => TagsSurviveMerge
<1>1. Customers!Spec => Customers!TagsSurviveMerge
  BY ServicesAreBounded, CustomersTagsSurviveMergeHolds
<1>2. Customers!TagsSurviveMerge => TagsSurviveMerge
  BY DEF TagsSurviveMerge
<1> QED
  BY <1>1, <1>2, CustomersRuns, PTL

\* Every event of a LINE user is on a profile the owner sees, the one the user
\* is linked to, over messages, profile refreshes, moved links and merges; and a
\* LINE user commands one tenant.  Both but for the overlaps the properties name.
THEOREM EveryEventIsCounted == Spec => []CountsAddUp
<1>1. Customers!CountsAddUp /\ Customers!LinkIsVisible /\ Shops!BoundOnce => CountsAddUp
  BY DEF CountsAddUp
<1>2. Customers!Spec => []Customers!CountsAddUp
  BY ServicesAreBounded, CustomersFinite, CustomersCountsAddUpHolds
<1>3. Customers!Spec => []Customers!LinkIsVisible
  BY ServicesAreBounded, CustomersLinkIsVisibleHolds
<1>4. Shops!Spec => []Shops!BoundOnce
  BY ServicesAreBounded, ShopsBoundOnceHolds
<1> QED
  BY <1>1, <1>2, <1>3, <1>4, CustomersRuns, ShopsRuns, PTL

\* What is sent too early is paid for by a broken delivery: the daily report,
\* the first Kachu's nudge, and its report on a post.
THEOREM ReportsArePaid == Spec => []OneReportADay
<1>1. JobsOwed => Jobs!OneReportADay
  BY DEF JobsOwed, Jobs!OneReportADay
<1>2. RoundsNudgeInv => Rounds!NudgedOnce
  BY DEF RoundsNudgeInv, Rounds!NudgedOnce
<1>3. Jobs!Spec => []JobsOwed
  BY ServicesAreBounded, JobsOwedHolds
<1>4. Rounds!Spec => []RoundsNudgeInv
  BY FirstKachuIsBounded, RoundsNudgeInvHolds
<1>5. Jobs!OneReportADay /\ Rounds!NudgedOnce /\ Perf!ReportedOnce => OneReportADay
  BY DEF OneReportADay
<1> QED
  BY <1>1, <1>2, <1>3, <1>4, <1>5, PerfReportsAccounted, JobsRuns, RoundsRuns,
     PerfRuns, PTL

\* A finished onboarding left the last answer to each question; a provisioned
\* tenant is whole; a replay made up for what its events lacked.
THEOREM CompletedMeansAnswered == Spec => []CompletedIsAnswered
<1>1. ReplaysAskedInv => Replays!RunRepairs
  <2>1. Replays!ToSet(<<>>) = {}
    BY DEF Replays!ToSet
  <2> QED
    BY <2>1 DEF ReplaysAskedInv, Replays!RunRepairs
<1>2. Shops!Spec => []Shops!WholeShop
  BY ServicesAreBounded, ShopsWholeShopHolds
<1>3. Replays!Spec => []ReplaysAskedInv
  BY ServicesAreBounded, ReplaysAskedInvHolds
<1>4. Boarding!Spec => []Boarding!CompletedIsAnswered
  BY ServicesAreBounded, BoardingCompletedIsAnsweredHolds
<1>5. Welcome!Spec => []Welcome!FinishedIsAnswered
  BY FirstKachuIsBounded, WelcomeFinishedIsAnsweredHolds
<1>6. Shops!WholeShop /\ Replays!RunRepairs /\ Boarding!CompletedIsAnswered
      /\ Welcome!FinishedIsAnswered => CompletedIsAnswered
  BY DEF CompletedIsAnswered
<1> QED
  BY <1>1, <1>2, <1>3, <1>4, <1>5, <1>6, ShopsRuns, ReplaysRuns, BoardingRuns,
     WelcomeRuns, PTL

-----------------------------------------------------------------------------
(* The first Kachu                                                           *)

\* A draft goes out by AgentOS or by the schedule: once it is scheduled AgentOS
\* has not posted it and never will, whichever buttons are tapped meanwhile.
THEOREM GoesOutOneWay == Spec => []OnePathOut
<1>1. Gate!OnePathOut => OnePathOut
  BY DEF OnePathOut
<1> QED
  BY <1>1, GateOnePath, GateRuns, PTL

\* The publisher posts a scheduled draft at most once, stopped or not.
THEOREM ScheduledGoesOnce == Spec => []ScheduledOnce
<1>1. Gate!ScheduledOnce => ScheduledOnce
  BY DEF ScheduledOnce
<1> QED
  BY <1>1, GatePostedOnce, GateRuns, PTL

\* A decision of the owner is being dispatched, waits in the queue, is recorded
\* or was cut off by a crash.
THEOREM DecisionsAreKept == Spec => []NoDecisionDropped
<1>1. DialogueDecisionInv => NoDecisionDropped
  BY DEF DialogueDecisionInv, NoDecisionDropped
<1>2. Dialogue!Spec => []DialogueDecisionInv
  BY FirstKachuIsBounded, DialogueDecisionInvHolds
<1> QED
  BY <1>1, <1>2, DialogueRuns, PTL

\* A decision that carries a key has one task at AgentOS however often it is
\* dispatched, and so has an automation on a day, although its hour is moved.
THEOREM OneTaskEach == Spec => []OneTaskPerDecision
<1>1. Dialogue!OneTaskPerDecision /\ RoundsKeyedByDay => OneTaskPerDecision
  BY DEF RoundsKeyedByDay, OneTaskPerDecision
<1>2. Dialogue!Spec => []Dialogue!OneTaskPerDecision
  BY FirstKachuIsBounded, DialogueOneTaskHolds
<1>3. Rounds!Spec => []RoundsKeyedByDay
  BY FirstKachuIsBounded, RoundsKeyedByDayHolds
<1> QED
  BY <1>1, <1>2, <1>3, DialogueRuns, RoundsRuns, PTL

-----------------------------------------------------------------------------
(* Types                                                                     *)

\* Every variable of every component stays in its set, whatever the bounds.
THEOREM TypesHold == Spec => []TypeOK
<1>1. Spec => []Drafts!TypeOK
  <2>1. Drafts!Spec => []Drafts!TypeOK
    BY DraftsTypeCorrect
  <2> QED
    BY <2>1, DraftsRuns, PTL
<1>2. Spec => []Inbox!TypeOK
  <2>1. Inbox!Spec => []Inbox!TypeOK
    BY BodiesAreEvents, InboxTypeCorrect
  <2> QED
    BY <2>1, InboxRuns, PTL
<1>3. Spec => []Meta!TypeOK
  <2>1. Meta!Spec => []MetaAskInv
    BY MetaAskInvHolds
  <2>2. MetaAskInv => Meta!TypeOK
    BY DEF MetaAskInv
  <2> QED
    BY <2>1, <2>2, MetaRuns, PTL
<1>4. Spec => []Google!TypeOK
  <2>1. Google!Spec => []Google!TypeOK
    BY NoneMissing, ServiceBoundsNat, MishapsNat, GoogleTypeCorrect
  <2> QED
    BY <2>1, GoogleRuns, PTL
<1>5. Spec => []Customers!TypeOK
  <2>1. Customers!Spec => []CustomersTypeInv
    BY ServicesAreBounded, CustomersTypeInvHolds
  <2>2. CustomersTypeInv => Customers!TypeOK
    BY CustomersTypeInvIsTypeOK
  <2> QED
    BY <2>1, <2>2, CustomersRuns, PTL
<1>6. Spec => []Jobs!TypeOK
  <2>1. Jobs!Spec => []JobsTypeInv
    BY ServicesAreBounded, JobsTypeInvHolds
  <2>2. JobsTypeInv => Jobs!TypeOK
    BY DEF JobsTypeInv
  <2> QED
    BY <2>1, <2>2, JobsRuns, PTL
<1>7. Spec => []Gate!TypeOK
  <2>1. Gate!Spec => []Gate!TypeOK
    BY FirstKachuIsBounded, GateTypeCorrect
  <2> QED
    BY <2>1, GateRuns, PTL
<1>8. Spec => []Dialogue!TypeOK
  <2>1. Dialogue!Spec => []DialogueTypeInv
    BY FirstKachuIsBounded, NobodyMissing, DialogueTypeInvHolds
  <2>2. DialogueTypeInv => Dialogue!TypeOK
    BY DEF DialogueTypeInv
  <2> QED
    BY <2>1, <2>2, DialogueRuns, PTL
<1>9. Spec => []Consent!TypeOK
  <2>1. Consent!Spec => []Consent!TypeOK
    BY NobodyMissing, FirstBoundsNat, MishapsNat, ConsentTypeCorrect
  <2> QED
    BY <2>1, ConsentRuns, PTL
<1>10. Spec => []Rounds!TypeOK
  <2>1. Rounds!Spec => []RoundsTypeInv
    BY FirstKachuIsBounded, RoundsTypeInvHolds
  <2>2. RoundsTypeInv => Rounds!TypeOK
    BY DEF RoundsTypeInv
  <2> QED
    BY <2>1, <2>2, RoundsRuns, PTL
<1>11. Spec => []Perf!TypeOK
  <2>1. Perf!Spec => []Perf!TypeOK
    BY FirstBoundsNat, MishapsNat, PerfTypeCorrect
  <2> QED
    BY <2>1, PerfRuns, PTL
<1>12. Spec => []Welcome!TypeOK
  <2>1. Welcome!Spec => []WelcomeTypeInv
    BY FirstKachuIsBounded, WelcomeTypeInvHolds
  <2>2. WelcomeTypeInv => Welcome!TypeOK
    BY DEF WelcomeTypeInv
  <2> QED
    BY <2>1, <2>2, WelcomeRuns, PTL
<1>13. Spec => []Boarding!TypeOK
  <2>1. Boarding!Spec => []BoardingRowsOK
    BY ServicesAreBounded, BoardingRowsHold
  <2>2. BoardingRowsOK => Boarding!TypeOK
    BY ServicesAreBounded, BoardingRowsAreTyped
  <2> QED
    BY <2>1, <2>2, BoardingRuns, PTL
<1>14. Spec => []Shops!TypeOK
  <2>1. Shops!Spec => []ShopsTypeInv
    BY ServicesAreBounded, ShopsTypeInvHolds
  <2>2. ShopsTypeInv => Shops!TypeOK
    BY ShopsTypeInvIsTypeOK
  <2> QED
    BY <2>1, <2>2, ShopsRuns, PTL
<1>15. Spec => []Replays!TypeOK
  <2>1. Replays!Spec => []ReplaysTypeInv
    BY ServicesAreBounded, ReplaysTypeInvHolds
  <2>2. ReplaysTypeInv => Replays!TypeOK
    BY ReplaysTypeInvIsTypeOK
  <2> QED
    BY <2>1, <2>2, ReplaysRuns, PTL
<1>16. Spec => []Learn!TypeOK
  <2>1. Learn!Init /\ [][Learn!Next]_(Learn!vars) => []LearnInv
    BY ServicesAreBounded, LearnInvHolds
  <2>2. LearnInv => Learn!TypeOK
    BY DEF LearnInv
  <2> QED
    BY <2>1, <2>2, LearnRuns, PTL
<1>17. /\ Drafts!TypeOK /\ Inbox!TypeOK /\ Meta!TypeOK /\ Google!TypeOK
      /\ Customers!TypeOK /\ Jobs!TypeOK /\ Gate!TypeOK /\ Dialogue!TypeOK
      /\ Consent!TypeOK /\ Rounds!TypeOK /\ Perf!TypeOK /\ Welcome!TypeOK
      /\ Boarding!TypeOK /\ Shops!TypeOK /\ Replays!TypeOK /\ Learn!TypeOK
      => TypeOK
  BY DEF TypeOK
<1> QED
  BY <1>1, <1>2, <1>3, <1>4, <1>5, <1>6, <1>7, <1>8,
     <1>9, <1>10, <1>11, <1>12, <1>13, <1>14, <1>15, <1>16, <1>17, PTL
=============================================================================
