------------------------------ MODULE Services ------------------------------
(***************************************************************************)
(* The services of Kachu+ beside the approval gate, each an instance of    *)
(* its own module over variables of its own.                               *)
(***************************************************************************)
EXTENDS Naturals, FiniteSets, Settings

CONSTANTS
    OneSlot,                    \* a slot for one merge at a time
    Sessions, Pages,            \* Facebook
    Accounts,                   \* Google accounts; the shops provisioned
    Users, Tags,                \* customers
    Tenants, Recipients,        \* daily Meta reports
    Names, Answers, Sites,      \* what a boss says in the onboarding
    Bosses,                     \* LINE users who command a shop
    Telling, Judging, EditedText,   \* what is learnt from a boss
    Day, ReportRetry, ScanRetry,    \* periods of the daily report
    KnowledgeWindow, MemoryWindow,  \* how far the promoter looks back

    MaxMetaRequests,            \* bounds
    MaxPuts, MaxExpiries,
    MaxMessages, MaxCustomerRequests, MaxSyncs,
    MaxJobFaults,
    MaxDetours,
    MaxShopRequests,
    MaxRuns,
    MaxTalk, MaxUpdates, MaxDecisions

\* Who or what is missing is not one of those there are.
ASSUME NoneMissing ==
    None \notin Pages /\ None \notin Accounts /\ None \notin Users /\ None \notin Tenants

\* A failed report or scan is tried again before its next turn.
ASSUME PeriodsNat ==
    /\ Day \in Nat /\ ReportRetry \in 0..Day /\ ScanRetry \in 0..Day
    /\ KnowledgeWindow \in Nat /\ MemoryWindow \in Nat

\* The table of Meta events is finite.
ASSUME EventsFinite == IsFiniteSet(Photos \union Sentences)

\* So are the customers who ever write, and their counts have a sum.
ASSUME CustomersFinite == IsFiniteSet(Users)

\* What the services do is counted.
ASSUME ServiceBoundsNat ==
    /\ MaxPuts \in Nat /\ MaxExpiries \in Nat
    /\ MaxMessages \in Nat /\ MaxCustomerRequests \in Nat /\ MaxSyncs \in Nat
    /\ MaxJobFaults \in Nat /\ MaxDetours \in Nat /\ MaxShopRequests \in Nat
    /\ MaxRuns \in Nat /\ MaxTalk \in Nat /\ MaxUpdates \in Nat
    /\ MaxDecisions \in Nat

VARIABLES
    metaSession, metaOffered, metaSelected, metaOver, metaPage, metaActive,
    metaPc, metaJob, metaKnown, metaEver, metaRequests, metaCrashes,
    googleStored, googlePc, googleHeld, googleServed, googleWanted,
    googleOvertaken, googlePuts, googleExpiries, googleMishaps,
    customerLink, customerCount, customerInto, customerStatus, customerUsable,
    customerAssigned, customerRemoved, customerEvent, customerUnsaved,
    customerRows, customerPc, customerMerge, customerSpoiled, customerReused,
    customerMessages, customerRequests, customerSyncs,
    jobDue, jobLocked, jobLoop, jobWake, jobTodo, jobCurrent, jobLeft, jobAgo,
    jobEarly, jobBroken, jobFaults, jobCrashes,
    boardingStep, boardingProfile, boardingEntries, boardingWebsite,
    boardingReading, boardingSaid, boardingTorn, boardingDetours,
    boardingCrashes,
    shopActive, shopRenamed, shopChannel, shopMember, shopMade, shopPut,
    shopOwns, shopPc, shopJob, shopRaced, shopRequests, shopCrashes,
    replayEngaged, replayWaiting, replayCards, replayAudits, replayPc,
    replayJob, replayBroken, replayRuns, replayMishaps,
    learnTalk, learnQuiet, learnHeard, learnKnowledge, learnPrefs,
    learnEpisodes, learnLearnt, learnBriefs, learnBusy, learnLeft,
    learnHasTask, learnUpdates, learnDecisions, learnCrashes

metaVars == <<metaSession, metaOffered, metaSelected, metaOver, metaPage,
              metaActive, metaPc, metaJob, metaKnown, metaEver, metaRequests,
              metaCrashes>>
googleVars == <<googleStored, googlePc, googleHeld, googleServed,
                googleWanted, googleOvertaken, googlePuts, googleExpiries,
                googleMishaps>>
customerVars == <<customerLink, customerCount, customerInto, customerStatus,
                  customerUsable, customerAssigned, customerRemoved,
                  customerEvent, customerUnsaved, customerRows, customerPc,
                  customerMerge, customerSpoiled, customerReused,
                  customerMessages, customerRequests, customerSyncs>>
jobVars == <<jobDue, jobLocked, jobLoop, jobWake, jobTodo, jobCurrent,
             jobLeft, jobAgo, jobEarly, jobBroken, jobFaults, jobCrashes>>
boardingVars == <<boardingStep, boardingProfile, boardingEntries,
                  boardingWebsite, boardingReading, boardingSaid,
                  boardingTorn, boardingDetours, boardingCrashes>>
shopVars == <<shopActive, shopRenamed, shopChannel, shopMember, shopMade,
              shopPut, shopOwns, shopPc, shopJob, shopRaced, shopRequests,
              shopCrashes>>
replayVars == <<replayEngaged, replayWaiting, replayCards, replayAudits,
                replayPc, replayJob, replayBroken, replayRuns, replayMishaps>>
learnVars == <<learnTalk, learnQuiet, learnHeard, learnKnowledge, learnPrefs,
               learnEpisodes, learnLearnt, learnBriefs, learnBusy, learnLeft,
               learnHasTask, learnUpdates, learnDecisions, learnCrashes>>

Meta == INSTANCE MetaConnect WITH
    Threads <- Slots, NoPage <- None, NoSession <- None,
    MaxRequests <- MaxMetaRequests, session <- metaSession,
    offered <- metaOffered, selected <- metaSelected, over <- metaOver,
    page <- metaPage, active <- metaActive, pc <- metaPc, job <- metaJob,
    known <- metaKnown, ever <- metaEver, requests <- metaRequests,
    crashes <- metaCrashes

Google == INSTANCE GoogleConnector WITH
    Threads <- Slots, NoAccount <- None, stored <- googleStored,
    pc <- googlePc, held <- googleHeld, served <- googleServed,
    wanted <- googleWanted, overtaken <- googleOvertaken,
    puts <- googlePuts, expiries <- googleExpiries,
    mishaps <- googleMishaps

Customers == INSTANCE Customers WITH
    Threads <- OneSlot, Nobody <- None, MaxRequests <- MaxCustomerRequests,
    link <- customerLink, count <- customerCount, into <- customerInto,
    status <- customerStatus, usable <- customerUsable,
    assigned <- customerAssigned, removed <- customerRemoved,
    event <- customerEvent, unsaved <- customerUnsaved,
    rows <- customerRows, pc <- customerPc, merge <- customerMerge,
    spoiled <- customerSpoiled, reused <- customerReused,
    messages <- customerMessages, requests <- customerRequests,
    syncs <- customerSyncs

Jobs == INSTANCE RecurringJobs WITH
    Nobody <- None, MaxFaults <- MaxJobFaults, due <- jobDue,
    locked <- jobLocked, loop <- jobLoop, wake <- jobWake,
    todo <- jobTodo, current <- jobCurrent, left <- jobLeft,
    ago <- jobAgo, early <- jobEarly, broken <- jobBroken,
    faults <- jobFaults, crashes <- jobCrashes

Boarding == INSTANCE Onboarding WITH
    Unset <- None, step <- boardingStep, profile <- boardingProfile,
    entries <- boardingEntries, website <- boardingWebsite,
    reading <- boardingReading, said <- boardingSaid,
    torn <- boardingTorn, detours <- boardingDetours,
    crashes <- boardingCrashes

Shops == INSTANCE Tenancy WITH
    Tenants <- Accounts, Users <- Bosses, Threads <- Slots,
    Nobody <- None, MaxRequests <- MaxShopRequests, active <- shopActive,
    renamed <- shopRenamed, channel <- shopChannel, member <- shopMember,
    made <- shopMade, put <- shopPut, owns <- shopOwns, pc <- shopPc,
    job <- shopJob, raced <- shopRaced, requests <- shopRequests,
    crashes <- shopCrashes

Replays == INSTANCE AdminReplay WITH
    Events <- Photos \union Sentences, Unreadable <- Sentences,
    Threads <- Slots, engaged <- replayEngaged, waiting <- replayWaiting,
    cards <- replayCards, audits <- replayAudits, pc <- replayPc,
    job <- replayJob, broken <- replayBroken, runs <- replayRuns,
    mishaps <- replayMishaps

Learn == INSTANCE Learning WITH
    Texts <- Telling \union Judging, Facts <- Telling, Styles <- Telling,
    Verdicts <- Judging, Edited <- EditedText, Nothing <- None,
    talk <- learnTalk,
    quiet <- learnQuiet, heard <- learnHeard, knowledge <- learnKnowledge,
    prefs <- learnPrefs, episodes <- learnEpisodes, learnt <- learnLearnt,
    briefs <- learnBriefs, busy <- learnBusy, left <- learnLeft,
    hasTask <- learnHasTask, updates <- learnUpdates,
    decisions <- learnDecisions, crashes <- learnCrashes
=============================================================================
