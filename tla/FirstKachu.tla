----------------------------- MODULE FirstKachu -----------------------------
(***************************************************************************)
(* The components of the first Kachu, each an instance of its own module   *)
(* over variables of its own.                                              *)
(***************************************************************************)
EXTENDS Naturals, Settings

CONSTANTS
    Runs,                       \* approval runs
    Consents, Places,           \* connect links
    Shared,                     \* it keeps its tokens in Redis
    Owners, Readers, Posts,     \* automations and reports
    HoursPerDay, MinAge, MaxAge,    \* periods of the automations and reports

    MaxGateTaps, MaxRewrites, MaxGateFaults,    \* bounds
    MaxDialogueDeliveries, MaxDialogueFaults,
    MaxConsentFaults, MaxDisconnects,
    MaxHour, MaxEdits, MaxRoundFaults,
    MaxScanHour, MaxScanFaults,
    MaxWelcomes

\* Nobody is neither a photo nor a visit to a connect link.
ASSUME NobodyMissing == None \notin Photos /\ None \notin Consents

\* A day has hours.
ASSUME HoursNat == HoursPerDay \in Nat \ {0} /\ MaxHour \in Nat

\* What the first Kachu is asked to do, and what goes wrong, is counted.
ASSUME FirstBoundsNat ==
    /\ MaxGateTaps \in Nat /\ MaxRewrites \in Nat /\ MaxGateFaults \in Nat
    /\ MaxConsentFaults \in Nat /\ MaxDisconnects \in Nat
    /\ MaxScanHour \in Nat /\ MaxScanFaults \in Nat
    /\ MaxDialogueDeliveries \in Nat /\ MaxDialogueFaults \in Nat
    /\ MaxEdits \in Nat /\ MaxRoundFaults \in Nat /\ MaxWelcomes \in Nat

VARIABLES
    gateGate, gatePayload, gateRow, gateDraft, gateSessions, gateRequest,
    gateConfirm, gateSched, gatePub, gatePc, gateJob, gateOut, gatePrinted,
    gateVersions, gateTaps, gateFaults, gateCrashes,
    dialogueAsset, dialogueIntent, dialoguePc, dialogueJob, dialogueDrain,
    dialogueDeferred, dialogueTasks, dialogueRecorded, dialogueDecided,
    dialogueCut, dialogueAsked, dialogueUsed, dialogueDeliveries,
    dialogueFaults, dialogueCrashes,
    consentTicket, consentWants, consentOffered, consentAccount, consentLinks,
    consentBackfills, consentPc, consentJob, consentFaults, consentCrashes,
    consentDisconnects,
    roundClock, roundUp, roundHourOf, roundTasks, roundRound, roundTold,
    roundNudges, roundLostNudges, roundEdits, roundFaults, roundCrashes,
    perfClock, perfUp, perfPublished, perfScan, perfReported, perfReports,
    perfBroken, perfFaults, perfCrashes,
    welcomeStep, welcomeGiven, welcomeEntries, welcomeSaid, welcomeDrafts,
    welcomePc, welcomeJob, welcomeOverlapped, welcomeTorn, welcomeMessages,
    welcomeCrashes

gateVars == <<gateGate, gatePayload, gateRow, gateDraft, gateSessions,
              gateRequest, gateConfirm, gateSched, gatePub, gatePc, gateJob,
              gateOut, gatePrinted, gateVersions, gateTaps, gateFaults,
              gateCrashes>>
dialogueVars == <<dialogueAsset, dialogueIntent, dialoguePc, dialogueJob,
                  dialogueDrain, dialogueDeferred, dialogueTasks,
                  dialogueRecorded, dialogueDecided, dialogueCut,
                  dialogueAsked, dialogueUsed, dialogueDeliveries,
                  dialogueFaults, dialogueCrashes>>
consentVars == <<consentTicket, consentWants, consentOffered, consentAccount,
                 consentLinks, consentBackfills, consentPc, consentJob,
                 consentFaults, consentCrashes, consentDisconnects>>
roundVars == <<roundClock, roundUp, roundHourOf, roundTasks, roundRound,
               roundTold, roundNudges, roundLostNudges, roundEdits,
               roundFaults, roundCrashes>>
perfVars == <<perfClock, perfUp, perfPublished, perfScan, perfReported,
              perfReports, perfBroken, perfFaults, perfCrashes>>
welcomeVars == <<welcomeStep, welcomeGiven, welcomeEntries, welcomeSaid,
                 welcomeDrafts, welcomePc, welcomeJob, welcomeOverlapped,
                 welcomeTorn, welcomeMessages, welcomeCrashes>>

Gate == INSTANCE LegacyApprovals WITH
    Threads <- Slots, NoRun <- None, MaxTaps <- MaxGateTaps,
    MaxFaults <- MaxGateFaults, gate <- gateGate, payload <- gatePayload,
    row <- gateRow, draft <- gateDraft, sessions <- gateSessions,
    request <- gateRequest, confirm <- gateConfirm, sched <- gateSched,
    pub <- gatePub, pc <- gatePc, job <- gateJob, out <- gateOut,
    printed <- gatePrinted, versions <- gateVersions, taps <- gateTaps,
    faults <- gateFaults, crashes <- gateCrashes

Dialogue == INSTANCE LegacyDialogue WITH
    Texts <- Sentences, Threads <- Slots, Nobody <- None,
    MaxDeliveries <- MaxDialogueDeliveries,
    MaxFaults <- MaxDialogueFaults, asset <- dialogueAsset,
    intent <- dialogueIntent, pc <- dialoguePc, job <- dialogueJob,
    drain <- dialogueDrain, deferred <- dialogueDeferred,
    tasks <- dialogueTasks, recorded <- dialogueRecorded,
    decided <- dialogueDecided, cut <- dialogueCut,
    asked <- dialogueAsked, used <- dialogueUsed,
    deliveries <- dialogueDeliveries, faults <- dialogueFaults,
    crashes <- dialogueCrashes

Consent == INSTANCE LegacyConnect WITH
    Threads <- Slots, Nobody <- None, MaxFaults <- MaxConsentFaults,
    ticket <- consentTicket, wants <- consentWants,
    offered <- consentOffered, account <- consentAccount,
    links <- consentLinks, backfills <- consentBackfills, pc <- consentPc,
    job <- consentJob, faults <- consentFaults, crashes <- consentCrashes,
    disconnects <- consentDisconnects

Rounds == INSTANCE LegacyAutomation WITH
    Tenants <- Owners, Recipients <- Readers, Nobody <- None,
    MaxFaults <- MaxRoundFaults, clock <- roundClock, up <- roundUp,
    hourOf <- roundHourOf, tasks <- roundTasks, round <- roundRound,
    told <- roundTold, nudges <- roundNudges,
    lostNudges <- roundLostNudges, edits <- roundEdits,
    faults <- roundFaults, crashes <- roundCrashes

Perf == INSTANCE LegacyReports WITH
    Recipients <- Readers, Nobody <- None, MaxHour <- MaxScanHour,
    MaxFaults <- MaxScanFaults, clock <- perfClock, up <- perfUp,
    published <- perfPublished, scan <- perfScan,
    reported <- perfReported, reports <- perfReports,
    broken <- perfBroken, faults <- perfFaults, crashes <- perfCrashes

Welcome == INSTANCE LegacyOnboarding WITH
    Threads <- Slots, MaxMessages <- MaxWelcomes, step <- welcomeStep,
    given <- welcomeGiven, entries <- welcomeEntries, said <- welcomeSaid,
    drafts <- welcomeDrafts, pc <- welcomePc, job <- welcomeJob,
    overlapped <- welcomeOverlapped, torn <- welcomeTorn,
    messages <- welcomeMessages, crashes <- welcomeCrashes
=============================================================================
