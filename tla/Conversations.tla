---------------------------- MODULE Conversations ----------------------------
(***************************************************************************)
(* What Kachu+ does in the owner's LINE chat beside the approval gate: its *)
(* own drafts, and the events LINE delivers.  Each is an instance of its   *)
(* own module over variables of its own.                                   *)
(***************************************************************************)
EXTENDS Naturals, Sequences, FiniteSets, Settings

CONSTANTS
    Items, Inlines, Messages,   \* local drafts: what they are drafted for
    Images, Cards, Words, Inquiries, Bodies,    \* LINE events, deliveries

    MaxDraftTaps, MaxDraftFaults,   \* bounds
    MaxDeliveries, MaxReplays, MaxLocks

\* A calendar item, a request in the chat and a customer's message are rows of
\* three tables, and no request runs the steps of the loop.
ASSUME DraftKindsApart ==
    /\ Items \cap Inlines = {} /\ Items \cap Messages = {}
    /\ Inlines \cap Messages = {} /\ "content-plan-loop" \notin Slots

\* A body LINE posts is a list of events; a tap on a card brings no image.
ASSUME EventsApart ==
    /\ Bodies \subseteq Seq(Images \cup Cards \cup Words \cup Inquiries)
    /\ None \notin Images \cup Cards \cup Words \cup Inquiries
    /\ Images \cap Cards = {} /\ IsFiniteSet(Slots)

VARIABLES
    draftRow, draftRecord, draftPlatforms, draftDue, draftSeen, draftBatch,
    draftPc, draftJob, draftPosts, draftApprovals, draftDeclined, draftTaps,
    draftFaults, draftCrashes,
    inboxSeen, inboxIntent, inboxStale, inboxLocked, inboxPc, inboxCur,
    inboxTodo, inboxQueued, inboxChoice, inboxAbsorbed, inboxHandled,
    inboxReplayed, inboxDeaf, inboxAnswered, inboxDeliveries, inboxLocks,
    inboxFaults, inboxCrashes

draftVars == <<draftRow, draftRecord, draftPlatforms, draftDue, draftSeen,
               draftBatch, draftPc, draftJob, draftPosts, draftApprovals,
               draftDeclined, draftTaps, draftFaults, draftCrashes>>
inboxVars == <<inboxSeen, inboxIntent, inboxStale, inboxLocked, inboxPc,
               inboxCur, inboxTodo, inboxQueued, inboxChoice, inboxAbsorbed,
               inboxHandled, inboxReplayed, inboxDeaf, inboxAnswered,
               inboxDeliveries, inboxLocks, inboxFaults, inboxCrashes>>

Drafts == INSTANCE LocalDrafts WITH
    Tasks <- Slots, NoJob <- None, MaxTaps <- MaxDraftTaps,
    MaxFaults <- MaxDraftFaults, row <- draftRow, record <- draftRecord,
    platforms <- draftPlatforms, due <- draftDue, seen <- draftSeen,
    batch <- draftBatch, pc <- draftPc, job <- draftJob,
    posts <- draftPosts, approvals <- draftApprovals,
    declined <- draftDeclined, taps <- draftTaps, faults <- draftFaults,
    crashes <- draftCrashes

Inbox == INSTANCE Inbox WITH
    Questions <- Inquiries, Requests <- Slots, NoEvent <- None,
    seen <- inboxSeen,
    intent <- inboxIntent, stale <- inboxStale, locked <- inboxLocked,
    pc <- inboxPc, cur <- inboxCur, todo <- inboxTodo,
    queued <- inboxQueued, choice <- inboxChoice,
    absorbed <- inboxAbsorbed, handled <- inboxHandled,
    replayed <- inboxReplayed, deaf <- inboxDeaf,
    answered <- inboxAnswered, deliveries <- inboxDeliveries,
    locks <- inboxLocks, faults <- inboxFaults, crashes <- inboxCrashes
=============================================================================
