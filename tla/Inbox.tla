------------------------------- MODULE Inbox -------------------------------
(***************************************************************************)
(* What Kachu+ does with the events LINE delivers to the webhook of one    *)
(* tenant, once its onboarding is over: each event is recorded so that a   *)
(* redelivery is skipped, a tap on a card is handled inside the request,   *)
(* every other event in a background task after the answer to LINE.        *)
(*                                                                         *)
(* Three kinds of event are followed to their end: the owner's image,      *)
(* which opens a question what to do with it (a pending asset intent), the *)
(* owner's choice, by card or in words, and the customer's question, which *)
(* is answered unless somebody took the conversation over.                 *)
(*                                                                         *)
(* A handler runs alone up to its next await; the steps of a request that  *)
(* awaits nothing are not interleaved with anything but a crash and the    *)
(* handoff endpoints, which run in worker threads.                         *)
(***************************************************************************)
EXTENDS Integers, Sequences, FiniteSets

CONSTANTS
    Images,       \* image messages of the owner
    Cards,        \* taps on a card that asks what to do with an image
    Words,        \* text messages of the owner that answer that question
    Questions,    \* text messages of a customer
    Requests,     \* slots for concurrently running requests
    Bodies,       \* the event sequences LINE may POST
    NoEvent,      \* a request between two events
    MaxDeliveries, MaxReplays, MaxLocks, \* bounds
    MaxMishaps    \* bound: failed calls and restarts together

Events    == Images \cup Cards \cup Words \cup Questions
Decisions == {"photo_content", "knowledge_update", "consult"}

VARIABLES
    seen,       \* events recorded in kachu_webhook_events
    intent,     \* the asset intent opened by each image
    stale,      \* intents whose half hour is over
    locked,     \* the customer's conversation is taken over by a person
    pc, cur,    \* what a request does, and on which event
    todo,       \* events of the request's body not read yet
    queued,     \* its background tasks
    choice,     \* the image and the decision a request carries out
    absorbed,   \* entries made in the knowledge base for each image
    handled,    \* how often the handling of each event was begun
    replayed,   \* events an operator replayed
    deaf,       \* questions taken up while nobody had taken over
    answered,   \* questions the customer got an answer to
    deliveries, locks, faults, crashes

inboxVars == <<seen, handled, replayed>>
assetVars == <<intent, stale, absorbed>>
talkVars  == <<locked, deaf, answered>>
procVars  == <<pc, cur, todo, queued, choice>>
counters  == <<deliveries, locks, faults, crashes>>
vars == <<inboxVars, assetVars, talkVars, procVars, counters>>

NoChoice == [image |-> NoEvent, decision |-> "none"]
Choices  == [image : Images, decision : Decisions]

TypeOK ==
    /\ seen \in SUBSET Events
    /\ intent \in [Images -> {"absent", "pending", "superseded", "resolved", "expired"}]
    /\ stale \in SUBSET Images
    /\ locked \in BOOLEAN
    /\ pc \in [Requests -> {"idle", "reading", "background", "analysing",
                            "dispatching", "consulting", "replying", "answering"}]
    /\ cur \in [Requests -> Events \cup {NoEvent}]
    /\ todo \in [Requests -> Seq(Events)] /\ queued \in [Requests -> Seq(Events)]
    /\ choice \in [Requests -> Choices \cup {NoChoice}]
    /\ absorbed \in [Images -> Nat]
    /\ handled \in [Events -> Nat] /\ replayed \in SUBSET Events
    /\ deaf \in SUBSET Questions /\ answered \in SUBSET Questions
    /\ deliveries \in Nat /\ locks \in Nat /\ faults \in Nat /\ crashes \in Nat

Init ==
    /\ seen = {}
    /\ intent = [i \in Images |-> "absent"]
    /\ stale = {} /\ locked = FALSE
    /\ pc = [r \in Requests |-> "idle"]
    /\ cur = [r \in Requests |-> NoEvent]
    /\ todo = [r \in Requests |-> <<>>]
    /\ queued = [r \in Requests |-> <<>>]
    /\ choice = [r \in Requests |-> NoChoice]
    /\ absorbed = [i \in Images |-> 0]
    /\ handled = [e \in Events |-> 0]
    /\ replayed = {}
    /\ deaf = {} /\ answered = {}
    /\ deliveries = 0 /\ locks = 0 /\ faults = 0 /\ crashes = 0

-----------------------------------------------------------------------------
(* Requests *)

\* No other request is between two steps it makes without an await.
Alone(r) ==
    \A s \in Requests \ {r} :
        /\ pc[s] # "reading"
        /\ pc[s] = "background" => cur[s] = NoEvent

GoTo(r, where) == pc' = [pc EXCEPT ![r] = where]

\* The places a request returns to when an event is dealt with: the reading
\* of the body for a tap, the background tasks for the rest.
AfterEvent(r) == IF cur[r] \in Cards THEN "reading" ELSE "background"

EndEvent(r) ==
    /\ GoTo(r, AfterEvent(r))
    /\ cur' = [cur EXCEPT ![r] = NoEvent]
    /\ choice' = [choice EXCEPT ![r] = NoChoice]
    /\ UNCHANGED <<todo, queued>>

Fault ==
    /\ faults + crashes < MaxMishaps
    /\ faults' = faults + 1
    /\ UNCHANGED <<deliveries, locks, crashes>>

\* LINE POSTs a body, perhaps not for the first time.
Deliver(r, body) ==
    /\ pc[r] = "idle" /\ Alone(r)
    /\ deliveries < MaxDeliveries
    /\ deliveries' = deliveries + 1
    /\ GoTo(r, "reading")
    /\ todo' = [todo EXCEPT ![r] = body]
    /\ UNCHANGED <<inboxVars, assetVars, talkVars, cur, queued, choice,
                   locks, faults, crashes>>

\* A duplicate of record_webhook_event_if_new.
SkipSeen(r) ==
    /\ pc[r] = "reading" /\ todo[r] # <<>> /\ Alone(r) /\ cur[r] = NoEvent
    /\ Head(todo[r]) \in seen
    /\ todo' = [todo EXCEPT ![r] = Tail(@)]
    /\ UNCHANGED <<inboxVars, assetVars, talkVars, pc, cur, queued, choice, counters>>

\* Mutant: a tap is recorded as seen only when the next event is read.
RecordLater(r) ==
    /\ pc[r] = "reading" /\ todo[r] # <<>> /\ Alone(r) /\ cur[r] = NoEvent
    /\ LET e == Head(todo[r]) IN
         /\ e \notin seen
         /\ seen' = IF e \in Cards THEN seen ELSE seen \cup {e}
         /\ cur' = [cur EXCEPT ![r] = IF e \in Cards THEN e ELSE NoEvent]
         /\ queued' = [queued EXCEPT ![r] = IF e \in Cards THEN @ ELSE Append(@, e)]
         /\ handled' = IF e \in Cards THEN [handled EXCEPT ![e] = @ + 1] ELSE handled
    /\ todo' = [todo EXCEPT ![r] = Tail(@)]
    /\ UNCHANGED <<replayed, assetVars, talkVars, pc, choice, counters>>

\* The event is recorded first; then a tap is handled at once, another event
\* becomes a background task.
ReadEvent(r) ==
    /\ pc[r] = "reading" /\ todo[r] # <<>> /\ Alone(r) /\ cur[r] = NoEvent
    /\ LET e == Head(todo[r]) IN
         /\ e \notin seen
         /\ seen' = seen \cup {e}
         /\ cur' = [cur EXCEPT ![r] = IF e \in Cards THEN e ELSE NoEvent]
         /\ queued' = [queued EXCEPT ![r] = IF e \in Cards THEN @ ELSE Append(@, e)]
         /\ handled' = IF e \in Cards THEN [handled EXCEPT ![e] = @ + 1] ELSE handled
    /\ todo' = [todo EXCEPT ![r] = Tail(@)]
    /\ UNCHANGED <<replayed, assetVars, talkVars, pc, choice, counters>>

\* The body is read: the answer goes to LINE and the background tasks start.
Answer200(r) ==
    /\ pc[r] = "reading" /\ todo[r] = <<>> /\ cur[r] = NoEvent /\ Alone(r)
    /\ GoTo(r, "background")
    /\ UNCHANGED <<inboxVars, assetVars, talkVars, cur, todo, queued, choice, counters>>

\* _handle_event_logged on the next background task.
TakeUp(r) ==
    /\ pc[r] = "background" /\ queued[r] # <<>> /\ cur[r] = NoEvent /\ Alone(r)
    /\ cur' = [cur EXCEPT ![r] = Head(queued[r])]
    /\ queued' = [queued EXCEPT ![r] = Tail(@)]
    /\ handled' = [handled EXCEPT ![Head(queued[r])] = @ + 1]
    /\ UNCHANGED <<seen, replayed, assetVars, talkVars, pc, todo, choice, counters>>

RequestDone(r) ==
    /\ pc[r] = "background" /\ queued[r] = <<>> /\ cur[r] = NoEvent /\ Alone(r)
    /\ GoTo(r, "idle")
    /\ UNCHANGED <<inboxVars, assetVars, talkVars, cur, todo, queued, choice, counters>>

\* An operator replays a stored event: it is handled again, seen or not.
Replay(r, e) ==
    /\ pc[r] = "idle" /\ Alone(r)
    /\ e \in seen
    /\ e \notin replayed /\ Cardinality(replayed) < MaxReplays
    /\ replayed' = replayed \cup {e}
    /\ handled' = [handled EXCEPT ![e] = @ + 1]
    /\ cur' = [cur EXCEPT ![r] = e]
    /\ GoTo(r, IF e \in Cards THEN "reading" ELSE "background")
    /\ UNCHANGED <<seen, assetVars, talkVars, todo, queued, choice, counters>>

-----------------------------------------------------------------------------
(* The owner sends an image                                                *)

\* The image is fetched from LINE and described by the model.
AnalyseImage(r) ==
    /\ cur[r] \in Images /\ pc[r] = "background" /\ Alone(r)
    /\ GoTo(r, "analysing")
    /\ UNCHANGED <<inboxVars, assetVars, talkVars, cur, todo, queued, choice, counters>>

\* Mutant: the intent of an earlier image stays open.
KeepOpen(i) == [intent EXCEPT ![i] = "pending"]

\* save_pending_asset_intent: what was open is superseded.
SavePendingAssetIntent(i) ==
    [k \in Images |-> IF k = i THEN "pending"
                      ELSE IF intent[k] = "pending" THEN "superseded"
                      ELSE intent[k]]

AskWhatToDo(r) ==
    /\ pc[r] = "analysing" /\ Alone(r)
    /\ intent' = SavePendingAssetIntent(cur[r])
    /\ stale' = stale \ {cur[r]}
    /\ GoTo(r, "replying")
    /\ UNCHANGED <<inboxVars, absorbed, talkVars, cur, todo, queued, choice, counters>>

\* The download fails: the owner is asked to send the image again.
DownloadFails(r) ==
    /\ pc[r] = "analysing" /\ Alone(r)
    /\ GoTo(r, "replying") /\ Fault
    /\ UNCHANGED <<inboxVars, assetVars, talkVars, cur, todo, queued, choice>>

HalfHourPasses(i) ==
    /\ intent[i] = "pending" /\ i \notin stale
    /\ stale' = stale \cup {i}
    /\ UNCHANGED <<inboxVars, intent, absorbed, talkVars, procVars, counters>>

-----------------------------------------------------------------------------
(* The owner says what to do with it                                       *)

IsActive(i) == intent[i] = "pending" /\ i \notin stale

\* resolve_pending_asset_intent looks at no status.
ResolvePendingAssetIntent(i, status) == intent' = [intent EXCEPT ![i] = status]

\* A tap names the intent of its card; words mean the latest open one.
Meant(r, i) == cur[r] \in Cards \/ IsActive(i)

Decided(r) ==
    /\ cur[r] \in Cards \cup Words /\ Alone(r)
    /\ pc[r] = AfterEvent(r)

\* Mutant: an intent that was decided still counts as open.
ActiveOrResolved(i) == intent[i] \in {"pending", "resolved"} /\ i \notin stale

\* The decisions that await something: AgentOS, or the model.
BeginDecision(r, i, d) ==
    /\ Decided(r) /\ Meant(r, i)
    /\ IsActive(i) /\ d # "knowledge_update"
    /\ choice' = [choice EXCEPT ![r] = [image |-> i, decision |-> d]]
    /\ GoTo(r, IF d = "photo_content" THEN "dispatching" ELSE "consulting")
    /\ UNCHANGED <<inboxVars, assetVars, talkVars, cur, todo, queued, counters>>

\* Mutant: the knowledge entry is made for a decided intent too.
AbsorbAgain(r, i) ==
    /\ Decided(r) /\ Meant(r, i)
    /\ ActiveOrResolved(i)
    /\ absorbed' = [absorbed EXCEPT ![i] = @ + 1]
    /\ ResolvePendingAssetIntent(i, "resolved")
    /\ GoTo(r, "replying")
    /\ UNCHANGED <<inboxVars, stale, talkVars, cur, todo, queued, choice, counters>>

\* knowledge_update awaits nothing: the entry is saved and the intent closed.
AbsorbImage(r, i) ==
    /\ Decided(r) /\ Meant(r, i)
    /\ IsActive(i)
    /\ absorbed' = [absorbed EXCEPT ![i] = @ + 1]
    /\ ResolvePendingAssetIntent(i, "resolved")
    /\ GoTo(r, "replying")
    /\ UNCHANGED <<inboxVars, stale, talkVars, cur, todo, queued, choice, counters>>

\* The card of an intent that is closed or stale: the tap marks it expired,
\* whatever it was, and says so.
ChoiceTooLate(r, i) ==
    /\ cur[r] \in Cards /\ Decided(r)
    /\ intent[i] # "absent" /\ ~IsActive(i)
    /\ ResolvePendingAssetIntent(i, "expired")
    /\ GoTo(r, "replying")
    /\ UNCHANGED <<inboxVars, stale, absorbed, talkVars, cur, todo, queued,
                   choice, counters>>

\* Words with nothing open go on to the router of intents.
NothingOpen(r) ==
    /\ cur[r] \in Words /\ Decided(r)
    /\ \A i \in Images : ~IsActive(i)
    /\ EndEvent(r)
    /\ UNCHANGED <<inboxVars, assetVars, talkVars, counters>>

\* AgentOS or the model answered; the intent is closed by its id, whatever
\* became of it meanwhile.
DecisionCarriedOut(r) ==
    /\ pc[r] \in {"dispatching", "consulting"} /\ Alone(r)
    /\ ResolvePendingAssetIntent(choice[r].image, "resolved")
    /\ GoTo(r, "replying")
    /\ UNCHANGED <<inboxVars, stale, absorbed, talkVars, cur, todo, queued, choice, counters>>

\* Mutant: a failure opens the intent again, whatever became of it meanwhile.
DecisionReopens(r) ==
    /\ pc[r] \in {"dispatching", "consulting"} /\ Alone(r)
    /\ intent' = [intent EXCEPT ![choice[r].image] = "pending"]
    /\ GoTo(r, "replying") /\ Fault
    /\ UNCHANGED <<inboxVars, stale, absorbed, talkVars, cur, todo, queued, choice>>

\* An HTTP error: the intent stays open.
DecisionFails(r) ==
    /\ pc[r] \in {"dispatching", "consulting"} /\ Alone(r)
    /\ GoTo(r, "replying") /\ Fault
    /\ UNCHANGED <<inboxVars, intent, stale, absorbed, talkVars, cur, todo, queued, choice>>

\* The reply went out, or failed: _push_safe does not raise.
Replied(r) ==
    /\ pc[r] = "replying" /\ Alone(r)
    /\ EndEvent(r)
    /\ UNCHANGED <<inboxVars, assetVars, talkVars, counters>>

-----------------------------------------------------------------------------
(* The customer asks                                                       *)

\* Mutant: the handoff lock is not looked at.
AskUnguarded(r) ==
    /\ cur[r] \in Questions /\ pc[r] = "background" /\ Alone(r)
    /\ deaf' = IF locked THEN deaf ELSE deaf \cup {cur[r]}
    /\ GoTo(r, "answering")
    /\ UNCHANGED <<inboxVars, assetVars, locked, answered, cur, todo, queued, choice, counters>>

\* run_line_faq_flow, with no active handoff lock; the model is awaited.
AskFaq(r) ==
    /\ cur[r] \in Questions /\ pc[r] = "background" /\ Alone(r)
    /\ ~locked
    /\ deaf' = deaf \cup {cur[r]}
    /\ GoTo(r, "answering")
    /\ UNCHANGED <<inboxVars, assetVars, locked, answered, cur, todo, queued, choice, counters>>

\* A person took over: Kachu+ stays silent.
StaySilent(r) ==
    /\ cur[r] \in Questions /\ pc[r] = "background" /\ Alone(r)
    /\ locked
    /\ EndEvent(r)
    /\ UNCHANGED <<inboxVars, assetVars, talkVars, counters>>

\* The answer, or the acknowledgement when it is passed on to the owner; the
\* lock is not looked at again.
CustomerAnswered(r) ==
    /\ pc[r] = "answering" /\ Alone(r)
    /\ answered' = answered \cup {cur[r]}
    /\ EndEvent(r)
    /\ UNCHANGED <<inboxVars, assetVars, locked, deaf, counters>>

\* The lock endpoints are plain functions: they run in worker threads.
LockHandoff ==
    /\ ~locked /\ locks < MaxLocks
    /\ locked' = TRUE /\ locks' = locks + 1
    /\ UNCHANGED <<inboxVars, assetVars, deaf, answered, procVars,
                   deliveries, faults, crashes>>

ReleaseHandoff ==
    /\ locked
    /\ locked' = FALSE
    /\ UNCHANGED <<inboxVars, assetVars, deaf, answered, procVars, counters>>

-----------------------------------------------------------------------------
(* Failures *)

\* A tap whose handling raises: the answer to LINE is an error, the rest of
\* the body is not read and the background tasks added so far never run.
TapRaises(r) ==
    /\ cur[r] \in Cards /\ Alone(r)
    /\ pc[r] \in {"reading", "consulting"}
    /\ pc' = [pc EXCEPT ![r] = "idle"]
    /\ cur' = [cur EXCEPT ![r] = NoEvent]
    /\ choice' = [choice EXCEPT ![r] = NoChoice]
    /\ todo' = [todo EXCEPT ![r] = <<>>]
    /\ queued' = [queued EXCEPT ![r] = <<>>]
    /\ Fault
    /\ UNCHANGED <<inboxVars, assetVars, talkVars>>

\* An exception in a background task is logged and the next task starts.
TaskRaises(r) ==
    /\ cur[r] \notin Cards /\ Alone(r)
    /\ pc[r] \in {"analysing", "consulting", "answering"}
    /\ EndEvent(r) /\ Fault
    /\ UNCHANGED <<inboxVars, assetVars, talkVars>>

\* A restart; it may fall between the two writes of a knowledge_update.
Crash ==
    /\ faults + crashes < MaxMishaps
    /\ \/ UNCHANGED absorbed
       \/ \E r \in Requests, i \in Images :
            /\ Decided(r) /\ Meant(r, i) /\ IsActive(i)
            /\ absorbed' = [absorbed EXCEPT ![i] = @ + 1]
    /\ crashes' = crashes + 1
    /\ pc' = [r \in Requests |-> "idle"]
    /\ cur' = [r \in Requests |-> NoEvent]
    /\ todo' = [r \in Requests |-> <<>>]
    /\ queued' = [r \in Requests |-> <<>>]
    /\ choice' = [r \in Requests |-> NoChoice]
    /\ UNCHANGED <<inboxVars, intent, stale, talkVars, deliveries, locks, faults>>

Intake(r) ==
    \/ \E body \in Bodies : Deliver(r, body)
    \/ \E e \in Events : Replay(r, e)
    \/ SkipSeen(r) \/ ReadEvent(r) \/ Answer200(r) \/ TakeUp(r) \/ RequestDone(r)

AssetSteps(r) ==
    \/ AnalyseImage(r) \/ AskWhatToDo(r) \/ DownloadFails(r)
    \/ \E i \in Images : AbsorbImage(r, i) \/ ChoiceTooLate(r, i)
    \/ \E i \in Images, d \in Decisions : BeginDecision(r, i, d)
    \/ NothingOpen(r) \/ DecisionCarriedOut(r) \/ DecisionFails(r) \/ Replied(r)

FaqSteps(r) == AskFaq(r) \/ StaySilent(r) \/ CustomerAnswered(r)

Next ==
    \/ \E r \in Requests :
         Intake(r) \/ AssetSteps(r) \/ FaqSteps(r) \/ TapRaises(r) \/ TaskRaises(r)
    \/ \E i \in Images : HalfHourPasses(i)
    \/ LockHandoff \/ ReleaseHandoff
    \/ Crash

Spec == Init /\ [][Next]_vars

-----------------------------------------------------------------------------
(* Properties *)

\* LINE may deliver a body again while the first delivery is still handled:
\* an event is handled once, and once more for each replay an operator asks.
HandledOnce == \A e \in Events : handled[e] <= (IF e \in replayed THEN 2 ELSE 1)

\* At most one image waits for the owner's word, however many are analysed
\* at the same time.
OneOpenIntent == Cardinality({i \in Images : intent[i] = "pending"}) <= 1

\* An image enters the knowledge base once for each time it was sent, however
\* many cards, words and replays name it; only a crash between the entry and
\* the closing of the intent adds one.
AbsorbedOnce == \A i \in Images : absorbed[i] <= handled[i] + crashes

\* Only an image that was decided on or superseded is closed: no decision is
\* undone by a download, a redelivery or a failed task.
ClosedStaysClosed ==
    [][\A i \in Images :
         intent[i] \in {"superseded", "resolved", "expired"} /\ intent'[i] = "pending" =>
             i \in replayed]_vars

\* Kachu+ answers a customer only if nobody had taken over when the question
\* was taken up; a takeover later than that comes too late.
SilentAfterHandoff == answered \subseteq deaf
=============================================================================
