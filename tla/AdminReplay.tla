---------------------------- MODULE AdminReplay ----------------------------
(***************************************************************************)
(* The administrator's replay of stored Meta events (src/kachu_plus/       *)
(* admin.py over replay_stored_meta_webhook_event of meta.py): a list of   *)
(* events, or those a policy finds something missing for, are taken one    *)
(* after another, and each replay that succeeds leaves an audit row.       *)
(*                                                                         *)
(* The list is as old as the replays before the event at hand, and runs of *)
(* several administrators overlap.  Only an HTTPException is counted and   *)
(* passed over; whatever else a replay raises ends the run.                *)
(***************************************************************************)
EXTENDS Naturals, Sequences, FiniteSets, SequencesExt

CONSTANTS
    Events,
    Unreadable,         \* those whose stored payload has no usable content
    Threads,            \* slots for runs
    MaxRuns, MaxMishaps

Policies == {"all", "missing_engagement", "missing_pending_approval"}

VARIABLES
    engaged,    \* events with an external engagement
    waiting,    \* events whose engagement has a pending approval, open or decided
    cards,      \* cards pushed for each event
    audits,     \* audit rows of each event
    pc, job,    \* runs: the await they are at, what they were asked for and have left
    broken,     \* the slot's run was ended by an exception or a crash
    runs, mishaps

bounds == <<runs, mishaps>>
vars == <<engaged, waiting, cards, audits, pc, job, broken, bounds>>

NoJob == [todo |-> <<>>, asked |-> {}, failed |-> {}, stop |-> FALSE]
NoneLeft(t) == job[t].todo = <<>>
Current(t)  == Head(job[t].todo)

TypeOK ==
    /\ engaged \subseteq Events /\ waiting \subseteq engaged
    /\ cards \in [Events -> Nat] /\ audits \in [Events -> Nat]
    /\ pc \in [Threads -> {"idle", "next", "drafting", "requeueing", "notifying", "replayed", "done"}]
    /\ \A t \in Threads : DOMAIN job[t] = DOMAIN NoJob
    /\ broken \in [Threads -> BOOLEAN]
    /\ runs \in 0..MaxRuns /\ mishaps \in 0..MaxMishaps

\* Events are stored before they are handled: any part of it may be missing.
Init ==
    /\ engaged \in SUBSET (Events \ Unreadable) /\ waiting \in SUBSET engaged
    /\ cards = [e \in Events |-> 0] /\ audits = cards
    /\ pc = [t \in Threads |-> "idle"] /\ job = [t \in Threads |-> NoJob]
    /\ broken = [t \in Threads |-> FALSE]
    /\ runs = 0 /\ mishaps = 0

-----------------------------------------------------------------------------
GoTo(t, at) == pc' = [pc EXCEPT ![t] = at]
Leave(t) == /\ job' = [job EXCEPT ![t].todo = Tail(@)]
            /\ GoTo(t, "next")

\* _event_matches_replay_policy.
MatchesPolicy(e, policy) ==
    CASE policy = "all" -> TRUE
      [] policy = "missing_engagement" -> e \notin engaged
      [] policy = "missing_pending_approval" -> e \in engaged /\ e \notin waiting

\* replay_tenant_events_batch, _query and the replay of one event.
StartRun(t, policy, stop) ==
    /\ pc[t] = "idle" /\ runs < MaxRuns /\ runs' = runs + 1
    /\ \E s \in SetToSeqs({e \in Events : MatchesPolicy(e, policy)}) :
         job' = [job EXCEPT ![t] = [todo |-> s, asked |-> ToSet(s), failed |-> {}, stop |-> stop]]
    /\ GoTo(t, "next")
    /\ broken' = [broken EXCEPT ![t] = FALSE]
    /\ UNCHANGED <<engaged, waiting, cards, audits, mishaps>>

\* The events are through.
Finished(t) ==
    /\ pc[t] = "next" /\ NoneLeft(t)
    /\ GoTo(t, "done")
    /\ UNCHANGED <<engaged, waiting, cards, audits, job, broken, bounds>>

\* Mutant: the run stops at the first error though it was not asked to.
StopsAlways(t) == TRUE
\* Whether an HTTPException ends the run.
StopsOnError(t) == job[t].stop

\* A payload that cannot be replayed is a ValueError, and an HTTPException.
PassedOver(t) ==
    /\ pc[t] = "next" /\ ~NoneLeft(t) /\ Current(t) \in Unreadable
    /\ job' = [job EXCEPT ![t].failed = @ \cup {Current(t)},
                          ![t].todo = IF StopsOnError(t) THEN <<>> ELSE Tail(@)]
    /\ UNCHANGED <<engaged, waiting, cards, audits, pc, broken, bounds>>

\* An event that lacks nothing is a duplicate; one without an engagement is
\* drafted; one without a pending approval gets it at once and is pushed.
Duplicate(t) ==
    /\ pc[t] = "next" /\ ~NoneLeft(t) /\ Current(t) \in waiting
    /\ GoTo(t, "replayed")
    /\ UNCHANGED <<engaged, waiting, cards, audits, job, broken, bounds>>

DraftReply(t) ==
    /\ pc[t] = "next" /\ ~NoneLeft(t) /\ Current(t) \notin engaged \cup Unreadable
    /\ GoTo(t, "drafting")
    /\ UNCHANGED <<engaged, waiting, cards, audits, job, broken, bounds>>

Requeue(t) ==
    /\ pc[t] = "next" /\ ~NoneLeft(t) /\ Current(t) \in engaged \ waiting
    /\ waiting' = waiting \cup {Current(t)}
    /\ GoTo(t, "notifying")
    /\ UNCHANGED <<engaged, cards, audits, job, broken, bounds>>

\* An exception that is no HTTPException: the answer is an error and the rest
\* of the run is lost.
Dies(t) == /\ GoTo(t, "done")
           /\ broken' = [broken EXCEPT ![t] = TRUE]

\* Mutant: an engagement that has come into being meanwhile is taken as it is.
TakenAsItIs(t) ==
    /\ engaged' = engaged \cup {Current(t)} /\ GoTo(t, "requeueing") /\ UNCHANGED broken
\* create_external_engagement: the message's key is unique.
EngagementSaved(t) ==
    \/ Current(t) \notin engaged /\ engaged' = engaged \cup {Current(t)}
       /\ GoTo(t, "requeueing") /\ UNCHANGED broken
    \/ Current(t) \in engaged /\ Dies(t) /\ UNCHANGED engaged

Drafted(t) ==
    /\ pc[t] = "drafting" /\ EngagementSaved(t)
    /\ UNCHANGED <<waiting, cards, audits, job, bounds>>

\* The row follows the engagement with nothing awaited in between.
RowSaved(t) ==
    /\ pc[t] = "requeueing"
    /\ waiting' = waiting \cup {Current(t)}
    /\ GoTo(t, "notifying")
    /\ UNCHANGED <<engaged, cards, audits, job, broken, bounds>>

Pushed(t) ==
    /\ pc[t] = "notifying"
    /\ cards' = [cards EXCEPT ![Current(t)] = @ + 1]
    /\ GoTo(t, "replayed")
    /\ UNCHANGED <<engaged, waiting, audits, job, broken, bounds>>

Audited(t) ==
    /\ pc[t] = "replayed"
    /\ audits' = [audits EXCEPT ![Current(t)] = @ + 1]
    /\ Leave(t)
    /\ UNCHANGED <<engaged, waiting, cards, broken, bounds>>

\* LINE refuses the card.
PushFails(t) ==
    /\ pc[t] = "notifying" /\ mishaps < MaxMishaps /\ mishaps' = mishaps + 1
    /\ Dies(t)
    /\ UNCHANGED <<engaged, waiting, cards, audits, job, runs>>

Crash ==
    /\ mishaps < MaxMishaps /\ mishaps' = mishaps + 1
    /\ broken' = [t \in Threads |-> broken[t] \/ pc[t] \notin {"idle", "done"}]
    /\ pc' = [t \in Threads |-> IF pc[t] = "idle" THEN "idle" ELSE "done"]
    /\ UNCHANGED <<engaged, waiting, cards, audits, job, runs>>

\* The administrator has the result.
Answered(t) ==
    /\ pc[t] = "done" /\ GoTo(t, "idle")
    /\ job' = [job EXCEPT ![t] = NoJob]
    /\ UNCHANGED <<engaged, waiting, cards, audits, broken, bounds>>

\* Code between two awaits is not interleaved.
AtAwait(t) == pc[t] \in {"idle", "drafting", "notifying", "done"}
RunSteps(t) ==
    \/ Finished(t) \/ PassedOver(t) \/ Duplicate(t) \/ DraftReply(t) \/ Requeue(t)
    \/ Drafted(t) \/ RowSaved(t) \/ Pushed(t) \/ Audited(t) \/ PushFails(t) \/ Answered(t)

Next ==
    \/ \E t \in Threads :
         /\ \A o \in Threads \ {t} : AtAwait(o)
         /\ \/ \E p \in Policies, stop \in BOOLEAN : StartRun(t, p, stop)
            \/ RunSteps(t)
    \/ Crash

Spec == Init /\ [][Next]_vars

-----------------------------------------------------------------------------
\* However many runs overlap or are repeated, the owner gets at most one card
\* for an event.
CardedOnce == \A e \in Events : cards[e] <= 1

\* A run that was not cut short has made up for what each of its events lacked,
\* or counted it as an error; only one that is to stop may have left some out.
RunRepairs ==
    \A t \in Threads :
        pc[t] = "done" /\ ~broken[t] =>
            \/ job[t].asked \subseteq waiting \cup job[t].failed
            \/ job[t].stop /\ job[t].failed # {}
=============================================================================
