--------------------------- MODULE LegacyDialogue ---------------------------
(***************************************************************************)
(* The owner's messages to the first Kachu (src/kachu) and the tasks they  *)
(* become: the two questions a message can leave open, the dispatch to     *)
(* AgentOS and the queue of dispatches that failed.                        *)
(*                                                                         *)
(* Events are handled as background tasks and are not deduplicated: LINE   *)
(* may deliver one again.  What a text means is the language model's       *)
(* choice, so it is left open.  A task of "review" has no idempotency key, *)
(* the others carry the LINE message they come from.                       *)
(***************************************************************************)
EXTENDS Naturals, FiniteSets

CONSTANTS Photos, Texts, Threads, Nobody, MaxDeliveries, MaxFaults, MaxCrashes

Events    == Photos \cup Texts
TextFlows == {"post", "review"}
Flows     == TextFlows \cup {"photo"}
Decisions == (Photos \X {"photo"}) \cup (Texts \X TextFlows)
Keyed(d)  == d[2] # "review"
NoOne     == <<Nobody, "none">>

VARIABLES
    asset,      \* shared context: the photo the owner is asked about
    intent,     \* shared context: the flow the owner is asked about
    pc, job,    \* a background task of the webhook
    drain,      \* the item of _drain_deferred_dispatches
    deferred,   \* rows of kachu_deferred_dispatches that wait
    tasks,      \* AgentOS: tasks created for a decision
    recorded,   \* decisions with a row in kachu_workflow_runs
    decided,    \* decisions handed to dispatch
    cut,        \* decisions whose handler died in a crash
    asked, used,    \* questions about a photo, and answers acted upon
    deliveries, faults, crashes

askVars  == <<asset, intent>>
procVars == <<pc, job>>
queueVars == <<drain, deferred>>
histVars == <<decided, cut, asked, used>>
bounds   == <<deliveries, faults, crashes>>
vars == <<askVars, procVars, queueVars, tasks, recorded, histVars, bounds>>

TypeOK ==
    /\ asset \in Photos \cup {Nobody} /\ intent \in TextFlows \cup {Nobody}
    /\ pc \in [Threads -> {"idle", "parsing", "planning", "creating", "running", "correcting"}]
    /\ job \in [Threads -> Decisions \cup {NoOne} \cup (Events \X {"none"})]
    /\ drain \in [item : Decisions \cup {NoOne}, at : {"idle", "creating", "running"}]
    /\ deferred \in [Decisions -> Nat] /\ tasks \in [Decisions -> Nat]
    /\ recorded \subseteq Decisions /\ decided \subseteq Decisions /\ cut \subseteq Decisions
    /\ asked \in [Photos -> Nat] /\ used \in [Photos -> Nat]
    /\ deliveries \in 0..MaxDeliveries
    /\ faults \in 0..MaxFaults /\ crashes \in 0..MaxCrashes

Init ==
    /\ asset = Nobody /\ intent = Nobody
    /\ pc = [t \in Threads |-> "idle"] /\ job = [t \in Threads |-> NoOne]
    /\ drain = [item |-> NoOne, at |-> "idle"]
    /\ deferred = [d \in Decisions |-> 0] /\ tasks = [d \in Decisions |-> 0]
    /\ recorded = {} /\ decided = {} /\ cut = {}
    /\ asked = [p \in Photos |-> 0] /\ used = [p \in Photos |-> 0]
    /\ deliveries = 0 /\ faults = 0 /\ crashes = 0

Delivered == deliveries < MaxDeliveries /\ deliveries' = deliveries + 1
             /\ UNCHANGED <<faults, crashes>>
NoCount   == UNCHANGED bounds
Fault     == faults < MaxFaults /\ faults' = faults + 1 /\ UNCHANGED <<deliveries, crashes>>

GoTo(t, at)  == pc' = [pc EXCEPT ![t] = at] /\ UNCHANGED job
Take(t, at, j) == pc' = [pc EXCEPT ![t] = at] /\ job' = [job EXCEPT ![t] = j]
Return(t)    == Take(t, "idle", NoOne)

\* dispatch: the request is built and create_task is awaited.
Dispatch(t, d) == Take(t, "creating", d) /\ decided' = decided \cup {d}

-----------------------------------------------------------------------------
(* A photo is downloaded and parsed, then the owner is asked about it; a    *)
(* question that is open already is overwritten.                            *)
PhotoArrives(t, p) ==
    /\ pc[t] = "idle" /\ Delivered
    /\ Take(t, "parsing", <<p, "none">>)
    /\ UNCHANGED <<askVars, queueVars, tasks, recorded, histVars>>

PhotoParsed(t) ==
    /\ pc[t] = "parsing"
    /\ asset' = job[t][1]
    /\ asked' = [asked EXCEPT ![job[t][1]] = @ + 1]
    /\ Return(t)
    /\ UNCHANGED <<intent, queueVars, tasks, recorded, decided, cut, used>> /\ NoCount

PhotoLost(t) ==
    /\ pc[t] = "parsing" /\ Return(t) /\ Fault
    /\ UNCHANGED <<askVars, queueVars, tasks, recorded, histVars>>

(* The photo's question is answered by a text or by its button: publish it, *)
(* or keep or discuss it here.                                              *)
AnswerAsset(t) ==
    /\ asset' = Nobody
    /\ used' = [used EXCEPT ![asset] = @ + 1]
    /\ \/ Dispatch(t, <<asset, "photo">>)
       \/ UNCHANGED <<procVars, decided>>
    /\ UNCHANGED <<intent, queueVars, tasks, recorded, cut, asked>>

\* Mutant: the question stays open until it expires.
AnswerAssetKept(t) ==
    /\ used' = [used EXCEPT ![asset] = @ + 1]
    /\ \/ Dispatch(t, <<asset, "photo">>)
       \/ UNCHANGED <<procVars, decided>>
    /\ UNCHANGED <<askVars, queueVars, tasks, recorded, cut, asked>>

TapAsset(t) ==
    /\ pc[t] = "idle" /\ asset # Nobody /\ Delivered
    /\ AnswerAsset(t)

TextAnswersAsset(t) ==
    /\ pc[t] = "idle" /\ asset # Nobody /\ Delivered
    /\ \/ AnswerAsset(t)
       \/ UNCHANGED <<askVars, procVars, queueVars, tasks, recorded, histVars>>

(* The flow's question is next: done, discussed, not understood, or dropped *)
(* for a text that asks for something else.                                 *)
TextAnswersIntent(t, x) ==
    /\ pc[t] = "idle" /\ asset = Nobody /\ intent # Nobody /\ Delivered
    /\ \/ intent' = Nobody /\ Dispatch(t, <<x, intent>>)
       \/ intent' \in {intent, Nobody} /\ UNCHANGED <<procVars, decided>>
       \/ intent' = Nobody /\ Take(t, "planning", <<x, "none">>) /\ UNCHANGED decided
    /\ UNCHANGED <<asset, queueVars, tasks, recorded, cut, asked, used>>

TextArrives(t, x) ==
    /\ pc[t] = "idle" /\ asset = Nobody /\ intent = Nobody /\ Delivered
    /\ Take(t, "planning", <<x, "none">>)
    /\ UNCHANGED <<askVars, queueVars, tasks, recorded, histVars>>

\* plan_boss_message: do it, ask first, or talk about it.
Planned(t) ==
    /\ pc[t] = "planning"
    /\ \/ /\ \E f \in TextFlows : Dispatch(t, <<job[t][1], f>>)
          /\ UNCHANGED intent
       \/ intent' \in TextFlows /\ Return(t) /\ UNCHANGED decided
       \/ Return(t) /\ UNCHANGED <<intent, decided>>
    /\ UNCHANGED <<asset, queueVars, tasks, recorded, cut, asked, used>> /\ NoCount

\* get_shared_context returns no context that has expired.
ContextExpires ==
    /\ asset # Nobody \/ intent # Nobody
    /\ asset' \in {asset, Nobody} /\ intent' \in {intent, Nobody}
    /\ UNCHANGED <<procVars, queueVars, tasks, recorded, histVars>> /\ NoCount

-----------------------------------------------------------------------------
\* AgentOS keeps one task for an idempotency key.
Creates(d) ==
    tasks' = [tasks EXCEPT ![d] = IF Keyed(d) /\ @ > 0 THEN @ ELSE @ + 1]

(* _create_and_run: create_task, run_task and create_workflow_record; a     *)
(* failure of any of them, an answer that is lost included, is deferred.    *)
CreateTask(t) ==
    /\ pc[t] = "creating" /\ Creates(job[t])
    /\ GoTo(t, "running")
    /\ UNCHANGED <<askVars, queueVars, recorded, histVars>> /\ NoCount

RunTask(t) ==
    /\ pc[t] = "running"
    /\ recorded' = recorded \cup {job[t]}
    /\ IF job[t][2] = "post" THEN GoTo(t, "correcting") ELSE Return(t)
    /\ UNCHANGED <<askVars, queueVars, tasks, histVars>> /\ NoCount

\* The card of a post whose platforms were corrected is pushed again.
Corrected(t) ==
    /\ pc[t] = "correcting" /\ Return(t)
    /\ UNCHANGED <<askVars, queueVars, tasks, recorded, histVars>> /\ NoCount

DispatchFails(t) ==
    /\ pc[t] \in {"creating", "running", "correcting"} /\ Fault
    /\ IF pc[t] = "creating" THEN Creates(job[t]) \/ UNCHANGED tasks ELSE UNCHANGED tasks
    /\ deferred' = [deferred EXCEPT ![job[t]] = @ + 1]
    /\ Return(t)
    /\ UNCHANGED <<askVars, drain, recorded, histVars>>

-----------------------------------------------------------------------------
(* _drain_deferred_dispatches, an item that is due after the other.         *)
DrainPick(d) ==
    /\ drain.at = "idle" /\ deferred[d] > 0
    /\ drain' = [item |-> d, at |-> "creating"]
    /\ UNCHANGED <<askVars, procVars, deferred, tasks, recorded, histVars>> /\ NoCount

\* Mutant: the queued request has lost its key.
DrainCreateUnkeyed ==
    /\ drain.at = "creating"
    /\ tasks' = [tasks EXCEPT ![drain.item] = @ + 1]
    /\ drain' = [drain EXCEPT !.at = "running"]
    /\ UNCHANGED <<askVars, procVars, deferred, recorded, histVars>> /\ NoCount

DrainCreate ==
    /\ drain.at = "creating" /\ Creates(drain.item)
    /\ drain' = [drain EXCEPT !.at = "running"]
    /\ UNCHANGED <<askVars, procVars, deferred, recorded, histVars>> /\ NoCount

DrainRun ==
    /\ drain.at = "running"
    /\ recorded' = recorded \cup {drain.item}
    /\ deferred' = [deferred EXCEPT ![drain.item] = @ - 1]
    /\ drain' = [item |-> NoOne, at |-> "idle"]
    /\ UNCHANGED <<askVars, procVars, tasks, histVars>> /\ NoCount

\* Mutant: the item is marked dispatched whatever happened.
DrainGivesUp ==
    /\ drain.at # "idle" /\ Fault
    /\ IF drain.at = "creating" THEN Creates(drain.item) \/ UNCHANGED tasks
                                ELSE UNCHANGED tasks
    /\ deferred' = [deferred EXCEPT ![drain.item] = @ - 1]
    /\ drain' = [item |-> NoOne, at |-> "idle"]
    /\ UNCHANGED <<askVars, procVars, recorded, histVars>>

\* mark_deferred_dispatch_retry: it stays in the queue, for a later round.
DrainFails ==
    /\ drain.at # "idle" /\ Fault
    /\ IF drain.at = "creating" THEN Creates(drain.item) \/ UNCHANGED tasks
                                ELSE UNCHANGED tasks
    /\ drain' = [item |-> NoOne, at |-> "idle"]
    /\ UNCHANGED <<askVars, procVars, deferred, recorded, histVars>>

-----------------------------------------------------------------------------
InFlight == {job[t] : t \in {u \in Threads : pc[u] \in {"creating", "running", "correcting"}}}

Crash ==
    /\ crashes < MaxCrashes /\ crashes' = crashes + 1
    /\ cut' = cut \cup InFlight
    /\ pc' = [t \in Threads |-> "idle"] /\ job' = [t \in Threads |-> NoOne]
    /\ drain' = [item |-> NoOne, at |-> "idle"]
    /\ UNCHANGED <<askVars, deferred, tasks, recorded, decided, asked, used,
                   deliveries, faults>>

Next ==
    \/ \E t \in Threads :
         \/ \E p \in Photos : PhotoArrives(t, p)
         \/ \E x \in Texts : TextAnswersIntent(t, x) \/ TextArrives(t, x)
         \/ PhotoParsed(t) \/ PhotoLost(t) \/ TapAsset(t) \/ TextAnswersAsset(t)
         \/ Planned(t) \/ CreateTask(t) \/ RunTask(t) \/ Corrected(t) \/ DispatchFails(t)
    \/ \E d \in Decisions : DrainPick(d)
    \/ ContextExpires \/ DrainCreate \/ DrainRun \/ DrainFails \/ Crash

Spec == Init /\ [][Next]_vars

-----------------------------------------------------------------------------
\* A decision handed to dispatch ends as a recorded workflow run: until then
\* it is being dispatched or waits in the queue.  Only a crash loses one
\* (_create_and_run and the drain agree on who owns it).
NoDecisionDropped ==
    \A d \in decided : d \in recorded \cup cut \cup InFlight \/ deferred[d] > 0

\* However often an event is delivered, a dispatch deferred and the queue
\* retried, AgentOS has one task for a decision that carries a key.
OneTaskPerDecision == \A d \in Decisions : Keyed(d) => tasks[d] <= 1

\* A photo is acted upon at most once for each time the owner was asked.
AnsweredOnce == \A p \in Photos : used[p] <= asked[p]
=============================================================================
