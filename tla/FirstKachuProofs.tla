-------------------------- MODULE FirstKachuProofs --------------------------
(***************************************************************************)
(* Proofs about the components of the first Kachu.                         *)
(***************************************************************************)
EXTENDS FirstKachu, CountingProofs, Integers, Sequences, FiniteSetTheorems,
        TLAPS
-----------------------------------------------------------------------------
(* The approval gate of the first Kachu                                      *)

\* A task's job is a record of these fields, whatever the draft in it.
GateIsJob(j) ==
    j = [act |-> j.act, run |-> j.run, draft |-> j.draft, seen |-> j.seen, sid |-> j.sid]

GateShapes ==
    /\ gateGate \in [Runs -> Gate!Open \cup {"none", "released", "failed", "done", "rejected"}]
    /\ gateSched \in [Runs -> {"none", "pending", "publishing", "published", "failed"}]
    /\ gatePrinted \in [Runs -> Nat]
    /\ gatePub \in [run : Runs \cup {None}, at : {"idle", "posting", "posted", "failed"}]
    /\ gatePc = [t \in Slots |-> gatePc[t]]
    /\ gateJob = [t \in Slots |-> gateJob[t]]
    /\ \A t \in Slots : GateIsJob(gateJob[t])

\* A task whose rejection closed the gate of r and that has not yet written
\* the schedule: between the two awaits of defer_with_schedule.
GateDeferring(t, r) == gatePc[t] = "answered" /\ gateJob[t].act = "defer" /\ gateJob[t].run = r

\* Nothing is posted before the gate is released, nor after a rejection.
GateUnposted == \A r \in Runs : gateGate[r] \in Gate!Open \cup {"none", "rejected"}
    => r \notin gateOut

\* Only a rejected gate has a schedule.
GateHeldBack == \A r \in Runs : gateSched[r] # "none" => gateGate[r] = "rejected"

\* The gate is decided from an open checkpoint.
GateSeenOpen == \A t \in Slots : gatePc[t] = "decide" => gateJob[t].seen \in Gate!Open

\* At most one task is about to schedule a run, which has no schedule yet.
GateOneDefers ==
    \A r \in Runs :
        /\ \A t \in Slots : GateDeferring(t, r)
            => gateGate[r] = "rejected" /\ gateSched[r] = "none"
        /\ \A t, u \in Slots : GateDeferring(t, r) /\ GateDeferring(u, r) => t = u

GateInv == GateUnposted /\ GateHeldBack /\ GateSeenOpen /\ GateOneDefers

\* What the publisher has in hand is marked, and marked before it is posted.
GatePubInv ==
    \A r \in Runs :
        /\ gatePrinted[r] <= 1
        /\ gateSched[r] \in {"none", "pending"} => gatePrinted[r] = 0
        /\ gatePub.run = r /\ gatePub.at # "idle" => gateSched[r] = "publishing"
        /\ gatePub.run = r /\ gatePub.at = "posting" => gatePrinted[r] = 0

GatePathInv == GateShapes /\ GateInv /\ GatePubInv

-----------------------------------------------------------------------------
(* Jobs *)

\* A job is changed field by field.
LEMMA GateJobFields ==
    ASSUME NEW j, GateIsJob(j), NEW a, NEW r, NEW d, NEW x, NEW i
    PROVE  /\ GateIsJob([j EXCEPT !.seen = x])
           /\ [j EXCEPT !.seen = x].seen = x
           /\ [j EXCEPT !.seen = x].act = j.act
           /\ [j EXCEPT !.seen = x].run = j.run
           /\ GateIsJob([j EXCEPT !.act = a, !.draft = d])
           /\ GateIsJob([j EXCEPT !.act = a, !.run = r])
           /\ GateIsJob([j EXCEPT !.act = a, !.run = r, !.draft = d])
           /\ GateIsJob([j EXCEPT !.act = a, !.run = r, !.draft = d, !.sid = i])
<1> DEFINE Fields(aa, rr, dd, xx, ii) ==
             [act : {aa}, run : {rr}, draft : {dd}, seen : {xx}, sid : {ii}]
<1>1. j \in Fields(j.act, j.run, j.draft, j.seen, j.sid)
  BY DEF GateIsJob
<1>2. [j EXCEPT !.seen = x] \in Fields(j.act, j.run, j.draft, x, j.sid)
  BY <1>1
<1>3. [j EXCEPT !.act = a, !.draft = d] \in Fields(a, j.run, d, j.seen, j.sid)
  BY <1>1
<1>4. [j EXCEPT !.act = a, !.run = r] \in Fields(a, r, j.draft, j.seen, j.sid)
  BY <1>1
<1>5. [j EXCEPT !.act = a, !.run = r, !.draft = d] \in Fields(a, r, d, j.seen, j.sid)
  BY <1>1
<1>6. [j EXCEPT !.act = a, !.run = r, !.draft = d, !.sid = i] \in Fields(a, r, d, j.seen, i)
  BY <1>1
<1>7. ASSUME NEW aa, NEW rr, NEW dd, NEW xx, NEW ii, NEW k \in Fields(aa, rr, dd, xx, ii)
      PROVE  GateIsJob(k) /\ k.seen = xx /\ k.act = aa /\ k.run = rr
  BY DEF GateIsJob
<1> HIDE DEF Fields
<1>8. GateIsJob([j EXCEPT !.seen = x]) /\ [j EXCEPT !.seen = x].seen = x
      /\ [j EXCEPT !.seen = x].act = j.act /\ [j EXCEPT !.seen = x].run = j.run
  BY <1>2, <1>7
<1>9. GateIsJob([j EXCEPT !.act = a, !.draft = d])
  BY <1>3, <1>7
<1>10. GateIsJob([j EXCEPT !.act = a, !.run = r])
  BY <1>4, <1>7
<1>11. GateIsJob([j EXCEPT !.act = a, !.run = r, !.draft = d])
  BY <1>5, <1>7
<1>12. GateIsJob([j EXCEPT !.act = a, !.run = r, !.draft = d, !.sid = i])
  BY <1>6, <1>7
<1> QED
  BY <1>8, <1>9, <1>10, <1>11, <1>12

\* A lookup notes the checkpoint it saw, and the draft.
LEMMA GateJobSaw ==
    ASSUME NEW j, GateIsJob(j), NEW d, NEW x
    PROVE  /\ GateIsJob([j EXCEPT !.seen = x, !.draft = d])
           /\ [j EXCEPT !.seen = x, !.draft = d].seen = x
<1>1. j \in [act : {j.act}, run : {j.run}, draft : {j.draft}, seen : {j.seen}, sid : {j.sid}]
  BY DEF GateIsJob
<1> DEFINE k == [j EXCEPT !.seen = x, !.draft = d]
<1>2. k \in [act : {j.act}, run : {j.run}, draft : {d}, seen : {x}, sid : {j.sid}]
  BY <1>1
<1> HIDE DEF k
<1>3. GateIsJob(k) /\ k.seen = x
  BY <1>2 DEF GateIsJob
<1> QED
  BY <1>3 DEF k

\* An idle task's job is one.
LEMMA GateNoJobIsJob == GateIsJob(Gate!NoJob)
  BY DEF GateIsJob, Gate!NoJob

\* A task that goes on, without deciding a gate and without a schedule in
\* hand, disturbs nothing: taps, lookups, failures, texts and rewrites.
LEMMA GateTaskMoves ==
    ASSUME GatePathInv, NEW t \in Slots, NEW at, NEW j, GateIsJob(j),
           gatePc' = [gatePc EXCEPT ![t] = at], gateJob' = [gateJob EXCEPT ![t] = j],
           at = "decide" => j.seen \in Gate!Open, at # "answered",
           UNCHANGED <<gateGate, gateOut, gateSched, gatePub, gatePrinted>>
    PROVE  GatePathInv'
<1>1. /\ gatePc'[t] = at /\ gateJob'[t] = j
      /\ \A u \in Slots : u # t => gatePc'[u] = gatePc[u] /\ gateJob'[u] = gateJob[u]
  BY DEF GatePathInv, GateShapes
<1>2. gatePc' = [u \in Slots |-> gatePc'[u]] /\ gateJob' = [u \in Slots |-> gateJob'[u]]
  BY DEF GatePathInv, GateShapes
<1>3. GateShapes'
  BY <1>1, <1>2 DEF GatePathInv, GateShapes
<1>4. \A u \in Slots, r \in Runs : GateDeferring(u, r)' => GateDeferring(u, r)
  BY <1>1 DEF GateDeferring
<1>5. GateInv'
  BY <1>1, <1>4 DEF GatePathInv, GateInv, GateUnposted, GateHeldBack,
     GateSeenOpen, GateOneDefers
<1>6. GatePubInv'
  BY DEF GatePathInv, GatePubInv
<1> QED
  BY <1>3, <1>5, <1>6 DEF GatePathInv

\* A task that ends or goes to another place keeps its job or drops it.
LEMMA GateTaskGoes ==
    ASSUME GatePathInv, NEW t \in Slots, NEW at, at \notin {"decide", "answered"},
           Gate!Return(t) \/ Gate!GoTo(t, at),
           UNCHANGED <<gateGate, gateOut, gateSched, gatePub, gatePrinted>>
    PROVE  GatePathInv'
<1>1. GateIsJob(Gate!NoJob)
  BY DEF GateIsJob, Gate!NoJob
<1>2. CASE Gate!Return(t)
  BY <1>1, <1>2, GateTaskMoves DEF Gate!Return
<1>3. CASE Gate!GoTo(t, at)
  <2>1. GateIsJob(gateJob[t]) /\ gateJob' = [gateJob EXCEPT ![t] = gateJob[t]]
    BY <1>3 DEF Gate!GoTo, GatePathInv, GateShapes
  <2> QED
    BY <1>3, <2>1, GateTaskMoves DEF Gate!GoTo
<1> QED
  BY <1>2, <1>3

-----------------------------------------------------------------------------
(* The gate *)

\* AgentOS moves the gate of a run that is not rejected; it is opened only
\* from the start and posted only from a release.
LEMMA GateMoves ==
    ASSUME GatePathInv, NEW r \in Runs,
           NEW g \in Gate!Open \cup {"none", "released", "failed", "done"},
           gateGate[r] # "rejected", gateGate' = [gateGate EXCEPT ![r] = g],
           g \in Gate!Open \cup {"none"} => gateGate[r] \in Gate!Open \cup {"none"},
           \/ gateOut' = gateOut
           \/ gateOut' = gateOut \cup {r} /\ g \notin Gate!Open \cup {"none"},
           UNCHANGED <<gatePc, gateJob, gateSched, gatePub, gatePrinted>>
    PROVE  GatePathInv'
<1>1. gateGate'[r] = g /\ \A q \in Runs : q # r => gateGate'[q] = gateGate[q]
  BY DEF GatePathInv, GateShapes
<1>2. GateShapes'
  BY DEF GatePathInv, GateShapes, Gate!Open
<1>3. GateUnposted'
  BY <1>1 DEF GatePathInv, GateInv, GateUnposted
<1>4. GateHeldBack'
  BY <1>1 DEF GatePathInv, GateInv, GateHeldBack
<1>5. GateSeenOpen' /\ GateOneDefers'
  BY <1>1 DEF GatePathInv, GateInv, GateSeenOpen, GateOneDefers, GateDeferring
<1>6. GatePubInv'
  BY DEF GatePathInv, GatePubInv
<1> QED
  BY <1>2, <1>3, <1>4, <1>5, <1>6 DEF GatePathInv, GateInv

\* A decision finds the gate open, and moves it to where it is answered.
LEMMA GateDecidesFromOpen ==
    ASSUME GatePathInv, NEW t \in Slots, gatePc[t] = "decide", Gate!Decides(t),
           gateJob[t].run \in Runs
    PROVE  /\ gateGate[gateJob[t].run] \in Gate!Open
           /\ \E g \in {"system", "released", "rejected"} :
                /\ gateGate' = [gateGate EXCEPT ![gateJob[t].run] = g]
                /\ gateJob[t].act = "defer" => g = "rejected"
<1>1. gateGate[gateJob[t].run] \in Gate!Open
  BY DEF GatePathInv, GateInv, GateSeenOpen, Gate!Decides
<1>2. CASE gateJob[t].act \in {"approve", "submit"}
  <2>1. PICK g \in {"system", "released"} : gateGate' = [gateGate EXCEPT ![gateJob[t].run] = g]
    <3>1. CASE gateGate[gateJob[t].run] = "user"
      BY <1>2, <3>1 DEF Gate!Decides
    <3>2. CASE gateGate[gateJob[t].run] # "user"
      BY <1>2, <3>2 DEF Gate!Decides
    <3> QED
      BY <3>1, <3>2
  <2> QED
    BY <1>1, <1>2, <2>1
<1>3. CASE gateJob[t].act \notin {"approve", "submit"}
  <2>1. gateGate' = [gateGate EXCEPT ![gateJob[t].run] = "rejected"]
    BY <1>3 DEF Gate!Decides
  <2> QED
    BY <1>1, <2>1
<1> QED
  BY <1>2, <1>3

\* Outside the runs of this tenant a decision does nothing here.
LEMMA GateDecidesElsewhere ==
    ASSUME GatePathInv, NEW t \in Slots, Gate!Decides(t), gateJob[t].run \notin Runs
    PROVE  gateGate' = gateGate
<1>1. \A g : [gateGate EXCEPT ![gateJob[t].run] = g] = gateGate
  BY DEF GatePathInv, GateShapes
<1>2. CASE gateJob[t].act \in {"approve", "submit"}
  BY <1>1, <1>2 DEF Gate!Decides
<1>3. CASE gateJob[t].act \notin {"approve", "submit"}
  BY <1>1, <1>3 DEF Gate!Decides
<1> QED
  BY <1>2, <1>3

\* The gate decided, no other task can be about to schedule the run: it would
\* have found the gate closed.
LEMMA GateDecisionKeeps ==
    ASSUME GatePathInv, NEW t \in Slots, gatePc[t] = "decide", Gate!Decides(t),
           NEW at \in {"idle", "answered"}, NEW j, GateIsJob(j),
           at = "answered" => j.act = gateJob[t].act /\ j.run = gateJob[t].run,
           gatePc' = [gatePc EXCEPT ![t] = at], gateJob' = [gateJob EXCEPT ![t] = j],
           UNCHANGED <<gateOut, gateSched, gatePub, gatePrinted>>
    PROVE  GatePathInv'
<1> DEFINE run == gateJob[t].run
<1>1. /\ gatePc'[t] = at /\ gateJob'[t] = j
      /\ \A u \in Slots : u # t => gatePc'[u] = gatePc[u] /\ gateJob'[u] = gateJob[u]
  BY DEF GatePathInv, GateShapes
<1>2. gatePc' = [u \in Slots |-> gatePc'[u]] /\ gateJob' = [u \in Slots |-> gateJob'[u]]
  BY DEF GatePathInv, GateShapes
<1>3. /\ gateGate' \in [Runs -> Gate!Open \cup {"none", "released", "failed", "done",
                                                "rejected"}]
      /\ \A q \in Runs : q # run => gateGate'[q] = gateGate[q]
      /\ run \in Runs => /\ gateGate[run] \in Gate!Open
                         /\ gateGate'[run] \in {"system", "released", "rejected"}
                         /\ gateJob[t].act = "defer" => gateGate'[run] = "rejected"
  <2>1. CASE run \in Runs
    <3>1. PICK g \in {"system", "released", "rejected"} :
             /\ gateGate' = [gateGate EXCEPT ![run] = g]
             /\ gateJob[t].act = "defer" => g = "rejected"
      BY <2>1, GateDecidesFromOpen
    <3>2. gateGate[run] \in Gate!Open
      BY <2>1, GateDecidesFromOpen
    <3> QED
      BY <2>1, <3>1, <3>2 DEF GatePathInv, GateShapes, Gate!Open
  <2>2. CASE run \notin Runs
    BY <2>2, GateDecidesElsewhere DEF GatePathInv, GateShapes
  <2> QED
    BY <2>1, <2>2
<1>4. GateShapes'
  BY <1>1, <1>2, <1>3 DEF GatePathInv, GateShapes
<1>5. GateUnposted'
  BY <1>3 DEF GatePathInv, GateInv, GateUnposted, Gate!Open
<1>6. GateHeldBack'
  BY <1>3 DEF GatePathInv, GateInv, GateHeldBack, Gate!Open
<1>7. GateSeenOpen'
  BY <1>1 DEF GatePathInv, GateInv, GateSeenOpen
<1>8. \A u \in Slots, q \in Runs :
         GateDeferring(u, q)'
             => GateDeferring(u, q) \/ (u = t /\ q = run /\ gateJob[t].act = "defer")
  BY <1>1 DEF GateDeferring
<1>9. run \in Runs => gateSched[run] = "none" /\ \A u \in Slots : ~GateDeferring(u, run)
  BY <1>3 DEF GatePathInv, GateInv, GateHeldBack, GateOneDefers, Gate!Open
<1>10. GateOneDefers'
  <2> SUFFICES ASSUME NEW q \in Runs
               PROVE  /\ \A u \in Slots : GateDeferring(u, q)' =>
                            gateGate'[q] = "rejected" /\ gateSched'[q] = "none"
                      /\ \A u, v \in Slots : GateDeferring(u, q)' /\ GateDeferring(v, q)'
                          => u = v
    BY DEF GateOneDefers
  <2>1. CASE q = run
    BY <1>3, <1>8, <1>9, <2>1
  <2>2. CASE q # run
    BY <1>3, <1>8, <2>2 DEF GatePathInv, GateInv, GateOneDefers
  <2> QED
    BY <2>1, <2>2
<1>11. GatePubInv'
  BY DEF GatePathInv, GatePubInv
<1> QED
  BY <1>4, <1>5, <1>6, <1>7, <1>10, <1>11 DEF GatePathInv, GateInv

-----------------------------------------------------------------------------
(* The schedule and the publisher *)

\* defer_with_schedule's second half: the run had no schedule, and no one else
\* is about to give it one.
LEMMA GateScheduleKeeps ==
    ASSUME GatePathInv, NEW t \in Slots, Gate!RecordSchedule(t)
    PROVE  GatePathInv'
<1> DEFINE run == gateJob[t].run
<1>1. /\ gatePc[t] = "answered" /\ gateJob[t].act = "defer"
      /\ gateSched' = [gateSched EXCEPT ![run] = "pending"]
      /\ gatePc' = [gatePc EXCEPT ![t] = "idle"]
      /\ gateJob' = [gateJob EXCEPT ![t] = Gate!NoJob]
      /\ UNCHANGED <<gateGate, gateOut, gatePub, gatePrinted>>
  BY DEF Gate!RecordSchedule, Gate!Return, Gate!gateVars
<1>2. GateDeferring(t, run)
  BY <1>1 DEF GateDeferring
<1>3. /\ \A q \in Runs : q # run => gateSched'[q] = gateSched[q]
      /\ run \in Runs => gateSched'[run] = "pending" /\ gateSched[run] = "none"
                         /\ gateGate[run] = "rejected"
  BY <1>1, <1>2 DEF GatePathInv, GateShapes, GateInv, GateOneDefers
<1>4. /\ gatePc'[t] = "idle"
      /\ \A u \in Slots : u # t => gatePc'[u] = gatePc[u] /\ gateJob'[u] = gateJob[u]
      /\ gateJob'[t] = Gate!NoJob
  BY <1>1 DEF GatePathInv, GateShapes
<1>5. gatePc' = [u \in Slots |-> gatePc'[u]] /\ gateJob' = [u \in Slots |-> gateJob'[u]]
  BY <1>1 DEF GatePathInv, GateShapes
<1>6. GateIsJob(Gate!NoJob)
  BY DEF GateIsJob, Gate!NoJob
<1>7. GateShapes'
  BY <1>1, <1>4, <1>5, <1>6 DEF GatePathInv, GateShapes
<1>8. GateUnposted' /\ GateHeldBack'
  BY <1>1, <1>3 DEF GatePathInv, GateInv, GateUnposted, GateHeldBack
<1>9. GateSeenOpen'
  BY <1>4 DEF GatePathInv, GateInv, GateSeenOpen
<1>10. \A u \in Slots, q \in Runs : GateDeferring(u, q)' => GateDeferring(u, q) /\ u # t
  BY <1>4 DEF GateDeferring
<1>11. GateOneDefers'
  BY <1>1, <1>2, <1>3, <1>10 DEF GatePathInv, GateInv, GateOneDefers
<1>12. GatePubInv'
  BY <1>1, <1>3 DEF GatePathInv, GatePubInv
<1> QED
  BY <1>7, <1>8, <1>9, <1>11, <1>12 DEF GatePathInv, GateInv

\* The publisher takes up, posts and closes the rows of rejected gates only.
LEMMA GatePublisherKeeps ==
    ASSUME GatePathInv,
           (\E r \in Runs : Gate!PickDue(r)) \/ Gate!PostDue \/ Gate!PostDueFails
               \/ Gate!MarkPublished
    PROVE  GatePathInv'
<1>1. UNCHANGED <<gateGate, gateOut, gatePc, gateJob>>
  BY DEF Gate!PickDue, Gate!PostDue, Gate!PostDueFails, Gate!MarkPublished,
     Gate!gateVars, Gate!procVars
<1>2. SUFFICES /\ gateSched' \in [Runs -> {"none", "pending", "publishing", "published",
                                           "failed"}]
               /\ gatePrinted' \in [Runs -> Nat]
               /\ gatePub' \in [run : Runs \cup {None},
                                at : {"idle", "posting", "posted", "failed"}]
               /\ \A r \in Runs : (gateSched[r] = "none") = (gateSched'[r] = "none")
               /\ GatePubInv'
  BY <1>1 DEF GatePathInv, GateShapes, GateInv, GateUnposted, GateHeldBack,
     GateSeenOpen, GateOneDefers, GateDeferring
<1>3. ASSUME NEW r \in Runs, Gate!PickDue(r)
      PROVE  /\ gateSched' \in [Runs -> {"none", "pending", "publishing", "published",
                                         "failed"}]
             /\ gatePrinted' \in [Runs -> Nat]
             /\ gatePub' \in [run : Runs \cup {None},
                              at : {"idle", "posting", "posted", "failed"}]
             /\ \A q \in Runs : (gateSched[q] = "none") = (gateSched'[q] = "none")
             /\ GatePubInv'
  BY <1>3 DEF Gate!PickDue, GatePathInv, GateShapes, GatePubInv
<1>4. CASE Gate!PostDue
  <2>1. /\ gatePub.at = "posting" /\ gateSched' = gateSched
        /\ gatePrinted' = [gatePrinted EXCEPT ![gatePub.run] = @ + 1]
    BY <1>4 DEF Gate!PostDue
  <2>2. PICK at \in {"posted", "failed"} : gatePub' = [gatePub EXCEPT !.at = at]
    BY <1>4 DEF Gate!PostDue
  <2>3. gatePub' = [run |-> gatePub.run, at |-> at]
    BY <2>2 DEF GatePathInv, GateShapes
  <2>4. gatePrinted' \in [Runs -> Nat]
    <3>1. CASE gatePub.run \in Runs
      <4>1. gatePrinted[gatePub.run] + 1 \in Nat
        BY <3>1 DEF GatePathInv, GateShapes
      <4> QED
        BY <2>1, <4>1 DEF GatePathInv, GateShapes
    <3>2. CASE gatePub.run \notin Runs
      BY <2>1, <3>2 DEF GatePathInv, GateShapes
    <3> QED
      BY <3>1, <3>2
  <2>5. GatePubInv'
    BY <2>1, <2>3 DEF GatePathInv, GateShapes, GatePubInv
  <2> QED
    BY <2>1, <2>3, <2>4, <2>5 DEF GatePathInv, GateShapes
<1>5. CASE Gate!PostDueFails
  <2>1. gatePub' = [gatePub EXCEPT !.at = "failed"] /\ gatePub.at = "posting"
        /\ UNCHANGED <<gateSched, gatePrinted>>
    BY <1>5 DEF Gate!PostDueFails
  <2>2. gatePub' = [run |-> gatePub.run, at |-> "failed"]
    BY <2>1 DEF GatePathInv, GateShapes
  <2> QED
    BY <2>1, <2>2 DEF GatePathInv, GateShapes, GatePubInv
<1>6. CASE Gate!MarkPublished
  <2>1. /\ gatePub.at \in {"posted", "failed"} /\ gatePub' = Gate!Idle
        /\ gatePrinted' = gatePrinted
        /\ gateSched' = [gateSched EXCEPT ![gatePub.run] =
                       IF gatePub.at = "posted" THEN "published" ELSE "failed"]
    BY <1>6 DEF Gate!MarkPublished
  <2> QED
    BY <2>1 DEF GatePathInv, GateShapes, GatePubInv, Gate!Idle
<1> QED
  BY <1>3, <1>4, <1>5, <1>6

-----------------------------------------------------------------------------
(* The invariant *)

\* Steps of the owner, of AgentOS, of the tasks and of the publisher keep it.
LEMMA GatePathInvHolds == Gate!Spec => []GatePathInv
<1>1. Gate!Init => GatePathInv
  <2> SUFFICES ASSUME Gate!Init PROVE GatePathInv
    OBVIOUS
  <2>1. PICK old \in Runs \cup {None} :
           gateGate = [r \in Runs |-> IF r = old THEN "user" ELSE "none"]
    BY DEF Gate!Init
  <2>2. /\ gateSched = [r \in Runs |-> "none"] /\ gatePub = Gate!Idle /\ gateOut = {}
        /\ gatePc = [t \in Slots |-> "idle"] /\ gateJob = [t \in Slots |-> Gate!NoJob]
        /\ gatePrinted = [r \in Runs |-> 0]
    BY DEF Gate!Init
  <2>3. GateShapes
    BY <2>1, <2>2 DEF GateShapes, Gate!Open, Gate!Idle, GateIsJob, Gate!NoJob
  <2>4. GateInv
    BY <2>2 DEF GateInv, GateUnposted, GateHeldBack, GateSeenOpen,
       GateOneDefers, GateDeferring
  <2>5. /\ gatePub.at = "idle"
        /\ \A r \in Runs : gatePrinted[r] = 0 /\ gateSched[r] = "none"
    BY <2>2 DEF Gate!Idle
  <2>6. GatePubInv
    <3> SUFFICES ASSUME NEW r \in Runs
                 PROVE  /\ gatePrinted[r] <= 1
                        /\ gateSched[r] \in {"none", "pending"} => gatePrinted[r] = 0
                        /\ gatePub.at = "idle"
      BY DEF GatePubInv
    <3>1. gatePrinted[r] = 0 /\ gatePub.at = "idle"
      BY <2>5
    <3> QED
      BY <3>1
  <2> QED
    BY <2>3, <2>4, <2>6 DEF GatePathInv
<1>2. ASSUME GatePathInv, [Gate!Next]_(Gate!vars)
      PROVE  GatePathInv'
  <2>1. ASSUME NEW r \in Runs,
               Gate!NotifyApproval(r) \/ Gate!AgentPublishes(r) \/ Gate!AgentPublishFails(r)
                   \/ Gate!TapRetry(r)
        PROVE  GatePathInv'
    <3>1. UNCHANGED <<gatePc, gateJob, gateSched, gatePub, gatePrinted>>
      BY <2>1 DEF Gate!NotifyApproval, Gate!AgentPublishes,
         Gate!AgentPublishFails, Gate!TapRetry, Gate!procVars, Gate!pubVars
    <3>2. CASE Gate!NotifyApproval(r)
      BY <1>2, <3>1, <3>2, GateMoves DEF Gate!NotifyApproval, Gate!Open
    <3>3. CASE Gate!AgentPublishes(r)
      <4>1. PICK g \in {"done", "failed"} : gateGate' = [gateGate EXCEPT ![r] = g]
        BY <3>3 DEF Gate!AgentPublishes
      <4>2. gateGate[r] = "released" /\ gateOut' = gateOut \cup {r}
        BY <3>3 DEF Gate!AgentPublishes
      <4> QED
        BY <1>2, <3>1, <4>1, <4>2, GateMoves DEF Gate!Open
    <3>4. CASE Gate!AgentPublishFails(r)
      BY <1>2, <3>1, <3>4, GateMoves DEF Gate!AgentPublishFails, Gate!Open
    <3>5. CASE Gate!TapRetry(r)
      BY <1>2, <3>1, <3>5, GateMoves DEF Gate!TapRetry, Gate!Open
    <3> QED
      BY <2>1, <3>2, <3>3, <3>4, <3>5
  <2>2. ASSUME (\E r \in Runs : Gate!TapEdit(r) \/ Gate!TapSchedule(r) \/ Gate!TapCancel(r))
      \/ Gate!TextTime
               \/ UNCHANGED Gate!vars
        PROVE  GatePathInv'
    <3>1. UNCHANGED <<gateGate, gateOut, gateSched, gatePub, gatePrinted, gatePc, gateJob>>
      BY <2>2 DEF Gate!TapEdit, Gate!TapSchedule, Gate!TapCancel,
         Gate!TextTime, Gate!vars, Gate!gateVars, Gate!pubVars, Gate!procVars
    <3> QED
      BY <1>2, <3>1 DEF GatePathInv, GateShapes, GateInv, GateUnposted,
         GateHeldBack, GateSeenOpen, GateOneDefers, GateDeferring, GatePubInv
  <2>3. ASSUME NEW r \in Runs, NEW t \in Slots, NEW act, Gate!TapDecision(t, r, act)
        PROVE  GatePathInv'
    <3>1. GateIsJob([Gate!NoJob EXCEPT !.act = act, !.run = r])
      BY GateNoJobIsJob, GateJobFields
    <3> QED
      BY <1>2, <2>3, <3>1, GateTaskMoves DEF Gate!TapDecision, Gate!Start,
         Gate!gateVars, Gate!pubVars
  <2>4. ASSUME NEW r \in Runs, NEW t \in Slots, Gate!TapConfirm(t, r)
        PROVE  GatePathInv'
    <3>1. GateIsJob([Gate!NoJob EXCEPT !.act = "defer", !.run = r, !.draft = gateConfirm.draft])
      BY GateNoJobIsJob, GateJobFields
    <3> QED
      BY <1>2, <2>4, <3>1, GateTaskMoves DEF Gate!TapConfirm, Gate!Start,
         Gate!gateVars, Gate!pubVars
  <2>5. ASSUME NEW t \in Slots, Gate!Lookup(t)
        PROVE  GatePathInv'
    <3>1. UNCHANGED <<gateGate, gateOut, gateSched, gatePub, gatePrinted>>
      BY <2>5 DEF Gate!Lookup, Gate!gateVars, Gate!pubVars
    <3>2. CASE gateGate[gateJob[t].run] \in Gate!Open
      <4> DEFINE d == IF gateJob[t].act = "approve" THEN gateDraft[gateJob[t].run] ELSE gateJob[t].draft
                 j == [gateJob[t] EXCEPT !.seen = gateGate[gateJob[t].run], !.draft = d]
      <4>1. gatePc' = [gatePc EXCEPT ![t] = "decide"] /\ gateJob' = [gateJob EXCEPT ![t] = j]
        BY <1>2, <2>5, <3>2 DEF Gate!Lookup, GatePathInv, GateShapes
      <4>2. GateIsJob(gateJob[t])
        BY <1>2 DEF GatePathInv, GateShapes
      <4>3. GateIsJob(j) /\ j.seen = gateGate[gateJob[t].run]
        <5>1. \A x, y : /\ GateIsJob([gateJob[t] EXCEPT !.seen = x, !.draft = y])
                       /\ [gateJob[t] EXCEPT !.seen = x, !.draft = y].seen = x
          BY <4>2, GateJobSaw
        <5> HIDE DEF d
        <5> QED
          BY <5>1
      <4> HIDE DEF j
      <4> QED
        BY <1>2, <3>1, <3>2, <4>1, <4>3, GateTaskMoves
    <3>3. CASE gateGate[gateJob[t].run] \notin Gate!Open
      BY <1>2, <2>5, <3>1, <3>3, GateTaskGoes DEF Gate!Lookup
    <3> QED
      BY <3>2, <3>3
  <2>6. ASSUME NEW t \in Slots,
               Gate!LookupFails(t) \/ Gate!DecideError(t) \/ Gate!Close(t) \/ Gate!SaveIgText(t)
        PROVE  GatePathInv'
    <3>1. Gate!Return(t) /\ UNCHANGED <<gateGate, gateOut, gateSched, gatePub, gatePrinted>>
      BY <2>6 DEF Gate!LookupFails, Gate!DecideError, Gate!Close,
         Gate!SaveIgText, Gate!gateVars, Gate!pubVars
    <3>2. "idle" \notin {"decide", "answered"}
      OBVIOUS
    <3> QED
      BY <1>2, <3>1, <3>2, GateTaskGoes
  <2>7. ASSUME NEW t \in Slots,
               Gate!SystemLookup(t) \/ Gate!AutoApproveFails(t) \/ Gate!Record(t)
                   \/ Gate!RecordEdit(t)
               \/ Gate!Rewritten(t)
        PROVE  GatePathInv'
    <3>1. UNCHANGED <<gateGate, gateOut, gateSched, gatePub, gatePrinted>>
      BY <2>7 DEF Gate!SystemLookup, Gate!AutoApproveFails, Gate!Record,
         Gate!RecordEdit, Gate!Rewritten, Gate!gateVars, Gate!pubVars
    <3>2. \E at \in {"auto", "record", "closing"} : Gate!Return(t) \/ Gate!GoTo(t, at)
      BY <2>7 DEF Gate!SystemLookup, Gate!AutoApproveFails, Gate!Record,
         Gate!RecordEdit, Gate!Rewritten
    <3> QED
      BY <1>2, <3>1, <3>2, GateTaskGoes
  <2>8. ASSUME NEW t \in Slots, Gate!TextSession(t)
        PROVE  GatePathInv'
    <3>1. \A r, d, i : GateIsJob([Gate!NoJob EXCEPT !.act = "feedback", !.run = r, !.draft = d,
                                  !.sid = i])
      BY GateNoJobIsJob, GateJobFields
    <3>2. \E j : \E at \in {"rewriting", "saving"} :
             /\ GateIsJob(j)
             /\ gatePc' = [gatePc EXCEPT ![t] = at] /\ gateJob' = [gateJob EXCEPT ![t] = j]
      <4> DEFINE s == gateSessions[Gate!ActiveSession]
                 at == IF s.step = "feedback" THEN "rewriting" ELSE "saving"
                 j == [Gate!NoJob EXCEPT !.act = "feedback", !.run = s.run, !.draft = s.base,
                                         !.sid = Gate!ActiveSession]
      <4>1. gatePc' = [gatePc EXCEPT ![t] = at] /\ gateJob' = [gateJob EXCEPT ![t] = j]
        BY <2>8 DEF Gate!TextSession, Gate!Start
      <4>2. GateIsJob(j)
        BY <3>1
      <4>3. at \in {"rewriting", "saving"}
        OBVIOUS
      <4> HIDE DEF at, j
      <4> QED
        BY <4>1, <4>2, <4>3
    <3>3. UNCHANGED <<gateGate, gateOut, gateSched, gatePub, gatePrinted>>
      BY <2>8 DEF Gate!TextSession, Gate!gateVars, Gate!pubVars
    <3> QED
      BY <1>2, <3>2, <3>3, GateTaskMoves
  <2>9. ASSUME NEW t \in Slots, Gate!SubmitEdit(t)
        PROVE  GatePathInv'
    <3> DEFINE d == IF Gate!OpenSessions = {} THEN gateJob[t].draft ELSE gateSessions[Gate!ActiveSession].edited
               j == [gateJob[t] EXCEPT !.act = "submit", !.draft = d]
    <3>1. /\ gatePc' = [gatePc EXCEPT ![t] = "lookup"] /\ gateJob' = [gateJob EXCEPT ![t] = j]
          /\ UNCHANGED <<gateGate, gateOut, gateSched, gatePub, gatePrinted>>
      BY <1>2, <2>9 DEF Gate!SubmitEdit, Gate!gateVars, Gate!pubVars,
         GatePathInv, GateShapes
    <3>2. GateIsJob(gateJob[t])
      BY <1>2 DEF GatePathInv, GateShapes
    <3>3. GateIsJob(j)
      BY <3>2, GateJobFields
    <3> HIDE DEF j
    <3> QED
      BY <1>2, <3>1, <3>3, GateTaskMoves
  <2>10. ASSUME NEW t \in Slots, Gate!Decide(t) \/ Gate!DecideLost(t)
         PROVE  GatePathInv'
    <3>1. gatePc[t] = "decide" /\ Gate!Decides(t)
        /\ UNCHANGED <<gateOut, gateSched, gatePub, gatePrinted>>
      BY <2>10 DEF Gate!Decide, Gate!DecideLost, Gate!pubVars
    <3>2. CASE Gate!Decide(t)
      <4> DEFINE j == [gateJob[t] EXCEPT !.seen = gateGate'[gateJob[t].run]]
      <4>1. gatePc' = [gatePc EXCEPT ![t] = "answered"] /\ gateJob' = [gateJob EXCEPT ![t] = j]
        BY <1>2, <3>2 DEF Gate!Decide, GatePathInv, GateShapes
      <4>2. GateIsJob(gateJob[t])
        BY <1>2 DEF GatePathInv, GateShapes
      <4>3. GateIsJob(j) /\ j.act = gateJob[t].act /\ j.run = gateJob[t].run
        BY <4>2, GateJobFields
      <4> HIDE DEF j
      <4> QED
        BY <1>2, <3>1, <4>1, <4>3, GateDecisionKeeps
    <3>3. CASE Gate!DecideLost(t)
      <4>1. GateIsJob(Gate!NoJob)
        BY DEF GateIsJob, Gate!NoJob
      <4> QED
        BY <1>2, <3>1, <3>3, <4>1, GateDecisionKeeps DEF Gate!DecideLost,
           Gate!Return
    <3> QED
      BY <2>10, <3>2, <3>3
  <2>11. ASSUME NEW t \in Slots, Gate!AutoApprove(t)
         PROVE  GatePathInv'
    <3>1. /\ gateGate' = [gateGate EXCEPT ![gateJob[t].run] = IF @ = "system" THEN "released" ELSE @]
          /\ gatePc' = [gatePc EXCEPT ![t] = "record"] /\ gateJob' = gateJob
          /\ UNCHANGED <<gateOut, gateSched, gatePub, gatePrinted>>
      BY <2>11 DEF Gate!AutoApprove, Gate!GoTo, Gate!pubVars
    <3>2. /\ gateGate' \in [Runs -> Gate!Open \cup {"none", "released", "failed", "done",
                                                    "rejected"}]
          /\ \A q \in Runs : gateGate'[q] = gateGate[q]
                             \/ (gateGate[q] = "system" /\ gateGate'[q] = "released")
      BY <1>2, <3>1 DEF GatePathInv, GateShapes
    <3>3. /\ gatePc'[t] = "record" /\ \A u \in Slots : u # t => gatePc'[u] = gatePc[u]
          /\ gatePc' = [u \in Slots |-> gatePc'[u]]
      BY <1>2, <3>1 DEF GatePathInv, GateShapes
    <3>4. GateShapes'
      BY <1>2, <3>1, <3>2, <3>3 DEF GatePathInv, GateShapes
    <3>5. GateUnposted' /\ GateHeldBack'
      BY <1>2, <3>1, <3>2 DEF GatePathInv, GateInv, GateUnposted,
         GateHeldBack, Gate!Open
    <3>6. GateSeenOpen'
      BY <1>2, <3>1, <3>3 DEF GatePathInv, GateInv, GateSeenOpen
    <3>7. \A u \in Slots, q \in Runs : GateDeferring(u, q)' => GateDeferring(u, q)
      BY <3>1, <3>3 DEF GateDeferring
    <3>8. GateOneDefers'
      BY <1>2, <3>1, <3>2, <3>7 DEF GatePathInv, GateInv, GateOneDefers
    <3>9. GatePubInv'
      BY <1>2, <3>1 DEF GatePathInv, GatePubInv
    <3> QED
      BY <3>4, <3>5, <3>6, <3>8, <3>9 DEF GatePathInv, GateInv
  <2>12. ASSUME NEW t \in Slots, Gate!RecordSchedule(t)
         PROVE  GatePathInv'
    BY <1>2, <2>12, GateScheduleKeeps
  <2>13. CASE (\E r \in Runs : Gate!PickDue(r)) \/ Gate!PostDue \/ Gate!PostDueFails
      \/ Gate!MarkPublished
    BY <1>2, <2>13, GatePublisherKeeps
  <2>14. CASE Gate!Crash
    <3>1. /\ gatePc' = [t \in Slots |-> "idle"] /\ gateJob' = [t \in Slots |-> Gate!NoJob]
          /\ gatePub' = Gate!Idle /\ UNCHANGED <<gateGate, gateOut, gateSched, gatePrinted>>
      BY <2>14 DEF Gate!Crash, Gate!gateVars
    <3>2. GateShapes'
      BY <1>2, <3>1 DEF GatePathInv, GateShapes, Gate!Idle, GateIsJob,
         Gate!NoJob
    <3>3. GateInv'
      BY <1>2, <3>1 DEF GatePathInv, GateInv, GateUnposted, GateHeldBack,
         GateSeenOpen, GateOneDefers, GateDeferring
    <3>4. GatePubInv'
      BY <1>2, <3>1 DEF GatePathInv, GatePubInv, Gate!Idle
    <3> QED
      BY <3>2, <3>3, <3>4 DEF GatePathInv
  <2>15. CASE \E r \in Runs :
                \/ Gate!NotifyApproval(r) \/ Gate!AgentPublishes(r)
                    \/ Gate!AgentPublishFails(r) \/ Gate!TapRetry(r)
                \/ Gate!TapEdit(r) \/ Gate!TapSchedule(r) \/ Gate!TapCancel(r)
                    \/ Gate!PickDue(r)
                \/ \E t \in Slots : Gate!TapConfirm(t, r)
                \/ \E t \in Slots, act \in {"approve", "reject"} : Gate!TapDecision(t, r, act)
    BY <2>1, <2>2, <2>3, <2>4, <2>13, <2>15
  <2>16. CASE \E t \in Slots :
                \/ Gate!Lookup(t) \/ Gate!LookupFails(t) \/ Gate!Decide(t)
                    \/ Gate!DecideLost(t) \/ Gate!DecideError(t)
                \/ Gate!SystemLookup(t) \/ Gate!AutoApprove(t) \/ Gate!AutoApproveFails(t)
                    \/ Gate!Record(t)
                \/ Gate!RecordEdit(t) \/ Gate!RecordSchedule(t) \/ Gate!TextSession(t)
                    \/ Gate!Rewritten(t) \/ Gate!Close(t)
                \/ Gate!SaveIgText(t) \/ Gate!SubmitEdit(t)
    BY <2>5, <2>6, <2>7, <2>8, <2>9, <2>10, <2>11, <2>12, <2>16
  <2> QED
    BY <1>2, <2>2, <2>13, <2>14, <2>15, <2>16 DEF Gate!Next
<1> QED
  BY <1>1, <1>2, PTL DEF Gate!Spec

\* Once a publication is scheduled, AgentOS's publish tool has not posted the
\* run and never will, whichever buttons were tapped on whichever cards.
THEOREM GateOnePath == Gate!Spec => []Gate!OnePathOut
<1>1. GatePathInv => Gate!OnePathOut
  BY DEF GatePathInv, GateInv, GateUnposted, GateHeldBack, Gate!OnePathOut
<1> QED
  BY <1>1, GatePathInvHolds, PTL

\* The publisher posts a scheduled publication at most once, over restarts
\* and lost answers.
THEOREM GatePostedOnce == Gate!Spec => []Gate!ScheduledOnce
<1>1. GatePathInv => Gate!ScheduledOnce
  BY DEF GatePathInv, GatePubInv, Gate!ScheduledOnce
<1> QED
  BY <1>1, GatePathInvHolds, PTL

-----------------------------------------------------------------------------
(* Types: what the rows, the sessions and the tasks hold.                   *)

\* The bounds are numbers.
GateCounted ==
    MaxGateTaps \in Nat /\ MaxRewrites \in Nat /\ MaxGateFaults \in Nat /\ MaxCrashes \in Nat

\* An edit session of the owner.
GateSession == [run : Runs, base : Gate!Versions, edited : Gate!Versions,
                step : {"feedback", "ig", "google", "completed"}]

\* What a schedule question is about.
GateAsk == [run : Runs \cup {None}, draft : Gate!Versions]

\* What a background task holds, and where it may be.
GateTaskJob == [act : {"none", "approve", "reject", "defer", "submit", "feedback"},
                run : Runs \cup {None}, draft : Gate!Versions,
                seen : Gate!Open \cup {"none", "released", "rejected"}, sid : Nat]

GatePlaces == {"idle", "lookup", "decide", "answered", "auto", "record", "rewriting", "saving",
               "closing"}

\* AgentOS's side and the rows.
GateBridgeTyped ==
    /\ gateGate \in [Runs -> Gate!Open \cup {"none", "released", "failed", "done", "rejected"}]
    /\ gatePayload \in [Runs -> Gate!Versions]

GateRowTyped ==
    /\ gateRow \in [Runs -> {"none", "pending", "approved", "rejected", "scheduled",
                             "published"}]
    /\ gateDraft \in [Runs -> Gate!Versions]

\* The sessions and the two schedule questions.
GateSessionsTyped == gateSessions \in Seq(GateSession)
GateAsksTyped == gateRequest \in GateAsk /\ gateConfirm \in GateAsk

\* The publisher has a run in hand while it is not idle.
GatePubTyped ==
    /\ gateSched \in [Runs -> {"none", "pending", "publishing", "published", "failed"}]
    /\ gatePub \in [run : Runs \cup {None}, at : {"idle", "posting", "posted", "failed"}]
    /\ gatePrinted \in [Runs -> Nat]
    /\ gatePub.at # "idle" => gatePub.run \in Runs

\* So has a task that was started.
GateTasksTyped ==
    /\ gatePc \in [Slots -> GatePlaces] /\ gateJob \in [Slots -> GateTaskJob]
    /\ \A t \in Slots : gatePc[t] # "idle" => gateJob[t].run \in Runs

GateCountsTyped ==
    /\ gateVersions \in Gate!Versions /\ gateTaps \in 0..MaxGateTaps
    /\ gateFaults \in 0..MaxGateFaults /\ gateCrashes \in 0..MaxCrashes

GateTyped == GateBridgeTyped /\ GateRowTyped /\ GateSessionsTyped /\ GateAsksTyped
    /\ GatePubTyped /\ GateTasksTyped
             /\ GateCountsTyped /\ gateOut \subseteq Runs

\* They are the type invariant of the model.
LEMMA GateTypedIsTypeOK == GateTyped => Gate!TypeOK
<1>1. GateSessionsTyped => \A i \in 1..Len(gateSessions) : gateSessions[i] \in GateSession
  BY DEF GateSessionsTyped
<1> QED
  BY <1>1 DEF GateTyped, GateBridgeTyped, GateRowTyped, GateAsksTyped,
     GatePubTyped, GateTasksTyped, GateCountsTyped, Gate!TypeOK, GateSession,
     GateAsk, GateTaskJob, GatePlaces

\* A step leaves alone what its frame names.
LEMMA GateFrames ==
    /\ GateBridgeTyped /\ UNCHANGED Gate!gateVars => GateBridgeTyped'
    /\ GateRowTyped /\ UNCHANGED Gate!rowVars => GateRowTyped'
    /\ GateSessionsTyped /\ UNCHANGED gateSessions => GateSessionsTyped'
    /\ GateAsksTyped /\ UNCHANGED Gate!askVars => GateAsksTyped'
    /\ GatePubTyped /\ UNCHANGED Gate!pubVars => GatePubTyped'
    /\ GateTasksTyped /\ UNCHANGED Gate!procVars => GateTasksTyped'
<1>1. GateBridgeTyped /\ UNCHANGED Gate!gateVars => GateBridgeTyped'
  BY DEF Gate!gateVars, GateBridgeTyped
<1>2. GateRowTyped /\ UNCHANGED Gate!rowVars => GateRowTyped'
  BY DEF Gate!rowVars, GateRowTyped
<1>3. GateSessionsTyped /\ UNCHANGED gateSessions => GateSessionsTyped'
  BY DEF GateSessionsTyped
<1>4. GateAsksTyped /\ UNCHANGED Gate!askVars => GateAsksTyped'
  BY DEF Gate!askVars, GateAsksTyped
<1>5. GatePubTyped /\ UNCHANGED Gate!pubVars => GatePubTyped'
  BY DEF Gate!pubVars, GatePubTyped
<1>6. GateTasksTyped /\ UNCHANGED Gate!procVars => GateTasksTyped'
  BY DEF Gate!procVars, GateTasksTyped
<1> QED
  BY <1>1, <1>2, <1>3, <1>4, <1>5, <1>6

\* A step counts a tap, a fault or nothing.
LEMMA GateCounts ==
    ASSUME GateCounted, GateCountsTyped
    PROVE  Gate!Tapped \/ Gate!Fault \/ Gate!NoCount => GateCountsTyped'
  BY DEF GateCounted, GateCountsTyped, Gate!Tapped, Gate!Fault, Gate!NoCount,
     Gate!Versions

\* A task moves on with a job that has a run, or is idle.
LEMMA GateTaskSteps ==
    ASSUME GateTasksTyped, NEW t \in Slots, NEW at \in GatePlaces, NEW j \in GateTaskJob,
           at # "idle" => j.run \in Runs,
           gatePc' = [gatePc EXCEPT ![t] = at], gateJob' = [gateJob EXCEPT ![t] = j]
    PROVE  GateTasksTyped'
<1>1. gatePc' \in [Slots -> GatePlaces] /\ gateJob' \in [Slots -> GateTaskJob]
  BY DEF GateTasksTyped
<1>2. ASSUME NEW u \in Slots, gatePc'[u] # "idle"
      PROVE  gateJob'[u].run \in Runs
  <2>1. CASE u = t
    BY <1>2, <2>1 DEF GateTasksTyped
  <2>2. CASE u # t
    BY <1>2, <2>2 DEF GateTasksTyped
  <2> QED
    BY <2>1, <2>2
<1> QED
  BY <1>1, <1>2 DEF GateTasksTyped

\* What a task holds once it has answered is a job without a run.
LEMMA GateNoJobIsTyped == ASSUME GateCounted PROVE Gate!NoJob \in GateTaskJob
    /\ 0 \in Gate!Versions
  BY DEF GateCounted, Gate!NoJob, GateTaskJob, Gate!Versions, Gate!Open

\* The steps of a task in terms of the job it holds.
LEMMA GateTaskMoving ==
    ASSUME GateCounted, GateTasksTyped, NEW t \in Slots
    PROVE  /\ Gate!Return(t) => GateTasksTyped'
           /\ \A at \in GatePlaces \ {"idle"} : gatePc[t] # "idle" /\ Gate!GoTo(t, at)
               => GateTasksTyped'
           /\ \A at \in GatePlaces, j \in GateTaskJob : j.run \in Runs /\ Gate!Start(t, at, j)
               => GateTasksTyped'
<1>1. ASSUME Gate!Return(t)
      PROVE  GateTasksTyped'
  BY <1>1, GateNoJobIsTyped, GateTaskSteps DEF Gate!Return, GatePlaces
<1>2. ASSUME NEW at \in GatePlaces \ {"idle"}, gatePc[t] # "idle", Gate!GoTo(t, at)
      PROVE  GateTasksTyped'
  <2>1. gateJob' = [gateJob EXCEPT ![t] = gateJob[t]] /\ gateJob[t] \in GateTaskJob
      /\ gateJob[t].run \in Runs
    BY <1>2 DEF Gate!GoTo, GateTasksTyped
  <2> QED
    BY <1>2, <2>1, GateTaskSteps DEF Gate!GoTo
<1>3. ASSUME NEW at \in GatePlaces, NEW j \in GateTaskJob, j.run \in Runs, Gate!Start(t, at, j)
      PROVE  GateTasksTyped'
  BY <1>3, GateTaskSteps DEF Gate!Start
<1> QED
  BY <1>1, <1>2, <1>3

\* The latest open session is one of them: sessions are numbered, so the set of
\* the open ones has a greatest number.
LEMMA GateActiveIsOpen ==
    ASSUME GateSessionsTyped, Gate!OpenSessions # {}
    PROVE  Gate!ActiveSession \in Gate!OpenSessions
<1> DEFINE n == Len(gateSessions)
           T == {m \in Nat : m <= n /\ n - m \in Gate!OpenSessions}
<1>1. n \in Nat /\ Gate!OpenSessions \subseteq 1..n
  BY DEF GateSessionsTyped, Gate!OpenSessions
<1> HIDE DEF n
<1>2. \A k \in Gate!OpenSessions : k \in Nat /\ n - k \in T
  <2> SUFFICES ASSUME NEW k \in Gate!OpenSessions
               PROVE  k \in Nat /\ n - k \in T
    OBVIOUS
  <2>1. k \in Nat /\ k <= n
    BY <1>1
  <2>2. n - k \in Nat /\ n - k <= n /\ n - (n - k) = k
    BY <1>1, <2>1
  <2> QED
    BY <2>1, <2>2
<1>3. T # {} /\ T \in SUBSET Nat
  BY <1>2
<1>4. PICK m \in T : \A k \in T : m <= k
  BY <1>3, LeastNumber
<1>5. n - m \in Gate!OpenSessions
  OBVIOUS
<1>6. ASSUME NEW k \in Gate!OpenSessions
      PROVE  k <= n - m
  <2>1. m <= n - k /\ k \in Nat /\ m \in Nat
    BY <1>2, <1>4
  <2> QED
    BY <1>1, <2>1
<1> QED
  BY <1>5, <1>6 DEF Gate!ActiveSession

\* A session is changed field by field.
LEMMA GateSessionFields ==
    ASSUME NEW s \in GateSession, NEW v \in Gate!Versions
    PROVE  /\ [s EXCEPT !.step = "completed"] \in GateSession
           /\ [s EXCEPT !.edited = v, !.step = "google"] \in GateSession
  BY DEF GateSession

\* A list of sessions with one replaced is a list of sessions.
LEMMA GateSessionPut ==
    ASSUME GateSessionsTyped, NEW i \in 1..Len(gateSessions), NEW s \in GateSession,
           gateSessions' = [gateSessions EXCEPT ![i] = s]
    PROVE  GateSessionsTyped'
  BY DEF GateSessionsTyped

\* Changing one leaves the list one of sessions.
LEMMA GateSessionChanged ==
    ASSUME GateSessionsTyped, NEW i,
           \/ gateSessions' = [gateSessions EXCEPT ![i].step = "completed"]
           \/ \E v \in Gate!Versions :
                 gateSessions' = [gateSessions EXCEPT ![i].edited = v, ![i].step = "google"]
    PROVE  GateSessionsTyped'
<1>0. DOMAIN gateSessions = 1..Len(gateSessions)
  BY DEF GateSessionsTyped
<1>1. CASE i \in 1..Len(gateSessions)
  <2>1. gateSessions[i] \in GateSession
    BY <1>1 DEF GateSessionsTyped
  <2>2. CASE gateSessions' = [gateSessions EXCEPT ![i].step = "completed"]
    <3>1. gateSessions' = [gateSessions EXCEPT ![i] = [gateSessions[i] EXCEPT !.step = "completed"]]
      BY <1>0, <1>1, <2>2
    <3>2. [gateSessions[i] EXCEPT !.step = "completed"] \in GateSession
      BY <2>1 DEF GateSession
    <3> QED
      BY <1>1, <3>1, <3>2, GateSessionPut
  <2>3. CASE \E v \in Gate!Versions :
                gateSessions' = [gateSessions EXCEPT ![i].edited = v, ![i].step = "google"]
    <3>1. PICK v \in Gate!Versions :
             gateSessions' = [gateSessions EXCEPT ![i].edited = v, ![i].step = "google"]
      BY <2>3
    <3>2. gateSessions' = [gateSessions EXCEPT ![i] = [gateSessions[i] EXCEPT !.edited = v,
                                                       !.step = "google"]]
      BY <1>0, <1>1, <3>1
    <3>3. [gateSessions[i] EXCEPT !.edited = v, !.step = "google"] \in GateSession
      BY <2>1, GateSessionFields
    <3> QED
      BY <1>1, <3>2, <3>3, GateSessionPut
  <2> QED
    BY <2>2, <2>3
<1>2. CASE i \notin 1..Len(gateSessions)
  <2>1. gateSessions = [k \in 1..Len(gateSessions) |-> gateSessions[k]]
    BY DEF GateSessionsTyped
  <2>2. ASSUME NEW s, gateSessions' = [gateSessions EXCEPT ![i] = s]
        PROVE  gateSessions' = gateSessions
    BY <1>2, <2>1, <2>2
  <2>3. gateSessions' = gateSessions
    BY <2>2
  <2> QED
    BY <2>3 DEF GateSessionsTyped
<1> QED
  BY <1>1, <1>2

\* AgentOS's gate moves to an open checkpoint or an outcome.
LEMMA GateMoved ==
    ASSUME GateBridgeTyped, NEW r \in Runs,
           NEW g \in Gate!Open \cup {"none", "released", "failed", "done", "rejected"},
           gateGate' = [gateGate EXCEPT ![r] = g], UNCHANGED gatePayload
    PROVE  GateBridgeTyped'
  BY DEF GateBridgeTyped

\* A decision writes one outcome and the draft it carries.
LEMMA GateDecisionTyped ==
    ASSUME GateBridgeTyped, NEW t \in Slots, gateJob[t] \in GateTaskJob,
           gateJob[t].run \in Runs, Gate!Decides(t)
    PROVE  GateBridgeTyped'
        /\ gateGate'[gateJob[t].run] \in Gate!Open \cup {"none", "released", "rejected"}
<1> DEFINE r == gateJob[t].run
<1>1. CASE gateJob[t].act \in {"approve", "submit"}
  <2>1. PICK g \in {"system", "released"} : gateGate' = [gateGate EXCEPT ![r] = g]
    BY <1>1 DEF Gate!Decides
  <2>2. gatePayload' = [gatePayload EXCEPT ![r] = gateJob[t].draft]
      /\ gateJob[t].draft \in Gate!Versions
    BY <1>1 DEF Gate!Decides, GateTaskJob
  <2> HIDE DEF r
  <2>3. r \in Runs
    BY DEF r
  <2> QED
    BY <2>1, <2>2, <2>3 DEF GateBridgeTyped, Gate!Open, r
<1>2. CASE gateJob[t].act \notin {"approve", "submit"}
  <2>1. gateGate' = [gateGate EXCEPT ![r] = "rejected"] /\ UNCHANGED gatePayload
    BY <1>2 DEF Gate!Decides
  <2> QED
    BY <2>1 DEF GateBridgeTyped
<1> QED
  BY <1>1, <1>2

\* A row is written.
LEMMA GateRowMoved ==
    ASSUME GateRowTyped, NEW r \in Runs,
           NEW s \in {"none", "pending", "approved", "rejected", "scheduled", "published"},
           gateRow' = [gateRow EXCEPT ![r] = s], UNCHANGED gateDraft
    PROVE  GateRowTyped'
  BY DEF GateRowTyped

\* The decision on a card is written into its row.
LEMMA GateVerdictTyped ==
    ASSUME GateRowTyped, NEW r \in Runs, NEW v \in {"approved", "rejected", "scheduled"},
           Gate!DecideRow(r, v), UNCHANGED gateDraft
    PROVE  GateRowTyped'
  BY GateRowMoved DEF Gate!DecideRow

\* Every step leaves every variable in its set.
LEMMA GateTypedKept ==
    ASSUME GateCounted, GateTyped, [Gate!Next]_(Gate!vars)
    PROVE  GateTyped'
<1> USE DEF GateTyped
<1>0. /\ Gate!Tapped \/ Gate!Fault \/ Gate!NoCount => GateCountsTyped'
      /\ Gate!NoJob \in GateTaskJob /\ 0 \in Gate!Versions
      /\ \A t \in Slots : /\ gateJob[t] \in GateTaskJob /\ gatePc[t] \in GatePlaces
                          /\ gatePc[t] # "idle" => gateJob[t].run \in Runs
  BY GateCounts, GateNoJobIsTyped DEF GateTasksTyped
<1>1. ASSUME NEW r \in Runs, Gate!NotifyApproval(r)
      PROVE  GateTyped'
  <2>1. GateBridgeTyped'
    BY <1>1, GateMoved DEF Gate!NotifyApproval, Gate!Open
  <2>2. GateRowTyped'
    BY <1>1, GateRowMoved DEF Gate!NotifyApproval
  <2> QED
    BY <1>0, <1>1, <2>1, <2>2, GateFrames DEF Gate!NotifyApproval
<1>2. ASSUME NEW r \in Runs, Gate!AgentPublishes(r)
      PROVE  GateTyped'
  <2>1. GateBridgeTyped'
    BY <1>2, GateMoved DEF Gate!AgentPublishes, Gate!Open
  <2>2. GateRowTyped'
    BY <1>2, GateRowMoved DEF Gate!AgentPublishes
  <2> QED
    BY <1>0, <1>2, <2>1, <2>2, GateFrames DEF Gate!AgentPublishes
<1>3. ASSUME NEW r \in Runs, Gate!AgentPublishFails(r) \/ Gate!TapRetry(r)
      PROVE  GateTyped'
  <2>1. GateBridgeTyped'
    BY <1>3, GateMoved DEF Gate!AgentPublishFails, Gate!TapRetry, Gate!Open
  <2> QED
    BY <1>0, <1>3, <2>1, GateFrames DEF Gate!AgentPublishFails, Gate!TapRetry
<1>4. ASSUME NEW r \in Runs, Gate!TapEdit(r)
      PROVE  GateTyped'
  <2>1. [run |-> r, base |-> gateDraft[r], edited |-> 0, step |-> "feedback"] \in GateSession
    BY <1>0 DEF GateSession, GateRowTyped
  <2>2. GateSessionsTyped'
    BY <1>4, <2>1 DEF Gate!TapEdit, GateSessionsTyped
  <2>3. GateAsksTyped'
    BY <1>0, <1>4 DEF Gate!TapEdit, Gate!ClearContexts, GateAsksTyped,
       GateAsk, Gate!Nothing
  <2> QED
    BY <1>0, <1>4, <2>2, <2>3, GateFrames DEF Gate!TapEdit
<1>5. ASSUME NEW r \in Runs, Gate!TapSchedule(r)
      PROVE  GateTyped'
  <2>1. GateAsksTyped'
    BY <1>0, <1>5 DEF Gate!TapSchedule, GateAsksTyped, GateAsk, Gate!Nothing,
       GateRowTyped
  <2> QED
    BY <1>0, <1>5, <2>1, GateFrames DEF Gate!TapSchedule
<1>6. ASSUME NEW r \in Runs, Gate!TapCancel(r)
      PROVE  GateTyped'
  <2>1. GateAsksTyped'
    BY <1>0, <1>6 DEF Gate!TapCancel, GateAsksTyped, GateAsk, Gate!Nothing
  <2> QED
    BY <1>0, <1>6, <2>1, GateFrames DEF Gate!TapCancel
<1>7. ASSUME NEW r \in Runs, Gate!PickDue(r)
      PROVE  GateTyped'
  <2>1. GatePubTyped'
    BY <1>7 DEF Gate!PickDue, GatePubTyped
  <2> QED
    BY <1>0, <1>7, <2>1, GateFrames DEF Gate!PickDue
<1>8. ASSUME NEW t \in Slots, NEW r \in Runs, Gate!TapConfirm(t, r)
      PROVE  GateTyped'
  <2> DEFINE j == [Gate!NoJob EXCEPT !.act = "defer", !.run = r, !.draft = gateConfirm.draft]
  <2>1. j \in GateTaskJob /\ j.run \in Runs
    BY <1>0 DEF GateAsksTyped, GateAsk, GateTaskJob, Gate!NoJob
  <2>2. Gate!Start(t, "lookup", j)
    BY <1>8 DEF Gate!TapConfirm
  <2>3. GateTasksTyped'
    <3> HIDE DEF j
    <3> QED
      BY <2>1, <2>2, GateTaskMoving DEF GatePlaces
  <2> QED
    BY <1>0, <1>8, <2>3, GateFrames DEF Gate!TapConfirm
<1>9. ASSUME NEW t \in Slots, NEW r \in Runs, NEW act \in {"approve", "reject"},
             Gate!TapDecision(t, r, act)
      PROVE  GateTyped'
  <2> DEFINE j == [Gate!NoJob EXCEPT !.act = act, !.run = r]
  <2>1. j \in GateTaskJob /\ j.run \in Runs
    BY <1>0 DEF GateTaskJob, Gate!NoJob
  <2>2. Gate!Start(t, "lookup", j)
    BY <1>9 DEF Gate!TapDecision
  <2>3. GateTasksTyped'
    <3> HIDE DEF j
    <3> QED
      BY <2>1, <2>2, GateTaskMoving DEF GatePlaces
  <2>4. GateAsksTyped'
    BY <1>0, <1>9 DEF Gate!TapDecision, Gate!ClearContexts, GateAsksTyped,
       GateAsk, Gate!Nothing
  <2> QED
    BY <1>0, <1>9, <2>3, <2>4, GateFrames DEF Gate!TapDecision
<1>10. ASSUME NEW t \in Slots, Gate!Lookup(t)
       PROVE  GateTyped'
  <2>1. gatePc[t] # "idle" /\ gateJob[t].run \in Runs
    BY <1>0, <1>10 DEF Gate!Lookup
  <2>2. GateTasksTyped'
    <3>1. CASE gateGate[gateJob[t].run] \in Gate!Open
      <4> DEFINE d == IF gateJob[t].act = "approve" THEN gateDraft[gateJob[t].run] ELSE gateJob[t].draft
                 j == [gateJob[t] EXCEPT !.seen = gateGate[gateJob[t].run], !.draft = d]
      <4>1. d \in Gate!Versions
        BY <1>0, <2>1 DEF GateTaskJob, GateRowTyped
      <4>2. gatePc' = [gatePc EXCEPT ![t] = "decide"] /\ gateJob' = [gateJob EXCEPT ![t] = j]
        BY <1>10, <3>1 DEF Gate!Lookup, GateTasksTyped
      <4> HIDE DEF d
      <4>3. j \in GateTaskJob /\ j.run \in Runs
        BY <1>0, <2>1, <3>1, <4>1 DEF GateTaskJob
      <4> HIDE DEF j
      <4> QED
        BY <4>2, <4>3, GateTaskSteps DEF GatePlaces
    <3>2. CASE gateGate[gateJob[t].run] \notin Gate!Open
      BY <1>10, <3>2, GateTaskMoving DEF Gate!Lookup
    <3> QED
      BY <3>1, <3>2
  <2> QED
    BY <1>0, <1>10, <2>2, GateFrames DEF Gate!Lookup
<1>11. ASSUME NEW t \in Slots, Gate!LookupFails(t) \/ Gate!DecideError(t)
       PROVE  GateTyped'
  <2>1. GateTasksTyped'
    BY <1>11, GateTaskMoving DEF Gate!LookupFails, Gate!DecideError
  <2> QED
    BY <1>0, <1>11, <2>1, GateFrames DEF Gate!LookupFails, Gate!DecideError
<1>12. ASSUME NEW t \in Slots, Gate!Decide(t)
       PROVE  GateTyped'
  <2>1. gateJob[t].run \in Runs
    BY <1>0, <1>12 DEF Gate!Decide
  <2>2. GateBridgeTyped'
      /\ gateGate'[gateJob[t].run] \in Gate!Open \cup {"none", "released", "rejected"}
    BY <1>0, <1>12, <2>1, GateDecisionTyped DEF Gate!Decide
  <2> DEFINE j == [gateJob[t] EXCEPT !.seen = gateGate'[gateJob[t].run]]
  <2>3. gatePc' = [gatePc EXCEPT ![t] = "answered"] /\ gateJob' = [gateJob EXCEPT ![t] = j]
    BY <1>12 DEF Gate!Decide, GateTasksTyped
  <2>4. j \in GateTaskJob /\ j.run \in Runs
    BY <1>0, <2>1, <2>2 DEF GateTaskJob
  <2>5. GateTasksTyped'
    <3> HIDE DEF j
    <3> QED
      BY <2>3, <2>4, GateTaskSteps DEF GatePlaces
  <2> QED
    BY <1>0, <1>12, <2>2, <2>5, GateFrames DEF Gate!Decide
<1>13. ASSUME NEW t \in Slots, Gate!DecideLost(t)
       PROVE  GateTyped'
  <2>1. GateBridgeTyped'
    BY <1>0, <1>13, GateDecisionTyped DEF Gate!DecideLost
  <2>2. GateTasksTyped'
    BY <1>13, GateTaskMoving DEF Gate!DecideLost
  <2> QED
    BY <1>0, <1>13, <2>1, <2>2, GateFrames DEF Gate!DecideLost
<1>14. ASSUME NEW t \in Slots, Gate!SystemLookup(t)
       PROVE  GateTyped'
  <2>1. GateTasksTyped'
    BY <1>14, GateTaskMoving DEF Gate!SystemLookup, GatePlaces
  <2> QED
    BY <1>0, <1>14, <2>1, GateFrames DEF Gate!SystemLookup
<1>15. ASSUME NEW t \in Slots, Gate!AutoApprove(t)
       PROVE  GateTyped'
  <2>1. gateJob[t].run \in Runs
    BY <1>0, <1>15 DEF Gate!AutoApprove
  <2>2. GateBridgeTyped'
    BY <1>15, <2>1 DEF Gate!AutoApprove, GateBridgeTyped, Gate!Open
  <2>3. GateTasksTyped'
    BY <1>15, GateTaskMoving DEF Gate!AutoApprove, GatePlaces
  <2> QED
    BY <1>0, <1>15, <2>2, <2>3, GateFrames DEF Gate!AutoApprove
<1>16. ASSUME NEW t \in Slots, Gate!AutoApproveFails(t)
       PROVE  GateTyped'
  <2>1. GateTasksTyped'
    BY <1>16, GateTaskMoving DEF Gate!AutoApproveFails, GatePlaces
  <2> QED
    BY <1>0, <1>16, <2>1, GateFrames DEF Gate!AutoApproveFails
<1>17. ASSUME NEW t \in Slots, Gate!Record(t)
       PROVE  GateTyped'
  <2>1. gateJob[t].run \in Runs
    BY <1>0, <1>17 DEF Gate!Record
  <2>2. GateRowTyped'
    BY <1>17, <2>1, GateVerdictTyped DEF Gate!Record, Gate!Verdict
  <2>3. GateTasksTyped'
    BY <1>17, GateTaskMoving DEF Gate!Record
  <2> QED
    BY <1>0, <1>17, <2>2, <2>3, GateFrames DEF Gate!Record
<1>18. ASSUME NEW t \in Slots, Gate!RecordEdit(t)
       PROVE  GateTyped'
  <2>1. GateRowTyped'
    BY <1>0, <1>18, GateVerdictTyped DEF Gate!RecordEdit
  <2>2. GateTasksTyped'
    BY <1>18, GateTaskMoving DEF Gate!RecordEdit, GatePlaces
  <2> QED
    BY <1>0, <1>18, <2>1, <2>2, GateFrames DEF Gate!RecordEdit
<1>19. ASSUME NEW t \in Slots, Gate!RecordSchedule(t)
       PROVE  GateTyped'
  <2>1. gateJob[t].run \in Runs
    BY <1>0, <1>19 DEF Gate!RecordSchedule
  <2>2. GateRowTyped'
    BY <1>19, <2>1, GateVerdictTyped DEF Gate!RecordSchedule
  <2>3. GateTasksTyped'
    BY <1>19, GateTaskMoving DEF Gate!RecordSchedule
  <2>4. GateAsksTyped'
    BY <1>0, <1>19 DEF Gate!RecordSchedule, Gate!ClearContexts, GateAsksTyped,
       GateAsk, Gate!Nothing
  <2>5. GatePubTyped'
    BY <1>19, <2>1 DEF Gate!RecordSchedule, GatePubTyped
  <2> QED
    BY <1>0, <1>19, <2>2, <2>3, <2>4, <2>5, GateFrames DEF Gate!RecordSchedule
<1>20. ASSUME NEW t \in Slots, Gate!TextSession(t)
       PROVE  GateTyped'
  <2> DEFINE i == Gate!ActiveSession
             s == gateSessions[i]
             at == IF s.step = "feedback" THEN "rewriting" ELSE "saving"
             j == [Gate!NoJob EXCEPT !.act = "feedback", !.run = s.run, !.draft = s.base,
                   !.sid = i]
  <2>1. i \in Nat /\ s \in GateSession
    <3>1. i \in Gate!OpenSessions
      BY <1>20, GateActiveIsOpen DEF Gate!TextSession
    <3> HIDE DEF i
    <3> QED
      BY <3>1 DEF Gate!OpenSessions, GateSessionsTyped
  <2>2. Gate!Start(t, at, j)
    BY <1>20 DEF Gate!TextSession
  <2> HIDE DEF i, s
  <2>3. j \in GateTaskJob /\ j.run \in Runs
    BY <1>0, <2>1 DEF GateTaskJob, Gate!NoJob, GateSession
  <2>4. GateTasksTyped'
    <3> HIDE DEF j
    <3> QED
      BY <2>2, <2>3, GateTaskMoving DEF GatePlaces
  <2> QED
    BY <1>0, <1>20, <2>4, GateFrames DEF Gate!TextSession
<1>21. ASSUME NEW t \in Slots, Gate!Rewritten(t)
       PROVE  GateTyped'
  <2>1. gateJob[t].run \in Runs /\ gateJob[t].draft \in Gate!Versions
    BY <1>0, <1>21 DEF Gate!Rewritten, GateTaskJob
  <2>2. GateCountsTyped'
      /\ \E d \in Gate!Versions : gateDraft' = [gateDraft EXCEPT ![gateJob[t].run] = d]
    <3>1. CASE /\ gateVersions < MaxRewrites /\ gateVersions' = gateVersions + 1
               /\ gateDraft' = [gateDraft EXCEPT ![gateJob[t].run] = gateVersions']
               /\ UNCHANGED <<gateTaps, gateFaults, gateCrashes>>
      <4>1. GateCountsTyped' /\ gateVersions' \in Gate!Versions
        BY <3>1 DEF GateCounted, GateCountsTyped, Gate!Versions
      <4> QED
        BY <3>1, <4>1
    <3>2. CASE gateDraft' = [gateDraft EXCEPT ![gateJob[t].run] = gateJob[t].draft]
        /\ Gate!Fault
      BY <1>0, <2>1, <3>2
    <3> QED
      BY <1>21, <3>1, <3>2 DEF Gate!Rewritten
  <2>3. GateRowTyped'
    BY <1>21, <2>1, <2>2 DEF Gate!Rewritten, GateRowTyped
  <2>4. GateTasksTyped'
    BY <1>21, GateTaskMoving DEF Gate!Rewritten, GatePlaces
  <2> QED
    BY <1>21, <2>2, <2>3, <2>4, GateFrames DEF Gate!Rewritten
<1>22. ASSUME NEW t \in Slots, Gate!Close(t)
       PROVE  GateTyped'
  <2>1. GateSessionsTyped'
    BY <1>22, GateSessionChanged DEF Gate!Close
  <2>2. GateTasksTyped'
    BY <1>22, GateTaskMoving DEF Gate!Close
  <2> QED
    BY <1>0, <1>22, <2>1, <2>2, GateFrames DEF Gate!Close
<1>23. ASSUME NEW t \in Slots, Gate!SaveIgText(t)
       PROVE  GateTyped'
  <2>1. gateJob[t].draft \in Gate!Versions
    BY <1>0 DEF GateTaskJob
  <2>2. GateSessionsTyped' /\ GateCountsTyped'
    <3>1. CASE /\ gateVersions < MaxRewrites /\ gateVersions' = gateVersions + 1
               /\ gateSessions' = [gateSessions EXCEPT ![gateJob[t].sid].edited = gateVersions',
                                                       ![gateJob[t].sid].step = "google"]
               /\ UNCHANGED <<gateTaps, gateFaults, gateCrashes>>
      <4>1. GateCountsTyped' /\ gateVersions' \in Gate!Versions
        BY <3>1 DEF GateCounted, GateCountsTyped, Gate!Versions
      <4> QED
        BY <3>1, <4>1, GateSessionChanged
    <3>2. CASE /\ gateSessions' = [gateSessions EXCEPT ![gateJob[t].sid].edited = gateJob[t].draft,
                                                       ![gateJob[t].sid].step = "google"]
               /\ Gate!NoCount
      BY <1>0, <2>1, <3>2, GateSessionChanged
    <3> QED
      BY <1>23, <3>1, <3>2 DEF Gate!SaveIgText, Gate!Edited
  <2>3. GateTasksTyped'
    BY <1>23, GateTaskMoving DEF Gate!SaveIgText
  <2> QED
    BY <1>23, <2>2, <2>3, GateFrames DEF Gate!SaveIgText
<1>24. ASSUME NEW t \in Slots, Gate!SubmitEdit(t)
       PROVE  GateTyped'
  <2> DEFINE d == IF Gate!OpenSessions = {} THEN gateJob[t].draft ELSE gateSessions[Gate!ActiveSession].edited
             j == [gateJob[t] EXCEPT !.act = "submit", !.draft = d]
  <2>1. gateJob[t] \in GateTaskJob /\ gateJob[t].run \in Runs
    BY <1>0, <1>24 DEF Gate!SubmitEdit
  <2>2. d \in Gate!Versions
    <3>1. CASE Gate!OpenSessions = {}
      BY <2>1, <3>1 DEF GateTaskJob
    <3>2. CASE Gate!OpenSessions # {}
      <4>1. Gate!ActiveSession \in Gate!OpenSessions
        BY <3>2, GateActiveIsOpen
      <4>2. gateSessions[Gate!ActiveSession] \in GateSession
        BY <4>1 DEF Gate!OpenSessions, GateSessionsTyped
      <4>3. gateSessions[Gate!ActiveSession].edited \in Gate!Versions
        BY <4>2 DEF GateSession
      <4> QED
        BY <3>2, <4>3
    <3> QED
      BY <3>1, <3>2
  <2>3. gatePc' = [gatePc EXCEPT ![t] = "lookup"] /\ gateJob' = [gateJob EXCEPT ![t] = j]
    <3> HIDE DEF d
    <3>1. gateJob' = [gateJob EXCEPT ![t].act = "submit", ![t].draft = d]
      BY <1>24 DEF Gate!SubmitEdit, d
    <3> QED
      BY <1>24, <3>1 DEF Gate!SubmitEdit, GateTasksTyped
  <2> HIDE DEF d
  <2>4. j \in GateTaskJob /\ j.run \in Runs
    BY <2>1, <2>2 DEF GateTaskJob
  <2>5. GateTasksTyped'
    <3> HIDE DEF j
    <3> QED
      BY <2>3, <2>4, GateTaskSteps DEF GatePlaces
  <2> QED
    BY <1>0, <1>24, <2>5, GateFrames DEF Gate!SubmitEdit
<1>25. CASE Gate!TextTime
  <2>1. GateAsksTyped'
    BY <1>0, <1>25 DEF Gate!TextTime, GateAsksTyped, GateAsk, Gate!Nothing
  <2> QED
    BY <1>0, <1>25, <2>1, GateFrames DEF Gate!TextTime
<1>26. CASE Gate!PostDue
  <2>1. gatePub.run \in Runs
    BY <1>26 DEF Gate!PostDue, GatePubTyped
  <2>2. GateRowTyped'
    BY <1>26, <2>1, GateRowMoved DEF Gate!PostDue
  <2>3. GatePubTyped'
    BY <1>26, <2>1 DEF Gate!PostDue, GatePubTyped
  <2> QED
    BY <1>0, <1>26, <2>2, <2>3, GateFrames DEF Gate!PostDue
<1>27. CASE Gate!PostDueFails
  <2>1. gatePub.run \in Runs
    BY <1>27 DEF Gate!PostDueFails, GatePubTyped
  <2>2. GateRowTyped'
    BY <1>27, <2>1 DEF Gate!PostDueFails, GateRowTyped
  <2>3. GatePubTyped'
    BY <1>27, <2>1 DEF Gate!PostDueFails, GatePubTyped
  <2> QED
    BY <1>0, <1>27, <2>2, <2>3, GateFrames DEF Gate!PostDueFails
<1>28. CASE Gate!MarkPublished
  <2>1. GatePubTyped'
    BY <1>28 DEF Gate!MarkPublished, GatePubTyped, Gate!Idle
  <2> QED
    BY <1>0, <1>28, <2>1, GateFrames DEF Gate!MarkPublished
<1>29. CASE Gate!Crash
  <2>1. GateTasksTyped'
    BY <1>0, <1>29 DEF Gate!Crash, GateTasksTyped, GatePlaces
  <2>2. GatePubTyped'
    BY <1>29 DEF Gate!Crash, GatePubTyped, Gate!Idle
  <2>3. GateCountsTyped'
    BY <1>29 DEF Gate!Crash, GateCounted, GateCountsTyped
  <2> QED
    BY <1>29, <2>1, <2>2, <2>3, GateFrames DEF Gate!Crash
<1>30. CASE UNCHANGED Gate!vars
  BY <1>0, <1>30, GateFrames DEF Gate!vars, Gate!NoCount
<1> HIDE DEF GateTyped
<1> QED
  BY <1>1, <1>2, <1>3, <1>4, <1>5, <1>6, <1>7, <1>8, <1>9, <1>10, <1>11,
     <1>12, <1>13, <1>14,
     <1>15, <1>16, <1>17, <1>18, <1>19, <1>20, <1>21, <1>22, <1>23, <1>24, <1>25, <1>26, <1>27,
     <1>28, <1>29, <1>30 DEF Gate!Next

\* Every variable of the gate stays in its set.
THEOREM GateTypeCorrect ==
    ASSUME GateCounted
    PROVE  Gate!Spec => []Gate!TypeOK
<1>1. Gate!Init => GateTyped
  <2> SUFFICES ASSUME Gate!Init PROVE GateTyped
    OBVIOUS
  <2>1. 0 \in Gate!Versions /\ Gate!NoJob \in GateTaskJob
    BY GateNoJobIsTyped
  <2>2. PICK old \in Runs \cup {None} :
           /\ gateGate = [r \in Runs |-> IF r = old THEN "user" ELSE "none"]
           /\ gateRow = [r \in Runs |-> IF r = old THEN "pending" ELSE "none"]
           /\ gateSessions = IF old = None THEN << >>
                             ELSE <<[run |-> old, base |-> 0, edited |-> 0, step |-> "ig"]>>
    BY DEF Gate!Init
  <2>3. GateBridgeTyped /\ GateRowTyped
    BY <2>1, <2>2 DEF Gate!Init, GateBridgeTyped, GateRowTyped, Gate!Open
  <2>4. GateSessionsTyped
    <3>1. CASE old = None
      BY <2>2, <3>1 DEF GateSessionsTyped
    <3>2. CASE old # None
      <4>1. [run |-> old, base |-> 0, edited |-> 0, step |-> "ig"] \in GateSession
        BY <2>1, <3>2 DEF GateSession
      <4> QED
        BY <2>2, <3>2, <4>1 DEF GateSessionsTyped
    <3> QED
      BY <3>1, <3>2
  <2>5. GateAsksTyped
    BY <2>1 DEF Gate!Init, GateAsksTyped, GateAsk, Gate!Nothing
  <2>6. GatePubTyped
    BY DEF Gate!Init, GatePubTyped, Gate!Idle
  <2>7. GateTasksTyped
    BY <2>1 DEF Gate!Init, GateTasksTyped, GatePlaces
  <2>8. GateCountsTyped /\ gateOut \subseteq Runs
    BY <2>1 DEF Gate!Init, GateCountsTyped, GateCounted
  <2> QED
    BY <2>3, <2>4, <2>5, <2>6, <2>7, <2>8 DEF GateTyped
<1>2. GateTyped /\ [Gate!Next]_(Gate!vars) => GateTyped'
  BY GateTypedKept
<1> QED
  BY <1>1, <1>2, GateTypedIsTypeOK, PTL DEF Gate!Spec
-----------------------------------------------------------------------------
(* Its dialogue                                                              *)

\* The bounds are numbers.
DialogueBounded == MaxDialogueDeliveries \in Nat /\ MaxDialogueFaults \in Nat
    /\ MaxCrashes \in Nat

\* What a request holds at each of its awaits.
DialogueCarried ==
    /\ \A t \in Slots :
         /\ dialoguePc[t] = "parsing" => dialogueJob[t] \in Photos \X {"none"}
         /\ dialoguePc[t] = "planning" => dialogueJob[t] \in Sentences \X {"none"}
         /\ dialoguePc[t] \in {"creating", "running", "correcting"}
             => dialogueJob[t] \in Dialogue!Decisions
    /\ dialogueDrain.at # "idle"
        => dialogueDrain.item \in Dialogue!Decisions /\ dialogueDeferred[dialogueDrain.item] > 0

\* Every variable is in its set, and so is what the requests hold.
DialogueTypeInv == Dialogue!TypeOK /\ DialogueCarried

\* It holds over deliveries, restarts and the drain loop.
LEMMA DialogueTypeInvHolds ==
    ASSUME DialogueBounded
    PROVE  Dialogue!Spec => []DialogueTypeInv
<1>1. Dialogue!Init => DialogueTypeInv
  <2> USE DEF Dialogue!Init, Dialogue!NoOne
  <2>1. Dialogue!Init => /\ dialogueDeferred \in [Dialogue!Decisions -> Nat]
                            /\ dialogueTasks \in [Dialogue!Decisions -> Nat]
                         /\ dialogueAsked \in [Photos -> Nat]
                         /\ dialogueUsed \in [Photos -> Nat]
    OBVIOUS
  <2>2. Dialogue!Init => /\ dialoguePc \in [Slots -> {"idle", "parsing", "planning", "creating",
                                                      "running", "correcting"}]
                         /\ dialogueJob \in [Slots -> Dialogue!Decisions \cup {Dialogue!NoOne} \cup (Dialogue!Events \X {"none"})]
    OBVIOUS
  <2>3. Dialogue!Init => /\ dialogueDrain \in [item : Dialogue!Decisions \cup {Dialogue!NoOne},
                                               at : {"idle", "creating", "running"}]
                         /\ dialogueAsset \in Photos \cup {None}
                         /\ dialogueIntent \in Dialogue!TextFlows \cup {None}
                         /\ dialogueRecorded \subseteq Dialogue!Decisions
                         /\ dialogueDecided \subseteq Dialogue!Decisions
                         /\ dialogueCut \subseteq Dialogue!Decisions
    OBVIOUS
  <2>4. Dialogue!Init => /\ dialogueDeliveries \in 0..MaxDialogueDeliveries
                         /\ dialogueFaults \in 0..MaxDialogueFaults
                         /\ dialogueCrashes \in 0..MaxCrashes
    BY DEF DialogueBounded
  <2>5. Dialogue!Init => DialogueCarried
    BY DEF DialogueCarried
  <2> QED
    BY <2>1, <2>2, <2>3, <2>4, <2>5 DEF DialogueTypeInv, Dialogue!TypeOK
<1>2. ASSUME DialogueTypeInv, [Dialogue!Next]_(Dialogue!vars)
      PROVE  DialogueTypeInv'
  <2> USE DEF DialogueTypeInv, Dialogue!TypeOK, DialogueCarried, Dialogue!NoOne,
              Dialogue!Decisions, Dialogue!Events, Dialogue!TextFlows, DialogueBounded,
              Dialogue!askVars, Dialogue!procVars, Dialogue!queueVars, Dialogue!histVars,
              Dialogue!bounds
  <2>1. ASSUME NEW t \in Slots, NEW p \in Photos, Dialogue!PhotoArrives(t, p)
        PROVE  DialogueTypeInv'
    BY <1>2, <2>1 DEF Dialogue!PhotoArrives, Dialogue!Delivered, Dialogue!Take
  <2>2. ASSUME NEW t \in Slots, NEW x \in Sentences, Dialogue!TextAnswersIntent(t, x)
        PROVE  DialogueTypeInv'
    BY <1>2, <2>2 DEF Dialogue!TextAnswersIntent, Dialogue!Delivered,
       Dialogue!Dispatch, Dialogue!Take
  <2>3. ASSUME NEW t \in Slots, NEW x \in Sentences, Dialogue!TextArrives(t, x)
        PROVE  DialogueTypeInv'
    BY <1>2, <2>3 DEF Dialogue!TextArrives, Dialogue!Delivered, Dialogue!Take
  <2>4. ASSUME NEW t \in Slots, Dialogue!PhotoParsed(t)
        PROVE  DialogueTypeInv'
    BY <1>2, <2>4 DEF Dialogue!PhotoParsed, Dialogue!Return, Dialogue!Take,
       Dialogue!NoCount
  <2>5. ASSUME NEW t \in Slots, Dialogue!PhotoLost(t)
        PROVE  DialogueTypeInv'
    BY <1>2, <2>5 DEF Dialogue!PhotoLost, Dialogue!Return, Dialogue!Take,
       Dialogue!Fault
  <2>6. ASSUME NEW t \in Slots, Dialogue!TapAsset(t)
        PROVE  DialogueTypeInv'
    BY <1>2, <2>6 DEF Dialogue!TapAsset, Dialogue!Delivered,
       Dialogue!AnswerAsset, Dialogue!Dispatch, Dialogue!Take
  <2>7. ASSUME NEW t \in Slots, Dialogue!TextAnswersAsset(t)
        PROVE  DialogueTypeInv'
    BY <1>2, <2>7 DEF Dialogue!TextAnswersAsset, Dialogue!Delivered,
       Dialogue!AnswerAsset, Dialogue!Dispatch, Dialogue!Take
  <2>8. ASSUME NEW t \in Slots, Dialogue!Planned(t)
        PROVE  DialogueTypeInv'
    BY <1>2, <2>8 DEF Dialogue!Planned, Dialogue!Dispatch, Dialogue!Return,
       Dialogue!Take, Dialogue!NoCount
  <2>9. ASSUME NEW t \in Slots, Dialogue!CreateTask(t)
        PROVE  DialogueTypeInv'
    BY <1>2, <2>9 DEF Dialogue!CreateTask, Dialogue!Creates, Dialogue!GoTo,
       Dialogue!NoCount
  <2>10. ASSUME NEW t \in Slots, Dialogue!RunTask(t)
        PROVE  DialogueTypeInv'
    BY <1>2, <2>10 DEF Dialogue!RunTask, Dialogue!GoTo, Dialogue!Return,
       Dialogue!Take, Dialogue!NoCount
  <2>11. ASSUME NEW t \in Slots, Dialogue!Corrected(t)
        PROVE  DialogueTypeInv'
    BY <1>2, <2>11 DEF Dialogue!Corrected, Dialogue!Return, Dialogue!Take,
       Dialogue!NoCount
  <2>12. ASSUME NEW t \in Slots, Dialogue!DispatchFails(t)
        PROVE  DialogueTypeInv'
    BY <1>2, <2>12 DEF Dialogue!DispatchFails, Dialogue!Fault,
       Dialogue!Creates, Dialogue!Return, Dialogue!Take
  <2>13. ASSUME NEW d \in Dialogue!Decisions, Dialogue!DrainPick(d)
        PROVE  DialogueTypeInv'
    BY <1>2, <2>13 DEF Dialogue!DrainPick, Dialogue!NoCount
  <2>14. CASE Dialogue!ContextExpires
    BY <1>2, <2>14 DEF Dialogue!ContextExpires, Dialogue!NoCount
  <2>15. CASE Dialogue!DrainCreate
    BY <1>2, <2>15 DEF Dialogue!DrainCreate, Dialogue!Creates,
       Dialogue!NoCount
  <2>16. CASE Dialogue!DrainRun
    BY <1>2, <2>16 DEF Dialogue!DrainRun, Dialogue!NoCount
  <2>17. CASE Dialogue!DrainFails
    BY <1>2, <2>17 DEF Dialogue!DrainFails, Dialogue!Fault, Dialogue!Creates
  <2>18. CASE Dialogue!Crash
    BY <1>2, <2>18 DEF Dialogue!Crash, Dialogue!InFlight
  <2>19. CASE UNCHANGED Dialogue!vars
    BY <1>2, <2>19 DEF Dialogue!vars
  <2> QED
    BY <1>2, <2>1, <2>2, <2>3, <2>4, <2>5, <2>6, <2>7, <2>8, <2>9, <2>10,
       <2>11,
       <2>12, <2>13, <2>14, <2>15, <2>16, <2>17, <2>18, <2>19 DEF Dialogue!Next
<1> QED
  BY <1>1, <1>2, PTL DEF Dialogue!Spec

\* What is pushed again after a correction was recorded before.
DialoguePushed ==
    \A t \in Slots : dialoguePc[t] = "correcting" => dialogueJob[t] \in dialogueRecorded

\* The inductive invariant of decisions.
DialogueDecisionInv == DialoguePushed /\ Dialogue!NoDecisionDropped

\* Every decision is dispatched, waits or is recorded, whatever fails.
LEMMA DialogueDecisionInvHolds ==
    ASSUME DialogueBounded
    PROVE  Dialogue!Spec => []DialogueDecisionInv
<1>1. Dialogue!Init => DialogueDecisionInv
  BY DEF Dialogue!Init, DialogueDecisionInv, DialoguePushed,
     Dialogue!NoDecisionDropped, Dialogue!NoOne
<1>2. ASSUME DialogueTypeInv, DialogueDecisionInv, [Dialogue!Next]_(Dialogue!vars)
      PROVE  DialogueDecisionInv'
  <2> USE DEF DialogueDecisionInv, DialoguePushed, Dialogue!NoDecisionDropped,
              Dialogue!InFlight, DialogueTypeInv, Dialogue!TypeOK, DialogueCarried,
              Dialogue!NoOne, Dialogue!Decisions, Dialogue!Events, Dialogue!TextFlows,
              Dialogue!askVars, Dialogue!procVars, Dialogue!queueVars, Dialogue!histVars,
              Dialogue!bounds
  <2>1. ASSUME NEW t \in Slots, NEW p \in Photos, Dialogue!PhotoArrives(t, p)
        PROVE  DialogueDecisionInv'
    BY <1>2, <2>1 DEF Dialogue!PhotoArrives, Dialogue!Delivered, Dialogue!Take
  <2>2. ASSUME NEW t \in Slots, NEW x \in Sentences, Dialogue!TextAnswersIntent(t, x)
        PROVE  DialogueDecisionInv'
    BY <1>2, <2>2 DEF Dialogue!TextAnswersIntent, Dialogue!Delivered,
       Dialogue!Dispatch, Dialogue!Take
  <2>3. ASSUME NEW t \in Slots, NEW x \in Sentences, Dialogue!TextArrives(t, x)
        PROVE  DialogueDecisionInv'
    BY <1>2, <2>3 DEF Dialogue!TextArrives, Dialogue!Delivered, Dialogue!Take
  <2>4. ASSUME NEW t \in Slots, Dialogue!PhotoParsed(t)
        PROVE  DialogueDecisionInv'
    BY <1>2, <2>4 DEF Dialogue!PhotoParsed, Dialogue!Return, Dialogue!Take,
       Dialogue!NoCount
  <2>5. ASSUME NEW t \in Slots, Dialogue!PhotoLost(t)
        PROVE  DialogueDecisionInv'
    BY <1>2, <2>5 DEF Dialogue!PhotoLost, Dialogue!Return, Dialogue!Take,
       Dialogue!Fault
  <2>6. ASSUME NEW t \in Slots, Dialogue!TapAsset(t)
        PROVE  DialogueDecisionInv'
    BY <1>2, <2>6 DEF Dialogue!TapAsset, Dialogue!Delivered,
       Dialogue!AnswerAsset, Dialogue!Dispatch, Dialogue!Take
  <2>7. ASSUME NEW t \in Slots, Dialogue!TextAnswersAsset(t)
        PROVE  DialogueDecisionInv'
    BY <1>2, <2>7 DEF Dialogue!TextAnswersAsset, Dialogue!Delivered,
       Dialogue!AnswerAsset, Dialogue!Dispatch, Dialogue!Take
  <2>8. ASSUME NEW t \in Slots, Dialogue!Planned(t)
        PROVE  DialogueDecisionInv'
    BY <1>2, <2>8 DEF Dialogue!Planned, Dialogue!Dispatch, Dialogue!Return,
       Dialogue!Take, Dialogue!NoCount
  <2>9. ASSUME NEW t \in Slots, Dialogue!CreateTask(t)
        PROVE  DialogueDecisionInv'
    BY <1>2, <2>9 DEF Dialogue!CreateTask, Dialogue!Creates, Dialogue!GoTo,
       Dialogue!NoCount
  <2>10. ASSUME NEW t \in Slots, Dialogue!RunTask(t)
        PROVE  DialogueDecisionInv'
    BY <1>2, <2>10 DEF Dialogue!RunTask, Dialogue!GoTo, Dialogue!Return,
       Dialogue!Take, Dialogue!NoCount
  <2>11. ASSUME NEW t \in Slots, Dialogue!Corrected(t)
        PROVE  DialogueDecisionInv'
    BY <1>2, <2>11 DEF Dialogue!Corrected, Dialogue!Return, Dialogue!Take,
       Dialogue!NoCount
  <2>12. ASSUME NEW t \in Slots, Dialogue!DispatchFails(t)
        PROVE  DialogueDecisionInv'
    BY <1>2, <2>12 DEF Dialogue!DispatchFails, Dialogue!Fault,
       Dialogue!Creates, Dialogue!Return, Dialogue!Take
  <2>13. ASSUME NEW d \in Dialogue!Decisions, Dialogue!DrainPick(d)
        PROVE  DialogueDecisionInv'
    BY <1>2, <2>13 DEF Dialogue!DrainPick, Dialogue!NoCount
  <2>14. CASE Dialogue!ContextExpires
    BY <1>2, <2>14 DEF Dialogue!ContextExpires, Dialogue!NoCount
  <2>15. CASE Dialogue!DrainCreate
    BY <1>2, <2>15 DEF Dialogue!DrainCreate, Dialogue!Creates,
       Dialogue!NoCount
  <2>16. CASE Dialogue!DrainRun
    BY <1>2, <2>16 DEF Dialogue!DrainRun, Dialogue!NoCount
  <2>17. CASE Dialogue!DrainFails
    BY <1>2, <2>17 DEF Dialogue!DrainFails, Dialogue!Fault, Dialogue!Creates
  <2>18. CASE Dialogue!Crash
    BY <1>2, <2>18 DEF Dialogue!Crash, Dialogue!InFlight
  <2>19. CASE UNCHANGED Dialogue!vars
    BY <1>2, <2>19 DEF Dialogue!vars
  <2> QED
    BY <1>2, <2>1, <2>2, <2>3, <2>4, <2>5, <2>6, <2>7, <2>8, <2>9, <2>10,
       <2>11,
       <2>12, <2>13, <2>14, <2>15, <2>16, <2>17, <2>18, <2>19 DEF Dialogue!Next
<1> QED
  BY <1>1, <1>2, DialogueTypeInvHolds, PTL DEF Dialogue!Spec

\* A decision that carries a key is one task of AgentOS, however often it is
\* drained.
LEMMA DialogueOneTaskHolds ==
    ASSUME DialogueBounded
    PROVE  Dialogue!Spec => []Dialogue!OneTaskPerDecision
<1>1. Dialogue!Init => Dialogue!OneTaskPerDecision
  BY DEF Dialogue!Init, Dialogue!OneTaskPerDecision, Dialogue!Keyed
<1>2. ASSUME DialogueTypeInv, Dialogue!OneTaskPerDecision, [Dialogue!Next]_(Dialogue!vars)
      PROVE  Dialogue!OneTaskPerDecision'
  <2> USE DEF Dialogue!OneTaskPerDecision, Dialogue!Keyed, DialogueTypeInv,
              Dialogue!TypeOK, DialogueCarried, Dialogue!Decisions, Dialogue!TextFlows,
              Dialogue!askVars, Dialogue!procVars, Dialogue!queueVars, Dialogue!histVars,
              Dialogue!bounds
  <2>1. ASSUME NEW t \in Slots, NEW p \in Photos, Dialogue!PhotoArrives(t, p)
        PROVE  Dialogue!OneTaskPerDecision'
    BY <1>2, <2>1 DEF Dialogue!PhotoArrives, Dialogue!Delivered, Dialogue!Take
  <2>2. ASSUME NEW t \in Slots, NEW x \in Sentences, Dialogue!TextAnswersIntent(t, x)
        PROVE  Dialogue!OneTaskPerDecision'
    BY <1>2, <2>2 DEF Dialogue!TextAnswersIntent, Dialogue!Delivered,
       Dialogue!Dispatch, Dialogue!Take
  <2>3. ASSUME NEW t \in Slots, NEW x \in Sentences, Dialogue!TextArrives(t, x)
        PROVE  Dialogue!OneTaskPerDecision'
    BY <1>2, <2>3 DEF Dialogue!TextArrives, Dialogue!Delivered, Dialogue!Take
  <2>4. ASSUME NEW t \in Slots, Dialogue!PhotoParsed(t)
        PROVE  Dialogue!OneTaskPerDecision'
    BY <1>2, <2>4 DEF Dialogue!PhotoParsed, Dialogue!Return, Dialogue!Take,
       Dialogue!NoCount
  <2>5. ASSUME NEW t \in Slots, Dialogue!PhotoLost(t)
        PROVE  Dialogue!OneTaskPerDecision'
    BY <1>2, <2>5 DEF Dialogue!PhotoLost, Dialogue!Return, Dialogue!Take,
       Dialogue!Fault
  <2>6. ASSUME NEW t \in Slots, Dialogue!TapAsset(t)
        PROVE  Dialogue!OneTaskPerDecision'
    BY <1>2, <2>6 DEF Dialogue!TapAsset, Dialogue!Delivered,
       Dialogue!AnswerAsset, Dialogue!Dispatch, Dialogue!Take
  <2>7. ASSUME NEW t \in Slots, Dialogue!TextAnswersAsset(t)
        PROVE  Dialogue!OneTaskPerDecision'
    BY <1>2, <2>7 DEF Dialogue!TextAnswersAsset, Dialogue!Delivered,
       Dialogue!AnswerAsset, Dialogue!Dispatch, Dialogue!Take
  <2>8. ASSUME NEW t \in Slots, Dialogue!Planned(t)
        PROVE  Dialogue!OneTaskPerDecision'
    BY <1>2, <2>8 DEF Dialogue!Planned, Dialogue!Dispatch, Dialogue!Return,
       Dialogue!Take, Dialogue!NoCount
  <2>9. ASSUME NEW t \in Slots, Dialogue!CreateTask(t)
        PROVE  Dialogue!OneTaskPerDecision'
    BY <1>2, <2>9 DEF Dialogue!CreateTask, Dialogue!Creates, Dialogue!GoTo,
       Dialogue!NoCount
  <2>10. ASSUME NEW t \in Slots, Dialogue!RunTask(t)
        PROVE  Dialogue!OneTaskPerDecision'
    BY <1>2, <2>10 DEF Dialogue!RunTask, Dialogue!GoTo, Dialogue!Return,
       Dialogue!Take, Dialogue!NoCount
  <2>11. ASSUME NEW t \in Slots, Dialogue!Corrected(t)
        PROVE  Dialogue!OneTaskPerDecision'
    BY <1>2, <2>11 DEF Dialogue!Corrected, Dialogue!Return, Dialogue!Take,
       Dialogue!NoCount
  <2>12. ASSUME NEW t \in Slots, Dialogue!DispatchFails(t)
        PROVE  Dialogue!OneTaskPerDecision'
    BY <1>2, <2>12 DEF Dialogue!DispatchFails, Dialogue!Fault,
       Dialogue!Creates, Dialogue!Return, Dialogue!Take
  <2>13. ASSUME NEW d \in Dialogue!Decisions, Dialogue!DrainPick(d)
        PROVE  Dialogue!OneTaskPerDecision'
    BY <1>2, <2>13 DEF Dialogue!DrainPick, Dialogue!NoCount
  <2>14. CASE Dialogue!ContextExpires
    BY <1>2, <2>14 DEF Dialogue!ContextExpires, Dialogue!NoCount
  <2>15. CASE Dialogue!DrainCreate
    BY <1>2, <2>15 DEF Dialogue!DrainCreate, Dialogue!Creates,
       Dialogue!NoCount
  <2>16. CASE Dialogue!DrainRun
    BY <1>2, <2>16 DEF Dialogue!DrainRun, Dialogue!NoCount
  <2>17. CASE Dialogue!DrainFails
    BY <1>2, <2>17 DEF Dialogue!DrainFails, Dialogue!Fault, Dialogue!Creates
  <2>18. CASE Dialogue!Crash
    BY <1>2, <2>18 DEF Dialogue!Crash, Dialogue!InFlight
  <2>19. CASE UNCHANGED Dialogue!vars
    BY <1>2, <2>19 DEF Dialogue!vars
  <2> QED
    BY <1>2, <2>1, <2>2, <2>3, <2>4, <2>5, <2>6, <2>7, <2>8, <2>9, <2>10,
       <2>11,
       <2>12, <2>13, <2>14, <2>15, <2>16, <2>17, <2>18, <2>19 DEF Dialogue!Next
<1> QED
  BY <1>1, <1>2, DialogueTypeInvHolds, PTL DEF Dialogue!Spec

\* An open question is one that was asked and is not answered.
DialogueOpen ==
    \A p \in Photos :
      /\ dialogueUsed[p] <= dialogueAsked[p]
      /\ dialogueAsset = p => dialogueUsed[p] < dialogueAsked[p]

\* No question is answered more often than it was asked.
LEMMA DialogueOpenHolds ==
    ASSUME DialogueBounded, None \notin Photos
    PROVE  Dialogue!Spec => []DialogueOpen
<1>1. Dialogue!Init => DialogueOpen
  BY DEF Dialogue!Init, DialogueOpen
<1>2. ASSUME DialogueTypeInv, DialogueOpen, [Dialogue!Next]_(Dialogue!vars)
      PROVE  DialogueOpen'
  <2> USE DEF DialogueOpen, DialogueTypeInv, Dialogue!TypeOK, DialogueCarried,
              Dialogue!NoOne, Dialogue!Decisions, Dialogue!Events, Dialogue!TextFlows,
              Dialogue!askVars, Dialogue!procVars, Dialogue!queueVars, Dialogue!histVars,
              Dialogue!bounds
  <2>1. ASSUME NEW t \in Slots, NEW p \in Photos, Dialogue!PhotoArrives(t, p)
        PROVE  DialogueOpen'
    BY <1>2, <2>1 DEF Dialogue!PhotoArrives, Dialogue!Delivered, Dialogue!Take
  <2>2. ASSUME NEW t \in Slots, NEW x \in Sentences, Dialogue!TextAnswersIntent(t, x)
        PROVE  DialogueOpen'
    BY <1>2, <2>2 DEF Dialogue!TextAnswersIntent, Dialogue!Delivered,
       Dialogue!Dispatch, Dialogue!Take
  <2>3. ASSUME NEW t \in Slots, NEW x \in Sentences, Dialogue!TextArrives(t, x)
        PROVE  DialogueOpen'
    BY <1>2, <2>3 DEF Dialogue!TextArrives, Dialogue!Delivered, Dialogue!Take
  <2>4. ASSUME NEW t \in Slots, Dialogue!PhotoParsed(t)
        PROVE  DialogueOpen'
    BY <1>2, <2>4 DEF Dialogue!PhotoParsed, Dialogue!Return, Dialogue!Take,
       Dialogue!NoCount
  <2>5. ASSUME NEW t \in Slots, Dialogue!PhotoLost(t)
        PROVE  DialogueOpen'
    BY <1>2, <2>5 DEF Dialogue!PhotoLost, Dialogue!Return, Dialogue!Take,
       Dialogue!Fault
  <2>6. ASSUME NEW t \in Slots, Dialogue!TapAsset(t)
        PROVE  DialogueOpen'
    BY <1>2, <2>6 DEF Dialogue!TapAsset, Dialogue!Delivered,
       Dialogue!AnswerAsset, Dialogue!Dispatch, Dialogue!Take
  <2>7. ASSUME NEW t \in Slots, Dialogue!TextAnswersAsset(t)
        PROVE  DialogueOpen'
    BY <1>2, <2>7 DEF Dialogue!TextAnswersAsset, Dialogue!Delivered,
       Dialogue!AnswerAsset, Dialogue!Dispatch, Dialogue!Take
  <2>8. ASSUME NEW t \in Slots, Dialogue!Planned(t)
        PROVE  DialogueOpen'
    BY <1>2, <2>8 DEF Dialogue!Planned, Dialogue!Dispatch, Dialogue!Return,
       Dialogue!Take, Dialogue!NoCount
  <2>9. ASSUME NEW t \in Slots, Dialogue!CreateTask(t)
        PROVE  DialogueOpen'
    BY <1>2, <2>9 DEF Dialogue!CreateTask, Dialogue!Creates, Dialogue!GoTo,
       Dialogue!NoCount
  <2>10. ASSUME NEW t \in Slots, Dialogue!RunTask(t)
        PROVE  DialogueOpen'
    BY <1>2, <2>10 DEF Dialogue!RunTask, Dialogue!GoTo, Dialogue!Return,
       Dialogue!Take, Dialogue!NoCount
  <2>11. ASSUME NEW t \in Slots, Dialogue!Corrected(t)
        PROVE  DialogueOpen'
    BY <1>2, <2>11 DEF Dialogue!Corrected, Dialogue!Return, Dialogue!Take,
       Dialogue!NoCount
  <2>12. ASSUME NEW t \in Slots, Dialogue!DispatchFails(t)
        PROVE  DialogueOpen'
    BY <1>2, <2>12 DEF Dialogue!DispatchFails, Dialogue!Fault,
       Dialogue!Creates, Dialogue!Return, Dialogue!Take
  <2>13. ASSUME NEW d \in Dialogue!Decisions, Dialogue!DrainPick(d)
        PROVE  DialogueOpen'
    BY <1>2, <2>13 DEF Dialogue!DrainPick, Dialogue!NoCount
  <2>14. CASE Dialogue!ContextExpires
    BY <1>2, <2>14 DEF Dialogue!ContextExpires, Dialogue!NoCount
  <2>15. CASE Dialogue!DrainCreate
    BY <1>2, <2>15 DEF Dialogue!DrainCreate, Dialogue!Creates,
       Dialogue!NoCount
  <2>16. CASE Dialogue!DrainRun
    BY <1>2, <2>16 DEF Dialogue!DrainRun, Dialogue!NoCount
  <2>17. CASE Dialogue!DrainFails
    BY <1>2, <2>17 DEF Dialogue!DrainFails, Dialogue!Fault, Dialogue!Creates
  <2>18. CASE Dialogue!Crash
    BY <1>2, <2>18 DEF Dialogue!Crash, Dialogue!InFlight
  <2>19. CASE UNCHANGED Dialogue!vars
    BY <1>2, <2>19 DEF Dialogue!vars
  <2> QED
    BY <1>2, <2>1, <2>2, <2>3, <2>4, <2>5, <2>6, <2>7, <2>8, <2>9, <2>10,
       <2>11,
       <2>12, <2>13, <2>14, <2>15, <2>16, <2>17, <2>18, <2>19 DEF Dialogue!Next
<1> QED
  BY <1>1, <1>2, DialogueTypeInvHolds, PTL DEF Dialogue!Spec
-----------------------------------------------------------------------------
(* Its automations                                                           *)

\* The periods and the bounds are numbers; a day has an hour.
RoundsHours ==
    /\ HoursPerDay \in Nat \ {0} /\ MaxHour \in Nat
    /\ MaxEdits \in Nat /\ MaxRoundFaults \in Nat /\ MaxCrashes \in Nat

\* Days follow one another as hours do.
LEMMA RoundsDaysPass ==
    ASSUME NEW n \in Nat, NEW m \in Nat, NEW h \in Nat \ {0}, n <= m
    PROVE  n \div h \in 0..(m \div h)
<1> DEFINE q == n \div h
           p == m \div h
<1>1. /\ q \in Int /\ p \in Int
      /\ q * h <= n /\ n < (q + 1) * h
      /\ p * h <= m /\ m < (p + 1) * h
  OBVIOUS
<1>2. 0 <= q
  <2> SUFFICES ASSUME q <= -1
               PROVE  FALSE
    BY <1>1
  <2>1. q + 1 <= 0
    BY <1>1
  <2>2. (q + 1) * h <= 0
    BY <2>1, <1>1
  <2> QED
    BY <2>2, <1>1
<1>3. q <= p
  <2> SUFFICES ASSUME p + 1 <= q
               PROVE  FALSE
    BY <1>1
  <2>1. (p + 1) * h <= q * h
    BY <1>1
  <2> QED
    BY <2>1, <1>1
<1> QED
  BY <1>1, <1>2, <1>3

\* A round that has somebody to serve has a tenant.
RoundsPlaced ==
    /\ roundRound.due # {} => roundRound.tenant \in Owners
    /\ roundRound.at = "nudging" => roundRound.tenant \in Owners

\* Every variable is in its set, and a round is with one tenant.
RoundsTypeInv == Rounds!TypeOK /\ RoundsPlaced

\* A counter of counters, one higher at one place.
RoundsAdded(f, a, b, c) == [f EXCEPT ![a][b][c] = @ + 1]

\* It differs from the one before at that place only.
LEMMA RoundsAddedIs ==
    ASSUME NEW A, NEW B, NEW C, NEW f \in [A -> [B -> [C -> Nat]]],
           NEW a \in A, NEW b \in B, NEW c \in C
    PROVE  /\ RoundsAdded(f, a, b, c) \in [A -> [B -> [C -> Nat]]]
           /\ RoundsAdded(f, a, b, c)[a][b][c] = f[a][b][c] + 1
           /\ \A x \in A, y \in B, z \in C :
                ~(x = a /\ y = b /\ z = c) => RoundsAdded(f, a, b, c)[x][y][z] = f[x][y][z]
  BY DEF RoundsAdded

\* A counter, one higher at one place.
RoundsRaisedOne(f, a, b) == [f EXCEPT ![a][b] = @ + 1]

\* It differs from the one before at that place only.
LEMMA RoundsRaisedIs ==
    ASSUME NEW A, NEW B, NEW f \in [A -> [B -> Nat]], NEW a \in A, NEW b \in B
    PROVE  /\ RoundsRaisedOne(f, a, b) \in [A -> [B -> Nat]]
           /\ RoundsRaisedOne(f, a, b)[a][b] = f[a][b] + 1
           /\ \A x \in A, y \in B : /\ ~(x = a /\ y = b)
                                       => RoundsRaisedOne(f, a, b)[x][y] = f[x][y]
                                   /\ f[x][y] <= RoundsRaisedOne(f, a, b)[x][y]
  BY DEF RoundsRaisedOne

\* The key of a task names its day, and a day has one task.
RoundsKeyedByDay ==
    /\ \A x \in roundTasks : x.key = x.day
    /\ Rounds!TaskPerBucket

\* The round is sending its nudges of that day to the tenant.
RoundsNudging(t, d) == roundRound.at = "nudging" /\ roundRound.tenant = t /\ roundRound.day = d

\* A nudge is paid for: by the day, or by an answer that was lost.
RoundsNudgeInv ==
    \A t \in Owners, r \in Readers, d \in Rounds!Days :
        /\ roundNudges[t][r][d] <= 1 + roundLostNudges[t][d]
        /\ <<t, d>> \notin roundTold /\ ~RoundsNudging(t, d)
            => roundNudges[t][r][d] <= roundLostNudges[t][d]
        /\ RoundsNudging(t, d) /\ (r \in roundRound.to \/ ~roundRound.got)
            => roundNudges[t][r][d] <= roundLostNudges[t][d]

\* It holds over the clock, restarts, edits and failing calls.
LEMMA RoundsTypeInvHolds ==
    ASSUME RoundsHours
    PROVE  Rounds!Spec => []RoundsTypeInv
<1>1. Rounds!Init => RoundsTypeInv
  <2> USE DEF Rounds!Init, Rounds!TypeOK, RoundsPlaced, RoundsHours, Rounds!NoRound
  <2>1. 0 \in Rounds!Days
    BY RoundsDaysPass DEF Rounds!Days
  <2>2. Rounds!Init => /\ roundClock \in 0..MaxHour /\ roundUp \in BOOLEAN
                          /\ roundTasks \subseteq Rounds!Tasks
                       /\ roundTold \subseteq Owners \X Rounds!Days
    OBVIOUS
  <2>3. Rounds!Init => roundHourOf \in [Owners -> [Rounds!Jobs -> 0..Rounds!Off]]
    BY DEF Rounds!Off
  <2>4. Rounds!Init => roundRound \in [at : {"idle", "next", "started", "nudging"},
                                       todo : SUBSET Owners,
                  tenant : Owners \cup {None}, due : SUBSET Rounds!Jobs, day : Rounds!Days,
                  to : SUBSET Readers, got : BOOLEAN]
    BY <2>1
  <2>5. Rounds!Init => /\ roundNudges \in [Owners -> [Readers -> [Rounds!Days -> Nat]]]
                       /\ roundLostNudges \in [Owners -> [Rounds!Days -> Nat]]
    OBVIOUS
  <2>6. Rounds!Init => /\ roundEdits \in 0..MaxEdits /\ roundFaults \in 0..MaxRoundFaults
                          /\ roundCrashes \in 0..MaxCrashes
    OBVIOUS
  <2>7. Rounds!Init => RoundsPlaced
    OBVIOUS
  <2> QED
    BY <2>2, <2>3, <2>4, <2>5, <2>6, <2>7 DEF RoundsTypeInv
<1>2. ASSUME RoundsTypeInv, [Rounds!Next]_(Rounds!vars)
      PROVE  RoundsTypeInv'
  <2> USE DEF RoundsTypeInv, Rounds!TypeOK, RoundsPlaced, RoundsHours, Rounds!roundVars,
              Rounds!bounds
  <2>0. 0 \in Rounds!Days /\ Rounds!Today \in Rounds!Days
    <3>1. roundClock \in Nat /\ roundClock <= MaxHour
      BY <1>2
    <3>2. 0 \div HoursPerDay \in 0..(MaxHour \div HoursPerDay)
      BY RoundsDaysPass
    <3>3. roundClock \div HoursPerDay \in 0..(MaxHour \div HoursPerDay)
      BY <3>1, RoundsDaysPass
    <3> QED
      BY <3>2, <3>3 DEF Rounds!Days, Rounds!Today
  <2>1. CASE Rounds!Hour
    <3>1. roundClock' \in 0..MaxHour
      BY <1>2, <2>0, <2>1 DEF Rounds!Hour, Rounds!NoRound
    <3>2. roundUp' \in BOOLEAN
      BY <1>2, <2>0, <2>1 DEF Rounds!Hour, Rounds!NoRound
    <3>3. roundEdits' \in 0..MaxEdits
          /\ roundFaults' \in 0..MaxRoundFaults /\ roundCrashes' \in 0..MaxCrashes
      BY <1>2, <2>0, <2>1 DEF Rounds!Hour, Rounds!NoRound
    <3>4. roundHourOf' \in [Owners -> [Rounds!Jobs -> 0..Rounds!Off]]
      BY <1>2, <2>0, <2>1 DEF Rounds!Hour, Rounds!NoRound
    <3>5. roundTasks' \subseteq Rounds!Tasks
      BY <1>2, <2>0, <2>1 DEF Rounds!Hour, Rounds!NoRound
    <3>6. roundRound' \in [at : {"idle", "next", "started", "nudging"}, todo : SUBSET Owners,
                  tenant : Owners \cup {None}, due : SUBSET Rounds!Jobs, day : Rounds!Days,
                  to : SUBSET Readers, got : BOOLEAN]
      BY <1>2, <2>0, <2>1 DEF Rounds!Hour, Rounds!NoRound
    <3>7. roundTold' \subseteq Owners \X Rounds!Days
      BY <1>2, <2>0, <2>1 DEF Rounds!Hour, Rounds!NoRound
    <3>8. /\ roundNudges' \in [Owners -> [Readers -> [Rounds!Days -> Nat]]]
          /\ roundLostNudges' \in [Owners -> [Rounds!Days -> Nat]]
      BY <1>2, <2>0, <2>1 DEF Rounds!Hour, Rounds!NoRound
    <3>9. RoundsPlaced'
      BY <1>2, <2>0, <2>1 DEF Rounds!Hour, Rounds!NoRound
    <3> QED
      BY <3>1, <3>2, <3>3, <3>4, <3>5, <3>6, <3>7, <3>8, <3>9
  <2>2. CASE Rounds!Crash
    <3>1. roundClock' \in 0..MaxHour
      BY <1>2, <2>0, <2>2 DEF Rounds!Crash, Rounds!NoRound
    <3>2. roundUp' \in BOOLEAN
      BY <1>2, <2>0, <2>2 DEF Rounds!Crash, Rounds!NoRound
    <3>3. roundEdits' \in 0..MaxEdits
          /\ roundFaults' \in 0..MaxRoundFaults /\ roundCrashes' \in 0..MaxCrashes
      BY <1>2, <2>0, <2>2 DEF Rounds!Crash, Rounds!NoRound
    <3>4. roundHourOf' \in [Owners -> [Rounds!Jobs -> 0..Rounds!Off]]
      BY <1>2, <2>0, <2>2 DEF Rounds!Crash, Rounds!NoRound
    <3>5. roundTasks' \subseteq Rounds!Tasks
      BY <1>2, <2>0, <2>2 DEF Rounds!Crash, Rounds!NoRound
    <3>6. roundRound' \in [at : {"idle", "next", "started", "nudging"}, todo : SUBSET Owners,
                  tenant : Owners \cup {None}, due : SUBSET Rounds!Jobs, day : Rounds!Days,
                  to : SUBSET Readers, got : BOOLEAN]
      BY <1>2, <2>0, <2>2 DEF Rounds!Crash, Rounds!NoRound
    <3>7. roundTold' \subseteq Owners \X Rounds!Days
      BY <1>2, <2>0, <2>2 DEF Rounds!Crash, Rounds!NoRound
    <3>8. /\ roundNudges' \in [Owners -> [Readers -> [Rounds!Days -> Nat]]]
          /\ roundLostNudges' \in [Owners -> [Rounds!Days -> Nat]]
      BY <1>2, <2>0, <2>2 DEF Rounds!Crash, Rounds!NoRound
    <3>9. RoundsPlaced'
      BY <1>2, <2>0, <2>2 DEF Rounds!Crash, Rounds!NoRound
    <3> QED
      BY <3>1, <3>2, <3>3, <3>4, <3>5, <3>6, <3>7, <3>8, <3>9
  <2>3. CASE Rounds!Restart
    <3>1. roundClock' \in 0..MaxHour
      BY <1>2, <2>3 DEF Rounds!Restart
    <3>2. roundUp' \in BOOLEAN
      BY <1>2, <2>3 DEF Rounds!Restart
    <3>3. roundEdits' \in 0..MaxEdits
          /\ roundFaults' \in 0..MaxRoundFaults /\ roundCrashes' \in 0..MaxCrashes
      BY <1>2, <2>3 DEF Rounds!Restart
    <3>4. roundHourOf' \in [Owners -> [Rounds!Jobs -> 0..Rounds!Off]]
      BY <1>2, <2>3 DEF Rounds!Restart
    <3>5. roundTasks' \subseteq Rounds!Tasks
      BY <1>2, <2>3 DEF Rounds!Restart
    <3>6. roundRound' \in [at : {"idle", "next", "started", "nudging"}, todo : SUBSET Owners,
                  tenant : Owners \cup {None}, due : SUBSET Rounds!Jobs, day : Rounds!Days,
                  to : SUBSET Readers, got : BOOLEAN]
      BY <1>2, <2>3 DEF Rounds!Restart
    <3>7. roundTold' \subseteq Owners \X Rounds!Days
      BY <1>2, <2>3 DEF Rounds!Restart
    <3>8. /\ roundNudges' \in [Owners -> [Readers -> [Rounds!Days -> Nat]]]
          /\ roundLostNudges' \in [Owners -> [Rounds!Days -> Nat]]
      BY <1>2, <2>3 DEF Rounds!Restart
    <3>9. RoundsPlaced'
      BY <1>2, <2>3 DEF Rounds!Restart
    <3> QED
      BY <3>1, <3>2, <3>3, <3>4, <3>5, <3>6, <3>7, <3>8, <3>9
  <2>4. ASSUME NEW t \in Owners, Rounds!NextTenant(t)
        PROVE  RoundsTypeInv'
    BY <1>2, <2>0, <2>4 DEF Rounds!NextTenant, Rounds!NoRound, Rounds!DueJobs
  <2>5. ASSUME NEW t \in Owners, NEW j \in Rounds!Jobs, NEW h \in 0..Rounds!Off,
               Rounds!EditSettings(t, j, h)
        PROVE  RoundsTypeInv'
    BY <1>2, <2>5 DEF Rounds!EditSettings
  <2>6. CASE Rounds!RoundEnds
    <3>1. roundClock' \in 0..MaxHour
      BY <1>2, <2>0, <2>6 DEF Rounds!RoundEnds, Rounds!NoRound
    <3>2. roundUp' \in BOOLEAN
      BY <1>2, <2>0, <2>6 DEF Rounds!RoundEnds, Rounds!NoRound
    <3>3. roundEdits' \in 0..MaxEdits
          /\ roundFaults' \in 0..MaxRoundFaults /\ roundCrashes' \in 0..MaxCrashes
      BY <1>2, <2>0, <2>6 DEF Rounds!RoundEnds, Rounds!NoRound
    <3>4. roundHourOf' \in [Owners -> [Rounds!Jobs -> 0..Rounds!Off]]
      BY <1>2, <2>0, <2>6 DEF Rounds!RoundEnds, Rounds!NoRound
    <3>5. roundTasks' \subseteq Rounds!Tasks
      BY <1>2, <2>0, <2>6 DEF Rounds!RoundEnds, Rounds!NoRound
    <3>6. roundRound' \in [at : {"idle", "next", "started", "nudging"}, todo : SUBSET Owners,
                  tenant : Owners \cup {None}, due : SUBSET Rounds!Jobs, day : Rounds!Days,
                  to : SUBSET Readers, got : BOOLEAN]
      BY <1>2, <2>0, <2>6 DEF Rounds!RoundEnds, Rounds!NoRound
    <3>7. roundTold' \subseteq Owners \X Rounds!Days
      BY <1>2, <2>0, <2>6 DEF Rounds!RoundEnds, Rounds!NoRound
    <3>8. /\ roundNudges' \in [Owners -> [Readers -> [Rounds!Days -> Nat]]]
          /\ roundLostNudges' \in [Owners -> [Rounds!Days -> Nat]]
      BY <1>2, <2>0, <2>6 DEF Rounds!RoundEnds, Rounds!NoRound
    <3>9. RoundsPlaced'
      BY <1>2, <2>0, <2>6 DEF Rounds!RoundEnds, Rounds!NoRound
    <3> QED
      BY <3>1, <3>2, <3>3, <3>4, <3>5, <3>6, <3>7, <3>8, <3>9
  <2>7. CASE Rounds!NoNudge
    <3>1. roundClock' \in 0..MaxHour
      BY <1>2, <2>7 DEF Rounds!NoNudge, Rounds!First
    <3>2. roundUp' \in BOOLEAN
      BY <1>2, <2>7 DEF Rounds!NoNudge, Rounds!First
    <3>3. roundEdits' \in 0..MaxEdits
          /\ roundFaults' \in 0..MaxRoundFaults /\ roundCrashes' \in 0..MaxCrashes
      BY <1>2, <2>7 DEF Rounds!NoNudge, Rounds!First
    <3>4. roundHourOf' \in [Owners -> [Rounds!Jobs -> 0..Rounds!Off]]
      BY <1>2, <2>7 DEF Rounds!NoNudge, Rounds!First
    <3>5. roundTasks' \subseteq Rounds!Tasks
      BY <1>2, <2>7 DEF Rounds!NoNudge, Rounds!First
    <3>6. roundRound' \in [at : {"idle", "next", "started", "nudging"}, todo : SUBSET Owners,
                  tenant : Owners \cup {None}, due : SUBSET Rounds!Jobs, day : Rounds!Days,
                  to : SUBSET Readers, got : BOOLEAN]
      BY <1>2, <2>7 DEF Rounds!NoNudge, Rounds!First
    <3>7. roundTold' \subseteq Owners \X Rounds!Days
      BY <1>2, <2>7 DEF Rounds!NoNudge, Rounds!First
    <3>8. /\ roundNudges' \in [Owners -> [Readers -> [Rounds!Days -> Nat]]]
          /\ roundLostNudges' \in [Owners -> [Rounds!Days -> Nat]]
      BY <1>2, <2>7 DEF Rounds!NoNudge, Rounds!First
    <3>9. RoundsPlaced'
      BY <1>2, <2>7 DEF Rounds!NoNudge, Rounds!First
    <3> QED
      BY <3>1, <3>2, <3>3, <3>4, <3>5, <3>6, <3>7, <3>8, <3>9
  <2>8. CASE Rounds!Nudge
    <3>1. roundClock' \in 0..MaxHour
      BY <1>2, <2>8 DEF Rounds!Nudge, Rounds!First, Rounds!NotNudged
    <3>2. roundUp' \in BOOLEAN
      BY <1>2, <2>8 DEF Rounds!Nudge, Rounds!First, Rounds!NotNudged
    <3>3. roundEdits' \in 0..MaxEdits
          /\ roundFaults' \in 0..MaxRoundFaults /\ roundCrashes' \in 0..MaxCrashes
      BY <1>2, <2>8 DEF Rounds!Nudge, Rounds!First, Rounds!NotNudged
    <3>4. roundHourOf' \in [Owners -> [Rounds!Jobs -> 0..Rounds!Off]]
      BY <1>2, <2>8 DEF Rounds!Nudge, Rounds!First, Rounds!NotNudged
    <3>5. roundTasks' \subseteq Rounds!Tasks
      BY <1>2, <2>8 DEF Rounds!Nudge, Rounds!First, Rounds!NotNudged
    <3>6. roundRound' \in [at : {"idle", "next", "started", "nudging"}, todo : SUBSET Owners,
                  tenant : Owners \cup {None}, due : SUBSET Rounds!Jobs, day : Rounds!Days,
                  to : SUBSET Readers, got : BOOLEAN]
      BY <1>2, <2>8 DEF Rounds!Nudge, Rounds!First, Rounds!NotNudged
    <3>7. roundTold' \subseteq Owners \X Rounds!Days
      BY <1>2, <2>8 DEF Rounds!Nudge, Rounds!First, Rounds!NotNudged
    <3>8. /\ roundNudges' \in [Owners -> [Readers -> [Rounds!Days -> Nat]]]
          /\ roundLostNudges' \in [Owners -> [Rounds!Days -> Nat]]
      BY <1>2, <2>8 DEF Rounds!Nudge, Rounds!First, Rounds!NotNudged
    <3>9. RoundsPlaced'
      BY <1>2, <2>8 DEF Rounds!Nudge, Rounds!First, Rounds!NotNudged
    <3> QED
      BY <3>1, <3>2, <3>3, <3>4, <3>5, <3>6, <3>7, <3>8, <3>9
  <2>9. CASE Rounds!AuditNudge
    <3>1. roundClock' \in 0..MaxHour
      BY <1>2, <2>9 DEF Rounds!AuditNudge
    <3>2. roundUp' \in BOOLEAN
      BY <1>2, <2>9 DEF Rounds!AuditNudge
    <3>3. roundEdits' \in 0..MaxEdits
          /\ roundFaults' \in 0..MaxRoundFaults /\ roundCrashes' \in 0..MaxCrashes
      BY <1>2, <2>9 DEF Rounds!AuditNudge
    <3>4. roundHourOf' \in [Owners -> [Rounds!Jobs -> 0..Rounds!Off]]
      BY <1>2, <2>9 DEF Rounds!AuditNudge
    <3>5. roundTasks' \subseteq Rounds!Tasks
      BY <1>2, <2>9 DEF Rounds!AuditNudge
    <3>6. roundRound' \in [at : {"idle", "next", "started", "nudging"}, todo : SUBSET Owners,
                  tenant : Owners \cup {None}, due : SUBSET Rounds!Jobs, day : Rounds!Days,
                  to : SUBSET Readers, got : BOOLEAN]
      BY <1>2, <2>9 DEF Rounds!AuditNudge
    <3>7. roundTold' \subseteq Owners \X Rounds!Days
      BY <1>2, <2>9 DEF Rounds!AuditNudge
    <3>8. /\ roundNudges' \in [Owners -> [Readers -> [Rounds!Days -> Nat]]]
          /\ roundLostNudges' \in [Owners -> [Rounds!Days -> Nat]]
      BY <1>2, <2>9 DEF Rounds!AuditNudge
    <3>9. RoundsPlaced'
      BY <1>2, <2>9 DEF Rounds!AuditNudge
    <3> QED
      BY <3>1, <3>2, <3>3, <3>4, <3>5, <3>6, <3>7, <3>8, <3>9
  <2>10. ASSUME NEW j \in Rounds!TaskJobs, Rounds!TriggerTask(j)
        PROVE  RoundsTypeInv'
    <3>1. roundClock' \in 0..MaxHour
      BY <1>2, <2>10 DEF Rounds!TriggerTask, Rounds!Keyed, Rounds!BucketKey,
         Rounds!First
    <3>2. roundUp' \in BOOLEAN
      BY <1>2, <2>10 DEF Rounds!TriggerTask, Rounds!Keyed, Rounds!BucketKey,
         Rounds!First
    <3>3. roundEdits' \in 0..MaxEdits
          /\ roundFaults' \in 0..MaxRoundFaults /\ roundCrashes' \in 0..MaxCrashes
      BY <1>2, <2>10 DEF Rounds!TriggerTask, Rounds!Keyed, Rounds!BucketKey,
         Rounds!First
    <3>4. roundHourOf' \in [Owners -> [Rounds!Jobs -> 0..Rounds!Off]]
      BY <1>2, <2>10 DEF Rounds!TriggerTask, Rounds!Keyed, Rounds!BucketKey,
         Rounds!First
    <3>5. roundTasks' \subseteq Rounds!Tasks
      BY <1>2, <2>10, <2>0 DEF Rounds!TriggerTask, Rounds!Keyed,
         Rounds!BucketKey, Rounds!First, Rounds!Tasks, Rounds!Days
    <3>6. roundRound' \in [at : {"idle", "next", "started", "nudging"}, todo : SUBSET Owners,
                  tenant : Owners \cup {None}, due : SUBSET Rounds!Jobs, day : Rounds!Days,
                  to : SUBSET Readers, got : BOOLEAN]
      BY <1>2, <2>10 DEF Rounds!TriggerTask, Rounds!Keyed, Rounds!BucketKey,
         Rounds!First
    <3>7. roundTold' \subseteq Owners \X Rounds!Days
      BY <1>2, <2>10 DEF Rounds!TriggerTask, Rounds!Keyed, Rounds!BucketKey,
         Rounds!First
    <3>8. /\ roundNudges' \in [Owners -> [Readers -> [Rounds!Days -> Nat]]]
          /\ roundLostNudges' \in [Owners -> [Rounds!Days -> Nat]]
      BY <1>2, <2>10 DEF Rounds!TriggerTask, Rounds!Keyed, Rounds!BucketKey,
         Rounds!First
    <3>9. RoundsPlaced'
      BY <1>2, <2>10 DEF Rounds!TriggerTask, Rounds!Keyed, Rounds!BucketKey,
         Rounds!First
    <3> QED
      BY <3>1, <3>2, <3>3, <3>4, <3>5, <3>6, <3>7, <3>8, <3>9
  <2>11. ASSUME NEW j \in Rounds!TaskJobs, Rounds!TaskStarted(j)
        PROVE  RoundsTypeInv'
    <3>1. roundClock' \in 0..MaxHour
      BY <1>2, <2>11 DEF Rounds!TaskStarted, Rounds!First
    <3>2. roundUp' \in BOOLEAN
      BY <1>2, <2>11 DEF Rounds!TaskStarted, Rounds!First
    <3>3. roundEdits' \in 0..MaxEdits
          /\ roundFaults' \in 0..MaxRoundFaults /\ roundCrashes' \in 0..MaxCrashes
      BY <1>2, <2>11 DEF Rounds!TaskStarted, Rounds!First
    <3>4. roundHourOf' \in [Owners -> [Rounds!Jobs -> 0..Rounds!Off]]
      BY <1>2, <2>11 DEF Rounds!TaskStarted, Rounds!First
    <3>5. roundTasks' \subseteq Rounds!Tasks
      BY <1>2, <2>11 DEF Rounds!TaskStarted, Rounds!First
    <3>6. roundRound' \in [at : {"idle", "next", "started", "nudging"}, todo : SUBSET Owners,
                  tenant : Owners \cup {None}, due : SUBSET Rounds!Jobs, day : Rounds!Days,
                  to : SUBSET Readers, got : BOOLEAN]
      BY <1>2, <2>11 DEF Rounds!TaskStarted, Rounds!First
    <3>7. roundTold' \subseteq Owners \X Rounds!Days
      BY <1>2, <2>11 DEF Rounds!TaskStarted, Rounds!First
    <3>8. /\ roundNudges' \in [Owners -> [Readers -> [Rounds!Days -> Nat]]]
          /\ roundLostNudges' \in [Owners -> [Rounds!Days -> Nat]]
      BY <1>2, <2>11 DEF Rounds!TaskStarted, Rounds!First
    <3>9. RoundsPlaced'
      BY <1>2, <2>11 DEF Rounds!TaskStarted, Rounds!First
    <3> QED
      BY <3>1, <3>2, <3>3, <3>4, <3>5, <3>6, <3>7, <3>8, <3>9
  <2>12. ASSUME NEW j \in Rounds!TaskJobs, Rounds!TriggerFails(j)
        PROVE  RoundsTypeInv'
    <3>1. roundClock' \in 0..MaxHour
      BY <1>2, <2>12 DEF Rounds!TriggerFails, Rounds!Fault, Rounds!Keyed,
         Rounds!BucketKey, Rounds!First
    <3>2. roundUp' \in BOOLEAN
      BY <1>2, <2>12 DEF Rounds!TriggerFails, Rounds!Fault, Rounds!Keyed,
         Rounds!BucketKey, Rounds!First
    <3>3. roundEdits' \in 0..MaxEdits
          /\ roundFaults' \in 0..MaxRoundFaults /\ roundCrashes' \in 0..MaxCrashes
      BY <1>2, <2>12 DEF Rounds!TriggerFails, Rounds!Fault, Rounds!Keyed,
         Rounds!BucketKey, Rounds!First
    <3>4. roundHourOf' \in [Owners -> [Rounds!Jobs -> 0..Rounds!Off]]
      BY <1>2, <2>12 DEF Rounds!TriggerFails, Rounds!Fault, Rounds!Keyed,
         Rounds!BucketKey, Rounds!First
    <3>5. roundTasks' \subseteq Rounds!Tasks
      BY <1>2, <2>12, <2>0 DEF Rounds!TriggerFails, Rounds!Fault,
         Rounds!Keyed, Rounds!BucketKey, Rounds!First, Rounds!Tasks,
         Rounds!Days
    <3>6. roundRound' \in [at : {"idle", "next", "started", "nudging"}, todo : SUBSET Owners,
                  tenant : Owners \cup {None}, due : SUBSET Rounds!Jobs, day : Rounds!Days,
                  to : SUBSET Readers, got : BOOLEAN]
      BY <1>2, <2>12 DEF Rounds!TriggerFails, Rounds!Fault, Rounds!Keyed,
         Rounds!BucketKey, Rounds!First
    <3>7. roundTold' \subseteq Owners \X Rounds!Days
      BY <1>2, <2>12 DEF Rounds!TriggerFails, Rounds!Fault, Rounds!Keyed,
         Rounds!BucketKey, Rounds!First
    <3>8. /\ roundNudges' \in [Owners -> [Readers -> [Rounds!Days -> Nat]]]
          /\ roundLostNudges' \in [Owners -> [Rounds!Days -> Nat]]
      BY <1>2, <2>12 DEF Rounds!TriggerFails, Rounds!Fault, Rounds!Keyed,
         Rounds!BucketKey, Rounds!First
    <3>9. RoundsPlaced'
      BY <1>2, <2>12 DEF Rounds!TriggerFails, Rounds!Fault, Rounds!Keyed,
         Rounds!BucketKey, Rounds!First
    <3> QED
      BY <3>1, <3>2, <3>3, <3>4, <3>5, <3>6, <3>7, <3>8, <3>9
  <2>13. ASSUME NEW r \in Readers, Rounds!PushNudge(r)
        PROVE  RoundsTypeInv'
    <3>1. roundClock' \in 0..MaxHour
      BY <1>2, <2>13 DEF Rounds!PushNudge, Rounds!Nudged
    <3>2. roundUp' \in BOOLEAN
      BY <1>2, <2>13 DEF Rounds!PushNudge, Rounds!Nudged
    <3>3. roundEdits' \in 0..MaxEdits
          /\ roundFaults' \in 0..MaxRoundFaults /\ roundCrashes' \in 0..MaxCrashes
      BY <1>2, <2>13 DEF Rounds!PushNudge, Rounds!Nudged
    <3>4. roundHourOf' \in [Owners -> [Rounds!Jobs -> 0..Rounds!Off]]
      BY <1>2, <2>13 DEF Rounds!PushNudge, Rounds!Nudged
    <3>5. roundTasks' \subseteq Rounds!Tasks
      BY <1>2, <2>13 DEF Rounds!PushNudge, Rounds!Nudged
    <3>6. roundRound' \in [at : {"idle", "next", "started", "nudging"}, todo : SUBSET Owners,
                  tenant : Owners \cup {None}, due : SUBSET Rounds!Jobs, day : Rounds!Days,
                  to : SUBSET Readers, got : BOOLEAN]
      BY <1>2, <2>13 DEF Rounds!PushNudge, Rounds!Nudged
    <3>7. roundTold' \subseteq Owners \X Rounds!Days
      BY <1>2, <2>13 DEF Rounds!PushNudge, Rounds!Nudged
    <3>8. /\ roundNudges' \in [Owners -> [Readers -> [Rounds!Days -> Nat]]]
          /\ roundLostNudges' \in [Owners -> [Rounds!Days -> Nat]]
      BY <1>2, <2>13 DEF Rounds!PushNudge, Rounds!Nudged
    <3>9. RoundsPlaced'
      BY <1>2, <2>13 DEF Rounds!PushNudge, Rounds!Nudged
    <3> QED
      BY <3>1, <3>2, <3>3, <3>4, <3>5, <3>6, <3>7, <3>8, <3>9
  <2>14. ASSUME NEW r \in Readers, Rounds!NudgeFails(r)
        PROVE  RoundsTypeInv'
    <3>1. roundClock' \in 0..MaxHour
      BY <1>2, <2>14 DEF Rounds!NudgeFails, Rounds!Fault, Rounds!Nudged
    <3>2. roundUp' \in BOOLEAN
      BY <1>2, <2>14 DEF Rounds!NudgeFails, Rounds!Fault, Rounds!Nudged
    <3>3. roundEdits' \in 0..MaxEdits
          /\ roundFaults' \in 0..MaxRoundFaults /\ roundCrashes' \in 0..MaxCrashes
      BY <1>2, <2>14 DEF Rounds!NudgeFails, Rounds!Fault, Rounds!Nudged
    <3>4. roundHourOf' \in [Owners -> [Rounds!Jobs -> 0..Rounds!Off]]
      BY <1>2, <2>14 DEF Rounds!NudgeFails, Rounds!Fault, Rounds!Nudged
    <3>5. roundTasks' \subseteq Rounds!Tasks
      BY <1>2, <2>14 DEF Rounds!NudgeFails, Rounds!Fault, Rounds!Nudged
    <3>6. roundRound' \in [at : {"idle", "next", "started", "nudging"}, todo : SUBSET Owners,
                  tenant : Owners \cup {None}, due : SUBSET Rounds!Jobs, day : Rounds!Days,
                  to : SUBSET Readers, got : BOOLEAN]
      BY <1>2, <2>14 DEF Rounds!NudgeFails, Rounds!Fault, Rounds!Nudged
    <3>7. roundTold' \subseteq Owners \X Rounds!Days
      BY <1>2, <2>14 DEF Rounds!NudgeFails, Rounds!Fault, Rounds!Nudged
    <3>8. /\ roundNudges' \in [Owners -> [Readers -> [Rounds!Days -> Nat]]]
          /\ roundLostNudges' \in [Owners -> [Rounds!Days -> Nat]]
      <4>1. Rounds!Nudged(r) \in [Owners -> [Readers -> [Rounds!Days -> Nat]]]
        BY <1>2, <2>14, RoundsAddedIs DEF Rounds!NudgeFails, Rounds!Nudged,
           RoundsAdded
      <4>2. roundLostNudges' \in [Owners -> [Rounds!Days -> Nat]]
        <5>1. roundLostNudges \in [Owners -> [Rounds!Days -> Nat]]
            /\ roundRound.tenant \in Owners /\ roundRound.day \in Rounds!Days
          BY <1>2, <2>14 DEF Rounds!NudgeFails
        <5>2. RoundsRaisedOne(roundLostNudges, roundRound.tenant,
                              roundRound.day) \in [Owners -> [Rounds!Days -> Nat]]
          BY <5>1, RoundsRaisedIs
        <5> QED
          BY <2>14, <5>1, <5>2 DEF Rounds!NudgeFails, RoundsRaisedOne
      <4> QED
        BY <1>2, <2>14, <4>1, <4>2 DEF Rounds!NudgeFails
    <3>9. RoundsPlaced'
      BY <1>2, <2>14 DEF Rounds!NudgeFails, Rounds!Fault, Rounds!Nudged
    <3> QED
      BY <3>1, <3>2, <3>3, <3>4, <3>5, <3>6, <3>7, <3>8, <3>9
  <2>15. CASE UNCHANGED Rounds!vars
    BY <1>2, <2>15 DEF Rounds!vars
  <2> QED
    BY <1>2, <2>1, <2>2, <2>3, <2>4, <2>5, <2>6, <2>7, <2>8, <2>9, <2>10,
       <2>11,
       <2>12, <2>13, <2>14, <2>15 DEF Rounds!Next
<1> QED
  BY <1>1, <1>2, PTL DEF Rounds!Spec

\* AgentOS drops a task whose key it has, so a restart creates no second one.
LEMMA RoundsKeyedByDayHolds ==
    ASSUME RoundsHours
    PROVE  Rounds!Spec => []RoundsKeyedByDay
<1>1. Rounds!Init => RoundsKeyedByDay
  BY DEF Rounds!Init, RoundsKeyedByDay, Rounds!TaskPerBucket
<1>2. ASSUME RoundsTypeInv, RoundsKeyedByDay, [Rounds!Next]_(Rounds!vars)
      PROVE  RoundsKeyedByDay'
  <2> USE DEF RoundsKeyedByDay, Rounds!TaskPerBucket, RoundsTypeInv, Rounds!TypeOK,
              RoundsPlaced, Rounds!TaskJobs, Rounds!Jobs, Rounds!Tasks, Rounds!roundVars,
              Rounds!bounds
  <2>1. CASE Rounds!Hour
    BY <1>2, <2>1 DEF Rounds!Hour, Rounds!NoRound
  <2>2. CASE Rounds!Crash
    BY <1>2, <2>2 DEF Rounds!Crash, Rounds!NoRound
  <2>3. CASE Rounds!Restart
    BY <1>2, <2>3 DEF Rounds!Restart
  <2>4. ASSUME NEW t \in Owners, Rounds!NextTenant(t)
        PROVE  RoundsKeyedByDay'
    BY <1>2, <2>4 DEF Rounds!NextTenant, Rounds!NoRound, Rounds!DueJobs
  <2>5. ASSUME NEW t \in Owners, NEW j \in Rounds!Jobs, NEW h \in 0..Rounds!Off,
               Rounds!EditSettings(t, j, h)
        PROVE  RoundsKeyedByDay'
    BY <1>2, <2>5 DEF Rounds!EditSettings
  <2>6. CASE Rounds!RoundEnds
    BY <1>2, <2>6 DEF Rounds!RoundEnds, Rounds!NoRound
  <2>7. CASE Rounds!NoNudge
    BY <1>2, <2>7 DEF Rounds!NoNudge, Rounds!First
  <2>8. CASE Rounds!Nudge
    BY <1>2, <2>8 DEF Rounds!Nudge, Rounds!First, Rounds!NotNudged
  <2>9. CASE Rounds!AuditNudge
    BY <1>2, <2>9 DEF Rounds!AuditNudge
  <2>10. ASSUME NEW j \in Rounds!TaskJobs, Rounds!TriggerTask(j)
        PROVE  RoundsKeyedByDay'
    BY <1>2, <2>10 DEF Rounds!TriggerTask, Rounds!Keyed, Rounds!BucketKey,
       Rounds!First
  <2>11. ASSUME NEW j \in Rounds!TaskJobs, Rounds!TaskStarted(j)
        PROVE  RoundsKeyedByDay'
    BY <1>2, <2>11 DEF Rounds!TaskStarted, Rounds!First
  <2>12. ASSUME NEW j \in Rounds!TaskJobs, Rounds!TriggerFails(j)
        PROVE  RoundsKeyedByDay'
    BY <1>2, <2>12 DEF Rounds!TriggerFails, Rounds!Fault, Rounds!Keyed,
       Rounds!BucketKey, Rounds!First
  <2>13. ASSUME NEW r \in Readers, Rounds!PushNudge(r)
        PROVE  RoundsKeyedByDay'
    BY <1>2, <2>13 DEF Rounds!PushNudge, Rounds!Nudged
  <2>14. ASSUME NEW r \in Readers, Rounds!NudgeFails(r)
        PROVE  RoundsKeyedByDay'
    BY <1>2, <2>14 DEF Rounds!NudgeFails, Rounds!Fault, Rounds!Nudged
  <2>15. CASE UNCHANGED Rounds!vars
    BY <1>2, <2>15 DEF Rounds!vars
  <2> QED
    BY <1>2, <2>1, <2>2, <2>3, <2>4, <2>5, <2>6, <2>7, <2>8, <2>9, <2>10,
       <2>11,
       <2>12, <2>13, <2>14, <2>15 DEF Rounds!Next
<1> QED
  BY <1>1, <1>2, RoundsTypeInvHolds, PTL DEF Rounds!Spec

\* A recipient is nudged once a day, and once more for each lost answer.
LEMMA RoundsNudgeInvHolds ==
    ASSUME RoundsHours
    PROVE  Rounds!Spec => []RoundsNudgeInv
<1>1. Rounds!Init => RoundsNudgeInv
  BY DEF Rounds!Init, RoundsNudgeInv, RoundsNudging, Rounds!NoRound
<1>2. ASSUME RoundsTypeInv, RoundsNudgeInv, [Rounds!Next]_(Rounds!vars)
      PROVE  RoundsNudgeInv'
  <2> USE DEF RoundsNudgeInv, RoundsNudging, RoundsTypeInv, Rounds!TypeOK, RoundsPlaced,
              Rounds!TaskJobs, Rounds!Jobs, Rounds!roundVars, Rounds!bounds
  <2>1. CASE Rounds!Hour
    BY <1>2, <2>1 DEF Rounds!Hour, Rounds!NoRound
  <2>2. CASE Rounds!Crash
    <3>1. /\ roundNudges' = roundNudges /\ roundTold' = roundTold /\ roundRound'.at = "idle"
          /\ roundLostNudges' = IF roundRound.at = "nudging"
                                THEN [roundLostNudges EXCEPT ![roundRound.tenant][roundRound.day] = @ + 1]
                                ELSE roundLostNudges
      BY <2>2 DEF Rounds!Crash, Rounds!NoRound
    <3>2. CASE roundRound.at = "nudging"
      <4>1. roundRound.tenant \in Owners /\ roundRound.day \in Rounds!Days
        BY <1>2, <3>2
      <4>2. \A t \in Owners, d \in Rounds!Days :
              /\ roundLostNudges'[t][d] \in Nat /\ roundLostNudges[t][d] \in Nat
              /\ roundLostNudges[t][d] <= roundLostNudges'[t][d]
              /\ RoundsNudging(t, d) => roundLostNudges'[t][d] = roundLostNudges[t][d] + 1
        BY <1>2, <3>1, <3>2, <4>1, RoundsRaisedIs DEF RoundsRaisedOne
      <4>3. ASSUME NEW t \in Owners, NEW r \in Readers, NEW d \in Rounds!Days
            PROVE  /\ roundNudges[t][r][d] <= 1 + roundLostNudges'[t][d]
                   /\ <<t, d>> \notin roundTold
                       => roundNudges[t][r][d] <= roundLostNudges'[t][d]
        <5>1. CASE RoundsNudging(t, d)
          BY <1>2, <4>2, <5>1
        <5>2. CASE ~RoundsNudging(t, d)
          BY <1>2, <4>2, <5>2
        <5> QED
          BY <5>1, <5>2
      <4> QED
        BY <3>1, <4>3
    <3>3. CASE roundRound.at # "nudging"
      BY <1>2, <3>1, <3>3
    <3> QED
      BY <3>2, <3>3
  <2>3. CASE Rounds!Restart
    BY <1>2, <2>3 DEF Rounds!Restart
  <2>4. ASSUME NEW t \in Owners, Rounds!NextTenant(t)
        PROVE  RoundsNudgeInv'
    BY <1>2, <2>4 DEF Rounds!NextTenant, Rounds!NoRound, Rounds!DueJobs
  <2>5. ASSUME NEW t \in Owners, NEW j \in Rounds!Jobs, NEW h \in 0..Rounds!Off,
               Rounds!EditSettings(t, j, h)
        PROVE  RoundsNudgeInv'
    BY <1>2, <2>5 DEF Rounds!EditSettings
  <2>6. CASE Rounds!RoundEnds
    BY <1>2, <2>6 DEF Rounds!RoundEnds, Rounds!NoRound
  <2>7. CASE Rounds!NoNudge
    BY <1>2, <2>7 DEF Rounds!NoNudge, Rounds!First
  <2>8. CASE Rounds!Nudge
    BY <1>2, <2>8 DEF Rounds!Nudge, Rounds!First, Rounds!NotNudged
  <2>9. CASE Rounds!AuditNudge
    BY <1>2, <2>9 DEF Rounds!AuditNudge
  <2>10. ASSUME NEW j \in Rounds!TaskJobs, Rounds!TriggerTask(j)
        PROVE  RoundsNudgeInv'
    BY <1>2, <2>10 DEF Rounds!TriggerTask, Rounds!Keyed, Rounds!BucketKey,
       Rounds!First
  <2>11. ASSUME NEW j \in Rounds!TaskJobs, Rounds!TaskStarted(j)
        PROVE  RoundsNudgeInv'
    BY <1>2, <2>11 DEF Rounds!TaskStarted, Rounds!First
  <2>12. ASSUME NEW j \in Rounds!TaskJobs, Rounds!TriggerFails(j)
        PROVE  RoundsNudgeInv'
    BY <1>2, <2>12 DEF Rounds!TriggerFails, Rounds!Fault, Rounds!Keyed,
       Rounds!BucketKey, Rounds!First
  <2>13. ASSUME NEW r \in Readers, Rounds!PushNudge(r)
        PROVE  RoundsNudgeInv'
    <3>1. /\ roundRound.tenant \in Owners /\ roundRound.day \in Rounds!Days
          /\ roundNudges' = RoundsAdded(roundNudges, roundRound.tenant, r, roundRound.day)
          /\ roundLostNudges' = roundLostNudges /\ roundTold' = roundTold
          /\ roundRound' = [roundRound EXCEPT !.to = @ \ {r}, !.got = TRUE]
      BY <1>2, <2>13 DEF Rounds!PushNudge, Rounds!Nudged, RoundsAdded
    <3>2. roundNudges[roundRound.tenant][r][roundRound.day] <= roundLostNudges[roundRound.tenant][roundRound.day]
      BY <1>2, <2>13, <3>1 DEF Rounds!PushNudge
    <3>a. roundNudges \in [Owners -> [Readers -> [Rounds!Days -> Nat]]]
        /\ roundLostNudges \in [Owners -> [Rounds!Days -> Nat]]
      BY <1>2
    <3>b. /\ roundNudges'[roundRound.tenant][r][roundRound.day] = roundNudges[roundRound.tenant][r][roundRound.day] + 1
          /\ \A t \in Owners, q \in Readers, d \in Rounds!Days :
               ~(t = roundRound.tenant /\ q = r /\ d = roundRound.day)
                   => roundNudges'[t][q][d] = roundNudges[t][q][d]
      <4>1. LET g == RoundsAdded(roundNudges, roundRound.tenant, r, roundRound.day) IN
            /\ g[roundRound.tenant][r][roundRound.day] = roundNudges[roundRound.tenant][r][roundRound.day] + 1
            /\ \A t \in Owners, q \in Readers, d \in Rounds!Days :
               ~(t = roundRound.tenant /\ q = r /\ d = roundRound.day)
                   => g[t][q][d] = roundNudges[t][q][d]
        BY <2>13, <3>1, <3>a DEF RoundsAdded
      <4> QED
        BY <3>1, <4>1
    <3>3. roundNudges'[roundRound.tenant][r][roundRound.day] <= 1 + roundLostNudges[roundRound.tenant][roundRound.day]
      BY <3>1, <3>2, <3>a, <3>b
    <3>4. \A t \in Owners, q \in Readers, d \in Rounds!Days :
            ~(t = roundRound.tenant /\ q = r /\ d = roundRound.day)
                => roundNudges'[t][q][d] = roundNudges[t][q][d]
      BY <3>b
    <3>5. /\ roundRound'.at = roundRound.at /\ roundRound'.tenant = roundRound.tenant
          /\ roundRound'.day = roundRound.day
          /\ roundRound'.to = roundRound.to \ {r} /\ roundRound'.got
      BY <1>2, <3>1
    <3>6. ASSUME NEW t \in Owners, NEW q \in Readers, NEW d \in Rounds!Days,
                 ~(t = roundRound.tenant /\ q = r /\ d = roundRound.day)
          PROVE  /\ roundNudges'[t][q][d] <= 1 + roundLostNudges'[t][d]
                 /\ <<t, d>> \notin roundTold' /\ ~RoundsNudging(t, d)'
                     => roundNudges'[t][q][d] <= roundLostNudges'[t][d]
                 /\ RoundsNudging(t, d)' /\ (q \in roundRound'.to \/ ~roundRound'.got) =>
                      roundNudges'[t][q][d] <= roundLostNudges'[t][d]
      BY <1>2, <3>1, <3>4, <3>5, <3>6
    <3>7. /\ RoundsNudging(roundRound.tenant, roundRound.day)' /\ r \notin roundRound'.to
          /\ roundRound'.got
      BY <2>13, <3>5 DEF Rounds!PushNudge
    <3>8. ASSUME NEW t \in Owners, NEW q \in Readers, NEW d \in Rounds!Days,
                 t = roundRound.tenant /\ q = r /\ d = roundRound.day
          PROVE  /\ roundNudges'[t][q][d] <= 1 + roundLostNudges'[t][d]
                 /\ RoundsNudging(t, d)' /\ q \notin roundRound'.to /\ roundRound'.got
      <4>1. t = roundRound.tenant /\ q = r /\ d = roundRound.day
        BY <3>8
      <4> QED
        BY <3>1, <3>3, <3>7, <4>1
    <3> QED
      <4> HIDE DEF RoundsNudging
      <4> QED
        BY <3>6, <3>8
  <2>14. ASSUME NEW r \in Readers, Rounds!NudgeFails(r)
        PROVE  RoundsNudgeInv'
    <3>1. /\ roundRound.tenant \in Owners /\ roundRound.day \in Rounds!Days
          /\ roundTold' = roundTold
          /\ roundRound' = [roundRound EXCEPT !.to = @ \ {r}]
      BY <1>2, <2>14 DEF Rounds!NudgeFails
    <3>2. roundNudges[roundRound.tenant][r][roundRound.day] <= roundLostNudges[roundRound.tenant][roundRound.day]
      BY <1>2, <2>14, <3>1 DEF Rounds!NudgeFails
    <3>3. /\ roundRound'.at = roundRound.at /\ roundRound'.tenant = roundRound.tenant
          /\ roundRound'.day = roundRound.day
          /\ roundRound'.to = roundRound.to \ {r} /\ roundRound'.got = roundRound.got
      BY <1>2, <3>1
    <3>4. CASE UNCHANGED <<roundNudges, roundLostNudges>>
      BY <1>2, <3>1, <3>3, <3>4
    <3>5. CASE /\ roundNudges' = RoundsAdded(roundNudges, roundRound.tenant, r, roundRound.day)
               /\ roundLostNudges' = RoundsRaisedOne(roundLostNudges, roundRound.tenant,
                                                     roundRound.day)
      <4>a. roundNudges \in [Owners -> [Readers -> [Rounds!Days -> Nat]]]
          /\ roundLostNudges \in [Owners -> [Rounds!Days -> Nat]]
        BY <1>2
      <4>1. /\ roundNudges'[roundRound.tenant][r][roundRound.day] = roundNudges[roundRound.tenant][r][roundRound.day] + 1
            /\ roundLostNudges'[roundRound.tenant][roundRound.day] = roundLostNudges[roundRound.tenant][roundRound.day] + 1
            /\ \A t \in Owners, d \in Rounds!Days : roundLostNudges[t][d] <= roundLostNudges'[t][d]
            /\ roundNudges' \in [Owners -> [Readers -> [Rounds!Days -> Nat]]]
            /\ roundLostNudges' \in [Owners -> [Rounds!Days -> Nat]]
        <5>1. /\ RoundsAdded(roundNudges, roundRound.tenant, r,
                             roundRound.day)[roundRound.tenant][r][roundRound.day]
                 = roundNudges[roundRound.tenant][r][roundRound.day] + 1
              /\ RoundsAdded(roundNudges, roundRound.tenant, r,
                             roundRound.day) \in [Owners -> [Readers -> [Rounds!Days -> Nat]]]
          BY <2>14, <3>1, <4>a DEF RoundsAdded
        <5>2. /\ RoundsRaisedOne(roundLostNudges, roundRound.tenant,
                                 roundRound.day)[roundRound.tenant][roundRound.day]
                 = roundLostNudges[roundRound.tenant][roundRound.day] + 1
              /\ RoundsRaisedOne(roundLostNudges, roundRound.tenant,
                                 roundRound.day) \in [Owners -> [Rounds!Days -> Nat]]
              /\ \A t \in Owners, d \in Rounds!Days :
                   roundLostNudges[t][d] <= RoundsRaisedOne(roundLostNudges, roundRound.tenant,
                                                            roundRound.day)[t][d]
          BY <3>1, <4>a DEF RoundsRaisedOne
        <5> QED
          BY <3>5, <5>1, <5>2
      <4>2. \A t \in Owners, q \in Readers, d \in Rounds!Days :
            ~(t = roundRound.tenant /\ q = r /\ d = roundRound.day)
                => roundNudges'[t][q][d] = roundNudges[t][q][d]
        BY <2>14, <3>1, <3>5, <4>a DEF RoundsAdded
      <4>3. ASSUME NEW t \in Owners, NEW q \in Readers, NEW d \in Rounds!Days,
                 ~(t = roundRound.tenant /\ q = r /\ d = roundRound.day)
          PROVE  /\ roundNudges'[t][q][d] <= 1 + roundLostNudges'[t][d]
                 /\ <<t, d>> \notin roundTold' /\ ~RoundsNudging(t, d)'
                     => roundNudges'[t][q][d] <= roundLostNudges'[t][d]
                 /\ RoundsNudging(t, d)' /\ (q \in roundRound'.to \/ ~roundRound'.got) =>
                      roundNudges'[t][q][d] <= roundLostNudges'[t][d]
        BY <1>2, <3>1, <3>3, <4>1, <4>2, <4>3
      <4>4. roundNudges'[roundRound.tenant][r][roundRound.day] <= roundLostNudges'[roundRound.tenant][roundRound.day]
        BY <1>2, <3>1, <3>2, <4>1
      <4>5. ASSUME NEW t \in Owners, NEW q \in Readers, NEW d \in Rounds!Days,
                   t = roundRound.tenant /\ q = r /\ d = roundRound.day
            PROVE  roundNudges'[t][q][d] <= roundLostNudges'[t][d]
                /\ roundNudges'[t][q][d] <= 1 + roundLostNudges'[t][d]
        <5>1. t = roundRound.tenant /\ q = r /\ d = roundRound.day
          BY <4>5
        <5> QED
          BY <3>1, <4>1, <4>4, <5>1
      <4> QED
        <5> HIDE DEF RoundsNudging
        <5> QED
          BY <4>3, <4>5
    <3> QED
      BY <2>14, <3>4, <3>5 DEF Rounds!NudgeFails, Rounds!Nudged, RoundsAdded,
         RoundsRaisedOne
  <2>15. CASE UNCHANGED Rounds!vars
    BY <1>2, <2>15 DEF Rounds!vars
  <2> QED
    BY <1>2, <2>1, <2>2, <2>3, <2>4, <2>5, <2>6, <2>7, <2>8, <2>9, <2>10,
       <2>11,
       <2>12, <2>13, <2>14, <2>15 DEF Rounds!Next
<1> QED
  BY <1>1, <1>2, RoundsTypeInvHolds, PTL DEF Rounds!Spec
-----------------------------------------------------------------------------
(* Its connect links                                                         *)

ConsentShapes ==
    /\ consentTicket \in [Consents -> {"none", "state", "spent", "selection"}]
    /\ consentWants \in [Consents -> Consent!Requests \cup {{"meta"}, {}}]
    /\ consentOffered \in [Consents -> SUBSET Places]
    /\ consentAccount \in [Consent!Platforms -> [by : Consents \cup {None},
                                                 place : Places \cup {None}]]
    /\ consentLinks \in [Consents -> Nat] /\ consentBackfills \subseteq Consents
    /\ consentPc \in [Slots -> {"idle", "exchanging", "asking", "fetching"}]
    /\ consentJob \in [Slots -> [consent : Consents \cup {None}, place : Places \cup {None}]]
    /\ \A t \in Slots : consentPc[t] # "idle" => consentJob[t].consent \in Consents

ConsentBusy(t, c) == consentPc[t] # "idle" /\ consentJob[t].consent = c

\* A consent in the store is in no request, and is in one request at most;
\* either way it has completed nothing yet.
ConsentTokens ==
    \A c \in Consents :
        /\ \A t \in Slots : ConsentBusy(t, c) => consentTicket[c] = "spent"
        /\ \A t, u \in Slots : ConsentBusy(t, c) /\ ConsentBusy(u, c) => t = u
        /\ consentTicket[c] # "spent" => consentLinks[c] = 0
        /\ \A t \in Slots : ConsentBusy(t, c) => consentLinks[c] = 0
        /\ consentLinks[c] <= 1

\* Before its discovery nothing of a consent is connected or looked up.
ConsentUndiscovered(c) ==
    \/ consentTicket[c] \in {"none", "state"}
    \/ \E t \in Slots : consentPc[t] = "exchanging" /\ consentJob[t].consent = c

ConsentUntouched ==
    \A c \in Consents : ConsentUndiscovered(c) =>
        /\ c \notin consentBackfills
        /\ \A p \in Consent!Platforms : consentAccount[p].by # c

\* The page being fetched was offered, and was asked for.
ConsentPicks ==
    \A t \in Slots : consentPc[t] = "fetching" =>
        /\ consentJob[t].place \in consentOffered[consentJob[t].consent]
        /\ "meta" \in consentWants[consentJob[t].consent]

ConsentLateOnes == \A c \in consentBackfills : "gbp" \in consentWants[c]

ConsentOffers ==
    \A p \in Consent!Platforms : consentAccount[p] # Consent!Nothing =>
        /\ consentAccount[p].by \in Consents
        /\ p \in consentWants[consentAccount[p].by]
        /\ consentAccount[p].place \in consentOffered[consentAccount[p].by] \cup {None}

ConsentInv == ConsentShapes /\ ConsentTokens /\ ConsentUntouched /\ ConsentPicks
    /\ ConsentLateOnes /\ ConsentOffers
-----------------------------------------------------------------------------
(* The moves of a consent *)

\* Its token is taken, put back as the selection's, or expires; no request
\* holds the consent unless it just took or just gave up the token.
LEMMA ConsentTicketMoves ==
    ASSUME ConsentInv, NEW c \in Consents,
           NEW n \in {"spent", "selection"},
           consentTicket' = [consentTicket EXCEPT ![c] = n],
           n = "selection" => (consentLinks[c] = 0 /\ \A t \in Slots : ~ConsentBusy(t, c)'),
           consentPc' \in [Slots -> {"idle", "exchanging", "asking", "fetching"}],
           consentJob' \in [Slots -> [consent : Consents \cup {None},
                                      place : Places \cup {None}]],
           \A t \in Slots : consentPc'[t] # "idle" => consentJob'[t].consent \in Consents,
           \A t \in Slots, d \in Consents : d # c /\ ConsentBusy(t, d)' => ConsentBusy(t, d),
           \A t \in Slots : ConsentBusy(t, c)' => consentLinks[c] = 0,
           \A t, u \in Slots : ConsentBusy(t, c)' /\ ConsentBusy(u, c)' => t = u,
           \A d \in Consents : ConsentUndiscovered(d)' => ConsentUndiscovered(d),
           ConsentPicks',
           UNCHANGED <<consentWants, consentOffered, consentAccount, consentLinks,
                       consentBackfills>>
    PROVE  ConsentInv'
<1>1. /\ consentTicket'[c] = n /\ \A d \in Consents : d # c
         => consentTicket'[d] = consentTicket[d]
      /\ consentTicket' \in [Consents -> {"none", "state", "spent", "selection"}]
  BY DEF ConsentInv, ConsentShapes
<1>2. ConsentShapes'
  BY <1>1 DEF ConsentInv, ConsentShapes
<1>3. ConsentTokens'
  <2> SUFFICES ASSUME NEW d \in Consents
               PROVE  /\ \A t \in Slots : ConsentBusy(t, d)' => consentTicket'[d] = "spent"
                      /\ \A t, u \in Slots : ConsentBusy(t, d)' /\ ConsentBusy(u, d)' => t = u
                      /\ consentTicket'[d] # "spent" => consentLinks[d] = 0
                      /\ \A t \in Slots : ConsentBusy(t, d)' => consentLinks[d] = 0
                      /\ consentLinks[d] <= 1
    BY DEF ConsentTokens
  <2>1. CASE d = c
    BY <1>1, <2>1 DEF ConsentInv, ConsentTokens
  <2>2. CASE d # c
    BY <1>1, <2>2 DEF ConsentInv, ConsentTokens
  <2> QED
    BY <2>1, <2>2
<1>4. ConsentUntouched' /\ ConsentLateOnes' /\ ConsentOffers'
  BY DEF ConsentInv, ConsentUntouched, ConsentLateOnes, ConsentOffers
<1> QED
  BY <1>2, <1>3, <1>4 DEF ConsentInv

\* A request leaves and connects nothing: failures, a visit that found no
\* page, a choice that is not among the offered ones.
LEMMA ConsentLeavingKeeps ==
    ASSUME ConsentInv, NEW t \in Slots, Consent!Return(t),
           UNCHANGED <<consentTicket, consentWants, consentOffered, consentAccount,
                       consentLinks, consentBackfills>>
    PROVE  ConsentInv'
<1>1. /\ consentPc' = [consentPc EXCEPT ![t] = "idle"]
      /\ consentJob' = [consentJob EXCEPT ![t] = Consent!NoJob]
  BY DEF Consent!Return, Consent!GoTo
<1>2. Consent!NoJob \in [consent : Consents \cup {None}, place : Places \cup {None}]
  BY DEF Consent!NoJob
<1>3. /\ consentPc' \in [Slots -> {"idle", "exchanging", "asking", "fetching"}]
      /\ consentJob' \in [Slots -> [consent : Consents \cup {None},
                                    place : Places \cup {None}]]
      /\ consentPc'[t] = "idle"
      /\ \A u \in Slots : u # t
          => consentPc'[u] = consentPc[u] /\ consentJob'[u] = consentJob[u]
  BY <1>1, <1>2 DEF ConsentInv, ConsentShapes
<1>4. ConsentShapes'
  BY <1>3 DEF ConsentInv, ConsentShapes
<1>5. \A u \in Slots, c \in Consents : ConsentBusy(u, c)' => ConsentBusy(u, c)
  BY <1>3 DEF ConsentBusy
<1>6. ConsentTokens'
  BY <1>5 DEF ConsentInv, ConsentTokens
<1>7. \A c \in Consents : ConsentUndiscovered(c)' => ConsentUndiscovered(c)
  BY <1>3 DEF ConsentUndiscovered
<1>8. ConsentUntouched'
  BY <1>7 DEF ConsentInv, ConsentUntouched
<1>9. ConsentPicks'
  BY <1>3 DEF ConsentInv, ConsentPicks
<1>10. ConsentLateOnes' /\ ConsentOffers'
  BY DEF ConsentInv, ConsentLateOnes, ConsentOffers
<1> QED
  BY <1>4, <1>6, <1>8, <1>9, <1>10 DEF ConsentInv

\* The discovery of a consent ends, by asking, by connecting or by nothing:
\* it had connected nothing, so the places it offers may be new.
LEMMA ConsentDiscoveryKeeps ==
    ASSUME None \notin Consents, ConsentInv, NEW t \in Slots, consentPc[t] = "exchanging",
           NEW c \in Consents, c = consentJob[t].consent,
           NEW at \in {"idle", "asking"}, NEW j,
           j = IF at = "idle" THEN Consent!NoJob ELSE consentJob[t],
           Consent!GoTo(t, at, j),
           consentOffered' \in [Consents -> SUBSET Places],
           \A d \in Consents : d # c => consentOffered'[d] = consentOffered[d],
           consentAccount' \in [Consent!Platforms -> [by : Consents \cup {None},
                                                      place : Places \cup {None}]],
           \A p \in Consent!Platforms :
              \/ consentAccount'[p] = consentAccount[p]
              \/ /\ consentAccount'[p].by = c /\ p \in consentWants[c]
                 /\ consentAccount'[p].place \in consentOffered'[c] \cup {None},
           consentLinks' \in {consentLinks, [consentLinks EXCEPT ![c] = @ + 1]},
           at = "asking" => consentLinks' = consentLinks,
           consentBackfills' \in {consentBackfills, consentBackfills \cup {c}},
           c \in consentBackfills' => "gbp" \in consentWants[c],
           UNCHANGED <<consentTicket, consentWants>>
    PROVE  ConsentInv'
<1>1. ConsentBusy(t, c)
  BY DEF ConsentBusy
<1>2. /\ consentTicket[c] = "spent" /\ consentLinks[c] = 0
      /\ \A u \in Slots : u # t => ~ConsentBusy(u, c)
      /\ c \notin consentBackfills /\ \A p \in Consent!Platforms : consentAccount[p].by # c
  BY <1>1 DEF ConsentInv, ConsentTokens, ConsentUntouched, ConsentUndiscovered
<1>3. /\ consentPc' = [consentPc EXCEPT ![t] = at] /\ consentJob' = [consentJob EXCEPT ![t] = j]
      /\ j \in [consent : Consents \cup {None}, place : Places \cup {None}]
  BY DEF Consent!GoTo, Consent!NoJob, ConsentInv, ConsentShapes
<1>4. /\ consentPc' \in [Slots -> {"idle", "exchanging", "asking", "fetching"}]
      /\ consentJob' \in [Slots -> [consent : Consents \cup {None},
                                    place : Places \cup {None}]]
      /\ consentPc'[t] = at /\ consentJob'[t] = j
      /\ \A u \in Slots : u # t
          => consentPc'[u] = consentPc[u] /\ consentJob'[u] = consentJob[u]
  BY <1>3 DEF ConsentInv, ConsentShapes
<1>5. /\ consentLinks' \in [Consents -> Nat]
      /\ \A d \in Consents : d # c => consentLinks'[d] = consentLinks[d]
      /\ consentLinks'[c] \in {0, 1} /\ (at = "asking" => consentLinks'[c] = 0)
  <2>1. CASE consentLinks' = consentLinks
    BY <1>2, <2>1 DEF ConsentInv, ConsentShapes
  <2>2. CASE consentLinks' = [consentLinks EXCEPT ![c] = @ + 1] /\ at # "asking"
    <3>1. consentLinks' = [consentLinks EXCEPT ![c] = 1]
      BY <1>2, <2>2
    <3> QED
      BY <2>2, <3>1 DEF ConsentInv, ConsentShapes
  <2> QED
    BY <2>1, <2>2
<1>6. ConsentShapes'
  BY <1>4, <1>5 DEF ConsentInv, ConsentShapes
<1>7. \A u \in Slots, d \in Consents :
         /\ ConsentBusy(u, d)' => ConsentBusy(u, d)
         /\ ConsentBusy(u, c)' => u = t /\ at = "asking"
  BY <1>2, <1>4 DEF ConsentBusy
<1>8. ConsentTokens'
  <2> SUFFICES ASSUME NEW d \in Consents
               PROVE  /\ \A u \in Slots : ConsentBusy(u, d)' => consentTicket[d] = "spent"
                      /\ \A u, v \in Slots : ConsentBusy(u, d)' /\ ConsentBusy(v, d)' => u = v
                      /\ consentTicket[d] # "spent" => consentLinks'[d] = 0
                      /\ \A u \in Slots : ConsentBusy(u, d)' => consentLinks'[d] = 0
                      /\ consentLinks'[d] <= 1
    BY DEF ConsentTokens
  <2>1. CASE d = c
    BY <1>2, <1>5, <1>7, <2>1
  <2>2. CASE d # c
    BY <1>5, <1>7, <2>2 DEF ConsentInv, ConsentTokens
  <2> QED
    BY <2>1, <2>2
<1>9. ConsentUntouched'
  <2> SUFFICES ASSUME NEW d \in Consents, ConsentUndiscovered(d)'
               PROVE  d \notin consentBackfills'
                   /\ \A p \in Consent!Platforms : consentAccount'[p].by # d
    BY DEF ConsentUntouched
  <2>1. d # c
    BY <1>2, <1>4 DEF ConsentUndiscovered, ConsentBusy
  <2>2. ConsentUndiscovered(d)
    BY <1>4 DEF ConsentUndiscovered
  <2> QED
    BY <2>1, <2>2 DEF ConsentInv, ConsentUntouched
<1>10. ConsentPicks'
  <2> SUFFICES ASSUME NEW u \in Slots, consentPc'[u] = "fetching"
               PROVE  /\ consentJob'[u].place \in consentOffered'[consentJob'[u].consent]
                      /\ "meta" \in consentWants[consentJob'[u].consent]
    BY DEF ConsentPicks
  <2>1. u # t /\ consentPc[u] = "fetching" /\ consentJob'[u] = consentJob[u]
    BY <1>4
  <2>2. consentJob[u].consent \in Consents /\ consentJob[u].consent # c
    BY <1>2, <2>1 DEF ConsentBusy, ConsentInv, ConsentShapes
  <2> QED
    BY <2>1, <2>2 DEF ConsentInv, ConsentPicks
<1>11. ConsentLateOnes'
  BY DEF ConsentInv, ConsentLateOnes
<1>12. ConsentOffers'
  <2> SUFFICES ASSUME NEW p \in Consent!Platforms, consentAccount'[p] # Consent!Nothing
               PROVE  /\ consentAccount'[p].by \in Consents
                      /\ p \in consentWants[consentAccount'[p].by]
                      /\ consentAccount'[p].place \in consentOffered'[consentAccount'[p].by] \cup {None}
    BY DEF ConsentOffers
  <2>1. CASE consentAccount'[p] = consentAccount[p]
    <3>1. consentAccount[p].by \in Consents /\ consentAccount[p].by # c
      BY <1>2, <2>1 DEF ConsentInv, ConsentOffers
    <3> QED
      BY <2>1, <3>1 DEF ConsentInv, ConsentOffers
  <2>2. CASE consentAccount'[p] # consentAccount[p]
    BY <2>2
  <2> QED
    BY <2>1, <2>2
<1> QED
  BY <1>6, <1>8, <1>9, <1>10, <1>11, <1>12 DEF ConsentInv

-----------------------------------------------------------------------------
(* Connections *)

\* One platform gets a row of a consent that is past its discovery; the row's
\* place was offered to it.
LEMMA ConsentConnectingKeeps ==
    ASSUME ConsentInv, NEW c \in Consents, ~ConsentUndiscovered(c)',
           NEW q \in Consent!Platforms, q \in consentWants[c],
           NEW x \in Places, consentAccount' = [consentAccount EXCEPT ![q] = [by |-> c,
                                                                              place |-> x]],
           consentOffered' \in [Consents -> SUBSET Places], x \in consentOffered'[c],
           \A d \in Consents : consentOffered[d] \subseteq consentOffered'[d],
           consentLinks' \in {consentLinks, [consentLinks EXCEPT ![c] = @ + 1]},
           consentLinks' # consentLinks => consentLinks[c] = 0,
           consentTicket' \in {consentTicket, [consentTicket EXCEPT ![c] = "spent"]},
           consentLinks' # consentLinks
               => consentTicket'[c] = "spent" /\ \A t \in Slots : ~ConsentBusy(t, c)',
           consentPc' \in [Slots -> {"idle", "exchanging", "asking", "fetching"}],
           consentJob' \in [Slots -> [consent : Consents \cup {None},
                                      place : Places \cup {None}]],
           \A t \in Slots : consentPc'[t] # "idle"
               => consentPc'[t] = consentPc[t] /\ consentJob'[t] = consentJob[t],
           consentBackfills' \subseteq consentBackfills, consentWants' = consentWants
    PROVE  ConsentInv'
<1>1. /\ consentLinks' \in [Consents -> Nat]
      /\ \A d \in Consents : d # c => consentLinks'[d] = consentLinks[d]
      /\ consentLinks'[c] = consentLinks[c]
          \/ (consentLinks'[c] = 1 /\ consentLinks' # consentLinks)
  BY DEF ConsentInv, ConsentShapes
<1>2. /\ consentTicket' \in [Consents -> {"none", "state", "spent", "selection"}]
      /\ \A d \in Consents : consentTicket'[d] = consentTicket[d] \/ consentTicket'[d] = "spent"
  BY DEF ConsentInv, ConsentShapes
<1>3. /\ consentAccount' \in [Consent!Platforms -> [by : Consents \cup {None},
                                                    place : Places \cup {None}]]
      /\ consentAccount'[q] = [by |-> c, place |-> x]
      /\ \A p \in Consent!Platforms : p # q => consentAccount'[p] = consentAccount[p]
  BY DEF ConsentInv, ConsentShapes
<1>4. ConsentShapes'
  BY <1>1, <1>2, <1>3 DEF ConsentInv, ConsentShapes
<1>5. \A t \in Slots, d \in Consents : ConsentBusy(t, d)' => ConsentBusy(t, d)
  BY DEF ConsentBusy
<1>6. ConsentTokens'
  <2> SUFFICES ASSUME NEW d \in Consents
               PROVE  /\ \A u \in Slots : ConsentBusy(u, d)' => consentTicket'[d] = "spent"
                      /\ \A u, v \in Slots : ConsentBusy(u, d)' /\ ConsentBusy(v, d)' => u = v
                      /\ consentTicket'[d] # "spent" => consentLinks'[d] = 0
                      /\ \A u \in Slots : ConsentBusy(u, d)' => consentLinks'[d] = 0
                      /\ consentLinks'[d] <= 1
    BY DEF ConsentTokens
  <2>1. CASE consentLinks'[d] = consentLinks[d]
    BY <1>2, <1>5, <2>1 DEF ConsentInv, ConsentTokens
  <2>2. CASE consentLinks'[d] # consentLinks[d]
    BY <1>1, <1>5, <2>2 DEF ConsentInv, ConsentTokens
  <2> QED
    BY <2>1, <2>2
<1>7. ConsentUntouched'
  <2> SUFFICES ASSUME NEW d \in Consents, ConsentUndiscovered(d)'
               PROVE  d \notin consentBackfills'
                   /\ \A p \in Consent!Platforms : consentAccount'[p].by # d
    BY DEF ConsentUntouched
  <2>1. d # c /\ ConsentUndiscovered(d)
    BY <1>2 DEF ConsentUndiscovered
  <2> QED
    BY <1>3, <2>1 DEF ConsentInv, ConsentUntouched
<1>8. ConsentPicks'
  BY DEF ConsentInv, ConsentShapes, ConsentPicks
<1>9. ConsentLateOnes'
  BY DEF ConsentInv, ConsentLateOnes
<1>10. ConsentOffers'
  BY <1>3 DEF ConsentInv, ConsentOffers
<1> QED
  BY <1>4, <1>6, <1>7, <1>8, <1>9, <1>10 DEF ConsentInv

-----------------------------------------------------------------------------
(* The invariant *)

\* Visits, callbacks, choices, late locations, disconnections and restarts
\* keep it.
LEMMA ConsentInvHolds ==
    ASSUME None \notin Consents
    PROVE  Consent!Spec => []ConsentInv
<1>1. Consent!Init => ConsentInv
  <2> SUFFICES ASSUME Consent!Init PROVE ConsentInv
    OBVIOUS
  <2>1. ConsentShapes
    BY DEF Consent!Init, ConsentShapes, Consent!Nothing, Consent!NoJob
  <2>2. ConsentTokens /\ ConsentUntouched /\ ConsentPicks /\ ConsentLateOnes
    BY DEF Consent!Init, Consent!Nothing, ConsentTokens, ConsentBusy,
       ConsentUntouched, ConsentPicks, ConsentLateOnes
  <2>3. ConsentOffers
    BY DEF Consent!Init, ConsentOffers
  <2> QED
    BY <2>1, <2>2, <2>3 DEF ConsentInv
<1>2. ASSUME ConsentInv, [Consent!Next]_(Consent!vars)
      PROVE  ConsentInv'
  <2>1. ASSUME NEW c \in Consents, Consent!GoogleConnect(c) \/ Consent!MetaConnect(c)
        PROVE  ConsentInv'
    <3>1. PICK w \in Consent!Requests \cup {{"meta"}} : Consent!StoreState(c, w)
      BY <2>1 DEF Consent!GoogleConnect, Consent!MetaConnect
    <3>2. /\ consentTicket[c] = "none"
          /\ consentTicket' = [consentTicket EXCEPT ![c] = "state"]
          /\ consentWants' = [consentWants EXCEPT ![c] = w]
          /\ UNCHANGED <<consentOffered, consentAccount, consentLinks, consentBackfills,
                         consentPc, consentJob>>
      BY <3>1 DEF Consent!StoreState, Consent!procVars
    <3>3. /\ consentTicket'[c] = "state" /\ \A d \in Consents : d # c
             => consentTicket'[d] = consentTicket[d]
          /\ \A d \in Consents : d # c => consentWants'[d] = consentWants[d]
          /\ consentTicket' \in [Consents -> {"none", "state", "spent", "selection"}]
          /\ consentWants' \in [Consents -> Consent!Requests \cup {{"meta"}, {}}]
      BY <1>2, <3>2 DEF ConsentInv, ConsentShapes
    <3>4. ConsentShapes'
      BY <1>2, <3>2, <3>3 DEF ConsentInv, ConsentShapes
    <3>5. consentLinks[c] = 0 /\ \A t \in Slots : ~ConsentBusy(t, c)
      BY <1>2, <3>2 DEF ConsentInv, ConsentTokens
    <3>6. ConsentTokens'
      BY <1>2, <3>2, <3>3, <3>5 DEF ConsentInv, ConsentTokens, ConsentBusy
    <3>7. c \notin consentBackfills /\ \A p \in Consent!Platforms : consentAccount[p].by # c
      BY <1>2, <3>2 DEF ConsentInv, ConsentUntouched, ConsentUndiscovered
    <3>8. ConsentUntouched'
      BY <1>2, <3>2, <3>3, <3>7 DEF ConsentInv, ConsentUntouched,
         ConsentUndiscovered
    <3>9. ConsentPicks'
      BY <1>2, <3>2, <3>3, <3>5 DEF ConsentInv, ConsentShapes, ConsentPicks,
         ConsentBusy
    <3>10. ConsentLateOnes'
      BY <1>2, <3>2, <3>3, <3>7 DEF ConsentInv, ConsentShapes, ConsentLateOnes
    <3>11. ConsentOffers'
      BY <1>2, <3>2, <3>3, <3>7 DEF ConsentInv, ConsentOffers
    <3> QED
      BY <3>4, <3>6, <3>8, <3>9, <3>10, <3>11 DEF ConsentInv
  <2>2. ASSUME NEW c \in Consents, Consent!Pop(c),
               UNCHANGED <<consentWants, consentOffered, consentAccount, consentLinks,
                           consentBackfills, consentPc, consentJob>>
        PROVE  ConsentInv'
    <3>1. /\ consentTicket' = [consentTicket EXCEPT ![c] = "spent"]
          /\ UNCHANGED <<consentWants, consentOffered, consentAccount, consentLinks,
                         consentBackfills, consentPc, consentJob>>
      BY <2>2 DEF Consent!Pop
    <3>2. \A t \in Slots, d \in Consents : ConsentBusy(t, d)' = ConsentBusy(t, d)
      BY <3>1 DEF ConsentBusy
    <3>3. \A d \in Consents : ConsentUndiscovered(d)' => ConsentUndiscovered(d)
      BY <1>2, <3>1 DEF ConsentUndiscovered, ConsentInv, ConsentShapes
    <3>4. ConsentPicks'
      BY <1>2, <3>1 DEF ConsentInv, ConsentPicks
    <3>5. /\ consentPc' \in [Slots -> {"idle", "exchanging", "asking", "fetching"}]
          /\ consentJob' \in [Slots -> [consent : Consents \cup {None},
                                        place : Places \cup {None}]]
          /\ \A t \in Slots : consentPc'[t] # "idle" => consentJob'[t].consent \in Consents
      BY <1>2, <3>1 DEF ConsentInv, ConsentShapes
    <3>6. /\ \A t \in Slots : ConsentBusy(t, c)' => consentLinks[c] = 0
          /\ \A t, u \in Slots : ConsentBusy(t, c)' /\ ConsentBusy(u, c)' => t = u
      BY <1>2, <3>2 DEF ConsentInv, ConsentTokens
    <3> QED
      BY <1>2, <3>1, <3>2, <3>3, <3>4, <3>5, <3>6, ConsentTicketMoves
  <2>3. ASSUME NEW c \in Consents, NEW t \in Slots,
               NEW at \in {"exchanging", "fetching"}, NEW x \in Places \cup {None},
               consentPc[t] = "idle", Consent!Pop(c),
               Consent!GoTo(t, at, [consent |-> c, place |-> x]),
               at = "exchanging" => consentTicket[c] = "state",
               at = "fetching" => /\ consentTicket[c] = "selection"
                                  /\ x \in consentOffered[c] /\ "meta" \in consentWants[c],
               UNCHANGED <<consentWants, consentOffered, consentAccount, consentLinks,
                           consentBackfills>>
        PROVE  ConsentInv'
    <3> DEFINE j == [consent |-> c, place |-> x]
    <3>1. /\ consentTicket' = [consentTicket EXCEPT ![c] = "spent"]
          /\ consentPc' = [consentPc EXCEPT ![t] = at]
          /\ consentJob' = [consentJob EXCEPT ![t] = j]
          /\ UNCHANGED <<consentWants, consentOffered, consentAccount, consentLinks,
                         consentBackfills>>
      BY <2>3 DEF Consent!Pop, Consent!GoTo
    <3>2. j \in [consent : Consents \cup {None}, place : Places \cup {None}]
          /\ j.consent = c /\ j.place = x
      BY <2>3
    <3> HIDE DEF j
    <3>3. /\ consentPc' \in [Slots -> {"idle", "exchanging", "asking", "fetching"}]
          /\ consentJob' \in [Slots -> [consent : Consents \cup {None},
                                        place : Places \cup {None}]]
          /\ consentPc'[t] = at /\ consentJob'[t] = j
          /\ \A u \in Slots : u # t
              => consentPc'[u] = consentPc[u] /\ consentJob'[u] = consentJob[u]
      BY <1>2, <3>1, <3>2 DEF ConsentInv, ConsentShapes
    <3>4. \A u \in Slots : consentPc'[u] # "idle" => consentJob'[u].consent \in Consents
      BY <1>2, <3>2, <3>3 DEF ConsentInv, ConsentShapes
    <3>5. consentTicket[c] # "spent" /\ consentLinks[c] = 0
        /\ \A u \in Slots : ~ConsentBusy(u, c)
      BY <1>2, <2>3 DEF ConsentInv, ConsentTokens
    <3>6. /\ \A u \in Slots, d \in Consents : d # c /\ ConsentBusy(u, d)' => ConsentBusy(u, d)
          /\ \A u \in Slots : ConsentBusy(u, c)' => u = t
      BY <3>2, <3>3, <3>5 DEF ConsentBusy
    <3>7. \A d \in Consents : ConsentUndiscovered(d)' => ConsentUndiscovered(d)
      <4> SUFFICES ASSUME NEW d \in Consents,
                          ConsentUndiscovered(d)' PROVE ConsentUndiscovered(d)
        OBVIOUS
      <4>1. CASE d = c
        BY <1>2, <2>3, <3>1, <3>3, <3>5, <4>1 DEF ConsentUndiscovered,
           ConsentBusy, ConsentInv, ConsentShapes
      <4>2. CASE d # c
        BY <1>2, <3>1, <3>2, <3>3, <4>2 DEF ConsentUndiscovered, ConsentInv,
           ConsentShapes
      <4> QED
        BY <4>1, <4>2
    <3>8. ConsentPicks'
      BY <1>2, <2>3, <3>1, <3>2, <3>3 DEF ConsentInv, ConsentPicks
    <3>9. \A u, v \in Slots : ConsentBusy(u, c)' /\ ConsentBusy(v, c)' => u = v
      BY <3>6
    <3> QED
      BY <1>2, <3>1, <3>3, <3>4, <3>5, <3>6, <3>7, <3>8, <3>9,
         ConsentTicketMoves
  <2>4. ASSUME NEW c \in Consents, Consent!Expire(c) \/ Consent!PopLost(c)
        PROVE  ConsentInv'
    <3>1. Consent!Pop(c)
        /\ UNCHANGED <<consentWants, consentOffered, consentAccount, consentLinks,
                       consentBackfills, consentPc, consentJob>>
      BY <2>4 DEF Consent!Expire, Consent!PopLost, Consent!Pop,
         Consent!procVars
    <3> QED
      BY <1>2, <2>2, <3>1
  <2>5. ASSUME NEW c \in Consents, NEW t \in Slots, Consent!Callback(t, c)
        PROVE  ConsentInv'
    BY <1>2, <2>3, <2>5 DEF Consent!Callback
  <2>6. ASSUME NEW c \in Consents, NEW t \in Slots, NEW x \in Places,
               Consent!SelectPage(t, c, x)
        PROVE  ConsentInv'
    <3>1. CASE x \in consentOffered[c]
      BY <1>2, <2>3, <2>6, <3>1 DEF Consent!SelectPage
    <3>2. CASE x \notin consentOffered[c]
      BY <1>2, <2>2, <2>6, <3>2 DEF Consent!SelectPage, Consent!procVars
    <3> QED
      BY <3>1, <3>2
  <2>7. ASSUME NEW c \in Consents, NEW t \in Slots, NEW x \in Places,
               Consent!SelectLocation(t, c, x)
        PROVE  ConsentInv'
    <3>1. /\ Consent!Pop(c) /\ consentTicket[c] = "selection" /\ "gbp" \in consentWants[c]
          /\ UNCHANGED <<consentWants, consentOffered, consentBackfills, consentPc, consentJob>>
      BY <2>7 DEF Consent!SelectLocation, Consent!procVars
    <3>2. CASE x \in consentOffered[c]
      <4>1. /\ consentAccount' = [consentAccount EXCEPT !["gbp"] = [by |-> c, place |-> x]]
            /\ consentLinks' = [consentLinks EXCEPT ![c] = @ + 1]
            /\ consentTicket' = [consentTicket EXCEPT ![c] = "spent"]
        BY <2>7, <3>1, <3>2 DEF Consent!SelectLocation, Consent!SavedLocation,
           Consent!Linked, Consent!Pop
      <4>2. consentLinks[c] = 0 /\ (\A u \in Slots : ~ConsentBusy(u, c))
          /\ consentTicket'[c] = "spent"
        BY <1>2, <3>1, <4>1 DEF ConsentInv, ConsentShapes, ConsentTokens
      <4>3. \A u \in Slots : ~ConsentBusy(u, c)'
        BY <3>1, <4>2 DEF ConsentBusy
      <4>4. ~ConsentUndiscovered(c)'
        BY <4>2, <4>3 DEF ConsentUndiscovered, ConsentBusy
      <4>5. /\ consentPc' \in [Slots -> {"idle", "exchanging", "asking", "fetching"}]
            /\ consentJob' \in [Slots -> [consent : Consents \cup {None},
                                          place : Places \cup {None}]]
            /\ \A u \in Slots : consentPc'[u] # "idle"
                => consentPc'[u] = consentPc[u] /\ consentJob'[u] = consentJob[u]
            /\ consentOffered' \in [Consents -> SUBSET Places] /\ x \in consentOffered'[c]
            /\ \A d \in Consents : consentOffered[d] \subseteq consentOffered'[d]
        BY <1>2, <3>1, <3>2 DEF ConsentInv, ConsentShapes
      <4>6. "gbp" \in Consent!Platforms
        BY DEF Consent!Platforms
      <4> QED
        BY <1>2, <3>1, <4>1, <4>2, <4>3, <4>4, <4>5, <4>6,
           ConsentConnectingKeeps
    <3>3. CASE x \notin consentOffered[c]
      BY <1>2, <2>2, <2>7, <3>1, <3>3 DEF Consent!SelectLocation
    <3> QED
      BY <3>2, <3>3
  <2>8. ASSUME NEW t \in Slots, Consent!ExchangeFails(t) \/ Consent!AskFails(t)
        PROVE  ConsentInv'
    <3>1. Consent!Return(t)
        /\ UNCHANGED <<consentTicket, consentWants, consentOffered, consentAccount,
                       consentLinks, consentBackfills>>
      BY <2>8 DEF Consent!ExchangeFails, Consent!AskFails
    <3> QED
      BY <1>2, <3>1, ConsentLeavingKeeps
  <2>9. ASSUME NEW t \in Slots, Consent!AskPlace(t)
        PROVE  ConsentInv'
    <3>0. PICK c : c = consentJob[t].consent
      OBVIOUS
    <3>1. /\ consentPc[t] = "asking"
          /\ consentTicket' = [consentTicket EXCEPT ![c] = "selection"]
          /\ consentPc' = [consentPc EXCEPT ![t] = "idle"]
          /\ consentJob' = [consentJob EXCEPT ![t] = Consent!NoJob]
          /\ UNCHANGED <<consentWants, consentOffered, consentAccount, consentLinks,
                         consentBackfills>>
      BY <2>9, <3>0 DEF Consent!AskPlace, Consent!Return, Consent!GoTo
    <3>2. c \in Consents /\ ConsentBusy(t, c)
      BY <1>2, <3>0, <3>1 DEF ConsentInv, ConsentShapes, ConsentBusy
    <3>3. Consent!NoJob \in [consent : Consents \cup {None}, place : Places \cup {None}]
      BY DEF Consent!NoJob
    <3>4. /\ consentPc' \in [Slots -> {"idle", "exchanging", "asking", "fetching"}]
          /\ consentJob' \in [Slots -> [consent : Consents \cup {None},
                                        place : Places \cup {None}]]
          /\ consentPc'[t] = "idle"
          /\ \A u \in Slots : u # t
              => consentPc'[u] = consentPc[u] /\ consentJob'[u] = consentJob[u]
      BY <1>2, <3>1, <3>3 DEF ConsentInv, ConsentShapes
    <3>5. \A u \in Slots, d \in Consents : ConsentBusy(u, d)' => ConsentBusy(u, d) /\ u # t
      BY <3>4 DEF ConsentBusy
    <3>6. consentLinks[c] = 0 /\ \A u \in Slots : ConsentBusy(u, c) => u = t
      BY <1>2, <3>2 DEF ConsentInv, ConsentTokens
    <3>7. \A u \in Slots : ~ConsentBusy(u, c)'
      BY <3>2, <3>5, <3>6
    <3>8. \A d \in Consents : ConsentUndiscovered(d)' => ConsentUndiscovered(d)
      BY <1>2, <3>1, <3>4 DEF ConsentUndiscovered, ConsentInv, ConsentShapes
    <3>9. ConsentPicks'
      BY <1>2, <3>1, <3>4 DEF ConsentInv, ConsentPicks
    <3>10. \A u \in Slots : consentPc'[u] # "idle" => consentJob'[u].consent \in Consents
      BY <1>2, <3>4 DEF ConsentInv, ConsentShapes
    <3> QED
      BY <1>2, <3>1, <3>2, <3>4, <3>5, <3>6, <3>7, <3>8, <3>9, <3>10,
         ConsentTicketMoves
  <2>10. ASSUME NEW t \in Slots, Consent!GoogleDiscovered(t)
         PROVE  ConsentInv'
    <3> DEFINE c == consentJob[t].consent
               ga == IF "ga4" \in consentWants[c] THEN Consent!SavedAnalytics(c) ELSE consentAccount
    <3>1. consentPc[t] = "exchanging" /\ UNCHANGED <<consentTicket, consentWants>>
      BY <2>10 DEF Consent!GoogleDiscovered
    <3>2. c \in Consents
      BY <1>2, <3>1 DEF ConsentInv, ConsentShapes
    <3>3. /\ ga \in [Consent!Platforms -> [by : Consents \cup {None},
                                           place : Places \cup {None}]]
          /\ \A p \in Consent!Platforms :
                \/ ga[p] = consentAccount[p]
                \/ ga[p].by = c /\ p \in consentWants[c] /\ ga[p].place = None
      <4>1. CASE "ga4" \in consentWants[c]
        <5>1. ga = [consentAccount EXCEPT !["ga4"] = [by |-> c, place |-> None]]
          BY <4>1 DEF Consent!SavedAnalytics
        <5>2. [by |-> c, place |-> None] \in
                 [by : Consents \cup {None}, place : Places \cup {None}]
          BY <3>2
        <5>3. consentAccount \in [Consent!Platforms -> [by : Consents \cup {None},
                                                       place : Places \cup {None}]]
          BY <1>2 DEF ConsentInv, ConsentShapes
        <5> HIDE DEF ga
        <5>4. /\ ga \in [Consent!Platforms -> [by : Consents \cup {None},
                                              place : Places \cup {None}]]
              /\ \A p \in Consent!Platforms :
                    ga[p] = IF p = "ga4" THEN [by |-> c, place |-> None] ELSE consentAccount[p]
          BY <5>1, <5>2, <5>3
        <5> QED
          BY <4>1, <5>4
      <4>2. CASE "ga4" \notin consentWants[c]
        BY <1>2, <4>2 DEF ConsentInv, ConsentShapes
      <4> QED
        BY <4>1, <4>2
    <3>4. /\ consentOffered \in [Consents -> SUBSET Places]
          /\ c \in consentBackfills => "gbp" \in consentWants[c]
      BY <1>2 DEF ConsentInv, ConsentShapes, ConsentLateOnes
    <3> HIDE DEF ga
    <3>5. CASE /\ consentAccount' = ga /\ Consent!Linked(c) /\ Consent!Return(t)
               /\ UNCHANGED <<consentOffered, consentBackfills>>
      <4>1. consentLinks' = [consentLinks EXCEPT ![c] = @ + 1]
          /\ Consent!GoTo(t, "idle", Consent!NoJob)
        BY <3>5 DEF Consent!Linked, Consent!Return
      <4>2. \A p \in Consent!Platforms :
               \/ consentAccount'[p] = consentAccount[p]
               \/ /\ consentAccount'[p].by = c /\ p \in consentWants[c]
                  /\ consentAccount'[p].place \in consentOffered'[c] \cup {None}
        BY <3>3, <3>5
      <4>3. /\ consentOffered' \in [Consents -> SUBSET Places]
            /\ consentAccount' \in [Consent!Platforms -> [by : Consents \cup {None},
                                                          place : Places \cup {None}]]
            /\ \A d \in Consents : d # c => consentOffered'[d] = consentOffered[d]
            /\ consentBackfills' = consentBackfills
            /\ c \in consentBackfills' => "gbp" \in consentWants[c]
        BY <3>3, <3>4, <3>5
      <4> QED
        BY <1>2, <3>1, <3>2, <4>1, <4>2, <4>3, ConsentDiscoveryKeeps
    <3>6. ASSUME NEW L \in SUBSET Places, "gbp" \in consentWants[c],
                 consentOffered' = [consentOffered EXCEPT ![c] = L],
                 consentAccount' = ga, Consent!GoTo(t, "asking", consentJob[t]),
                 UNCHANGED <<consentLinks, consentBackfills>>
          PROVE  ConsentInv'
      <4>1. \A p \in Consent!Platforms :
               \/ consentAccount'[p] = consentAccount[p]
               \/ /\ consentAccount'[p].by = c /\ p \in consentWants[c]
                  /\ consentAccount'[p].place \in consentOffered'[c] \cup {None}
        BY <3>3, <3>6
      <4>2. /\ consentOffered' \in [Consents -> SUBSET Places]
            /\ \A d \in Consents : d # c => consentOffered'[d] = consentOffered[d]
        BY <3>4, <3>6
      <4> QED
        BY <1>2, <3>1, <3>2, <3>3, <3>6, <4>1, <4>2, ConsentDiscoveryKeeps
    <3>7. ASSUME NEW L \in SUBSET Places, "gbp" \in consentWants[c],
                 consentOffered' = [consentOffered EXCEPT ![c] = L],
                 consentAccount' = [ga EXCEPT !["gbp"] =
                               [by |-> c, place |-> IF L = {} THEN None
                                                    ELSE CHOOSE x \in L : TRUE]],
                 Consent!Linked(c), Consent!Return(t),
                 consentBackfills' = IF L = {} THEN consentBackfills \cup {c} ELSE consentBackfills
          PROVE  ConsentInv'
      <4> DEFINE x == IF L = {} THEN None ELSE CHOOSE y \in L : TRUE
      <4>1. x \in L \cup {None}
        OBVIOUS
      <4> HIDE DEF x
      <4>2. /\ consentAccount' \in [Consent!Platforms -> [by : Consents \cup {None},
                                                          place : Places \cup {None}]]
            /\ consentAccount'["gbp"] = [by |-> c, place |-> x]
            /\ \A p \in Consent!Platforms : p # "gbp" => consentAccount'[p] = ga[p]
        BY <3>2, <3>3, <3>7, <4>1 DEF x, Consent!Platforms
      <4>3. /\ consentOffered' \in [Consents -> SUBSET Places] /\ consentOffered'[c] = L
            /\ \A d \in Consents : d # c => consentOffered'[d] = consentOffered[d]
        BY <3>2, <3>4, <3>7
      <4>4. \A p \in Consent!Platforms :
               \/ consentAccount'[p] = consentAccount[p]
               \/ /\ consentAccount'[p].by = c /\ p \in consentWants[c]
                  /\ consentAccount'[p].place \in consentOffered'[c] \cup {None}
        BY <3>3, <3>7, <4>1, <4>2, <4>3
      <4>5. consentLinks' = [consentLinks EXCEPT ![c] = @ + 1]
          /\ Consent!GoTo(t, "idle", Consent!NoJob)
            /\ consentBackfills' \in {consentBackfills, consentBackfills \cup {c}}
        BY <3>7 DEF Consent!Linked, Consent!Return
      <4> QED
        BY <1>2, <3>1, <3>2, <3>7, <4>2, <4>3, <4>4, <4>5,
           ConsentDiscoveryKeeps
    <3>8. \/ /\ consentAccount' = ga /\ Consent!Linked(c) /\ Consent!Return(t)
             /\ UNCHANGED <<consentOffered, consentBackfills>>
          \/ \E L \in SUBSET Places :
               /\ "gbp" \in consentWants[c]
               /\ consentOffered' = [consentOffered EXCEPT ![c] = L]
               /\ \/ /\ consentAccount' = ga /\ Consent!GoTo(t, "asking", consentJob[t])
                     /\ UNCHANGED <<consentLinks, consentBackfills>>
                  \/ /\ consentAccount' = [ga EXCEPT !["gbp"] =
                                      [by |-> c, place |-> IF L = {} THEN None
                                                           ELSE CHOOSE x \in L : TRUE]]
                     /\ Consent!Linked(c) /\ Consent!Return(t)
                     /\ consentBackfills' = IF L = {} THEN consentBackfills \cup {c} ELSE consentBackfills
      BY <2>10, Zenon DEF Consent!GoogleDiscovered, Consent!FoundLocations, ga
    <3> QED
      BY <3>5, <3>6, <3>7, <3>8
  <2>11. ASSUME NEW t \in Slots, Consent!MetaDiscovered(t)
         PROVE  ConsentInv'
    <3> DEFINE c == consentJob[t].consent
    <3>1. consentPc[t] = "exchanging"
        /\ UNCHANGED <<consentTicket, consentWants, consentAccount, consentLinks,
                       consentBackfills>>
      BY <2>11 DEF Consent!MetaDiscovered
    <3>2. c \in Consents
      BY <1>2, <3>1 DEF ConsentInv, ConsentShapes
    <3>3. PICK L \in SUBSET Places :
             /\ consentOffered' = [consentOffered EXCEPT ![c] = L]
             /\ Consent!GoTo(t, "asking", consentJob[t])
                 \/ Consent!GoTo(t, "idle", Consent!NoJob)
      BY <2>11 DEF Consent!MetaDiscovered, Consent!FoundPages, Consent!Return
    <3>4. /\ consentOffered' \in [Consents -> SUBSET Places]
          /\ \A d \in Consents : d # c => consentOffered'[d] = consentOffered[d]
          /\ consentAccount' \in [Consent!Platforms -> [by : Consents \cup {None},
                                                        place : Places \cup {None}]]
          /\ c \in consentBackfills' => "gbp" \in consentWants[c]
      BY <1>2, <3>1, <3>3 DEF ConsentInv, ConsentShapes, ConsentLateOnes
    <3> HIDE DEF c
    <3>5. CASE Consent!GoTo(t, "asking", consentJob[t])
      BY <1>2, <3>1, <3>2, <3>4, <3>5, ConsentDiscoveryKeeps DEF c
    <3>6. CASE Consent!GoTo(t, "idle", Consent!NoJob)
      BY <1>2, <3>1, <3>2, <3>4, <3>6, ConsentDiscoveryKeeps DEF c
    <3> QED
      BY <3>3, <3>5, <3>6
  <2>12. ASSUME NEW t \in Slots, Consent!PageTokenFetched(t)
         PROVE  ConsentInv'
    <3>0. PICK c, x : c = consentJob[t].consent /\ x = consentJob[t].place
      OBVIOUS
    <3>1. /\ consentPc[t] = "fetching"
          /\ consentAccount' = [consentAccount EXCEPT !["meta"] = [by |-> c, place |-> x]]
          /\ consentLinks' = [consentLinks EXCEPT ![c] = @ + 1]
          /\ consentPc' = [consentPc EXCEPT ![t] = "idle"]
          /\ consentJob' = [consentJob EXCEPT ![t] = Consent!NoJob]
          /\ UNCHANGED <<consentTicket, consentWants, consentOffered, consentBackfills>>
      BY <2>12, <3>0 DEF Consent!PageTokenFetched, Consent!SavedPage,
         Consent!Linked, Consent!Return, Consent!GoTo
    <3>2. c \in Consents /\ ConsentBusy(t, c)
      BY <1>2, <3>0, <3>1 DEF ConsentInv, ConsentShapes, ConsentBusy
    <3>3. x \in consentOffered[c] /\ x \in Places /\ "meta" \in consentWants[c]
      BY <1>2, <3>0, <3>1, <3>2 DEF ConsentInv, ConsentShapes, ConsentPicks
    <3>4. Consent!NoJob \in [consent : Consents \cup {None}, place : Places \cup {None}]
      BY DEF Consent!NoJob
    <3>5. /\ consentPc' \in [Slots -> {"idle", "exchanging", "asking", "fetching"}]
          /\ consentJob' \in [Slots -> [consent : Consents \cup {None},
                                        place : Places \cup {None}]]
          /\ consentPc'[t] = "idle"
          /\ \A u \in Slots : u # t
              => consentPc'[u] = consentPc[u] /\ consentJob'[u] = consentJob[u]
      BY <1>2, <3>1, <3>4 DEF ConsentInv, ConsentShapes
    <3>6. /\ consentTicket[c] = "spent" /\ consentLinks[c] = 0
          /\ \A u \in Slots : ConsentBusy(u, c) => u = t
      BY <1>2, <3>2 DEF ConsentInv, ConsentTokens
    <3>7. \A u \in Slots : ~ConsentBusy(u, c)'
      BY <3>5, <3>6 DEF ConsentBusy
    <3>8. ~ConsentUndiscovered(c)'
      BY <3>1, <3>6, <3>7 DEF ConsentUndiscovered, ConsentBusy
    <3>9. /\ consentOffered' \in [Consents -> SUBSET Places] /\ x \in consentOffered'[c]
          /\ \A d \in Consents : consentOffered[d] \subseteq consentOffered'[d]
          /\ \A u \in Slots : consentPc'[u] # "idle"
              => consentPc'[u] = consentPc[u] /\ consentJob'[u] = consentJob[u]
          /\ consentTicket'[c] = "spent"
      BY <1>2, <3>1, <3>3, <3>5, <3>6 DEF ConsentInv, ConsentShapes
    <3>10. "meta" \in Consent!Platforms
      BY DEF Consent!Platforms
    <3> QED
      BY <1>2, <3>1, <3>2, <3>3, <3>5, <3>6, <3>7, <3>8, <3>9, <3>10,
         ConsentConnectingKeeps
  <2>13. ASSUME NEW c \in Consents, Consent!Backfill(c)
         PROVE  ConsentInv'
    <3>1. /\ c \in consentBackfills /\ consentBackfills' = consentBackfills \ {c}
          /\ UNCHANGED <<consentTicket, consentWants, consentLinks, consentPc, consentJob>>
      BY <2>13 DEF Consent!Backfill, Consent!procVars
    <3>2. "gbp" \in consentWants[c] /\ "gbp" \in Consent!Platforms
      BY <1>2, <3>1 DEF ConsentInv, ConsentLateOnes, Consent!Platforms
    <3>3. ~ConsentUndiscovered(c)'
      BY <1>2, <3>1 DEF ConsentInv, ConsentUntouched, ConsentUndiscovered
    <3>4. /\ consentPc' \in [Slots -> {"idle", "exchanging", "asking", "fetching"}]
          /\ consentJob' \in [Slots -> [consent : Consents \cup {None},
                                        place : Places \cup {None}]]
          /\ \A u \in Slots : consentPc'[u] # "idle"
              => consentPc'[u] = consentPc[u] /\ consentJob'[u] = consentJob[u]
      BY <1>2, <3>1 DEF ConsentInv, ConsentShapes
    <3>5. ASSUME NEW x \in Places, consentAccount' = Consent!SavedLocation(c, x),
                 consentOffered' = [consentOffered EXCEPT ![c] = @ \cup {x}]
          PROVE  ConsentInv'
      <4>1. /\ consentOffered' \in [Consents -> SUBSET Places] /\ x \in consentOffered'[c]
            /\ \A d \in Consents : consentOffered[d] \subseteq consentOffered'[d]
        BY <1>2, <3>5 DEF ConsentInv, ConsentShapes
      <4>2. consentAccount' = [consentAccount EXCEPT !["gbp"] = [by |-> c, place |-> x]]
        BY <3>5 DEF Consent!SavedLocation
      <4>3. consentBackfills' \subseteq consentBackfills /\ consentLinks' = consentLinks
          /\ consentTicket' = consentTicket
        BY <3>1
      <4> QED
        BY <1>2, <3>1, <3>2, <3>3, <3>4, <4>1, <4>2, <4>3,
           ConsentConnectingKeeps
    <3>6. CASE UNCHANGED <<consentAccount, consentOffered>>
      BY <1>2, <3>1, <3>6 DEF ConsentInv, ConsentShapes, ConsentBusy,
         ConsentTokens, ConsentUndiscovered, ConsentUntouched, ConsentPicks,
         ConsentLateOnes, ConsentOffers
    <3> QED
      BY <2>13, <3>5, <3>6 DEF Consent!Backfill
  <2>14. ASSUME NEW p \in Consent!Platforms, Consent!Disconnect(p)
         PROVE  ConsentInv'
    <3>1. /\ consentAccount' = [consentAccount EXCEPT ![p] = Consent!Nothing]
          /\ UNCHANGED <<consentTicket, consentWants, consentOffered, consentLinks,
                         consentBackfills, consentPc, consentJob>>
      BY <2>14 DEF Consent!Disconnect, Consent!procVars
    <3>2. /\ consentAccount' \in [Consent!Platforms -> [by : Consents \cup {None},
                                                        place : Places \cup {None}]]
          /\ \A q \in Consent!Platforms : consentAccount'[q] = consentAccount[q]
              \/ consentAccount'[q] = Consent!Nothing
      BY <1>2, <3>1 DEF ConsentInv, ConsentShapes, Consent!Nothing
    <3>3. \A c \in Consents : Consent!Nothing.by # c
      BY DEF Consent!Nothing
    <3>4. ConsentShapes' /\ ConsentTokens' /\ ConsentPicks' /\ ConsentLateOnes'
      BY <1>2, <3>1, <3>2 DEF ConsentInv, ConsentShapes, ConsentBusy,
         ConsentTokens, ConsentPicks, ConsentLateOnes
    <3>5. ConsentUntouched'
      BY <1>2, <3>1, <3>2, <3>3 DEF ConsentInv, ConsentUndiscovered,
         ConsentUntouched
    <3>6. ConsentOffers'
      BY <1>2, <3>1, <3>2 DEF ConsentInv, ConsentOffers
    <3> QED
      BY <3>4, <3>5, <3>6 DEF ConsentInv
  <2>15. CASE Consent!Crash
    <3>1. /\ consentPc' = [t \in Slots |-> "idle"]
          /\ consentJob' = [t \in Slots |-> Consent!NoJob]
          /\ consentBackfills' = {}
          /\ consentTicket' = IF Shared THEN consentTicket
                              ELSE [c \in Consents |-> IF consentTicket[c] = "none" THEN "none" ELSE "spent"]
          /\ UNCHANGED <<consentWants, consentOffered, consentAccount, consentLinks>>
      BY <2>15 DEF Consent!Crash
    <3>2. /\ consentTicket' \in [Consents -> {"none", "state", "spent", "selection"}]
          /\ \A c \in Consents : consentTicket'[c] = consentTicket[c]
              \/ consentTicket'[c] = "spent"
      <4>1. CASE Shared
        BY <1>2, <3>1, <4>1 DEF ConsentInv, ConsentShapes
      <4>2. CASE ~Shared
        BY <1>2, <3>1, <4>2 DEF ConsentInv, ConsentShapes
      <4> QED
        BY <4>1, <4>2
    <3>3. Consent!NoJob \in [consent : Consents \cup {None}, place : Places \cup {None}]
      BY DEF Consent!NoJob
    <3>4. ConsentShapes'
      BY <1>2, <3>1, <3>2, <3>3 DEF ConsentInv, ConsentShapes
    <3>5. ConsentTokens' /\ ConsentUntouched' /\ ConsentPicks' /\ ConsentLateOnes'
      BY <1>2, <3>1, <3>2 DEF ConsentInv, ConsentBusy, ConsentTokens,
         ConsentUndiscovered, ConsentUntouched, ConsentPicks, ConsentLateOnes
    <3>6. ConsentOffers'
      BY <1>2, <3>1 DEF ConsentInv, ConsentOffers
    <3> QED
      BY <3>4, <3>5, <3>6 DEF ConsentInv
  <2>16. CASE UNCHANGED Consent!vars
    BY <1>2, <2>16 DEF Consent!vars, Consent!procVars, ConsentInv,
       ConsentShapes, ConsentBusy, ConsentTokens, ConsentUndiscovered,
       ConsentUntouched, ConsentPicks, ConsentLateOnes, ConsentOffers
  <2> QED
    BY <1>2, <2>1, <2>4, <2>5, <2>6, <2>7, <2>8, <2>9, <2>10, <2>11, <2>12,
       <2>13, <2>14, <2>15,
       <2>16 DEF Consent!Next
<1> QED
  BY <1>1, <1>2, PTL DEF Consent!Spec

\* What is connected was asked for by the consent it came from, and its place
\* is one that consent's own discovery found.
THEOREM ConsentConnectedAsOffered ==
    ASSUME None \notin Consents
    PROVE  Consent!Spec => []Consent!ConnectedWasOffered
<1>1. ConsentInv => Consent!ConnectedWasOffered
  BY DEF ConsentInv, ConsentOffers, Consent!ConnectedWasOffered
<1> QED
  BY <1>1, ConsentInvHolds, PTL

\* A visit completes one connection at most, however often its links are
\* opened, since its token is in one place at a time.
THEOREM ConsentIsSpent ==
    ASSUME None \notin Consents
    PROVE  Consent!Spec => []Consent!ConsentUsedOnce
<1>1. ConsentInv => Consent!ConsentUsedOnce
  BY DEF ConsentInv, ConsentTokens, Consent!ConsentUsedOnce
<1> QED
  BY <1>1, ConsentInvHolds, PTL

\* What the other invariant leaves out.
ConsentCounted ==
    /\ consentFaults \in 0..MaxConsentFaults /\ consentCrashes \in 0..MaxCrashes
    /\ consentDisconnects \in 0..MaxDisconnects

\* Every variable of the connect links stays in its set.
THEOREM ConsentTypeCorrect ==
    ASSUME None \notin Consents,
           MaxConsentFaults \in Nat, MaxCrashes \in Nat, MaxDisconnects \in Nat
    PROVE  Consent!Spec => []Consent!TypeOK
<1>1. Consent!Init => ConsentCounted
  BY DEF Consent!Init, ConsentCounted
<1>2. ASSUME ConsentCounted, [Consent!Next]_(Consent!vars)
      PROVE  ConsentCounted'
  <2> USE DEF ConsentCounted, Consent!NoCount, Consent!bounds, Consent!Fault
  <2>1. ASSUME NEW c \in Consents,
               Consent!GoogleConnect(c) \/ Consent!MetaConnect(c) \/ Consent!Expire(c)
                   \/ Consent!Backfill(c)
        PROVE  ConsentCounted'
    BY <1>2, <2>1 DEF Consent!GoogleConnect, Consent!MetaConnect,
       Consent!StoreState, Consent!Expire, Consent!Backfill
  <2>2. ASSUME NEW c \in Consents, Consent!PopLost(c)
        PROVE  ConsentCounted'
    BY <1>2, <2>2 DEF Consent!PopLost
  <2>3. ASSUME NEW c \in Consents, NEW t \in Slots, Consent!Callback(t, c)
        PROVE  ConsentCounted'
    BY <1>2, <2>3 DEF Consent!Callback
  <2>4. ASSUME NEW c \in Consents, NEW t \in Slots, NEW x \in Places,
               Consent!SelectLocation(t, c, x) \/ Consent!SelectPage(t, c, x)
        PROVE  ConsentCounted'
    BY <1>2, <2>4 DEF Consent!SelectLocation, Consent!SelectPage
  <2>5. ASSUME NEW t \in Slots, Consent!ExchangeFails(t) \/ Consent!AskFails(t)
        PROVE  ConsentCounted'
    BY <1>2, <2>5 DEF Consent!ExchangeFails, Consent!AskFails
  <2>6. ASSUME NEW t \in Slots,
               \/ Consent!GoogleDiscovered(t) \/ Consent!MetaDiscovered(t)
               \/ Consent!AskPlace(t) \/ Consent!PageTokenFetched(t)
        PROVE  ConsentCounted'
    BY <1>2, <2>6 DEF Consent!GoogleDiscovered, Consent!MetaDiscovered,
       Consent!AskPlace, Consent!PageTokenFetched
  <2>7. ASSUME NEW p \in Consent!Platforms, Consent!Disconnect(p)
        PROVE  ConsentCounted'
    BY <1>2, <2>7 DEF Consent!Disconnect
  <2>8. CASE Consent!Crash
    BY <1>2, <2>8 DEF Consent!Crash
  <2>9. CASE UNCHANGED Consent!vars
    BY <1>2, <2>9 DEF Consent!vars
  <2> QED
    BY <1>2, <2>1, <2>2, <2>3, <2>4, <2>5, <2>6, <2>7, <2>8, <2>9 DEF
       Consent!Next
<1>3. ConsentInv /\ ConsentCounted => Consent!TypeOK
  BY DEF ConsentInv, ConsentShapes, ConsentCounted, Consent!TypeOK
<1> QED
  BY <1>1, <1>2, <1>3, ConsentInvHolds, PTL DEF Consent!Spec
-----------------------------------------------------------------------------
(* Its reports                                                               *)

PerfShapes ==
    /\ perfScan \in [at : {"idle", "next", "pushing"}, todo : SUBSET Posts,
                     post : Posts \cup {None}, to : SUBSET Readers]
    /\ perfReports \in [Posts -> [Readers -> Nat]]
    /\ perfBroken \in [Posts -> Nat]

\* A post under delivery is not audited yet.
PerfPushedIsUnaudited ==
    \A p \in Posts : perfScan.at = "pushing" /\ perfScan.post = p => p \notin perfReported

\* Whether r already has the report that is being delivered.
PerfServed(p, r) == perfScan.at = "pushing" /\ perfScan.post = p /\ r \notin perfScan.to

\* A report is accounted for by a broken delivery, by the audit event, or by
\* the delivery in progress.
PerfAccounted ==
    \A p \in Posts, r \in Readers :
        /\ perfReports[p][r] <= perfBroken[p] + 1
        /\ p \notin perfReported /\ ~PerfServed(p, r) => perfReports[p][r] <= perfBroken[p]

PerfReportInv == PerfShapes /\ PerfPushedIsUnaudited /\ PerfAccounted

-----------------------------------------------------------------------------
\* One more report for one recipient, of the post under delivery.
LEMMA PerfOneMore ==
    ASSUME PerfShapes, NEW r \in Readers
    PROVE  /\ Perf!Received(r) \in [Posts -> [Readers -> Nat]]
           /\ \A p \in Posts, q \in Readers :
                 Perf!Received(r)[p][q] = IF p = perfScan.post
                     /\ q = r THEN perfReports[p][q] + 1
                                                                      ELSE perfReports[p][q]
<1>1. CASE perfScan.post \in Posts
  <2> DEFINE row == [perfReports[perfScan.post] EXCEPT ![r] = perfReports[perfScan.post][r] + 1]
  <2>1. Perf!Received(r) = [perfReports EXCEPT ![perfScan.post] = row]
    BY <1>1 DEF PerfShapes, Perf!Received
  <2>2. perfReports[perfScan.post] \in [Readers -> Nat]
    BY <1>1 DEF PerfShapes
  <2>3. perfReports[perfScan.post][r] + 1 \in Nat
    BY <2>2
  <2>4. /\ row \in [Readers -> Nat]
        /\ \A q \in Readers : row[q] = IF q = r THEN perfReports[perfScan.post][q] + 1
                                                ELSE perfReports[perfScan.post][q]
    BY <2>2, <2>3
  <2> HIDE DEF row
  <2> QED
    BY <1>1, <2>1, <2>4 DEF PerfShapes
<1>2. CASE perfScan.post \notin Posts
  <2>1. Perf!Received(r) = perfReports
    BY <1>2 DEF PerfShapes, Perf!Received
  <2> QED
    BY <1>2, <2>1 DEF PerfShapes
<1> QED
  BY <1>1, <1>2

\* A push that gets through serves a recipient that was still to be served.
LEMMA PerfPushKeeps ==
    ASSUME PerfReportInv, NEW r \in Readers, Perf!Push(r)
    PROVE  PerfReportInv'
<1>1. /\ perfScan.at = "pushing" /\ r \in perfScan.to
      /\ perfReports' = Perf!Received(r) /\ perfScan' = [perfScan EXCEPT !.to = @ \ {r}]
      /\ perfReported' = perfReported /\ perfBroken' = perfBroken
  BY DEF Perf!Push
<1>2. /\ perfScan'.at = "pushing" /\ perfScan'.post = perfScan.post
      /\ perfScan'.to = perfScan.to \ {r}
      /\ perfScan' \in [at : {"idle", "next", "pushing"}, todo : SUBSET Posts,
                        post : Posts \cup {None}, to : SUBSET Readers]
  BY <1>1 DEF PerfReportInv, PerfShapes
<1>3. /\ perfReports' \in [Posts -> [Readers -> Nat]]
      /\ \A p \in Posts, q \in Readers :
            perfReports'[p][q] = IF p = perfScan.post
                /\ q = r THEN perfReports[p][q] + 1 ELSE perfReports[p][q]
  BY <1>1, PerfOneMore DEF PerfReportInv
<1>4. PerfPushedIsUnaudited'
  BY <1>1, <1>2 DEF PerfReportInv, PerfPushedIsUnaudited
<1>5. PerfAccounted'
  <2> SUFFICES ASSUME NEW p \in Posts, NEW q \in Readers
               PROVE  /\ perfReports'[p][q] <= perfBroken[p] + 1
                      /\ p \notin perfReported /\ ~PerfServed(p, q)'
                          => perfReports'[p][q] <= perfBroken[p]
    BY <1>1 DEF PerfAccounted
  <2>1. perfReports[p][q] \in Nat /\ perfBroken[p] \in Nat
    BY DEF PerfReportInv, PerfShapes
  <2>2. CASE p = perfScan.post /\ q = r
    <3>1. ~PerfServed(p, q) /\ p \notin perfReported
      BY <1>1, <2>2 DEF PerfReportInv, PerfPushedIsUnaudited, PerfServed
    <3>2. perfReports[p][q] <= perfBroken[p]
      BY <3>1 DEF PerfReportInv, PerfAccounted
    <3>3. PerfServed(p, q)'
      BY <1>2, <2>2 DEF PerfServed
    <3> QED
      BY <1>3, <2>1, <2>2, <3>2, <3>3
  <2>3. CASE ~(p = perfScan.post /\ q = r)
    <3>1. perfReports'[p][q] = perfReports[p][q]
      BY <1>3, <2>3
    <3>2. PerfServed(p, q) => PerfServed(p, q)'
      BY <1>1, <1>2, <2>3 DEF PerfServed
    <3> QED
      BY <3>1, <3>2 DEF PerfReportInv, PerfAccounted
  <2> QED
    BY <2>2, <2>3
<1> QED
  BY <1>1, <1>2, <1>3, <1>4, <1>5 DEF PerfReportInv, PerfShapes

\* A delivery that breaks off, by a failed push or a restart, is counted: what
\* its recipients have by then is covered by the count.
LEMMA PerfBreakKeeps ==
    ASSUME PerfReportInv, perfScan.at = "pushing", NEW r \in Readers,
           perfReports' \in {perfReports, Perf!Received(r)},
           r \in perfScan.to \/ perfReports' = perfReports,
           perfBroken' = [perfBroken EXCEPT ![perfScan.post] = @ + 1],
           perfReported' = perfReported, perfScan'.at # "pushing",
           perfScan' \in [at : {"idle", "next", "pushing"}, todo : SUBSET Posts,
                          post : Posts \cup {None}, to : SUBSET Readers]
    PROVE  PerfReportInv'
<1>1. /\ perfReports' \in [Posts -> [Readers -> Nat]]
      /\ \A p \in Posts, q \in Readers :
            \/ perfReports'[p][q] = perfReports[p][q]
            \/ p = perfScan.post /\ q = r /\ r \in perfScan.to
                /\ perfReports'[p][q] = perfReports[p][q] + 1
  <2>1. CASE perfReports' = perfReports
    BY <2>1 DEF PerfReportInv, PerfShapes
  <2>2. CASE perfReports' = Perf!Received(r) /\ r \in perfScan.to
    BY <2>2, PerfOneMore DEF PerfReportInv
  <2> QED
    BY <2>1, <2>2
<1>2. /\ perfBroken' \in [Posts -> Nat]
      /\ \A p \in Posts : perfBroken'[p] = IF p = perfScan.post THEN perfBroken[p] + 1 ELSE perfBroken[p]
  <2>1. CASE perfScan.post \in Posts
    BY <2>1 DEF PerfReportInv, PerfShapes
  <2>2. CASE perfScan.post \notin Posts
    BY <2>2 DEF PerfReportInv, PerfShapes
  <2> QED
    BY <2>1, <2>2
<1>3. PerfAccounted'
  <2> SUFFICES ASSUME NEW p \in Posts, NEW q \in Readers
               PROVE  /\ perfReports'[p][q] <= perfBroken'[p] + 1
                      /\ p \notin perfReported => perfReports'[p][q] <= perfBroken'[p]
    BY DEF PerfAccounted
  <2>1. perfReports[p][q] \in Nat /\ perfBroken[p] \in Nat
    BY DEF PerfReportInv, PerfShapes
  <2>2. /\ perfReports[p][q] <= perfBroken[p] + 1
        /\ p \notin perfReported /\ ~PerfServed(p, q) => perfReports[p][q] <= perfBroken[p]
    BY DEF PerfReportInv, PerfAccounted
  <2>3. CASE p # perfScan.post
    <3>1. ~PerfServed(p, q) /\ perfReports'[p][q] = perfReports[p][q]
        /\ perfBroken'[p] = perfBroken[p]
      BY <1>1, <1>2, <2>3 DEF PerfServed
    <3> QED
      BY <2>2, <3>1
  <2>4. CASE p = perfScan.post /\ perfReports'[p][q] = perfReports[p][q]
    BY <1>2, <2>1, <2>2, <2>4
  <2>5. CASE p = perfScan.post /\ q = r /\ r \in perfScan.to
      /\ perfReports'[p][q] = perfReports[p][q] + 1
    <3>1. ~PerfServed(p, q) /\ p \notin perfReported
      BY <2>5 DEF PerfReportInv, PerfPushedIsUnaudited, PerfServed
    <3> QED
      BY <1>2, <2>1, <2>2, <2>5, <3>1
  <2> QED
    BY <1>1, <2>3, <2>4, <2>5
<1>4. PerfPushedIsUnaudited'
  BY DEF PerfPushedIsUnaudited
<1> QED
  BY <1>1, <1>2, <1>3, <1>4 DEF PerfReportInv, PerfShapes

-----------------------------------------------------------------------------
\* Scans, pushes, faults and restarts keep the account.
LEMMA PerfReportInvHolds ==
    Perf!Spec => []PerfReportInv
<1>1. Perf!Init => PerfReportInv
  BY DEF Perf!Init, Perf!NoScan, PerfReportInv, PerfShapes,
     PerfPushedIsUnaudited, PerfServed, PerfAccounted
<1>2. ASSUME PerfReportInv, [Perf!Next]_(Perf!vars)
      PROVE  PerfReportInv'
  <2>1. ASSUME NEW p \in Posts, Perf!Publish(p)
        PROVE  PerfReportInv'
    BY <1>2, <2>1 DEF Perf!Publish, PerfReportInv, PerfShapes,
       PerfPushedIsUnaudited, PerfServed, PerfAccounted
  <2>2. ASSUME NEW p \in Posts, Perf!NextReport(p)
        PROVE  PerfReportInv'
    <3>1. /\ perfScan.at = "next" /\ p \notin perfReported
          /\ perfScan' = [at |-> "pushing", todo |-> perfScan.todo \ {p}, post |-> p,
                          to |-> Readers]
          /\ UNCHANGED <<perfReported, perfReports, perfBroken>>
      BY <2>2 DEF Perf!NextReport, Perf!DueReports
    <3>2. PerfShapes'
      BY <1>2, <3>1 DEF PerfReportInv, PerfShapes
    <3>3. PerfPushedIsUnaudited'
      BY <3>1 DEF PerfPushedIsUnaudited
    <3>4. PerfAccounted'
      BY <1>2, <3>1 DEF PerfReportInv, PerfAccounted, PerfServed
    <3> QED
      BY <3>2, <3>3, <3>4 DEF PerfReportInv
  <2>3. ASSUME NEW p \in Posts, Perf!InsightsFail(p)
        PROVE  PerfReportInv'
    <3>1. /\ perfScan.at = "next" /\ perfScan' = [perfScan EXCEPT !.todo = @ \ {p}]
          /\ UNCHANGED <<perfReported, perfReports, perfBroken>>
      BY <2>3 DEF Perf!InsightsFail
    <3>2. PerfShapes' /\ perfScan'.at = "next"
      BY <1>2, <3>1 DEF PerfReportInv, PerfShapes
    <3> QED
      BY <1>2, <3>1, <3>2 DEF PerfReportInv, PerfPushedIsUnaudited,
         PerfAccounted, PerfServed
  <2>4. CASE Perf!Hour \/ Perf!ScanEnds
    <3>1. UNCHANGED <<perfReported, perfReports, perfBroken>> /\ perfScan.at # "pushing"
      BY <2>4 DEF Perf!Hour, Perf!ScanEnds
    <3>2. perfScan' \in {perfScan, Perf!NoScan,
                         [Perf!NoScan EXCEPT !.at = "next", !.todo = Posts]}
      BY <2>4 DEF Perf!Hour, Perf!ScanEnds
    <3>3. PerfShapes' /\ perfScan'.at # "pushing"
      <4> DEFINE Scans == [at : {"idle", "next", "pushing"}, todo : SUBSET Posts,
                           post : Posts \cup {None}, to : SUBSET Readers]
      <4>1. Perf!NoScan \in Scans /\ Perf!NoScan.at = "idle"
        BY DEF Perf!NoScan
      <4> DEFINE new == [Perf!NoScan EXCEPT !.at = "next", !.todo = Posts]
      <4>2. new \in Scans /\ new.at = "next"
        BY <4>1
      <4>3. perfScan \in Scans
        BY <1>2 DEF PerfReportInv, PerfShapes
      <4> HIDE DEF new
      <4>4. perfScan' \in Scans /\ perfScan'.at # "pushing"
        BY <3>1, <3>2, <4>1, <4>2, <4>3 DEF new
      <4> QED
        BY <1>2, <3>1, <4>4 DEF PerfReportInv, PerfShapes
    <3> QED
      BY <1>2, <3>1, <3>3 DEF PerfReportInv, PerfPushedIsUnaudited,
         PerfAccounted, PerfServed
  <2>5. ASSUME NEW r \in Readers, Perf!Push(r)
        PROVE  PerfReportInv'
    BY <1>2, <2>5, PerfPushKeeps
  <2>6. ASSUME NEW r \in Readers, Perf!PushFails(r)
        PROVE  PerfReportInv'
    <3>1. /\ perfScan.at = "pushing" /\ r \in perfScan.to
          /\ perfReports' \in {perfReports, Perf!Received(r)} /\ perfReported' = perfReported
          /\ perfBroken' = [perfBroken EXCEPT ![perfScan.post] = @ + 1]
          /\ perfScan' = [perfScan EXCEPT !.at = "next", !.post = None, !.to = {}]
      BY <2>6 DEF Perf!PushFails
    <3>2. /\ perfScan'.at # "pushing"
          /\ perfScan' \in [at : {"idle", "next", "pushing"}, todo : SUBSET Posts,
                            post : Posts \cup {None}, to : SUBSET Readers]
      BY <1>2, <3>1 DEF PerfReportInv, PerfShapes
    <3> QED
      BY <1>2, <3>1, <3>2, PerfBreakKeeps
  <2>7. CASE Perf!Audit
    <3>1. /\ perfScan.at = "pushing" /\ perfScan.to = {}
          /\ perfReported' = perfReported \cup {perfScan.post}
          /\ perfScan' = [perfScan EXCEPT !.at = "next", !.post = None]
          /\ UNCHANGED <<perfReports, perfBroken>>
      BY <2>7 DEF Perf!Audit
    <3>2. PerfShapes' /\ perfScan'.at = "next"
      BY <1>2, <3>1 DEF PerfReportInv, PerfShapes
    <3>3. PerfPushedIsUnaudited'
      BY <3>2 DEF PerfPushedIsUnaudited
    <3>4. PerfAccounted'
      BY <1>2, <3>1 DEF PerfReportInv, PerfAccounted, PerfServed
    <3> QED
      BY <3>2, <3>3, <3>4 DEF PerfReportInv
  <2>8. CASE Perf!Crash
    <3>1. /\ perfScan' = Perf!NoScan /\ UNCHANGED <<perfReported, perfReports>>
          /\ perfBroken' = IF perfScan.at = "pushing" THEN [perfBroken EXCEPT ![perfScan.post] = @ + 1]
                           ELSE perfBroken
      BY <2>8 DEF Perf!Crash
    <3>2. /\ perfScan'.at # "pushing"
          /\ perfScan' \in [at : {"idle", "next", "pushing"}, todo : SUBSET Posts,
                            post : Posts \cup {None}, to : SUBSET Readers]
      BY <3>1 DEF Perf!NoScan
    <3>3. CASE perfScan.at = "pushing"
      <4>1. ASSUME NEW r \in Readers
            PROVE  PerfReportInv'
        BY <1>2, <3>1, <3>2, <3>3, PerfBreakKeeps
      <4>2. CASE Readers = {}
        <5>1. perfBroken \in [Posts -> Nat]
          BY <1>2 DEF PerfReportInv, PerfShapes
        <5>2. \A p \in Posts : [perfBroken EXCEPT ![p] = @ + 1] \in [Posts -> Nat]
          BY <5>1
        <5>3. perfScan.post \notin Posts => perfBroken' = perfBroken
          BY <3>1, <3>3, <5>1
        <5>4. perfBroken' \in [Posts -> Nat]
          BY <3>1, <3>3, <5>1, <5>2, <5>3
        <5>5. perfReports' \in [Posts -> [Readers -> Nat]]
          BY <1>2, <3>1 DEF PerfReportInv, PerfShapes
        <5>6. PerfShapes' /\ PerfPushedIsUnaudited'
          BY <3>2, <5>4, <5>5 DEF PerfShapes, PerfPushedIsUnaudited
        <5>7. PerfAccounted'
          BY <4>2 DEF PerfAccounted
        <5> QED
          BY <5>6, <5>7 DEF PerfReportInv
      <4> QED
        BY <4>1, <4>2
    <3>4. CASE perfScan.at # "pushing"
      BY <1>2, <3>1, <3>2, <3>4 DEF PerfReportInv, PerfShapes,
         PerfPushedIsUnaudited, PerfAccounted, PerfServed
    <3> QED
      BY <3>3, <3>4
  <2>9. CASE Perf!Restart \/ UNCHANGED Perf!vars
    <3>1. UNCHANGED <<perfScan, perfReported, perfReports, perfBroken>>
      BY <2>9 DEF Perf!Restart, Perf!vars
    <3> QED
      BY <1>2, <3>1 DEF PerfReportInv, PerfShapes, PerfPushedIsUnaudited,
         PerfServed, PerfAccounted
  <2> QED
    BY <1>2, <2>1, <2>2, <2>3, <2>4, <2>5, <2>6, <2>7, <2>8, <2>9 DEF
       Perf!Next
<1> QED
  BY <1>1, <1>2, PTL DEF Perf!Spec

\* One report on a post for each recipient, and one more for each delivery
\* that broke off, over hourly scans, restarts and lost answers.
THEOREM PerfReportsAccounted ==
    Perf!Spec => []Perf!ReportedOnce
<1>1. PerfReportInv => Perf!ReportedOnce
  <2> SUFFICES ASSUME PerfReportInv, NEW p \in Posts, NEW r \in Readers
               PROVE  perfReports[p][r] <= 1 + perfBroken[p]
    BY DEF Perf!ReportedOnce
  <2>1. perfReports[p][r] <= perfBroken[p] + 1 /\ perfBroken[p] \in Nat
    BY DEF PerfReportInv, PerfShapes, PerfAccounted
  <2> QED
    BY <2>1
<1> QED
  BY <1>1, PerfReportInvHolds, PTL

\* What the other invariant leaves out: the clock, what was published and
\* reported, the counters, and that a report is of a post.
PerfCounted ==
    /\ perfClock \in 0..MaxScanHour /\ perfUp \in BOOLEAN
    /\ perfPublished \in [Posts -> 0..MaxScanHour + 1]
    /\ perfReported \subseteq Posts
    /\ perfFaults \in 0..MaxScanFaults /\ perfCrashes \in 0..MaxCrashes
    /\ perfScan.at = "pushing" => perfScan.post \in Posts

\* Every variable of the reports stays in its set.
THEOREM PerfTypeCorrect ==
    ASSUME MaxScanHour \in Nat, MaxScanFaults \in Nat, MaxCrashes \in Nat
    PROVE  Perf!Spec => []Perf!TypeOK
<1>1. Perf!Init => PerfCounted
  BY DEF Perf!Init, PerfCounted, Perf!NoScan
<1>2. ASSUME PerfShapes, PerfCounted, [Perf!Next]_(Perf!vars)
      PROVE  PerfCounted'
  <2> USE DEF Perf!NoScan, Perf!bounds, Perf!Fault
  <2>1. /\ perfScan \in [at : {"idle", "next", "pushing"}, todo : SUBSET Posts,
                         post : Posts \cup {None}, to : SUBSET Readers]
        /\ perfScan.at = "pushing" => perfScan.post \in Posts
    BY <1>2 DEF PerfShapes, PerfCounted
  <2>2. perfFaults \in 0..MaxScanFaults /\ perfCrashes \in 0..MaxCrashes
    BY <1>2 DEF PerfCounted
  <2>3. ASSUME NEW p \in Posts, Perf!Publish(p)
        PROVE  PerfCounted'
    BY <1>2, <2>3 DEF Perf!Publish, PerfCounted
  <2>4. ASSUME NEW p \in Posts, Perf!NextReport(p) \/ Perf!InsightsFail(p)
        PROVE  PerfCounted'
    <3>1. perfScan'.at = "pushing" => perfScan'.post \in Posts
      BY <2>1, <2>4 DEF Perf!NextReport, Perf!InsightsFail
    <3>2. /\ UNCHANGED <<perfClock, perfUp, perfPublished, perfReported>>
          /\ perfFaults' \in 0..MaxScanFaults /\ perfCrashes' \in 0..MaxCrashes
      BY <2>2, <2>4 DEF Perf!NextReport, Perf!InsightsFail
    <3> QED
      BY <1>2, <3>1, <3>2 DEF PerfCounted
  <2>5. ASSUME NEW r \in Readers, Perf!Push(r)
        PROVE  PerfCounted'
    <3>1. perfScan'.at = "pushing" => perfScan'.post \in Posts
      BY <2>1, <2>5 DEF Perf!Push
    <3> QED
      BY <1>2, <2>5, <3>1 DEF PerfCounted, Perf!Push
  <2>6. ASSUME NEW r \in Readers, Perf!PushFails(r)
        PROVE  PerfCounted'
    <3>1. perfScan'.at # "pushing"
      BY <2>1, <2>6 DEF Perf!PushFails
    <3>2. /\ UNCHANGED <<perfClock, perfUp, perfPublished, perfReported>>
          /\ perfFaults' \in 0..MaxScanFaults /\ perfCrashes' \in 0..MaxCrashes
      BY <2>2, <2>6 DEF Perf!PushFails
    <3> QED
      BY <1>2, <3>1, <3>2 DEF PerfCounted
  <2>7. CASE Perf!Hour
    <3>1. perfScan'.at # "pushing"
      BY <2>1, <2>7 DEF Perf!Hour
    <3>2. perfClock' \in 0..MaxScanHour
        /\ UNCHANGED <<perfUp, perfPublished, perfReported, perfFaults, perfCrashes>>
      BY <1>2, <2>7 DEF Perf!Hour, PerfCounted
    <3> QED
      BY <1>2, <3>1, <3>2 DEF PerfCounted
  <2>8. CASE Perf!ScanEnds
    BY <1>2, <2>8 DEF PerfCounted, Perf!ScanEnds
  <2>9. CASE Perf!Audit
    <3>1. perfScan'.at # "pushing"
      BY <2>1, <2>9 DEF Perf!Audit
    <3>2. perfReported' \subseteq Posts
      BY <1>2, <2>1, <2>9 DEF Perf!Audit, PerfCounted
    <3>3. UNCHANGED <<perfClock, perfUp, perfPublished, perfFaults, perfCrashes>>
      BY <2>9 DEF Perf!Audit
    <3>4. /\ perfClock' \in 0..MaxScanHour /\ perfUp' \in BOOLEAN
          /\ perfPublished' \in [Posts -> 0..MaxScanHour + 1]
      BY <1>2, <3>3 DEF PerfCounted
    <3>5. perfFaults' \in 0..MaxScanFaults /\ perfCrashes' \in 0..MaxCrashes
      BY <2>2, <3>3
    <3> QED
      BY <3>1, <3>2, <3>4, <3>5 DEF PerfCounted
  <2>10. CASE Perf!Crash
    <3>1. perfScan'.at # "pushing"
      BY <2>1, <2>10 DEF Perf!Crash
    <3>2. perfUp' = FALSE /\ UNCHANGED <<perfClock, perfPublished, perfReported, perfFaults>>
      BY <2>10 DEF Perf!Crash
    <3>3. perfCrashes' \in 0..MaxCrashes
      BY <2>2, <2>10 DEF Perf!Crash
    <3>4. /\ perfClock' \in 0..MaxScanHour /\ perfReported' \subseteq Posts
          /\ perfPublished' \in [Posts -> 0..MaxScanHour + 1]
      BY <1>2, <3>2 DEF PerfCounted
    <3>5. perfFaults' \in 0..MaxScanFaults
      BY <2>2, <3>2
    <3> QED
      BY <3>1, <3>2, <3>3, <3>4, <3>5 DEF PerfCounted
  <2>11. CASE Perf!Restart
    BY <1>2, <2>11 DEF PerfCounted, Perf!Restart
  <2>12. CASE UNCHANGED Perf!vars
    BY <1>2, <2>12 DEF PerfCounted, Perf!vars
  <2> QED
    BY <1>2, <2>3, <2>4, <2>5, <2>6, <2>7, <2>8, <2>9, <2>10, <2>11, <2>12 DEF
       Perf!Next
<1>3. PerfReportInv /\ PerfCounted => Perf!TypeOK
  BY DEF PerfReportInv, PerfShapes, PerfCounted, Perf!TypeOK
<1>4. PerfReportInv => PerfShapes
  BY DEF PerfReportInv
<1> QED
  BY <1>1, <1>2, <1>3, <1>4, PerfReportInvHolds, PTL DEF Perf!Spec
-----------------------------------------------------------------------------
(* Its onboarding                                                            *)

\* The bounds are numbers.
WelcomeBounded == MaxWelcomes \in Nat /\ MaxCrashes \in Nat

\* The steps before the interview.
WelcomeEarly == {"new", "asking_name", "asking_industry", "asking_address"}

\* The interview begins when the whole profile was given.
WelcomeGiven ==
    /\ welcomeStep = "asking_industry" => "asking_name" \in welcomeGiven
    /\ welcomeStep = "asking_address"
        => "asking_name" \in welcomeGiven /\ "asking_industry" \in welcomeGiven
    /\ welcomeStep \notin WelcomeEarly => welcomeGiven = Welcome!Profile
    /\ \A t \in Slots :
         /\ welcomePc[t] # "idle" => welcomeStep \notin WelcomeEarly /\ welcomeJob[t].n > 0
         /\ welcomePc[t] \in {"storing", "summing"} => welcomeJob[t].at \in Welcome!Questions
         /\ welcomePc[t] = "summing" => welcomeJob[t].at = "interview_q3"

\* The last question was answered.
WelcomeHasGoal == \E e \in welcomeEntries : e.cat = "goal"

\* The summary was written.
WelcomeHasSum == \E e \in welcomeEntries : e.cat = "basic_info"

\* Who has left a step behind has what it writes.
WelcomeLasting ==
    /\ \A t \in Slots :
         /\ welcomePc[t] \in {"storing", "summing"} /\ welcomeJob[t].at = "interview_q3"
             => WelcomeHasGoal
         /\ welcomePc[t] = "summing" => WelcomeHasSum
    /\ welcomeStep = "completed" => WelcomeHasGoal /\ WelcomeHasSum

\* Every variable is in its set, and the profile is as far as the step.
WelcomeTypeInv == Welcome!TypeOK /\ WelcomeGiven

\* One message moves the profile one step, while nobody is between two
\* transactions.
LEMMA WelcomeProfiledIs ==
    ASSUME WelcomeTypeInv, NEW t \in Slots, Welcome!Profiled(t)
    PROVE  /\ \A u \in Slots : welcomePc[u] = "idle"
           /\ \/ welcomeStep = "new" /\ welcomeStep' = "asking_name"
                 /\ welcomeGiven' = welcomeGiven
              \/ welcomeStep = "asking_name" /\ welcomeStep' = "asking_industry"
                  /\ welcomeGiven' = welcomeGiven \cup {"asking_name"}
              \/ welcomeStep = "asking_industry" /\ welcomeStep' = "asking_address"
                  /\ welcomeGiven' = welcomeGiven \cup {"asking_industry"}
              \/ welcomeStep = "asking_address" /\ welcomeStep' = "awaiting_docs"
                  /\ welcomeGiven' = welcomeGiven \cup {"asking_address"}
           /\ UNCHANGED <<welcomeEntries, welcomeSaid, welcomeDrafts, Welcome!procVars,
                          welcomeOverlapped, welcomeTorn>>
<1>1. \A u \in Slots : welcomePc[u] = "idle"
  BY DEF WelcomeTypeInv, WelcomeGiven, Welcome!Profiled, Welcome!Profile,
     WelcomeEarly
<1>2. welcomeStep \in WelcomeEarly /\ welcomeStep' = Welcome!StepAfter[welcomeStep]
    /\ welcomeGiven' = welcomeGiven \cup ({welcomeStep} \cap Welcome!Profile)
  BY DEF Welcome!Profiled, Welcome!Profile, WelcomeEarly
<1>3. UNCHANGED <<welcomeEntries, welcomeSaid, welcomeDrafts, Welcome!procVars,
                  welcomeOverlapped, welcomeTorn>>
  BY DEF Welcome!Profiled
<1>4. CASE welcomeStep = "new"
  BY <1>1, <1>2, <1>3, <1>4 DEF Welcome!StepAfter, Welcome!Profile
<1>5. CASE welcomeStep = "asking_name"
  BY <1>1, <1>2, <1>3, <1>5 DEF Welcome!StepAfter, Welcome!Profile
<1>6. CASE welcomeStep = "asking_industry"
  BY <1>1, <1>2, <1>3, <1>6 DEF Welcome!StepAfter, Welcome!Profile
<1>7. CASE welcomeStep = "asking_address"
  BY <1>1, <1>2, <1>3, <1>7 DEF Welcome!StepAfter, Welcome!Profile
<1> QED
  BY <1>2, <1>4, <1>5, <1>6, <1>7 DEF WelcomeEarly

\* It holds over overlapping messages and crashes.
LEMMA WelcomeTypeInvHolds ==
    ASSUME WelcomeBounded
    PROVE  Welcome!Spec => []WelcomeTypeInv
<1>1. Welcome!Init => WelcomeTypeInv
  <2> USE DEF Welcome!Init, Welcome!NoJob
  <2>1. Welcome!Init => /\ welcomeStep \in Welcome!Steps
                           /\ welcomeGiven \subseteq Welcome!Profile
                        /\ welcomeEntries \subseteq [cat : Welcome!Categories,
                                                     n : 1..MaxWelcomes]
    BY DEF Welcome!Steps
  <2>5. Welcome!Init => welcomeOverlapped \in BOOLEAN /\ welcomeTorn \in BOOLEAN
    OBVIOUS
  <2>6. Welcome!Init => welcomeDrafts \in Nat
    OBVIOUS
  <2>2. Welcome!Init => /\ welcomeSaid \in [Welcome!Questions -> 0..MaxWelcomes]
                        /\ welcomeMessages \in 0..MaxWelcomes
                        /\ welcomeCrashes \in 0..MaxCrashes
    BY DEF WelcomeBounded
  <2>3. Welcome!Init => /\ welcomePc \in [Slots -> {"idle", "storing", "summing", "parsing",
                                                    "dispatching"}]
                        /\ welcomeJob \in [Slots -> [at : Welcome!Steps, n : 0..MaxWelcomes]]
    BY DEF WelcomeBounded, Welcome!Steps
  <2>4. Welcome!Init => WelcomeGiven
    BY DEF WelcomeGiven, WelcomeEarly
  <2> QED
    BY <2>1, <2>2, <2>3, <2>4, <2>5, <2>6 DEF WelcomeTypeInv, Welcome!TypeOK
<1>2. ASSUME WelcomeTypeInv, [Welcome!Next]_(Welcome!vars)
      PROVE  WelcomeTypeInv'
  <2> USE DEF WelcomeTypeInv, Welcome!TypeOK, WelcomeGiven, WelcomeBounded, WelcomeEarly,
              Welcome!NoJob, Welcome!Steps, Welcome!Profile, Welcome!Questions,
              Welcome!Categories, Welcome!StepAfter, Welcome!CategoryOf, Welcome!procVars,
              Welcome!bounds
  <2>1. ASSUME NEW t \in Slots, Welcome!Profiled(t)
        PROVE  WelcomeTypeInv'
    <3>1. welcomeStep' \in Welcome!Steps /\ welcomeGiven' \subseteq Welcome!Profile
      BY <1>2, <2>1 DEF Welcome!Profiled, Welcome!Message
    <3>2. welcomeEntries' \subseteq [cat : Welcome!Categories, n : 1..MaxWelcomes]
      BY <1>2, <2>1 DEF Welcome!Profiled, Welcome!Message
    <3>3. welcomeSaid' \in [Welcome!Questions -> 0..MaxWelcomes]
      BY <1>2, <2>1 DEF Welcome!Profiled, Welcome!Message
    <3>4. welcomeDrafts' \in Nat
      BY <1>2, <2>1 DEF Welcome!Profiled, Welcome!Message
    <3>5. welcomePc' \in [Slots -> {"idle", "storing", "summing", "parsing", "dispatching"}]
      BY <1>2, <2>1 DEF Welcome!Profiled, Welcome!Message
    <3>6. welcomeJob' \in [Slots -> [at : Welcome!Steps, n : 0..MaxWelcomes]]
      BY <1>2, <2>1 DEF Welcome!Profiled, Welcome!Message
    <3>7. welcomeOverlapped' \in BOOLEAN /\ welcomeTorn' \in BOOLEAN
      BY <1>2, <2>1 DEF Welcome!Profiled, Welcome!Message
    <3>8. welcomeMessages' \in 0..MaxWelcomes /\ welcomeCrashes' \in 0..MaxCrashes
      BY <1>2, <2>1 DEF Welcome!Profiled, Welcome!Message
    <3>9. WelcomeGiven'
      BY <1>2, <2>1, WelcomeProfiledIs
    <3> QED
      BY <3>1, <3>2, <3>3, <3>4, <3>5, <3>6, <3>7, <3>8, <3>9
  <2>2. ASSUME NEW t \in Slots, Welcome!SkipDocs(t)
        PROVE  WelcomeTypeInv'
    <3>1. welcomeStep' \in Welcome!Steps /\ welcomeGiven' \subseteq Welcome!Profile
      BY <1>2, <2>2 DEF Welcome!SkipDocs, Welcome!Message
    <3>2. welcomeEntries' \subseteq [cat : Welcome!Categories, n : 1..MaxWelcomes]
      BY <1>2, <2>2 DEF Welcome!SkipDocs, Welcome!Message
    <3>3. welcomeSaid' \in [Welcome!Questions -> 0..MaxWelcomes]
      BY <1>2, <2>2 DEF Welcome!SkipDocs, Welcome!Message
    <3>4. welcomeDrafts' \in Nat
      BY <1>2, <2>2 DEF Welcome!SkipDocs, Welcome!Message
    <3>5. welcomePc' \in [Slots -> {"idle", "storing", "summing", "parsing", "dispatching"}]
      BY <1>2, <2>2 DEF Welcome!SkipDocs, Welcome!Message
    <3>6. welcomeJob' \in [Slots -> [at : Welcome!Steps, n : 0..MaxWelcomes]]
      BY <1>2, <2>2 DEF Welcome!SkipDocs, Welcome!Message
    <3>7. welcomeOverlapped' \in BOOLEAN /\ welcomeTorn' \in BOOLEAN
      BY <1>2, <2>2 DEF Welcome!SkipDocs, Welcome!Message
    <3>8. welcomeMessages' \in 0..MaxWelcomes /\ welcomeCrashes' \in 0..MaxCrashes
      BY <1>2, <2>2 DEF Welcome!SkipDocs, Welcome!Message
    <3>9. WelcomeGiven'
      BY <1>2, <2>2 DEF Welcome!SkipDocs, Welcome!Message
    <3> QED
      BY <3>1, <3>2, <3>3, <3>4, <3>5, <3>6, <3>7, <3>8, <3>9
  <2>3. ASSUME NEW t \in Slots, Welcome!Document(t)
        PROVE  WelcomeTypeInv'
    <3>1. welcomeStep' \in Welcome!Steps /\ welcomeGiven' \subseteq Welcome!Profile
      BY <1>2, <2>3 DEF Welcome!Document, Welcome!Message, Welcome!GoTo
    <3>2. welcomeEntries' \subseteq [cat : Welcome!Categories, n : 1..MaxWelcomes]
      BY <1>2, <2>3 DEF Welcome!Document, Welcome!Message, Welcome!GoTo
    <3>3. welcomeSaid' \in [Welcome!Questions -> 0..MaxWelcomes]
      BY <1>2, <2>3 DEF Welcome!Document, Welcome!Message, Welcome!GoTo
    <3>4. welcomeDrafts' \in Nat
      BY <1>2, <2>3 DEF Welcome!Document, Welcome!Message, Welcome!GoTo
    <3>5. welcomePc' \in [Slots -> {"idle", "storing", "summing", "parsing", "dispatching"}]
      BY <1>2, <2>3 DEF Welcome!Document, Welcome!Message, Welcome!GoTo
    <3>6. welcomeJob' \in [Slots -> [at : Welcome!Steps, n : 0..MaxWelcomes]]
      BY <1>2, <2>3 DEF Welcome!Document, Welcome!Message, Welcome!GoTo
    <3>7. welcomeOverlapped' \in BOOLEAN /\ welcomeTorn' \in BOOLEAN
      BY <1>2, <2>3 DEF Welcome!Document, Welcome!Message, Welcome!GoTo
    <3>8. welcomeMessages' \in 0..MaxWelcomes /\ welcomeCrashes' \in 0..MaxCrashes
      BY <1>2, <2>3 DEF Welcome!Document, Welcome!Message, Welcome!GoTo
    <3>9. WelcomeGiven'
      BY <1>2, <2>3 DEF Welcome!Document, Welcome!Message, Welcome!GoTo
    <3> QED
      BY <3>1, <3>2, <3>3, <3>4, <3>5, <3>6, <3>7, <3>8, <3>9
  <2>4. ASSUME NEW t \in Slots, Welcome!Parsed(t)
        PROVE  WelcomeTypeInv'
    <3>1. welcomeStep' \in Welcome!Steps /\ welcomeGiven' \subseteq Welcome!Profile
      BY <1>2, <2>4 DEF Welcome!Parsed, Welcome!Saved, Welcome!Done,
         Welcome!GoTo
    <3>2. welcomeEntries' \subseteq [cat : Welcome!Categories, n : 1..MaxWelcomes]
      BY <1>2, <2>4 DEF Welcome!Parsed, Welcome!Saved, Welcome!Done,
         Welcome!GoTo
    <3>3. welcomeSaid' \in [Welcome!Questions -> 0..MaxWelcomes]
      BY <1>2, <2>4 DEF Welcome!Parsed, Welcome!Saved, Welcome!Done,
         Welcome!GoTo
    <3>4. welcomeDrafts' \in Nat
      BY <1>2, <2>4 DEF Welcome!Parsed, Welcome!Saved, Welcome!Done,
         Welcome!GoTo
    <3>5. welcomePc' \in [Slots -> {"idle", "storing", "summing", "parsing", "dispatching"}]
      BY <1>2, <2>4 DEF Welcome!Parsed, Welcome!Saved, Welcome!Done,
         Welcome!GoTo
    <3>6. welcomeJob' \in [Slots -> [at : Welcome!Steps, n : 0..MaxWelcomes]]
      BY <1>2, <2>4 DEF Welcome!Parsed, Welcome!Saved, Welcome!Done,
         Welcome!GoTo
    <3>7. welcomeOverlapped' \in BOOLEAN /\ welcomeTorn' \in BOOLEAN
      BY <1>2, <2>4 DEF Welcome!Parsed, Welcome!Saved, Welcome!Done,
         Welcome!GoTo
    <3>8. welcomeMessages' \in 0..MaxWelcomes /\ welcomeCrashes' \in 0..MaxCrashes
      BY <1>2, <2>4 DEF Welcome!Parsed, Welcome!Saved, Welcome!Done,
         Welcome!GoTo
    <3>9. WelcomeGiven'
      BY <1>2, <2>4 DEF Welcome!Parsed, Welcome!Saved, Welcome!Done,
         Welcome!GoTo
    <3> QED
      BY <3>1, <3>2, <3>3, <3>4, <3>5, <3>6, <3>7, <3>8, <3>9
  <2>5. ASSUME NEW t \in Slots, Welcome!Answer(t)
        PROVE  WelcomeTypeInv'
    <3>1. welcomeStep' \in Welcome!Steps /\ welcomeGiven' \subseteq Welcome!Profile
      BY <1>2, <2>5 DEF Welcome!Answer, Welcome!Message, Welcome!Saved,
         Welcome!GoTo, Welcome!Storing
    <3>2. welcomeEntries' \subseteq [cat : Welcome!Categories, n : 1..MaxWelcomes]
      BY <1>2, <2>5 DEF Welcome!Answer, Welcome!Message, Welcome!Saved,
         Welcome!GoTo, Welcome!Storing
    <3>3. welcomeSaid' \in [Welcome!Questions -> 0..MaxWelcomes]
      BY <1>2, <2>5 DEF Welcome!Answer, Welcome!Message, Welcome!Saved,
         Welcome!GoTo, Welcome!Storing
    <3>4. welcomeDrafts' \in Nat
      BY <1>2, <2>5 DEF Welcome!Answer, Welcome!Message, Welcome!Saved,
         Welcome!GoTo, Welcome!Storing
    <3>5. welcomePc' \in [Slots -> {"idle", "storing", "summing", "parsing", "dispatching"}]
      BY <1>2, <2>5 DEF Welcome!Answer, Welcome!Message, Welcome!Saved,
         Welcome!GoTo, Welcome!Storing
    <3>6. welcomeJob' \in [Slots -> [at : Welcome!Steps, n : 0..MaxWelcomes]]
      BY <1>2, <2>5 DEF Welcome!Answer, Welcome!Message, Welcome!Saved,
         Welcome!GoTo, Welcome!Storing
    <3>7. welcomeOverlapped' \in BOOLEAN /\ welcomeTorn' \in BOOLEAN
      BY <1>2, <2>5 DEF Welcome!Answer, Welcome!Message, Welcome!Saved,
         Welcome!GoTo, Welcome!Storing
    <3>8. welcomeMessages' \in 0..MaxWelcomes /\ welcomeCrashes' \in 0..MaxCrashes
      BY <1>2, <2>5 DEF Welcome!Answer, Welcome!Message, Welcome!Saved,
         Welcome!GoTo, Welcome!Storing
    <3>9. WelcomeGiven'
      BY <1>2, <2>5 DEF Welcome!Answer, Welcome!Message, Welcome!Saved,
         Welcome!GoTo, Welcome!Storing
    <3> QED
      BY <3>1, <3>2, <3>3, <3>4, <3>5, <3>6, <3>7, <3>8, <3>9
  <2>6. ASSUME NEW t \in Slots, NEW q \in Welcome!Questions, Welcome!Redo(t, q)
        PROVE  WelcomeTypeInv'
    <3>1. welcomeStep' \in Welcome!Steps /\ welcomeGiven' \subseteq Welcome!Profile
      BY <1>2, <2>6 DEF Welcome!Redo, Welcome!Message, Welcome!RedoTargets,
         Welcome!TakenBack, Welcome!Erased, Welcome!Storing
    <3>2. welcomeEntries' \subseteq [cat : Welcome!Categories, n : 1..MaxWelcomes]
      BY <1>2, <2>6 DEF Welcome!Redo, Welcome!Message, Welcome!RedoTargets,
         Welcome!TakenBack, Welcome!Erased, Welcome!Storing
    <3>3. welcomeSaid' \in [Welcome!Questions -> 0..MaxWelcomes]
      BY <1>2, <2>6 DEF Welcome!Redo, Welcome!Message, Welcome!RedoTargets,
         Welcome!TakenBack, Welcome!Erased, Welcome!Storing
    <3>4. welcomeDrafts' \in Nat
      BY <1>2, <2>6 DEF Welcome!Redo, Welcome!Message, Welcome!RedoTargets,
         Welcome!TakenBack, Welcome!Erased, Welcome!Storing
    <3>5. welcomePc' \in [Slots -> {"idle", "storing", "summing", "parsing", "dispatching"}]
      BY <1>2, <2>6 DEF Welcome!Redo, Welcome!Message, Welcome!RedoTargets,
         Welcome!TakenBack, Welcome!Erased, Welcome!Storing
    <3>6. welcomeJob' \in [Slots -> [at : Welcome!Steps, n : 0..MaxWelcomes]]
      BY <1>2, <2>6 DEF Welcome!Redo, Welcome!Message, Welcome!RedoTargets,
         Welcome!TakenBack, Welcome!Erased, Welcome!Storing
    <3>7. welcomeOverlapped' \in BOOLEAN /\ welcomeTorn' \in BOOLEAN
      BY <1>2, <2>6 DEF Welcome!Redo, Welcome!Message, Welcome!RedoTargets,
         Welcome!TakenBack, Welcome!Erased, Welcome!Storing
    <3>8. welcomeMessages' \in 0..MaxWelcomes /\ welcomeCrashes' \in 0..MaxCrashes
      BY <1>2, <2>6 DEF Welcome!Redo, Welcome!Message, Welcome!RedoTargets,
         Welcome!TakenBack, Welcome!Erased, Welcome!Storing
    <3>9. WelcomeGiven'
      BY <1>2, <2>6 DEF Welcome!Redo, Welcome!Message, Welcome!RedoTargets,
         Welcome!TakenBack, Welcome!Erased, Welcome!Storing
    <3> QED
      BY <3>1, <3>2, <3>3, <3>4, <3>5, <3>6, <3>7, <3>8, <3>9
  <2>7. ASSUME NEW t \in Slots, Welcome!Stored(t)
        PROVE  WelcomeTypeInv'
    <3>1. welcomeStep' \in Welcome!Steps /\ welcomeGiven' \subseteq Welcome!Profile
      BY <1>2, <2>7 DEF Welcome!Stored, Welcome!Done, Welcome!GoTo
    <3>2. welcomeEntries' \subseteq [cat : Welcome!Categories, n : 1..MaxWelcomes]
      BY <1>2, <2>7 DEF Welcome!Stored, Welcome!Done, Welcome!GoTo
    <3>3. welcomeSaid' \in [Welcome!Questions -> 0..MaxWelcomes]
      BY <1>2, <2>7 DEF Welcome!Stored, Welcome!Done, Welcome!GoTo
    <3>4. welcomeDrafts' \in Nat
      BY <1>2, <2>7 DEF Welcome!Stored, Welcome!Done, Welcome!GoTo
    <3>5. welcomePc' \in [Slots -> {"idle", "storing", "summing", "parsing", "dispatching"}]
      BY <1>2, <2>7 DEF Welcome!Stored, Welcome!Done, Welcome!GoTo
    <3>6. welcomeJob' \in [Slots -> [at : Welcome!Steps, n : 0..MaxWelcomes]]
      BY <1>2, <2>7 DEF Welcome!Stored, Welcome!Done, Welcome!GoTo
    <3>7. welcomeOverlapped' \in BOOLEAN /\ welcomeTorn' \in BOOLEAN
      BY <1>2, <2>7 DEF Welcome!Stored, Welcome!Done, Welcome!GoTo
    <3>8. welcomeMessages' \in 0..MaxWelcomes /\ welcomeCrashes' \in 0..MaxCrashes
      BY <1>2, <2>7 DEF Welcome!Stored, Welcome!Done, Welcome!GoTo
    <3>9. WelcomeGiven'
      BY <1>2, <2>7 DEF Welcome!Stored, Welcome!Done, Welcome!GoTo
    <3> QED
      BY <3>1, <3>2, <3>3, <3>4, <3>5, <3>6, <3>7, <3>8, <3>9
  <2>8. ASSUME NEW t \in Slots, Welcome!GoalStored(t)
        PROVE  WelcomeTypeInv'
    <3>1. welcomeStep' \in Welcome!Steps /\ welcomeGiven' \subseteq Welcome!Profile
      BY <1>2, <2>8 DEF Welcome!GoalStored, Welcome!Saved, Welcome!GoTo
    <3>2. welcomeEntries' \subseteq [cat : Welcome!Categories, n : 1..MaxWelcomes]
      BY <1>2, <2>8 DEF Welcome!GoalStored, Welcome!Saved, Welcome!GoTo
    <3>3. welcomeSaid' \in [Welcome!Questions -> 0..MaxWelcomes]
      BY <1>2, <2>8 DEF Welcome!GoalStored, Welcome!Saved, Welcome!GoTo
    <3>4. welcomeDrafts' \in Nat
      BY <1>2, <2>8 DEF Welcome!GoalStored, Welcome!Saved, Welcome!GoTo
    <3>5. welcomePc' \in [Slots -> {"idle", "storing", "summing", "parsing", "dispatching"}]
      BY <1>2, <2>8 DEF Welcome!GoalStored, Welcome!Saved, Welcome!GoTo
    <3>6. welcomeJob' \in [Slots -> [at : Welcome!Steps, n : 0..MaxWelcomes]]
      BY <1>2, <2>8 DEF Welcome!GoalStored, Welcome!Saved, Welcome!GoTo
    <3>7. welcomeOverlapped' \in BOOLEAN /\ welcomeTorn' \in BOOLEAN
      BY <1>2, <2>8 DEF Welcome!GoalStored, Welcome!Saved, Welcome!GoTo
    <3>8. welcomeMessages' \in 0..MaxWelcomes /\ welcomeCrashes' \in 0..MaxCrashes
      BY <1>2, <2>8 DEF Welcome!GoalStored, Welcome!Saved, Welcome!GoTo
    <3>9. WelcomeGiven'
      BY <1>2, <2>8 DEF Welcome!GoalStored, Welcome!Saved, Welcome!GoTo
    <3> QED
      BY <3>1, <3>2, <3>3, <3>4, <3>5, <3>6, <3>7, <3>8, <3>9
  <2>9. ASSUME NEW t \in Slots, Welcome!Completed(t)
        PROVE  WelcomeTypeInv'
    <3>1. welcomeStep' \in Welcome!Steps /\ welcomeGiven' \subseteq Welcome!Profile
      BY <1>2, <2>9 DEF Welcome!Completed, Welcome!GoTo
    <3>2. welcomeEntries' \subseteq [cat : Welcome!Categories, n : 1..MaxWelcomes]
      BY <1>2, <2>9 DEF Welcome!Completed, Welcome!GoTo
    <3>3. welcomeSaid' \in [Welcome!Questions -> 0..MaxWelcomes]
      BY <1>2, <2>9 DEF Welcome!Completed, Welcome!GoTo
    <3>4. welcomeDrafts' \in Nat
      BY <1>2, <2>9 DEF Welcome!Completed, Welcome!GoTo
    <3>5. welcomePc' \in [Slots -> {"idle", "storing", "summing", "parsing", "dispatching"}]
      BY <1>2, <2>9 DEF Welcome!Completed, Welcome!GoTo
    <3>6. welcomeJob' \in [Slots -> [at : Welcome!Steps, n : 0..MaxWelcomes]]
      BY <1>2, <2>9 DEF Welcome!Completed, Welcome!GoTo
    <3>7. welcomeOverlapped' \in BOOLEAN /\ welcomeTorn' \in BOOLEAN
      BY <1>2, <2>9 DEF Welcome!Completed, Welcome!GoTo
    <3>8. welcomeMessages' \in 0..MaxWelcomes /\ welcomeCrashes' \in 0..MaxCrashes
      BY <1>2, <2>9 DEF Welcome!Completed, Welcome!GoTo
    <3>9. WelcomeGiven'
      BY <1>2, <2>9 DEF Welcome!Completed, Welcome!GoTo
    <3> QED
      BY <3>1, <3>2, <3>3, <3>4, <3>5, <3>6, <3>7, <3>8, <3>9
  <2>10. ASSUME NEW t \in Slots, Welcome!Aha(t)
        PROVE  WelcomeTypeInv'
    <3>1. welcomeStep' \in Welcome!Steps /\ welcomeGiven' \subseteq Welcome!Profile
      BY <1>2, <2>10 DEF Welcome!Aha, Welcome!Done, Welcome!GoTo
    <3>2. welcomeEntries' \subseteq [cat : Welcome!Categories, n : 1..MaxWelcomes]
      BY <1>2, <2>10 DEF Welcome!Aha, Welcome!Done, Welcome!GoTo
    <3>3. welcomeSaid' \in [Welcome!Questions -> 0..MaxWelcomes]
      BY <1>2, <2>10 DEF Welcome!Aha, Welcome!Done, Welcome!GoTo
    <3>4. welcomeDrafts' \in Nat
      BY <1>2, <2>10 DEF Welcome!Aha, Welcome!Done, Welcome!GoTo
    <3>5. welcomePc' \in [Slots -> {"idle", "storing", "summing", "parsing", "dispatching"}]
      BY <1>2, <2>10 DEF Welcome!Aha, Welcome!Done, Welcome!GoTo
    <3>6. welcomeJob' \in [Slots -> [at : Welcome!Steps, n : 0..MaxWelcomes]]
      BY <1>2, <2>10 DEF Welcome!Aha, Welcome!Done, Welcome!GoTo
    <3>7. welcomeOverlapped' \in BOOLEAN /\ welcomeTorn' \in BOOLEAN
      BY <1>2, <2>10 DEF Welcome!Aha, Welcome!Done, Welcome!GoTo
    <3>8. welcomeMessages' \in 0..MaxWelcomes /\ welcomeCrashes' \in 0..MaxCrashes
      BY <1>2, <2>10 DEF Welcome!Aha, Welcome!Done, Welcome!GoTo
    <3>9. WelcomeGiven'
      BY <1>2, <2>10 DEF Welcome!Aha, Welcome!Done, Welcome!GoTo
    <3> QED
      BY <3>1, <3>2, <3>3, <3>4, <3>5, <3>6, <3>7, <3>8, <3>9
  <2>11. CASE Welcome!Crash
    <3>1. welcomeStep' \in Welcome!Steps /\ welcomeGiven' \subseteq Welcome!Profile
      BY <1>2, <2>11 DEF Welcome!Crash, Welcome!Storing
    <3>2. welcomeEntries' \subseteq [cat : Welcome!Categories, n : 1..MaxWelcomes]
      BY <1>2, <2>11 DEF Welcome!Crash, Welcome!Storing
    <3>3. welcomeSaid' \in [Welcome!Questions -> 0..MaxWelcomes]
      BY <1>2, <2>11 DEF Welcome!Crash, Welcome!Storing
    <3>4. welcomeDrafts' \in Nat
      BY <1>2, <2>11 DEF Welcome!Crash, Welcome!Storing
    <3>5. welcomePc' \in [Slots -> {"idle", "storing", "summing", "parsing", "dispatching"}]
      BY <1>2, <2>11 DEF Welcome!Crash, Welcome!Storing
    <3>6. welcomeJob' \in [Slots -> [at : Welcome!Steps, n : 0..MaxWelcomes]]
      BY <1>2, <2>11 DEF Welcome!Crash, Welcome!Storing
    <3>7. welcomeOverlapped' \in BOOLEAN /\ welcomeTorn' \in BOOLEAN
      BY <1>2, <2>11 DEF Welcome!Crash, Welcome!Storing
    <3>8. welcomeMessages' \in 0..MaxWelcomes /\ welcomeCrashes' \in 0..MaxCrashes
      BY <1>2, <2>11 DEF Welcome!Crash, Welcome!Storing
    <3>9. WelcomeGiven'
      BY <1>2, <2>11 DEF Welcome!Crash, Welcome!Storing
    <3> QED
      BY <3>1, <3>2, <3>3, <3>4, <3>5, <3>6, <3>7, <3>8, <3>9
  <2>12. CASE UNCHANGED Welcome!vars
    BY <1>2, <2>12 DEF Welcome!vars
  <2> QED
    BY <1>2, <2>1, <2>2, <2>3, <2>4, <2>5, <2>6, <2>7, <2>8, <2>9, <2>10,
       <2>11,
       <2>12 DEF Welcome!Next
<1> QED
  BY <1>1, <1>2, PTL DEF Welcome!Spec

\* A finished dialogue has its goal and its summary, even so.
LEMMA WelcomeLastingHolds ==
    ASSUME WelcomeBounded
    PROVE  Welcome!Spec => []WelcomeLasting
<1>1. Welcome!Init => WelcomeLasting
  BY DEF Welcome!Init, WelcomeLasting
<1>2. ASSUME WelcomeTypeInv, WelcomeLasting, [Welcome!Next]_(Welcome!vars)
      PROVE  WelcomeLasting'
  <2> USE DEF WelcomeLasting, WelcomeHasGoal, WelcomeHasSum, WelcomeTypeInv,
              Welcome!TypeOK, WelcomeGiven, Welcome!Questions, Welcome!CategoryOf,
              Welcome!StepAfter, Welcome!NoJob, Welcome!procVars, Welcome!bounds
  <2>1. ASSUME NEW t \in Slots, Welcome!Profiled(t)
        PROVE  WelcomeLasting'
    BY <1>2, <2>1, WelcomeProfiledIs
  <2>2. ASSUME NEW t \in Slots, Welcome!SkipDocs(t)
        PROVE  WelcomeLasting'
    BY <1>2, <2>2 DEF Welcome!SkipDocs, Welcome!Message
  <2>3. ASSUME NEW t \in Slots, Welcome!Document(t)
        PROVE  WelcomeLasting'
    BY <1>2, <2>3 DEF Welcome!Document, Welcome!Message, Welcome!GoTo
  <2>4. ASSUME NEW t \in Slots, Welcome!Parsed(t)
        PROVE  WelcomeLasting'
    BY <1>2, <2>4 DEF Welcome!Parsed, Welcome!Saved, Welcome!Done,
       Welcome!GoTo
  <2>5. ASSUME NEW t \in Slots, Welcome!Answer(t)
        PROVE  WelcomeLasting'
    <3>1. /\ welcomeEntries' = welcomeEntries \cup {[cat |-> Welcome!CategoryOf[welcomeStep],
                                                     n |-> welcomeMessages']}
                                                         /\ welcomeStep \in Welcome!Questions
          /\ welcomeStep' = welcomeStep /\ welcomePc' = [welcomePc EXCEPT ![t] = "storing"]
          /\ welcomeJob' = [welcomeJob EXCEPT ![t] = [at |-> welcomeStep,
                                                      n |-> welcomeMessages']]
      BY <2>5 DEF Welcome!Answer, Welcome!Saved, Welcome!GoTo
    <3>2. ASSUME welcomeStep = "interview_q3"
          PROVE  WelcomeHasGoal'
      <4> DEFINE new == [cat |-> Welcome!CategoryOf[welcomeStep], n |-> welcomeMessages']
      <4>1. new \in welcomeEntries' /\ new.cat = "goal"
        BY <3>1, <3>2
      <4> HIDE DEF new
      <4> QED
        BY <4>1
    <3>3. (WelcomeHasGoal => WelcomeHasGoal') /\ (WelcomeHasSum => WelcomeHasSum')
      BY <3>1
    <3> HIDE DEF WelcomeHasGoal, WelcomeHasSum
    <3> QED
      BY <1>2, <3>1, <3>2, <3>3
  <2>6. ASSUME NEW t \in Slots, NEW q \in Welcome!Questions, Welcome!Redo(t, q)
        PROVE  WelcomeLasting'
    BY <1>2, <2>6 DEF Welcome!Redo, Welcome!Message, Welcome!RedoTargets,
       Welcome!TakenBack, Welcome!Erased, Welcome!Storing
  <2>7. ASSUME NEW t \in Slots, Welcome!Stored(t)
        PROVE  WelcomeLasting'
    BY <1>2, <2>7 DEF Welcome!Stored, Welcome!Done, Welcome!GoTo
  <2>8. ASSUME NEW t \in Slots, Welcome!GoalStored(t)
        PROVE  WelcomeLasting'
    <3>1. /\ welcomeEntries' = welcomeEntries \cup {[cat |-> "basic_info",
                                                     n |-> welcomeJob[t].n]}
                                                         /\ welcomeStep' = welcomeStep
          /\ welcomePc' = [welcomePc EXCEPT ![t] = "summing"]
          /\ welcomeJob' = [welcomeJob EXCEPT ![t] = welcomeJob[t]]
          /\ welcomePc[t] = "storing" /\ welcomeJob[t].at = "interview_q3"
      BY <2>8 DEF Welcome!GoalStored, Welcome!Saved, Welcome!GoTo
    <3>2. WelcomeHasSum'
      <4> DEFINE new == [cat |-> "basic_info", n |-> welcomeJob[t].n]
      <4>1. new \in welcomeEntries' /\ new.cat = "basic_info"
        BY <3>1
      <4> HIDE DEF new
      <4> QED
        BY <4>1
    <3>3. (WelcomeHasGoal => WelcomeHasGoal')
      BY <3>1
    <3> HIDE DEF WelcomeHasGoal, WelcomeHasSum
    <3> QED
      BY <1>2, <3>1, <3>2, <3>3
  <2>9. ASSUME NEW t \in Slots, Welcome!Completed(t)
        PROVE  WelcomeLasting'
    BY <1>2, <2>9 DEF Welcome!Completed, Welcome!GoTo
  <2>10. ASSUME NEW t \in Slots, Welcome!Aha(t)
        PROVE  WelcomeLasting'
    BY <1>2, <2>10 DEF Welcome!Aha, Welcome!Done, Welcome!GoTo
  <2>11. CASE Welcome!Crash
    BY <1>2, <2>11 DEF Welcome!Crash, Welcome!Storing
  <2>12. CASE UNCHANGED Welcome!vars
    BY <1>2, <2>12 DEF Welcome!vars
  <2> QED
    BY <1>2, <2>1, <2>2, <2>3, <2>4, <2>5, <2>6, <2>7, <2>8, <2>9, <2>10,
       <2>11,
       <2>12 DEF Welcome!Next
<1> QED
  BY <1>1, <1>2, WelcomeTypeInvHolds, PTL DEF Welcome!Spec

\* No message overlapped another, and no crash cut one in two.
WelcomeAlone == ~welcomeOverlapped /\ ~welcomeTorn

\* A message is between its transactions.
WelcomeBusy(t) == welcomePc[t] \in {"storing", "summing"}

\* The question was answered, or its answer is being stored.
WelcomeAnswered(q) ==
    \/ welcomeStep = "completed"
    \/ welcomeStep = "interview_q3" /\ q # "interview_q3"
    \/ welcomeStep = "interview_q2" /\ q = "interview_q1"
    \/ welcomeStep = q /\ \E t \in Slots : WelcomeBusy(t)

\* One message at a time is between two transactions, at the current step.
WelcomeAtIts ==
    \A t \in Slots : WelcomeBusy(t) =>
        /\ welcomeJob[t].at = welcomeStep
        /\ \A u \in Slots \ {t} : ~WelcomeBusy(u)

\* A question has one answer in the knowledge base: the one given last.
WelcomeOneAnswer(q) ==
    /\ \A e \in welcomeEntries : e.cat = Welcome!CategoryOf[q]
        => WelcomeAnswered(q) /\ e.n = welcomeSaid[q]
    /\ WelcomeAnswered(q) => \E e \in welcomeEntries : e.cat = Welcome!CategoryOf[q]

\* There is one summary, and it is the last thing written.
WelcomeOneSum ==
    /\ \A e, f \in welcomeEntries : e.cat = "basic_info" /\ f.cat = "basic_info" => e.n = f.n
    /\ WelcomeHasSum => welcomeStep = "completed" \/ \E t \in Slots : welcomePc[t] = "summing"

\* The first drafts are asked for once.
WelcomeDraftsOnce ==
    /\ welcomeDrafts <= 3
    /\ welcomeStep # "completed"
        => welcomeDrafts = 0 /\ \A t \in Slots : welcomePc[t] # "dispatching"
    /\ \A t \in Slots : welcomePc[t] = "dispatching" =>
         welcomeDrafts = 0 /\ \A u \in Slots \ {t} : welcomePc[u] # "dispatching"

\* The inductive invariant, as long as nothing overlapped or crashed.
WelcomeAloneInv == WelcomeAlone =>
    /\ WelcomeAtIts
    /\ WelcomeOneAnswer("interview_q1") /\ WelcomeOneAnswer("interview_q2")
    /\ WelcomeOneAnswer("interview_q3")
    /\ WelcomeOneSum
    /\ WelcomeDraftsOnce

\* It holds at every step of every message.
LEMMA WelcomeAloneInvHolds ==
    ASSUME WelcomeBounded
    PROVE  Welcome!Spec => []WelcomeAloneInv
<1>1. Welcome!Init => WelcomeAloneInv
  BY DEF Welcome!Init, WelcomeAloneInv, WelcomeAlone, WelcomeAtIts,
     WelcomeOneAnswer, WelcomeOneSum, WelcomeDraftsOnce, WelcomeHasSum,
     WelcomeBusy, WelcomeAnswered, Welcome!CategoryOf
<1>2. ASSUME WelcomeTypeInv, WelcomeAloneInv, [Welcome!Next]_(Welcome!vars)
      PROVE  WelcomeAloneInv'
  <2> USE DEF WelcomeAloneInv, WelcomeAlone, WelcomeAtIts, WelcomeOneAnswer,
              WelcomeOneSum, WelcomeDraftsOnce, WelcomeHasSum, WelcomeBusy,
              WelcomeAnswered, WelcomeTypeInv, Welcome!TypeOK, WelcomeGiven,
              Welcome!Questions, Welcome!CategoryOf, Welcome!StepAfter, Welcome!NoJob,
              Welcome!procVars, Welcome!bounds
  <2>1. ASSUME NEW t \in Slots, Welcome!Profiled(t)
        PROVE  WelcomeAloneInv'
    <3>1. WelcomeAlone' => WelcomeAtIts'
      BY <1>2, <2>1, WelcomeProfiledIs DEF WelcomeEarly
    <3>2. WelcomeAlone' => WelcomeOneAnswer("interview_q1")'
      BY <1>2, <2>1, WelcomeProfiledIs DEF WelcomeEarly
    <3>3. WelcomeAlone' => WelcomeOneAnswer("interview_q2")'
      BY <1>2, <2>1, WelcomeProfiledIs DEF WelcomeEarly
    <3>4. WelcomeAlone' => WelcomeOneAnswer("interview_q3")'
      BY <1>2, <2>1, WelcomeProfiledIs DEF WelcomeEarly
    <3>5. WelcomeAlone' => WelcomeOneSum'
      BY <1>2, <2>1, WelcomeProfiledIs DEF WelcomeEarly
    <3>6. WelcomeAlone' => WelcomeDraftsOnce'
      BY <1>2, <2>1, WelcomeProfiledIs DEF WelcomeEarly
    <3> QED
      BY <3>1, <3>2, <3>3, <3>4, <3>5, <3>6
  <2>2. ASSUME NEW t \in Slots, Welcome!SkipDocs(t)
        PROVE  WelcomeAloneInv'
    <3>1. WelcomeAlone' => WelcomeAtIts'
      BY <1>2, <2>2 DEF Welcome!SkipDocs, Welcome!Message
    <3>2. WelcomeAlone' => WelcomeOneAnswer("interview_q1")'
      BY <1>2, <2>2 DEF Welcome!SkipDocs, Welcome!Message
    <3>3. WelcomeAlone' => WelcomeOneAnswer("interview_q2")'
      BY <1>2, <2>2 DEF Welcome!SkipDocs, Welcome!Message
    <3>4. WelcomeAlone' => WelcomeOneAnswer("interview_q3")'
      BY <1>2, <2>2 DEF Welcome!SkipDocs, Welcome!Message
    <3>5. WelcomeAlone' => WelcomeOneSum'
      BY <1>2, <2>2 DEF Welcome!SkipDocs, Welcome!Message
    <3>6. WelcomeAlone' => WelcomeDraftsOnce'
      BY <1>2, <2>2 DEF Welcome!SkipDocs, Welcome!Message
    <3> QED
      BY <3>1, <3>2, <3>3, <3>4, <3>5, <3>6
  <2>3. ASSUME NEW t \in Slots, Welcome!Document(t)
        PROVE  WelcomeAloneInv'
    <3>1. WelcomeAlone' => WelcomeAtIts'
      BY <1>2, <2>3 DEF Welcome!Document, Welcome!Message, Welcome!GoTo
    <3>2. WelcomeAlone' => WelcomeOneAnswer("interview_q1")'
      BY <1>2, <2>3 DEF Welcome!Document, Welcome!Message, Welcome!GoTo
    <3>3. WelcomeAlone' => WelcomeOneAnswer("interview_q2")'
      BY <1>2, <2>3 DEF Welcome!Document, Welcome!Message, Welcome!GoTo
    <3>4. WelcomeAlone' => WelcomeOneAnswer("interview_q3")'
      BY <1>2, <2>3 DEF Welcome!Document, Welcome!Message, Welcome!GoTo
    <3>5. WelcomeAlone' => WelcomeOneSum'
      BY <1>2, <2>3 DEF Welcome!Document, Welcome!Message, Welcome!GoTo
    <3>6. WelcomeAlone' => WelcomeDraftsOnce'
      BY <1>2, <2>3 DEF Welcome!Document, Welcome!Message, Welcome!GoTo
    <3> QED
      BY <3>1, <3>2, <3>3, <3>4, <3>5, <3>6
  <2>4. ASSUME NEW t \in Slots, Welcome!Parsed(t)
        PROVE  WelcomeAloneInv'
    <3>1. WelcomeAlone' => WelcomeAtIts'
      BY <1>2, <2>4 DEF Welcome!Parsed, Welcome!Saved, Welcome!Done,
         Welcome!GoTo
    <3>2. WelcomeAlone' => WelcomeOneAnswer("interview_q1")'
      BY <1>2, <2>4 DEF Welcome!Parsed, Welcome!Saved, Welcome!Done,
         Welcome!GoTo
    <3>3. WelcomeAlone' => WelcomeOneAnswer("interview_q2")'
      BY <1>2, <2>4 DEF Welcome!Parsed, Welcome!Saved, Welcome!Done,
         Welcome!GoTo
    <3>4. WelcomeAlone' => WelcomeOneAnswer("interview_q3")'
      BY <1>2, <2>4 DEF Welcome!Parsed, Welcome!Saved, Welcome!Done,
         Welcome!GoTo
    <3>5. WelcomeAlone' => WelcomeOneSum'
      BY <1>2, <2>4 DEF Welcome!Parsed, Welcome!Saved, Welcome!Done,
         Welcome!GoTo
    <3>6. WelcomeAlone' => WelcomeDraftsOnce'
      BY <1>2, <2>4 DEF Welcome!Parsed, Welcome!Saved, Welcome!Done,
         Welcome!GoTo
    <3> QED
      BY <3>1, <3>2, <3>3, <3>4, <3>5, <3>6
  <2>5. ASSUME NEW t \in Slots, Welcome!Answer(t)
        PROVE  WelcomeAloneInv'
    <3>1. WelcomeAlone' => WelcomeAtIts'
      BY <1>2, <2>5 DEF Welcome!Answer, Welcome!Message, Welcome!Saved,
         Welcome!GoTo, Welcome!Storing
    <3>2. ASSUME NEW o \in Welcome!Questions, WelcomeAlone', WelcomeOneAnswer(o)
          PROVE  WelcomeOneAnswer(o)'
      <4> DEFINE new == [cat |-> Welcome!CategoryOf[welcomeStep], n |-> welcomeMessages']
      <4>1. /\ welcomeEntries' = welcomeEntries \cup {new} /\ welcomeStep \in Welcome!Questions
            /\ welcomeStep' = welcomeStep /\ welcomePc' = [welcomePc EXCEPT ![t] = "storing"]
            /\ WelcomeAlone
            /\ welcomeSaid' = [welcomeSaid EXCEPT ![welcomeStep] = welcomeMessages']
                /\ \A u \in Slots : ~WelcomeBusy(u)
        BY <2>5, <3>2 DEF Welcome!Answer, Welcome!Saved, Welcome!GoTo,
           Welcome!Storing
      <4>2. WelcomeBusy(t)'
        BY <1>2, <4>1
      <4>3. welcomeSaid'[welcomeStep] = welcomeMessages'
          /\ (o # welcomeStep => welcomeSaid'[o] = welcomeSaid[o])
        BY <1>2, <3>2, <4>1
      <4>4. new.cat = Welcome!CategoryOf[welcomeStep] /\ new.n = welcomeMessages'
        OBVIOUS
      <4> HIDE DEF new
      <4>5. CASE o = welcomeStep
        <5>1. ~WelcomeAnswered(o)
          BY <4>1, <4>5
        <5>2. \A e \in welcomeEntries : e.cat # Welcome!CategoryOf[o]
          BY <3>2, <5>1
        <5>3. WelcomeAnswered(o)'
          BY <4>1, <4>2, <4>5
        <5> HIDE DEF WelcomeAnswered, Welcome!CategoryOf
        <5> QED
          BY <4>1, <4>3, <4>4, <4>5, <5>2, <5>3
      <4>6. CASE o # welcomeStep
        <5>1. WelcomeAnswered(o)' <=> WelcomeAnswered(o)
          BY <4>1, <4>6
        <5>2. Welcome!CategoryOf[welcomeStep] # Welcome!CategoryOf[o]
            /\ Welcome!CategoryOf' = Welcome!CategoryOf
          BY <3>2, <4>1, <4>6
        <5> HIDE DEF WelcomeAnswered, Welcome!CategoryOf
        <5> QED
          BY <3>2, <4>1, <4>3, <4>4, <4>6, <5>1, <5>2
      <4> QED
        BY <4>5, <4>6
    <3>5. WelcomeAlone' => WelcomeOneSum'
      BY <1>2, <2>5 DEF Welcome!Answer, Welcome!Message, Welcome!Saved,
         Welcome!GoTo, Welcome!Storing
    <3>6. WelcomeAlone' => WelcomeDraftsOnce'
      BY <1>2, <2>5 DEF Welcome!Answer, Welcome!Message, Welcome!Saved,
         Welcome!GoTo, Welcome!Storing
    <3> QED
      BY <1>2, <2>5, <3>1, <3>2, <3>5, <3>6 DEF Welcome!Answer
  <2>6. ASSUME NEW t \in Slots, NEW q \in Welcome!Questions, Welcome!Redo(t, q)
        PROVE  WelcomeAloneInv'
    <3>1. WelcomeAlone' => WelcomeAtIts'
      BY <1>2, <2>6 DEF Welcome!Redo, Welcome!Message, Welcome!RedoTargets,
         Welcome!TakenBack, Welcome!Erased, Welcome!Storing
    <3>2. WelcomeAlone' => WelcomeOneAnswer("interview_q1")'
      <4> SUFFICES ASSUME WelcomeAlone'
                   PROVE  WelcomeOneAnswer("interview_q1")'
        OBVIOUS
      <4>1. /\ welcomeEntries' = {e \in welcomeEntries : e.cat \notin Welcome!Erased(q)}
            /\ welcomeStep' = q /\ welcomePc' = welcomePc
            /\ welcomeSaid' = [x \in Welcome!Questions |-> IF x \in Welcome!TakenBack(q) THEN 0 ELSE welcomeSaid[x]]
            /\ WelcomeAlone /\ \A u \in Slots : ~WelcomeBusy(u)
        BY <2>6 DEF Welcome!Redo, Welcome!Storing
      <4>2. \/ q = "interview_q1" /\ welcomeStep = "interview_q2"
               /\ Welcome!Erased(q) = {"core_value"}
            \/ q = "interview_q1" /\ welcomeStep = "interview_q3"
                /\ Welcome!Erased(q) = {"core_value", "pain_point"}
            \/ q = "interview_q2" /\ welcomeStep = "interview_q3"
                /\ Welcome!Erased(q) = {"pain_point"}
        BY <2>6 DEF Welcome!Redo, Welcome!RedoTargets, Welcome!TakenBack,
           Welcome!Erased
      <4>3. WelcomeOneAnswer("interview_q1")
        BY <1>2, <4>1
      <4> QED
        BY <4>1, <4>2, <4>3 DEF Welcome!TakenBack
    <3>3. WelcomeAlone' => WelcomeOneAnswer("interview_q2")'
      <4> SUFFICES ASSUME WelcomeAlone'
                   PROVE  WelcomeOneAnswer("interview_q2")'
        OBVIOUS
      <4>1. /\ welcomeEntries' = {e \in welcomeEntries : e.cat \notin Welcome!Erased(q)}
            /\ welcomeStep' = q /\ welcomePc' = welcomePc
            /\ welcomeSaid' = [x \in Welcome!Questions |-> IF x \in Welcome!TakenBack(q) THEN 0 ELSE welcomeSaid[x]]
            /\ WelcomeAlone /\ \A u \in Slots : ~WelcomeBusy(u)
        BY <2>6 DEF Welcome!Redo, Welcome!Storing
      <4>2. \/ q = "interview_q1" /\ welcomeStep = "interview_q2"
               /\ Welcome!Erased(q) = {"core_value"}
            \/ q = "interview_q1" /\ welcomeStep = "interview_q3"
                /\ Welcome!Erased(q) = {"core_value", "pain_point"}
            \/ q = "interview_q2" /\ welcomeStep = "interview_q3"
                /\ Welcome!Erased(q) = {"pain_point"}
        BY <2>6 DEF Welcome!Redo, Welcome!RedoTargets, Welcome!TakenBack,
           Welcome!Erased
      <4>3. WelcomeOneAnswer("interview_q2")
        BY <1>2, <4>1
      <4> QED
        BY <4>1, <4>2, <4>3 DEF Welcome!TakenBack
    <3>4. WelcomeAlone' => WelcomeOneAnswer("interview_q3")'
      BY <1>2, <2>6 DEF Welcome!Redo, Welcome!Message, Welcome!RedoTargets,
         Welcome!TakenBack, Welcome!Erased, Welcome!Storing
    <3>5. WelcomeAlone' => WelcomeOneSum'
      BY <1>2, <2>6 DEF Welcome!Redo, Welcome!Message, Welcome!RedoTargets,
         Welcome!TakenBack, Welcome!Erased, Welcome!Storing
    <3>6. WelcomeAlone' => WelcomeDraftsOnce'
      BY <1>2, <2>6 DEF Welcome!Redo, Welcome!Message, Welcome!RedoTargets,
         Welcome!TakenBack, Welcome!Erased, Welcome!Storing
    <3> QED
      BY <3>1, <3>2, <3>3, <3>4, <3>5, <3>6
  <2>7. ASSUME NEW t \in Slots, Welcome!Stored(t)
        PROVE  WelcomeAloneInv'
    <3>1. WelcomeAlone' => WelcomeAtIts'
      BY <1>2, <2>7 DEF Welcome!Stored, Welcome!Done, Welcome!GoTo
    <3>2. WelcomeAlone' => WelcomeOneAnswer("interview_q1")'
      BY <1>2, <2>7 DEF Welcome!Stored, Welcome!Done, Welcome!GoTo
    <3>3. WelcomeAlone' => WelcomeOneAnswer("interview_q2")'
      BY <1>2, <2>7 DEF Welcome!Stored, Welcome!Done, Welcome!GoTo
    <3>4. WelcomeAlone' => WelcomeOneAnswer("interview_q3")'
      BY <1>2, <2>7 DEF Welcome!Stored, Welcome!Done, Welcome!GoTo
    <3>5. WelcomeAlone' => WelcomeOneSum'
      BY <1>2, <2>7 DEF Welcome!Stored, Welcome!Done, Welcome!GoTo
    <3>6. WelcomeAlone' => WelcomeDraftsOnce'
      BY <1>2, <2>7 DEF Welcome!Stored, Welcome!Done, Welcome!GoTo
    <3> QED
      BY <3>1, <3>2, <3>3, <3>4, <3>5, <3>6
  <2>8. ASSUME NEW t \in Slots, Welcome!GoalStored(t)
        PROVE  WelcomeAloneInv'
    <3>1. WelcomeAlone' => WelcomeAtIts'
      BY <1>2, <2>8 DEF Welcome!GoalStored, Welcome!Saved, Welcome!GoTo
    <3>2. WelcomeAlone' => WelcomeOneAnswer("interview_q1")'
      BY <1>2, <2>8 DEF Welcome!GoalStored, Welcome!Saved, Welcome!GoTo
    <3>3. WelcomeAlone' => WelcomeOneAnswer("interview_q2")'
      BY <1>2, <2>8 DEF Welcome!GoalStored, Welcome!Saved, Welcome!GoTo
    <3>4. WelcomeAlone' => WelcomeOneAnswer("interview_q3")'
      BY <1>2, <2>8 DEF Welcome!GoalStored, Welcome!Saved, Welcome!GoTo
    <3>5. WelcomeAlone' => WelcomeOneSum'
      BY <1>2, <2>8 DEF Welcome!GoalStored, Welcome!Saved, Welcome!GoTo
    <3>6. WelcomeAlone' => WelcomeDraftsOnce'
      BY <1>2, <2>8 DEF Welcome!GoalStored, Welcome!Saved, Welcome!GoTo
    <3> QED
      BY <3>1, <3>2, <3>3, <3>4, <3>5, <3>6
  <2>9. ASSUME NEW t \in Slots, Welcome!Completed(t)
        PROVE  WelcomeAloneInv'
    <3>1. WelcomeAlone' => WelcomeAtIts'
      BY <1>2, <2>9 DEF Welcome!Completed, Welcome!GoTo
    <3>2. WelcomeAlone' => WelcomeOneAnswer("interview_q1")'
      BY <1>2, <2>9 DEF Welcome!Completed, Welcome!GoTo
    <3>3. WelcomeAlone' => WelcomeOneAnswer("interview_q2")'
      BY <1>2, <2>9 DEF Welcome!Completed, Welcome!GoTo
    <3>4. WelcomeAlone' => WelcomeOneAnswer("interview_q3")'
      BY <1>2, <2>9 DEF Welcome!Completed, Welcome!GoTo
    <3>5. WelcomeAlone' => WelcomeOneSum'
      BY <1>2, <2>9 DEF Welcome!Completed, Welcome!GoTo
    <3>6. WelcomeAlone' => WelcomeDraftsOnce'
      BY <1>2, <2>9 DEF Welcome!Completed, Welcome!GoTo
    <3> QED
      BY <3>1, <3>2, <3>3, <3>4, <3>5, <3>6
  <2>10. ASSUME NEW t \in Slots, Welcome!Aha(t)
        PROVE  WelcomeAloneInv'
    <3>1. WelcomeAlone' => WelcomeAtIts'
      BY <1>2, <2>10 DEF Welcome!Aha, Welcome!Done, Welcome!GoTo
    <3>2. WelcomeAlone' => WelcomeOneAnswer("interview_q1")'
      BY <1>2, <2>10 DEF Welcome!Aha, Welcome!Done, Welcome!GoTo
    <3>3. WelcomeAlone' => WelcomeOneAnswer("interview_q2")'
      BY <1>2, <2>10 DEF Welcome!Aha, Welcome!Done, Welcome!GoTo
    <3>4. WelcomeAlone' => WelcomeOneAnswer("interview_q3")'
      BY <1>2, <2>10 DEF Welcome!Aha, Welcome!Done, Welcome!GoTo
    <3>5. WelcomeAlone' => WelcomeOneSum'
      BY <1>2, <2>10 DEF Welcome!Aha, Welcome!Done, Welcome!GoTo
    <3>6. WelcomeAlone' => WelcomeDraftsOnce'
      BY <1>2, <2>10 DEF Welcome!Aha, Welcome!Done, Welcome!GoTo
    <3> QED
      BY <3>1, <3>2, <3>3, <3>4, <3>5, <3>6
  <2>11. CASE Welcome!Crash
    <3>1. WelcomeAlone' => WelcomeAtIts'
      BY <1>2, <2>11 DEF Welcome!Crash, Welcome!Storing
    <3>2. WelcomeAlone' => WelcomeOneAnswer("interview_q1")'
      BY <1>2, <2>11 DEF Welcome!Crash, Welcome!Storing
    <3>3. WelcomeAlone' => WelcomeOneAnswer("interview_q2")'
      BY <1>2, <2>11 DEF Welcome!Crash, Welcome!Storing
    <3>4. WelcomeAlone' => WelcomeOneAnswer("interview_q3")'
      BY <1>2, <2>11 DEF Welcome!Crash, Welcome!Storing
    <3>5. WelcomeAlone' => WelcomeOneSum'
      BY <1>2, <2>11 DEF Welcome!Crash, Welcome!Storing
    <3>6. WelcomeAlone' => WelcomeDraftsOnce'
      BY <1>2, <2>11 DEF Welcome!Crash, Welcome!Storing
    <3> QED
      BY <3>1, <3>2, <3>3, <3>4, <3>5, <3>6
  <2>12. CASE UNCHANGED Welcome!vars
    BY <1>2, <2>12 DEF Welcome!vars
  <2> QED
    BY <1>2, <2>1, <2>2, <2>3, <2>4, <2>5, <2>6, <2>7, <2>8, <2>9, <2>10,
       <2>11,
       <2>12 DEF Welcome!Next
<1> QED
  BY <1>1, <1>2, WelcomeTypeInvHolds, PTL DEF Welcome!Spec

\* The messages of the onboarding count with the same operator.
LEMMA WelcomeSizeIs ==
    ASSUME NEW S
    PROVE  Welcome!Cardinality(S) = Cardinality(S)
BY DEF Welcome!Cardinality, Cardinality

\* A finished onboarding of the first Kachu kept the boss's last answer to
\* every question, unless messages overlapped or a crash cut one in two.
THEOREM WelcomeFinishedIsAnsweredHolds ==
    ASSUME WelcomeBounded
    PROVE  Welcome!Spec => []Welcome!FinishedIsAnswered
<1>1. ASSUME WelcomeTypeInv, WelcomeLasting, WelcomeAloneInv
      PROVE  Welcome!FinishedIsAnswered
  <2> SUFFICES ASSUME welcomeStep = "completed"
               PROVE  /\ welcomeGiven = Welcome!Profile /\ Welcome!Kept("goal") # {}
                      /\ Welcome!Kept("basic_info") # {}
                      /\ ~welcomeOverlapped /\ ~welcomeTorn =>
                           /\ \A q \in Welcome!Questions : Welcome!Kept(Welcome!CategoryOf[q]) = {welcomeSaid[q]}
                           /\ Welcome!Cardinality(Welcome!Kept("basic_info")) = 1
                           /\ welcomeDrafts <= 3
    BY DEF Welcome!FinishedIsAnswered
  <2>1. welcomeGiven = Welcome!Profile
    BY <1>1 DEF WelcomeTypeInv, WelcomeGiven, WelcomeEarly
  <2>2. WelcomeHasGoal /\ WelcomeHasSum
    BY <1>1 DEF WelcomeLasting
  <2>3. Welcome!Kept("goal") # {} /\ Welcome!Kept("basic_info") # {}
    BY <2>2 DEF WelcomeHasGoal, WelcomeHasSum, Welcome!Kept
  <2>4. ASSUME WelcomeAlone
        PROVE  \A q \in Welcome!Questions : Welcome!Kept(Welcome!CategoryOf[q]) = {welcomeSaid[q]}
    <3>1. ASSUME NEW q \in Welcome!Questions
          PROVE  Welcome!Kept(Welcome!CategoryOf[q]) = {welcomeSaid[q]}
      <4>1. WelcomeOneAnswer(q) /\ WelcomeAnswered(q)
        BY <1>1, <2>4, <3>1 DEF WelcomeAloneInv, Welcome!Questions,
           WelcomeAnswered
      <4>2. PICK e \in welcomeEntries : e.cat = Welcome!CategoryOf[q]
        BY <4>1 DEF WelcomeOneAnswer
      <4> HIDE DEF Welcome!CategoryOf
      <4> QED
        BY <4>1, <4>2 DEF WelcomeOneAnswer, Welcome!Kept
    <3> QED
      BY <3>1
  <2>5. ASSUME WelcomeAlone
        PROVE  Welcome!Cardinality(Welcome!Kept("basic_info")) = 1
    <3>1. PICK e \in welcomeEntries : e.cat = "basic_info"
      BY <2>2 DEF WelcomeHasSum
    <3>2. Welcome!Kept("basic_info") = {e.n}
      BY <1>1, <2>5, <3>1 DEF WelcomeAloneInv, WelcomeOneSum, Welcome!Kept
    <3> QED
      BY <3>2, FS_Singleton, WelcomeSizeIs
  <2>6. WelcomeAlone => welcomeDrafts <= 3
    BY <1>1 DEF WelcomeAloneInv, WelcomeDraftsOnce
  <2> QED
    BY <2>1, <2>3, <2>4, <2>5, <2>6 DEF WelcomeAlone
<1> QED
  BY <1>1, WelcomeTypeInvHolds, WelcomeLastingHolds, WelcomeAloneInvHolds, PTL
=============================================================================
