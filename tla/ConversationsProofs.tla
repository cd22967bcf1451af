------------------------- MODULE ConversationsProofs -------------------------
(***************************************************************************)
(* Proofs about the owner's drafts and the events of LINE.                 *)
(***************************************************************************)
EXTENDS Conversations, Integers, FiniteSetTheorems, TLAPS
-----------------------------------------------------------------------------
(* Local drafts                                                              *)

\* What is asked of the sets: a slot is not the loop, and a draft is of one kind.
DraftsApart ==
    /\ Drafts!Loop \notin Slots
    /\ Items \cap Inlines = {} /\ Items \cap Messages = {} /\ Inlines \cap Messages = {}

\* Every variable stays in its set.
LEMMA DraftsTypeInvHolds == Drafts!Spec => []Drafts!TypeOK
<1>1. Drafts!Init => Drafts!TypeOK
  BY DEF Drafts!Init, Drafts!TypeOK, Drafts!Results, Drafts!Works,
     Drafts!Channels
<1>2. ASSUME Drafts!TypeOK, [Drafts!Next]_(Drafts!vars)
      PROVE  Drafts!TypeOK'
  <2> USE DEF Drafts!TypeOK, Drafts!NoResult, Drafts!Results, Drafts!Works, Drafts!Procs,
              Drafts!Channels, Drafts!Busy, Drafts!recVars, Drafts!procVars,
              Drafts!counters, Drafts!outside
  <2>1. ASSUME NEW i \in Items, Drafts!CreatePlan(i)
        PROVE  Drafts!TypeOK'
    BY <1>2, <2>1 DEF Drafts!CreatePlan
  <2>2. ASSUME NEW i \in Items, Drafts!ComesDue(i)
        PROVE  Drafts!TypeOK'
    BY <1>2, <2>2 DEF Drafts!ComesDue
  <2>3. CASE Drafts!LoopTick
    BY <1>2, <2>3 DEF Drafts!LoopTick, Drafts!ListDueItems
  <2>4. CASE Drafts!ItemDrafted
    BY <1>2, <2>4 DEF Drafts!ItemDrafted, Drafts!GoTo
  <2>5. CASE Drafts!DispatchFails
    BY <1>2, <2>5 DEF Drafts!DispatchFails, Drafts!Finish, Drafts!Fault
  <2>6. ASSUME NEW i \in Items, Drafts!DispatchItem(i)
        PROVE  Drafts!TypeOK'
    BY <1>2, <2>6 DEF Drafts!DispatchItem, Drafts!Begin, Drafts!NoResult
  <2>7. ASSUME NEW t \in Slots, NEW m \in Messages, Drafts!IngestMetaEvent(t, m)
        PROVE  Drafts!TypeOK'
    BY <1>2, <2>7 DEF Drafts!IngestMetaEvent, Drafts!Begin, Drafts!NoResult
  <2>8. ASSUME NEW t \in Slots, NEW m \in Messages, Drafts!ReplayMetaEvent(t, m)
        PROVE  Drafts!TypeOK'
    BY <1>2, <2>8 DEF Drafts!ReplayMetaEvent, Drafts!Begin, Drafts!NoResult,
       Drafts!Tap
  <2>9. ASSUME NEW t \in Slots, Drafts!InlineDrafted(t)
        PROVE  Drafts!TypeOK'
    BY <1>2, <2>9 DEF Drafts!InlineDrafted, Drafts!GoTo
  <2>10. ASSUME NEW t \in Slots, Drafts!EngagementCreated(t)
        PROVE  Drafts!TypeOK'
    BY <1>2, <2>10 DEF Drafts!EngagementCreated, Drafts!GoTo
  <2>11. ASSUME NEW t \in Slots, Drafts!EngagementExists(t)
        PROVE  Drafts!TypeOK'
    BY <1>2, <2>11 DEF Drafts!EngagementExists, Drafts!Finish
  <2>12. ASSUME NEW t \in Slots, Drafts!RequestFails(t)
        PROVE  Drafts!TypeOK'
    BY <1>2, <2>12 DEF Drafts!RequestFails, Drafts!Finish, Drafts!Fault
  <2>13. ASSUME NEW t \in Slots, NEW c \in Drafts!Channels,
               NEW next \in {"meta", "deciding"}, (c = "google") <=> (next = "meta"),
               Drafts!PostAccepted(t, c, next)
        PROVE  Drafts!TypeOK'
    BY <1>2, <2>13 DEF Drafts!PostAccepted
  <2>14. ASSUME NEW t \in Slots, NEW c \in Drafts!Channels,
               NEW next \in {"meta", "deciding"}, (c = "google") <=> (next = "meta"),
               Drafts!NothingToPost(t, c, next)
        PROVE  Drafts!TypeOK'
    BY <1>2, <2>14 DEF Drafts!NothingToPost, Drafts!GoTo
  <2>15. ASSUME NEW t \in Slots, NEW c \in Drafts!Channels,
               NEW next \in {"meta", "deciding"}, (c = "google") <=> (next = "meta"),
               Drafts!PostRefused(t, c, next)
        PROVE  Drafts!TypeOK'
    BY <1>2, <2>15 DEF Drafts!PostRefused, Drafts!Fault
  <2>16. ASSUME NEW t \in Slots, NEW c \in Drafts!Channels, Drafts!PostRaises(t, c)
        PROVE  Drafts!TypeOK'
    BY <1>2, <2>16 DEF Drafts!PostRaises, Drafts!Finish, Drafts!Fault
  <2>17. ASSUME NEW t \in Slots, Drafts!DecidePending(t)
        PROVE  Drafts!TypeOK'
    BY <1>2, <2>17 DEF Drafts!DecidePending, Drafts!GoTo
  <2>18. ASSUME NEW t \in Slots, Drafts!CloseRecord(t)
        PROVE  Drafts!TypeOK'
    BY <1>2, <2>18 DEF Drafts!CloseRecord, Drafts!Finish
  <2>19. ASSUME NEW t \in Slots, Drafts!DraftRevised(t)
        PROVE  Drafts!TypeOK'
    BY <1>2, <2>19 DEF Drafts!DraftRevised, Drafts!Finish
  <2>20. ASSUME NEW p \in Drafts!Procs, Drafts!SavePendingApproval(p)
        PROVE  Drafts!TypeOK'
    BY <1>2, <2>20 DEF Drafts!SavePendingApproval, Drafts!GoTo
  <2>21. ASSUME NEW p \in Drafts!Procs, Drafts!Notified(p)
        PROVE  Drafts!TypeOK'
    BY <1>2, <2>21 DEF Drafts!Notified, Drafts!Finish
  <2>22. ASSUME NEW w \in Drafts!Works, Drafts!TapReject(w)
        PROVE  Drafts!TypeOK'
    BY <1>2, <2>22 DEF Drafts!TapReject, Drafts!Tap
  <2>23. ASSUME NEW w \in Drafts!Works, Drafts!TapEdit(w)
        PROVE  Drafts!TypeOK'
    BY <1>2, <2>23 DEF Drafts!TapEdit, Drafts!Tap
  <2>24. ASSUME NEW t \in Slots, NEW w \in Drafts!Works, Drafts!TapApprove(t, w)
        PROVE  Drafts!TypeOK'
    BY <1>2, <2>24 DEF Drafts!TapApprove, Drafts!Begin, Drafts!NoResult,
       Drafts!Tap
  <2>25. ASSUME NEW t \in Slots, NEW w \in Drafts!Works, Drafts!ReviseDraft(t, w)
        PROVE  Drafts!TypeOK'
    BY <1>2, <2>25 DEF Drafts!ReviseDraft, Drafts!Begin, Drafts!NoResult,
       Drafts!Tap
  <2>26. ASSUME NEW t \in Slots, NEW n \in Inlines, Drafts!AskInline(t, n)
        PROVE  Drafts!TypeOK'
    BY <1>2, <2>26 DEF Drafts!AskInline, Drafts!Begin, Drafts!NoResult,
       Drafts!Tap
  <2>27. CASE Drafts!Crash
    BY <1>2, <2>27 DEF Drafts!Crash
  <2>28. CASE UNCHANGED Drafts!vars
    BY <1>2, <2>28 DEF Drafts!vars
  <2> QED
    BY <1>2, <2>1, <2>2, <2>3, <2>4, <2>5, <2>6, <2>7, <2>8, <2>9, <2>10,
       <2>11,
       <2>12, <2>13, <2>14, <2>15, <2>16, <2>17, <2>18, <2>19, <2>20, <2>21,
       <2>22, <2>23, <2>24, <2>25, <2>26, <2>27, <2>28 DEF Drafts!Next, Drafts!LoopSteps,
       Drafts!RequestSteps, Drafts!PublishBundle, Drafts!OwnerActs, Drafts!Channels
<1> QED
  BY <1>1, <1>2, PTL DEF Drafts!Spec

\* One coroutine at a time is between two of its writes.
DraftsOneBusy == \A p,
q \in Drafts!Procs : draftPc[p] \in Drafts!Busy /\ draftPc[q] \in Drafts!Busy => p = q

\* The loop drafts calendar items, the requests the other two kinds.
DraftsPlaces ==
    /\ draftPc[Drafts!Loop] \in {"idle", "drafting", "saving", "notifying"}
    /\ draftPc[Drafts!Loop] # "idle" => draftJob[Drafts!Loop].work \in Items
    /\ \A t \in Slots : draftPc[t] \in {"drafting", "saving"}
        => draftJob[t].work \in Inlines \cup Messages

\* The transactions that follow one another without an await exclude each
\* other.
LEMMA DraftsOneBusyHolds == Drafts!Spec => []DraftsOneBusy
<1>1. Drafts!Init => DraftsOneBusy
  BY DEF Drafts!Init, DraftsOneBusy, Drafts!Busy
<1>2. ASSUME Drafts!TypeOK, DraftsOneBusy, [Drafts!Next]_(Drafts!vars)
      PROVE  DraftsOneBusy'
  <2> USE DEF Drafts!TypeOK, DraftsOneBusy, Drafts!Procs, Drafts!Busy, Drafts!Channels,
              Drafts!EventLoopFree, Drafts!recVars, Drafts!procVars, Drafts!counters,
              Drafts!outside
  <2>1. ASSUME NEW i \in Items, Drafts!CreatePlan(i)
        PROVE  DraftsOneBusy'
    BY <1>2, <2>1 DEF Drafts!CreatePlan
  <2>2. ASSUME NEW i \in Items, Drafts!ComesDue(i)
        PROVE  DraftsOneBusy'
    BY <1>2, <2>2 DEF Drafts!ComesDue
  <2>3. CASE Drafts!LoopTick
    BY <1>2, <2>3 DEF Drafts!LoopTick, Drafts!ListDueItems
  <2>4. CASE Drafts!ItemDrafted
    BY <1>2, <2>4 DEF Drafts!ItemDrafted, Drafts!GoTo
  <2>5. CASE Drafts!DispatchFails
    BY <1>2, <2>5 DEF Drafts!DispatchFails, Drafts!Finish, Drafts!Fault
  <2>6. ASSUME NEW i \in Items, Drafts!DispatchItem(i)
        PROVE  DraftsOneBusy'
    BY <1>2, <2>6 DEF Drafts!DispatchItem, Drafts!Begin, Drafts!NoResult
  <2>7. ASSUME NEW t \in Slots, NEW m \in Messages, Drafts!IngestMetaEvent(t, m)
        PROVE  DraftsOneBusy'
    BY <1>2, <2>7 DEF Drafts!IngestMetaEvent, Drafts!Begin, Drafts!NoResult
  <2>8. ASSUME NEW t \in Slots, NEW m \in Messages, Drafts!ReplayMetaEvent(t, m)
        PROVE  DraftsOneBusy'
    BY <1>2, <2>8 DEF Drafts!ReplayMetaEvent, Drafts!Begin, Drafts!NoResult,
       Drafts!Tap
  <2>9. ASSUME NEW t \in Slots, Drafts!InlineDrafted(t)
        PROVE  DraftsOneBusy'
    BY <1>2, <2>9 DEF Drafts!InlineDrafted, Drafts!GoTo
  <2>10. ASSUME NEW t \in Slots, Drafts!EngagementCreated(t)
        PROVE  DraftsOneBusy'
    BY <1>2, <2>10 DEF Drafts!EngagementCreated, Drafts!GoTo
  <2>11. ASSUME NEW t \in Slots, Drafts!EngagementExists(t)
        PROVE  DraftsOneBusy'
    BY <1>2, <2>11 DEF Drafts!EngagementExists, Drafts!Finish
  <2>12. ASSUME NEW t \in Slots, Drafts!RequestFails(t)
        PROVE  DraftsOneBusy'
    BY <1>2, <2>12 DEF Drafts!RequestFails, Drafts!Finish, Drafts!Fault
  <2>13. ASSUME NEW t \in Slots, NEW c \in Drafts!Channels,
               NEW next \in {"meta", "deciding"}, (c = "google") <=> (next = "meta"),
               Drafts!PostAccepted(t, c, next)
        PROVE  DraftsOneBusy'
    BY <1>2, <2>13 DEF Drafts!PostAccepted
  <2>14. ASSUME NEW t \in Slots, NEW c \in Drafts!Channels,
               NEW next \in {"meta", "deciding"}, (c = "google") <=> (next = "meta"),
               Drafts!NothingToPost(t, c, next)
        PROVE  DraftsOneBusy'
    BY <1>2, <2>14 DEF Drafts!NothingToPost, Drafts!GoTo
  <2>15. ASSUME NEW t \in Slots, NEW c \in Drafts!Channels,
               NEW next \in {"meta", "deciding"}, (c = "google") <=> (next = "meta"),
               Drafts!PostRefused(t, c, next)
        PROVE  DraftsOneBusy'
    BY <1>2, <2>15 DEF Drafts!PostRefused, Drafts!Fault
  <2>16. ASSUME NEW t \in Slots, NEW c \in Drafts!Channels, Drafts!PostRaises(t, c)
        PROVE  DraftsOneBusy'
    BY <1>2, <2>16 DEF Drafts!PostRaises, Drafts!Finish, Drafts!Fault
  <2>17. ASSUME NEW t \in Slots, Drafts!DecidePending(t)
        PROVE  DraftsOneBusy'
    BY <1>2, <2>17 DEF Drafts!DecidePending, Drafts!GoTo
  <2>18. ASSUME NEW t \in Slots, Drafts!CloseRecord(t)
        PROVE  DraftsOneBusy'
    BY <1>2, <2>18 DEF Drafts!CloseRecord, Drafts!Finish
  <2>19. ASSUME NEW t \in Slots, Drafts!DraftRevised(t)
        PROVE  DraftsOneBusy'
    BY <1>2, <2>19 DEF Drafts!DraftRevised, Drafts!Finish
  <2>20. ASSUME NEW p \in Drafts!Procs, Drafts!SavePendingApproval(p)
        PROVE  DraftsOneBusy'
    BY <1>2, <2>20 DEF Drafts!SavePendingApproval, Drafts!GoTo
  <2>21. ASSUME NEW p \in Drafts!Procs, Drafts!Notified(p)
        PROVE  DraftsOneBusy'
    BY <1>2, <2>21 DEF Drafts!Notified, Drafts!Finish
  <2>22. ASSUME NEW w \in Drafts!Works, Drafts!TapReject(w)
        PROVE  DraftsOneBusy'
    BY <1>2, <2>22 DEF Drafts!TapReject, Drafts!Tap
  <2>23. ASSUME NEW w \in Drafts!Works, Drafts!TapEdit(w)
        PROVE  DraftsOneBusy'
    BY <1>2, <2>23 DEF Drafts!TapEdit, Drafts!Tap
  <2>24. ASSUME NEW t \in Slots, NEW w \in Drafts!Works, Drafts!TapApprove(t, w)
        PROVE  DraftsOneBusy'
    BY <1>2, <2>24 DEF Drafts!TapApprove, Drafts!Begin, Drafts!NoResult,
       Drafts!Tap
  <2>25. ASSUME NEW t \in Slots, NEW w \in Drafts!Works, Drafts!ReviseDraft(t, w)
        PROVE  DraftsOneBusy'
    BY <1>2, <2>25 DEF Drafts!ReviseDraft, Drafts!Begin, Drafts!NoResult,
       Drafts!Tap
  <2>26. ASSUME NEW t \in Slots, NEW n \in Inlines, Drafts!AskInline(t, n)
        PROVE  DraftsOneBusy'
    BY <1>2, <2>26 DEF Drafts!AskInline, Drafts!Begin, Drafts!NoResult,
       Drafts!Tap
  <2>27. CASE Drafts!Crash
    BY <1>2, <2>27 DEF Drafts!Crash
  <2>28. CASE UNCHANGED Drafts!vars
    BY <1>2, <2>28 DEF Drafts!vars
  <2> QED
    BY <1>2, <2>1, <2>2, <2>3, <2>4, <2>5, <2>6, <2>7, <2>8, <2>9, <2>10,
       <2>11,
       <2>12, <2>13, <2>14, <2>15, <2>16, <2>17, <2>18, <2>19, <2>20, <2>21,
       <2>22, <2>23, <2>24, <2>25, <2>26, <2>27, <2>28 DEF Drafts!Next, Drafts!LoopSteps,
       Drafts!RequestSteps, Drafts!PublishBundle, Drafts!OwnerActs, Drafts!Channels
<1> QED
  BY <1>1, <1>2, DraftsTypeInvHolds, PTL DEF Drafts!Spec

\* No request runs the loop's steps, and the loop none of theirs.
LEMMA DraftsPlacesHold ==
    ASSUME DraftsApart
    PROVE  Drafts!Spec => []DraftsPlaces
<1>1. Drafts!Init => DraftsPlaces
  BY DEF Drafts!Init, DraftsPlaces, Drafts!Procs
<1>2. ASSUME Drafts!TypeOK, DraftsPlaces, [Drafts!Next]_(Drafts!vars)
      PROVE  DraftsPlaces'
  <2> USE DEF Drafts!TypeOK, DraftsPlaces, Drafts!Procs, Drafts!Busy, Drafts!Channels,
              DraftsApart, Drafts!recVars, Drafts!procVars, Drafts!counters,
              Drafts!outside
  <2>1. ASSUME NEW i \in Items, Drafts!CreatePlan(i)
        PROVE  DraftsPlaces'
    BY <1>2, <2>1 DEF Drafts!CreatePlan
  <2>2. ASSUME NEW i \in Items, Drafts!ComesDue(i)
        PROVE  DraftsPlaces'
    BY <1>2, <2>2 DEF Drafts!ComesDue
  <2>3. CASE Drafts!LoopTick
    BY <1>2, <2>3 DEF Drafts!LoopTick, Drafts!ListDueItems
  <2>4. CASE Drafts!ItemDrafted
    BY <1>2, <2>4 DEF Drafts!ItemDrafted, Drafts!GoTo
  <2>5. CASE Drafts!DispatchFails
    BY <1>2, <2>5 DEF Drafts!DispatchFails, Drafts!Finish, Drafts!Fault
  <2>6. ASSUME NEW i \in Items, Drafts!DispatchItem(i)
        PROVE  DraftsPlaces'
    BY <1>2, <2>6 DEF Drafts!DispatchItem, Drafts!Begin, Drafts!NoResult
  <2>7. ASSUME NEW t \in Slots, NEW m \in Messages, Drafts!IngestMetaEvent(t, m)
        PROVE  DraftsPlaces'
    BY <1>2, <2>7 DEF Drafts!IngestMetaEvent, Drafts!Begin, Drafts!NoResult
  <2>8. ASSUME NEW t \in Slots, NEW m \in Messages, Drafts!ReplayMetaEvent(t, m)
        PROVE  DraftsPlaces'
    BY <1>2, <2>8 DEF Drafts!ReplayMetaEvent, Drafts!Begin, Drafts!NoResult,
       Drafts!Tap
  <2>9. ASSUME NEW t \in Slots, Drafts!InlineDrafted(t)
        PROVE  DraftsPlaces'
    BY <1>2, <2>9 DEF Drafts!InlineDrafted, Drafts!GoTo
  <2>10. ASSUME NEW t \in Slots, Drafts!EngagementCreated(t)
        PROVE  DraftsPlaces'
    BY <1>2, <2>10 DEF Drafts!EngagementCreated, Drafts!GoTo
  <2>11. ASSUME NEW t \in Slots, Drafts!EngagementExists(t)
        PROVE  DraftsPlaces'
    BY <1>2, <2>11 DEF Drafts!EngagementExists, Drafts!Finish
  <2>12. ASSUME NEW t \in Slots, Drafts!RequestFails(t)
        PROVE  DraftsPlaces'
    BY <1>2, <2>12 DEF Drafts!RequestFails, Drafts!Finish, Drafts!Fault
  <2>13. ASSUME NEW t \in Slots, NEW c \in Drafts!Channels,
               NEW next \in {"meta", "deciding"}, (c = "google") <=> (next = "meta"),
               Drafts!PostAccepted(t, c, next)
        PROVE  DraftsPlaces'
    BY <1>2, <2>13 DEF Drafts!PostAccepted
  <2>14. ASSUME NEW t \in Slots, NEW c \in Drafts!Channels,
               NEW next \in {"meta", "deciding"}, (c = "google") <=> (next = "meta"),
               Drafts!NothingToPost(t, c, next)
        PROVE  DraftsPlaces'
    BY <1>2, <2>14 DEF Drafts!NothingToPost, Drafts!GoTo
  <2>15. ASSUME NEW t \in Slots, NEW c \in Drafts!Channels,
               NEW next \in {"meta", "deciding"}, (c = "google") <=> (next = "meta"),
               Drafts!PostRefused(t, c, next)
        PROVE  DraftsPlaces'
    BY <1>2, <2>15 DEF Drafts!PostRefused, Drafts!Fault
  <2>16. ASSUME NEW t \in Slots, NEW c \in Drafts!Channels, Drafts!PostRaises(t, c)
        PROVE  DraftsPlaces'
    BY <1>2, <2>16 DEF Drafts!PostRaises, Drafts!Finish, Drafts!Fault
  <2>17. ASSUME NEW t \in Slots, Drafts!DecidePending(t)
        PROVE  DraftsPlaces'
    BY <1>2, <2>17 DEF Drafts!DecidePending, Drafts!GoTo
  <2>18. ASSUME NEW t \in Slots, Drafts!CloseRecord(t)
        PROVE  DraftsPlaces'
    BY <1>2, <2>18 DEF Drafts!CloseRecord, Drafts!Finish
  <2>19. ASSUME NEW t \in Slots, Drafts!DraftRevised(t)
        PROVE  DraftsPlaces'
    BY <1>2, <2>19 DEF Drafts!DraftRevised, Drafts!Finish
  <2>20. ASSUME NEW p \in Drafts!Procs, Drafts!SavePendingApproval(p)
        PROVE  DraftsPlaces'
    BY <1>2, <2>20 DEF Drafts!SavePendingApproval, Drafts!GoTo
  <2>21. ASSUME NEW p \in Drafts!Procs, Drafts!Notified(p)
        PROVE  DraftsPlaces'
    BY <1>2, <2>21 DEF Drafts!Notified, Drafts!Finish
  <2>22. ASSUME NEW w \in Drafts!Works, Drafts!TapReject(w)
        PROVE  DraftsPlaces'
    BY <1>2, <2>22 DEF Drafts!TapReject, Drafts!Tap
  <2>23. ASSUME NEW w \in Drafts!Works, Drafts!TapEdit(w)
        PROVE  DraftsPlaces'
    BY <1>2, <2>23 DEF Drafts!TapEdit, Drafts!Tap
  <2>24. ASSUME NEW t \in Slots, NEW w \in Drafts!Works, Drafts!TapApprove(t, w)
        PROVE  DraftsPlaces'
    BY <1>2, <2>24 DEF Drafts!TapApprove, Drafts!Begin, Drafts!NoResult,
       Drafts!Tap
  <2>25. ASSUME NEW t \in Slots, NEW w \in Drafts!Works, Drafts!ReviseDraft(t, w)
        PROVE  DraftsPlaces'
    BY <1>2, <2>25 DEF Drafts!ReviseDraft, Drafts!Begin, Drafts!NoResult,
       Drafts!Tap
  <2>26. ASSUME NEW t \in Slots, NEW n \in Inlines, Drafts!AskInline(t, n)
        PROVE  DraftsPlaces'
    BY <1>2, <2>26 DEF Drafts!AskInline, Drafts!Begin, Drafts!NoResult,
       Drafts!Tap
  <2>27. CASE Drafts!Crash
    BY <1>2, <2>27 DEF Drafts!Crash
  <2>28. CASE UNCHANGED Drafts!vars
    BY <1>2, <2>28 DEF Drafts!vars
  <2> QED
    BY <1>2, <2>1, <2>2, <2>3, <2>4, <2>5, <2>6, <2>7, <2>8, <2>9, <2>10,
       <2>11,
       <2>12, <2>13, <2>14, <2>15, <2>16, <2>17, <2>18, <2>19, <2>20, <2>21,
       <2>22, <2>23, <2>24, <2>25, <2>26, <2>27, <2>28 DEF Drafts!Next, Drafts!LoopSteps,
       Drafts!RequestSteps, Drafts!PublishBundle, Drafts!OwnerActs, Drafts!Channels
<1> QED
  BY <1>1, <1>2, DraftsTypeInvHolds, PTL DEF Drafts!Spec

DraftsActive(p, w) == draftPc[p] # "idle" /\ draftJob[p].work = w

\* What the loop listed, and the item it drafts, is still to be drafted.
DraftsListed ==
    /\ \A i \in draftBatch : draftRecord[i] = "planned" /\ ~DraftsActive(Drafts!Loop, i)
    /\ draftPc[Drafts!Loop] = "drafting" => draftRecord[draftJob[Drafts!Loop].work] = "planned"

\* Nothing has a row before it awaits approval, and a row is saved only where
\* there is none.
DraftsUnsaved ==
    /\ \A w \in Items \cup Messages : draftRecord[w] \in {"absent", "planned"}
        => draftRow[w] = "absent"
    /\ \A m \in Messages : draftRecord[m] # "planned"
    /\ \A p \in Drafts!Procs : draftPc[p] = "saving" =>
         /\ draftRow[draftJob[p].work] = "absent"
         /\ draftJob[p].work \notin Inlines
             => draftRecord[draftJob[p].work] \notin {"absent", "planned"}

\* The owner's taps are on cards, which are sent after the row is saved.
DraftsSaved ==
    \A p \in Drafts!Procs : draftPc[p] \in {"google", "meta", "deciding", "closing",
                                            "revising"} =>
      draftRow[draftJob[p].work] # "absent"

\* A draft asked for in the chat is drafted by one request.
DraftsInlineAlone ==
    \A p \in Drafts!Procs, n \in Inlines :
      DraftsActive(p, n) /\ draftPc[p] \in {"drafting", "saving"} =>
        /\ draftRow[n] = "absent"
        /\ \A q \in Drafts!Procs \ {p} : ~DraftsActive(q, n)

\* The inductive invariant that ties rows to what they were drafted for.
DraftsRowInv == DraftsListed /\ DraftsUnsaved /\ DraftsSaved /\ DraftsInlineAlone

\* It holds over every tap, restart and round of the loop.
LEMMA DraftsRowInvHolds ==
    ASSUME DraftsApart
    PROVE  Drafts!Spec => []DraftsRowInv
<1>1. Drafts!Init => DraftsRowInv
  BY DEF Drafts!Init, DraftsRowInv, DraftsListed, DraftsUnsaved, DraftsSaved,
     DraftsInlineAlone, DraftsActive, Drafts!Works, Drafts!Procs
<1>2. ASSUME Drafts!TypeOK, DraftsOneBusy, DraftsPlaces, DraftsRowInv,
             [Drafts!Next]_(Drafts!vars)
      PROVE  DraftsRowInv'
  <2> USE DEF Drafts!TypeOK, DraftsOneBusy, DraftsPlaces, DraftsRowInv, DraftsListed,
              DraftsUnsaved, DraftsSaved, DraftsInlineAlone, DraftsActive, Drafts!Works,
              Drafts!Procs, Drafts!Busy, Drafts!Channels, Drafts!EventLoopFree,
              DraftsApart, Drafts!recVars, Drafts!procVars, Drafts!counters,
              Drafts!outside
  <2>1. ASSUME NEW i \in Items, Drafts!CreatePlan(i)
        PROVE  DraftsRowInv'
    BY <1>2, <2>1 DEF Drafts!CreatePlan
  <2>2. ASSUME NEW i \in Items, Drafts!ComesDue(i)
        PROVE  DraftsRowInv'
    BY <1>2, <2>2 DEF Drafts!ComesDue
  <2>3. CASE Drafts!LoopTick
    BY <1>2, <2>3 DEF Drafts!LoopTick, Drafts!ListDueItems
  <2>4. CASE Drafts!ItemDrafted
    BY <1>2, <2>4 DEF Drafts!ItemDrafted, Drafts!GoTo
  <2>5. CASE Drafts!DispatchFails
    BY <1>2, <2>5 DEF Drafts!DispatchFails, Drafts!Finish, Drafts!Fault
  <2>6. ASSUME NEW i \in Items, Drafts!DispatchItem(i)
        PROVE  DraftsRowInv'
    BY <1>2, <2>6 DEF Drafts!DispatchItem, Drafts!Begin, Drafts!NoResult
  <2>7. ASSUME NEW t \in Slots, NEW m \in Messages, Drafts!IngestMetaEvent(t, m)
        PROVE  DraftsRowInv'
    BY <1>2, <2>7 DEF Drafts!IngestMetaEvent, Drafts!Begin, Drafts!NoResult
  <2>8. ASSUME NEW t \in Slots, NEW m \in Messages, Drafts!ReplayMetaEvent(t, m)
        PROVE  DraftsRowInv'
    BY <1>2, <2>8 DEF Drafts!ReplayMetaEvent, Drafts!Begin, Drafts!NoResult,
       Drafts!Tap
  <2>9. ASSUME NEW t \in Slots, Drafts!InlineDrafted(t)
        PROVE  DraftsRowInv'
    BY <1>2, <2>9 DEF Drafts!InlineDrafted, Drafts!GoTo
  <2>10. ASSUME NEW t \in Slots, Drafts!EngagementCreated(t)
        PROVE  DraftsRowInv'
    BY <1>2, <2>10 DEF Drafts!EngagementCreated, Drafts!GoTo
  <2>11. ASSUME NEW t \in Slots, Drafts!EngagementExists(t)
        PROVE  DraftsRowInv'
    BY <1>2, <2>11 DEF Drafts!EngagementExists, Drafts!Finish
  <2>12. ASSUME NEW t \in Slots, Drafts!RequestFails(t)
        PROVE  DraftsRowInv'
    BY <1>2, <2>12 DEF Drafts!RequestFails, Drafts!Finish, Drafts!Fault
  <2>13. ASSUME NEW t \in Slots, NEW c \in Drafts!Channels,
               NEW next \in {"meta", "deciding"}, (c = "google") <=> (next = "meta"),
               Drafts!PostAccepted(t, c, next)
        PROVE  DraftsRowInv'
    BY <1>2, <2>13 DEF Drafts!PostAccepted
  <2>14. ASSUME NEW t \in Slots, NEW c \in Drafts!Channels,
               NEW next \in {"meta", "deciding"}, (c = "google") <=> (next = "meta"),
               Drafts!NothingToPost(t, c, next)
        PROVE  DraftsRowInv'
    BY <1>2, <2>14 DEF Drafts!NothingToPost, Drafts!GoTo
  <2>15. ASSUME NEW t \in Slots, NEW c \in Drafts!Channels,
               NEW next \in {"meta", "deciding"}, (c = "google") <=> (next = "meta"),
               Drafts!PostRefused(t, c, next)
        PROVE  DraftsRowInv'
    BY <1>2, <2>15 DEF Drafts!PostRefused, Drafts!Fault
  <2>16. ASSUME NEW t \in Slots, NEW c \in Drafts!Channels, Drafts!PostRaises(t, c)
        PROVE  DraftsRowInv'
    BY <1>2, <2>16 DEF Drafts!PostRaises, Drafts!Finish, Drafts!Fault
  <2>17. ASSUME NEW t \in Slots, Drafts!DecidePending(t)
        PROVE  DraftsRowInv'
    BY <1>2, <2>17 DEF Drafts!DecidePending, Drafts!GoTo
  <2>18. ASSUME NEW t \in Slots, Drafts!CloseRecord(t)
        PROVE  DraftsRowInv'
    BY <1>2, <2>18 DEF Drafts!CloseRecord, Drafts!Finish
  <2>19. ASSUME NEW t \in Slots, Drafts!DraftRevised(t)
        PROVE  DraftsRowInv'
    BY <1>2, <2>19 DEF Drafts!DraftRevised, Drafts!Finish
  <2>20. ASSUME NEW p \in Drafts!Procs, Drafts!SavePendingApproval(p)
        PROVE  DraftsRowInv'
    BY <1>2, <2>20 DEF Drafts!SavePendingApproval, Drafts!GoTo
  <2>21. ASSUME NEW p \in Drafts!Procs, Drafts!Notified(p)
        PROVE  DraftsRowInv'
    BY <1>2, <2>21 DEF Drafts!Notified, Drafts!Finish
  <2>22. ASSUME NEW w \in Drafts!Works, Drafts!TapReject(w)
        PROVE  DraftsRowInv'
    BY <1>2, <2>22 DEF Drafts!TapReject, Drafts!Tap
  <2>23. ASSUME NEW w \in Drafts!Works, Drafts!TapEdit(w)
        PROVE  DraftsRowInv'
    BY <1>2, <2>23 DEF Drafts!TapEdit, Drafts!Tap
  <2>24. ASSUME NEW t \in Slots, NEW w \in Drafts!Works, Drafts!TapApprove(t, w)
        PROVE  DraftsRowInv'
    BY <1>2, <2>24 DEF Drafts!TapApprove, Drafts!Begin, Drafts!NoResult,
       Drafts!Tap
  <2>25. ASSUME NEW t \in Slots, NEW w \in Drafts!Works, Drafts!ReviseDraft(t, w)
        PROVE  DraftsRowInv'
    BY <1>2, <2>25 DEF Drafts!ReviseDraft, Drafts!Begin, Drafts!NoResult,
       Drafts!Tap
  <2>26. ASSUME NEW t \in Slots, NEW n \in Inlines, Drafts!AskInline(t, n)
        PROVE  DraftsRowInv'
    BY <1>2, <2>26 DEF Drafts!AskInline, Drafts!Begin, Drafts!NoResult,
       Drafts!Tap
  <2>27. CASE Drafts!Crash
    BY <1>2, <2>27 DEF Drafts!Crash
  <2>28. CASE UNCHANGED Drafts!vars
    BY <1>2, <2>28 DEF Drafts!vars
  <2> QED
    BY <1>2, <2>1, <2>2, <2>3, <2>4, <2>5, <2>6, <2>7, <2>8, <2>9, <2>10,
       <2>11,
       <2>12, <2>13, <2>14, <2>15, <2>16, <2>17, <2>18, <2>19, <2>20, <2>21,
       <2>22, <2>23, <2>24, <2>25, <2>26, <2>27, <2>28 DEF Drafts!Next, Drafts!LoopSteps,
       Drafts!RequestSteps, Drafts!PublishBundle, Drafts!OwnerActs, Drafts!Channels
<1> QED
  BY <1>1, <1>2, DraftsTypeInvHolds, DraftsOneBusyHolds, DraftsPlacesHold, PTL
     DEF Drafts!Spec

\* What awaits approval has a row somebody can decide.
LEMMA DraftsWaitingHolds ==
    ASSUME DraftsApart
    PROVE  Drafts!Spec => []Drafts!WaitingHasRow
<1>1. Drafts!Init => Drafts!WaitingHasRow
  BY DEF Drafts!Init, Drafts!WaitingHasRow
<1>2. ASSUME Drafts!TypeOK, DraftsOneBusy, DraftsPlaces, DraftsRowInv, Drafts!WaitingHasRow,
             [Drafts!Next]_(Drafts!vars)
      PROVE  Drafts!WaitingHasRow'
  <2> USE DEF Drafts!TypeOK, DraftsOneBusy, DraftsPlaces, DraftsRowInv, DraftsListed,
              DraftsUnsaved, DraftsSaved, Drafts!WaitingHasRow, DraftsActive,
              Drafts!Works, Drafts!Procs, Drafts!Busy, Drafts!Channels,
              Drafts!EventLoopFree, DraftsApart, Drafts!recVars, Drafts!procVars,
              Drafts!counters, Drafts!outside
  <2>1. ASSUME NEW i \in Items, Drafts!CreatePlan(i)
        PROVE  Drafts!WaitingHasRow'
    BY <1>2, <2>1 DEF Drafts!CreatePlan
  <2>2. ASSUME NEW i \in Items, Drafts!ComesDue(i)
        PROVE  Drafts!WaitingHasRow'
    BY <1>2, <2>2 DEF Drafts!ComesDue
  <2>3. CASE Drafts!LoopTick
    BY <1>2, <2>3 DEF Drafts!LoopTick, Drafts!ListDueItems
  <2>4. CASE Drafts!ItemDrafted
    BY <1>2, <2>4 DEF Drafts!ItemDrafted, Drafts!GoTo
  <2>5. CASE Drafts!DispatchFails
    BY <1>2, <2>5 DEF Drafts!DispatchFails, Drafts!Finish, Drafts!Fault
  <2>6. ASSUME NEW i \in Items, Drafts!DispatchItem(i)
        PROVE  Drafts!WaitingHasRow'
    BY <1>2, <2>6 DEF Drafts!DispatchItem, Drafts!Begin, Drafts!NoResult
  <2>7. ASSUME NEW t \in Slots, NEW m \in Messages, Drafts!IngestMetaEvent(t, m)
        PROVE  Drafts!WaitingHasRow'
    BY <1>2, <2>7 DEF Drafts!IngestMetaEvent, Drafts!Begin, Drafts!NoResult
  <2>8. ASSUME NEW t \in Slots, NEW m \in Messages, Drafts!ReplayMetaEvent(t, m)
        PROVE  Drafts!WaitingHasRow'
    BY <1>2, <2>8 DEF Drafts!ReplayMetaEvent, Drafts!Begin, Drafts!NoResult,
       Drafts!Tap
  <2>9. ASSUME NEW t \in Slots, Drafts!InlineDrafted(t)
        PROVE  Drafts!WaitingHasRow'
    BY <1>2, <2>9 DEF Drafts!InlineDrafted, Drafts!GoTo
  <2>10. ASSUME NEW t \in Slots, Drafts!EngagementCreated(t)
        PROVE  Drafts!WaitingHasRow'
    BY <1>2, <2>10 DEF Drafts!EngagementCreated, Drafts!GoTo
  <2>11. ASSUME NEW t \in Slots, Drafts!EngagementExists(t)
        PROVE  Drafts!WaitingHasRow'
    BY <1>2, <2>11 DEF Drafts!EngagementExists, Drafts!Finish
  <2>12. ASSUME NEW t \in Slots, Drafts!RequestFails(t)
        PROVE  Drafts!WaitingHasRow'
    BY <1>2, <2>12 DEF Drafts!RequestFails, Drafts!Finish, Drafts!Fault
  <2>13. ASSUME NEW t \in Slots, NEW c \in Drafts!Channels,
               NEW next \in {"meta", "deciding"}, (c = "google") <=> (next = "meta"),
               Drafts!PostAccepted(t, c, next)
        PROVE  Drafts!WaitingHasRow'
    BY <1>2, <2>13 DEF Drafts!PostAccepted
  <2>14. ASSUME NEW t \in Slots, NEW c \in Drafts!Channels,
               NEW next \in {"meta", "deciding"}, (c = "google") <=> (next = "meta"),
               Drafts!NothingToPost(t, c, next)
        PROVE  Drafts!WaitingHasRow'
    BY <1>2, <2>14 DEF Drafts!NothingToPost, Drafts!GoTo
  <2>15. ASSUME NEW t \in Slots, NEW c \in Drafts!Channels,
               NEW next \in {"meta", "deciding"}, (c = "google") <=> (next = "meta"),
               Drafts!PostRefused(t, c, next)
        PROVE  Drafts!WaitingHasRow'
    BY <1>2, <2>15 DEF Drafts!PostRefused, Drafts!Fault
  <2>16. ASSUME NEW t \in Slots, NEW c \in Drafts!Channels, Drafts!PostRaises(t, c)
        PROVE  Drafts!WaitingHasRow'
    BY <1>2, <2>16 DEF Drafts!PostRaises, Drafts!Finish, Drafts!Fault
  <2>17. ASSUME NEW t \in Slots, Drafts!DecidePending(t)
        PROVE  Drafts!WaitingHasRow'
    BY <1>2, <2>17 DEF Drafts!DecidePending, Drafts!GoTo
  <2>18. ASSUME NEW t \in Slots, Drafts!CloseRecord(t)
        PROVE  Drafts!WaitingHasRow'
    BY <1>2, <2>18 DEF Drafts!CloseRecord, Drafts!Finish
  <2>19. ASSUME NEW t \in Slots, Drafts!DraftRevised(t)
        PROVE  Drafts!WaitingHasRow'
    BY <1>2, <2>19 DEF Drafts!DraftRevised, Drafts!Finish
  <2>20. ASSUME NEW p \in Drafts!Procs, Drafts!SavePendingApproval(p)
        PROVE  Drafts!WaitingHasRow'
    BY <1>2, <2>20 DEF Drafts!SavePendingApproval, Drafts!GoTo
  <2>21. ASSUME NEW p \in Drafts!Procs, Drafts!Notified(p)
        PROVE  Drafts!WaitingHasRow'
    BY <1>2, <2>21 DEF Drafts!Notified, Drafts!Finish
  <2>22. ASSUME NEW w \in Drafts!Works, Drafts!TapReject(w)
        PROVE  Drafts!WaitingHasRow'
    BY <1>2, <2>22 DEF Drafts!TapReject, Drafts!Tap
  <2>23. ASSUME NEW w \in Drafts!Works, Drafts!TapEdit(w)
        PROVE  Drafts!WaitingHasRow'
    BY <1>2, <2>23 DEF Drafts!TapEdit, Drafts!Tap
  <2>24. ASSUME NEW t \in Slots, NEW w \in Drafts!Works, Drafts!TapApprove(t, w)
        PROVE  Drafts!WaitingHasRow'
    BY <1>2, <2>24 DEF Drafts!TapApprove, Drafts!Begin, Drafts!NoResult,
       Drafts!Tap
  <2>25. ASSUME NEW t \in Slots, NEW w \in Drafts!Works, Drafts!ReviseDraft(t, w)
        PROVE  Drafts!WaitingHasRow'
    BY <1>2, <2>25 DEF Drafts!ReviseDraft, Drafts!Begin, Drafts!NoResult,
       Drafts!Tap
  <2>26. ASSUME NEW t \in Slots, NEW n \in Inlines, Drafts!AskInline(t, n)
        PROVE  Drafts!WaitingHasRow'
    BY <1>2, <2>26 DEF Drafts!AskInline, Drafts!Begin, Drafts!NoResult,
       Drafts!Tap
  <2>27. CASE Drafts!Crash
    BY <1>2, <2>27 DEF Drafts!Crash
  <2>28. CASE UNCHANGED Drafts!vars
    BY <1>2, <2>28 DEF Drafts!vars
  <2> QED
    BY <1>2, <2>1, <2>2, <2>3, <2>4, <2>5, <2>6, <2>7, <2>8, <2>9, <2>10,
       <2>11,
       <2>12, <2>13, <2>14, <2>15, <2>16, <2>17, <2>18, <2>19, <2>20, <2>21,
       <2>22, <2>23, <2>24, <2>25, <2>26, <2>27, <2>28 DEF Drafts!Next, Drafts!LoopSteps,
       Drafts!RequestSteps, Drafts!PublishBundle, Drafts!OwnerActs, Drafts!Channels
<1> QED
  BY <1>1, <1>2, DraftsTypeInvHolds, DraftsOneBusyHolds, DraftsPlacesHold,
     DraftsRowInvHolds, PTL DEF Drafts!Spec

\* A tap leaves room for the post of each channel it has not tried yet, and
\* what it tried without an error was posted.
DraftsBundle ==
    \A t \in Drafts!Procs : LET w == draftJob[t].work IN
      /\ draftPc[t] = "google"
          => \A c \in Drafts!Channels : draftPosts[w][c] < draftApprovals[w]
      /\ draftPc[t] = "meta" =>
                /\ draftPosts[w]["meta"] < draftApprovals[w]
                /\ "google" \in draftPlatforms[w] /\ draftJob[t].google # "failed"
                    => draftPosts[w]["google"] > 0
      /\ draftPc[t] = "deciding" =>
                /\ "google" \in draftPlatforms[w] /\ draftJob[t].google # "failed"
                    => draftPosts[w]["google"] > 0
                /\ "meta" \in draftPlatforms[w] /\ draftJob[t].meta # "failed"
                    => draftPosts[w]["meta"] > 0

\* The inductive invariant of posts and approvals.
DraftsBundleInv == DraftsBundle /\ Drafts!PostedByTap /\ Drafts!PublishedEverywhere

\* It holds over failing channels, lost answers and restarts.
LEMMA DraftsBundleInvHolds ==
    ASSUME DraftsApart
    PROVE  Drafts!Spec => []DraftsBundleInv
<1>1. Drafts!Init => DraftsBundleInv
  BY DEF Drafts!Init, DraftsBundleInv, DraftsBundle, Drafts!PostedByTap,
     Drafts!PublishedEverywhere, Drafts!Procs, Drafts!Channels
<1>2. ASSUME Drafts!TypeOK, DraftsOneBusy, DraftsPlaces, DraftsRowInv, DraftsBundleInv,
             [Drafts!Next]_(Drafts!vars)
      PROVE  DraftsBundleInv'
  <2> USE DEF Drafts!TypeOK, DraftsOneBusy, DraftsPlaces, DraftsRowInv, DraftsUnsaved,
              DraftsSaved, DraftsBundleInv, DraftsBundle, Drafts!PostedByTap,
              Drafts!PublishedEverywhere, Drafts!Works, Drafts!Procs, Drafts!Busy,
              Drafts!Channels, Drafts!EventLoopFree, DraftsApart, Drafts!Results,
              Drafts!NoResult, Drafts!Succeeded, Drafts!recVars, Drafts!procVars,
              Drafts!counters, Drafts!outside
  <2>1. ASSUME NEW i \in Items, Drafts!CreatePlan(i)
        PROVE  DraftsBundleInv'
    BY <1>2, <2>1 DEF Drafts!CreatePlan
  <2>2. ASSUME NEW i \in Items, Drafts!ComesDue(i)
        PROVE  DraftsBundleInv'
    BY <1>2, <2>2 DEF Drafts!ComesDue
  <2>3. CASE Drafts!LoopTick
    BY <1>2, <2>3 DEF Drafts!LoopTick, Drafts!ListDueItems
  <2>4. CASE Drafts!ItemDrafted
    BY <1>2, <2>4 DEF Drafts!ItemDrafted, Drafts!GoTo
  <2>5. CASE Drafts!DispatchFails
    BY <1>2, <2>5 DEF Drafts!DispatchFails, Drafts!Finish, Drafts!Fault
  <2>6. ASSUME NEW i \in Items, Drafts!DispatchItem(i)
        PROVE  DraftsBundleInv'
    BY <1>2, <2>6 DEF Drafts!DispatchItem, Drafts!Begin, Drafts!NoResult
  <2>7. ASSUME NEW t \in Slots, NEW m \in Messages, Drafts!IngestMetaEvent(t, m)
        PROVE  DraftsBundleInv'
    BY <1>2, <2>7 DEF Drafts!IngestMetaEvent, Drafts!Begin, Drafts!NoResult
  <2>8. ASSUME NEW t \in Slots, NEW m \in Messages, Drafts!ReplayMetaEvent(t, m)
        PROVE  DraftsBundleInv'
    BY <1>2, <2>8 DEF Drafts!ReplayMetaEvent, Drafts!Begin, Drafts!NoResult,
       Drafts!Tap
  <2>9. ASSUME NEW t \in Slots, Drafts!InlineDrafted(t)
        PROVE  DraftsBundleInv'
    BY <1>2, <2>9 DEF Drafts!InlineDrafted, Drafts!GoTo
  <2>10. ASSUME NEW t \in Slots, Drafts!EngagementCreated(t)
        PROVE  DraftsBundleInv'
    BY <1>2, <2>10 DEF Drafts!EngagementCreated, Drafts!GoTo
  <2>11. ASSUME NEW t \in Slots, Drafts!EngagementExists(t)
        PROVE  DraftsBundleInv'
    BY <1>2, <2>11 DEF Drafts!EngagementExists, Drafts!Finish
  <2>12. ASSUME NEW t \in Slots, Drafts!RequestFails(t)
        PROVE  DraftsBundleInv'
    BY <1>2, <2>12 DEF Drafts!RequestFails, Drafts!Finish, Drafts!Fault
  <2>13. ASSUME NEW t \in Slots, NEW c \in Drafts!Channels,
               NEW next \in {"meta", "deciding"}, (c = "google") <=> (next = "meta"),
               Drafts!PostAccepted(t, c, next)
        PROVE  DraftsBundleInv'
    BY <1>2, <2>13 DEF Drafts!PostAccepted
  <2>14. ASSUME NEW t \in Slots, NEW c \in Drafts!Channels,
               NEW next \in {"meta", "deciding"}, (c = "google") <=> (next = "meta"),
               Drafts!NothingToPost(t, c, next)
        PROVE  DraftsBundleInv'
    BY <1>2, <2>14 DEF Drafts!NothingToPost, Drafts!GoTo
  <2>15. ASSUME NEW t \in Slots, NEW c \in Drafts!Channels,
               NEW next \in {"meta", "deciding"}, (c = "google") <=> (next = "meta"),
               Drafts!PostRefused(t, c, next)
        PROVE  DraftsBundleInv'
    BY <1>2, <2>15 DEF Drafts!PostRefused, Drafts!Fault
  <2>16. ASSUME NEW t \in Slots, NEW c \in Drafts!Channels, Drafts!PostRaises(t, c)
        PROVE  DraftsBundleInv'
    BY <1>2, <2>16 DEF Drafts!PostRaises, Drafts!Finish, Drafts!Fault
  <2>17. ASSUME NEW t \in Slots, Drafts!DecidePending(t)
        PROVE  DraftsBundleInv'
    BY <1>2, <2>17 DEF Drafts!DecidePending, Drafts!GoTo
  <2>18. ASSUME NEW t \in Slots, Drafts!CloseRecord(t)
        PROVE  DraftsBundleInv'
    BY <1>2, <2>18 DEF Drafts!CloseRecord, Drafts!Finish
  <2>19. ASSUME NEW t \in Slots, Drafts!DraftRevised(t)
        PROVE  DraftsBundleInv'
    BY <1>2, <2>19 DEF Drafts!DraftRevised, Drafts!Finish
  <2>20. ASSUME NEW p \in Drafts!Procs, Drafts!SavePendingApproval(p)
        PROVE  DraftsBundleInv'
    BY <1>2, <2>20 DEF Drafts!SavePendingApproval, Drafts!GoTo
  <2>21. ASSUME NEW p \in Drafts!Procs, Drafts!Notified(p)
        PROVE  DraftsBundleInv'
    BY <1>2, <2>21 DEF Drafts!Notified, Drafts!Finish
  <2>22. ASSUME NEW w \in Drafts!Works, Drafts!TapReject(w)
        PROVE  DraftsBundleInv'
    BY <1>2, <2>22 DEF Drafts!TapReject, Drafts!Tap
  <2>23. ASSUME NEW w \in Drafts!Works, Drafts!TapEdit(w)
        PROVE  DraftsBundleInv'
    BY <1>2, <2>23 DEF Drafts!TapEdit, Drafts!Tap
  <2>24. ASSUME NEW t \in Slots, NEW w \in Drafts!Works, Drafts!TapApprove(t, w)
        PROVE  DraftsBundleInv'
    BY <1>2, <2>24 DEF Drafts!TapApprove, Drafts!Begin, Drafts!NoResult,
       Drafts!Tap
  <2>25. ASSUME NEW t \in Slots, NEW w \in Drafts!Works, Drafts!ReviseDraft(t, w)
        PROVE  DraftsBundleInv'
    BY <1>2, <2>25 DEF Drafts!ReviseDraft, Drafts!Begin, Drafts!NoResult,
       Drafts!Tap
  <2>26. ASSUME NEW t \in Slots, NEW n \in Inlines, Drafts!AskInline(t, n)
        PROVE  DraftsBundleInv'
    BY <1>2, <2>26 DEF Drafts!AskInline, Drafts!Begin, Drafts!NoResult,
       Drafts!Tap
  <2>27. CASE Drafts!Crash
    BY <1>2, <2>27 DEF Drafts!Crash
  <2>28. CASE UNCHANGED Drafts!vars
    BY <1>2, <2>28 DEF Drafts!vars
  <2> QED
    BY <1>2, <2>1, <2>2, <2>3, <2>4, <2>5, <2>6, <2>7, <2>8, <2>9, <2>10,
       <2>11,
       <2>12, <2>13, <2>14, <2>15, <2>16, <2>17, <2>18, <2>19, <2>20, <2>21,
       <2>22, <2>23, <2>24, <2>25, <2>26, <2>27, <2>28 DEF Drafts!Next, Drafts!LoopSteps,
       Drafts!RequestSteps, Drafts!PublishBundle, Drafts!OwnerActs, Drafts!Channels
<1> QED
  BY <1>1, <1>2, DraftsTypeInvHolds, DraftsOneBusyHolds, DraftsPlacesHold,
     DraftsRowInvHolds, PTL DEF Drafts!Spec

\* Between the row and the record the row shows how the bundle ended.
DraftsEnded ==
    \A t \in Drafts!Procs : draftPc[t] = "closing" =>
      draftRow[draftJob[t].work] = IF Drafts!Succeeded(draftJob[t]) THEN "published" ELSE "delivery_failed"

\* The inductive invariant of rows and what they were drafted for.
DraftsRecordInv == DraftsEnded /\ Drafts!RecordFollowsRow

\* It holds over every order of the two transactions that end a tap.
LEMMA DraftsRecordInvHolds ==
    ASSUME DraftsApart
    PROVE  Drafts!Spec => []DraftsRecordInv
<1>1. Drafts!Init => DraftsRecordInv
  BY DEF Drafts!Init, DraftsRecordInv, DraftsEnded, Drafts!RecordFollowsRow,
     Drafts!Procs, Drafts!Works
<1>2. ASSUME Drafts!TypeOK, DraftsOneBusy, DraftsPlaces, DraftsRowInv, DraftsRecordInv,
             [Drafts!Next]_(Drafts!vars)
      PROVE  DraftsRecordInv'
  <2> USE DEF Drafts!TypeOK, DraftsOneBusy, DraftsPlaces, DraftsRowInv, DraftsUnsaved,
              DraftsListed, DraftsSaved, DraftsRecordInv, DraftsEnded,
              Drafts!RecordFollowsRow, Drafts!Works, Drafts!Procs, Drafts!Busy,
              Drafts!Channels, Drafts!EventLoopFree, DraftsApart, Drafts!NoResult,
              Drafts!recVars, Drafts!procVars, Drafts!counters, Drafts!outside
  <2>1. ASSUME NEW i \in Items, Drafts!CreatePlan(i)
        PROVE  DraftsRecordInv'
    BY <1>2, <2>1 DEF Drafts!CreatePlan
  <2>2. ASSUME NEW i \in Items, Drafts!ComesDue(i)
        PROVE  DraftsRecordInv'
    BY <1>2, <2>2 DEF Drafts!ComesDue
  <2>3. CASE Drafts!LoopTick
    BY <1>2, <2>3 DEF Drafts!LoopTick, Drafts!ListDueItems
  <2>4. CASE Drafts!ItemDrafted
    BY <1>2, <2>4 DEF Drafts!ItemDrafted, Drafts!GoTo
  <2>5. CASE Drafts!DispatchFails
    BY <1>2, <2>5 DEF Drafts!DispatchFails, Drafts!Finish, Drafts!Fault
  <2>6. ASSUME NEW i \in Items, Drafts!DispatchItem(i)
        PROVE  DraftsRecordInv'
    BY <1>2, <2>6 DEF Drafts!DispatchItem, Drafts!Begin, Drafts!NoResult
  <2>7. ASSUME NEW t \in Slots, NEW m \in Messages, Drafts!IngestMetaEvent(t, m)
        PROVE  DraftsRecordInv'
    BY <1>2, <2>7 DEF Drafts!IngestMetaEvent, Drafts!Begin, Drafts!NoResult
  <2>8. ASSUME NEW t \in Slots, NEW m \in Messages, Drafts!ReplayMetaEvent(t, m)
        PROVE  DraftsRecordInv'
    BY <1>2, <2>8 DEF Drafts!ReplayMetaEvent, Drafts!Begin, Drafts!NoResult,
       Drafts!Tap
  <2>9. ASSUME NEW t \in Slots, Drafts!InlineDrafted(t)
        PROVE  DraftsRecordInv'
    BY <1>2, <2>9 DEF Drafts!InlineDrafted, Drafts!GoTo
  <2>10. ASSUME NEW t \in Slots, Drafts!EngagementCreated(t)
        PROVE  DraftsRecordInv'
    BY <1>2, <2>10 DEF Drafts!EngagementCreated, Drafts!GoTo
  <2>11. ASSUME NEW t \in Slots, Drafts!EngagementExists(t)
        PROVE  DraftsRecordInv'
    BY <1>2, <2>11 DEF Drafts!EngagementExists, Drafts!Finish
  <2>12. ASSUME NEW t \in Slots, Drafts!RequestFails(t)
        PROVE  DraftsRecordInv'
    BY <1>2, <2>12 DEF Drafts!RequestFails, Drafts!Finish, Drafts!Fault
  <2>13. ASSUME NEW t \in Slots, NEW c \in Drafts!Channels,
               NEW next \in {"meta", "deciding"}, (c = "google") <=> (next = "meta"),
               Drafts!PostAccepted(t, c, next)
        PROVE  DraftsRecordInv'
    BY <1>2, <2>13 DEF Drafts!PostAccepted
  <2>14. ASSUME NEW t \in Slots, NEW c \in Drafts!Channels,
               NEW next \in {"meta", "deciding"}, (c = "google") <=> (next = "meta"),
               Drafts!NothingToPost(t, c, next)
        PROVE  DraftsRecordInv'
    BY <1>2, <2>14 DEF Drafts!NothingToPost, Drafts!GoTo
  <2>15. ASSUME NEW t \in Slots, NEW c \in Drafts!Channels,
               NEW next \in {"meta", "deciding"}, (c = "google") <=> (next = "meta"),
               Drafts!PostRefused(t, c, next)
        PROVE  DraftsRecordInv'
    BY <1>2, <2>15 DEF Drafts!PostRefused, Drafts!Fault
  <2>16. ASSUME NEW t \in Slots, NEW c \in Drafts!Channels, Drafts!PostRaises(t, c)
        PROVE  DraftsRecordInv'
    BY <1>2, <2>16 DEF Drafts!PostRaises, Drafts!Finish, Drafts!Fault
  <2>17. ASSUME NEW t \in Slots, Drafts!DecidePending(t)
        PROVE  DraftsRecordInv'
    <3> DEFINE w == draftJob[t].work
    <3>1. /\ draftPc[t] = "deciding" /\ draftPc' = [draftPc EXCEPT ![t] = "closing"]
          /\ draftJob' = draftJob
          /\ draftRow' = [draftRow EXCEPT ![w] = IF Drafts!Succeeded(draftJob[t]) THEN "published" ELSE "delivery_failed"]
          /\ draftRecord' = draftRecord /\ draftCrashes' = draftCrashes
      BY <2>17 DEF Drafts!DecidePending, Drafts!GoTo
    <3>2. \A q \in Drafts!Procs : draftPc'[q] = "closing" => q = t
      BY <1>2, <3>1
    <3>3. DraftsEnded'
      <4>1. draftRow'[w] = IF Drafts!Succeeded(draftJob[t]) THEN "published" ELSE "delivery_failed"
        BY <1>2, <3>1 DEF Drafts!Results
      <4> QED
        BY <3>1, <3>2, <4>1
    <3>4. draftPc'[t] = "closing" /\ draftJob'[t].work = w
      BY <1>2, <3>1
    <3>5. \A v \in Drafts!Works \ {w} : draftRow'[v] = draftRow[v]
      BY <1>2, <3>1
    <3>6. \A q \in Slots : draftPc[q] # "closing"
      BY <1>2, <3>1
    <3>7. Drafts!RecordFollowsRow'
      BY <1>2, <3>1, <3>4, <3>5, <3>6
    <3> QED
      BY <3>3, <3>7
  <2>18. ASSUME NEW t \in Slots, Drafts!CloseRecord(t)
        PROVE  DraftsRecordInv'
    BY <1>2, <2>18 DEF Drafts!CloseRecord, Drafts!Finish
  <2>19. ASSUME NEW t \in Slots, Drafts!DraftRevised(t)
        PROVE  DraftsRecordInv'
    BY <1>2, <2>19 DEF Drafts!DraftRevised, Drafts!Finish
  <2>20. ASSUME NEW p \in Drafts!Procs, Drafts!SavePendingApproval(p)
        PROVE  DraftsRecordInv'
    BY <1>2, <2>20 DEF Drafts!SavePendingApproval, Drafts!GoTo
  <2>21. ASSUME NEW p \in Drafts!Procs, Drafts!Notified(p)
        PROVE  DraftsRecordInv'
    BY <1>2, <2>21 DEF Drafts!Notified, Drafts!Finish
  <2>22. ASSUME NEW w \in Drafts!Works, Drafts!TapReject(w)
        PROVE  DraftsRecordInv'
    BY <1>2, <2>22 DEF Drafts!TapReject, Drafts!Tap
  <2>23. ASSUME NEW w \in Drafts!Works, Drafts!TapEdit(w)
        PROVE  DraftsRecordInv'
    BY <1>2, <2>23 DEF Drafts!TapEdit, Drafts!Tap
  <2>24. ASSUME NEW t \in Slots, NEW w \in Drafts!Works, Drafts!TapApprove(t, w)
        PROVE  DraftsRecordInv'
    BY <1>2, <2>24 DEF Drafts!TapApprove, Drafts!Begin, Drafts!NoResult,
       Drafts!Tap
  <2>25. ASSUME NEW t \in Slots, NEW w \in Drafts!Works, Drafts!ReviseDraft(t, w)
        PROVE  DraftsRecordInv'
    BY <1>2, <2>25 DEF Drafts!ReviseDraft, Drafts!Begin, Drafts!NoResult,
       Drafts!Tap
  <2>26. ASSUME NEW t \in Slots, NEW n \in Inlines, Drafts!AskInline(t, n)
        PROVE  DraftsRecordInv'
    BY <1>2, <2>26 DEF Drafts!AskInline, Drafts!Begin, Drafts!NoResult,
       Drafts!Tap
  <2>27. CASE Drafts!Crash
    BY <1>2, <2>27 DEF Drafts!Crash
  <2>28. CASE UNCHANGED Drafts!vars
    BY <1>2, <2>28 DEF Drafts!vars
  <2> QED
    BY <1>2, <2>1, <2>2, <2>3, <2>4, <2>5, <2>6, <2>7, <2>8, <2>9, <2>10,
       <2>11,
       <2>12, <2>13, <2>14, <2>15, <2>16, <2>17, <2>18, <2>19, <2>20, <2>21,
       <2>22, <2>23, <2>24, <2>25, <2>26, <2>27, <2>28 DEF Drafts!Next, Drafts!LoopSteps,
       Drafts!RequestSteps, Drafts!PublishBundle, Drafts!OwnerActs, Drafts!Channels
<1> QED
  BY <1>1, <1>2, DraftsTypeInvHolds, DraftsOneBusyHolds, DraftsPlacesHold,
     DraftsRowInvHolds, PTL DEF Drafts!Spec

-----------------------------------------------------------------------------
(* What the runs check *)

\* Every variable of the local drafts stays in its set.
THEOREM DraftsTypeCorrect == Drafts!Spec => []Drafts!TypeOK
  BY DraftsTypeInvHolds

\* A draft is posted to a channel no more often than it was approved.
THEOREM DraftsPostsAreApproved ==
    ASSUME DraftsApart
    PROVE  Drafts!Spec => []Drafts!PostedByTap
<1>1. DraftsBundleInv => Drafts!PostedByTap
  BY DEF DraftsBundleInv
<1> QED
  BY <1>1, DraftsBundleInvHolds, PTL

\* A draft that says published was posted on each of its channels.
THEOREM DraftsPublishedIsPosted ==
    ASSUME DraftsApart
    PROVE  Drafts!Spec => []Drafts!PublishedEverywhere
<1>1. DraftsBundleInv => Drafts!PublishedEverywhere
  BY DEF DraftsBundleInv
<1> QED
  BY <1>1, DraftsBundleInvHolds, PTL

\* What awaits approval can be approved.
THEOREM DraftsWaitingIsDecidable ==
    ASSUME DraftsApart
    PROVE  Drafts!Spec => []Drafts!WaitingHasRow
  BY DraftsWaitingHolds

\* The item or the engagement follows its draft.
THEOREM DraftsRecordFollows ==
    ASSUME DraftsApart
    PROVE  Drafts!Spec => []Drafts!RecordFollowsRow
<1>1. DraftsRecordInv => Drafts!RecordFollowsRow
  BY DEF DraftsRecordInv
<1> QED
  BY <1>1, DraftsRecordInvHolds, PTL

\* A row is opened where there was none, or by the owner's own words.
THEOREM DraftsDecidedForGood ==
    ASSUME DraftsApart
    PROVE  Drafts!Spec => Drafts!DecidedStaysDecided
<1>1. ASSUME Drafts!TypeOK, DraftsRowInv, [Drafts!Next]_(Drafts!vars)
      PROVE  [\A w \in Drafts!Works :
                draftRow[w] \in {"published", "delivery_failed"} /\ draftRow'[w] = "pending" =>
                         \E t \in Slots : draftPc[t] = "revising"
                             /\ draftJob[t].work = w]_(Drafts!vars)
  <2> SUFFICES ASSUME NEW w \in Drafts!Works, draftRow[w] \in {"published", "delivery_failed"},
                      draftRow'[w] = "pending"
               PROVE  \E t \in Slots : draftPc[t] = "revising" /\ draftJob[t].work = w
    OBVIOUS
  <2>1. ASSUME NEW p \in Drafts!Procs, Drafts!SavePendingApproval(p)
        PROVE  FALSE
    BY <1>1, <2>1 DEF Drafts!SavePendingApproval, DraftsRowInv, DraftsUnsaved,
       Drafts!TypeOK
  <2>2. ASSUME NEW t \in Slots, Drafts!DraftRevised(t)
        PROVE  draftPc[t] = "revising" /\ draftJob[t].work = w
    BY <1>1, <2>2 DEF Drafts!DraftRevised, Drafts!TypeOK
  <2>3. ASSUME NEW t \in Slots, Drafts!DecidePending(t)
        PROVE  FALSE
    BY <1>1, <2>3 DEF Drafts!DecidePending, Drafts!TypeOK
  <2>4. ASSUME NEW v \in Drafts!Works, Drafts!TapEdit(v)
        PROVE  FALSE
    BY <1>1, <2>4 DEF Drafts!TapEdit, Drafts!TypeOK
  <2>5. draftRow' # draftRow
    OBVIOUS
  <2> QED
    BY <1>1, <2>1, <2>2, <2>3, <2>4, <2>5 DEF Drafts!Next, Drafts!CreatePlan,
       Drafts!ComesDue, Drafts!LoopSteps, Drafts!LoopTick, Drafts!ItemDrafted,
       Drafts!DispatchFails, Drafts!DispatchItem, Drafts!IngestMetaEvent,
       Drafts!ReplayMetaEvent, Drafts!RequestSteps, Drafts!InlineDrafted,
       Drafts!EngagementCreated, Drafts!EngagementExists, Drafts!RequestFails,
       Drafts!PublishBundle, Drafts!PostAccepted, Drafts!NothingToPost,
       Drafts!PostRefused, Drafts!PostRaises, Drafts!CloseRecord,
       Drafts!Notified, Drafts!OwnerActs, Drafts!TapReject, Drafts!TapApprove,
       Drafts!ReviseDraft, Drafts!AskInline, Drafts!Crash, Drafts!recVars,
       Drafts!vars
<1> QED
  BY <1>1, DraftsTypeInvHolds, DraftsRowInvHolds, PTL DEF Drafts!Spec,
     Drafts!DecidedStaysDecided
-----------------------------------------------------------------------------
(* LINE events                                                               *)

\* A request that answers a customer looked at the lock before.
InboxAnswering == \A r \in Slots : inboxPc[r] = "answering" => inboxCur[r] \in inboxDeaf

\* What every request relies on, whatever the others do.
InboxTypeInv == Inbox!TypeOK /\ InboxAnswering /\ Inbox!SilentAfterHandoff

\* It holds over every delivery, replay, stop and restart.
LEMMA InboxTypeInvHolds ==
    ASSUME Bodies \subseteq Seq(Inbox!Events)
    PROVE  Inbox!Spec => []InboxTypeInv
<1> USE DEF InboxTypeInv
<1>1. Inbox!Init => InboxTypeInv
  <2> SUFFICES ASSUME Inbox!Init PROVE InboxTypeInv
    OBVIOUS
  <2>1. <<>> \in Seq(Inbox!Events)
    OBVIOUS
  <2>2. Inbox!TypeOK
    BY <2>1 DEF Inbox!Init, Inbox!TypeOK
  <2> QED
    BY <2>2 DEF Inbox!Init, InboxAnswering, Inbox!SilentAfterHandoff
<1>2. ASSUME InboxTypeInv, [Inbox!Next]_(Inbox!vars)
      PROVE  InboxTypeInv'
  <2> USE DEF InboxAnswering, Inbox!SilentAfterHandoff, Inbox!TypeOK
  <2>1. ASSUME NEW r \in Slots, NEW body \in Bodies, Inbox!Deliver(r, body)
        PROVE  InboxTypeInv'
    BY <1>2, <2>1 DEF Inbox!Deliver, Inbox!GoTo, Inbox!inboxVars,
       Inbox!assetVars, Inbox!talkVars
  <2>2. ASSUME NEW r \in Slots, NEW e \in Inbox!Events, Inbox!Replay(r, e)
        PROVE  InboxTypeInv'
    BY <1>2, <2>2 DEF Inbox!Replay, Inbox!GoTo, Inbox!assetVars,
       Inbox!talkVars, Inbox!counters
  <2>3. ASSUME NEW r \in Slots, Inbox!SkipSeen(r)
        PROVE  InboxTypeInv'
    BY <1>2, <2>3 DEF Inbox!SkipSeen, Inbox!inboxVars, Inbox!assetVars,
       Inbox!talkVars, Inbox!counters
  <2>4. ASSUME NEW r \in Slots, Inbox!ReadEvent(r)
        PROVE  InboxTypeInv'
    BY <1>2, <2>4 DEF Inbox!ReadEvent, Inbox!assetVars, Inbox!talkVars,
       Inbox!counters
  <2>5. ASSUME NEW r \in Slots, Inbox!Answer200(r)
        PROVE  InboxTypeInv'
    BY <1>2, <2>5 DEF Inbox!Answer200, Inbox!GoTo, Inbox!inboxVars,
       Inbox!assetVars, Inbox!talkVars, Inbox!counters
  <2>6. ASSUME NEW r \in Slots, Inbox!TakeUp(r)
        PROVE  InboxTypeInv'
    BY <1>2, <2>6 DEF Inbox!TakeUp, Inbox!assetVars, Inbox!talkVars,
       Inbox!counters
  <2>7. ASSUME NEW r \in Slots, Inbox!RequestDone(r)
        PROVE  InboxTypeInv'
    BY <1>2, <2>7 DEF Inbox!RequestDone, Inbox!GoTo, Inbox!inboxVars,
       Inbox!assetVars, Inbox!talkVars, Inbox!counters
  <2>8. ASSUME NEW r \in Slots, Inbox!AnalyseImage(r) \/ Inbox!DownloadFails(r)
        PROVE  InboxTypeInv'
    <3>1. CASE Inbox!AnalyseImage(r)
      BY <1>2, <3>1 DEF Inbox!AnalyseImage, Inbox!GoTo, Inbox!inboxVars,
         Inbox!assetVars, Inbox!talkVars, Inbox!counters
    <3>2. CASE Inbox!DownloadFails(r)
      BY <1>2, <3>2 DEF Inbox!DownloadFails, Inbox!Fault, Inbox!GoTo,
         Inbox!inboxVars, Inbox!assetVars, Inbox!talkVars
    <3> QED
      BY <2>8, <3>1, <3>2
  <2>9. ASSUME NEW r \in Slots, Inbox!AskWhatToDo(r)
        PROVE  InboxTypeInv'
    <3>1. inboxIntent' \in [Images -> {"absent", "pending", "superseded", "resolved",
                                       "expired"}]
      BY <1>2, <2>9 DEF Inbox!AskWhatToDo, Inbox!SavePendingAssetIntent
    <3> QED
      BY <1>2, <2>9, <3>1 DEF Inbox!AskWhatToDo, Inbox!GoTo, Inbox!inboxVars,
         Inbox!talkVars, Inbox!counters
  <2>10. ASSUME NEW r \in Slots, NEW i \in Images,
                Inbox!AbsorbImage(r, i) \/ Inbox!ChoiceTooLate(r, i)
        PROVE  InboxTypeInv'
    <3>1. CASE Inbox!AbsorbImage(r, i)
      BY <1>2, <3>1 DEF Inbox!AbsorbImage, Inbox!ResolvePendingAssetIntent,
         Inbox!GoTo, Inbox!inboxVars, Inbox!talkVars, Inbox!counters
    <3>2. CASE Inbox!ChoiceTooLate(r, i)
      BY <1>2, <3>2 DEF Inbox!ChoiceTooLate, Inbox!ResolvePendingAssetIntent,
         Inbox!GoTo, Inbox!inboxVars, Inbox!talkVars, Inbox!counters
    <3> QED
      BY <2>10, <3>1, <3>2
  <2>11. ASSUME NEW r \in Slots, NEW i \in Images, NEW d \in Inbox!Decisions,
                Inbox!BeginDecision(r, i, d)
        PROVE  InboxTypeInv'
    <3>1. [image |-> i, decision |-> d] \in Inbox!Choices
      BY DEF Inbox!Choices
    <3> QED
      BY <1>2, <2>11, <3>1 DEF Inbox!BeginDecision, Inbox!GoTo,
         Inbox!inboxVars, Inbox!assetVars, Inbox!talkVars, Inbox!counters
  <2>12. ASSUME NEW r \in Slots, Inbox!NothingOpen(r) \/ Inbox!Replied(r) \/ Inbox!StaySilent(r)
        PROVE  InboxTypeInv'
    BY <1>2, <2>12 DEF Inbox!NothingOpen, Inbox!Replied, Inbox!StaySilent,
       Inbox!EndEvent, Inbox!AfterEvent, Inbox!GoTo, Inbox!inboxVars,
       Inbox!assetVars, Inbox!talkVars, Inbox!counters
  <2>13. ASSUME NEW r \in Slots, Inbox!DecisionCarriedOut(r) \/ Inbox!DecisionFails(r)
        PROVE  InboxTypeInv'
    <3>1. CASE Inbox!DecisionCarriedOut(r)
      BY <1>2, <3>1 DEF Inbox!DecisionCarriedOut,
         Inbox!ResolvePendingAssetIntent, Inbox!GoTo, Inbox!inboxVars,
         Inbox!talkVars, Inbox!counters
    <3>2. CASE Inbox!DecisionFails(r)
      BY <1>2, <3>2 DEF Inbox!DecisionFails, Inbox!Fault, Inbox!GoTo,
         Inbox!inboxVars, Inbox!assetVars, Inbox!talkVars
    <3> QED
      BY <2>13, <3>1, <3>2
  <2>14. ASSUME NEW r \in Slots, Inbox!AskFaq(r)
        PROVE  InboxTypeInv'
    <3>1. inboxDeaf' = inboxDeaf \cup {inboxCur[r]} /\ inboxDeaf' \subseteq Inquiries
      BY <1>2, <2>14 DEF Inbox!AskFaq
    <3> QED
      BY <1>2, <2>14, <3>1 DEF Inbox!AskFaq, Inbox!GoTo, Inbox!inboxVars,
         Inbox!assetVars, Inbox!talkVars, Inbox!counters
  <2>15. ASSUME NEW r \in Slots, Inbox!CustomerAnswered(r)
        PROVE  InboxTypeInv'
    BY <1>2, <2>15 DEF Inbox!CustomerAnswered, Inbox!EndEvent,
       Inbox!AfterEvent, Inbox!GoTo, Inbox!inboxVars, Inbox!assetVars,
       Inbox!talkVars, Inbox!counters
  <2>16. ASSUME NEW r \in Slots, Inbox!TapRaises(r)
        PROVE  InboxTypeInv'
    BY <1>2, <2>16 DEF Inbox!TapRaises, Inbox!Fault, Inbox!inboxVars,
       Inbox!assetVars, Inbox!talkVars
  <2>17. ASSUME NEW r \in Slots, Inbox!TaskRaises(r)
        PROVE  InboxTypeInv'
    BY <1>2, <2>17 DEF Inbox!TaskRaises, Inbox!EndEvent, Inbox!AfterEvent,
       Inbox!GoTo, Inbox!Fault, Inbox!inboxVars, Inbox!assetVars,
       Inbox!talkVars
  <2>18. ASSUME NEW i \in Images, Inbox!HalfHourPasses(i)
        PROVE  InboxTypeInv'
    BY <1>2, <2>18 DEF Inbox!HalfHourPasses, Inbox!inboxVars, Inbox!talkVars,
       Inbox!procVars, Inbox!counters
  <2>19. CASE Inbox!LockHandoff \/ Inbox!ReleaseHandoff
    <3>1. CASE Inbox!LockHandoff
      BY <1>2, <3>1 DEF Inbox!LockHandoff, Inbox!inboxVars, Inbox!assetVars,
         Inbox!procVars
    <3>2. CASE Inbox!ReleaseHandoff
      BY <1>2, <3>2 DEF Inbox!ReleaseHandoff, Inbox!inboxVars,
         Inbox!assetVars, Inbox!procVars, Inbox!counters
    <3> QED
      BY <2>19, <3>1, <3>2
  <2>20. CASE Inbox!Crash
    <3>1. <<>> \in Seq(Inbox!Events)
      OBVIOUS
    <3>2. inboxAbsorbed' \in [Images -> Nat]
      <4>1. CASE UNCHANGED inboxAbsorbed
        BY <1>2, <4>1
      <4>2. CASE \E r \in Slots,
      i \in Images : inboxAbsorbed' = [inboxAbsorbed EXCEPT ![i] = @ + 1]
        BY <1>2, <4>2
      <4> QED
        BY <2>20, <4>1, <4>2 DEF Inbox!Crash
    <3> QED
      BY <1>2, <2>20, <3>1, <3>2 DEF Inbox!Crash, Inbox!inboxVars,
         Inbox!talkVars
  <2>21. CASE UNCHANGED Inbox!vars
    BY <1>2, <2>21 DEF Inbox!vars, Inbox!inboxVars, Inbox!assetVars,
       Inbox!talkVars, Inbox!procVars, Inbox!counters
  <2> QED
    BY <1>2, <2>1, <2>2, <2>3, <2>4, <2>5, <2>6, <2>7, <2>8, <2>9, <2>10,
       <2>11, <2>12, <2>13, <2>14, <2>15, <2>16, <2>17, <2>18, <2>19, <2>20,
       <2>21 DEF Inbox!Next, Inbox!Intake, Inbox!AssetSteps, Inbox!FaqSteps
<1> QED
  BY <1>1, <1>2, PTL DEF Inbox!Spec

-----------------------------------------------------------------------------
(* Every event is begun once *)

\* How often a replay handed the event out once more.
InboxReplays(e) == IF e \in inboxReplayed THEN 1 ELSE 0

\* An event waits at one place of one request at most.
InboxQueuedOnce ==
    \A r, s \in Slots :
      \A j \in 1..Len(inboxQueued[r]), k \in 1..Len(inboxQueued[s]) :
        inboxQueued[r][j] = inboxQueued[s][k] => r = s /\ j = k

\* What waits was marked as seen, and was not handled since.
InboxQueuedSeen ==
    \A r \in Slots : \A j \in 1..Len(inboxQueued[r]) :
      /\ inboxQueued[r][j] \in inboxSeen
      /\ inboxHandled[inboxQueued[r][j]] <= InboxReplays(inboxQueued[r][j])

\* What no delivery brought was neither handled nor replayed.
InboxUnseenUntouched == \A e \in Inbox!Events \ inboxSeen : inboxHandled[e] = 0
    /\ e \notin inboxReplayed

\* The inductive invariant of the deliveries.
InboxQueueInv == InboxQueuedOnce /\ InboxQueuedSeen /\ InboxUnseenUntouched /\ Inbox!HandledOnce

\* A second delivery of an event is dropped, and a replay hands it out once.
LEMMA InboxQueueInvHolds ==
    ASSUME Bodies \subseteq Seq(Inbox!Events)
    PROVE  Inbox!Spec => []InboxQueueInv
<1>1. Inbox!Init => InboxQueueInv
  BY DEF Inbox!Init, InboxQueueInv, InboxQueuedOnce, InboxQueuedSeen,
     InboxUnseenUntouched, Inbox!HandledOnce
<1>2. ASSUME InboxTypeInv, InboxQueueInv, [Inbox!Next]_(Inbox!vars)
      PROVE  InboxQueueInv'
  <2>1. CASE UNCHANGED <<inboxSeen, inboxReplayed, inboxHandled, inboxQueued>>
    BY <1>2, <2>1 DEF InboxQueueInv, InboxQueuedOnce, InboxQueuedSeen,
       InboxUnseenUntouched, Inbox!HandledOnce, InboxReplays
  <2>2. ASSUME NEW r \in Slots, NEW e \in Inbox!Events, Inbox!Replay(r, e)
        PROVE  InboxQueueInv'
    <3>1. /\ inboxSeen' = inboxSeen /\ inboxQueued' = inboxQueued /\ e \in inboxSeen
          /\ inboxReplayed' = inboxReplayed \cup {e} /\ e \notin inboxReplayed
          /\ inboxHandled' = [inboxHandled EXCEPT ![e] = inboxHandled[e] + 1]
      BY <2>2 DEF Inbox!Replay
    <3>2. inboxHandled \in [Inbox!Events -> Nat]
        /\ inboxQueued \in [Slots -> Seq(Inbox!Events)] /\ inboxSeen \subseteq Inbox!Events
      BY <1>2 DEF InboxTypeInv, Inbox!TypeOK
    <3>3. InboxQueuedOnce'
      BY <1>2, <3>1 DEF InboxQueueInv, InboxQueuedOnce
    <3>4. InboxQueuedSeen'
      BY <1>2, <3>1, <3>2 DEF InboxQueueInv, InboxQueuedSeen, InboxReplays
    <3>5. InboxUnseenUntouched' /\ Inbox!HandledOnce'
      BY <1>2, <3>1, <3>2 DEF InboxQueueInv, InboxUnseenUntouched,
         Inbox!HandledOnce
    <3> QED
      BY <3>3, <3>4, <3>5 DEF InboxQueueInv
  <2>3. ASSUME NEW r \in Slots, Inbox!ReadEvent(r)
        PROVE  InboxQueueInv'
    <3> DEFINE e == Head(inboxTodo[r])
    <3>1. /\ inboxQueued \in [Slots -> Seq(Inbox!Events)]
          /\ inboxHandled \in [Inbox!Events -> Nat]
          /\ inboxTodo[r] \in Seq(Inbox!Events) /\ inboxTodo[r] # <<>>
          /\ inboxSeen \subseteq Inbox!Events
      BY <1>2, <2>3 DEF InboxTypeInv, Inbox!TypeOK, Inbox!ReadEvent
    <3>2. e \in Inbox!Events
      BY <3>1
    <3>3. /\ e \notin inboxSeen /\ inboxSeen' = inboxSeen \cup {e}
          /\ inboxReplayed' = inboxReplayed
          /\ inboxQueued' = [inboxQueued EXCEPT ![r] = IF e \in Cards THEN @ ELSE Append(@, e)]
          /\ inboxHandled' = IF e \in Cards THEN [inboxHandled EXCEPT ![e] = @ + 1] ELSE inboxHandled
      BY <2>3 DEF Inbox!ReadEvent
    <3> HIDE DEF e
    <3>4. inboxHandled[e] = 0 /\ e \notin inboxReplayed
      BY <1>2, <3>2, <3>3 DEF InboxQueueInv, InboxUnseenUntouched
    <3>5. \A s \in Slots : \A j \in 1..Len(inboxQueued[s]) : inboxQueued[s][j] # e
      BY <1>2, <3>3 DEF InboxQueueInv, InboxQueuedSeen
    <3>6. CASE e \in Cards
      <4>1. inboxQueued' = inboxQueued
        BY <3>1, <3>3, <3>6
      <4>2. InboxQueuedOnce' /\ InboxQueuedSeen'
        BY <1>2, <3>1, <3>3, <3>5, <3>6, <4>1 DEF InboxQueueInv,
           InboxQueuedOnce, InboxQueuedSeen, InboxReplays
      <4>3. InboxUnseenUntouched' /\ Inbox!HandledOnce'
        BY <1>2, <3>1, <3>3, <3>4, <3>6 DEF InboxQueueInv,
           InboxUnseenUntouched, Inbox!HandledOnce
      <4> QED
        BY <4>2, <4>3 DEF InboxQueueInv
    <3>7. CASE e \notin Cards
      <4>1. /\ inboxQueued' = [inboxQueued EXCEPT ![r] = Append(inboxQueued[r], e)]
            /\ inboxHandled' = inboxHandled
            /\ inboxQueued[r] \in Seq(Inbox!Events)
        BY <3>1, <3>3, <3>7
      <4>2. /\ Len(inboxQueued'[r]) = Len(inboxQueued[r]) + 1
            /\ \A j \in 1..Len(inboxQueued[r]) : inboxQueued'[r][j] = inboxQueued[r][j]
            /\ inboxQueued'[r][Len(inboxQueued[r]) + 1] = e
            /\ Len(inboxQueued[r]) \in Nat
        BY <3>1, <3>2, <4>1
      <4>3. \A s \in Slots \ {r} : inboxQueued'[s] = inboxQueued[s]
        BY <3>1, <4>1
      <4>4. \A s \in Slots : \A j \in 1..Len(inboxQueued'[s]) :
              \/ s = r /\ j = Len(inboxQueued[r]) + 1 /\ inboxQueued'[s][j] = e
              \/ j \in 1..Len(inboxQueued[s]) /\ inboxQueued'[s][j] = inboxQueued[s][j]
        BY <4>2, <4>3
      <4>5. InboxQueuedOnce'
        BY <1>2, <3>5, <4>4 DEF InboxQueueInv, InboxQueuedOnce
      <4>6. InboxQueuedSeen'
        BY <1>2, <3>3, <3>4, <4>1, <4>4 DEF InboxQueueInv, InboxQueuedSeen,
           InboxReplays
      <4>7. InboxUnseenUntouched' /\ Inbox!HandledOnce'
        BY <1>2, <3>3, <4>1 DEF InboxQueueInv, InboxUnseenUntouched,
           Inbox!HandledOnce
      <4> QED
        BY <4>5, <4>6, <4>7 DEF InboxQueueInv
    <3> QED
      BY <3>6, <3>7
  <2>4. ASSUME NEW r \in Slots, Inbox!TakeUp(r)
        PROVE  InboxQueueInv'
    <3> DEFINE e == Head(inboxQueued[r])
    <3>1. /\ inboxQueued \in [Slots -> Seq(Inbox!Events)]
          /\ inboxHandled \in [Inbox!Events -> Nat]
          /\ inboxQueued[r] # <<>>
          /\ inboxSeen' = inboxSeen /\ inboxReplayed' = inboxReplayed
          /\ inboxQueued' = [inboxQueued EXCEPT ![r] = Tail(inboxQueued[r])]
          /\ inboxHandled' = [inboxHandled EXCEPT ![e] = inboxHandled[e] + 1]
      BY <1>2, <2>4 DEF InboxTypeInv, Inbox!TypeOK, Inbox!TakeUp
    <3>2. /\ Len(inboxQueued[r]) \in Nat /\ 1 \in 1..Len(inboxQueued[r])
          /\ e = inboxQueued[r][1] /\ e \in Inbox!Events
          /\ Len(inboxQueued'[r]) = Len(inboxQueued[r]) - 1
          /\ \A j \in 1..Len(inboxQueued'[r]) : inboxQueued'[r][j] = inboxQueued[r][j + 1]
      BY <3>1
    <3> HIDE DEF e
    <3>3. \A s \in Slots \ {r} : inboxQueued'[s] = inboxQueued[s]
      BY <3>1
    <3>4. \A s \in Slots : \A j \in 1..Len(inboxQueued'[s]) :
            \/ s # r /\ j \in 1..Len(inboxQueued[s]) /\ inboxQueued'[s][j] = inboxQueued[s][j]
            \/ s = r /\ j + 1 \in 1..Len(inboxQueued[s])
                /\ inboxQueued'[s][j] = inboxQueued[s][j + 1]
      BY <3>2, <3>3
    <3>5. \A s \in Slots : \A j \in 1..Len(inboxQueued'[s]) : inboxQueued'[s][j] # e
      <4> SUFFICES ASSUME NEW s \in Slots, NEW j \in 1..Len(inboxQueued'[s]),
                          inboxQueued'[s][j] = e
                   PROVE  FALSE
        OBVIOUS
      <4>1. CASE s # r
        <5>1. j \in 1..Len(inboxQueued[s]) /\ inboxQueued[s][j] = inboxQueued[r][1]
          BY <3>2, <3>4, <4>1
        <5>2. InboxQueuedOnce
          BY <1>2 DEF InboxQueueInv
        <5> QED
          BY <3>2, <4>1, <5>1, <5>2 DEF InboxQueuedOnce
      <4>2. CASE s = r
        <5>1. j + 1 \in 1..Len(inboxQueued[r]) /\ inboxQueued[r][j + 1] = inboxQueued[r][1]
            /\ j \in Nat /\ j >= 1
          BY <3>2, <3>4, <4>2
        <5> QED
          BY <1>2, <3>2, <5>1 DEF InboxQueueInv, InboxQueuedOnce
      <4> QED
        BY <4>1, <4>2
    <3>6. inboxHandled[e] <= InboxReplays(e) /\ e \in inboxSeen
      BY <1>2, <3>2 DEF InboxQueueInv, InboxQueuedSeen
    <3>7. InboxQueuedOnce'
      <4> SUFFICES ASSUME NEW s \in Slots, NEW u \in Slots,
                          NEW j \in 1..Len(inboxQueued'[s]), NEW k \in 1..Len(inboxQueued'[u]),
                          inboxQueued'[s][j] = inboxQueued'[u][k]
                   PROVE  s = u /\ j = k
        BY DEF InboxQueuedOnce
      <4> QED
        BY <1>2, <3>4 DEF InboxQueueInv, InboxQueuedOnce
    <3>8. InboxQueuedSeen'
      <4> SUFFICES ASSUME NEW s \in Slots, NEW j \in 1..Len(inboxQueued'[s])
                   PROVE  /\ inboxQueued'[s][j] \in inboxSeen
                          /\ inboxHandled'[inboxQueued'[s][j]] <= InboxReplays(inboxQueued'[s][j])
        BY <3>1 DEF InboxQueuedSeen, InboxReplays
      <4>1. \E k \in 1..Len(inboxQueued[s]) : inboxQueued'[s][j] = inboxQueued[s][k]
        BY <3>4
      <4>2. /\ inboxQueued'[s][j] \in inboxSeen
            /\ inboxHandled[inboxQueued'[s][j]] <= InboxReplays(inboxQueued'[s][j])
        BY <1>2, <4>1 DEF InboxQueueInv, InboxQueuedSeen
      <4>3. inboxHandled'[inboxQueued'[s][j]] = inboxHandled[inboxQueued'[s][j]]
        BY <1>2, <3>1, <3>5, <4>2 DEF InboxTypeInv, Inbox!TypeOK
      <4> QED
        BY <4>2, <4>3
    <3>9. InboxUnseenUntouched' /\ Inbox!HandledOnce'
      BY <1>2, <3>1, <3>2, <3>6 DEF InboxQueueInv, InboxUnseenUntouched,
         Inbox!HandledOnce, InboxReplays
    <3> QED
      BY <3>7, <3>8, <3>9 DEF InboxQueueInv
  <2>5. ASSUME UNCHANGED Inbox!inboxVars,
               \A r \in Slots : inboxQueued'[r] = inboxQueued[r] \/ inboxQueued'[r] = <<>>
        PROVE  InboxQueueInv'
    <3>1. inboxSeen' = inboxSeen /\ inboxReplayed' = inboxReplayed
        /\ inboxHandled' = inboxHandled
      BY <2>5 DEF Inbox!inboxVars
    <3>2. \A r \in Slots : \A j \in 1..Len(inboxQueued'[r]) :
            j \in 1..Len(inboxQueued[r]) /\ inboxQueued'[r][j] = inboxQueued[r][j]
      BY <2>5
    <3>3. InboxQueuedOnce'
      BY <1>2, <3>2 DEF InboxQueueInv, InboxQueuedOnce
    <3>4. InboxQueuedSeen'
      BY <1>2, <3>1, <3>2 DEF InboxQueueInv, InboxQueuedSeen, InboxReplays
    <3> QED
      BY <1>2, <3>1, <3>3, <3>4 DEF InboxQueueInv, InboxUnseenUntouched,
         Inbox!HandledOnce
  <2>6. ASSUME NEW r \in Slots, Inbox!TapRaises(r)
        PROVE  InboxQueueInv'
    <3>1. \A s \in Slots : inboxQueued'[s] = inboxQueued[s] \/ inboxQueued'[s] = <<>>
      BY <1>2, <2>6 DEF Inbox!TapRaises, InboxTypeInv, Inbox!TypeOK
    <3> QED
      BY <2>5, <2>6, <3>1 DEF Inbox!TapRaises
  <2>7. CASE Inbox!Crash
    BY <2>5, <2>7 DEF Inbox!Crash
  <2>8. ASSUME NEW r \in Slots,
               \/ \E body \in Bodies : Inbox!Deliver(r, body)
               \/ Inbox!SkipSeen(r) \/ Inbox!Answer200(r) \/ Inbox!RequestDone(r)
        PROVE  InboxQueueInv'
    BY <2>1, <2>8 DEF Inbox!Deliver, Inbox!SkipSeen, Inbox!Answer200,
       Inbox!RequestDone, Inbox!inboxVars
  <2>9. ASSUME NEW r \in Slots, Inbox!AssetSteps(r)
        PROVE  InboxQueueInv'
    BY <2>1, <2>9 DEF Inbox!AssetSteps, Inbox!AnalyseImage, Inbox!AskWhatToDo,
       Inbox!DownloadFails, Inbox!AbsorbImage, Inbox!ChoiceTooLate,
       Inbox!BeginDecision, Inbox!NothingOpen, Inbox!DecisionCarriedOut,
       Inbox!DecisionFails, Inbox!Replied, Inbox!EndEvent, Inbox!inboxVars
  <2>10. ASSUME NEW r \in Slots, Inbox!FaqSteps(r) \/ Inbox!TaskRaises(r)
         PROVE  InboxQueueInv'
    BY <2>1, <2>10 DEF Inbox!FaqSteps, Inbox!AskFaq, Inbox!StaySilent,
       Inbox!CustomerAnswered, Inbox!TaskRaises, Inbox!EndEvent,
       Inbox!inboxVars
  <2>11. CASE \/ \E i \in Images : Inbox!HalfHourPasses(i)
              \/ Inbox!LockHandoff \/ Inbox!ReleaseHandoff \/ UNCHANGED Inbox!vars
    BY <2>1, <2>11 DEF Inbox!HalfHourPasses, Inbox!LockHandoff,
       Inbox!ReleaseHandoff, Inbox!vars, Inbox!inboxVars, Inbox!procVars
  <2> QED
    BY <1>2, <2>2, <2>3, <2>4, <2>6, <2>7, <2>8, <2>9, <2>10, <2>11 DEF
       Inbox!Next, Inbox!Intake
<1> QED
  BY <1>1, <1>2, InboxTypeInvHolds, PTL DEF Inbox!Spec

-----------------------------------------------------------------------------
(* An image is acted upon once for each time it was handled *)

\* What the sets of messages are: none is "no event", an image is no tap.
InboxApart == None \notin Inbox!Events /\ Images \cap Cards = {}

\* A request has taken the image up, and has not asked the owner yet.
InboxHandling(r, i) == inboxCur[r] = i /\ inboxPc[r] \in {"background", "analysing"}

\* The requests that have taken the image up.
InboxHandlers(i)    == {r \in Slots : InboxHandling(r, i)}

\* The open question about the image, counted.
InboxAsked(i)       == IF inboxIntent[i] = "pending" THEN 1 ELSE 0

\* Each time an image was handled pays for one question to the owner, and the
\* question for one entry in the knowledge base.
InboxPaid ==
    \A i \in Images :
      inboxAbsorbed[i] + InboxAsked(i) + Cardinality(InboxHandlers(i)) <= inboxHandled[i] + inboxCrashes

\* Without a replay an image is asked about once: what handles it is alone and
\* finds it without an intent.
InboxFirstTime ==
    \A i \in Images \ inboxReplayed :
      /\ inboxHandled[i] = 0 => inboxIntent[i] = "absent"
      /\ \A r \in Slots : InboxHandling(r, i) =>
           /\ inboxHandled[i] = 1 /\ inboxIntent[i] = "absent"
           /\ \A s \in Slots : InboxHandling(s, i) => s = r

\* A decision is carried out on an image that was asked about.
InboxChosen ==
    \A r \in Slots : inboxPc[r] \in {"dispatching", "consulting"} =>
      inboxChoice[r] \in Inbox!Choices /\ inboxIntent[inboxChoice[r].image] # "absent"

\* The inductive invariant of images, questions and the knowledge base.
InboxAssetInv == InboxPaid /\ InboxFirstTime /\ InboxChosen

\* There are finitely many of them.
LEMMA InboxHandlersFinite ==
    ASSUME IsFiniteSet(Slots), NEW i
    PROVE  IsFiniteSet(InboxHandlers(i)) /\ Cardinality(InboxHandlers(i)) \in Nat
<1>1. InboxHandlers(i) \in SUBSET Slots
  BY DEF InboxHandlers
<1> QED
  BY <1>1, FS_Subset, FS_CardinalityType

\* No step but the taking up of an event adds a handler.
LEMMA InboxHandlersShrink ==
    ASSUME IsFiniteSet(Slots), NEW i, InboxHandlers(i)' \subseteq InboxHandlers(i)
    PROVE  Cardinality(InboxHandlers(i)') <= Cardinality(InboxHandlers(i))
        /\ Cardinality(InboxHandlers(i)') \in Nat
<1>1. IsFiniteSet(InboxHandlers(i)) /\ InboxHandlers(i)' \in SUBSET InboxHandlers(i)
  BY InboxHandlersFinite
<1> QED
  BY <1>1, FS_Subset, FS_CardinalityType

\* A step that asks nothing, begins nothing and only closes intents.
LEMMA InboxClosingKeeps ==
    ASSUME IsFiniteSet(Slots), InboxTypeInv, InboxAssetInv,
           \A i \in Images : inboxHandled'[i] = inboxHandled[i],
           inboxReplayed' = inboxReplayed, inboxAbsorbed' = inboxAbsorbed,
           inboxCrashes' = inboxCrashes \/ inboxCrashes' = inboxCrashes + 1,
           \A r \in Slots, i \in Images : InboxHandling(r, i)' => InboxHandling(r, i),
           \A i \in Images : \/ inboxIntent'[i] = inboxIntent[i]
                            \/ (inboxIntent[i] # "absent"
                                 /\ inboxIntent'[i] \in {"resolved", "expired"}),
           InboxChosen'
    PROVE  InboxAssetInv'
<1>1. ASSUME NEW i \in Images
      PROVE  inboxAbsorbed'[i] + InboxAsked(i)' + Cardinality(InboxHandlers(i)') <= inboxHandled'[i] + inboxCrashes'
  <2>1. Cardinality(InboxHandlers(i)') <= Cardinality(InboxHandlers(i))
      /\ Cardinality(InboxHandlers(i)') \in Nat
    BY InboxHandlersShrink DEF InboxHandlers
  <2>2. inboxAbsorbed[i] + InboxAsked(i) + Cardinality(InboxHandlers(i)) <= inboxHandled[i] + inboxCrashes
    BY DEF InboxAssetInv, InboxPaid
  <2>3. InboxAsked(i)' <= InboxAsked(i) /\ InboxAsked(i)' \in {0, 1} /\ InboxAsked(i) \in {0, 1}
    BY DEF InboxAsked
  <2>4. /\ inboxAbsorbed[i] \in Nat /\ inboxHandled[i] \in Nat /\ inboxCrashes \in Nat
        /\ Cardinality(InboxHandlers(i)) \in Nat
    BY InboxHandlersFinite DEF InboxTypeInv, Inbox!TypeOK, Inbox!Events
  <2> QED
    BY <2>1, <2>2, <2>3, <2>4
<1>2. InboxFirstTime'
  <2> SUFFICES ASSUME NEW i \in Images, i \notin inboxReplayed
               PROVE  /\ inboxHandled'[i] = 0 => inboxIntent'[i] = "absent"
                      /\ \A r \in Slots : InboxHandling(r, i)' =>
                           /\ inboxHandled'[i] = 1 /\ inboxIntent'[i] = "absent"
                           /\ \A s \in Slots : InboxHandling(s, i)' => s = r
    BY DEF InboxFirstTime
  <2> QED
    BY DEF InboxAssetInv, InboxFirstTime
<1> QED
  BY <1>1, <1>2 DEF InboxAssetInv, InboxPaid

\* An event is taken up, by a request that handled nothing.
LEMMA InboxBeginningKeeps ==
    ASSUME IsFiniteSet(Slots), InboxApart, InboxTypeInv, InboxQueueInv, InboxAssetInv,
           NEW r \in Slots, NEW e \in Inbox!Events,
           inboxHandled' = [inboxHandled EXCEPT ![e] = inboxHandled[e] + 1],
           \/ (inboxReplayed' = inboxReplayed /\ inboxHandled[e] <= InboxReplays(e))
           \/ inboxReplayed' = inboxReplayed \cup {e},
           inboxAbsorbed' = inboxAbsorbed, inboxCrashes' = inboxCrashes,
           inboxIntent' = inboxIntent,
           inboxCur' = [inboxCur EXCEPT ![r] = e],
           \A s \in Slots \ {r} : inboxPc'[s] = inboxPc[s],
           \A i \in Images : ~InboxHandling(r, i),
           inboxPc'[r] \in {"reading", "background"}, inboxChoice' = inboxChoice
    PROVE  InboxAssetInv'
<1>1. \A s \in Slots, i \in Images : InboxHandling(s, i)'
    => InboxHandling(s, i) \/ (s = r /\ i = e)
  BY DEF InboxHandling, InboxTypeInv, Inbox!TypeOK
<1>2. ASSUME NEW i \in Images
      PROVE  inboxAbsorbed'[i] + InboxAsked(i)' + Cardinality(InboxHandlers(i)') <= inboxHandled'[i] + inboxCrashes'
  <2>1. inboxAbsorbed[i] + InboxAsked(i) + Cardinality(InboxHandlers(i)) <= inboxHandled[i] + inboxCrashes
    BY DEF InboxAssetInv, InboxPaid
  <2>2. InboxAsked(i)' = InboxAsked(i) /\ InboxAsked(i) \in {0, 1}
    BY DEF InboxAsked
  <2>3. /\ inboxAbsorbed[i] \in Nat /\ inboxHandled[i] \in Nat /\ inboxCrashes \in Nat
        /\ IsFiniteSet(InboxHandlers(i)) /\ Cardinality(InboxHandlers(i)) \in Nat
    BY InboxHandlersFinite DEF InboxTypeInv, Inbox!TypeOK, Inbox!Events
  <2>4. CASE i = e
    <3>1. InboxHandlers(i)' \in SUBSET (InboxHandlers(i) \cup {r})
      BY <1>1 DEF InboxHandlers
    <3>2. /\ IsFiniteSet(InboxHandlers(i) \cup {r})
          /\ Cardinality(InboxHandlers(i) \cup {r}) = Cardinality(InboxHandlers(i)) + 1
      BY <2>3, FS_AddElement DEF InboxHandlers
    <3>3. Cardinality(InboxHandlers(i)') <= Cardinality(InboxHandlers(i)) + 1
        /\ Cardinality(InboxHandlers(i)') \in Nat
      BY <3>1, <3>2, FS_Subset, FS_CardinalityType
    <3>4. inboxHandled'[i] = inboxHandled[i] + 1
      BY <2>4 DEF InboxTypeInv, Inbox!TypeOK
    <3> QED
      BY <2>1, <2>2, <2>3, <3>3, <3>4
  <2>5. CASE i # e
    <3>1. InboxHandlers(i)' \subseteq InboxHandlers(i)
      BY <1>1, <2>5 DEF InboxHandlers
    <3>2. Cardinality(InboxHandlers(i)') <= Cardinality(InboxHandlers(i))
        /\ Cardinality(InboxHandlers(i)') \in Nat
      BY <3>1, InboxHandlersShrink
    <3>3. inboxHandled'[i] = inboxHandled[i]
      BY <2>5 DEF InboxTypeInv, Inbox!TypeOK
    <3> QED
      BY <2>1, <2>2, <2>3, <3>2, <3>3
  <2> QED
    BY <2>4, <2>5
<1>3. InboxFirstTime'
  <2> SUFFICES ASSUME NEW i \in Images, i \notin inboxReplayed'
               PROVE  /\ inboxHandled'[i] = 0 => inboxIntent'[i] = "absent"
                      /\ \A t \in Slots : InboxHandling(t, i)' =>
                           /\ inboxHandled'[i] = 1 /\ inboxIntent'[i] = "absent"
                           /\ \A s \in Slots : InboxHandling(s, i)' => s = t
    BY DEF InboxFirstTime
  <2>1. i \notin inboxReplayed
    OBVIOUS
  <2>2. CASE i = e
    <3>1. inboxHandled[i] = 0 /\ inboxHandled'[i] = 1
      BY <2>1, <2>2 DEF InboxReplays, InboxTypeInv, Inbox!TypeOK
    <3>2. inboxIntent[i] = "absent" /\ \A s \in Slots : ~InboxHandling(s, i)
      BY <2>1, <3>1 DEF InboxAssetInv, InboxFirstTime
    <3> QED
      BY <1>1, <3>1, <3>2
  <2>3. CASE i # e
    <3>1. inboxHandled'[i] = inboxHandled[i]
      BY <2>3 DEF InboxTypeInv, Inbox!TypeOK
    <3> QED
      BY <1>1, <2>1, <2>3, <3>1 DEF InboxAssetInv, InboxFirstTime
  <2> QED
    BY <2>2, <2>3
<1>4. InboxChosen'
  BY DEF InboxAssetInv, InboxChosen
<1> QED
  BY <1>2, <1>3, <1>4 DEF InboxAssetInv, InboxPaid

\* It holds over every interleaving of requests, batches and taps.
LEMMA InboxAssetInvHolds ==
    ASSUME Bodies \subseteq Seq(Inbox!Events), IsFiniteSet(Slots), InboxApart
    PROVE  Inbox!Spec => []InboxAssetInv
<1>1. Inbox!Init => InboxAssetInv
  <2> SUFFICES ASSUME Inbox!Init PROVE InboxAssetInv
    OBVIOUS
  <2>1. \A i : InboxHandlers(i) = {}
    BY DEF Inbox!Init, InboxHandlers, InboxHandling
  <2>2. \A i \in Images : Cardinality(InboxHandlers(i)) = 0
    BY <2>1, FS_EmptySet
  <2>3. \A i \in Images : inboxAbsorbed[i] = 0 /\ InboxAsked(i) = 0 /\ inboxHandled[i] = 0
      /\ inboxCrashes = 0
    BY DEF Inbox!Init, InboxAsked, Inbox!Events
  <2> QED
    BY <2>1, <2>2, <2>3 DEF Inbox!Init, InboxAssetInv, InboxPaid,
       InboxFirstTime, InboxChosen, InboxHandlers
<1>2. ASSUME InboxTypeInv, InboxQueueInv, InboxAssetInv, [Inbox!Next]_(Inbox!vars)
      PROVE  InboxAssetInv'
  <2> USE DEF InboxTypeInv
  <2>1. ASSUME UNCHANGED <<inboxHandled, inboxReplayed, inboxAbsorbed, inboxIntent,
                           inboxCrashes>>,
               \A r \in Slots, i \in Images : InboxHandling(r, i)' => InboxHandling(r, i),
               InboxChosen'
        PROVE  InboxAssetInv'
    BY <1>2, <2>1, InboxClosingKeeps
  <2>2. ASSUME UNCHANGED <<Inbox!inboxVars, inboxIntent, inboxAbsorbed, inboxCrashes>>,
               UNCHANGED <<inboxPc, inboxCur, inboxChoice>>
        PROVE  InboxAssetInv'
    BY <1>2, <2>1, <2>2 DEF Inbox!inboxVars, InboxHandling, InboxAssetInv,
       InboxChosen
  <2>3. ASSUME NEW r \in Slots, NEW body \in Bodies, Inbox!Deliver(r, body)
        PROVE  InboxAssetInv'
    <3>1. \A s \in Slots, i \in Images : InboxHandling(s, i)' => InboxHandling(s, i)
      BY <1>2, <2>3 DEF Inbox!Deliver, Inbox!GoTo, InboxHandling, Inbox!TypeOK
    <3>2. InboxChosen'
      BY <1>2, <2>3 DEF Inbox!Deliver, Inbox!GoTo, Inbox!assetVars,
         InboxAssetInv, InboxChosen, Inbox!TypeOK
    <3> QED
      BY <2>1, <2>3, <3>1, <3>2 DEF Inbox!Deliver, Inbox!inboxVars,
         Inbox!assetVars
  <2>4. ASSUME NEW r \in Slots, NEW e \in Inbox!Events, Inbox!Replay(r, e)
        PROVE  InboxAssetInv'
    <3>1. /\ inboxHandled' = [inboxHandled EXCEPT ![e] = inboxHandled[e] + 1]
          /\ inboxReplayed' = inboxReplayed \cup {e}
          /\ inboxAbsorbed' = inboxAbsorbed /\ inboxCrashes' = inboxCrashes
          /\ inboxIntent' = inboxIntent /\ inboxChoice' = inboxChoice
          /\ inboxCur' = [inboxCur EXCEPT ![r] = e] /\ inboxPc[r] = "idle"
          /\ inboxPc' = [inboxPc EXCEPT ![r] = IF e \in Cards THEN "reading" ELSE "background"]
      BY <2>4 DEF Inbox!Replay, Inbox!GoTo, Inbox!assetVars, Inbox!counters
    <3>2. \A i \in Images : ~InboxHandling(r, i)
      BY <3>1 DEF InboxHandling
    <3>3. /\ \A s \in Slots \ {r} : inboxPc'[s] = inboxPc[s]
          /\ inboxPc'[r] \in {"reading", "background"}
      BY <1>2, <3>1 DEF Inbox!TypeOK
    <3> QED
      BY <1>2, <3>1, <3>2, <3>3, InboxBeginningKeeps
  <2>5. ASSUME NEW r \in Slots, Inbox!SkipSeen(r)
        PROVE  InboxAssetInv'
    BY <2>2, <2>5 DEF Inbox!SkipSeen, Inbox!assetVars, Inbox!counters
  <2>6. ASSUME NEW r \in Slots, Inbox!ReadEvent(r)
        PROVE  InboxAssetInv'
    <3> DEFINE e == Head(inboxTodo[r])
    <3>1. /\ inboxPc' = inboxPc /\ inboxChoice' = inboxChoice /\ inboxReplayed' = inboxReplayed
          /\ inboxAbsorbed' = inboxAbsorbed
          /\ inboxIntent' = inboxIntent /\ inboxCrashes' = inboxCrashes
          /\ inboxPc[r] = "reading"
          /\ inboxCur' = [inboxCur EXCEPT ![r] = IF e \in Cards THEN e ELSE None]
          /\ inboxHandled' = IF e \in Cards THEN [inboxHandled EXCEPT ![e] = @ + 1] ELSE inboxHandled
      BY <2>6 DEF Inbox!ReadEvent, Inbox!assetVars, Inbox!counters
    <3> HIDE DEF e
    <3>2. \A i \in Images : inboxHandled'[i] = inboxHandled[i]
      BY <1>2, <3>1 DEF Inbox!TypeOK, InboxApart
    <3>3. \A s \in Slots, i \in Images : InboxHandling(s, i)' => InboxHandling(s, i)
      BY <1>2, <3>1 DEF InboxHandling, Inbox!TypeOK
    <3>4. InboxChosen'
      BY <1>2, <3>1 DEF InboxAssetInv, InboxChosen
    <3> QED
      BY <1>2, <3>1, <3>2, <3>3, <3>4, InboxClosingKeeps
  <2>7. ASSUME NEW r \in Slots, Inbox!Answer200(r) \/ Inbox!RequestDone(r)
        PROVE  InboxAssetInv'
    <3>1. /\ inboxCur[r] = None /\ inboxCur' = inboxCur /\ inboxChoice' = inboxChoice
          /\ \E where \in {"background", "idle"} : inboxPc' = [inboxPc EXCEPT ![r] = where]
          /\ UNCHANGED <<inboxHandled, inboxReplayed, inboxAbsorbed, inboxIntent, inboxCrashes>>
      BY <2>7 DEF Inbox!Answer200, Inbox!RequestDone, Inbox!GoTo,
         Inbox!inboxVars, Inbox!assetVars, Inbox!counters
    <3>2. \A s \in Slots, i \in Images : InboxHandling(s, i)' => InboxHandling(s, i)
      BY <1>2, <3>1 DEF InboxHandling, Inbox!TypeOK, InboxApart, Inbox!Events
    <3>3. InboxChosen'
      BY <1>2, <3>1 DEF InboxAssetInv, InboxChosen, Inbox!TypeOK
    <3> QED
      BY <2>1, <3>1, <3>2, <3>3
  <2>8. ASSUME NEW r \in Slots, Inbox!TakeUp(r)
        PROVE  InboxAssetInv'
    <3> DEFINE e == Head(inboxQueued[r])
    <3>1. /\ inboxHandled' = [inboxHandled EXCEPT ![e] = inboxHandled[e] + 1]
          /\ inboxReplayed' = inboxReplayed
          /\ inboxAbsorbed' = inboxAbsorbed /\ inboxCrashes' = inboxCrashes
          /\ inboxIntent' = inboxIntent /\ inboxChoice' = inboxChoice
          /\ inboxCur' = [inboxCur EXCEPT ![r] = e] /\ inboxCur[r] = None
          /\ inboxPc' = inboxPc /\ inboxPc[r] = "background" /\ inboxQueued[r] # <<>>
      BY <2>8 DEF Inbox!TakeUp, Inbox!assetVars, Inbox!counters
    <3>2. inboxQueued[r] \in Seq(Inbox!Events)
      BY <1>2 DEF Inbox!TypeOK
    <3>3. e \in Inbox!Events /\ e = inboxQueued[r][1] /\ 1 \in 1..Len(inboxQueued[r])
      BY <3>1, <3>2
    <3>4. inboxHandled[e] <= InboxReplays(e)
      BY <1>2, <3>3 DEF InboxQueueInv, InboxQueuedSeen
    <3>5. \A i \in Images : ~InboxHandling(r, i)
      BY <1>2, <3>1 DEF InboxHandling, InboxApart, Inbox!Events
    <3> HIDE DEF e
    <3> QED
      BY <1>2, <3>1, <3>3, <3>4, <3>5, InboxBeginningKeeps
  <2>9. ASSUME NEW r \in Slots,
               Inbox!AnalyseImage(r) \/ Inbox!DownloadFails(r) \/ Inbox!DecisionFails(r)
                   \/ Inbox!AskFaq(r)
        PROVE  InboxAssetInv'
    <3>1. /\ inboxCur' = inboxCur /\ inboxChoice' = inboxChoice
          /\ \/ inboxPc[r] = "background" /\ inboxPc' = [inboxPc EXCEPT ![r] = "analysing"]
             \/ inboxPc' = [inboxPc EXCEPT ![r] = "replying"]
             \/ inboxPc' = [inboxPc EXCEPT ![r] = "answering"]
          /\ UNCHANGED <<inboxHandled, inboxReplayed, inboxAbsorbed, inboxIntent, inboxCrashes>>
      BY <2>9 DEF Inbox!AnalyseImage, Inbox!DownloadFails,
         Inbox!DecisionFails, Inbox!AskFaq, Inbox!Fault, Inbox!GoTo,
         Inbox!inboxVars, Inbox!assetVars, Inbox!counters
    <3>2. \A s \in Slots, i \in Images : InboxHandling(s, i)' => InboxHandling(s, i)
      BY <1>2, <3>1 DEF InboxHandling, Inbox!TypeOK
    <3>3. InboxChosen'
      BY <1>2, <3>1 DEF InboxAssetInv, InboxChosen, Inbox!TypeOK
    <3> QED
      BY <2>1, <3>1, <3>2, <3>3
  <2>10. ASSUME NEW r \in Slots, Inbox!AskWhatToDo(r)
         PROVE  InboxAssetInv'
    <3> DEFINE a == inboxCur[r]
    <3>1. /\ inboxPc[r] = "analysing" /\ inboxPc' = [inboxPc EXCEPT ![r] = "replying"]
          /\ inboxCur' = inboxCur /\ inboxChoice' = inboxChoice
          /\ inboxIntent' = [k \in Images |-> IF k = a THEN "pending"
                                              ELSE IF inboxIntent[k] = "pending" THEN "superseded"
                                              ELSE inboxIntent[k]]
          /\ UNCHANGED <<inboxHandled, inboxReplayed, inboxAbsorbed, inboxCrashes>>
      BY <2>10 DEF Inbox!AskWhatToDo, Inbox!SavePendingAssetIntent,
         Inbox!GoTo, Inbox!inboxVars, Inbox!counters
    <3> HIDE DEF a
    <3>2. \A s \in Slots, i \in Images : InboxHandling(s, i)' <=> InboxHandling(s, i) /\ s # r
      BY <1>2, <3>1 DEF InboxHandling, Inbox!TypeOK
    <3>3. \A i \in Images : i = a => InboxHandling(r, i)
      BY <3>1 DEF InboxHandling, a
    <3>4. ASSUME NEW i \in Images
          PROVE  inboxAbsorbed'[i] + InboxAsked(i)' + Cardinality(InboxHandlers(i)') <= inboxHandled'[i] + inboxCrashes'
      <4>1. inboxAbsorbed[i] + InboxAsked(i) + Cardinality(InboxHandlers(i)) <= inboxHandled[i] + inboxCrashes
        BY <1>2 DEF InboxAssetInv, InboxPaid
      <4>2. /\ inboxAbsorbed[i] \in Nat /\ inboxHandled[i] \in Nat /\ inboxCrashes \in Nat
            /\ IsFiniteSet(InboxHandlers(i)) /\ Cardinality(InboxHandlers(i)) \in Nat
        BY <1>2, InboxHandlersFinite DEF Inbox!TypeOK, Inbox!Events
      <4>3. CASE i = a
        <5>1. InboxHandlers(i)' = InboxHandlers(i) \ {r} /\ r \in InboxHandlers(i)
          BY <3>2, <3>3, <4>3 DEF InboxHandlers
        <5>2. Cardinality(InboxHandlers(i)') = Cardinality(InboxHandlers(i)) - 1
          BY <4>2, <5>1, FS_RemoveElement
        <5>3. InboxAsked(i)' <= 1 /\ InboxAsked(i)' \in Nat /\ InboxAsked(i) \in Nat
          BY DEF InboxAsked
        <5> QED
          BY <3>1, <4>1, <4>2, <5>2, <5>3
      <4>4. CASE i # a
        <5>1. InboxHandlers(i)' \subseteq InboxHandlers(i)
          BY <3>2 DEF InboxHandlers
        <5>2. Cardinality(InboxHandlers(i)') <= Cardinality(InboxHandlers(i))
            /\ Cardinality(InboxHandlers(i)') \in Nat
          BY <1>2, <5>1, InboxHandlersShrink
        <5>3. InboxAsked(i)' = 0 /\ InboxAsked(i) \in Nat
          BY <3>1, <4>4 DEF InboxAsked
        <5> QED
          BY <3>1, <4>1, <4>2, <5>2, <5>3
      <4> QED
        BY <4>3, <4>4
    <3>5. InboxFirstTime'
      <4> SUFFICES ASSUME NEW i \in Images, i \notin inboxReplayed
                   PROVE  /\ inboxHandled[i] = 0 => inboxIntent'[i] = "absent"
                          /\ \A t \in Slots : InboxHandling(t, i)' =>
                               /\ inboxHandled[i] = 1 /\ inboxIntent'[i] = "absent"
                               /\ \A s \in Slots : InboxHandling(s, i)' => s = t
        BY <3>1 DEF InboxFirstTime
      <4>1. CASE i = a
        BY <1>2, <3>2, <3>3, <4>1 DEF InboxAssetInv, InboxFirstTime
      <4>2. CASE i # a
        BY <1>2, <3>1, <3>2, <4>2 DEF InboxAssetInv, InboxFirstTime
      <4> QED
        BY <4>1, <4>2
    <3>6. InboxChosen'
      BY <1>2, <3>1 DEF InboxAssetInv, InboxChosen, Inbox!TypeOK,
         Inbox!Choices
    <3> QED
      BY <3>4, <3>5, <3>6 DEF InboxAssetInv, InboxPaid
  <2>11. ASSUME NEW r \in Slots, NEW i \in Images, Inbox!AbsorbImage(r, i)
         PROVE  InboxAssetInv'
    <3>1. /\ inboxIntent[i] = "pending" /\ inboxIntent' = [inboxIntent EXCEPT ![i] = "resolved"]
          /\ inboxAbsorbed' = [inboxAbsorbed EXCEPT ![i] = inboxAbsorbed[i] + 1]
          /\ inboxPc' = [inboxPc EXCEPT ![r] = "replying"] /\ inboxCur' = inboxCur
          /\ inboxChoice' = inboxChoice
          /\ UNCHANGED <<inboxHandled, inboxReplayed, inboxCrashes>>
      BY <2>11 DEF Inbox!AbsorbImage, Inbox!IsActive,
         Inbox!ResolvePendingAssetIntent, Inbox!GoTo, Inbox!inboxVars,
         Inbox!counters
    <3>2. \A s \in Slots, k \in Images : InboxHandling(s, k)' => InboxHandling(s, k)
      BY <1>2, <3>1 DEF InboxHandling, Inbox!TypeOK
    <3>3. ASSUME NEW k \in Images
          PROVE  inboxAbsorbed'[k] + InboxAsked(k)' + Cardinality(InboxHandlers(k)') <= inboxHandled'[k] + inboxCrashes'
      <4>1. inboxAbsorbed[k] + InboxAsked(k) + Cardinality(InboxHandlers(k)) <= inboxHandled[k] + inboxCrashes
        BY <1>2 DEF InboxAssetInv, InboxPaid
      <4>2. /\ inboxAbsorbed[k] \in Nat /\ inboxHandled[k] \in Nat /\ inboxCrashes \in Nat
            /\ IsFiniteSet(InboxHandlers(k)) /\ Cardinality(InboxHandlers(k)) \in Nat
        BY <1>2, InboxHandlersFinite DEF Inbox!TypeOK, Inbox!Events
      <4>3. Cardinality(InboxHandlers(k)') <= Cardinality(InboxHandlers(k))
          /\ Cardinality(InboxHandlers(k)') \in Nat
        BY <1>2, <3>2, InboxHandlersShrink DEF InboxHandlers
      <4>4. inboxAbsorbed'[k] + InboxAsked(k)' = inboxAbsorbed[k] + InboxAsked(k)
          /\ InboxAsked(k) \in Nat /\ InboxAsked(k)' \in Nat
        BY <1>2, <3>1, <4>2 DEF InboxAsked, Inbox!TypeOK
      <4>5. inboxHandled'[k] = inboxHandled[k] /\ inboxCrashes' = inboxCrashes
          /\ inboxAbsorbed'[k] \in Nat
        BY <1>2, <3>1, <4>2 DEF Inbox!TypeOK
      <4> QED
        BY <4>1, <4>2, <4>3, <4>4, <4>5
    <3>4. InboxFirstTime'
      BY <1>2, <3>1, <3>2 DEF InboxAssetInv, InboxFirstTime, Inbox!TypeOK
    <3>5. InboxChosen'
      BY <1>2, <3>1 DEF InboxAssetInv, InboxChosen, Inbox!TypeOK,
         Inbox!Choices
    <3> QED
      BY <3>3, <3>4, <3>5 DEF InboxAssetInv, InboxPaid
  <2>12. ASSUME NEW r \in Slots, NEW i \in Images, inboxIntent[i] # "absent",
                NEW status \in {"resolved", "expired"},
                inboxIntent' = [inboxIntent EXCEPT ![i] = status],
                inboxPc' = [inboxPc EXCEPT ![r] = "replying"],
                UNCHANGED <<inboxCur, inboxChoice, inboxHandled, inboxReplayed, inboxAbsorbed,
                            inboxCrashes>>
         PROVE  InboxAssetInv'
    <3>1. \A s \in Slots, k \in Images : InboxHandling(s, k)' => InboxHandling(s, k)
      BY <1>2, <2>12 DEF InboxHandling, Inbox!TypeOK
    <3>2. \A k \in Images : \/ inboxIntent'[k] = inboxIntent[k]
                            \/ (inboxIntent[k] # "absent"
                                 /\ inboxIntent'[k] \in {"resolved", "expired"})
      BY <1>2, <2>12 DEF Inbox!TypeOK
    <3>3. InboxChosen'
      BY <1>2, <2>12 DEF InboxAssetInv, InboxChosen, Inbox!TypeOK,
         Inbox!Choices
    <3> QED
      BY <1>2, <2>12, <3>1, <3>2, <3>3, InboxClosingKeeps
  <2>13. ASSUME NEW r \in Slots, NEW i \in Images, Inbox!ChoiceTooLate(r, i)
         PROVE  InboxAssetInv'
    BY <2>12, <2>13 DEF Inbox!ChoiceTooLate, Inbox!ResolvePendingAssetIntent,
       Inbox!GoTo, Inbox!inboxVars, Inbox!counters
  <2>14. ASSUME NEW r \in Slots, Inbox!DecisionCarriedOut(r)
         PROVE  InboxAssetInv'
    <3>1. inboxChoice[r].image \in Images /\ inboxIntent[inboxChoice[r].image] # "absent"
      BY <1>2, <2>14 DEF Inbox!DecisionCarriedOut, InboxAssetInv, InboxChosen,
         Inbox!Choices
    <3> QED
      BY <2>12, <2>14, <3>1 DEF Inbox!DecisionCarriedOut,
         Inbox!ResolvePendingAssetIntent, Inbox!GoTo, Inbox!inboxVars,
         Inbox!counters
  <2>15. ASSUME NEW r \in Slots, NEW i \in Images, NEW d \in Inbox!Decisions,
                Inbox!BeginDecision(r, i, d)
         PROVE  InboxAssetInv'
    <3>1. /\ inboxIntent[i] = "pending" /\ inboxCur' = inboxCur
          /\ inboxChoice' = [inboxChoice EXCEPT ![r] = [image |-> i, decision |-> d]]
          /\ \E where \in {"dispatching",
                           "consulting"} : inboxPc' = [inboxPc EXCEPT ![r] = where]
          /\ UNCHANGED <<inboxHandled, inboxReplayed, inboxAbsorbed, inboxIntent, inboxCrashes>>
      BY <2>15 DEF Inbox!BeginDecision, Inbox!IsActive, Inbox!GoTo,
         Inbox!inboxVars, Inbox!assetVars, Inbox!counters
    <3>2. \A s \in Slots, k \in Images : InboxHandling(s, k)' => InboxHandling(s, k)
      BY <1>2, <3>1 DEF InboxHandling, Inbox!TypeOK
    <3>3. InboxChosen'
      <4>1. [image |-> i, decision |-> d] \in Inbox!Choices
        BY DEF Inbox!Choices
      <4> QED
        BY <1>2, <3>1, <4>1 DEF InboxAssetInv, InboxChosen, Inbox!TypeOK
    <3> QED
      BY <2>1, <3>1, <3>2, <3>3
  <2>16. ASSUME NEW r \in Slots, Inbox!EndEvent(r),
                UNCHANGED <<inboxHandled, inboxReplayed, inboxAbsorbed, inboxIntent,
                            inboxCrashes>>
         PROVE  InboxAssetInv'
    <3>1. /\ inboxCur' = [inboxCur EXCEPT ![r] = None]
          /\ \E where \in {"reading", "background"} : inboxPc' = [inboxPc EXCEPT ![r] = where]
          /\ inboxChoice' = [inboxChoice EXCEPT ![r] = Inbox!NoChoice]
      BY <2>16 DEF Inbox!EndEvent, Inbox!AfterEvent, Inbox!GoTo
    <3>2. \A s \in Slots, k \in Images : InboxHandling(s, k)' => InboxHandling(s, k)
      BY <1>2, <3>1 DEF InboxHandling, Inbox!TypeOK, InboxApart, Inbox!Events
    <3>3. InboxChosen'
      BY <1>2, <2>16, <3>1 DEF InboxAssetInv, InboxChosen, Inbox!TypeOK
    <3> QED
      BY <2>1, <2>16, <3>2, <3>3
  <2>17. ASSUME NEW r \in Slots,
                Inbox!NothingOpen(r) \/ Inbox!Replied(r) \/ Inbox!StaySilent(r)
                    \/ Inbox!CustomerAnswered(r) \/ Inbox!TaskRaises(r)
         PROVE  InboxAssetInv'
    BY <2>16, <2>17 DEF Inbox!NothingOpen, Inbox!Replied, Inbox!StaySilent,
       Inbox!CustomerAnswered, Inbox!TaskRaises, Inbox!Fault, Inbox!inboxVars,
       Inbox!assetVars, Inbox!counters
  <2>18. ASSUME NEW r \in Slots, Inbox!TapRaises(r)
         PROVE  InboxAssetInv'
    <3>1. /\ inboxCur' = [inboxCur EXCEPT ![r] = None]
          /\ inboxPc' = [inboxPc EXCEPT ![r] = "idle"]
          /\ inboxChoice' = [inboxChoice EXCEPT ![r] = Inbox!NoChoice]
          /\ UNCHANGED <<inboxHandled, inboxReplayed, inboxAbsorbed, inboxIntent, inboxCrashes>>
      BY <2>18 DEF Inbox!TapRaises, Inbox!Fault, Inbox!inboxVars,
         Inbox!assetVars
    <3>2. \A s \in Slots, k \in Images : InboxHandling(s, k)' => InboxHandling(s, k)
      BY <1>2, <3>1 DEF InboxHandling, Inbox!TypeOK
    <3>3. InboxChosen'
      BY <1>2, <3>1 DEF InboxAssetInv, InboxChosen, Inbox!TypeOK
    <3> QED
      BY <2>1, <3>1, <3>2, <3>3
  <2>19. CASE \/ \E i \in Images : Inbox!HalfHourPasses(i)
              \/ Inbox!LockHandoff \/ Inbox!ReleaseHandoff \/ UNCHANGED Inbox!vars
    BY <2>2, <2>19 DEF Inbox!HalfHourPasses, Inbox!LockHandoff,
       Inbox!ReleaseHandoff, Inbox!vars, Inbox!assetVars, Inbox!procVars,
       Inbox!counters
  <2>20. CASE Inbox!Crash
    <3>1. /\ inboxPc' = [r \in Slots |-> "idle"] /\ inboxCrashes' = inboxCrashes + 1
          /\ UNCHANGED <<inboxHandled, inboxReplayed, inboxIntent>>
          /\ \/ inboxAbsorbed' = inboxAbsorbed
             \/ \E i \in Images : inboxAbsorbed' = [inboxAbsorbed EXCEPT ![i] = inboxAbsorbed[i] + 1]
      BY <2>20 DEF Inbox!Crash, Inbox!inboxVars
    <3>2. \A i : InboxHandlers(i)' = {}
      BY <3>1 DEF InboxHandlers, InboxHandling
    <3>3. ASSUME NEW k \in Images
          PROVE  inboxAbsorbed'[k] + InboxAsked(k)' + Cardinality(InboxHandlers(k)') <= inboxHandled'[k] + inboxCrashes'
      <4>1. inboxAbsorbed[k] + InboxAsked(k) + Cardinality(InboxHandlers(k)) <= inboxHandled[k] + inboxCrashes
        BY <1>2 DEF InboxAssetInv, InboxPaid
      <4>2. /\ inboxAbsorbed[k] \in Nat /\ inboxHandled[k] \in Nat /\ inboxCrashes \in Nat
            /\ Cardinality(InboxHandlers(k)) \in Nat
        BY <1>2, InboxHandlersFinite DEF Inbox!TypeOK, Inbox!Events
      <4>3. Cardinality(InboxHandlers(k)') = 0
        <5>1. InboxHandlers(k)' = {}
          BY <3>2
        <5> QED
          BY <5>1, FS_EmptySet
      <4>4. inboxAbsorbed'[k] \in Nat /\ inboxAbsorbed'[k] <= inboxAbsorbed[k] + 1
        <5>1. CASE inboxAbsorbed' = inboxAbsorbed
          BY <4>2, <5>1
        <5>2. ASSUME NEW i \in Images,
                     inboxAbsorbed' = [inboxAbsorbed EXCEPT ![i] = inboxAbsorbed[i] + 1]
              PROVE  inboxAbsorbed'[k] \in Nat /\ inboxAbsorbed'[k] <= inboxAbsorbed[k] + 1
          BY <1>2, <4>2, <5>2 DEF Inbox!TypeOK
        <5> QED
          BY <3>1, <5>1, <5>2
      <4>5. InboxAsked(k)' = InboxAsked(k) /\ InboxAsked(k) \in Nat
        BY <3>1 DEF InboxAsked
      <4> QED
        BY <3>1, <4>1, <4>2, <4>3, <4>4, <4>5
    <3>4. InboxFirstTime'
      BY <1>2, <3>1, <3>2 DEF InboxAssetInv, InboxFirstTime, InboxHandlers
    <3>5. InboxChosen'
      BY <3>1 DEF InboxChosen
    <3> QED
      BY <3>3, <3>4, <3>5 DEF InboxAssetInv, InboxPaid
  <2> QED
    BY <1>2, <2>3, <2>4, <2>5, <2>6, <2>7, <2>8, <2>9, <2>10, <2>11, <2>13,
       <2>14, <2>15,
       <2>17, <2>18, <2>19, <2>20 DEF Inbox!Next, Inbox!Intake, Inbox!AssetSteps, Inbox!FaqSteps
<1> QED
  BY <1>1, <1>2, InboxTypeInvHolds, InboxQueueInvHolds, PTL DEF Inbox!Spec

-----------------------------------------------------------------------------
(* What the runs check *)

\* Every variable of the webhook stays in its set.
THEOREM InboxTypeCorrect ==
    ASSUME Bodies \subseteq Seq(Inbox!Events)
    PROVE  Inbox!Spec => []Inbox!TypeOK
<1>1. InboxTypeInv => Inbox!TypeOK
  BY DEF InboxTypeInv
<1> QED
  BY <1>1, InboxTypeInvHolds, PTL

\* No event is handled more than once, but for its replays.
THEOREM InboxBegunOnce ==
    ASSUME Bodies \subseteq Seq(Inbox!Events)
    PROVE  Inbox!Spec => []Inbox!HandledOnce
<1>1. InboxQueueInv => Inbox!HandledOnce
  BY DEF InboxQueueInv
<1> QED
  BY <1>1, InboxQueueInvHolds, PTL

\* No image enters the knowledge base more often than it was handled.
THEOREM InboxEntriesArePaid ==
    ASSUME Bodies \subseteq Seq(Inbox!Events), IsFiniteSet(Slots), InboxApart
    PROVE  Inbox!Spec => []Inbox!AbsorbedOnce
<1>1. InboxTypeInv /\ InboxAssetInv => Inbox!AbsorbedOnce
  <2> SUFFICES ASSUME InboxTypeInv, InboxAssetInv, NEW i \in Images
               PROVE  inboxAbsorbed[i] <= inboxHandled[i] + inboxCrashes
    BY DEF Inbox!AbsorbedOnce
  <2>1. /\ inboxAbsorbed[i] \in Nat /\ inboxHandled[i] \in Nat /\ inboxCrashes \in Nat
        /\ Cardinality(InboxHandlers(i)) \in Nat /\ InboxAsked(i) \in Nat
    BY InboxHandlersFinite DEF InboxTypeInv, Inbox!TypeOK, Inbox!Events,
       InboxAsked
  <2> QED
    BY <2>1 DEF InboxAssetInv, InboxPaid
<1> QED
  BY <1>1, InboxTypeInvHolds, InboxAssetInvHolds, PTL

\* Whoever is answered was not handed over to a person when the answer left.
THEOREM InboxLockedIsSilent ==
    ASSUME Bodies \subseteq Seq(Inbox!Events)
    PROVE  Inbox!Spec => []Inbox!SilentAfterHandoff
<1>1. InboxTypeInv => Inbox!SilentAfterHandoff
  BY DEF InboxTypeInv
<1> QED
  BY <1>1, InboxTypeInvHolds, PTL

\* A closed question what to do with an image is never open again.
THEOREM InboxClosedForGood ==
    ASSUME Bodies \subseteq Seq(Inbox!Events), IsFiniteSet(Slots), InboxApart
    PROVE  Inbox!Spec => Inbox!ClosedStaysClosed
<1>1. ASSUME InboxTypeInv, InboxAssetInv, [Inbox!Next]_(Inbox!vars)
      PROVE  [\A i \in Images :
                inboxIntent[i] \in {"superseded", "resolved", "expired"}
                    /\ inboxIntent'[i] = "pending" =>
                    i \in inboxReplayed]_(Inbox!vars)
  <2> SUFFICES ASSUME NEW i \in Images,
                      inboxIntent[i] \in {"superseded", "resolved", "expired"},
                      inboxIntent'[i] = "pending"
               PROVE  i \in inboxReplayed
    OBVIOUS
  <2>1. ASSUME NEW k, NEW status \in {"resolved", "expired"},
               inboxIntent' = [inboxIntent EXCEPT ![k] = status]
        PROVE  FALSE
    BY <1>1, <2>1 DEF InboxTypeInv, Inbox!TypeOK
  <2>2. ASSUME NEW r \in Slots, Inbox!AskWhatToDo(r)
        PROVE  i \in inboxReplayed
    <3>1. inboxCur[r] = i /\ inboxPc[r] = "analysing"
      BY <1>1, <2>2 DEF Inbox!AskWhatToDo, Inbox!SavePendingAssetIntent
    <3> QED
      BY <1>1, <3>1 DEF InboxAssetInv, InboxFirstTime, InboxHandling
  <2>3. inboxIntent' # inboxIntent
    OBVIOUS
  <2>4. \A r \in Slots : Inbox!Intake(r) \/ Inbox!FaqSteps(r) \/ Inbox!TapRaises(r)
      \/ Inbox!TaskRaises(r) => inboxIntent' = inboxIntent
    BY DEF Inbox!Intake, Inbox!Deliver, Inbox!Replay, Inbox!SkipSeen,
       Inbox!ReadEvent, Inbox!Answer200, Inbox!TakeUp, Inbox!RequestDone,
       Inbox!FaqSteps, Inbox!AskFaq, Inbox!StaySilent, Inbox!CustomerAnswered,
       Inbox!TapRaises, Inbox!TaskRaises, Inbox!assetVars
  <2>5. ASSUME NEW r \in Slots, Inbox!AssetSteps(r)
        PROVE  i \in inboxReplayed
    BY <2>1, <2>2, <2>3, <2>5 DEF Inbox!AssetSteps, Inbox!AnalyseImage,
       Inbox!DownloadFails, Inbox!AbsorbImage, Inbox!ChoiceTooLate,
       Inbox!BeginDecision, Inbox!NothingOpen, Inbox!DecisionCarriedOut,
       Inbox!DecisionFails, Inbox!Replied, Inbox!ResolvePendingAssetIntent,
       Inbox!assetVars
  <2>6. ~(UNCHANGED Inbox!vars)
    BY <2>3 DEF Inbox!vars, Inbox!assetVars
  <2> QED
    BY <1>1, <2>3, <2>4, <2>5, <2>6 DEF Inbox!Next, Inbox!HalfHourPasses,
       Inbox!LockHandoff, Inbox!ReleaseHandoff, Inbox!Crash, Inbox!assetVars
<1> QED
  BY <1>1, InboxTypeInvHolds, InboxAssetInvHolds, PTL DEF Inbox!Spec,
     Inbox!ClosedStaysClosed
=============================================================================
