SPECIFICATION Spec
CONSTANTS
    None = None
    img1 = img1
    img2 = img2
    k1 = k1
    w1 = w1
    q1 = q1
    Slots = {t1, t2}
    OneSlot = {t1}
    Items = {i1}
    Inlines = {n1}
    Messages = {m1}
    Images = {img1, img2}
    Cards = {k1}
    Words = {w1}
    Inquiries = {q1}
    Bodies <- MCBodies
    Sessions = {s1, s2}
    Pages = {p1, p2}
    Accounts = {a1, a2}
    Users = {u1, u2, u3}
    Tags = {g1}
    Tenants = {c1, c2}
    Recipients = {r1}
    Runs = {r1}
    Photos = {img1}
    Sentences = {w1}
    Consents = {s1, s2}
    Places = {p1, p2, p3}
    Shared = TRUE
    Owners = {c1}
    Readers = {u1, u2}
    Posts = {i1}
    Names = {n1}
    Answers = {a1, a2}
    Sites = {s1, s2}
    Bosses = {u1}
    Telling = {w1}
    Judging = {q1}
    EditedText = edited
    Day = 3
    ReportRetry = 2
    ScanRetry = 1
    HoursPerDay = 2
    MinAge = 1
    MaxAge = 2
    KnowledgeWindow = 1
    MemoryWindow = 1
    MaxCrashes = 1
    MaxDraftTaps = 2
    MaxDraftFaults = 1
    MaxDeliveries = 2
    MaxReplays = 1
    MaxLocks = 1
    MaxMishaps = 1
    MaxMetaRequests = 3
    MaxPuts = 2
    MaxExpiries = 2
    MaxMessages = 3
    MaxCustomerRequests = 3
    MaxSyncs = 1
    MaxJobFaults = 1
    MaxGateTaps = 4
    MaxRewrites = 1
    MaxGateFaults = 1
    MaxDialogueDeliveries = 3
    MaxDialogueFaults = 2
    MaxConsentFaults = 1
    MaxDisconnects = 1
    MaxHour = 3
    MaxEdits = 2
    MaxRoundFaults = 1
    MaxScanHour = 4
    MaxScanFaults = 2
    MaxWelcomes = 11
    MaxDetours = 2
    MaxShopRequests = 3
    MaxRuns = 2
    MaxTalk = 2
    MaxUpdates = 1
    MaxDecisions = 1
INVARIANTS
    TypeOK
    PostedByTap
    PublishedEverywhere
    WaitingHasRow
    RecordFollowsRow
    HandledOnce
    AbsorbedOnce
    
    
    LastPutStands
    
    
    
    OnePathOut
    ScheduledOnce
    NoDecisionDropped
    OneTaskPerDecision
PROPERTIES
    DecidedStaysDecided
    ClosedStaysClosed
    
    MergeLasts
    
CHECK_DEADLOCK FALSE
