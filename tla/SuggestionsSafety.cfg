SPECIFICATION Spec
CONSTANTS
    Suggs = {s1, s2}
    Kinds = {"content_gap", "unanswered_reviews", "recover_sleeping", "stale_knowledge_base"}
    Customers = {c1, c2}
    Drafts = {d1, d2}
    FirstDraft = d1
    Tasks = {t1, t2}
    NoJob = NoJob
    NoTask = NoTask
    MaxTaps = 3
    MaxFaults = 1
    MaxCrashes = 1
SYMMETRY Symmetry
INVARIANTS TypeOK SentAsWritten NobodyReachedTwice  
PROPERTY AskedIsFinal
CHECK_DEADLOCK FALSE
