SPECIFICATION FairSpec
CONSTANTS
    Suggs = {s1}
    Kinds = {"stale_knowledge_base", "unanswered_reviews"}
    Customers = {c1}
    Drafts = {d1}
    FirstDraft = d1
    Tasks = {t1, t2}
    NoJob = NoJob
    NoTask = NoTask
    MaxTaps = 2
    MaxFaults = 0
    MaxCrashes = 0
PROPERTY SendingEnds
CHECK_DEADLOCK FALSE
