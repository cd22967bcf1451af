SPECIFICATION Spec
CONSTANTS
    Suggs = {s1, s2}
    Kinds = {"unanswered_reviews"}
    Customers = {c1}
    Drafts = {d1}
    FirstDraft = d1
    Tasks = {t1}
    NoJob = NoJob
    NoTask = NoTask
    MaxTaps = 2
    MaxFaults = 0
    MaxCrashes = 0
INVARIANT SentIsHandedOver
CHECK_DEADLOCK FALSE
