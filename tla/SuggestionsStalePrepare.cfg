SPECIFICATION Spec
CONSTANTS
    Suggs = {s1}
    Kinds = {"content_gap"}
    Customers = {c1}
    Drafts = {d1}
    FirstDraft = d1
    Tasks = {t1, t2}
    NoJob = NoJob
    NoTask = NoTask
    MaxTaps = 1
    MaxFaults = 0
    MaxCrashes = 0
PROPERTY DecidedIsFinal
CHECK_DEADLOCK FALSE
