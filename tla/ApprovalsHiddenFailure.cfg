SPECIFICATION Spec
CONSTANTS
    Runs = {r1}
    Actors = {owner}
    Drafts = {d1}
    Tasks = {t1}
    NoJob = NoJob
    Nobody = Nobody
    MaxTaps = 0
    MaxFaults = 0
    MaxCrashes = 0
    MaxNotify = 1
    MaxAttempts = 1
PROPERTY FailureStaysVisible
CHECK_DEADLOCK FALSE
