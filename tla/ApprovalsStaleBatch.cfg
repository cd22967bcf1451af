SPECIFICATION Spec
CONSTANTS
    Runs = {r1, r2}
    Actors = {owner}
    Drafts = {d1, d2}
    Tasks = {t1}
    NoJob = NoJob
    Nobody = Nobody
    MaxTaps = 8
    MaxFaults = 0
    MaxCrashes = 0
    MaxNotify = 1
    MaxAttempts = 0
CONSTRAINT OnlyThePublisherDecides
INVARIANT ReleasedWasConfirmed
CHECK_DEADLOCK FALSE
