SPECIFICATION Spec
CONSTANTS
    Runs = {r1}
    Actors = {owner}
    Drafts = {d1, d2}
    Tasks = {t1, t2}
    NoJob = NoJob
    Nobody = Nobody
    MaxTaps = 5
    MaxFaults = 1
    MaxCrashes = 1
    MaxNotify = 2
    MaxAttempts = 1
SYMMETRY Symmetry
INVARIANTS VerdictAgrees ReleaseIsAuthorised ReleasedWasConfirmed
PROPERTY ImplementsPromise
CHECK_DEADLOCK FALSE
