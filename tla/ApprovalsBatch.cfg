SPECIFICATION Spec
CONSTANTS
    Runs = {r1, r2}
    Actors = {owner}
    Drafts = {d1}
    Tasks = {t1}
    NoJob = NoJob
    Nobody = Nobody
    MaxTaps = 6
    MaxFaults = 0
    MaxCrashes = 0
    MaxNotify = 1
    MaxAttempts = 0
SYMMETRY Symmetry
INVARIANTS VerdictAgrees ReleaseIsAuthorised
CHECK_DEADLOCK FALSE
