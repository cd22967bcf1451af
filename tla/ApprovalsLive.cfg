SPECIFICATION FairSpec
CONSTANTS
    Runs = {r1}
    Actors = {owner}
    Drafts = {d1, d2}
    Tasks = {t1}
    NoJob = NoJob
    Nobody = Nobody
    MaxTaps = 4
    MaxFaults = 1
    MaxCrashes = 1
    MaxNotify = 2
    MaxAttempts = 2
INVARIANT TypeOK
  
CHECK_DEADLOCK FALSE
