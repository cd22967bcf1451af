SPECIFICATION Spec
CONSTANTS
    Sessions = {s1, s2}
    Pages = {p1, p2}
    Threads = {t1}
    NoPage = NoPage
    NoSession = NoSession
    MaxRequests = 4
    MaxCrashes = 1

PROPERTY ReconnectWorks
CHECK_DEADLOCK FALSE
