\* A restart between two registrations: is the first one told?
SPECIFICATION Spec
CONSTANTS
    c1 = c1
    c2 = c2
    w1 = w1
    w2 = w2
    t1 = t1
    t2 = t2
    d1 = d1
    s1 = s1
    s2 = s2
    k = k
    Keys = {}
    Clients = {c1, c2}
    Writers = {w1, w2}
    Tenants = {t1, t2}
    Foreign = {"foreign", "other"}
    Secrets = {s1, s2}
    Dispatches = {d1}
    Callers <- MCCallers
    Urls <- MCUrls
    Absolute <- MCAbsolute
    Relative <- MCRelative
    Concurrency = 1
    RetryCount = 1
    MaxRestarts = 1
    MaxFaults = 1
    Secret <- MCSecret
    Casts <- MCCasts
    None = None
CHECK_DEADLOCK FALSE
PROPERTY EveryRegistrantIsTold
