\* Three operations of MongoDB, three of Elasticsearch, two requests for files; a failure or two.
SPECIFICATION StoresSpec
CONSTANTS
    None = None
    a1 = a1
    q1 = q1
    o1 = o1
    o2 = o2
    Adapters <- MCAdapters
    Queriers <- MCQueriers
    Ops <- MCOps
    MaxOps = 3
    MaxFaults = 2
    Retries = 1
    u1 = u1
    u2 = u2
    Users <- MCUsers
    MaxUses = 3
    MaxLosses = 1
    r1 = r1
    r2 = r2
    Reqs <- MCReqs
    MaxReqs = 2
    Keys <- MCKeys
    Longer <- MCLonger
    Configs <- MCConfigs
    Starts <- MCStarts
    Default = "a"
    Deletable = {"s"}
    Entries = {"a", "s"}
    MaxSize = 2
    PageSize = 2
SYMMETRY Symmetry
CHECK_DEADLOCK FALSE
INVARIANTS InsertedOnce IndexesAreMade AnswersAreTrue
