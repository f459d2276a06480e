\* Three calls, with an adapter each, one of which nobody waits for; the other parts stay as they are.
SPECIFICATION CallsSpec
CONSTANTS
    twos = twos
    threes = threes
    moved = moved
    Configs = {twos, threes, moved}
    BatchSize <- MCBatchSize
    MaxSize <- MCMaxSize
    Interval <- MCInterval
    MaxEntries = 4
    MaxPosted = 2
    Callers = {p1, p2}
    p1 = p1
    p2 = p2
    Remote = {"/site"}
    Chord = {"/lib"}
    Local = {"/site/app"}
    Urls <- MCUrls
    Prefixes <- MCPrefixes
    SourcesOf <- MCSourcesOf
    Body <- MCBody
    Cases <- MCCases
    Limit = 2
    Specs <- MCSpecs
    MaxTicks = 4
    MaxChanges = 4
    Connections = 2
    Pushes = 2
    t1 = t1
    t2 = t2
    Tokens <- MCTokens
    ExpirySecs = 2
    MaxPosts = 4
    MaxTime = 6
    MaxCalls = 3
    MaxAdapters = 1
    MaxLoose = 1
    Parts = {"calls"}
    None = None
CHECK_DEADLOCK FALSE
INVARIANTS AdapterLifetimes
PROPERTIES ClientsAreAnswered
