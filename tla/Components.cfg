\* Log collector: four entries, one or two to a request, from three configurations.
\* Load of a tenant: two callers; its manifest is ready to be served or not.
\* Pipelines: five, lists of none or two, two requests at a time, a few answers that are not ok or none.
\* Timers: two repeats at most; sessions: two connections; tokens: two, posted four times.
SPECIFICATION PartsSpec
CONSTANTS
    twos = twos
    threes = threes
    moved = moved
    Configs = {twos, threes, moved}
    BatchSize <- MCBatchSize
    MaxSize <- MCMaxSize
    Interval <- MCInterval
    MaxEntries = 4
    MaxPosted = 2
    Callers = {p1, p2}
    p1 = p1
    p2 = p2
    Remote = {"/site"}
    Chord = {"/lib"}
    Local = {"/site/app"}
    Urls <- MCUrls
    Prefixes <- MCPrefixes
    SourcesOf <- MCSourcesOf
    Body <- MCBody
    Cases <- MCCases
    Limit = 2
    Specs <- MCSpecs
    MaxTicks = 4
    MaxChanges = 4
    Connections = 2
    Pushes = 2
    t1 = t1
    t2 = t2
    Tokens <- MCTokens
    ExpirySecs = 2
    MaxPosts = 4
    MaxTime = 6
    MaxCalls = 1
    MaxAdapters = 1
    MaxLoose = 1
    Parts = {"logs", "load", "pipeline", "timer", "sessions", "tokens"}
    None = None
CHECK_DEADLOCK FALSE
INVARIANTS
    AllTypesOK
    OrderKept
    OrderDoesNotMatter
    NoLoadStalls
    NoPipelineStalls
    WholeEvents
    AccessForItsTime
PROPERTIES
    EveryEntrySettles
    ServedAfterInit
    EveryRequestEnds
    KeepsTicking
