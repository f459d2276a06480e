\* Three concurrent calls on one file, with and without timeouts.
SPECIFICATION FairSpec
CONSTANTS
    Ops = {o1, o2, o3}
    CallKinds = {"read", "write"}
    Paths <- MCPaths1
    Requests <- MCRequests
    LockIds = {s1}
    None = None
    Removable <- MCRemovable
    Timings = {TRUE, FALSE}
PROPERTIES
    EveryCallEnds
