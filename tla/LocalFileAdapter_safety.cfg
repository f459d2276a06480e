\* Three concurrent calls on two files, any lock wait but check's may time out.
SPECIFICATION Spec
CONSTANTS
    Ops = {o1, o2, o3}
    CallKinds = {"read", "write", "delete", "check", "move"}
    Paths <- MCPaths2
    Requests <- MCRequests
    LockIds = {s1, s2, s3}
    None = None
    Removable <- MCRemovable
    Timings = {TRUE}
SYMMETRY Symmetry
INVARIANTS
    NoLeakedLock
    NoDeadlock
PROPERTIES
    StableRead
    NoOvertaking
    KeepsPromise
