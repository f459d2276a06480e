SPECIFICATION Spec
CONSTANTS
    None = None
    Users <- MCUsers
    Admin = "root"
    r1 = r1
    r2 = r2
    Reqs <- MCReqs
    MaxReqs = 3
SYMMETRY Symmetry
CHECK_DEADLOCK FALSE
INVARIANTS OwnRecords ValidWhenWritten
PROPERTIES PatchKeepsTheRest
