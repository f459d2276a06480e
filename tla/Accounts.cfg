\* Two requests at a time, five in all, of a user with and one without a second factor; two attempts
\* at a password and at a code.
SPECIFICATION Spec
CONSTANTS
    Requests = {r1, r2}
    Passwords = {"old", "new"}
    First = "old"
    Challenge = TRUE
    MaxAttempts = 2
    MaxCodes = 2
    LockTime = 1
    TokenLife = 1
    SessionTime = 4
    MaxCalls = 5
    MaxTime = 2
SYMMETRY RequestSymmetry
CHECK_DEADLOCK FALSE
INVARIANTS
    TypeOK
    EnabledIsConfirmed
    LockedInTime
    
