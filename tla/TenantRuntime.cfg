\* A putRaw and a putChords may overlap while two requests use the services.
SPECIFICATION Spec
CONSTANTS
    Rebuilds = {r1, r2}
    Requests = {q1, q2}
    Eager = {timers}
    Lazy = {tokens}
    Offers <- MCOffers
    First = First
    None = None
SYMMETRY Symmetry
CHECK_DEADLOCK FALSE
INVARIANTS
    LeaksHaveACause
    ChordsAreKept
    FileCatchesUp
