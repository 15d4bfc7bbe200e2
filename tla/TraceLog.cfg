SPECIFICATION Spec
CONSTANTS
    Roots = {r1, r2}
    Kids = {c1}
    None = None
    MaxEvents = 1
    Threaded = TRUE
SYMMETRY Symmetry
INVARIANTS TypeOK WholeUnlessClash EventsOnce NothingForgotten
CHECK_DEADLOCK FALSE
