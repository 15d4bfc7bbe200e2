SPECIFICATION Spec
CONSTANTS
    Platforms = {mac, win}
    Hashes = {a, b, c}
    Foreign = foreign
    None = None
    MaxJobs = 2
SYMMETRY Symmetry
CONSTRAINT Blameless
INVARIANTS TypeOK RollbackRestores PublishedIsStored
