SPECIFICATION Spec
CONSTANTS
    Procs = {p1}
    Shards = {p1}
    ours = ours
    theirs = theirs
    Groups = {ours, theirs}
    Group <- MCGroup
    Devices = {d1, d2}
    DevicePorts = {a, b}
    HostPorts = {x, y}
    Dynamic = dynamic
    None = None
    MaxPairs = 2
    ShareHostPorts = FALSE
SYMMETRY Symmetry
INVARIANTS TypeOK MappedPortIsFound
PROPERTY NothingIsLeft
CHECK_DEADLOCK FALSE
