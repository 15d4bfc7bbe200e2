SPECIFICATION Spec
CONSTANTS
    Procs = {p1, p2, p3}
    Shards = {p1, p2}
    ours = ours
    theirs = theirs
    Groups = {ours, theirs}
    Group <- MCGroup
    Devices = {d1, d2}
    DevicePorts = {a}
    HostPorts = {x}
    Dynamic = dynamic
    None = None
    MaxPairs = 1
    ShareHostPorts = FALSE
SYMMETRY Symmetry
INVARIANT ForwardsAreKnown
PROPERTY OtherDevicesKeepTheirs
CHECK_DEADLOCK FALSE
