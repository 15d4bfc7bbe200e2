---------------------------- MODULE MCForwarder ----------------------------
(* Forwarder for the shards of one test run, a process group, and possibly *)
(* a process of another one; ports and devices are interchangeable.        *)
EXTENDS Forwarder, TLC

CONSTANTS Shards, ours, theirs

MCGroup == [p \in Procs |-> IF p \in Shards THEN ours ELSE theirs]

Symmetry ==
    Permutations(Devices) \cup Permutations(DevicePorts) \cup Permutations(HostPorts)
    \cup Permutations(Shards)
=============================================================================
