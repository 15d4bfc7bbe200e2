----------------------------- MODULE Forwarder -----------------------------
(***************************************************************************)
(* devil/android/forwarder.py: forwards ports of devices to ports of the   *)
(* host.  Every process has a Forwarder object with a map each way; all of *)
(* them share one host_forwarder daemon, one device_forwarder per device   *)
(* and one lock file, which also says for which process group the host     *)
(* daemon runs.  An operation holds the lock from its first to its last    *)
(* step, so only a death of the process is seen between two of them.  The  *)
(* daemons fail, time out and know nothing of the maps.                    *)
(***************************************************************************)
EXTENDS Naturals, Sequences

CONSTANTS Procs, Groups, Group,  \* processes and the process group of each
          Devices, DevicePorts, HostPorts,
          Dynamic,    \* DYNAMIC_DEVICE_PORT: the daemon picks the device port
          None,       \* no entry, nobody
          MaxPairs,   \* bound: port pairs of one Map
          ShareHostPorts  \* callers may map a host port that has an entry

ASSUME ForwarderConstants ==
    /\ Group \in [Procs -> Groups]
    /\ Dynamic \notin DevicePorts
    /\ None \notin HostPorts \cup Procs \cup Groups \cup (Devices \X DevicePorts)
    /\ MaxPairs \in Nat
    /\ ShareHostPorts \in BOOLEAN

VARIABLES lock,    \* who holds the lock file
          pidFile, \* the group written in it
          op,      \* [Procs -> the operation under way]
          raised,  \* [Procs -> what the last operation raised]
          inst,    \* processes with a Forwarder object
          ready,   \* [Procs -> _initialized_devices]
          d2h,     \* [Procs -> _device_to_host_port_map]
          h2d,     \* [Procs -> _host_to_device_port_map]
          fwd,     \* what the daemons forward
          lost     \* history: forwardings whose process died or was told of a failure

own == <<inst, ready, d2h, h2d>>
vars == <<lock, pidFile, op, raised, inst, ready, d2h, h2d, fwd, lost>>

Sockets == Devices \X DevicePorts
NoForwards == [e \in Sockets |-> None]
NoSockets == [h \in HostPorts |-> None]
OfDevice(d) == {e \in Sockets : e[1] = d}
Without(f, E) == [e \in Sockets |-> IF e \in E THEN None ELSE f[e]]

Pairs == (DevicePorts \cup {Dynamic}) \X HostPorts
PairLists == UNION {[1..n -> Pairs] : n \in 0..MaxPairs}
Operations ==
    {"map", "unmap", "unmapAll", "query", "killHost", "killDevice"}
Idle == [do |-> "none", at |-> "none", dev |-> None, port |-> None, pairs |-> <<>>]

Init ==
    /\ lock = None /\ pidFile = None
    /\ op = [p \in Procs |-> Idle]
    /\ raised = [p \in Procs |-> "none"]
    /\ inst = {}
    /\ ready = [p \in Procs |-> {}]
    /\ d2h = [p \in Procs |-> NoForwards]
    /\ h2d = [p \in Procs |-> NoSockets]
    /\ fwd = NoForwards /\ lost = {}

-----------------------------------------------------------------------------
(* The steps of an operation.                                              *)
At(p, where) == lock = p /\ op[p].at = where

Goto(p, where) ==
    /\ op' = [op EXCEPT ![p].at = where]
    /\ UNCHANGED <<lock, raised>>

(* The operation ends, raising `error` or "none"; the lock is released.    *)
End(p, error) ==
    /\ lock' = None
    /\ op' = [op EXCEPT ![p] = Idle]
    /\ raised' = [raised EXCEPT ![p] = error]

(* The daemons now forward `f`; what is no longer forwarded is not lost.   *)
Forward(f, forgotten) ==
    /\ fwd' = f
    /\ lost' = {e \in lost \cup forgotten : f[e] # None}

Quiet == UNCHANGED <<fwd, lost>>

Begin(p, o) ==
    /\ lock = None /\ op[p] = Idle
    /\ o.do = "map" /\ ~ShareHostPorts =>
         \A i \in DOMAIN o.pairs :
           /\ \A e \in Sockets : d2h[p][e] # o.pairs[i][2]
           /\ \A j \in DOMAIN o.pairs : i # j => o.pairs[i][2] # o.pairs[j][2]
    /\ lock' = p
    /\ op' = [op EXCEPT ![p] = o]
    /\ raised' = [raised EXCEPT ![p] = "none"]
    /\ Quiet /\ UNCHANGED <<pidFile, own>>

-----------------------------------------------------------------------------
(* _KillHostLocked: --kill-server, then pkill.  It fails or times out with *)
(* or without the daemon dead.                                             *)
HostKilled == Forward(NoForwards, {})
HostMaybeKilled == Quiet \/ HostKilled

(* Mutant: the pid in the lock file is not looked at.                      *)
GetInstance_AlwaysKill(p) ==
    /\ At(p, "instance")
    /\ \/ p \in inst /\ Goto(p, op[p].do) /\ Quiet
       \/ p \notin inst /\ HostKilled /\ Goto(p, "pid")
    /\ UNCHANGED <<pidFile, own>>

(* _GetInstanceLocked, __init__ and _InitHostLocked: the first operation   *)
(* of a process kills a host daemon that another group may have left.  The *)
(* start time of the group leader is not found if it is gone.              *)
AfterInstance(p) ==
    CASE op[p].do = "map" -> "device"
      [] op[p].do = "killDevice" -> "kill"
      [] OTHER -> op[p].do

GetInstance(p) ==
    /\ At(p, "instance")
    /\ \/ /\ p \in inst \/ pidFile = Group[p]
          /\ inst' = inst \cup {p}
          /\ Goto(p, AfterInstance(p)) /\ Quiet
       \/ /\ p \notin inst /\ pidFile # Group[p]
          /\ HostKilled /\ Goto(p, "pid") /\ UNCHANGED inst
       \/ /\ p \notin inst /\ pidFile # Group[p]
          /\ HostMaybeKilled /\ End(p, "forwarder") /\ UNCHANGED inst
       \/ /\ p \notin inst /\ pidFile = Group[p]
          /\ End(p, "leader") /\ Quiet /\ UNCHANGED inst
    /\ UNCHANGED <<pidFile, ready, d2h, h2d>>

(* The start time is looked up again.                                      *)
WritePid(p) ==
    /\ At(p, "pid")
    /\ \/ /\ pidFile' = Group[p]
          /\ inst' = inst \cup {p}
          /\ Goto(p, AfterInstance(p))
       \/ End(p, "leader") /\ UNCHANGED <<pidFile, inst>>
    /\ Quiet /\ UNCHANGED <<ready, d2h, h2d>>

(* _KillDeviceLocked: the device's forwardings are gone if it succeeds.    *)
DeviceKilled(d) == Forward(Without(fwd, OfDevice(d)), {})
DeviceMaybeKilled(d) == Quiet \/ DeviceKilled(d)

(* _InitDeviceLocked: kill (or reboot), push and start the device daemon.  *)
InitDevice(p) ==
    LET d == op[p].dev
    IN  /\ At(p, "device")
        /\ \/ d \in ready[p] /\ Goto(p, "map") /\ Quiet /\ UNCHANGED ready
           \/ /\ d \notin ready[p]
              /\ DeviceKilled(d) /\ Goto(p, "map")
              /\ ready' = [ready EXCEPT ![p] = @ \cup {d}]
           \/ /\ d \notin ready[p]
              /\ DeviceMaybeKilled(d) /\ End(p, "device") /\ UNCHANGED ready
        /\ UNCHANGED <<pidFile, inst, d2h, h2d>>

(* Mutant: the port asked for is recorded, not the one the daemon took.    *)
MapPair_AskedPort(p) ==
    LET pair == Head(op[p].pairs)
        asked == <<op[p].dev, pair[1]>>
    IN  /\ At(p, "map") /\ op[p].pairs # <<>>
        /\ \E port \in IF pair[1] = Dynamic THEN DevicePorts ELSE {pair[1]} :
             Forward([fwd EXCEPT ![<<op[p].dev, port>>] = pair[2]], {})
        /\ d2h' = [d2h EXCEPT ![p][asked] = pair[2]]
        /\ h2d' = [h2d EXCEPT ![p][pair[2]] = asked]
        /\ op' = [op EXCEPT ![p].pairs = Tail(@)]
        /\ UNCHANGED <<lock, pidFile, raised, inst, ready>>

(* Map, one pair: host_forwarder --map succeeds and says which device port *)
(* it took; or it times out, whatever it did; or it exits with an error,   *)
(* upon which the device daemon is killed.  If that fails too, the handler *)
(* logs an exception it never bound.                                       *)
MapPair(p) ==
    LET d == op[p].dev
        pair == Head(op[p].pairs)
        ports == IF pair[1] = Dynamic THEN DevicePorts ELSE {pair[1]}
        free == {e \in {d} \X ports : fwd[e] = None}
    IN  /\ At(p, "map") /\ op[p].pairs # <<>>
        /\ \/ \E e \in free :
                /\ Forward([fwd EXCEPT ![e] = pair[2]], {})
                /\ d2h' = [d2h EXCEPT ![p][e] = pair[2]]
                /\ h2d' = [h2d EXCEPT ![p][pair[2]] = e]
                /\ op' = [op EXCEPT ![p].pairs = Tail(@)]
                /\ UNCHANGED <<lock, raised, ready>>
           \/ /\ \/ Quiet
                 \/ \E e \in free : Forward([fwd EXCEPT ![e] = pair[2]], {e})
              /\ End(p, "forwarder") /\ UNCHANGED <<ready, d2h, h2d>>
           \/ /\ ready' = [ready EXCEPT ![p] = @ \ {d}]
              /\ \/ DeviceKilled(d) /\ End(p, "forwarder")
                 \/ DeviceMaybeKilled(d) /\ End(p, "unbound")
                 \/ DeviceMaybeKilled(d) /\ End(p, "device")
              /\ UNCHANGED <<d2h, h2d>>
        /\ UNCHANGED <<pidFile, inst>>

MapDone(p) ==
    /\ At(p, "map") /\ op[p].pairs = <<>>
    /\ End(p, "none")
    /\ Quiet /\ UNCHANGED <<pidFile, own>>

(* Mutant: only the entry of the host port goes.                           *)
Unmap_HostEntryOnly(p) ==
    LET e == <<op[p].dev, op[p].port>>
        h == d2h[p][e]
    IN  /\ At(p, "unmap") /\ h # None
        /\ h2d' = [h2d EXCEPT ![p][h] = None]
        /\ Forward(Without(fwd, {e}), {}) /\ End(p, "none")
        /\ UNCHANGED <<pidFile, inst, ready, d2h>>

(* _UnmapDevicePortLocked: both entries go before the command runs; a      *)
(* command that fails is only logged, one that times out raises.           *)
Unmap(p) ==
    LET e == <<op[p].dev, op[p].port>>
        h == d2h[p][e]
    IN  /\ At(p, "unmap")
        /\ \/ /\ h = None
              /\ End(p, "none") /\ Quiet /\ UNCHANGED <<d2h, h2d>>
           \/ /\ h # None /\ h2d[p][h] = None
              /\ d2h' = [d2h EXCEPT ![p][e] = None]
              /\ End(p, "key") /\ Forward(fwd, {e}) /\ UNCHANGED h2d
           \/ /\ h # None /\ h2d[p][h] # None
              /\ d2h' = [d2h EXCEPT ![p][e] = None]
              /\ h2d' = [h2d EXCEPT ![p][h] = None]
              /\ \/ Forward(Without(fwd, {e}), {}) /\ End(p, "none")
                 \/ Forward(fwd, {e}) /\ End(p, "none")
                 \/ /\ Forward(fwd, {e}) \/ Forward(Without(fwd, {e}), {})
                    /\ End(p, "forwarder")
        /\ UNCHANGED <<pidFile, inst, ready>>

(* UnmapAllDevicePorts: the command, then the entries of the device in     *)
(* both maps, in no particular order; an entry whose host port is already  *)
(* gone raises in the middle.                                              *)
UnmapAll(p) ==
    /\ At(p, "unmapAll")
    /\ \/ DeviceKilled(op[p].dev) /\ Goto(p, "clean")
       \/ DeviceMaybeKilled(op[p].dev) /\ End(p, "forwarder")
    /\ UNCHANGED <<pidFile, own>>

(* Mutant: the serial is not compared.                                     *)
Entries_AnyDevice(p) == {e \in Sockets : d2h[p][e] # None}

Entries(p) == {e \in OfDevice(op[p].dev) : d2h[p][e] # None}

CleanEntry(p) ==
    /\ At(p, "clean")
    /\ \E e \in Entries(p) :
         LET h == d2h[p][e]
         IN  /\ d2h' = [d2h EXCEPT ![p][e] = None]
             /\ h2d' = [h2d EXCEPT ![p][h] = None]
             /\ IF h2d[p][h] = None THEN End(p, "key") ELSE Goto(p, "clean")
    /\ Quiet /\ UNCHANGED <<pidFile, inst, ready>>

(* Mutant: the loop ends at the first entry.                               *)
CleanDone_Early(p) ==
    /\ At(p, "clean")
    /\ Goto(p, "kill")
    /\ Quiet /\ UNCHANGED <<pidFile, own>>

CleanDone(p) ==
    /\ At(p, "clean") /\ Entries(p) = {}
    /\ Goto(p, "kill")
    /\ Quiet /\ UNCHANGED <<pidFile, own>>

(* The last step of UnmapAllDevicePorts, and KillDevice.                   *)
KillDevice(p) ==
    LET d == op[p].dev
    IN  /\ At(p, "kill")
        /\ ready' = [ready EXCEPT ![p] = @ \ {d}]
        /\ \/ DeviceKilled(d) /\ End(p, "none")
           \/ DeviceMaybeKilled(d) /\ End(p, "device")
        /\ UNCHANGED <<pidFile, inst, d2h, h2d>>

KillHost(p) ==
    /\ At(p, "killHost")
    /\ \/ HostKilled /\ End(p, "none")
       \/ HostMaybeKilled /\ End(p, "forwarder")
    /\ UNCHANGED <<pidFile, own>>

(* DevicePortForHostPort only looks.                                       *)
Query(p) ==
    /\ At(p, "query")
    /\ End(p, "none")
    /\ Quiet /\ UNCHANGED <<pidFile, own>>

(* The process dies, at any step, and is replaced by one of its group: the *)
(* lock is free, the maps are gone, the daemons go on.                     *)
Die(p) ==
    /\ p \in inst \/ op[p] # Idle
    /\ inst' = inst \ {p}
    /\ ready' = [ready EXCEPT ![p] = {}]
    /\ d2h' = [d2h EXCEPT ![p] = NoForwards]
    /\ h2d' = [h2d EXCEPT ![p] = NoSockets]
    /\ op' = [op EXCEPT ![p] = Idle]
    /\ raised' = [raised EXCEPT ![p] = "none"]
    /\ lock' = IF lock = p THEN None ELSE lock
    /\ Forward(fwd, {e \in Sockets : d2h[p][e] # None})
    /\ UNCHANGED pidFile

Requests ==
    [do : {"map"}, at : {"instance"}, dev : Devices, port : {None}, pairs : PairLists]
    \cup
    [do : {"unmap"}, at : {"instance"}, dev : Devices, port : DevicePorts, pairs : {<<>>}]
    \cup
    [do : {"unmapAll", "killDevice"}, at : {"instance"}, dev : Devices,
     port : {None}, pairs : {<<>>}]
    \cup
    [do : {"query", "killHost"}, at : {"instance"}, dev : {None}, port : {None},
     pairs : {<<>>}]

Next ==
    \E p \in Procs :
      \/ \E o \in Requests : Begin(p, o)
      \/ GetInstance(p) \/ WritePid(p) \/ InitDevice(p)
      \/ MapPair(p) \/ MapDone(p)
      \/ Unmap(p) \/ UnmapAll(p) \/ CleanEntry(p) \/ CleanDone(p)
      \/ KillDevice(p) \/ KillHost(p) \/ Query(p)
      \/ Die(p)

Spec == Init /\ [][Next]_vars

-----------------------------------------------------------------------------
(* The type of the variables: operations, the maps of the processes, and   *)
(* what the daemons hold.                                                  *)
Steps == {"none", "instance", "pid", "device", "clean", "kill"} \cup Operations
Errors == {"none", "forwarder", "device", "leader", "key", "unbound"}

OpType ==
    /\ lock \in Procs \cup {None}
    /\ op \in [Procs -> [do : Operations \cup {"none"}, at : Steps,
                         dev : Devices \cup {None}, port : DevicePorts \cup {None},
                         pairs : PairLists]]
    /\ raised \in [Procs -> Errors]

OwnType ==
    /\ pidFile \in Groups \cup {None}
    /\ inst \in SUBSET Procs
    /\ ready \in [Procs -> SUBSET Devices]
    /\ d2h \in [Procs -> [Sockets -> HostPorts \cup {None}]]
    /\ h2d \in [Procs -> [HostPorts -> Sockets \cup {None}]]

DaemonType == fwd \in [Sockets -> HostPorts \cup {None}] /\ lost \in SUBSET Sockets

TypeOK == OpType /\ OwnType /\ DaemonType

(* As long as no two device ports are forwarded to one host port, the      *)
(* second map finds every entry of the first: looking a host port up       *)
(* answers with the device port that was forwarded to it last.             *)
MappedPortIsFound ==
    ~ShareHostPorts =>
      \A p \in Procs, e \in Sockets :
        d2h[p][e] # None => h2d[p][d2h[p][e]] = e

(* What the daemons forward, some process can unmap, unless that process   *)
(* died or was told that an operation on the port failed.                  *)
ForwardsAreKnown ==
    \A e \in Sockets :
      fwd[e] # None => e \in lost \/ \E p \in Procs : d2h[p][e] = fwd[e]

(* A step takes down no forwarding of another device than its operation's, *)
(* unless it kills the host daemon: on demand, or for a process group that *)
(* is not the one the lock file names.                                     *)
OtherDevicesKeepTheirs ==
    [][\A e \in Sockets :
         fwd[e] # None /\ fwd'[e] = None /\ lock # None =>
           \/ op[lock].dev = e[1]
           \/ op[lock].do = "killHost"
           \/ pidFile # Group[lock]]_vars

(* UnmapAllDevicePorts that returns leaves nothing of the device: neither  *)
(* an entry for its ports in its process nor a forwarding in the daemons.  *)
NothingIsLeft ==
    [][\A p \in Procs :
         /\ op[p].do = "unmapAll" /\ op'[p] = Idle
         /\ p \in inst' /\ raised'[p] = "none"
         => \A e \in OfDevice(op[p].dev) : d2h'[p][e] = None /\ fwd'[e] = None]_vars

(* UnmapDevicePort "unmaps a previously forwarded device port", and        *)
(* UnmapAllDevicePorts all of them: neither raises a KeyError.             *)
UnmapFindsItsEntries == \A p \in Procs : raised[p] # "key"
=============================================================================
