-------------------------- MODULE Forwarder_proofs --------------------------
(***************************************************************************)
(* Proofs about Forwarder, for any number of processes, groups, devices,   *)
(* ports and pairs: its type, and how the two maps of a process and the    *)
(* forwardings of the daemons go together.                                 *)
(***************************************************************************)
EXTENDS Forwarder, TLAPS

(* What an operation under way relies on: it names a device or a port if   *)
(* it needs one, and only the process that holds the lock is at work.      *)
OpInv ==
    \A p \in Procs :
      /\ op[p].do \in {"map", "unmap", "unmapAll", "killDevice"} => op[p].dev \in Devices
      /\ op[p].do = "unmap" => op[p].port \in DevicePorts
      /\ op[p].at \in {"device", "map"} => op[p].do = "map"
      /\ op[p].at = "unmap" => op[p].do = "unmap"
      /\ op[p].at = "killHost" => op[p].do = "killHost"
      /\ op[p].at = "query" => op[p].do = "query"
      /\ op[p].at \in {"unmapAll", "clean"} => op[p].do = "unmapAll"
      /\ op[p].at = "kill" => op[p].do \in {"unmapAll", "killDevice"}
      /\ op[p].at = "none" <=> op[p].do = "none"

(* The host ports still to be mapped have no entry yet and differ.         *)
FreshPorts(p) ==
    op[p].do = "map" /\ ~ShareHostPorts =>
      \A i \in DOMAIN op[p].pairs :
        /\ \A e \in Sockets : d2h[p][e] # op[p].pairs[i][2]
        /\ \A j \in DOMAIN op[p].pairs : i # j => op[p].pairs[i][2] # op[p].pairs[j][2]

MapsInv == MappedPortIsFound /\ \A p \in Procs : FreshPorts(p)

(* While entries of a device are cleaned out nothing of it is forwarded.   *)
KnownInv ==
    /\ ForwardsAreKnown
    /\ \A p \in Procs : At(p, "clean") => \A e \in OfDevice(op[p].dev) : fwd[e] = None

Inv == TypeOK /\ OpInv /\ MapsInv /\ KnownInv

-----------------------------------------------------------------------------
(* Lists of pairs: what is left of one after its head is one again.        *)
LEMMA PairListFacts ==
    /\ <<>> \in PairLists
    /\ \A s \in PairLists : \A i \in DOMAIN s : s[i] \in Pairs /\ s[i][2] \in HostPorts
    /\ \A s \in PairLists : s # <<>> =>
         /\ Head(s) \in Pairs /\ Head(s) = s[1] /\ 1 \in DOMAIN s
         /\ Tail(s) \in PairLists
         /\ \A i \in DOMAIN Tail(s) :
              i \in Nat /\ i + 1 \in DOMAIN s /\ i + 1 # 1 /\ Tail(s)[i] = s[i + 1]
<1>1. <<>> \in PairLists
  <2>1. <<>> \in [1..0 -> Pairs] /\ 0 \in 0..MaxPairs
    BY ForwarderConstants, SMT
  <2> QED BY <2>1 DEF PairLists
<1>2. ASSUME NEW s \in PairLists, s # <<>>
      PROVE  /\ Head(s) \in Pairs /\ Head(s) = s[1] /\ 1 \in DOMAIN s
             /\ Tail(s) \in PairLists
             /\ \A i \in DOMAIN Tail(s) :
                  i \in Nat /\ i + 1 \in DOMAIN s /\ i + 1 # 1 /\ Tail(s)[i] = s[i + 1]
  <2>1. PICK n \in 0..MaxPairs : s \in [1..n -> Pairs]
    BY DEF PairLists
  <2>2. s \in Seq(Pairs) /\ Len(s) = n /\ n \in Nat
    BY <2>1, ForwarderConstants
  <2>3. n # 0 /\ n - 1 \in 0..MaxPairs
    BY <1>2, <2>1, <2>2, ForwarderConstants
  <2>4. Head(s) \in Pairs /\ Head(s) = s[1] /\ 1 \in DOMAIN s
    BY <2>1, <2>2, <2>3
  <2>5. Tail(s) \in Seq(Pairs) /\ Len(Tail(s)) = n - 1
    BY <1>2, <2>2, <2>3
  <2>6. Tail(s) \in [1..(n - 1) -> Pairs]
    <3>1. \A t \in Seq(Pairs) : t \in [1..Len(t) -> Pairs]
      OBVIOUS
    <3> QED BY <2>5, <3>1
  <2>7. Tail(s) \in PairLists
    BY <2>3, <2>6 DEF PairLists
  <2>8. \A i \in DOMAIN Tail(s) :
          i \in Nat /\ i + 1 \in DOMAIN s /\ i + 1 # 1 /\ Tail(s)[i] = s[i + 1]
    <3>1. DOMAIN Tail(s) = 1..(n - 1) /\ DOMAIN s = 1..n
      BY <2>1, <2>6
    <3>2. \A i \in 1..(n - 1) : Tail(s)[i] = s[i + 1]
      BY <1>2, <2>2, <2>3
    <3>3. \A i \in 1..(n - 1) : i \in Nat /\ i + 1 \in 1..n /\ i + 1 # 1
      BY <2>2
    <3> QED BY <3>1, <3>2, <3>3
  <2> QED BY <2>4, <2>7, <2>8
<1>3. ASSUME NEW s \in PairLists, NEW i \in DOMAIN s
      PROVE  s[i] \in Pairs /\ s[i][2] \in HostPorts
  <2>1. s[i] \in Pairs
    BY <1>3 DEF PairLists
  <2> QED BY <2>1 DEF Pairs
<1> QED BY <1>1, <1>2, <1>3

(* What a step of an operation, its end and a change of what is forwarded  *)
(* do to the types.                                                        *)
LEMMA GotoType ==
    ASSUME OpType, NEW p \in Procs, NEW where \in Steps, Goto(p, where)
    PROVE  OpType'
BY DEF OpType, Goto

LEMMA EndType ==
    ASSUME OpType, NEW p \in Procs, NEW error \in Errors, End(p, error)
    PROVE  OpType'
BY PairListFacts DEF OpType, End, Idle, Steps

LEMMA ForwardType ==
    ASSUME DaemonType, NEW f \in [Sockets -> HostPorts \cup {None}],
           NEW forgotten \in SUBSET Sockets, Forward(f, forgotten)
    PROVE  DaemonType'
BY DEF DaemonType, Forward

(* What the daemons forward only shrinks when one of them is killed or     *)
(* nothing happens, and what was lost is still lost if it is forwarded.    *)
Shrinks ==
    /\ \A e \in Sockets :
         /\ fwd'[e] \in {fwd[e], None}
         /\ e \in lost /\ fwd'[e] # None => e \in lost'
    /\ DaemonType'

LEMMA ForwardShrinks ==
    ASSUME DaemonType, NEW f \in [Sockets -> HostPorts \cup {None}],
           \A e \in Sockets : f[e] \in {fwd[e], None},
           NEW F \in SUBSET Sockets, Forward(f, F)
    PROVE  Shrinks /\ \A e \in F : fwd'[e] # None => e \in lost'
BY ForwardType DEF Shrinks, Forward

LEMMA QuietShrinks == ASSUME DaemonType, Quiet PROVE Shrinks
BY DEF DaemonType, Quiet, Shrinks

LEMMA WithoutFacts ==
    ASSUME DaemonType, NEW E
    PROVE  /\ Without(fwd, E) \in [Sockets -> HostPorts \cup {None}]
           /\ \A e \in Sockets :
                /\ Without(fwd, E)[e] \in {fwd[e], None}
                /\ e \in E => Without(fwd, E)[e] = None
BY DEF Without, DaemonType

LEMMA HostKilledShrinks ==
    ASSUME DaemonType, HostMaybeKilled \/ HostKilled PROVE Shrinks
<1>1. /\ NoForwards \in [Sockets -> HostPorts \cup {None}]
      /\ \A e \in Sockets : NoForwards[e] \in {fwd[e], None}
  BY DEF NoForwards
<1> QED BY <1>1, ForwardShrinks, QuietShrinks DEF HostMaybeKilled, HostKilled

LEMMA DeviceKilledShrinks ==
    ASSUME DaemonType, NEW d, DeviceMaybeKilled(d) \/ DeviceKilled(d) PROVE Shrinks
BY WithoutFacts, ForwardShrinks, QuietShrinks DEF DeviceMaybeKilled, DeviceKilled

LEMMA DeviceGone ==
    ASSUME DaemonType, NEW d, DeviceKilled(d)
    PROVE  \A e \in OfDevice(d) : fwd'[e] = None
BY WithoutFacts DEF DeviceKilled, Forward, OfDevice

LEMMA NoneFacts == None \notin HostPorts /\ None \notin Sockets /\ None \notin Procs
BY ForwarderConstants DEF Sockets

-----------------------------------------------------------------------------
(* A step that adds no entry to the first maps, and takes none that the    *)
(* second ones still answer for, keeps them together.                      *)
LEMMA MapsKept ==
    ASSUME TypeOK, MapsInv,
           \A q \in Procs : \/ op'[q].do = "none"
                            \/ op'[q].do = op[q].do /\ op'[q].pairs = op[q].pairs,
           \A q \in Procs, e \in Sockets :
             /\ d2h'[q][e] \in {d2h[q][e], None}
             /\ d2h'[q][e] # None => h2d'[q][d2h[q][e]] = h2d[q][d2h[q][e]]
    PROVE  MapsInv'
<1>1. MappedPortIsFound'
  BY DEF MapsInv, MappedPortIsFound
<1>2. ASSUME NEW q \in Procs PROVE FreshPorts(q)'
  <2>1. CASE op'[q].do = "none"
    BY <2>1 DEF FreshPorts
  <2>2. CASE op'[q].do = op[q].do /\ op'[q].pairs = op[q].pairs
    <3>1. op[q].pairs \in PairLists
      BY DEF TypeOK, OpType
    <3>2. \A i \in DOMAIN op[q].pairs : op[q].pairs[i][2] \in HostPorts
      BY <3>1, PairListFacts
    <3>3. FreshPorts(q)
      BY DEF MapsInv
    <3> QED BY <2>2, <3>2, <3>3, NoneFacts DEF FreshPorts
  <2> QED BY <2>1, <2>2
<1> QED BY <1>1, <1>2 DEF MapsInv

(* A step that makes the daemons forward nothing new, and forgets no entry *)
(* of what they do unless it is lost, keeps what they forward known.       *)
LEMMA KnownKept ==
    ASSUME KnownInv,
           \A e \in Sockets :
             /\ fwd'[e] \in {fwd[e], None} \/ e \in lost'
             /\ e \in lost /\ fwd'[e] # None => e \in lost'
             /\ \A q \in Procs :
                  d2h'[q][e] = d2h[q][e] \/ fwd'[e] = None \/ e \in lost',
           \A q \in Procs : At(q, "clean")' =>
             \/ At(q, "clean") /\ op'[q].dev = op[q].dev
                  /\ \A e \in OfDevice(op[q].dev) : fwd'[e] \in {fwd[e], None}
             \/ \A e \in OfDevice(op'[q].dev) : fwd'[e] = None
    PROVE  KnownInv'
<1>1. ForwardsAreKnown'
  BY DEF KnownInv, ForwardsAreKnown
<1>2. \A q \in Procs : At(q, "clean")' => \A e \in OfDevice(op'[q].dev) : fwd'[e] = None
  BY DEF KnownInv
<1>3. \A d : OfDevice(d)' = OfDevice(d)
  BY DEF OfDevice, Sockets
<1> QED BY <1>1, <1>2, <1>3 DEF KnownInv

(* The end of an operation, and a step that only kills or looks.           *)
LEMMA EndOp ==
    ASSUME TypeOK, OpInv, NEW p \in Procs, NEW error \in Errors, End(p, error)
    PROVE  /\ OpType' /\ OpInv' /\ lock' = None
           /\ \A q \in Procs : op'[q].do = "none" \/ op'[q] = op[q]
<1>1. \A q \in Procs : op'[q] = Idle \/ op'[q] = op[q]
  BY DEF End, TypeOK, OpType
<1>2. Idle.do = "none" /\ Idle.at = "none"
  BY DEF Idle
<1>3. OpInv'
  BY <1>1, <1>2 DEF OpInv
<1> QED BY <1>1, <1>2, <1>3, EndType DEF End, TypeOK

LEMMA GotoOp ==
    ASSUME TypeOK, NEW p \in Procs, NEW where \in Steps, Goto(p, where)
    PROVE  /\ OpType' /\ lock' = lock
           /\ \A q \in Procs : q # p => op'[q] = op[q]
           /\ op'[p].at = where
           /\ op'[p].do = op[p].do /\ op'[p].dev = op[p].dev
           /\ op'[p].port = op[p].port /\ op'[p].pairs = op[p].pairs
<1>1. OpType /\ op' = [op EXCEPT ![p].at = where] /\ lock' = lock
  BY DEF Goto, TypeOK
<1> QED BY <1>1, GotoType DEF OpType

LEMMA KillStep ==
    ASSUME Inv, NEW p \in Procs, lock = p, Shrinks, UNCHANGED <<d2h, h2d>>,
           \/ \E error \in Errors : End(p, error)
           \/ \E where \in Steps \ {"clean"} : Goto(p, where)
    PROVE  MapsInv' /\ KnownInv'
<1>1. \A q \in Procs : \/ op'[q].do = "none"
                       \/ op'[q].do = op[q].do /\ op'[q].pairs = op[q].pairs
  BY EndOp, GotoOp DEF Inv
<1>2. \A q \in Procs : ~At(q, "clean")'
  BY EndOp, GotoOp, NoneFacts DEF Inv, At
<1>3. MapsInv'
  BY <1>1, MapsKept DEF Inv
<1>4. KnownInv'
  BY <1>2, KnownKept DEF Inv, Shrinks
<1> QED BY <1>3, <1>4

-----------------------------------------------------------------------------
(* Every step of an operation preserves the invariant.                     *)
LEMMA InitInv == Init => Inv
<1> HAVE Init
<1>1. TypeOK
  BY PairListFacts DEF Init, TypeOK, OpType, OwnType, DaemonType, Idle, Steps, Errors,
     NoForwards, NoSockets
<1>2. OpInv
  BY DEF Init, OpInv, Idle
<1>3. MapsInv
  BY DEF Init, MapsInv, MappedPortIsFound, FreshPorts, NoForwards, Idle
<1>4. KnownInv
  BY NoneFacts DEF Init, KnownInv, ForwardsAreKnown, NoForwards, At
<1> QED BY <1>1, <1>2, <1>3, <1>4 DEF Inv

LEMMA BeginInv ==
    ASSUME Inv, NEW p \in Procs, NEW o \in Requests, Begin(p, o) PROVE Inv'
<1>1. /\ op' = [op EXCEPT ![p] = o] /\ lock' = p
      /\ raised' = [raised EXCEPT ![p] = "none"]
      /\ UNCHANGED <<fwd, lost, pidFile, inst, ready, d2h, h2d>>
  BY DEF Begin, Quiet, own
<1>2. /\ o \in [do : Operations \cup {"none"}, at : Steps, dev : Devices \cup {None},
               port : DevicePorts \cup {None}, pairs : PairLists]
      /\ o.at = "instance" /\ o.do # "none"
      /\ o.do \in {"map", "unmap", "unmapAll", "killDevice"} => o.dev \in Devices
      /\ o.do = "unmap" => o.port \in DevicePorts
  BY PairListFacts DEF Requests, Operations, Steps
<1>3. TypeOK'
  BY <1>1, <1>2 DEF Inv, TypeOK, OpType, OwnType, DaemonType, Errors
<1>4. \A q \in Procs : op'[q] = IF q = p THEN o ELSE op[q]
  BY <1>1 DEF Inv, TypeOK, OpType
<1>5. OpInv'
  BY <1>2, <1>4 DEF Inv, OpInv
<1>6. FreshPorts(p)'
  BY <1>1, <1>4 DEF Begin, FreshPorts
<1>7. \A q \in Procs : q # p => FreshPorts(q)'
  BY <1>1, <1>4 DEF Inv, MapsInv, FreshPorts
<1>8. MapsInv'
  BY <1>1, <1>6, <1>7 DEF Inv, MapsInv, MappedPortIsFound
<1>9. KnownInv'
  BY <1>1, <1>2, <1>4, KnownKept DEF Inv, At
<1> QED BY <1>3, <1>5, <1>8, <1>9 DEF Inv

LEMMA GetInstanceInv == ASSUME Inv, NEW p \in Procs, GetInstance(p) PROVE Inv'
<1>1. DaemonType /\ TypeOK /\ OpInv /\ lock = p /\ op[p].at = "instance"
  BY DEF Inv, TypeOK, GetInstance, At
<1>2. Shrinks
  BY <1>1, HostKilledShrinks, QuietShrinks DEF GetInstance
<1>3. OwnType'
  BY <1>1 DEF GetInstance, TypeOK, OwnType
<1>4. CASE \E error \in Errors : End(p, error)
  <2>1. OpType' /\ OpInv'
    BY <1>1, <1>4, EndOp
  <2>2. MapsInv' /\ KnownInv'
    BY <1>1, <1>2, <1>4, KillStep DEF GetInstance
  <2> QED BY <1>2, <1>3, <2>1, <2>2 DEF Inv, TypeOK, Shrinks
<1>5. CASE Goto(p, "pid") \/ Goto(p, AfterInstance(p))
  <2>1. op[p].do \in Operations
    BY <1>1 DEF OpInv, TypeOK, OpType
  <2>2. AfterInstance(p) \in Steps \ {"clean", "none"}
    BY <2>1 DEF AfterInstance, Operations, Steps
  <2>3. OpType'
    BY <1>1, <1>5, <2>2, GotoOp DEF Steps
  <2>4. OpInv'
    BY <1>1, <1>5, <2>1, <2>2, GotoOp DEF OpInv, AfterInstance, Operations, Steps
  <2>5. MapsInv' /\ KnownInv'
    BY <1>1, <1>2, <1>5, <2>2, KillStep DEF GetInstance, Steps
  <2> QED BY <1>2, <1>3, <2>3, <2>4, <2>5 DEF Inv, TypeOK, Shrinks
<1>6. "forwarder" \in Errors /\ "leader" \in Errors
  BY DEF Errors
<1> QED BY <1>4, <1>5, <1>6 DEF GetInstance

LEMMA WritePidInv == ASSUME Inv, NEW p \in Procs, WritePid(p) PROVE Inv'
<1>1. /\ DaemonType /\ TypeOK /\ OpInv /\ lock = p /\ op[p].at = "pid"
      /\ Quiet /\ UNCHANGED <<ready, d2h, h2d>>
  BY DEF Inv, TypeOK, WritePid, At
<1>2. Shrinks
  BY <1>1, QuietShrinks
<1>3. OwnType'
  BY <1>1, ForwarderConstants DEF WritePid, TypeOK, OwnType
<1>4. CASE End(p, "leader")
  <2>1. OpType' /\ OpInv' /\ MapsInv' /\ KnownInv'
    BY <1>1, <1>2, <1>4, EndOp, KillStep DEF Errors
  <2> QED BY <1>2, <1>3, <2>1 DEF Inv, TypeOK, Shrinks
<1>5. CASE Goto(p, AfterInstance(p))
  <2>1. op[p].do \in Operations
    BY <1>1 DEF OpInv, TypeOK, OpType
  <2>2. AfterInstance(p) \in Steps \ {"clean", "none"}
    BY <2>1 DEF AfterInstance, Operations, Steps
  <2>3. OpType'
    BY <1>1, <1>5, <2>2, GotoOp
  <2>4. OpInv'
    BY <1>1, <1>5, <2>1, <2>2, GotoOp DEF OpInv, AfterInstance, Operations
  <2>5. MapsInv' /\ KnownInv'
    BY <1>1, <1>2, <1>5, <2>2, KillStep
  <2> QED BY <1>2, <1>3, <2>3, <2>4, <2>5 DEF Inv, TypeOK, Shrinks
<1> QED BY <1>4, <1>5 DEF WritePid

LEMMA InitDeviceInv == ASSUME Inv, NEW p \in Procs, InitDevice(p) PROVE Inv'
<1>1. /\ DaemonType /\ TypeOK /\ OpInv /\ lock = p /\ op[p].at = "device"
      /\ UNCHANGED <<pidFile, inst, d2h, h2d>>
  BY DEF Inv, TypeOK, InitDevice, At
<1>2. Shrinks
  BY <1>1, DeviceKilledShrinks, QuietShrinks DEF InitDevice
<1>3. op[p].do = "map" /\ op[p].dev \in Devices
  BY <1>1 DEF OpInv
<1>4. OwnType'
  BY <1>1, <1>3 DEF InitDevice, TypeOK, OwnType
<1>5. CASE End(p, "device")
  <2>1. OpType' /\ OpInv' /\ MapsInv' /\ KnownInv'
    BY <1>1, <1>2, <1>5, EndOp, KillStep DEF Errors
  <2> QED BY <1>2, <1>4, <2>1 DEF Inv, TypeOK, Shrinks
<1>6. CASE Goto(p, "map")
  <2>1. "map" \in Steps \ {"clean"}
    BY DEF Steps, Operations
  <2>2. OpType'
    BY <1>1, <1>6, <2>1, GotoOp
  <2>3. OpInv'
    BY <1>1, <1>3, <1>6, <2>1, GotoOp DEF OpInv
  <2>4. MapsInv' /\ KnownInv'
    BY <1>1, <1>2, <1>6, <2>1, KillStep
  <2> QED BY <1>2, <1>4, <2>2, <2>3, <2>4 DEF Inv, TypeOK, Shrinks
<1> QED BY <1>5, <1>6 DEF InitDevice

LEMMA MapPairInv == ASSUME Inv, NEW p \in Procs, MapPair(p) PROVE Inv'
<1> DEFINE d == op[p].dev
           s == op[p].pairs
           h == Head(s)[2]
           free == {e \in {d} \X (IF Head(s)[1] = Dynamic THEN DevicePorts
                                  ELSE {Head(s)[1]}) : fwd[e] = None}
<1>1. /\ DaemonType /\ TypeOK /\ OpInv /\ lock = p /\ op[p].at = "map" /\ s # <<>>
      /\ UNCHANGED <<pidFile, inst>>
  BY DEF Inv, TypeOK, MapPair, At
<1>2. d \in Devices /\ op[p].do = "map" /\ s \in PairLists
  BY <1>1 DEF OpInv, TypeOK, OpType
<1>3. Head(s) \in Pairs /\ h \in HostPorts /\ h # None
  BY <1>1, <1>2, PairListFacts, NoneFacts DEF Pairs
<1>4. free \subseteq Sockets
  BY <1>2, <1>3 DEF Pairs, Sockets
<1>5. ASSUME NEW e \in free, NEW F \in SUBSET {e},
             Forward([fwd EXCEPT ![e] = h], F)
      PROVE  /\ DaemonType' /\ fwd'[e] = h /\ fwd[e] = None
             /\ \A i \in Sockets : i # e => fwd'[i] = fwd[i]
             /\ \A i \in Sockets : i \in lost \cup F /\ fwd'[i] # None => i \in lost'
  <2>1. e \in Sockets /\ fwd[e] = None /\ F \in SUBSET Sockets
    BY <1>4
  <2>2. [fwd EXCEPT ![e] = h] \in [Sockets -> HostPorts \cup {None}]
    BY <1>1, <1>3, <2>1 DEF DaemonType
  <2>3. DaemonType'
    BY <1>1, <1>5, <2>1, <2>2, ForwardType
  <2> QED BY <1>1, <1>5, <2>1, <2>3 DEF DaemonType, Forward
<1>6. CASE \E e \in free :
             /\ Forward([fwd EXCEPT ![e] = h], {})
             /\ d2h' = [d2h EXCEPT ![p][e] = h]
             /\ h2d' = [h2d EXCEPT ![p][h] = e]
             /\ op' = [op EXCEPT ![p].pairs = Tail(@)]
             /\ UNCHANGED <<lock, raised, ready>>
  <2>1. PICK e \in free :
             /\ Forward([fwd EXCEPT ![e] = h], {})
             /\ d2h' = [d2h EXCEPT ![p][e] = h]
             /\ h2d' = [h2d EXCEPT ![p][h] = e]
             /\ op' = [op EXCEPT ![p].pairs = Tail(@)]
             /\ UNCHANGED <<lock, raised, ready>>
    BY <1>6
  <2>2. /\ DaemonType' /\ fwd'[e] = h /\ fwd[e] = None /\ e \in Sockets
        /\ \A i \in Sockets : i # e => fwd'[i] = fwd[i]
        /\ \A i \in Sockets : i \in lost /\ fwd'[i] # None => i \in lost'
    BY <1>4, <1>5, <2>1
  <2>3. OwnType'
    BY <1>1, <1>3, <2>1, <2>2 DEF TypeOK, OwnType
  <2>4. /\ \A q \in Procs :
             /\ op'[q].do = op[q].do /\ op'[q].at = op[q].at
             /\ op'[q].dev = op[q].dev /\ op'[q].port = op[q].port
             /\ q # p => op'[q] = op[q]
        /\ op'[p].pairs = Tail(s)
    BY <1>1, <2>1 DEF TypeOK, OpType
  <2>5. OpType'
    <3>1. OpType /\ op' = [op EXCEPT ![p].pairs = Tail(@)]
      BY <1>1, <2>1 DEF TypeOK
    <3>2. Tail(s) \in PairLists /\ Tail(s) = Tail(op[p].pairs)
      BY <1>1, <1>2, PairListFacts
    <3> DEFINE rest == Tail(s)
    <3>3. rest \in PairLists /\ op' = [op EXCEPT ![p].pairs = rest]
      BY <3>1, <3>2
    <3> HIDE DEF rest
    <3> DEFINE Op == [do : Operations \cup {"none"}, at : Steps,
                      dev : Devices \cup {None}, port : DevicePorts \cup {None},
                      pairs : PairLists]
               next == [op[p] EXCEPT !.pairs = rest]
    <3>4. op \in [Procs -> Op] /\ op' = [op EXCEPT ![p] = next]
      BY <3>1, <3>3 DEF OpType
    <3>5. next \in Op
      BY <3>3, <3>4
    <3> HIDE DEF Op, next
    <3>6. op' \in [Procs -> Op]
      BY <3>4, <3>5
    <3> QED BY <3>1, <3>6, <2>1 DEF OpType, Op
  <2>6. OpInv'
    BY <1>1, <2>4 DEF OpInv
  <2>7. /\ \A q \in Procs, i \in Sockets :
             d2h'[q][i] = IF q = p /\ i = e THEN h ELSE d2h[q][i]
        /\ \A q \in Procs, j \in HostPorts :
             h2d'[q][j] = IF q = p /\ j = h THEN e ELSE h2d[q][j]
    BY <1>1, <2>1 DEF TypeOK, OwnType
  <2>8. ~ShareHostPorts => \A i \in Sockets : d2h[p][i] # h
    BY <1>1, <1>2, PairListFacts DEF Inv, MapsInv, FreshPorts
  <2>9. MappedPortIsFound'
    BY <1>1, <1>3, <2>7, <2>8 DEF Inv, MapsInv, MappedPortIsFound, TypeOK, OwnType
  <2>10. FreshPorts(p)'
    <3> SUFFICES ASSUME ~ShareHostPorts, NEW i \in DOMAIN Tail(s)
                 PROVE  /\ \A k \in Sockets : d2h'[p][k] # Tail(s)[i][2]
                        /\ \A j \in DOMAIN Tail(s) :
                             i # j => Tail(s)[i][2] # Tail(s)[j][2]
      BY <2>4 DEF FreshPorts
    <3>1. \A k \in DOMAIN s :
            /\ \A n \in Sockets : d2h[p][n] # s[k][2]
            /\ \A j \in DOMAIN s : k # j => s[k][2] # s[j][2]
      BY <1>2 DEF Inv, MapsInv, FreshPorts
    <3>2. /\ h = s[1][2] /\ 1 \in DOMAIN s
          /\ \A k \in DOMAIN Tail(s) :
               k \in Nat /\ k + 1 \in DOMAIN s /\ k + 1 # 1 /\ Tail(s)[k] = s[k + 1]
      BY <1>1, <1>2, PairListFacts
    <3>3. \A k \in Sockets : d2h'[p][k] # Tail(s)[i][2]
      BY <2>7, <3>1, <3>2
    <3>4. \A j \in DOMAIN Tail(s) : i # j => Tail(s)[i][2] # Tail(s)[j][2]
      BY <3>1, <3>2
    <3> QED BY <3>3, <3>4
  <2>11. \A q \in Procs : q # p => FreshPorts(q)'
    BY <2>4, <2>7 DEF Inv, MapsInv, FreshPorts
  <2>12. ForwardsAreKnown'
    BY <2>2, <2>7 DEF Inv, KnownInv, ForwardsAreKnown
  <2>13. \A q \in Procs : ~At(q, "clean")'
    BY <1>1, <2>1, <2>4 DEF At
  <2>14. KnownInv'
    BY <2>12, <2>13 DEF KnownInv
  <2> QED BY <1>1, <2>2, <2>3, <2>5, <2>6, <2>9, <2>10, <2>11, <2>14
          DEF Inv, TypeOK, MapsInv
<1>7. CASE /\ \/ Quiet
              \/ \E e \in free : Forward([fwd EXCEPT ![e] = h], {e})
           /\ End(p, "forwarder") /\ UNCHANGED <<ready, d2h, h2d>>
  <2>1. OwnType'
    BY <1>1, <1>7 DEF TypeOK, OwnType
  <2>2. CASE Quiet
    <3>1. Shrinks
      BY <1>1, <2>2, QuietShrinks
    <3>2. OpType' /\ OpInv' /\ MapsInv' /\ KnownInv'
      BY <1>1, <1>7, <3>1, EndOp, KillStep DEF Errors
    <3> QED BY <2>1, <3>1, <3>2 DEF Inv, TypeOK, Shrinks
  <2>3. CASE \E e \in free : Forward([fwd EXCEPT ![e] = h], {e})
    <3>1. PICK e \in free : Forward([fwd EXCEPT ![e] = h], {e})
      BY <2>3
    <3>2. /\ DaemonType' /\ e \in Sockets
          /\ \A i \in Sockets : i # e => fwd'[i] = fwd[i]
          /\ \A i \in Sockets : i \in lost \cup {e} /\ fwd'[i] # None => i \in lost'
          /\ fwd'[e] # None
      BY <1>3, <1>4, <1>5, <3>1
    <3>3. /\ OpType' /\ OpInv' /\ lock' = None
          /\ \A q \in Procs : op'[q].do = "none" \/ op'[q] = op[q]
      BY <1>1, <1>7, EndOp DEF Errors
    <3>4. MapsInv'
      BY <1>1, <1>7, <3>3, MapsKept DEF Inv
    <3>5. KnownInv'
      BY <1>7, <3>2, <3>3, KnownKept, NoneFacts DEF Inv, At
    <3> QED BY <2>1, <3>2, <3>3, <3>4, <3>5 DEF Inv, TypeOK
  <2> QED BY <1>7, <2>2, <2>3
<1>8. CASE /\ ready' = [ready EXCEPT ![p] = @ \ {d}]
           /\ \/ DeviceKilled(d) /\ End(p, "forwarder")
              \/ DeviceMaybeKilled(d) /\ End(p, "unbound")
              \/ DeviceMaybeKilled(d) /\ End(p, "device")
           /\ UNCHANGED <<d2h, h2d>>
  <2>1. Shrinks
    BY <1>1, <1>8, DeviceKilledShrinks
  <2>2. OwnType'
    BY <1>1, <1>8 DEF TypeOK, OwnType
  <2>3. \E error \in Errors : End(p, error)
    BY <1>8 DEF Errors
  <2>4. OpType' /\ OpInv' /\ MapsInv' /\ KnownInv'
    BY <1>1, <1>8, <2>1, <2>3, EndOp, KillStep
  <2> QED BY <2>1, <2>2, <2>4 DEF Inv, TypeOK, Shrinks
<1> QED BY <1>6, <1>7, <1>8 DEF MapPair

LEMMA UnmapInv == ASSUME Inv, NEW p \in Procs, Unmap(p) PROVE Inv'
<1> DEFINE e == <<op[p].dev, op[p].port>>
           h == d2h[p][e]
           f == Without(fwd, {e})
<1>1. /\ DaemonType /\ TypeOK /\ OpInv /\ lock = p /\ op[p].at = "unmap"
      /\ UNCHANGED <<pidFile, inst, ready>>
  BY DEF Inv, TypeOK, Unmap, At
<1>2. e \in Sockets /\ h \in HostPorts \cup {None}
  BY <1>1 DEF OpInv, TypeOK, OwnType, Sockets
<1>3. \E error \in Errors : End(p, error)
  BY DEF Unmap, Errors
<1>4. /\ OpType' /\ OpInv' /\ lock' = None
      /\ \A q \in Procs : op'[q].do = "none" \/ op'[q] = op[q]
  BY <1>1, <1>3, EndOp
<1>5. CASE h = None /\ Quiet /\ UNCHANGED <<d2h, h2d>>
  <2>1. Shrinks
    BY <1>1, <1>5, QuietShrinks
  <2>2. MapsInv' /\ KnownInv'
    BY <1>1, <1>3, <1>5, <2>1, KillStep
  <2> QED BY <1>1, <1>4, <1>5, <2>1, <2>2 DEF Inv, TypeOK, OwnType, Shrinks
<1>6. CASE /\ h # None
           /\ d2h' = [d2h EXCEPT ![p][e] = None]
           /\ h2d' = h2d \/ h2d' = [h2d EXCEPT ![p][h] = None]
           /\ Forward(fwd, {e}) \/ Forward(f, {})
  <2>1. /\ Shrinks
        /\ fwd'[e] # None => e \in lost'
    <3>1. CASE Forward(fwd, {e})
      BY <1>1, <1>2, <3>1, ForwardShrinks DEF DaemonType
    <3>2. CASE Forward(f, {})
      <4>1. /\ f \in [Sockets -> HostPorts \cup {None}] /\ f[e] = None
            /\ \A i \in Sockets : f[i] \in {fwd[i], None}
        BY <1>1, <1>2, WithoutFacts
      <4>2. fwd' = f
        BY <3>2 DEF Forward
      <4>3. {} \in SUBSET Sockets /\ DaemonType
        BY <1>1
      <4> HIDE DEF f
      <4>4. Shrinks
        BY <3>2, <4>1, <4>3, ForwardShrinks
      <4> QED BY <1>2, <4>1, <4>2, <4>4
    <3> QED BY <1>6, <3>1, <3>2
  <2>2. /\ \A q \in Procs, i \in Sockets :
             d2h'[q][i] = IF q = p /\ i = e THEN None ELSE d2h[q][i]
        /\ \A q \in Procs, j \in HostPorts :
             q # p \/ j # h => h2d'[q][j] = h2d[q][j]
    <3>1. d2h \in [Procs -> [Sockets -> HostPorts \cup {None}]]
      BY <1>1 DEF TypeOK, OwnType
    <3>2. h2d \in [Procs -> [HostPorts -> Sockets \cup {None}]]
      BY <1>1 DEF TypeOK, OwnType
    <3> HIDE DEF e, h
    <3>3. \A q \in Procs, i \in Sockets :
            d2h'[q][i] = IF q = p /\ i = e THEN None ELSE d2h[q][i]
      BY <1>2, <1>6, <3>1
    <3>4. \A q \in Procs, j \in HostPorts :
            q # p \/ j # h => h2d'[q][j] = h2d[q][j]
      BY <1>2, <1>6, <3>2
    <3> QED BY <3>3, <3>4
  <2>3. OwnType'
    <3>1. d2h' \in [Procs -> [Sockets -> HostPorts \cup {None}]]
      BY <1>1, <1>6 DEF TypeOK, OwnType
    <3>2. h2d \in [Procs -> [HostPorts -> Sockets \cup {None}]]
      BY <1>1 DEF TypeOK, OwnType
    <3>3. [h2d EXCEPT ![p][h] = None] \in [Procs -> [HostPorts -> Sockets \cup {None}]]
      BY <3>2
    <3>4. h2d' \in [Procs -> [HostPorts -> Sockets \cup {None}]]
      BY <1>6, <3>2, <3>3
    <3> QED BY <1>1, <3>1, <3>4 DEF TypeOK, OwnType
  <2>4. ShareHostPorts \/ \A i \in Sockets : i # e => d2h[p][i] # h
    BY <1>2, <1>6 DEF Inv, MapsInv, MappedPortIsFound
  <2>5. MapsInv'
    <3>1. CASE ShareHostPorts
      BY <3>1 DEF MapsInv, MappedPortIsFound, FreshPorts
    <3>2. CASE ~ShareHostPorts
      <4>1. \A q \in Procs, i \in Sockets :
              d2h'[q][i] # None => h2d'[q][d2h[q][i]] = h2d[q][d2h[q][i]]
        <5> SUFFICES ASSUME NEW q \in Procs, NEW i \in Sockets, d2h'[q][i] # None
                     PROVE  h2d'[q][d2h[q][i]] = h2d[q][d2h[q][i]]
          OBVIOUS
        <5>1. d2h'[q][i] = d2h[q][i] /\ (q # p \/ i # e)
          BY <2>2
        <5>2. d2h[q][i] \in HostPorts
          BY <1>1, <5>1 DEF TypeOK, OwnType
        <5>3. q # p \/ d2h[q][i] # h
          BY <2>4, <3>2, <5>1
        <5> QED BY <2>2, <5>2, <5>3
      <4> QED BY <1>1, <1>4, <2>2, <4>1, MapsKept DEF Inv
    <3> QED BY <3>1, <3>2
  <2>6. KnownInv'
    BY <1>4, <2>1, <2>2, KnownKept, NoneFacts DEF Inv, Shrinks, At
  <2> QED BY <1>4, <2>1, <2>3, <2>5, <2>6 DEF Inv, TypeOK, Shrinks
<1> QED BY <1>5, <1>6 DEF Unmap

LEMMA UnmapAllInv == ASSUME Inv, NEW p \in Procs, UnmapAll(p) PROVE Inv'
<1> DEFINE d == op[p].dev
<1>1. /\ DaemonType /\ TypeOK /\ OpInv /\ lock = p /\ op[p].at = "unmapAll"
      /\ UNCHANGED <<pidFile, inst, ready, d2h, h2d>>
  BY DEF Inv, TypeOK, UnmapAll, At, own
<1>2. Shrinks
  BY <1>1, DeviceKilledShrinks DEF UnmapAll
<1>3. OwnType'
  BY <1>1 DEF TypeOK, OwnType
<1>4. CASE End(p, "forwarder")
  <2>1. OpType' /\ OpInv' /\ MapsInv' /\ KnownInv'
    BY <1>1, <1>2, <1>4, EndOp, KillStep DEF Errors
  <2> QED BY <1>2, <1>3, <2>1 DEF Inv, TypeOK, Shrinks
<1>5. CASE DeviceKilled(d) /\ Goto(p, "clean")
  <2>1. /\ OpType' /\ lock' = p /\ op'[p].at = "clean" /\ op'[p].dev = d
        /\ \A q \in Procs :
             /\ op'[q].do = op[q].do /\ op'[q].pairs = op[q].pairs
             /\ op'[q].dev = op[q].dev /\ op'[q].port = op[q].port
             /\ q # p => op'[q] = op[q]
    <3>1. "clean" \in Steps
      BY DEF Steps
    <3> QED BY <1>1, <1>5, <3>1, GotoOp
  <2>2. OpInv'
    <3>1. op[p].do = "unmapAll"
      BY <1>1 DEF OpInv
    <3> QED BY <1>1, <2>1, <3>1 DEF OpInv
  <2>3. MapsInv'
    <3>1. \A q \in Procs, e \in Sockets : d2h'[q][e] = d2h[q][e] /\ h2d' = h2d
      BY <1>1
    <3>2. \A q \in Procs : op'[q].do = op[q].do /\ op'[q].pairs = op[q].pairs
      BY <2>1
    <3> QED BY <1>1, <3>1, <3>2, MapsKept DEF Inv
  <2>4. \A e \in OfDevice(d) : fwd'[e] = None
    BY <1>1, <1>5, DeviceGone
  <2>5. KnownInv'
    BY <1>1, <1>2, <2>1, <2>4, KnownKept DEF Inv, Shrinks, At
  <2> QED BY <1>2, <1>3, <2>1, <2>2, <2>3, <2>5 DEF Inv, TypeOK, Shrinks
<1> QED BY <1>4, <1>5 DEF UnmapAll

LEMMA CleanEntryInv == ASSUME Inv, NEW p \in Procs, CleanEntry(p) PROVE Inv'
<1>1. /\ DaemonType /\ TypeOK /\ OpInv /\ lock = p /\ op[p].at = "clean"
      /\ UNCHANGED <<pidFile, inst, ready>> /\ Quiet
  BY DEF Inv, TypeOK, CleanEntry, At
<1>2. Shrinks /\ UNCHANGED <<fwd, lost>>
  BY <1>1, QuietShrinks DEF Quiet
<1>3. PICK e \in Entries(p) :
        /\ d2h' = [d2h EXCEPT ![p][e] = None]
        /\ h2d' = [h2d EXCEPT ![p][d2h[p][e]] = None]
        /\ End(p, "key") \/ Goto(p, "clean")
  BY DEF CleanEntry
<1>4. /\ e \in Sockets /\ e \in OfDevice(op[p].dev) /\ d2h[p][e] \in HostPorts
  BY <1>1 DEF Entries, OfDevice, TypeOK, OwnType
<1>5. /\ OpType'
      /\ \A q \in Procs :
           \/ op'[q].do = "none"
           \/ op'[q].do = op[q].do /\ op'[q].pairs = op[q].pairs
      /\ \/ lock' = None
         \/ lock' = p /\ op'[p].dev = op[p].dev
  <2>1. CASE End(p, "key")
    BY <1>1, <2>1, EndOp DEF Errors
  <2>2. CASE Goto(p, "clean")
    <3>1. "clean" \in Steps
      BY DEF Steps
    <3> QED BY <1>1, <2>2, <3>1, GotoOp
  <2> QED BY <1>3, <2>1, <2>2
<1>6. OpInv'
  <2>1. CASE End(p, "key")
    BY <1>1, <2>1, EndOp DEF Errors
  <2>2. CASE Goto(p, "clean")
    BY <1>1, <2>2, GotoOp DEF OpInv, Steps
  <2> QED BY <1>3, <2>1, <2>2
<1>7. /\ \A q \in Procs, i \in Sockets :
           d2h'[q][i] = IF q = p /\ i = e THEN None ELSE d2h[q][i]
      /\ \A q \in Procs, j \in HostPorts :
           q # p \/ j # d2h[p][e] => h2d'[q][j] = h2d[q][j]
  BY <1>1, <1>3, <1>4 DEF TypeOK, OwnType
<1>8. OwnType'
  BY <1>1, <1>3, <1>4 DEF TypeOK, OwnType
<1>9. MapsInv'
  <2>1. CASE ShareHostPorts
    BY <2>1 DEF MapsInv, MappedPortIsFound, FreshPorts
  <2>2. CASE ~ShareHostPorts
    <3>1. \A i \in Sockets : i # e => d2h[p][i] # d2h[p][e]
      BY <1>4, <2>2, NoneFacts DEF Inv, MapsInv, MappedPortIsFound
    <3>2. \A q \in Procs, i \in Sockets :
            d2h'[q][i] # None => h2d'[q][d2h[q][i]] = h2d[q][d2h[q][i]]
      BY <1>1, <1>7, <3>1 DEF TypeOK, OwnType
    <3> QED BY <1>1, <1>5, <1>7, <3>2, MapsKept DEF Inv
  <2> QED BY <2>1, <2>2
<1>10. fwd[e] = None
  BY <1>1, <1>4 DEF Inv, KnownInv, At
<1>11. \A q \in Procs : At(q, "clean")' => At(q, "clean") /\ op'[q].dev = op[q].dev
  BY <1>1, <1>5, NoneFacts DEF At
<1>12. KnownInv'
  BY <1>2, <1>7, <1>10, <1>11, KnownKept DEF Inv, OfDevice
<1> QED BY <1>2, <1>5, <1>6, <1>8, <1>9, <1>12 DEF Inv, TypeOK, Shrinks

(* The steps that only kill a daemon, look or end.                         *)
LEMMA CleanDoneInv == ASSUME Inv, NEW p \in Procs, CleanDone(p) PROVE Inv'
<1>1. /\ DaemonType /\ TypeOK /\ OpInv /\ lock = p /\ op[p].at = "clean"
      /\ UNCHANGED <<pidFile, inst, ready, d2h, h2d>> /\ Quiet /\ Goto(p, "kill")
  BY DEF Inv, TypeOK, CleanDone, At, own
<1>2. Shrinks
  BY <1>1, QuietShrinks
<1>3. "kill" \in Steps \ {"clean"}
  BY DEF Steps
<1>4. OpType' /\ OpInv'
  BY <1>1, <1>3, GotoOp DEF OpInv
<1>5. MapsInv' /\ KnownInv'
  BY <1>1, <1>2, <1>3, KillStep
<1>6. OwnType'
  BY <1>1 DEF TypeOK, OwnType
<1> QED BY <1>2, <1>4, <1>5, <1>6 DEF Inv, TypeOK, Shrinks

LEMMA LastStepInv ==
    ASSUME Inv, NEW p \in Procs,
           MapDone(p) \/ KillDevice(p) \/ KillHost(p) \/ Query(p)
    PROVE  Inv'
<1>1. /\ DaemonType /\ TypeOK /\ OpInv /\ lock = p
      /\ UNCHANGED <<pidFile, inst, d2h, h2d>>
  BY DEF Inv, TypeOK, MapDone, KillDevice, KillHost, Query, At, own
<1>2. ready' \in [Procs -> SUBSET Devices]
  BY <1>1 DEF TypeOK, OwnType, MapDone, KillDevice, KillHost, Query, own
<1>3. Shrinks
  BY <1>1, QuietShrinks, DeviceKilledShrinks, HostKilledShrinks
  DEF MapDone, KillDevice, KillHost, Query
<1>4. \E error \in Errors : End(p, error)
  BY DEF MapDone, KillDevice, KillHost, Query, Errors
<1>5. OpType' /\ OpInv'
  BY <1>1, <1>4, EndOp
<1>6. MapsInv' /\ KnownInv'
  BY <1>1, <1>3, <1>4, KillStep
<1>7. OwnType'
  BY <1>1, <1>2 DEF TypeOK, OwnType
<1> QED BY <1>3, <1>5, <1>6, <1>7 DEF Inv, TypeOK, Shrinks

LEMMA DieInv == ASSUME Inv, NEW p \in Procs, Die(p) PROVE Inv'
<1> DEFINE F == {e \in Sockets : d2h[p][e] # None}
<1>1. /\ DaemonType /\ TypeOK /\ OpInv /\ UNCHANGED pidFile /\ Forward(fwd, F)
      /\ lock' = IF lock = p THEN None ELSE lock
      /\ op' = [op EXCEPT ![p] = Idle] /\ raised' = [raised EXCEPT ![p] = "none"]
      /\ inst' = inst \ {p} /\ ready' = [ready EXCEPT ![p] = {}]
      /\ d2h' = [d2h EXCEPT ![p] = NoForwards] /\ h2d' = [h2d EXCEPT ![p] = NoSockets]
  BY DEF Inv, TypeOK, Die
<1>2. Shrinks /\ \A e \in F : fwd'[e] # None => e \in lost'
  BY <1>1, ForwardShrinks DEF DaemonType
<1>3. OpType'
  BY <1>1, PairListFacts DEF TypeOK, OpType, Idle, Steps, Errors
<1>4. OwnType'
  BY <1>1 DEF TypeOK, OwnType, NoForwards, NoSockets
<1>5. \A q \in Procs : op'[q] = IF q = p THEN Idle ELSE op[q]
  BY <1>1 DEF TypeOK, OpType
<1>6. OpInv'
  BY <1>1, <1>5 DEF OpInv, Idle
<1>7. \A q \in Procs, i \in Sockets :
        /\ d2h'[q][i] = IF q = p THEN None ELSE d2h[q][i]
        /\ q # p => h2d'[q] = h2d[q]
  BY <1>1 DEF TypeOK, OwnType, NoForwards
<1>8. MapsInv'
  BY <1>1, <1>5, <1>7, MapsKept DEF Inv, Idle
<1>9. \A q \in Procs : At(q, "clean")' => At(q, "clean") /\ op'[q].dev = op[q].dev
  BY <1>1, <1>5, NoneFacts DEF At, Idle
<1>10. KnownInv'
  BY <1>2, <1>7, <1>9, KnownKept DEF Inv, Shrinks, OfDevice
<1> QED BY <1>2, <1>3, <1>4, <1>6, <1>8, <1>10 DEF Inv, TypeOK, Shrinks

LEMMA NextInv == Inv /\ [Next]_vars => Inv'
<1> HAVE Inv /\ [Next]_vars
<1>1. CASE UNCHANGED vars
  BY <1>1 DEF Inv, vars, TypeOK, OpType, OwnType, DaemonType, OpInv, MapsInv,
     MappedPortIsFound, FreshPorts, KnownInv, ForwardsAreKnown, At
<1>2. CASE Next
  BY <1>2, BeginInv, GetInstanceInv, WritePidInv, InitDeviceInv, MapPairInv, UnmapInv,
     UnmapAllInv, CleanEntryInv, CleanDoneInv, LastStepInv, DieInv DEF Next
<1> QED BY <1>1, <1>2

LEMMA SpecInv == Spec => []Inv
BY InitInv, NextInv, PTL DEF Spec

-----------------------------------------------------------------------------
(* Every variable keeps its type.                                          *)
THEOREM ForwarderTypeOK == Spec => []TypeOK
<1>1. Inv => TypeOK
  BY DEF Inv
<1> QED BY <1>1, SpecInv, PTL

(* If callers reuse no host port that has an entry, a host port's entry is *)
(* that of the device port forwarded to it, whatever fails or dies.        *)
THEOREM ForwarderPortIsFound == Spec => []MappedPortIsFound
<1>1. Inv => MappedPortIsFound
  BY DEF Inv, MapsInv
<1> QED BY <1>1, SpecInv, PTL

(* What the daemons forward some process has an entry for, unless it died  *)
(* or an operation on that port failed.                                    *)
THEOREM ForwarderKnown == Spec => []ForwardsAreKnown
<1>1. Inv => ForwardsAreKnown
  BY DEF Inv, KnownInv
<1> QED BY <1>1, SpecInv, PTL

(* A step takes down no forwarding of another device than its operation's  *)
(* unless it kills the host daemon on demand or for a new group.           *)
THEOREM ForwarderOtherDevices == Spec => OtherDevicesKeepTheirs
<1> DEFINE Keep == \A e \in Sockets :
                     fwd[e] # None /\ fwd'[e] = None /\ lock # None =>
                       \/ op[lock].dev = e[1]
                       \/ op[lock].do = "killHost"
                       \/ pidFile # Group[lock]
<1>1. ASSUME Inv, Next PROVE Keep
  <2>1. PICK p \in Procs :
          \/ \E o \in Requests : Begin(p, o)
          \/ GetInstance(p) \/ WritePid(p) \/ InitDevice(p)
          \/ MapPair(p) \/ MapDone(p)
          \/ Unmap(p) \/ UnmapAll(p) \/ CleanEntry(p) \/ CleanDone(p)
          \/ KillDevice(p) \/ KillHost(p) \/ Query(p)
          \/ Die(p)
    BY <1>1 DEF Next
  <2>2. DaemonType /\ OpInv
    BY <1>1 DEF Inv, TypeOK
  <2>3. CASE fwd' = fwd
    BY <2>3
  <2>4. CASE GetInstance(p) /\ fwd' # fwd
    BY <2>4 DEF GetInstance, At, Quiet
  <2>5. CASE KillHost(p)
    BY <2>2, <2>5 DEF KillHost, At, OpInv
  <2>6. CASE lock = p /\ (DeviceKilled(op[p].dev) \/ DeviceMaybeKilled(op[p].dev))
    BY <2>2, <2>6 DEF DeviceMaybeKilled, DeviceKilled, Forward, Quiet, Without, OfDevice
  <2>7. CASE Unmap(p)
    <3>1. lock = p /\ (fwd' = fwd \/ fwd' = Without(fwd, {<<op[p].dev, op[p].port>>}))
      BY <2>7 DEF Unmap, At, Forward, Quiet
    <3> QED BY <3>1 DEF Without
  <2>8. CASE lock = p /\ \E e \in Sockets, h \in HostPorts : fwd' = [fwd EXCEPT ![e] = h]
    BY <2>2, <2>8, NoneFacts DEF DaemonType
  <2>9. CASE MapPair(p)
    <3>1. op[p].dev \in Devices /\ op[p].pairs \in PairLists /\ op[p].pairs # <<>>
      BY <1>1, <2>9 DEF Inv, TypeOK, OpType, OpInv, MapPair, At
    <3>2. Head(op[p].pairs) \in Pairs
      BY <3>1, PairListFacts
    <3>3. \A e \in {op[p].dev} \X (IF Head(op[p].pairs)[1] = Dynamic THEN DevicePorts
                                   ELSE {Head(op[p].pairs)[1]}) : e \in Sockets
      BY <3>1, <3>2 DEF Pairs, Sockets
    <3>4. Head(op[p].pairs)[2] \in HostPorts
      BY <3>2 DEF Pairs
    <3>5. \/ fwd' = fwd
          \/ \E e \in Sockets : fwd' = [fwd EXCEPT ![e] = Head(op[p].pairs)[2]]
          \/ DeviceKilled(op[p].dev) \/ DeviceMaybeKilled(op[p].dev)
      BY <2>9, <3>3 DEF MapPair, Forward, Quiet
    <3>6. lock = p
      BY <2>9 DEF MapPair, At
    <3> QED BY <2>3, <2>6, <2>8, <3>4, <3>5, <3>6
  <2>10. CASE InitDevice(p) \/ UnmapAll(p) \/ KillDevice(p)
    <3>1. lock = p /\ (fwd' = fwd \/ DeviceKilled(op[p].dev)
                                 \/ DeviceMaybeKilled(op[p].dev))
      BY <2>10 DEF InitDevice, UnmapAll, KillDevice, At, Quiet
    <3> QED BY <2>3, <2>6, <3>1
  <2>11. CASE \/ \E o \in Requests : Begin(p, o)
              \/ WritePid(p) \/ MapDone(p) \/ CleanEntry(p) \/ CleanDone(p)
              \/ Query(p) \/ Die(p)
    <3>1. fwd' = fwd
      BY <2>11 DEF Begin, WritePid, MapDone, CleanEntry, CleanDone, Query, Die, Quiet, Forward
    <3> QED BY <2>3, <3>1
  <2> QED BY <2>1, <2>3, <2>4, <2>5, <2>7, <2>9, <2>10, <2>11
<1>2. Inv /\ [Next]_vars => [Keep]_vars
  BY <1>1
<1> QED BY <1>2, SpecInv, PTL DEF Spec, OtherDevicesKeepTheirs

-----------------------------------------------------------------------------
(* When UnmapAllDevicePorts comes to kill the device daemon, no entry of   *)
(* the device is left.                                                     *)
Cleaned(p) == op[p].do = "unmapAll" /\ op[p].at = "kill" => Entries(p) = {}
CleanInv == \A p \in Procs : Cleaned(p)

(* A step of another process changes nothing of this one.                  *)
LEMMA OthersStay ==
    ASSUME TypeOK, NEW p \in Procs, NEW q \in Procs, q # p,
           \/ \E o \in Requests : Begin(q, o)
           \/ GetInstance(q) \/ WritePid(q) \/ InitDevice(q)
           \/ MapPair(q) \/ MapDone(q)
           \/ Unmap(q) \/ UnmapAll(q) \/ CleanEntry(q) \/ CleanDone(q)
           \/ KillDevice(q) \/ KillHost(q) \/ Query(q)
           \/ Die(q)
    PROVE  op'[p] = op[p] /\ d2h'[p] = d2h[p]
<1>1. op' = op \/ \E o : op' = [op EXCEPT ![q] = o]
  <2>1. \A where : Goto(q, where) => \E o : op' = [op EXCEPT ![q] = o]
    BY DEF Goto
  <2>2. \A error : End(q, error) => \E o : op' = [op EXCEPT ![q] = o]
    BY DEF End
  <2>3. CASE \/ \E o \in Requests : Begin(q, o)
             \/ MapPair(q) \/ Die(q)
    BY <2>2, <2>3 DEF Begin, MapPair, Die
  <2>4. CASE \/ GetInstance(q) \/ WritePid(q) \/ InitDevice(q) \/ MapDone(q)
             \/ Unmap(q) \/ UnmapAll(q) \/ CleanEntry(q) \/ CleanDone(q)
             \/ KillDevice(q) \/ KillHost(q) \/ Query(q)
    BY <2>1, <2>2, <2>4 DEF GetInstance, WritePid, InitDevice, MapDone, Unmap, UnmapAll,
       CleanEntry, CleanDone, KillDevice, KillHost, Query
  <2> QED BY <2>3, <2>4
<1>2. d2h' = d2h \/ \E m : d2h' = [d2h EXCEPT ![q] = m]
  BY DEF Begin, GetInstance, WritePid, InitDevice, MapPair, MapDone, Unmap, UnmapAll,
     CleanEntry, CleanDone, KillDevice, KillHost, Query, Die, own
<1> QED BY <1>1, <1>2 DEF TypeOK, OpType, OwnType

LEMMA CleanStep == Inv /\ CleanInv /\ [Next]_vars => CleanInv'
<1> SUFFICES ASSUME Inv, CleanInv, [Next]_vars, NEW p \in Procs PROVE Cleaned(p)'
  BY DEF CleanInv
<1>1. TypeOK /\ OpInv /\ Cleaned(p)
  BY DEF Inv, CleanInv
<1>2. CASE op'[p] = op[p] /\ d2h'[p] = d2h[p]
  BY <1>1, <1>2 DEF Cleaned, Entries
<1>3. CASE UNCHANGED vars
  BY <1>2, <1>3 DEF vars
<1>4. \A where : Goto(p, where) => op'[p].at = where /\ op'[p].do = op[p].do /\ op'[p].dev = op[p].dev
  BY <1>1 DEF Goto, TypeOK, OpType
<1>5. \A error : End(p, error) => op'[p] = Idle
  BY <1>1 DEF End, TypeOK, OpType
<1>6. Idle.do = "none"
  BY DEF Idle
<1>7. CASE \E o \in Requests : Begin(p, o)
  <2>1. PICK o \in Requests : Begin(p, o)
    BY <1>7
  <2>2. op'[p] = o /\ o.at = "instance"
    BY <1>1, <2>1 DEF Begin, Requests, TypeOK, OpType
  <2> QED BY <2>2 DEF Cleaned
<1>8. CASE GetInstance(p) \/ WritePid(p)
  <2>1. \/ op'[p].at = "pid" \/ op'[p] = Idle
        \/ op'[p].do = op[p].do /\ op'[p].at = AfterInstance(p)
    BY <1>4, <1>5, <1>8 DEF GetInstance, WritePid
  <2>2. op[p].do = "unmapAll" => AfterInstance(p) = "unmapAll"
    BY DEF AfterInstance
  <2> QED BY <1>6, <2>1, <2>2 DEF Cleaned
<1>9. CASE InitDevice(p) \/ MapDone(p) \/ UnmapAll(p) \/ Unmap(p)
  <2>1. op'[p].at \in {"map", "clean"} \/ op'[p] = Idle
    BY <1>4, <1>5, <1>9 DEF InitDevice, MapDone, UnmapAll, Unmap
  <2> QED BY <1>6, <2>1 DEF Cleaned
<1>10. CASE MapPair(p)
  <2>1. op[p].do = "map" /\ op \in [Procs -> [do : Operations \cup {"none"}, at : Steps,
                         dev : Devices \cup {None}, port : DevicePorts \cup {None},
                         pairs : PairLists]]
    BY <1>1, <1>10 DEF MapPair, At, OpInv, TypeOK, OpType
  <2>2. op' = [op EXCEPT ![p].pairs = Tail(@)] \/ \E error : End(p, error)
    BY <1>10 DEF MapPair
  <2>3. op'[p].do = "map" \/ op'[p] = Idle
    BY <1>5, <2>1, <2>2
  <2> QED BY <1>6, <2>3 DEF Cleaned
<1>11. CASE CleanEntry(p)
  <2>1. op'[p].at = "clean" \/ op'[p] = Idle
    BY <1>4, <1>5, <1>11 DEF CleanEntry
  <2> QED BY <1>6, <2>1 DEF Cleaned
<1>12. CASE CleanDone(p)
  <2>1. op'[p].dev = op[p].dev /\ d2h' = d2h /\ Entries(p) = {}
    BY <1>4, <1>12 DEF CleanDone, own
  <2> QED BY <2>1 DEF Cleaned, Entries
<1>13. CASE KillDevice(p) \/ KillHost(p) \/ Query(p) \/ Die(p)
  <2>1. op'[p] = Idle
    BY <1>1, <1>5, <1>13 DEF KillDevice, KillHost, Query, Die, TypeOK, OpType
  <2> QED BY <1>6, <2>1 DEF Cleaned
<1>14. ASSUME NEW q \in Procs, q # p,
              \/ \E o \in Requests : Begin(q, o)
              \/ GetInstance(q) \/ WritePid(q) \/ InitDevice(q)
              \/ MapPair(q) \/ MapDone(q)
              \/ Unmap(q) \/ UnmapAll(q) \/ CleanEntry(q) \/ CleanDone(q)
              \/ KillDevice(q) \/ KillHost(q) \/ Query(q)
              \/ Die(q)
       PROVE  Cleaned(p)'
  BY <1>1, <1>2, <1>14, OthersStay
<1> QED BY <1>3, <1>7, <1>8, <1>9, <1>10, <1>11, <1>12, <1>13, <1>14 DEF Next

(* UnmapAllDevicePorts that returns has left nothing of the device: no     *)
(* entry in its process, and nothing that the daemons forward.             *)
THEOREM ForwarderNothingIsLeft == Spec => NothingIsLeft
<1> DEFINE Empty ==
    \A p \in Procs :
         /\ op[p].do = "unmapAll" /\ op'[p] = Idle
         /\ p \in inst' /\ raised'[p] = "none"
         => \A e \in OfDevice(op[p].dev) : d2h'[p][e] = None /\ fwd'[e] = None
<1>1. ASSUME Inv, CleanInv, Next PROVE Empty
  <2> SUFFICES ASSUME NEW p \in Procs, op[p].do = "unmapAll", op'[p] = Idle,
                      p \in inst', raised'[p] = "none", NEW e \in OfDevice(op[p].dev)
               PROVE  d2h'[p][e] = None /\ fwd'[e] = None
    OBVIOUS
  <2>1. TypeOK /\ OpInv /\ Cleaned(p) /\ e \in Sockets
    BY <1>1 DEF Inv, CleanInv, OfDevice
  <2>2. op[p] # Idle
    BY DEF Idle
  <2>3. PICK q \in Procs :
          \/ \E o \in Requests : Begin(q, o)
          \/ GetInstance(q) \/ WritePid(q) \/ InitDevice(q)
          \/ MapPair(q) \/ MapDone(q)
          \/ Unmap(q) \/ UnmapAll(q) \/ CleanEntry(q) \/ CleanDone(q)
          \/ KillDevice(q) \/ KillHost(q) \/ Query(q)
          \/ Die(q)
    BY <1>1 DEF Next
  <2>4. q = p
    BY <2>1, <2>2, <2>3, OthersStay
  <2>5. \A error : End(p, error) => error = "none"
    BY <2>1 DEF End, TypeOK, OpType
  <2>6. \A where : Goto(p, where) => where = "none"
    BY <2>1 DEF Goto, Idle, TypeOK, OpType
  <2>7. AfterInstance(p) # "none"
    BY DEF AfterInstance
  <2>8. ~\E o \in Requests : Begin(p, o)
    BY <2>2 DEF Begin
  <2>9. ~GetInstance(p) /\ ~WritePid(p) /\ ~UnmapAll(p) /\ ~CleanEntry(p) /\ ~CleanDone(p)
    BY <2>5, <2>6, <2>7 DEF GetInstance, WritePid, UnmapAll, CleanEntry, CleanDone
  <2>10. ~InitDevice(p) /\ ~MapPair(p) /\ ~MapDone(p) /\ ~Unmap(p) /\ ~KillHost(p) /\ ~Query(p)
    <3>1. op[p].at \notin {"device", "map", "unmap", "killHost", "query"}
      BY <2>1 DEF OpInv
    <3> QED BY <3>1 DEF InitDevice, MapPair, MapDone, Unmap, KillHost, Query, At
  <2>11. ~Die(p)
    BY DEF Die
  <2>12. KillDevice(p)
    BY <2>3, <2>4, <2>8, <2>9, <2>10, <2>11
  <2>13. d2h' = d2h /\ fwd' = Without(fwd, OfDevice(op[p].dev)) /\ Entries(p) = {}
    BY <2>1, <2>5, <2>12 DEF KillDevice, DeviceKilled, Forward, At, Cleaned
  <2> QED BY <2>1, <2>13 DEF Without, Entries
<1>2. Inv /\ CleanInv /\ [Next]_vars => [Empty]_vars
  BY <1>1
<1>3. Init => CleanInv
  BY DEF Init, CleanInv, Cleaned, Idle
<1> QED BY <1>2, <1>3, SpecInv, CleanStep, PTL DEF Spec, NothingIsLeft

-----------------------------------------------------------------------------
(* Which callers can meet a KeyError: a step raises one only if it takes   *)
(* out an entry whose host port has none, and the host ports of different  *)
(* entries differ as long as no caller maps one that has an entry.         *)
NoKeyError == ~ShareHostPorts => UnmapFindsItsEntries

(* An entry of the device map has its entry in the host map.               *)
LEMMA EntryHasItsPort ==
    ASSUME Inv, ~ShareHostPorts, NEW p \in Procs, NEW e \in Sockets, d2h[p][e] # None
    PROVE  h2d[p][d2h[p][e]] # None
<1>1. h2d[p][d2h[p][e]] = e
  BY DEF Inv, MapsInv, MappedPortIsFound
<1> QED BY <1>1, NoneFacts

(* Every step but those of an unmap ends without a KeyError or goes on.    *)
LEMMA RaisesNoKey ==
    ASSUME Inv, NEW p \in Procs,
           \/ raised' = raised
           \/ raised' = [raised EXCEPT ![p] = "none"]
           \/ \E error \in Errors \ {"key"} : raised' = [raised EXCEPT ![p] = error]
    PROVE  UnmapFindsItsEntries => UnmapFindsItsEntries'
<1>1. raised \in [Procs -> Errors]
  BY DEF Inv, TypeOK, OpType
<1> QED BY <1>1 DEF UnmapFindsItsEntries, Errors

LEMMA NoKeyErrorStep == Inv /\ NoKeyError /\ [Next]_vars => NoKeyError'
<1> SUFFICES ASSUME Inv, UnmapFindsItsEntries, ~ShareHostPorts, [Next]_vars
             PROVE  UnmapFindsItsEntries'
  BY DEF NoKeyError
<1>1. CASE UNCHANGED vars
  BY <1>1 DEF vars, UnmapFindsItsEntries
<1>2. ASSUME NEW p \in Procs, NEW o \in Requests, Begin(p, o)
      PROVE  UnmapFindsItsEntries'
  BY <1>2, RaisesNoKey DEF Begin
<1>3. ASSUME NEW p \in Procs, GetInstance(p) \/ WritePid(p) \/ InitDevice(p)
      PROVE  UnmapFindsItsEntries'
  BY <1>3, RaisesNoKey DEF GetInstance, WritePid, InitDevice, Goto, End, Errors
<1>4. ASSUME NEW p \in Procs, MapPair(p) \/ MapDone(p)
      PROVE  UnmapFindsItsEntries'
  BY <1>4, RaisesNoKey DEF MapPair, MapDone, End, Errors
<1>5. ASSUME NEW p \in Procs, Unmap(p)
      PROVE  UnmapFindsItsEntries'
  <2> DEFINE e == <<op[p].dev, op[p].port>>
  <2>1. e \in Sockets
    BY <1>5 DEF Inv, OpInv, Unmap, At, Sockets
  <2>2. ~(d2h[p][e] # None /\ h2d[p][d2h[p][e]] = None)
    BY <2>1, EntryHasItsPort
  <2>3. \E error \in {"none", "forwarder"} : End(p, error)
    BY <1>5, <2>2 DEF Unmap
  <2> QED BY <2>3, RaisesNoKey DEF End, Errors
<1>6. ASSUME NEW p \in Procs, CleanEntry(p)
      PROVE  UnmapFindsItsEntries'
  <2>1. PICK e \in Entries(p) :
          IF h2d[p][d2h[p][e]] = None THEN End(p, "key") ELSE Goto(p, "clean")
    BY <1>6 DEF CleanEntry
  <2>2. e \in Sockets /\ d2h[p][e] # None
    BY DEF Entries, OfDevice
  <2>3. Goto(p, "clean")
    BY <2>1, <2>2, EntryHasItsPort
  <2> QED BY <2>3, RaisesNoKey DEF Goto
<1>7. ASSUME NEW p \in Procs, UnmapAll(p) \/ CleanDone(p) \/ KillDevice(p)
      PROVE  UnmapFindsItsEntries'
  BY <1>7, RaisesNoKey DEF UnmapAll, CleanDone, KillDevice, Goto, End, Errors
<1>8. ASSUME NEW p \in Procs, KillHost(p) \/ Query(p) \/ Die(p)
      PROVE  UnmapFindsItsEntries'
  BY <1>8, RaisesNoKey DEF KillHost, Query, Die, End, Errors
<1> QED BY <1>1, <1>2, <1>3, <1>4, <1>5, <1>6, <1>7, <1>8 DEF Next

(* An unmap finds the entries of what was mapped, and raises no KeyError,  *)
(* whatever fails in between, if no caller maps a host port that has one.  *)
THEOREM ForwarderNoKeyError == Spec => [](~ShareHostPorts => UnmapFindsItsEntries)
<1>1. Init => NoKeyError
  BY DEF Init, NoKeyError, UnmapFindsItsEntries
<1>2. NoKeyError => (~ShareHostPorts => UnmapFindsItsEntries)
  BY DEF NoKeyError
<1> QED BY <1>1, <1>2, SpecInv, NoKeyErrorStep, PTL DEF Spec
=============================================================================
