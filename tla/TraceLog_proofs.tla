-------------------------- MODULE TraceLog_proofs ---------------------------
(***************************************************************************)
(* Proofs about TraceLog, for any number of processes and events: its      *)
(* type, who holds the lock on the log file, and what is in the file.      *)
(***************************************************************************)
EXTENDS TraceLog, TLAPS

(* What is known of a process at each step of its life and of a flush.     *)
StepInv ==
    \A p \in Procs :
      /\ alive[p] = "absent" =>
           at[p] = "idle" /\ trace[p] = "off" /\ count[p] = 0 /\ buf[p] = <<>>
      /\ alive[p] = "dead" => at[p] = "idle"
      /\ p \in killed => alive[p] = "dead"
      /\ p \in stuck => at[p] = "idle"
      /\ at[p] # "idle" => trace[p] = IF why[p] = "close" THEN "closed" ELSE "on"
      /\ at[p] = "half" /\ why[p] # "enable" => buf[p] # <<>>
      /\ at[p] = "done" => why[p] = "enable"
      /\ at[p] # "idle" /\ why[p] = "enable" => p \in Roots /\ fd[p] = p

LEMMA ProcFacts ==
    /\ Roots \subseteq Procs /\ Kids \subseteq Procs
    /\ \A p \in Procs : p # None
    /\ None \notin Roots
BY TraceLogConstants DEF Procs

LEMMA HeaderFacts ==
    /\ Header \notin Events
    /\ \A e, f, h, k : Half(e, h) = Half(f, k) => e = f /\ h = k
    /\ \A e, h : Half(e, h).of = e /\ Half(e, h).half = h
    /\ \A e \in Events \cup {Header}, h \in {1, 2} :
         Half(e, h) \in [of : Events \cup {Header}, half : {1, 2}]
<1>1. Header \notin Events
  BY DEF Header, Events
<1>2. \A e, f, h, k : Half(e, h) = Half(f, k) => e = f /\ h = k
  BY DEF Half
<1>3. \A e, h : Half(e, h).of = e /\ Half(e, h).half = h
  BY DEF Half
<1>4. \A e \in Events \cup {Header}, h \in {1, 2} :
         Half(e, h) \in [of : Events \cup {Header}, half : {1, 2}]
  BY DEF Half
<1> QED BY <1>1, <1>2, <1>3, <1>4

LEMMA InitTypeOK == Init => TypeOK /\ StepInv
<1> SUFFICES ASSUME Init PROVE TypeOK /\ StepInv
  OBVIOUS
<1>1. TypeOK
  <2>1. /\ buf \in [Procs -> Seq(Events)]
        /\ file \in Seq([of : Events \cup {Header}, half : {1, 2}])
    BY DEF Init
  <2>2. count \in [Procs -> 0..MaxEvents]
    BY TraceLogConstants DEF Init
  <2>3. /\ alive \in [Procs -> {"absent", "running", "ending", "dead"}]
        /\ killed \in SUBSET Procs /\ allowed \in SUBSET Procs /\ stuck \in SUBSET Kids
        /\ trace \in [Procs -> {"off", "on", "broken", "closed"}]
    BY DEF Init
  <2>4. /\ owner \in [Procs -> Procs \cup {None}]
        /\ fd \in [Procs -> Roots \cup {None}]
        /\ flock \in Roots \cup {None} /\ clash \in BOOLEAN
        /\ copied \in SUBSET (Events \X Procs)
    BY DEF Init
  <2>5. /\ at \in [Procs -> {"idle", "wait", "hold", "half", "done"}]
        /\ why \in [Procs -> {"enable", "flush", "close"}]
        /\ \A p \in Procs : at[p] = "idle" /\ trace[p] = "off"
    BY DEF Init
  <2> QED BY <2>1, <2>2, <2>3, <2>4, <2>5 DEF TypeOK
<1>2. StepInv
  BY DEF Init, StepInv
<1> QED BY <1>1, <1>2

-----------------------------------------------------------------------------
(* What is written next: the header of a new file, or the oldest event.    *)
LEMMA ToWriteFacts ==
    ASSUME TypeOK, NEW p \in Procs, ToWrite(p) # <<>>
    PROVE  \/ /\ why[p] = "enable" /\ file = <<>>
              /\ Head(ToWrite(p)) = Header
           \/ /\ why[p] # "enable" /\ buf[p] # <<>>
              /\ Head(ToWrite(p)) = Head(buf[p]) /\ Head(buf[p]) \in Events
<1>1. CASE why[p] = "enable"
  <2>1. file = <<>> /\ ToWrite(p) = <<Header>>
    BY <1>1 DEF ToWrite
  <2>2. Head(<<Header>>) = Header
    OBVIOUS
  <2> QED BY <1>1, <2>1, <2>2
<1>2. CASE why[p] # "enable"
  <2>1. ToWrite(p) = buf[p] /\ buf[p] \in Seq(Events)
    BY <1>2 DEF ToWrite, TypeOK
  <2> QED BY <1>2, <2>1
<1> QED BY <1>1, <1>2

LEMMA StepTypeOK == ASSUME TypeOK, StepInv, [Next]_vars PROVE TypeOK'
<1> USE ProcFacts
<1>1. ASSUME NEW p \in Procs, Enable(p) PROVE TypeOK'
  <2>1. p \in Roots /\ p # None
    BY <1>1 DEF Enable
  <2>2. /\ trace' \in [Procs -> {"off", "on", "broken", "closed"}]
        /\ fd' \in [Procs -> Roots \cup {None}]
        /\ at' \in [Procs -> {"idle", "wait", "hold", "half", "done"}]
        /\ why' \in [Procs -> {"enable", "flush", "close"}]
    <3>1. CASE /\ trace' = [trace EXCEPT ![p] = "on"]
               /\ fd' = [fd EXCEPT ![p] = p]
               /\ Begin(p, "enable")
      BY <2>1, <3>1 DEF Begin, TypeOK
    <3>2. CASE /\ trace' = [trace EXCEPT ![p] = "broken"]
               /\ UNCHANGED <<fd, at, why>>
      BY <3>2 DEF TypeOK
    <3> QED BY <1>1, <3>1, <3>2 DEF Enable
  <2>3. \A q \in Procs :
          fd'[q] = None => at'[q] = "idle" /\ (trace'[q] = "on" => alive'[q] = "dead")
    BY <1>1, <2>1 DEF Enable, Begin, Free, TypeOK, process
  <2> QED BY <1>1, <2>2, <2>3 DEF Enable, TypeOK, process, disk
<1>2. ASSUME NEW p \in Procs, Record(p) PROVE TypeOK'
  <2>1. count[p] + 1 \in 1..MaxEvents
    BY <1>2, TraceLogConstants DEF Record, TypeOK
  <2>2. <<p, count[p] + 1>> \in Events
    BY <2>1 DEF Events
  <2> DEFINE kept == IF owner[p] = p THEN buf[p] ELSE <<>>
             event == <<p, count[p] + 1>>
  <2>3. Append(kept, event) \in Seq(Events)
    <3>1. kept \in Seq(Events) /\ event \in Events
      BY <2>2 DEF TypeOK
    <3> HIDE DEF kept, event
    <3> QED BY <3>1
  <2>4. buf' \in [Procs -> Seq(Events)]
    <3>1. buf' = [buf EXCEPT ![p] = Append(kept, event)]
      BY <1>2 DEF Record
    <3> HIDE DEF kept, event
    <3> QED BY <2>3, <3>1 DEF TypeOK
  <2>5. count' \in [Procs -> 0..MaxEvents] /\ owner' \in [Procs -> Procs \cup {None}]
    BY <1>2, <2>1 DEF Record, TypeOK
  <2> QED BY <1>2, <2>4, <2>5 DEF Record, TypeOK, process, disk
<1>3. ASSUME NEW p \in Procs, Flush(p) PROVE TypeOK'
  BY <1>3 DEF TypeOK, StepInv, Flush, Free, Begin, process, memory, disk, Events
<1>4. ASSUME NEW p \in Procs, Disable(p) PROVE TypeOK'
  <2>1. /\ trace' \in [Procs -> {"off", "on", "broken", "closed"}]
        /\ at' \in [Procs -> {"idle", "wait", "hold", "half", "done"}]
        /\ why' \in [Procs -> {"enable", "flush", "close"}]
        /\ alive' \in [Procs -> {"absent", "running", "ending", "dead"}]
    BY <1>4 DEF Disable, DisableNow, Begin, TypeOK, process
  <2>2. \A q \in Procs :
          fd'[q] = None => at'[q] = "idle" /\ (trace'[q] = "on" => alive'[q] = "dead")
    BY <1>4 DEF Disable, DisableNow, Begin, Free, TypeOK, process
  <2> QED BY <1>4, <2>1, <2>2 DEF Disable, TypeOK, process, disk
<1>5. ASSUME NEW p \in Procs, LockFile(p) PROVE TypeOK'
  <2>1. /\ UNCHANGED <<process, memory, why, file, copied>>
        /\ at' = [at EXCEPT ![p] = "hold"] /\ flock' = fd[p]
        /\ clash' = (clash \/ flock = fd[p]) /\ at[p] = "wait"
    BY <1>5 DEF LockFile
  <2>2. fd[p] \in Roots
    BY <2>1 DEF TypeOK
  <2>3. /\ at' \in [Procs -> {"idle", "wait", "hold", "half", "done"}]
        /\ flock' \in Roots \cup {None} /\ clash' \in BOOLEAN
    BY <2>1, <2>2 DEF TypeOK
  <2>4. \A q \in Procs :
          fd'[q] = None => at'[q] = "idle" /\ (trace'[q] = "on" => alive'[q] = "dead")
    BY <2>1, <2>2, ProcFacts DEF TypeOK, process, memory
  <2> QED BY <2>1, <2>3, <2>4 DEF TypeOK, process, memory
<1>6. ASSUME NEW p \in Procs, WriteFirst(p) PROVE TypeOK'
  <2>2. Head(ToWrite(p)) \in Events \cup {Header}
    BY <1>6, ToWriteFacts DEF WriteFirst
  <2>3. file' \in Seq([of : Events \cup {Header}, half : {1, 2}])
    BY <1>6, <2>2, HeaderFacts DEF WriteFirst, TypeOK
  <2>4. /\ at' \in [Procs -> {"idle", "wait", "hold", "half", "done"}]
        /\ \A q \in Procs :
             fd'[q] = None => at'[q] = "idle" /\ (trace'[q] = "on" => alive'[q] = "dead")
    BY <1>6 DEF WriteFirst, TypeOK, process, memory
  <2>5. copied' \in SUBSET (Events \X Procs)
    <3>1. why[p] # "enable" => Head(buf[p]) \in Events
      BY <1>6, ToWriteFacts DEF WriteFirst
    <3> QED BY <1>6, <3>1 DEF WriteFirst, TypeOK
  <2> QED BY <1>6, <2>3, <2>4, <2>5 DEF WriteFirst, TypeOK, process, memory
<1>7. ASSUME NEW p \in Procs, WriteSecond(p) PROVE TypeOK'
  <2>1. why[p] # "enable" => Head(buf[p]) \in Events /\ Tail(buf[p]) \in Seq(Events)
    BY <1>7 DEF WriteSecond, TypeOK, StepInv
  <2>2. file' \in Seq([of : Events \cup {Header}, half : {1, 2}])
    BY <1>7, <2>1, HeaderFacts DEF WriteSecond, TypeOK
  <2>3. buf' \in [Procs -> Seq(Events)]
    <3>1. CASE buf' = buf
      BY <3>1 DEF TypeOK
    <3>2. CASE why[p] # "enable" /\ buf' = [buf EXCEPT ![p] = Tail(@)]
      <4> DEFINE rest == Tail(buf[p])
      <4>1. rest \in Seq(Events) /\ buf' = [buf EXCEPT ![p] = rest]
        BY <2>1, <3>2
      <4> HIDE DEF rest
      <4> QED BY <4>1 DEF TypeOK
    <3> QED BY <1>7, <3>1, <3>2 DEF WriteSecond
  <2>4. /\ at' \in [Procs -> {"idle", "wait", "hold", "half", "done"}]
        /\ \A q \in Procs :
             fd'[q] = None => at'[q] = "idle" /\ (trace'[q] = "on" => alive'[q] = "dead")
    BY <1>7 DEF WriteSecond, TypeOK, process
  <2>5. UNCHANGED <<process, trace, owner, fd, count, why, flock, clash, copied>>
    BY <1>7 DEF WriteSecond
  <2> QED BY <2>2, <2>3, <2>4, <2>5 DEF TypeOK, process
<1>8. ASSUME NEW p \in Procs, Unlock(p) PROVE TypeOK'
  <2>1. /\ UNCHANGED <<process, trace, owner, buf, count, file, clash, copied>>
        /\ at' = [at EXCEPT ![p] = "idle"] /\ why' = [why EXCEPT ![p] = "flush"]
        /\ flock' \in {flock, None}
        /\ \/ fd' = fd
           \/ why[p] = "close" /\ at[p] # "idle" /\ fd' = [fd EXCEPT ![p] = None]
    BY <1>8 DEF Unlock
  <2>2. /\ at' \in [Procs -> {"idle", "wait", "hold", "half", "done"}]
        /\ why' \in [Procs -> {"enable", "flush", "close"}]
        /\ fd' \in [Procs -> Roots \cup {None}] /\ flock' \in Roots \cup {None}
    BY <2>1 DEF TypeOK
  <2>3. fd' # fd => trace[p] = "closed"
    BY <2>1 DEF StepInv
  <2>4. \A q \in Procs :
          fd'[q] = None => at'[q] = "idle" /\ (trace'[q] = "on" => alive'[q] = "dead")
    BY <2>1, <2>3 DEF TypeOK, process
  <2> QED BY <2>1, <2>2, <2>4 DEF TypeOK, process
<1>9. ASSUME NEW p \in Procs, End(p) PROVE TypeOK'
  <2>1. /\ trace' \in [Procs -> {"off", "on", "broken", "closed"}]
        /\ at' \in [Procs -> {"idle", "wait", "hold", "half", "done"}]
        /\ why' \in [Procs -> {"enable", "flush", "close"}]
        /\ alive' \in [Procs -> {"absent", "running", "ending", "dead"}]
    BY <1>9 DEF End, DisableNow, Begin, TypeOK, process
  <2>2. \A q \in Procs :
          fd'[q] = None => at'[q] = "idle" /\ (trace'[q] = "on" => alive'[q] = "dead")
    BY <1>9 DEF End, DisableNow, Begin, Free, TypeOK, process
  <2> QED BY <1>9, <2>1, <2>2 DEF End, TypeOK, process, disk
<1>10. ASSUME NEW p \in Procs, Finish(p) PROVE TypeOK'
  BY <1>10 DEF TypeOK, StepInv, Finish, CloseFile, process, memory, disk, Events
<1>11. ASSUME NEW p \in Procs, Kill(p) PROVE TypeOK'
  <2>1. /\ alive' \in [Procs -> {"absent", "running", "ending", "dead"}]
        /\ killed' \in SUBSET Procs
        /\ trace' \in [Procs -> {"off", "on", "broken", "closed"}]
        /\ owner' \in [Procs -> Procs \cup {None}]
        /\ fd' \in [Procs -> Roots \cup {None}] /\ flock' \in Roots \cup {None}
    BY <1>11 DEF Kill, CloseFile, TypeOK
  <2>2. /\ at' \in [Procs -> {"idle", "wait", "hold", "half", "done"}]
        /\ why' \in [Procs -> {"enable", "flush", "close"}]
    BY <1>11 DEF Kill, TypeOK
  <2>3. buf' \in [Procs -> Seq(Events)] /\ count' \in [Procs -> 0..MaxEvents]
    BY <1>11, TraceLogConstants DEF Kill, TypeOK
  <2>4. \A q \in Procs :
          fd'[q] = None => at'[q] = "idle" /\ (trace'[q] = "on" => alive'[q] = "dead")
    BY <1>11 DEF Kill, CloseFile, TypeOK
  <2> QED BY <1>11, <2>1, <2>2, <2>3, <2>4 DEF Kill, TypeOK
<1>12. ASSUME NEW p \in Procs, NEW c \in Kids, NEW raw \in BOOLEAN, Fork(p, c, raw)
       PROVE  TypeOK'
  <2>1. /\ alive' \in [Procs -> {"absent", "running", "ending", "dead"}]
        /\ allowed' \in SUBSET Procs /\ stuck' \in SUBSET Kids
        /\ trace' \in [Procs -> {"off", "on", "broken", "closed"}]
        /\ owner' \in [Procs -> Procs \cup {None}]
        /\ fd' \in [Procs -> Roots \cup {None}]
    BY <1>12 DEF TypeOK, Fork
  <2>2. buf' \in [Procs -> Seq(Events)]
    <3>1. buf \in [Procs -> Seq(Events)] /\ buf' = [buf EXCEPT ![c] = buf[p]]
      BY <1>12 DEF TypeOK, Fork
    <3> QED BY <3>1
  <2>3. /\ c # p /\ at[c] = "idle" /\ fd'[c] # None /\ at' = at
        /\ \A q \in Procs \ {c} : /\ fd'[q] = fd[q] /\ trace'[q] = trace[q]
                                  /\ alive'[q] = alive[q]
    BY <1>12 DEF TypeOK, StepInv, Fork
  <2>4. \A q \in Procs :
          fd'[q] = None => at'[q] = "idle" /\ (trace'[q] = "on" => alive'[q] = "dead")
    BY <2>3 DEF TypeOK
  <2> QED BY <1>12, <2>1, <2>2, <2>4 DEF TypeOK, Fork, disk
<1>13. CASE UNCHANGED vars
  BY <1>13 DEF TypeOK, vars, process, memory, disk, Events
<1> QED BY <1>1, <1>2, <1>3, <1>4, <1>5, <1>6, <1>7, <1>8, <1>9, <1>10, <1>11,
           <1>12, <1>13 DEF Next, FileStep

LEMMA StepStepInv == ASSUME TypeOK, StepInv, [Next]_vars PROVE StepInv'
<1> USE ProcFacts
<1>1. ASSUME NEW p \in Procs, Enable(p) PROVE StepInv'
  BY <1>1 DEF TypeOK, StepInv, Enable, Free, Begin, process, memory, disk
<1>2. ASSUME NEW p \in Procs, Record(p) PROVE StepInv'
  BY <1>2 DEF TypeOK, StepInv, Record, Free, process, memory, disk
<1>3. ASSUME NEW p \in Procs, Flush(p) PROVE StepInv'
  BY <1>3 DEF TypeOK, StepInv, Flush, Free, Begin, process, memory, disk
<1>4. ASSUME NEW p \in Procs, Disable(p) PROVE StepInv'
  BY <1>4 DEF TypeOK, StepInv, Disable, Free, DisableNow, Begin, process, memory, disk
<1>5. ASSUME NEW p \in Procs, LockFile(p) PROVE StepInv'
  BY <1>5 DEF TypeOK, StepInv, LockFile, process, memory, disk
<1>6. ASSUME NEW p \in Procs, WriteFirst(p) PROVE StepInv'
  BY <1>6, ToWriteFacts DEF TypeOK, StepInv, WriteFirst, process, memory, disk
<1>7. ASSUME NEW p \in Procs, WriteSecond(p) PROVE StepInv'
  BY <1>7 DEF TypeOK, StepInv, WriteSecond, process, memory, disk
<1>8. ASSUME NEW p \in Procs, Unlock(p) PROVE StepInv'
  BY <1>8 DEF TypeOK, StepInv, Unlock, process, memory, disk
<1>9. ASSUME NEW p \in Procs, End(p) PROVE StepInv'
  BY <1>9 DEF TypeOK, StepInv, End, Free, DisableNow, Begin, process, memory, disk
<1>10. ASSUME NEW p \in Procs, Finish(p) PROVE StepInv'
  BY <1>10 DEF TypeOK, StepInv, Finish, CloseFile, process, memory, disk
<1>11. ASSUME NEW p \in Procs, Kill(p) PROVE StepInv'
  BY <1>11 DEF TypeOK, StepInv, Kill, CloseFile, process, memory, disk
<1>12. ASSUME NEW p \in Procs, NEW c \in Kids, NEW raw \in BOOLEAN, Fork(p, c, raw)
       PROVE  StepInv'
  BY <1>12 DEF TypeOK, StepInv, Fork, process, memory, disk
<1>13. CASE UNCHANGED vars
  BY <1>13 DEF TypeOK, StepInv, vars, process, memory, disk
<1> QED BY <1>1, <1>2, <1>3, <1>4, <1>5, <1>6, <1>7,
           <1>8, <1>9, <1>10, <1>11, <1>12, <1>13 DEF Next, FileStep

LEMMA TypeInvariance == Spec => [](TypeOK /\ StepInv)
<1>1. TypeOK /\ StepInv /\ [Next]_vars => (TypeOK /\ StepInv)'
  BY StepTypeOK, StepStepInv
<1> QED BY <1>1, InitTypeOK, PTL DEF Spec

(* Every variable of the log keeps its type, and tracing that is on has a  *)
(* file to go to.                                                          *)
THEOREM TraceLogTypeOK == Spec => []TypeOK
BY TypeInvariance, PTL

-----------------------------------------------------------------------------
(* The lock on the log file.  Until two processes have it at once, whoever *)
(* is at work on the file is alone and has it.                             *)
LockInv ==
    ~clash =>
      /\ \A p \in Procs : Writing(p) => flock = fd[p]
      /\ \A p, q \in Procs : Writing(p) /\ Writing(q) => p = q

LEMMA LockKept ==
    ASSUME LockInv, UNCHANGED <<flock, clash>>,
           \A q \in Procs : Writing(q)' => Writing(q) /\ fd'[q] = fd[q]
    PROVE  LockInv'
BY DEF LockInv

LEMMA StepLock == ASSUME TypeOK, StepInv, LockInv, [Next]_vars PROVE LockInv'
<1> USE ProcFacts
<1>1. ASSUME NEW p \in Procs, Enable(p) PROVE LockInv'
  <2>1. \A q \in Procs : Writing(q)' => Writing(q) /\ fd'[q] = fd[q]
    <3>1. ~Writing(p)'
      BY <1>1 DEF TypeOK, Writing, Enable, Free, Begin
    <3>2. \A q \in Procs \ {p} : at'[q] = at[q] /\ fd'[q] = fd[q]
      BY <1>1 DEF TypeOK, Enable, Begin
    <3> QED BY <3>1, <3>2 DEF Writing
  <2> QED BY <1>1, <2>1, LockKept DEF Enable, disk
<1>2. ASSUME NEW p \in Procs, Record(p) PROVE LockInv'
  BY <1>2 DEF TypeOK, StepInv, LockInv, Writing, Record, Free, process, memory, disk
<1>3. ASSUME NEW p \in Procs, Flush(p) PROVE LockInv'
  BY <1>3 DEF TypeOK, StepInv, LockInv, Writing, Flush, Free, Begin, process, memory, disk
<1>4. ASSUME NEW p \in Procs, Disable(p) PROVE LockInv'
  <2>1. \A q \in Procs : Writing(q)' => Writing(q) /\ fd'[q] = fd[q]
    <3>1. ~Writing(p)'
      BY <1>4 DEF TypeOK, Writing, Disable, Free, DisableNow, Begin
    <3>2. \A q \in Procs \ {p} : at'[q] = at[q] /\ fd'[q] = fd[q]
      BY <1>4 DEF TypeOK, Disable, DisableNow, Begin
    <3> QED BY <3>1, <3>2 DEF Writing
  <2> QED BY <1>4, <2>1, LockKept DEF Disable, disk
<1>5. ASSUME NEW p \in Procs, LockFile(p) PROVE LockInv'
  <2> SUFFICES ASSUME ~clash' PROVE LockInv'
    BY DEF LockInv
  <2>1. ~clash /\ flock = None /\ flock' = fd[p] /\ UNCHANGED fd
    BY <1>5 DEF TypeOK, LockFile, memory
  <2>2. \A q \in Procs : ~Writing(q)
    BY <2>1 DEF LockInv, Writing, TypeOK
  <2>3. \A q \in Procs : Writing(q)' => q = p
    BY <1>5, <2>2 DEF TypeOK, LockFile, Writing
  <2> QED BY <2>1, <2>3 DEF LockInv
<1>6. ASSUME NEW p \in Procs, WriteFirst(p) PROVE LockInv'
  BY <1>6 DEF TypeOK, StepInv, LockInv, Writing, WriteFirst, process, memory, disk
<1>7. ASSUME NEW p \in Procs, WriteSecond(p) PROVE LockInv'
  <2>1. \A q \in Procs : Writing(q)' => Writing(q) /\ fd'[q] = fd[q]
    <3>1. Writing(p) /\ UNCHANGED fd
      BY <1>7 DEF TypeOK, Writing, WriteSecond
    <3>2. \A q \in Procs \ {p} : at'[q] = at[q]
      BY <1>7 DEF TypeOK, WriteSecond
    <3> QED BY <3>1, <3>2 DEF Writing
  <2> QED BY <1>7, <2>1, LockKept DEF WriteSecond
<1>8. ASSUME NEW p \in Procs, Unlock(p) PROVE LockInv'
  BY <1>8 DEF TypeOK, StepInv, LockInv, Writing, Unlock, process, memory, disk
<1>9. ASSUME NEW p \in Procs, End(p) PROVE LockInv'
  <2>1. \A q \in Procs : Writing(q)' => Writing(q) /\ fd'[q] = fd[q]
    <3>1. ~Writing(p)'
      BY <1>9 DEF TypeOK, Writing, End, Free, DisableNow, Begin
    <3>2. \A q \in Procs \ {p} : at'[q] = at[q] /\ fd'[q] = fd[q]
      BY <1>9 DEF TypeOK, End, DisableNow, Begin
    <3> QED BY <3>1, <3>2 DEF Writing
  <2> QED BY <1>9, <2>1, LockKept DEF End, disk
<1>10. ASSUME NEW p \in Procs, Finish(p) PROVE LockInv'
  BY <1>10 DEF TypeOK, StepInv, LockInv, Writing, Finish, CloseFile, process, memory, disk
<1>11. ASSUME NEW p \in Procs, Kill(p) PROVE LockInv'
  BY <1>11 DEF TypeOK, StepInv, LockInv, Writing, Kill, CloseFile, process, memory, disk
<1>12. ASSUME NEW p \in Procs, NEW c \in Kids, NEW raw \in BOOLEAN, Fork(p, c, raw)
       PROVE  LockInv'
  BY <1>12 DEF TypeOK, StepInv, LockInv, Writing, Fork, process, memory, disk
<1>13. CASE UNCHANGED vars
  BY <1>13 DEF TypeOK, StepInv, LockInv, Writing, vars, process, memory, disk
<1> QED BY <1>1, <1>2, <1>3, <1>4, <1>5, <1>6, <1>7,
           <1>8, <1>9, <1>10, <1>11, <1>12, <1>13 DEF Next, FileStep

LEMMA StepStale == ASSUME TypeOK, StepInv, NoStaleLock, [Next]_vars PROVE NoStaleLock'
<1> USE ProcFacts
<1>1. ASSUME NEW p \in Procs, Enable(p) PROVE NoStaleLock'
  <2>1. /\ ~Writing(p) /\ flock' = flock /\ killed' = killed
        /\ \A q \in Procs \ {p} : at'[q] = at[q] /\ fd'[q] = fd[q]
    BY <1>1 DEF TypeOK, Writing, Enable, Free, Begin, process, disk
  <2> QED BY <2>1 DEF NoStaleLock, Writing
<1>2. ASSUME NEW p \in Procs, Record(p) PROVE NoStaleLock'
  BY <1>2 DEF TypeOK, StepInv, NoStaleLock, Writing, Record, Free, process, memory, disk
<1>3. ASSUME NEW p \in Procs, Flush(p) PROVE NoStaleLock'
  BY <1>3 DEF TypeOK, StepInv, NoStaleLock, Writing, Flush, Free, Begin, process, memory, disk
<1>4. ASSUME NEW p \in Procs, Disable(p) PROVE NoStaleLock'
  BY <1>4 DEF TypeOK, StepInv, NoStaleLock, Writing, Disable, Free, DisableNow,
     Begin, process, memory, disk
<1>5. ASSUME NEW p \in Procs, LockFile(p) PROVE NoStaleLock'
  BY <1>5 DEF TypeOK, StepInv, NoStaleLock, Writing, LockFile, process, memory, disk
<1>6. ASSUME NEW p \in Procs, WriteFirst(p) PROVE NoStaleLock'
  BY <1>6 DEF TypeOK, StepInv, NoStaleLock, Writing, WriteFirst, process, memory, disk
<1>7. ASSUME NEW p \in Procs, WriteSecond(p) PROVE NoStaleLock'
  BY <1>7 DEF TypeOK, StepInv, NoStaleLock, Writing, WriteSecond, process, memory, disk
<1>8. ASSUME NEW p \in Procs, Unlock(p) PROVE NoStaleLock'
  BY <1>8 DEF TypeOK, StepInv, NoStaleLock, Writing, Unlock, process, memory, disk
<1>9. ASSUME NEW p \in Procs, End(p) PROVE NoStaleLock'
  BY <1>9 DEF TypeOK, StepInv, NoStaleLock, Writing, End, Free, DisableNow,
     Begin, process, memory, disk
<1>10. ASSUME NEW p \in Procs, Finish(p) PROVE NoStaleLock'
  BY <1>10 DEF TypeOK, StepInv, NoStaleLock, Writing, Finish, CloseFile, process, memory, disk
<1>11. ASSUME NEW p \in Procs, Kill(p) PROVE NoStaleLock'
  BY <1>11 DEF TypeOK, StepInv, NoStaleLock, Writing, Kill, CloseFile, process, memory, disk
<1>12. ASSUME NEW p \in Procs, NEW c \in Kids, NEW raw \in BOOLEAN, Fork(p, c, raw)
       PROVE  NoStaleLock'
  BY <1>12 DEF TypeOK, StepInv, NoStaleLock, Writing, Fork, process, memory, disk
<1>13. CASE UNCHANGED vars
  BY <1>13 DEF TypeOK, StepInv, NoStaleLock, Writing, vars, process, memory, disk
<1> QED BY <1>1, <1>2, <1>3, <1>4, <1>5, <1>6, <1>7,
           <1>8, <1>9, <1>10, <1>11, <1>12, <1>13 DEF Next, FileStep

LEMMA InitLock == Init => LockInv /\ NoStaleLock
BY DEF Init, LockInv, NoStaleLock, Writing

LEMMA LockInvariance == Spec => [](LockInv /\ NoStaleLock)
<1>1. (TypeOK /\ StepInv) /\ (LockInv /\ NoStaleLock) /\ [Next]_vars
        => (LockInv /\ NoStaleLock)'
  BY StepLock, StepStale
<1> QED BY <1>1, InitLock, TypeInvariance, PTL DEF Spec

(* The log file is only locked while somebody works on it, or because a    *)
(* process was killed that did.                                            *)
THEOREM TraceLogNoStaleLock == Spec => []NoStaleLock
BY LockInvariance, PTL

-----------------------------------------------------------------------------
(* Opening the file.  Nobody has the file of a process that has yet to     *)
(* open it; a process that is writing the header holds the lock, and those *)
(* it has forked meanwhile wait for it.                                    *)
Opening(p) == at[p] # "idle" /\ why[p] = "enable"

OpenInv ==
    /\ \A p \in Roots : trace[p] \in {"off", "broken"} /\ alive[p] # "dead" =>
         \A q \in Procs : fd[q] # p
    /\ \A p \in Procs : Opening(p) =>
         /\ Writing(p) => flock = p
         /\ \A q \in Procs \ {p} : fd[q] = p => q \in stuck

LEMMA OpenKept ==
    ASSUME OpenInv, UNCHANGED <<flock, fd, stuck>>,
           \A q \in Procs : /\ Opening(q)' => Opening(q)
                            /\ Opening(q)' /\ Writing(q)' => Writing(q)
                            /\ trace'[q] \in {"off", "broken"} /\ alive'[q] # "dead"
                                 => trace[q] \in {"off", "broken"} /\ alive[q] # "dead"
    PROVE  OpenInv'
<1>1. ASSUME NEW p \in Roots, trace'[p] \in {"off", "broken"}, alive'[p] # "dead",
             NEW q \in Procs
      PROVE  fd'[q] # p
  <2>1. p \in Procs
    BY ProcFacts
  <2> QED BY <1>1, <2>1 DEF OpenInv
<1>2. ASSUME NEW p \in Procs, Opening(p)'
      PROVE  /\ Writing(p)' => flock' = p
             /\ \A q \in Procs \ {p} : fd'[q] = p => q \in stuck'
  BY <1>2 DEF OpenInv
<1> QED BY <1>1, <1>2 DEF OpenInv

LEMMA StepOpen == ASSUME TypeOK, StepInv, OpenInv, [Next]_vars PROVE OpenInv'
<1> USE ProcFacts
<1>1. ASSUME NEW p \in Procs, Enable(p) PROVE OpenInv'
  <2>1. CASE Opening(p)'
    <3>1. /\ p \in Roots /\ \A q \in Procs : fd[q] # p
          /\ ~Writing(p)'
      BY <1>1 DEF Enable, Free, Begin, OpenInv, TypeOK, Writing
    <3>2. /\ trace' = [trace EXCEPT ![p] = "on"] /\ fd' = [fd EXCEPT ![p] = p]
          /\ Begin(p, "enable") /\ UNCHANGED <<process, disk>>
      BY <1>1, <2>1 DEF Enable, Free, Opening
    <3>3. \A q \in Procs \ {p} : /\ Opening(q)' = Opening(q) /\ Writing(q)' = Writing(q)
                                /\ trace'[q] = trace[q]
      BY <3>2 DEF TypeOK, Opening, Writing, Begin
    <3>4. /\ fd'[p] = p /\ trace'[p] = "on"
          /\ \A q \in Procs \ {p} : fd'[q] = fd[q]
      BY <3>2 DEF TypeOK
    <3>5. ASSUME NEW r \in Roots, trace'[r] \in {"off", "broken"}, alive'[r] # "dead",
                 NEW q \in Procs
          PROVE  fd'[q] # r
      <4>1. r # p
        BY <3>4, <3>5
      <4> QED BY <3>2, <3>3, <3>4, <3>5, <4>1 DEF OpenInv, process
    <3>6. ASSUME NEW r \in Procs, Opening(r)'
          PROVE  /\ Writing(r)' => flock' = r
                 /\ \A q \in Procs \ {r} : fd'[q] = r => q \in stuck'
      <4>1. CASE r = p
        BY <3>1, <3>2, <3>4, <4>1
      <4>2. CASE r # p
        <5>1. Opening(r) /\ (Writing(r)' => Writing(r))
          BY <3>3, <3>6, <4>2
        <5> QED BY <3>2, <3>4, <4>2, <5>1 DEF OpenInv, process, disk
      <4> QED BY <4>1, <4>2
    <3> QED BY <3>5, <3>6 DEF OpenInv
  <2>2. CASE ~Opening(p)'
    <3>1. /\ trace' = [trace EXCEPT ![p] = "broken"] /\ trace[p] = "off"
          /\ UNCHANGED <<fd, at, why, process, disk>>
      BY <1>1, <2>2 DEF Enable, Begin, Opening, TypeOK
    <3> QED BY <3>1, OpenKept DEF Opening, Writing, process, disk, TypeOK
  <2> QED BY <2>1, <2>2
<1>2. ASSUME NEW p \in Procs, Record(p) PROVE OpenInv'
  BY <1>2 DEF TypeOK, StepInv, OpenInv, Opening, Writing, Record, Free, process, memory, disk
<1>3. ASSUME NEW p \in Procs, Flush(p) PROVE OpenInv'
  BY <1>3 DEF TypeOK, StepInv, OpenInv, Opening, Writing, Flush, Free, Begin,
     process, memory, disk
<1>4. ASSUME NEW p \in Procs, Disable(p) PROVE OpenInv'
  <2>1. \A q \in Procs : /\ Opening(q)' => Opening(q)
                         /\ Opening(q)' /\ Writing(q)' => Writing(q)
                         /\ trace'[q] \in {"off", "broken"} /\ alive'[q] # "dead"
                              => trace[q] \in {"off", "broken"} /\ alive[q] # "dead"
    <3>1. \A q \in Procs \ {p} : /\ at'[q] = at[q] /\ why'[q] = why[q]
                                 /\ trace'[q] = trace[q] /\ alive'[q] = alive[q]
      BY <1>4 DEF TypeOK, Disable, DisableNow, Begin, Free, process
    <3>2. /\ Opening(p)' => Opening(p)
          /\ Opening(p)' /\ Writing(p)' => Writing(p)
          /\ trace'[p] \in {"off", "broken"} /\ alive'[p] # "dead"
               => trace[p] \in {"off", "broken"} /\ alive[p] # "dead"
      BY <1>4 DEF TypeOK, Opening, Writing, Disable, DisableNow, Begin, Free, process
    <3> QED BY <3>1, <3>2 DEF Opening, Writing
  <2> QED BY <1>4, <2>1, OpenKept DEF Disable, process, disk
<1>5. ASSUME NEW p \in Procs, LockFile(p) PROVE OpenInv'
  BY <1>5 DEF TypeOK, StepInv, OpenInv, Opening, Writing, LockFile, process, memory, disk
<1>6. ASSUME NEW p \in Procs, WriteFirst(p) PROVE OpenInv'
  BY <1>6 DEF TypeOK, StepInv, OpenInv, Opening, Writing, WriteFirst, process, memory, disk
<1>7. ASSUME NEW p \in Procs, WriteSecond(p) PROVE OpenInv'
  <2>1. \A q \in Procs : /\ Opening(q)' => Opening(q)
                         /\ Opening(q)' /\ Writing(q)' => Writing(q)
                         /\ trace'[q] \in {"off", "broken"} /\ alive'[q] # "dead"
                              => trace[q] \in {"off", "broken"} /\ alive[q] # "dead"
    <3>1. \A q \in Procs \ {p} : /\ at'[q] = at[q] /\ why'[q] = why[q]
                                 /\ trace'[q] = trace[q] /\ alive'[q] = alive[q]
      BY <1>7 DEF TypeOK, WriteSecond, process
    <3>2. /\ Opening(p)' => Opening(p)
          /\ Opening(p)' /\ Writing(p)' => Writing(p)
          /\ trace'[p] \in {"off", "broken"} /\ alive'[p] # "dead"
               => trace[p] \in {"off", "broken"} /\ alive[p] # "dead"
      BY <1>7 DEF TypeOK, Opening, Writing, WriteSecond, process
    <3> QED BY <3>1, <3>2 DEF Opening, Writing
  <2> QED BY <1>7, <2>1, OpenKept DEF WriteSecond, process
<1>8. ASSUME NEW p \in Procs, Unlock(p) PROVE OpenInv'
  <2>1. /\ ~Opening(p)' /\ (flock' = flock \/ (flock = fd[p] /\ flock' = None))
        /\ UNCHANGED <<process, trace>>
    BY <1>8, ProcFacts DEF Unlock, TypeOK, Opening
  <2>2. /\ at' = [at EXCEPT ![p] = "idle"] /\ why' = [why EXCEPT ![p] = "flush"]
        /\ fd' = fd \/ fd' = [fd EXCEPT ![p] = None]
    BY <1>8 DEF Unlock
  <2>3. \A q \in Procs \ {p} : Opening(q)' = Opening(q) /\ Writing(q)' = Writing(q)
    BY <2>2 DEF TypeOK, Opening, Writing
  <2>4. \A q \in Procs, r \in Roots : fd'[q] = r => fd[q] = r
    BY <2>2 DEF TypeOK
  <2>5. at[p] # "idle" /\ p \notin stuck
    BY <1>8 DEF Unlock, StepInv
  <2>6. ASSUME NEW r \in Procs, Opening(r)'
        PROVE  /\ Writing(r)' => flock' = r
               /\ \A q \in Procs \ {r} : fd'[q] = r => q \in stuck'
    <3>1. r # p /\ Opening(r) /\ (Writing(r)' => Writing(r))
      BY <2>1, <2>3, <2>6
    <3>2. r \in Roots /\ fd[p] # r
      BY <2>5, <3>1 DEF OpenInv, StepInv, Opening
    <3> QED BY <2>1, <2>4, <3>1, <3>2 DEF OpenInv, process
  <2>7. ASSUME NEW r \in Roots, trace'[r] \in {"off", "broken"}, alive'[r] # "dead",
               NEW q \in Procs
        PROVE  fd'[q] # r
    BY <2>1, <2>4, <2>7 DEF OpenInv, process
  <2> QED BY <2>6, <2>7 DEF OpenInv
<1>9. ASSUME NEW p \in Procs, End(p) PROVE OpenInv'
  <2>1. \A q \in Procs : /\ Opening(q)' => Opening(q)
                         /\ Opening(q)' /\ Writing(q)' => Writing(q)
                         /\ trace'[q] \in {"off", "broken"} /\ alive'[q] # "dead"
                              => trace[q] \in {"off", "broken"} /\ alive[q] # "dead"
    <3>1. \A q \in Procs \ {p} : /\ at'[q] = at[q] /\ why'[q] = why[q]
                                 /\ trace'[q] = trace[q] /\ alive'[q] = alive[q]
      BY <1>9 DEF TypeOK, End, DisableNow, Begin, Free
    <3>2. /\ Opening(p)' => Opening(p)
          /\ Opening(p)' /\ Writing(p)' => Writing(p)
          /\ trace'[p] \in {"off", "broken"} /\ alive'[p] # "dead"
               => trace[p] \in {"off", "broken"} /\ alive[p] # "dead"
      BY <1>9 DEF TypeOK, Opening, Writing, End, DisableNow, Begin, Free
    <3> QED BY <3>1, <3>2 DEF Opening, Writing
  <2> QED BY <1>9, <2>1, OpenKept DEF End, disk
<1>10. ASSUME NEW p \in Procs, Finish(p) PROVE OpenInv'
  BY <1>10 DEF TypeOK, StepInv, OpenInv, Opening, Writing, Finish, CloseFile,
     process, memory, disk
<1>11. ASSUME NEW p \in Procs, Kill(p) PROVE OpenInv'
  BY <1>11 DEF TypeOK, StepInv, OpenInv, Opening, Writing, Kill, CloseFile, process, memory, disk
<1>12. ASSUME NEW p \in Procs, NEW c \in Kids, NEW raw \in BOOLEAN, Fork(p, c, raw)
       PROVE  OpenInv'
  BY <1>12 DEF TypeOK, StepInv, OpenInv, Opening, Writing, Fork, process, memory, disk
<1>13. CASE UNCHANGED vars
  BY <1>13 DEF TypeOK, StepInv, OpenInv, Opening, Writing, vars, process, memory, disk
<1> QED BY <1>1, <1>2, <1>3, <1>4, <1>5, <1>6, <1>7,
           <1>8, <1>9, <1>10, <1>11, <1>12, <1>13 DEF Next, FileStep

LEMMA InitOpen == Init => OpenInv
<1> SUFFICES ASSUME Init PROVE OpenInv
  OBVIOUS
<1>1. \A q \in Procs : at[q] = "idle" /\ fd[q] = None
  BY DEF Init
<1>2. \A p \in Procs : ~Opening(p)
  BY <1>1 DEF Opening
<1>3. \A p \in Roots : \A q \in Procs : fd[q] # p
  BY <1>1, ProcFacts
<1> QED BY <1>2, <1>3 DEF OpenInv

LEMMA OpenInvariance == Spec => []OpenInv
<1>1. (TypeOK /\ StepInv) /\ OpenInv /\ [Next]_vars => OpenInv'
  BY StepOpen
<1> QED BY <1>1, InitOpen, TypeInvariance, PTL DEF Spec

-----------------------------------------------------------------------------
(* The header of the file.  As long as it is not complete nobody can write *)
(* an event: whoever has the file open is about to look for the header, or *)
(* was forked meanwhile and waits for good.                                *)
AtHeader(p) == at[p] = "half" /\ why[p] = "enable"

Early == file = <<>> \/ \E p \in Procs : AtHeader(p)

Unready(p) ==
    \/ alive[p] = "dead" \/ p \in stuck
    \/ trace[p] \in {"off", "broken"}
    \/ at[p] # "idle" /\ why[p] = "enable"

HeaderInv ==
    /\ OneHeader
    /\ \A p \in Procs : at[p] \in {"half", "done"} => file # <<>>
    /\ \A p \in Procs : AtHeader(p) => file = <<Half(Header, 1)>>
    /\ Early => \A p \in Procs : Unready(p)

(* What is appended comes last.                                            *)
Halves == [of : Events \cup {Header}, half : {1, 2}]

LEMMA AppendFacts ==
    ASSUME NEW S, NEW s \in Seq(S), NEW x \in S
    PROVE  /\ Len(s) \in Nat /\ Len(Append(s, x)) = Len(s) + 1
           /\ DOMAIN s = 1..Len(s) /\ DOMAIN Append(s, x) = 1..(Len(s) + 1)
           /\ \A i \in 1..Len(s) : Append(s, x)[i] = s[i]
           /\ Append(s, x)[Len(s) + 1] = x
           /\ Append(s, x) # <<>> /\ (s = <<>> <=> Len(s) = 0)
OBVIOUS

LEMMA FileType == TypeOK => file \in Seq(Halves)
BY DEF TypeOK, Halves

LEMMA HeaderKept ==
    ASSUME HeaderInv, UNCHANGED file, stuck \subseteq stuck', NEW p \in Procs,
           \A q \in Procs \ {p} : UNCHANGED <<alive[q], trace[q], at[q], why[q]>>,
           Early /\ Unready(p) => Unready(p)',
           at'[p] \notin {"half", "done"}
    PROVE  HeaderInv'
<1>1. OneHeader'
  BY DEF HeaderInv, OneHeader
<1>2. Early => \A q \in Procs : Unready(q) => Unready(q)'
  BY DEF Unready
<1>3. \A q \in Procs : AtHeader(q)' => AtHeader(q)
  BY DEF AtHeader
<1>4. Early' => Early
  BY <1>3 DEF Early
<1>5. \A q \in Procs : at'[q] \in {"half", "done"} => file' # <<>>
  BY DEF HeaderInv
<1> QED BY <1>1, <1>2, <1>3, <1>4, <1>5 DEF HeaderInv

LEMMA HeaderGrows ==
    ASSUME TypeOK, OneHeader, NEW x \in Halves, file' = Append(file, x),
           x = Half(Header, 1) <=> file = <<>>
    PROVE  OneHeader' /\ file' # <<>>
<1>1. /\ Len(file) \in Nat /\ Len(file') = Len(file) + 1
      /\ \A i \in 1..Len(file) : file'[i] = file[i]
      /\ file'[Len(file) + 1] = x
  BY AppendFacts, FileType
<1>2. /\ file' # <<>> /\ (file = <<>> <=> Len(file) = 0)
      /\ DOMAIN file = 1..Len(file) /\ DOMAIN file' = 1..(Len(file) + 1)
  BY AppendFacts, FileType
<1>3. OneHeader'
  BY <1>1, <1>2 DEF OneHeader
<1> QED BY <1>2, <1>3

LEMMA StepHeader == ASSUME TypeOK, StepInv, OpenInv, HeaderInv, [Next]_vars PROVE HeaderInv'
<1> USE ProcFacts
<1>1. ASSUME NEW p \in Procs, Enable(p) PROVE HeaderInv'
  <2>1. \A q \in Procs \ {p} : UNCHANGED <<alive[q], trace[q], at[q], why[q]>>
    BY <1>1 DEF TypeOK, Enable, Free, Begin, process, memory
  <2>2. Unready(p) => Unready(p)'
    BY <1>1 DEF TypeOK, StepInv, Unready, Enable, Free, Begin, process, memory
  <2>3. at'[p] \notin {"half", "done"}
    BY <1>1 DEF TypeOK, Enable, Free, Begin, process, memory
  <2> QED BY <1>1, <2>1, <2>2, <2>3, HeaderKept DEF Enable, process, disk
<1>2. ASSUME NEW p \in Procs, Record(p) PROVE HeaderInv'
  <2>1. \A q \in Procs \ {p} : UNCHANGED <<alive[q], trace[q], at[q], why[q]>>
    BY <1>2 DEF TypeOK, Record, Free, process, memory
  <2>2. Unready(p) => Unready(p)'
    BY <1>2 DEF TypeOK, StepInv, Unready, Record, Free, process, memory
  <2>3. at'[p] \notin {"half", "done"}
    BY <1>2 DEF TypeOK, Record, Free, process, memory
  <2> QED BY <1>2, <2>1, <2>2, <2>3, HeaderKept DEF Record, process, disk
<1>3. ASSUME NEW p \in Procs, Flush(p) PROVE HeaderInv'
  <2>1. \A q \in Procs \ {p} : UNCHANGED <<alive[q], trace[q], at[q], why[q]>>
    BY <1>3 DEF TypeOK, Flush, Free, Begin, process, memory
  <2>2. Unready(p) => Unready(p)'
    BY <1>3 DEF TypeOK, StepInv, Unready, Flush, Free, Begin, process, memory
  <2>3. at'[p] \notin {"half", "done"}
    BY <1>3 DEF TypeOK, Flush, Free, Begin, process, memory
  <2> QED BY <1>3, <2>1, <2>2, <2>3, HeaderKept DEF Flush, process, disk
<1>4. ASSUME NEW p \in Procs, Disable(p) PROVE HeaderInv'
  <2>1. \A q \in Procs \ {p} : UNCHANGED <<alive[q], trace[q], at[q], why[q]>>
    BY <1>4 DEF TypeOK, Disable, Free, DisableNow, Begin, process, memory
  <2>2. Unready(p) => Unready(p)'
    BY <1>4 DEF TypeOK, StepInv, Unready, Disable, Free, DisableNow, Begin, process, memory
  <2>3. at'[p] \notin {"half", "done"}
    BY <1>4 DEF TypeOK, Disable, Free, DisableNow, Begin, process, memory
  <2> QED BY <1>4, <2>1, <2>2, <2>3, HeaderKept DEF Disable, process, disk
<1>5. ASSUME NEW p \in Procs, LockFile(p) PROVE HeaderInv'
  <2>1. \A q \in Procs \ {p} : UNCHANGED <<alive[q], trace[q], at[q], why[q]>>
    BY <1>5 DEF TypeOK, LockFile, process, memory
  <2>2. Unready(p) => Unready(p)'
    BY <1>5 DEF TypeOK, StepInv, Unready, LockFile, process, memory
  <2>3. at'[p] \notin {"half", "done"}
    BY <1>5 DEF TypeOK, LockFile, process, memory
  <2> QED BY <1>5, <2>1, <2>2, <2>3, HeaderKept DEF LockFile, process, disk
<1>6. ASSUME NEW p \in Procs, WriteFirst(p) PROVE HeaderInv'
  <2> DEFINE e == Head(ToWrite(p))
  <2>1. /\ file' = Append(file, Half(e, 1)) /\ Half(e, 1) \in Halves
        /\ at[p] = "hold" /\ at' = [at EXCEPT ![p] = "half"]
        /\ UNCHANGED <<alive, stuck, trace, why>>
    BY <1>6, ToWriteFacts, HeaderFacts DEF WriteFirst, Halves, process, memory
  <2>2. \A q \in Procs : Unready(q) => Unready(q)'
    BY <2>1 DEF Unready, TypeOK
  <2>3. CASE why[p] = "enable"
    <3>1. file = <<>> /\ e = Header
      BY <1>6, <2>3, ToWriteFacts DEF WriteFirst
    <3>2. file' = <<Half(Header, 1)>>
      BY <2>1, <3>1
    <3>3. OneHeader' /\ file' # <<>>
      BY <2>1, <3>1, HeaderGrows DEF HeaderInv
    <3>4. \A q \in Procs : Unready(q)'
      BY <2>2, <3>1 DEF HeaderInv, Early
    <3> QED BY <3>2, <3>3, <3>4 DEF HeaderInv
  <2>4. CASE why[p] # "enable"
    <3>1. ~Unready(p)
      BY <2>1, <2>4 DEF Unready, StepInv, TypeOK
    <3>2. ~Early
      BY <3>1 DEF HeaderInv
    <3>3. Half(e, 1) # Half(Header, 1)
      BY <1>6, <2>4, ToWriteFacts, HeaderFacts DEF WriteFirst
    <3>4. OneHeader' /\ file' # <<>>
      BY <2>1, <3>2, <3>3, HeaderGrows DEF Early, HeaderInv
    <3>5. \A q \in Procs : ~AtHeader(q)'
      BY <2>1, <2>4, <3>2 DEF Early, AtHeader, TypeOK
    <3> QED BY <3>4, <3>5 DEF HeaderInv, Early
  <2> QED BY <2>3, <2>4
<1>7. ASSUME NEW p \in Procs, WriteSecond(p) PROVE HeaderInv'
  <2> DEFINE e == IF why[p] = "enable" THEN Header ELSE Head(buf[p])
  <2>1. file' = Append(file, Half(e, 2)) /\ file # <<>>
    BY <1>7 DEF WriteSecond, HeaderInv
  <2>2. Half(e, 2) # Half(Header, 1)
    BY HeaderFacts
  <2>3. Half(e, 2) \in Halves
    BY <1>7, HeaderFacts DEF WriteSecond, StepInv, TypeOK, Halves
  <2>4. OneHeader' /\ file' # <<>>
    BY <2>1, <2>2, <2>3, HeaderGrows DEF HeaderInv
  <2>5. \A q \in Procs \ {p} : ~AtHeader(q)
    <3>1. CASE why[p] = "enable"
      BY <1>7, <3>1 DEF WriteSecond, OpenInv, Opening, Writing, AtHeader
    <3>2. CASE why[p] # "enable"
      BY <1>7, <3>2 DEF WriteSecond, StepInv, HeaderInv, Early, Unready, TypeOK
    <3> QED BY <3>1, <3>2
  <2>6. at'[p] # "half" /\ \A q \in Procs \ {p} : at'[q] = at[q] /\ why'[q] = why[q]
    BY <1>7 DEF WriteSecond, TypeOK
  <2>7. \A q \in Procs : ~AtHeader(q)'
    BY <2>5, <2>6 DEF AtHeader
  <2> QED BY <2>4, <2>7 DEF HeaderInv, Early
<1>8. ASSUME NEW p \in Procs, Unlock(p) PROVE HeaderInv'
  <2>1. \A q \in Procs \ {p} : UNCHANGED <<alive[q], trace[q], at[q], why[q]>>
    BY <1>8 DEF TypeOK, Unlock, process
  <2>2. Early => ~Unready(p)
    <3>1. file = <<>> => ~(at[p] = "hold" /\ why[p] = "enable" /\ ToWrite(p) = <<>>)
      BY DEF ToWrite
    <3>2. at[p] \in {"done", "hold"} /\ (at[p] = "done" => file # <<>>)
      BY <1>8 DEF Unlock, HeaderInv
    <3>3. CASE file = <<>>
      BY <1>8, <3>1, <3>2, <3>3 DEF Unlock, StepInv, Unready
    <3>4. ASSUME NEW q \in Procs, AtHeader(q) PROVE ~Unready(p)
      <4>1. q # p
        BY <3>2, <3>4 DEF AtHeader
      <4>2. ~Opening(p)
        BY <3>2, <3>4, <4>1 DEF OpenInv, Opening, Writing, AtHeader
      <4> QED BY <3>2, <4>2 DEF StepInv, Unready, Opening
    <3> QED BY <3>3, <3>4 DEF Early
  <2>3. at'[p] \notin {"half", "done"}
    BY <1>8 DEF TypeOK, Unlock
  <2> QED BY <1>8, <2>1, <2>2, <2>3, HeaderKept DEF Unlock, process
<1>9. ASSUME NEW p \in Procs, End(p) PROVE HeaderInv'
  <2>1. \A q \in Procs \ {p} : UNCHANGED <<alive[q], trace[q], at[q], why[q]>>
    BY <1>9 DEF TypeOK, End, Free, DisableNow, Begin, process, memory
  <2>2. Unready(p) => Unready(p)'
    BY <1>9 DEF TypeOK, StepInv, Unready, End, Free, DisableNow, Begin, process, memory
  <2>3. at'[p] \notin {"half", "done"}
    BY <1>9 DEF TypeOK, End, Free, DisableNow, Begin, process, memory
  <2> QED BY <1>9, <2>1, <2>2, <2>3, HeaderKept DEF End, process, disk
<1>10. ASSUME NEW p \in Procs, Finish(p) PROVE HeaderInv'
  <2>1. \A q \in Procs \ {p} : UNCHANGED <<alive[q], trace[q], at[q], why[q]>>
    BY <1>10 DEF TypeOK, Finish, CloseFile, process, memory
  <2>2. Unready(p) => Unready(p)'
    BY <1>10 DEF TypeOK, StepInv, Unready, Finish, CloseFile, process, memory
  <2>3. at'[p] \notin {"half", "done"}
    BY <1>10 DEF TypeOK, Finish, CloseFile, process, memory
  <2> QED BY <1>10, <2>1, <2>2, <2>3, HeaderKept DEF Finish, process, disk
<1>11. ASSUME NEW p \in Procs, Kill(p) PROVE HeaderInv'
  <2>1. \A q \in Procs \ {p} : UNCHANGED <<alive[q], trace[q], at[q], why[q]>>
    BY <1>11 DEF TypeOK, Kill, CloseFile, process, memory
  <2>2. Unready(p) => Unready(p)'
    BY <1>11 DEF TypeOK, StepInv, Unready, Kill, CloseFile, process, memory
  <2>3. at'[p] \notin {"half", "done"}
    BY <1>11 DEF TypeOK, Kill, CloseFile, process, memory
  <2> QED BY <1>11, <2>1, <2>2, <2>3, HeaderKept DEF Kill, process, disk
<1>12. ASSUME NEW p \in Procs, NEW c \in Kids, NEW raw \in BOOLEAN, Fork(p, c, raw)
       PROVE  HeaderInv'
  <2>1. \A q \in Procs : at'[q] = at[q] /\ why'[q] = why[q]
    BY <1>12 DEF Fork
  <2>2. \A q \in Procs \ {c} : alive'[q] = alive[q] /\ trace'[q] = trace[q]
    BY <1>12 DEF Fork, TypeOK
  <2>3. Unready(p) => c \in stuck'
    BY <1>12 DEF Fork, Unready
  <2>4. \A q \in stuck : q \in stuck'
    BY <1>12 DEF Fork
  <2>5. (\A q \in Procs : Unready(q)) => \A q \in Procs : Unready(q)'
    BY <2>1, <2>2, <2>3, <2>4 DEF Unready
  <2>6. file' = file
    BY <1>12 DEF Fork, disk
  <2>7. \A q \in Procs : AtHeader(q)' <=> AtHeader(q)
    BY <2>1 DEF AtHeader
  <2> QED BY <2>1, <2>5, <2>6, <2>7 DEF HeaderInv, OneHeader, Early
<1>13. CASE UNCHANGED vars
  BY <1>13 DEF HeaderInv, OneHeader, Early, AtHeader, Unready, vars, process, memory, disk
<1> QED BY <1>1, <1>2, <1>3, <1>4, <1>5, <1>6, <1>7,
           <1>8, <1>9, <1>10, <1>11, <1>12, <1>13 DEF Next, FileStep

LEMMA InitHeader == Init => HeaderInv
BY DEF Init, HeaderInv, OneHeader, AtHeader, Unready

LEMMA HeaderInvariance == Spec => []HeaderInv
<1>1. (TypeOK /\ StepInv) /\ OpenInv /\ HeaderInv /\ [Next]_vars => HeaderInv'
  BY StepHeader
<1> QED BY <1>1, InitHeader, TypeInvariance, OpenInvariance, PTL DEF Spec

(* The log file begins with a header and has no other, whoever opens it    *)
(* and whoever is forked or killed in between.                             *)
THEOREM TraceLogOneHeader == Spec => []OneHeader
<1>1. HeaderInv => OneHeader
  BY DEF HeaderInv
<1> QED BY <1>1, HeaderInvariance, PTL

-----------------------------------------------------------------------------
(* Whose events are in memory.  A process that has recorded one has only   *)
(* its own, in the order of their numbers, the last ones it has recorded;  *)
(* another one has none, or its parent's if it was forked.                 *)
Written(p) == count[p] - Len(buf[p])

Numbered(p) ==
    /\ Len(buf[p]) <= count[p]
    /\ \A i \in 1..Len(buf[p]) : buf[p][i] = <<p, Written(p) + i>>

Own(p) ==
    /\ owner[p] # p => count[p] = 0
    /\ p \in Roots => owner[p] \in {None, p}
    /\ owner[p] = None => buf[p] = <<>>
    /\ owner[p] = p => Numbered(p)
    /\ at[p] # "idle" /\ why[p] = "enable" => alive[p] = "running"

OwnInv ==
    /\ \A p \in Procs : Own(p)
    /\ \A p, q \in Procs : owner[q] = p => alive[p] # "absent"

OthersKept(p) ==
    \A q \in Procs \ {p} :
      UNCHANGED <<alive[q], owner[q], buf[q], count[q], at[q], why[q]>>

LEMMA TailFacts ==
    ASSUME NEW S, NEW s \in Seq(S), s # <<>>
    PROVE  /\ Len(s) \in Nat \ {0} /\ Len(Tail(s)) = Len(s) - 1
           /\ \A i \in 1..(Len(s) - 1) : Tail(s)[i] = s[i + 1]
           /\ Head(s) = s[1]
OBVIOUS

(* What recording an event and writing one do to the numbers.              *)
LEMMA RecordFacts ==
    ASSUME TypeOK, OwnInv, NEW p \in Procs, Record(p)
    PROVE  Numbered(p)' /\ Written(p)' = IF owner[p] = p THEN Written(p) ELSE 0
<1> DEFINE old == IF owner[p] = p THEN buf[p] ELSE <<>>
           event == <<p, count[p] + 1>>
<1>1. /\ buf' = [buf EXCEPT ![p] = Append(old, event)]
      /\ count' = [count EXCEPT ![p] = @ + 1]
  BY DEF Record
<1>2. /\ event \in Events /\ old \in Seq(Events)
      /\ count[p] \in Nat /\ count'[p] = count[p] + 1
  BY <1>1, TraceLogConstants DEF Record, TypeOK, Events
<1>3. /\ Len(old) <= count[p]
      /\ \A i \in 1..Len(old) : old[i] = <<p, count[p] - Len(old) + i>>
  BY <1>2 DEF OwnInv, Own, Numbered, Written
<1>4. owner[p] # p => Len(old) = 0 /\ count[p] = 0
  BY DEF OwnInv, Own
<1>5. Written(p) = count[p] - Len(buf[p]) /\ (owner[p] = p => old = buf[p])
  BY DEF Written
<1> HIDE DEF old
<1>6. /\ Len(Append(old, event)) = Len(old) + 1 /\ Len(old) \in Nat
      /\ \A i \in 1..Len(old) : Append(old, event)[i] = old[i]
      /\ Append(old, event)[Len(old) + 1] = event
  <2> HIDE DEF event
  <2> QED BY <1>2, AppendFacts
<1>7. buf'[p] = Append(old, event)
  BY <1>1 DEF TypeOK
<1>8. /\ Len(buf'[p]) = Len(old) + 1
      /\ Written(p)' = count[p] - Len(old)
  BY <1>2, <1>6, <1>7 DEF Written
<1>9. ASSUME NEW i \in 1..Len(buf'[p]) PROVE buf'[p][i] = <<p, Written(p)' + i>>
  <2>1. CASE i = Len(old) + 1
    <3>1. Written(p)' + i = count[p] + 1
      BY <1>2, <1>6, <1>8, <2>1
    <3> QED BY <1>6, <1>7, <2>1, <3>1
  <2>2. CASE i # Len(old) + 1
    <3>1. i \in 1..Len(old)
      BY <1>6, <1>8, <2>2
    <3> QED BY <1>3, <1>6, <1>7, <1>8, <3>1
  <2> QED BY <2>1, <2>2
<1>10. Len(buf'[p]) <= count'[p]
  BY <1>2, <1>3, <1>6, <1>8
<1>11. Written(p)' = IF owner[p] = p THEN Written(p) ELSE 0
  BY <1>2, <1>4, <1>5, <1>8
<1> QED BY <1>9, <1>10, <1>11 DEF Numbered

LEMMA WriteFacts ==
    ASSUME TypeOK, StepInv, OwnInv, NEW p \in Procs, why[p] # "enable",
           owner[p] = p, WriteSecond(p)
    PROVE  /\ Numbered(p)' /\ Written(p) \in Nat /\ Written(p)' = Written(p) + 1
           /\ Head(buf[p]) = <<p, Written(p) + 1>>
<1>1. /\ buf' = [buf EXCEPT ![p] = Tail(@)] /\ count' = count /\ at[p] = "half"
  BY DEF WriteSecond
<1>2. buf[p] \in Seq(Events) /\ buf[p] # <<>>
  BY <1>1 DEF StepInv, TypeOK
<1>3. buf'[p] = Tail(buf[p])
  BY <1>1 DEF TypeOK
<1>4. /\ Len(buf[p]) \in Nat \ {0} /\ Len(buf'[p]) = Len(buf[p]) - 1
      /\ \A i \in 1..(Len(buf[p]) - 1) : buf'[p][i] = buf[p][i + 1]
      /\ Head(buf[p]) = buf[p][1]
  BY <1>2, <1>3, TailFacts
<1>5. count[p] \in Nat /\ count'[p] = count[p]
  BY <1>1 DEF TypeOK
<1>6. Numbered(p)
  BY DEF OwnInv, Own
<1>7. Written(p)' = Written(p) + 1 /\ Written(p) \in Nat
  BY <1>4, <1>5, <1>6 DEF Written, Numbered
<1>8. ASSUME NEW i \in 1..(Len(buf[p]) - 1)
      PROVE  buf'[p][i] = <<p, Written(p)' + i>>
  <2>1. buf[p][i + 1] = <<p, Written(p) + (i + 1)>>
    BY <1>4, <1>6 DEF Numbered
  <2>2. Written(p) + (i + 1) = Written(p)' + i
    BY <1>4, <1>7
  <2> QED BY <1>4, <2>1, <2>2
<1>9. Numbered(p)'
  BY <1>4, <1>5, <1>6, <1>8 DEF Numbered
<1>10. Head(buf[p]) = <<p, Written(p) + 1>>
  BY <1>4, <1>6 DEF Numbered
<1> QED BY <1>7, <1>9, <1>10

LEMMA OwnKept ==
    ASSUME OwnInv, NEW p \in Procs, OthersKept(p), Own(p)',
           owner'[p] \in {owner[p], p, None},
           alive[p] # "absent", alive'[p] # "absent"
    PROVE  OwnInv'
<1>1. ASSUME NEW q \in Procs, q # p PROVE Own(q)'
  BY <1>1 DEF OwnInv, Own, Numbered, Written, OthersKept
<1>2. ASSUME NEW r \in Procs, NEW q \in Procs, owner'[q] = r PROVE alive'[r] # "absent"
  BY <1>2, ProcFacts DEF OwnInv, OthersKept
<1> QED BY <1>1, <1>2 DEF OwnInv

LEMMA OwnUntouched ==
    ASSUME OwnInv, NEW p \in Procs, OthersKept(p),
           UNCHANGED <<owner[p], count[p], buf[p]>>,
           alive[p] # "absent", alive'[p] # "absent",
           at'[p] # "idle" /\ why'[p] = "enable" => alive'[p] = "running"
    PROVE  OwnInv'
<1>1. Own(p)'
  BY DEF OwnInv, Own, Numbered, Written
<1> QED BY <1>1, OwnKept

LEMMA StepOwn == ASSUME TypeOK, StepInv, OwnInv, [Next]_vars PROVE OwnInv'
<1> USE ProcFacts
<1>1. ASSUME NEW p \in Procs, Enable(p) PROVE OwnInv'
  <2>1. OthersKept(p)
    BY <1>1 DEF TypeOK, OthersKept, Enable, Free, Begin, process, memory
  <2>2. UNCHANGED <<owner[p], count[p], buf[p]>> /\ alive[p] # "absent" /\ alive'[p] # "absent"
    BY <1>1 DEF TypeOK, StepInv, Enable, Free, Begin, process, memory
  <2>3. at'[p] # "idle" /\ why'[p] = "enable" => alive'[p] = "running"
    BY <1>1 DEF TypeOK, OwnInv, Own, Enable, Free, Begin, process, memory
  <2> QED BY <2>1, <2>2, <2>3, OwnUntouched
<1>2. ASSUME NEW p \in Procs, Record(p) PROVE OwnInv'
  <2>1. Numbered(p)'
    BY <1>2, RecordFacts
  <2>2. OthersKept(p) /\ owner'[p] = p /\ at'[p] = "idle" /\ alive[p] = "running" /\ alive'[p] = "running"
    BY <1>2 DEF Record, Free, process, OthersKept, TypeOK
  <2>3. Own(p)'
    BY <2>1, <2>2 DEF Own
  <2> QED BY <2>2, <2>3, OwnKept
<1>3. ASSUME NEW p \in Procs, Flush(p) PROVE OwnInv'
  <2>1. OthersKept(p)
    BY <1>3 DEF TypeOK, OthersKept, Flush, Free, Begin, process, memory
  <2>2. UNCHANGED <<owner[p], count[p], buf[p]>> /\ alive[p] # "absent" /\ alive'[p] # "absent"
    BY <1>3 DEF TypeOK, StepInv, Flush, Free, Begin, process, memory
  <2>3. at'[p] # "idle" /\ why'[p] = "enable" => alive'[p] = "running"
    BY <1>3 DEF TypeOK, OwnInv, Own, Flush, Free, Begin, process, memory
  <2> QED BY <2>1, <2>2, <2>3, OwnUntouched
<1>4. ASSUME NEW p \in Procs, Disable(p) PROVE OwnInv'
  <2>1. OthersKept(p)
    BY <1>4 DEF TypeOK, OthersKept, Disable, Free, DisableNow, Begin, process, memory
  <2>2. UNCHANGED <<owner[p], count[p], buf[p]>> /\ alive[p] # "absent" /\ alive'[p] # "absent"
    BY <1>4 DEF TypeOK, StepInv, Disable, Free, DisableNow, Begin, process, memory
  <2>3. at'[p] # "idle" /\ why'[p] = "enable" => alive'[p] = "running"
    BY <1>4 DEF TypeOK, OwnInv, Own, Disable, Free, DisableNow, Begin, process, memory
  <2> QED BY <2>1, <2>2, <2>3, OwnUntouched
<1>5. ASSUME NEW p \in Procs, LockFile(p) PROVE OwnInv'
  <2>1. OthersKept(p)
    BY <1>5 DEF TypeOK, OthersKept, LockFile, process, memory
  <2>2. UNCHANGED <<owner[p], count[p], buf[p]>> /\ alive[p] # "absent" /\ alive'[p] # "absent"
    BY <1>5 DEF TypeOK, StepInv, LockFile, process, memory
  <2>3. at'[p] # "idle" /\ why'[p] = "enable" => alive'[p] = "running"
    BY <1>5 DEF TypeOK, OwnInv, Own, LockFile, process, memory
  <2> QED BY <2>1, <2>2, <2>3, OwnUntouched
<1>6. ASSUME NEW p \in Procs, WriteFirst(p) PROVE OwnInv'
  <2>1. OthersKept(p)
    BY <1>6 DEF TypeOK, OthersKept, WriteFirst, process, memory
  <2>2. UNCHANGED <<owner[p], count[p], buf[p]>> /\ alive[p] # "absent" /\ alive'[p] # "absent"
    BY <1>6 DEF TypeOK, StepInv, WriteFirst, process, memory
  <2>3. at'[p] # "idle" /\ why'[p] = "enable" => alive'[p] = "running"
    BY <1>6 DEF TypeOK, OwnInv, Own, WriteFirst, process, memory
  <2> QED BY <2>1, <2>2, <2>3, OwnUntouched
<1>7. ASSUME NEW p \in Procs, WriteSecond(p) PROVE OwnInv'
  <2>1. CASE why[p] = "enable"
    <3>1. OthersKept(p) /\ UNCHANGED <<owner[p], count[p], buf[p], alive[p], why[p]>>
      BY <1>7, <2>1 DEF TypeOK, OthersKept, WriteSecond, process
    <3>2. alive[p] = "running"
      BY <1>7, <2>1 DEF WriteSecond, OwnInv, Own
    <3> QED BY <2>1, <3>1, <3>2, OwnUntouched
  <2>2. CASE why[p] # "enable"
    <3>1. /\ UNCHANGED <<owner, count, alive, why>>
          /\ at[p] = "half" /\ buf[p] # <<>> /\ owner[p] # None
      BY <1>7, <2>2 DEF WriteSecond, process, StepInv, OwnInv, Own
    <3>2. OthersKept(p) /\ alive[p] # "absent"
      BY <1>7 DEF WriteSecond, process, OthersKept, TypeOK, StepInv
    <3>3. owner[p] = p => Numbered(p)'
      BY <1>7, <2>2, WriteFacts
    <3>4. Own(p)'
      BY <2>2, <3>1, <3>3 DEF Own, OwnInv
    <3> QED BY <3>1, <3>2, <3>4, OwnKept
  <2> QED BY <2>1, <2>2
<1>8. ASSUME NEW p \in Procs, Unlock(p) PROVE OwnInv'
  <2>1. OthersKept(p)
    BY <1>8 DEF TypeOK, OthersKept, Unlock, process, memory
  <2>2. UNCHANGED <<owner[p], count[p], buf[p]>> /\ alive[p] # "absent" /\ alive'[p] # "absent"
    BY <1>8 DEF TypeOK, StepInv, Unlock, process, memory
  <2>3. at'[p] # "idle" /\ why'[p] = "enable" => alive'[p] = "running"
    BY <1>8 DEF TypeOK, OwnInv, Own, Unlock, process, memory
  <2> QED BY <2>1, <2>2, <2>3, OwnUntouched
<1>9. ASSUME NEW p \in Procs, End(p) PROVE OwnInv'
  <2>1. OthersKept(p)
    BY <1>9 DEF TypeOK, OthersKept, End, Free, DisableNow, Begin, process, memory
  <2>2. UNCHANGED <<owner[p], count[p], buf[p]>> /\ alive[p] # "absent" /\ alive'[p] # "absent"
    BY <1>9 DEF TypeOK, StepInv, End, Free, DisableNow, Begin, process, memory
  <2>3. at'[p] # "idle" /\ why'[p] = "enable" => alive'[p] = "running"
    BY <1>9 DEF TypeOK, OwnInv, Own, End, Free, DisableNow, Begin, process, memory
  <2> QED BY <2>1, <2>2, <2>3, OwnUntouched
<1>10. ASSUME NEW p \in Procs, Finish(p) PROVE OwnInv'
  <2>1. OthersKept(p)
    BY <1>10 DEF TypeOK, OthersKept, Finish, CloseFile, process, memory
  <2>2. UNCHANGED <<owner[p], count[p], buf[p]>> /\ alive[p] # "absent" /\ alive'[p] # "absent"
    BY <1>10 DEF TypeOK, StepInv, Finish, CloseFile, process, memory
  <2>3. at'[p] # "idle" /\ why'[p] = "enable" => alive'[p] = "running"
    BY <1>10 DEF TypeOK, OwnInv, Own, Finish, CloseFile, process, memory
  <2> QED BY <2>1, <2>2, <2>3, OwnUntouched
<1>11. ASSUME NEW p \in Procs, Kill(p) PROVE OwnInv'
  <2>1. OthersKept(p) /\ alive[p] # "absent" /\ alive'[p] # "absent"
    BY <1>11 DEF TypeOK, OthersKept, Kill
  <2>2. /\ owner'[p] = None /\ buf'[p] = <<>> /\ count'[p] = 0 /\ at'[p] = "idle"
    BY <1>11 DEF TypeOK, Kill
  <2>3. Own(p)'
    BY <2>2, ProcFacts DEF Own
  <2> QED BY <2>1, <2>2, <2>3, OwnKept
<1>12. ASSUME NEW p \in Procs, NEW c \in Kids, NEW raw \in BOOLEAN, Fork(p, c, raw)
       PROVE  OwnInv'
  <2>1. /\ alive[c] = "absent" /\ alive[p] # "absent" /\ c \notin Roots
        /\ alive' = [alive EXCEPT ![c] = "running"]
        /\ owner' = [owner EXCEPT ![c] = owner[p]]
        /\ buf' = [buf EXCEPT ![c] = buf[p]] /\ UNCHANGED <<count, at, why>>
    BY <1>12, TraceLogConstants DEF Fork
  <2>2. Own(c)'
    BY <2>1 DEF Own, OwnInv, StepInv, TypeOK
  <2>3. ASSUME NEW q \in Procs, q # c PROVE Own(q)'
    BY <2>1, <2>3 DEF OwnInv, Own, Numbered, Written, TypeOK
  <2>4. ASSUME NEW r \in Procs, NEW q \in Procs, owner'[q] = r
        PROVE  alive'[r] # "absent"
    BY <2>1, <2>4 DEF OwnInv, TypeOK
  <2> QED BY <2>2, <2>3, <2>4 DEF OwnInv
<1>13. CASE UNCHANGED vars
  BY <1>13 DEF OwnInv, Own, Numbered, Written, vars, process, memory, disk
<1> QED BY <1>1, <1>2, <1>3, <1>4, <1>5, <1>6, <1>7,
           <1>8, <1>9, <1>10, <1>11, <1>12, <1>13 DEF Next, FileStep

LEMMA InitOwn == Init => OwnInv
BY ProcFacts, TraceLogConstants DEF Init, OwnInv, Own, Numbered, Written

LEMMA OwnInvariance == Spec => []OwnInv
<1>1. (TypeOK /\ StepInv) /\ OwnInv /\ [Next]_vars => OwnInv'
  BY StepOwn
<1> QED BY <1>1, InitOwn, TypeInvariance, PTL DEF Spec

-----------------------------------------------------------------------------
(* Nothing is forgotten.  What a process has written is in the file, and   *)
(* one that has ended, or closed the file, has written everything.         *)
InOrder(p) == owner[p] = p => \A n \in 1..Written(p) : InFile(<<p, n>>)

Drained(p) ==
    /\ at[p] = "idle"
    /\ \/ trace[p] = "closed"
       \/ trace[p] = "on" /\ alive[p] \in {"ending", "dead"}
    => owner[p] # p \/ buf[p] = <<>>

KeptInv == \A p \in Procs : InOrder(p) /\ Drained(p)

LEMMA FileGrows ==
    ASSUME TypeOK, NEW x \in Halves, file' = Append(file, x)
    PROVE  /\ \A e : InFile(e) => InFile(e)'
           /\ \A e : x = Half(e, 2) => InFile(e)'
<1>1. /\ Len(file) \in Nat /\ DOMAIN file = 1..Len(file)
      /\ DOMAIN file' = 1..(Len(file) + 1)
      /\ \A i \in 1..Len(file) : file'[i] = file[i]
      /\ file'[Len(file) + 1] = x
  BY AppendFacts, FileType
<1>2. \A i \in DOMAIN file : i \in DOMAIN file' /\ file'[i] = file[i]
  BY <1>1
<1>3. Len(file) + 1 \in DOMAIN file'
  BY <1>1
<1> QED BY <1>1, <1>2, <1>3 DEF InFile

LEMMA KeptUntouched ==
    ASSUME KeptInv, UNCHANGED <<owner, buf, count>>, \A e : InFile(e) => InFile(e)',
           NEW p \in Procs, Drained(p)',
           \A q \in Procs \ {p} : UNCHANGED <<at[q], trace[q], alive[q]>>
    PROVE  KeptInv'
<1>1. \A q \in Procs : InOrder(q)'
  BY DEF KeptInv, InOrder, Written
<1>2. \A q \in Procs \ {p} : Drained(q)'
  BY DEF KeptInv, Drained
<1> QED BY <1>1, <1>2 DEF KeptInv

LEMMA StepKept == ASSUME TypeOK, StepInv, OwnInv, KeptInv, [Next]_vars PROVE KeptInv'
<1> USE ProcFacts
<1>1. ASSUME NEW p \in Procs, Enable(p) PROVE KeptInv'
  <2>1. UNCHANGED <<owner, buf, count>> /\ (\A e : InFile(e) => InFile(e)')
    BY <1>1 DEF TypeOK, Enable, memory, disk, InFile
  <2>2. \A q \in Procs \ {p} : UNCHANGED <<at[q], trace[q], alive[q]>>
    BY <1>1 DEF TypeOK, Enable, Free, Begin, process, memory
  <2>3. Drained(p)'
    BY <1>1 DEF TypeOK, StepInv, KeptInv, Drained, Enable, Free, Begin, process, memory
  <2> QED BY <2>1, <2>2, <2>3, KeptUntouched
<1>2. ASSUME NEW p \in Procs, Record(p) PROVE KeptInv'
  <2>1. /\ Written(p)' = IF owner[p] = p THEN Written(p) ELSE 0
        /\ \A q \in Procs \ {p} : Written(q)' = Written(q) /\ owner'[q] = owner[q]
    BY <1>2, RecordFacts DEF Record, Written, TypeOK
  <2>2. UNCHANGED <<at, trace, alive, file>> /\ alive[p] = "running" /\ Enabled(p)
    BY <1>2 DEF Record, Free, process, disk
  <2>3. \A e : InFile(e)' <=> InFile(e)
    BY <2>2 DEF InFile
  <2>4. \A q \in Procs : InOrder(q)'
    BY <2>1, <2>3 DEF KeptInv, InOrder
  <2>5. Drained(p)'
    BY <2>2 DEF Drained, Enabled
  <2>6. \A q \in Procs \ {p} : Drained(q)'
    BY <1>2, <2>2 DEF KeptInv, Drained, Record, TypeOK
  <2> QED BY <2>4, <2>5, <2>6 DEF KeptInv
<1>3. ASSUME NEW p \in Procs, Flush(p) PROVE KeptInv'
  <2>1. UNCHANGED <<owner, buf, count>> /\ (\A e : InFile(e) => InFile(e)')
    BY <1>3 DEF TypeOK, Flush, memory, disk, InFile
  <2>2. \A q \in Procs \ {p} : UNCHANGED <<at[q], trace[q], alive[q]>>
    BY <1>3 DEF TypeOK, Flush, Free, Begin, process, memory
  <2>3. Drained(p)'
    BY <1>3 DEF TypeOK, StepInv, KeptInv, Drained, Flush, Free, Begin, process, memory
  <2> QED BY <2>1, <2>2, <2>3, KeptUntouched
<1>4. ASSUME NEW p \in Procs, Disable(p) PROVE KeptInv'
  <2>1. UNCHANGED <<owner, buf, count>> /\ (\A e : InFile(e) => InFile(e)')
    BY <1>4 DEF TypeOK, Disable, memory, disk, InFile
  <2>2. \A q \in Procs \ {p} : UNCHANGED <<at[q], trace[q], alive[q]>>
    BY <1>4 DEF TypeOK, Disable, Free, DisableNow, Begin, process, memory
  <2>3. Drained(p)'
    BY <1>4 DEF TypeOK, StepInv, KeptInv, Drained, Disable, Free, DisableNow,
       Begin, process, memory
  <2> QED BY <2>1, <2>2, <2>3, KeptUntouched
<1>5. ASSUME NEW p \in Procs, LockFile(p) PROVE KeptInv'
  <2>1. UNCHANGED <<owner, buf, count>> /\ (\A e : InFile(e) => InFile(e)')
    BY <1>5 DEF TypeOK, LockFile, memory, disk, InFile
  <2>2. \A q \in Procs \ {p} : UNCHANGED <<at[q], trace[q], alive[q]>>
    BY <1>5 DEF TypeOK, LockFile, process, memory
  <2>3. Drained(p)'
    BY <1>5 DEF TypeOK, StepInv, KeptInv, Drained, LockFile, process, memory
  <2> QED BY <2>1, <2>2, <2>3, KeptUntouched
<1>6. ASSUME NEW p \in Procs, WriteFirst(p) PROVE KeptInv'
  <2>1. UNCHANGED <<owner, buf, count, trace, alive>> /\ at' = [at EXCEPT ![p] = "half"]
    BY <1>6 DEF WriteFirst, process, memory
  <2>2. \A e : InFile(e) => InFile(e)'
    <3>1. Half(Head(ToWrite(p)), 1) \in Halves
      BY <1>6, ToWriteFacts, HeaderFacts DEF WriteFirst, Halves
    <3> QED BY <1>6, <3>1, FileGrows DEF WriteFirst
  <2>3. (\A q \in Procs \ {p} : at'[q] = at[q]) /\ Drained(p)'
    BY <2>1 DEF TypeOK, Drained
  <2> QED BY <2>1, <2>2, <2>3, KeptUntouched
<1>7. ASSUME NEW p \in Procs, WriteSecond(p) PROVE KeptInv'
  <2> DEFINE e == IF why[p] = "enable" THEN Header ELSE Head(buf[p])
  <2>1. file' = Append(file, Half(e, 2)) /\ Half(e, 2) \in Halves
    <3>1. e \in Events \cup {Header}
      BY <1>7 DEF WriteSecond, StepInv, TypeOK
    <3>2. file' = Append(file, Half(e, 2))
      BY <1>7 DEF WriteSecond
    <3> HIDE DEF e
    <3> QED BY <3>1, <3>2, HeaderFacts DEF Halves
  <2>2. \A f : InFile(f) \/ f = e => InFile(f)'
    BY <2>1, FileGrows
  <2>3. (\A q \in Procs \ {p} : at'[q] = at[q]) /\ at'[p] # "idle"
        /\ UNCHANGED <<owner, count, trace, alive>>
    BY <1>7 DEF WriteSecond, TypeOK, process
  <2>4. Drained(p)'
    BY <2>3 DEF Drained
  <2>5. CASE why[p] = "enable"
    <3>1. buf' = buf
      BY <1>7, <2>5 DEF WriteSecond
    <3> QED BY <2>2, <2>3, <2>4, <3>1, KeptUntouched
  <2>6. CASE why[p] # "enable"
    <3>2. \A q \in Procs \ {p} : buf'[q] = buf[q] /\ Written(q)' = Written(q)
      BY <1>7, <2>3 DEF WriteSecond, Written, TypeOK
    <3>3. InOrder(p)'
      <4> SUFFICES ASSUME owner[p] = p, NEW n \in 1..Written(p)'
                   PROVE  InFile(<<p, n>>)'
        BY <2>3 DEF InOrder
      <4>1. /\ Written(p) \in Nat /\ Written(p)' = Written(p) + 1
            /\ Head(buf[p]) = <<p, Written(p) + 1>>
        BY <1>7, <2>6, WriteFacts
      <4>2. CASE n \in 1..Written(p)
        BY <2>2, <4>2 DEF KeptInv, InOrder
      <4>3. CASE n = Written(p) + 1
        BY <2>2, <2>6, <4>1, <4>3
      <4> QED BY <4>1, <4>2, <4>3
    <3>4. \A q \in Procs \ {p} : InOrder(q)' /\ Drained(q)'
      BY <2>2, <2>3, <3>2 DEF KeptInv, InOrder, Drained
    <3> QED BY <2>4, <3>3, <3>4 DEF KeptInv
  <2> QED BY <2>5, <2>6
<1>8. ASSUME NEW p \in Procs, Unlock(p) PROVE KeptInv'
  <2>1. UNCHANGED <<owner, buf, count, file, trace, alive>>
    BY <1>8 DEF Unlock, process
  <2>2. \A q \in Procs \ {p} : at'[q] = at[q]
    BY <1>8 DEF Unlock, TypeOK
  <2>3. \A e : InFile(e) => InFile(e)'
    BY <2>1 DEF InFile
  <2>4. Drained(p)'
    <3>1. CASE why[p] = "enable"
      <4>1. alive[p] = "running" /\ trace[p] = "on"
        BY <1>8, <3>1 DEF Unlock, OwnInv, Own, StepInv
      <4> QED BY <2>1, <4>1 DEF Drained
    <3>2. CASE why[p] # "enable"
      <4>1. buf[p] = <<>>
        BY <1>8, <3>2 DEF Unlock, ToWrite, StepInv
      <4> QED BY <2>1, <4>1 DEF Drained
    <3> QED BY <3>1, <3>2
  <2> QED BY <2>1, <2>2, <2>3, <2>4, KeptUntouched
<1>9. ASSUME NEW p \in Procs, End(p) PROVE KeptInv'
  <2>1. UNCHANGED <<owner, buf, count, file>>
    BY <1>9 DEF End, disk
  <2>2. \A q \in Procs \ {p} : UNCHANGED <<at[q], trace[q], alive[q]>>
    BY <1>9 DEF End, DisableNow, Begin, TypeOK
  <2>3. \A e : InFile(e) => InFile(e)'
    BY <2>1 DEF InFile
  <2>4. Drained(p)'
    <3>1. \/ at'[p] # "idle" \/ trace'[p] = "off"
          \/ at'[p] = at[p] /\ trace'[p] = trace[p] /\ ~(AtExit(p) /\ Enabled(p)) /\ p \in allowed
      BY <1>9 DEF End, DisableNow, Begin, TypeOK
    <3>2. CASE at'[p] # "idle" \/ trace'[p] = "off"
      BY <3>2 DEF Drained
    <3>3. CASE at'[p] = at[p] /\ trace'[p] = trace[p] /\ ~(AtExit(p) /\ Enabled(p)) /\ p \in allowed
      BY <2>1, <3>3 DEF Drained, KeptInv, AtExit, Enabled
    <3> QED BY <3>1, <3>2, <3>3
  <2> QED BY <2>1, <2>2, <2>3, <2>4, KeptUntouched
<1>10. ASSUME NEW p \in Procs, Finish(p) PROVE KeptInv'
  <2>1. UNCHANGED <<owner, buf, count>> /\ (\A e : InFile(e) => InFile(e)')
    BY <1>10 DEF TypeOK, Finish, memory, disk, InFile
  <2>2. \A q \in Procs \ {p} : UNCHANGED <<at[q], trace[q], alive[q]>>
    BY <1>10 DEF TypeOK, Finish, CloseFile, process, memory
  <2>3. Drained(p)'
    BY <1>10 DEF TypeOK, StepInv, KeptInv, Drained, Finish, CloseFile, process, memory
  <2> QED BY <2>1, <2>2, <2>3, KeptUntouched
<1>11. ASSUME NEW p \in Procs, Kill(p) PROVE KeptInv'
  <2>1. /\ owner'[p] = None /\ trace'[p] = "off" /\ file' = file
        /\ \A q \in Procs \ {p} : UNCHANGED <<owner[q], buf[q], count[q], at[q], trace[q], alive[q]>>
    BY <1>11 DEF Kill, TypeOK
  <2>2. \A e : InFile(e)' <=> InFile(e)
    BY <2>1 DEF InFile
  <2>3. InOrder(p)' /\ Drained(p)'
    BY <2>1 DEF InOrder, Drained
  <2>4. \A q \in Procs \ {p} : InOrder(q)' /\ Drained(q)'
    BY <2>1, <2>2 DEF KeptInv, InOrder, Drained, Written
  <2> QED BY <2>3, <2>4 DEF KeptInv
<1>12. ASSUME NEW p \in Procs, NEW c \in Kids, NEW raw \in BOOLEAN, Fork(p, c, raw)
       PROVE  KeptInv'
  <2>1. /\ alive'[c] = "running" /\ trace'[c] = "on" /\ owner'[c] = owner[p] /\ alive[c] = "absent"
        /\ UNCHANGED <<count, at, file>>
        /\ \A q \in Procs \ {c} : UNCHANGED <<owner[q], buf[q], trace[q], alive[q]>>
    BY <1>12 DEF Fork, TypeOK, disk
  <2>2. owner'[c] # c
    BY <2>1 DEF OwnInv
  <2>3. \A e : InFile(e)' <=> InFile(e)
    BY <2>1 DEF InFile
  <2>4. InOrder(c)' /\ Drained(c)'
    BY <2>1, <2>2 DEF InOrder, Drained
  <2>5. \A q \in Procs \ {c} : InOrder(q)' /\ Drained(q)'
    BY <2>1, <2>3 DEF KeptInv, InOrder, Drained, Written
  <2> QED BY <2>4, <2>5 DEF KeptInv
<1>13. CASE UNCHANGED vars
  BY <1>13 DEF KeptInv, InOrder, Drained, Written, InFile, vars, process, memory, disk
<1> QED BY <1>1, <1>2, <1>3, <1>4, <1>5, <1>6, <1>7,
           <1>8, <1>9, <1>10, <1>11, <1>12, <1>13 DEF Next, FileStep

LEMMA InitKept == Init => KeptInv
BY ProcFacts DEF Init, KeptInv, InOrder, Drained

LEMMA KeptInvariance == Spec => []KeptInv
<1>1. (TypeOK /\ StepInv) /\ OwnInv /\ KeptInv /\ [Next]_vars => KeptInv'
  BY StepKept
<1> QED BY <1>1, InitKept, TypeInvariance, OwnInvariance, PTL DEF Spec

LEMMA KeptNothingForgotten ==
    TypeOK /\ StepInv /\ OwnInv /\ KeptInv => NothingForgotten
<1> SUFFICES ASSUME TypeOK, StepInv, OwnInv, KeptInv,
                    NEW p \in Procs, NEW n \in 1..count[p],
                    trace[p] \notin {"off", "broken"}, ~InFile(<<p, n>>)
             PROVE  /\ alive[p] # "dead"
                    /\ \E i \in DOMAIN buf[p] : buf[p][i] = <<p, n>>
  BY DEF NothingForgotten
<1>1. /\ count[p] \in Nat /\ buf[p] \in Seq(Events) /\ Len(buf[p]) \in Nat
      /\ DOMAIN buf[p] = 1..Len(buf[p])
  BY TraceLogConstants DEF TypeOK
<1>2. owner[p] = p /\ Numbered(p)
  BY <1>1 DEF OwnInv, Own
<1>3. Written(p) \in Nat /\ Written(p) = count[p] - Len(buf[p])
  BY <1>1, <1>2 DEF Numbered, Written
<1>4. ~(n <= Written(p))
  BY <1>2, <1>3 DEF KeptInv, InOrder
<1>5. n - Written(p) \in 1..Len(buf[p]) /\ Written(p) + (n - Written(p)) = n
  BY <1>1, <1>3, <1>4
<1>6. buf[p][n - Written(p)] = <<p, n>>
  BY <1>2, <1>5 DEF Numbered
<1>7. alive[p] # "dead"
  <2>1. buf[p] # <<>>
    BY <1>5
  <2> QED BY <1>2, <2>1 DEF KeptInv, Drained, StepInv, TypeOK
<1> QED BY <1>1, <1>5, <1>6, <1>7

(* Whatever a process records gets to the file, or is in memory and it is  *)
(* not dead, unless it is killed.                                          *)
THEOREM TraceLogNothingForgotten == Spec => []NothingForgotten
BY KeptNothingForgotten, TypeInvariance, OwnInvariance, KeptInvariance, PTL

-----------------------------------------------------------------------------
(* Who writes what.  Between its two writes a process writes an event of   *)
(* its own, or one that is known to be a copy.                             *)
Rightful(p) ==
    at[p] = "half" /\ why[p] # "enable" =>
      owner[p] = p \/ <<Head(buf[p]), p>> \in copied

RightfulInv == \A p \in Procs : Rightful(p)

LEMMA RightfulKept ==
    ASSUME RightfulInv, NEW p \in Procs, OthersKept(p), copied \subseteq copied',
           Rightful(p)'
    PROVE  RightfulInv'
BY DEF RightfulInv, Rightful, OthersKept

LEMMA StepRightful ==
    ASSUME TypeOK, StepInv, OwnInv, RightfulInv, [Next]_vars
    PROVE RightfulInv'
<1> USE ProcFacts
<1> DEFINE Quiet(p) == OthersKept(p) /\ copied' = copied /\ at'[p] # "half"
<1>0. ASSUME NEW p \in Procs, Quiet(p) PROVE RightfulInv'
  BY <1>0, RightfulKept DEF Rightful
<1>1. ASSUME NEW p \in Procs, Enable(p) PROVE RightfulInv'
  <2>1. OthersKept(p) /\ copied' = copied /\ at'[p] # "half"
    BY <1>1 DEF TypeOK, OthersKept, Enable, Free, Begin, process, memory, disk
  <2> QED BY <1>0, <2>1
<1>2. ASSUME NEW p \in Procs, Record(p) PROVE RightfulInv'
  <2>1. OthersKept(p) /\ copied' = copied /\ at'[p] # "half"
    BY <1>2 DEF TypeOK, OthersKept, Record, Free, process, memory, disk
  <2> QED BY <1>0, <2>1
<1>3. ASSUME NEW p \in Procs, Flush(p) PROVE RightfulInv'
  <2>1. OthersKept(p) /\ copied' = copied /\ at'[p] # "half"
    BY <1>3 DEF TypeOK, OthersKept, Flush, Free, Begin, process, memory, disk
  <2> QED BY <1>0, <2>1
<1>4. ASSUME NEW p \in Procs, Disable(p) PROVE RightfulInv'
  <2>1. OthersKept(p) /\ copied' = copied /\ at'[p] # "half"
    BY <1>4 DEF TypeOK, OthersKept, Disable, Free, DisableNow, Begin, process, memory, disk
  <2> QED BY <1>0, <2>1
<1>5. ASSUME NEW p \in Procs, LockFile(p) PROVE RightfulInv'
  <2>1. OthersKept(p) /\ copied' = copied /\ at'[p] # "half"
    BY <1>5 DEF TypeOK, OthersKept, LockFile, process, memory, disk
  <2> QED BY <1>0, <2>1
<1>6. ASSUME NEW p \in Procs, WriteFirst(p) PROVE RightfulInv'
  <2>1. OthersKept(p) /\ UNCHANGED <<owner[p], buf[p], why[p]>>
    BY <1>6 DEF TypeOK, OthersKept, WriteFirst, process, memory
  <2>2. copied' = IF why[p] # "enable" /\ owner[p] # p
                  THEN copied \cup {<<Head(buf[p]), p>>} ELSE copied
    BY <1>6 DEF WriteFirst
  <2>3. Rightful(p)'
    BY <2>1, <2>2 DEF Rightful
  <2> QED BY <2>1, <2>2, <2>3, RightfulKept
<1>7. ASSUME NEW p \in Procs, WriteSecond(p) PROVE RightfulInv'
  <2>1. OthersKept(p) /\ copied' = copied /\ at'[p] # "half"
    BY <1>7 DEF TypeOK, OthersKept, WriteSecond, process, memory, disk
  <2> QED BY <1>0, <2>1
<1>8. ASSUME NEW p \in Procs, Unlock(p) PROVE RightfulInv'
  <2>1. OthersKept(p) /\ copied' = copied /\ at'[p] # "half"
    BY <1>8 DEF TypeOK, OthersKept, Unlock, process, memory, disk
  <2> QED BY <1>0, <2>1
<1>9. ASSUME NEW p \in Procs, End(p) PROVE RightfulInv'
  <2>1. OthersKept(p) /\ copied' = copied /\ at'[p] # "half"
    BY <1>9 DEF TypeOK, OthersKept, End, Free, DisableNow, Begin, process, memory, disk
  <2> QED BY <1>0, <2>1
<1>10. ASSUME NEW p \in Procs, Finish(p) PROVE RightfulInv'
  <2>1. OthersKept(p) /\ copied' = copied /\ at'[p] # "half"
    BY <1>10 DEF TypeOK, OthersKept, Finish, CloseFile, process, memory, disk
  <2> QED BY <1>0, <2>1
<1>11. ASSUME NEW p \in Procs, Kill(p) PROVE RightfulInv'
  <2>1. OthersKept(p) /\ copied' = copied /\ at'[p] # "half"
    BY <1>11 DEF TypeOK, OthersKept, Kill, CloseFile, process, memory, disk
  <2> QED BY <1>0, <2>1
<1>12. ASSUME NEW p \in Procs, NEW c \in Kids, NEW raw \in BOOLEAN, Fork(p, c, raw)
       PROVE  RightfulInv'
  <2>1. /\ UNCHANGED <<at, why, copied>> /\ at[c] = "idle"
        /\ \A q \in Procs \ {c} : UNCHANGED <<owner[q], buf[q]>>
    BY <1>12 DEF Fork, TypeOK, StepInv, disk
  <2> QED BY <2>1 DEF RightfulInv, Rightful
<1>13. CASE UNCHANGED vars
  BY <1>13 DEF RightfulInv, Rightful, vars, process, memory, disk
<1> QED BY <1>1, <1>2, <1>3, <1>4, <1>5, <1>6, <1>7,
           <1>8, <1>9, <1>10, <1>11, <1>12, <1>13 DEF Next, FileStep

LEMMA InitRightful == Init => RightfulInv
BY DEF Init, RightfulInv, Rightful

LEMMA RightfulInvariance == Spec => []RightfulInv
<1>1. (TypeOK /\ StepInv) /\ OwnInv /\ RightfulInv /\ [Next]_vars => RightfulInv'
  BY StepRightful
<1> QED BY <1>1, InitRightful, TypeInvariance, OwnInvariance, PTL DEF Spec

-----------------------------------------------------------------------------
(* No event is written twice but by way of a copy.                         *)
(* A process that had recorded none of its own has written e, by C.        *)
Copies(C, e) == \E q \in Procs : <<e, q>> \in C

(* x has its place in the file: it is of the header, of a process that was *)
(* killed, of an event that was written or the first half of the next one. *)
Settled(x) ==
    \/ x.of = Header
    \/ x.of[1] \in killed
    \/ /\ owner[x.of[1]] = x.of[1]
       /\ \/ x.of[2] <= Written(x.of[1])
          \/ /\ x.of[2] = Written(x.of[1]) + 1 /\ x.half = 1
             /\ at[x.of[1]] = "half" /\ why[x.of[1]] # "enable"

OnceInv ==
    /\ EventsOnce
    /\ \A i \in 1..Len(file), x \in Halves : x = file[i] => Settled(x) \/ Copies(copied, x.of)

(* What a step may do to the events of q.                                  *)
Onward(q) ==
    \/ q \in killed'
    \/ owner[q] = q =>
         /\ owner'[q] = q
         /\ \/ Written(q)' = Written(q) + 1
            \/ /\ Written(q)' = Written(q)
               /\ at[q] = "half" /\ why[q] # "enable"
                    => at'[q] = "half" /\ why'[q] # "enable"

LEMMA NextNumber ==
    ASSUME TypeOK, OwnInv, NEW p \in Procs, owner[p] = p, buf[p] # <<>>
    PROVE  Written(p) \in Nat /\ Head(buf[p]) = <<p, Written(p) + 1>>
<1>1. Numbered(p) /\ buf[p] \in Seq(Events) /\ count[p] \in Nat
  BY DEF OwnInv, Own, TypeOK
<1>2. Len(buf[p]) \in Nat \ {0} /\ Head(buf[p]) = buf[p][1]
  BY <1>1, TailFacts
<1> QED BY <1>1, <1>2 DEF Numbered, Written

LEMMA SettledKept ==
    ASSUME TypeOK, OwnInv, killed \subseteq killed', \A q \in Procs : Onward(q),
           NEW x \in Halves, Settled(x)
    PROVE  Settled(x)'
<1> SUFFICES ASSUME x.of # Header PROVE Settled(x)'
  BY DEF Settled
<1>1. PICK q \in Procs, n \in 1..MaxEvents : x.of = <<q, n>>
  BY DEF Halves, Events
<1>2. x.of[1] = q /\ x.of[2] = n /\ n \in Nat
  BY <1>1, TraceLogConstants
<1>3. CASE q \in killed'
  BY <1>2, <1>3 DEF Settled
<1>4. CASE q \notin killed'
  <2>1. owner[q] = q
    BY <1>2, <1>4 DEF Settled
  <2>2. Written(q) \in Nat
    <3>1. count[q] \in Nat /\ Len(buf[q]) \in Nat /\ Len(buf[q]) <= count[q]
      BY <2>1 DEF TypeOK, OwnInv, Own, Numbered
    <3> QED BY <3>1 DEF Written
  <2>3. /\ owner'[q] = q
        /\ \/ Written(q)' = Written(q) + 1
           \/ /\ Written(q)' = Written(q)
              /\ at[q] = "half" /\ why[q] # "enable"
                   => at'[q] = "half" /\ why'[q] # "enable"
    BY <1>4, <2>1 DEF Onward
  <2>4. \/ n <= Written(q)
        \/ n = Written(q) + 1 /\ x.half = 1 /\ at[q] = "half" /\ why[q] # "enable"
    BY <1>2, <1>4 DEF Settled
  <2>5. \/ n <= Written(q)'
        \/ n = Written(q)' + 1 /\ x.half = 1 /\ at'[q] = "half" /\ why'[q] # "enable"
    BY <1>2, <2>2, <2>3, <2>4
  <2> QED BY <1>2, <2>3, <2>5 DEF Settled
<1> QED BY <1>3, <1>4

LEMMA OnceKept ==
    ASSUME TypeOK, OwnInv, OnceInv, file' = file, killed \subseteq killed',
           copied \subseteq copied', \A q \in Procs : Onward(q)
    PROVE  OnceInv'
<1>1. \A e : Copies(copied, e) => Copies(copied', e)
  BY DEF Copies
<1>2. ASSUME NEW i \in 1..Len(file), NEW x \in Halves, x = file[i]
      PROVE  Settled(x)' \/ Copies(copied', x.of)
  <2>1. Settled(x) \/ Copies(copied, x.of)
    BY <1>2 DEF OnceInv
  <2> QED BY <1>1, <2>1, SettledKept
<1>3. EventsOnce'
  BY <1>1 DEF OnceInv, EventsOnce, Copied, Copies
<1> QED BY <1>2, <1>3 DEF OnceInv

LEMMA OnceGrows ==
    ASSUME TypeOK, OwnInv, OnceInv, killed \subseteq killed', copied \subseteq copied',
           \A q \in Procs : Onward(q),
           NEW x \in Halves, file' = Append(file, x),
           \/ Copies(copied', x.of)
           \/ /\ ~Settled(x) \/ \A i \in 1..Len(file) : file[i] # x
              /\ Settled(x)'
    PROVE  OnceInv'
<1>1. /\ Len(file) \in Nat /\ Len(file') = Len(file) + 1
      /\ DOMAIN file = 1..Len(file) /\ DOMAIN file' = 1..(Len(file) + 1)
      /\ \A i \in 1..Len(file) : file'[i] = file[i]
      /\ file'[Len(file) + 1] = x
  BY AppendFacts, FileType
<1>2. \A e : Copies(copied, e) => Copies(copied', e)
  BY DEF Copies
<1>3. \A i \in 1..Len(file) : file[i] = x => Copies(copied', x.of)
  BY <1>2 DEF OnceInv
<1>4. ASSUME NEW i \in 1..(Len(file) + 1), NEW j \in 1..(Len(file) + 1),
             file'[i] = file'[j], i # j
      PROVE  Copies(copied', file'[i].of)
  <2>1. CASE i \in 1..Len(file) /\ j \in 1..Len(file)
    <3>1. file[i] = file[j] /\ file'[i] = file[i]
      BY <1>1, <1>4, <2>1
    <3>2. Copies(copied, file[i].of)
      BY <1>1, <1>4, <2>1, <3>1 DEF OnceInv, EventsOnce, Copied, Copies
    <3> QED BY <1>2, <3>1, <3>2
  <2>2. CASE ~(i \in 1..Len(file) /\ j \in 1..Len(file))
    <3>1. PICK k \in 1..Len(file) : file[k] = x /\ file'[i] = x
      BY <1>1, <1>4, <2>2
    <3> QED BY <1>3, <3>1
  <2> QED BY <2>1, <2>2
<1>5. EventsOnce'
  BY <1>1, <1>4 DEF EventsOnce, Copied, Copies
<1>6. ASSUME NEW i \in 1..(Len(file) + 1), NEW y \in Halves, y = file'[i]
      PROVE  Settled(y)' \/ Copies(copied', y.of)
  <2>1. CASE i = Len(file) + 1
    BY <1>1, <1>6, <2>1
  <2>2. CASE i # Len(file) + 1
    <3>1. i \in 1..Len(file) /\ y = file[i]
      BY <1>1, <1>6, <2>2
    <3>2. Settled(y) \/ Copies(copied, y.of)
      BY <3>1 DEF OnceInv
    <3> QED BY <1>2, <3>2, SettledKept
  <2> QED BY <2>1, <2>2
<1> QED BY <1>1, <1>5, <1>6 DEF OnceInv

LEMMA StepOnce ==
    ASSUME TypeOK, StepInv, OwnInv, RightfulInv, HeaderInv, OnceInv, [Next]_vars
    PROVE OnceInv'
<1> USE ProcFacts
<1>1. ASSUME NEW p \in Procs, Enable(p) PROVE OnceInv'
  <2>1. UNCHANGED <<file, killed, owner, buf, count, copied>>
    BY <1>1 DEF Enable, process, memory, disk
  <2>2. /\ at[p] # "half" \/ UNCHANGED <<at[p], why[p]>>
        /\ \A q \in Procs \ {p} : UNCHANGED <<at[q], why[q]>>
    BY <1>1 DEF TypeOK, Enable, Free, Begin
  <2>3. \A q \in Procs : Onward(q)
    BY <2>1, <2>2 DEF Onward, Written
  <2> QED BY <2>1, <2>3, OnceKept
<1>2. ASSUME NEW p \in Procs, Record(p) PROVE OnceInv'
  <2>1. /\ UNCHANGED <<file, killed, copied>> /\ at[p] = "idle"
        /\ owner' = [owner EXCEPT ![p] = p]
        /\ \A q \in Procs \ {p} : UNCHANGED <<owner[q], buf[q], count[q], at[q], why[q]>>
    BY <1>2 DEF Record, Free, process, disk, TypeOK
  <2>2. owner[p] = p => Written(p)' = Written(p) /\ owner'[p] = p
    BY <1>2, <2>1, RecordFacts DEF TypeOK
  <2>3. \A q \in Procs : Onward(q)
    BY <2>1, <2>2 DEF Onward, Written
  <2> QED BY <2>1, <2>3, OnceKept
<1>3. ASSUME NEW p \in Procs, Flush(p) PROVE OnceInv'
  <2>1. UNCHANGED <<file, killed, owner, buf, count, copied>>
    BY <1>3 DEF Flush, process, memory, disk
  <2>2. /\ at[p] # "half" \/ UNCHANGED <<at[p], why[p]>>
        /\ \A q \in Procs \ {p} : UNCHANGED <<at[q], why[q]>>
    BY <1>3 DEF TypeOK, Flush, Free, Begin
  <2>3. \A q \in Procs : Onward(q)
    BY <2>1, <2>2 DEF Onward, Written
  <2> QED BY <2>1, <2>3, OnceKept
<1>4. ASSUME NEW p \in Procs, Disable(p) PROVE OnceInv'
  <2>1. UNCHANGED <<file, killed, owner, buf, count, copied>>
    BY <1>4 DEF Disable, process, memory, disk
  <2>2. /\ at[p] # "half" \/ UNCHANGED <<at[p], why[p]>>
        /\ \A q \in Procs \ {p} : UNCHANGED <<at[q], why[q]>>
    BY <1>4 DEF TypeOK, Disable, Free, DisableNow, Begin
  <2>3. \A q \in Procs : Onward(q)
    BY <2>1, <2>2 DEF Onward, Written
  <2> QED BY <2>1, <2>3, OnceKept
<1>5. ASSUME NEW p \in Procs, LockFile(p) PROVE OnceInv'
  <2>1. UNCHANGED <<file, killed, owner, buf, count, copied>>
    BY <1>5 DEF LockFile, process, memory, disk
  <2>2. /\ at[p] # "half" \/ UNCHANGED <<at[p], why[p]>>
        /\ \A q \in Procs \ {p} : UNCHANGED <<at[q], why[q]>>
    BY <1>5 DEF TypeOK, LockFile
  <2>3. \A q \in Procs : Onward(q)
    BY <2>1, <2>2 DEF Onward, Written
  <2> QED BY <2>1, <2>3, OnceKept
<1>6. ASSUME NEW p \in Procs, WriteFirst(p) PROVE OnceInv'
  <2>1. PICK x \in Halves : x = Half(Head(ToWrite(p)), 1)
    BY <1>6, ToWriteFacts, HeaderFacts DEF WriteFirst, Halves
  <2>2. /\ file' = Append(file, x)
        /\ at[p] = "hold" /\ at' = [at EXCEPT ![p] = "half"]
        /\ UNCHANGED <<killed, owner, buf, count, why>>
        /\ copied' = IF why[p] # "enable" /\ owner[p] # p
                     THEN copied \cup {<<Head(buf[p]), p>>} ELSE copied
    BY <1>6, <2>1 DEF WriteFirst, process, memory
  <2>3. \A q \in Procs : Onward(q)
    BY <2>2 DEF Onward, Written, TypeOK
  <2>4. x.of = Head(ToWrite(p)) /\ x.half = 1
    BY <2>1, HeaderFacts
  <2>5. CASE why[p] = "enable"
    <3>1. x.of = Header /\ Len(file) = 0
      BY <1>6, <2>4, <2>5, ToWriteFacts DEF WriteFirst
    <3>2. Settled(x)'
      BY <3>1 DEF Settled
    <3> QED BY <2>2, <2>3, <3>1, <3>2, OnceGrows
  <2>6. CASE why[p] # "enable" /\ owner[p] # p
    <3>1. x.of = Head(buf[p])
      BY <1>6, <2>4, <2>6, ToWriteFacts DEF WriteFirst
    <3>2. Copies(copied', x.of)
      BY <2>2, <2>6, <3>1 DEF Copies
    <3> QED BY <2>2, <2>3, <3>2, OnceGrows
  <2>7. CASE why[p] # "enable" /\ owner[p] = p
    <3>1. x.of = Head(buf[p]) /\ buf[p] # <<>>
      BY <1>6, <2>4, <2>7, ToWriteFacts DEF WriteFirst
    <3>2. owner[p] = p /\ p \notin killed
      BY <2>2, <2>7 DEF StepInv
    <3>3. x.of = <<p, Written(p) + 1>> /\ Written(p) \in Nat
      BY <3>1, <3>2, NextNumber
    <3>4. x.of # Header /\ x.of[1] = p /\ x.of[2] = Written(p) + 1
      BY <3>3 DEF Header
    <3>5. ~Settled(x)
      BY <2>2, <3>2, <3>3, <3>4 DEF Settled
    <3>6. at'[p] = "half" /\ Written(p)' = Written(p) /\ why'[p] # "enable" /\ owner'[p] = p
      BY <2>2, <2>7, <3>2 DEF Written, TypeOK
    <3>7. Settled(x)'
      BY <2>4, <3>4, <3>6 DEF Settled
    <3> QED BY <2>2, <2>3, <3>5, <3>7, OnceGrows
  <2> QED BY <2>5, <2>6, <2>7
<1>7. ASSUME NEW p \in Procs, WriteSecond(p) PROVE OnceInv'
  <2>1. CASE why[p] = "enable"
    <3>1. /\ file' = Append(file, Half(Header, 2)) /\ Half(Header, 2) \in Halves
          /\ at[p] = "half" /\ file = <<Half(Header, 1)>>
          /\ UNCHANGED <<killed, owner, buf, count, why, copied>>
          /\ \A q \in Procs \ {p} : at'[q] = at[q]
      BY <1>7, <2>1, HeaderFacts DEF WriteSecond, HeaderInv, AtHeader, Halves, process, TypeOK
    <3>2. \A q \in Procs : Onward(q)
      BY <2>1, <3>1 DEF Onward, Written
    <3>3. \A i \in 1..Len(file) : file[i] # Half(Header, 2)
      BY <3>1, HeaderFacts
    <3>4. PICK x \in Halves : x = Half(Header, 2)
      BY <3>1
    <3>5. Settled(x)'
      BY <3>4, HeaderFacts DEF Settled
    <3> QED BY <3>1, <3>2, <3>3, <3>4, <3>5, OnceGrows
  <2>2. CASE why[p] # "enable" /\ owner[p] # p
    <3>1. /\ file' = Append(file, Half(Head(buf[p]), 2)) /\ at[p] = "half"
          /\ UNCHANGED <<killed, owner, count, why, copied>>
          /\ \A q \in Procs \ {p} : at'[q] = at[q] /\ buf'[q] = buf[q]
      BY <1>7, <2>2 DEF WriteSecond, process, TypeOK
    <3>2. \A q \in Procs : Onward(q)
      BY <2>2, <3>1 DEF Onward, Written
    <3>3. PICK x \in Halves : x = Half(Head(buf[p]), 2)
      <4>1. Head(buf[p]) \in Events
        BY <2>2, <3>1 DEF StepInv, TypeOK
      <4> QED BY <4>1, HeaderFacts DEF Halves
    <3>4. Copies(copied', x.of)
      <4>1. <<Head(buf[p]), p>> \in copied /\ x.of = Head(buf[p])
        BY <2>2, <3>1, <3>3, HeaderFacts DEF RightfulInv, Rightful
      <4> QED BY <3>1, <4>1 DEF Copies
    <3> QED BY <3>1, <3>2, <3>3, <3>4, OnceGrows
  <2>3. CASE why[p] # "enable" /\ owner[p] = p
    <3>1. /\ file' = Append(file, Half(Head(buf[p]), 2)) /\ at[p] = "half"
          /\ UNCHANGED <<killed, owner, count, why, copied>>
          /\ \A q \in Procs \ {p} : at'[q] = at[q] /\ buf'[q] = buf[q]
      BY <1>7, <2>3 DEF WriteSecond, process, TypeOK
    <3>2. owner[p] = p /\ p \notin killed
      BY <2>3, <3>1 DEF StepInv
    <3>3. /\ Written(p) \in Nat /\ Written(p)' = Written(p) + 1
          /\ Head(buf[p]) = <<p, Written(p) + 1>>
      BY <1>7, <2>3, <3>2, WriteFacts
    <3>4. \A q \in Procs : Onward(q)
      BY <3>1, <3>3 DEF Onward, Written
    <3>5. PICK x \in Halves : x = Half(Head(buf[p]), 2)
      <4>1. Head(buf[p]) \in Events
        BY <2>3, <3>1 DEF StepInv, TypeOK
      <4> QED BY <4>1, HeaderFacts DEF Halves
    <3>6. x.of = <<p, Written(p) + 1>> /\ x.half = 2
      BY <3>3, <3>5, HeaderFacts
    <3>7. x.of # Header /\ x.of[1] = p /\ x.of[2] = Written(p) + 1
      BY <3>6 DEF Header
    <3>8. ~Settled(x)
      BY <3>2, <3>3, <3>6, <3>7 DEF Settled
    <3>9. Settled(x)'
      BY <3>1, <3>2, <3>3, <3>7 DEF Settled
    <3> QED BY <3>1, <3>4, <3>5, <3>8, <3>9, OnceGrows
  <2> QED BY <2>1, <2>2, <2>3
<1>8. ASSUME NEW p \in Procs, Unlock(p) PROVE OnceInv'
  <2>1. UNCHANGED <<file, killed, owner, buf, count, copied>>
    BY <1>8 DEF Unlock, process, memory, disk
  <2>2. /\ at[p] # "half" \/ UNCHANGED <<at[p], why[p]>>
        /\ \A q \in Procs \ {p} : UNCHANGED <<at[q], why[q]>>
    BY <1>8 DEF TypeOK, Unlock
  <2>3. \A q \in Procs : Onward(q)
    BY <2>1, <2>2 DEF Onward, Written
  <2> QED BY <2>1, <2>3, OnceKept
<1>9. ASSUME NEW p \in Procs, End(p) PROVE OnceInv'
  <2>1. UNCHANGED <<file, killed, owner, buf, count, copied>>
    BY <1>9 DEF End, process, memory, disk
  <2>2. /\ at[p] # "half" \/ UNCHANGED <<at[p], why[p]>>
        /\ \A q \in Procs \ {p} : UNCHANGED <<at[q], why[q]>>
    BY <1>9 DEF TypeOK, End, Free, DisableNow, Begin
  <2>3. \A q \in Procs : Onward(q)
    BY <2>1, <2>2 DEF Onward, Written
  <2> QED BY <2>1, <2>3, OnceKept
<1>10. ASSUME NEW p \in Procs, Finish(p) PROVE OnceInv'
  <2>1. UNCHANGED <<file, killed, owner, buf, count, copied>>
    BY <1>10 DEF Finish, process, memory, disk
  <2>2. /\ at[p] # "half" \/ UNCHANGED <<at[p], why[p]>>
        /\ \A q \in Procs \ {p} : UNCHANGED <<at[q], why[q]>>
    BY <1>10 DEF TypeOK, Finish, CloseFile
  <2>3. \A q \in Procs : Onward(q)
    BY <2>1, <2>2 DEF Onward, Written
  <2> QED BY <2>1, <2>3, OnceKept
<1>11. ASSUME NEW p \in Procs, Kill(p) PROVE OnceInv'
  <2>1. /\ UNCHANGED <<file, copied>> /\ killed' = killed \cup {p}
        /\ \A q \in Procs \ {p} : UNCHANGED <<owner[q], buf[q], count[q], at[q], why[q]>>
    BY <1>11 DEF Kill, TypeOK
  <2>2. \A q \in Procs : Onward(q)
    BY <2>1 DEF Onward, Written
  <2> QED BY <2>1, <2>2, OnceKept
<1>12. ASSUME NEW p \in Procs, NEW c \in Kids, NEW raw \in BOOLEAN, Fork(p, c, raw)
       PROVE  OnceInv'
  <2>1. /\ UNCHANGED <<file, killed, count, at, why, copied>> /\ alive[c] = "absent"
        /\ \A q \in Procs \ {c} : UNCHANGED <<owner[q], buf[q]>>
    BY <1>12 DEF Fork, TypeOK, disk
  <2>2. owner[c] # c
    BY <2>1 DEF OwnInv
  <2>3. \A q \in Procs : Onward(q)
    BY <2>1, <2>2 DEF Onward, Written
  <2> QED BY <2>1, <2>3, OnceKept
<1>13. CASE UNCHANGED vars
  BY <1>13 DEF OnceInv, EventsOnce, Copied, Copies, Settled, Written, vars, process, memory, disk
<1> QED BY <1>1, <1>2, <1>3, <1>4, <1>5, <1>6, <1>7,
           <1>8, <1>9, <1>10, <1>11, <1>12, <1>13 DEF Next, FileStep

LEMMA InitOnce == Init => OnceInv
BY DEF Init, OnceInv, EventsOnce

LEMMA OnceInvariance == Spec => []OnceInv
<1>1. (TypeOK /\ StepInv) /\ OwnInv /\ RightfulInv /\ HeaderInv /\ OnceInv /\ [Next]_vars
        => OnceInv'
  BY StepOnce
<1> QED BY <1>1, InitOnce, TypeInvariance, OwnInvariance, RightfulInvariance,
           HeaderInvariance, PTL DEF Spec

(* No event is in the file twice, but those that were written by a forked  *)
(* process that had recorded none of its own.                              *)
THEOREM TraceLogEventsOnce == Spec => []EventsOnce
<1>1. OnceInv => EventsOnce
  BY DEF OnceInv
<1> QED BY <1>1, OnceInvariance, PTL

-----------------------------------------------------------------------------
(* Events come apart only when two processes hold the lock at once.  Until *)
(* then a first half at the end of the file is that of whoever is between  *)
(* its two writes, or of a process that was killed there.                  *)
Now(p) == IF why[p] = "enable" THEN Header ELSE Head(buf[p])

Orphan(x) == Writers(x) \cap killed # {}

WholeInv ==
    clash \/ /\ WholeEvents
             /\ \A p \in Procs : at[p] = "half" =>
                  file # <<>> /\ file[Len(file)] = Half(Now(p), 1)
             /\ \A x \in Halves : file # <<>> /\ x = file[Len(file)] /\ x.half = 1 =>
                  Orphan(x) \/ \E p \in Procs : at[p] = "half"

LEMMA WholeKept ==
    ASSUME WholeInv, file' = file, killed \subseteq killed', clash => clash',
           copied \subseteq copied',
           NEW p \in Procs, at[p] # "half", at'[p] # "half",
           \A q \in Procs \ {p} : UNCHANGED <<at[q], why[q], buf[q]>>
    PROVE  WholeInv'
<1> SUFFICES ASSUME ~clash PROVE WholeInv'
  BY DEF WholeInv
<1>0. \A x : Orphan(x) => Orphan(x)'
  BY DEF Orphan, Writers
<1>1. WholeEvents'
  BY <1>0 DEF WholeInv, WholeEvents, Orphan
<1>2. \A q \in Procs : at'[q] = "half" => at[q] = "half" /\ Now(q)' = Now(q)
  BY DEF Now
<1>3. \A q \in Procs : at[q] = "half" => at'[q] = "half"
  OBVIOUS
<1> QED BY <1>0, <1>1, <1>2, <1>3 DEF WholeInv

LEMMA WholeGrows ==
    ASSUME TypeOK, WholeEvents, killed \subseteq killed', copied \subseteq copied',
           NEW x \in Halves, file' = Append(file, x),
           \/ file # <<>> /\ x = Half(file[Len(file)].of, 2)
           \/ \A y \in Halves :
                y = file[Len(file)] /\ file # <<>> /\ y.half = 1 => Orphan(y)
    PROVE  WholeEvents'
<1>1. /\ Len(file) \in Nat /\ Len(file') = Len(file) + 1
      /\ DOMAIN file = 1..Len(file) /\ DOMAIN file' = 1..(Len(file) + 1)
      /\ \A i \in 1..Len(file) : file'[i] = file[i]
      /\ file'[Len(file) + 1] = x /\ (file = <<>> <=> Len(file) = 0)
  BY AppendFacts, FileType
<1>2. \A i \in 1..Len(file) : file[i] \in Halves
  BY FileType
<1>3. \A y \in Halves : Orphan(y) => Orphan(y)'
  BY DEF Orphan, Writers
<1>4. ASSUME NEW i \in 1..Len(file), NEW y \in Halves, y = file[i], y.half = 1
      PROVE  file'[i + 1] = Half(y.of, 2) \/ Orphan(y)'
  <2>1. CASE i = Len(file)
    <3>1. file # <<>> /\ file'[i + 1] = x
      BY <1>1, <1>4, <2>1
    <3>2. CASE x = Half(file[Len(file)].of, 2)
      BY <1>4, <2>1, <3>1, <3>2
    <3>3. CASE ~(x = Half(file[Len(file)].of, 2))
      BY <1>3, <1>4, <2>1, <3>1, <3>3
    <3> QED BY <3>2, <3>3
  <2>2. CASE i # Len(file)
    <3> DEFINE n == Len(file)
    <3>1. i \in DOMAIN file /\ i + 1 \in 1..Len(file)
      <4>1. n \in Nat /\ i \in 1..n /\ i # n /\ DOMAIN file = 1..n
        BY <1>1, <2>2
      <4> HIDE DEF n
      <4>2. i \in 1..n /\ i + 1 \in 1..n
        BY <4>1
      <4> QED BY <4>1, <4>2 DEF n
    <3>2. file[i + 1] = Half(y.of, 2) \/ Orphan(y)
      BY <1>4, <2>2, <3>1 DEF WholeEvents, Orphan
    <3> QED BY <1>1, <1>3, <1>4, <3>1, <3>2
  <2> QED BY <2>1, <2>2
<1>5. ASSUME NEW i \in DOMAIN file', file'[i].half = 1
      PROVE  \/ i = Len(file')
             \/ file'[i + 1] = Half(file'[i].of, 2)
             \/ (Writers(file[i]) \cap killed # {})'
  <2> SUFFICES ASSUME i # Len(file')
               PROVE  \/ file'[i + 1] = Half(file'[i].of, 2)
                      \/ (Writers(file[i]) \cap killed # {})'
    OBVIOUS
  <2>1. i \in 1..Len(file) /\ file'[i] = file[i]
    BY <1>1, <1>5
  <2>2. PICK y \in Halves : y = file[i]
    BY <1>2, <2>1
  <2>3. file'[i + 1] = Half(y.of, 2) \/ Orphan(y)'
    BY <1>4, <1>5, <2>1, <2>2
  <2> QED BY <2>1, <2>2, <2>3 DEF Orphan
<1> QED BY <1>5 DEF WholeEvents

LEMMA StepWhole ==
    ASSUME TypeOK, StepInv, LockInv, OwnInv, RightfulInv, WholeInv, [Next]_vars
    PROVE WholeInv'
<1> USE ProcFacts
<1>1. ASSUME NEW p \in Procs, Enable(p) PROVE WholeInv'
  <2>1. UNCHANGED <<file, killed, buf, copied>> /\ (clash => clash')
    BY <1>1 DEF Enable, process, memory, disk
  <2>2. at[p] # "half" /\ at'[p] # "half"
    BY <1>1 DEF TypeOK, Enable, Free, Begin
  <2>3. \A q \in Procs \ {p} : UNCHANGED <<at[q], why[q]>>
    BY <1>1 DEF TypeOK, Enable, Free, Begin
  <2> QED BY <2>1, <2>2, <2>3, WholeKept
<1>2. ASSUME NEW p \in Procs, Record(p) PROVE WholeInv'
  <2>1. UNCHANGED <<file, killed, clash, copied, at, why>> /\ at[p] = "idle"
    BY <1>2 DEF Record, Free, process, disk
  <2>2. \A q \in Procs \ {p} : buf'[q] = buf[q]
    BY <1>2 DEF Record, TypeOK
  <2> QED BY <2>1, <2>2, WholeKept
<1>3. ASSUME NEW p \in Procs, Flush(p) PROVE WholeInv'
  <2>1. UNCHANGED <<file, killed, buf, copied>> /\ (clash => clash')
    BY <1>3 DEF Flush, process, memory, disk
  <2>2. at[p] # "half" /\ at'[p] # "half"
    BY <1>3 DEF TypeOK, Flush, Free, Begin
  <2>3. \A q \in Procs \ {p} : UNCHANGED <<at[q], why[q]>>
    BY <1>3 DEF TypeOK, Flush, Free, Begin
  <2> QED BY <2>1, <2>2, <2>3, WholeKept
<1>4. ASSUME NEW p \in Procs, Disable(p) PROVE WholeInv'
  <2>1. UNCHANGED <<file, killed, buf, copied>> /\ (clash => clash')
    BY <1>4 DEF Disable, process, memory, disk
  <2>2. at[p] # "half" /\ at'[p] # "half"
    BY <1>4 DEF TypeOK, Disable, Free, DisableNow, Begin
  <2>3. \A q \in Procs \ {p} : UNCHANGED <<at[q], why[q]>>
    BY <1>4 DEF TypeOK, Disable, Free, DisableNow, Begin
  <2> QED BY <2>1, <2>2, <2>3, WholeKept
<1>5. ASSUME NEW p \in Procs, LockFile(p) PROVE WholeInv'
  <2>1. UNCHANGED <<file, killed, buf, copied>> /\ (clash => clash')
    BY <1>5 DEF LockFile, process, memory, disk
  <2>2. at[p] # "half" /\ at'[p] # "half"
    BY <1>5 DEF TypeOK, LockFile
  <2>3. \A q \in Procs \ {p} : UNCHANGED <<at[q], why[q]>>
    BY <1>5 DEF TypeOK, LockFile
  <2> QED BY <2>1, <2>2, <2>3, WholeKept
<1>6. ASSUME NEW p \in Procs, WriteFirst(p) PROVE WholeInv'
  <2> SUFFICES ASSUME ~clash PROVE WholeInv'
    BY <1>6 DEF WholeInv, WriteFirst
  <2>1. PICK x \in Halves : x = Half(Head(ToWrite(p)), 1)
    BY <1>6, ToWriteFacts, HeaderFacts DEF WriteFirst, Halves
  <2>2. /\ file' = Append(file, x) /\ at[p] = "hold" /\ at' = [at EXCEPT ![p] = "half"]
        /\ UNCHANGED <<killed, buf, why>> /\ copied \subseteq copied'
    BY <1>6, <2>1 DEF WriteFirst, process, memory
  <2>3. \A q \in Procs : at[q] # "half"
    BY <2>2 DEF LockInv, Writing
  <2>4. \A q \in Procs : at'[q] = "half" => q = p
    BY <2>2, <2>3 DEF TypeOK
  <2>5. x = Half(Now(p), 1) /\ at'[p] = "half" /\ Now(p)' = Now(p)
    BY <1>6, <2>1, <2>2, ToWriteFacts DEF WriteFirst, Now, TypeOK
  <2>6. \A y \in Halves : y = file[Len(file)] /\ file # <<>> /\ y.half = 1 => Orphan(y)
    BY <2>3 DEF WholeInv
  <2>7. WholeEvents'
    BY <2>2, <2>6, WholeGrows DEF WholeInv
  <2>8. file' # <<>> /\ file'[Len(file')] = x
    BY <2>2, AppendFacts, FileType
  <2> QED BY <2>4, <2>5, <2>7, <2>8 DEF WholeInv
<1>7. ASSUME NEW p \in Procs, WriteSecond(p) PROVE WholeInv'
  <2> SUFFICES ASSUME ~clash PROVE WholeInv'
    BY <1>7 DEF WholeInv, WriteSecond
  <2>1. PICK x \in Halves : x = Half(Now(p), 2)
    <3>1. Now(p) \in Events \cup {Header}
      BY <1>7 DEF WriteSecond, Now, StepInv, TypeOK
    <3> QED BY <3>1, HeaderFacts DEF Halves
  <2>2. /\ file' = Append(file, x) /\ at[p] = "half" /\ at'[p] # "half"
        /\ killed' = killed /\ copied' = copied
        /\ \A q \in Procs \ {p} : at'[q] = at[q]
    BY <1>7, <2>1 DEF WriteSecond, Now, process, TypeOK
  <2>3. \A q \in Procs : at'[q] # "half"
    BY <2>2 DEF LockInv, Writing
  <2>4. file # <<>> /\ file[Len(file)] = Half(Now(p), 1)
    BY <2>2 DEF WholeInv
  <2>5. x = Half(file[Len(file)].of, 2) /\ x.half = 2
    BY <2>1, <2>4, HeaderFacts
  <2>6. WholeEvents'
    BY <2>2, <2>5, WholeGrows DEF WholeInv
  <2>7. file' # <<>> /\ file'[Len(file')] = x
    BY <2>2, AppendFacts, FileType
  <2> QED BY <2>3, <2>5, <2>6, <2>7 DEF WholeInv
<1>8. ASSUME NEW p \in Procs, Unlock(p) PROVE WholeInv'
  <2>1. UNCHANGED <<file, killed, buf, copied>> /\ (clash => clash')
    BY <1>8 DEF Unlock, process, memory, disk
  <2>2. at[p] # "half" /\ at'[p] # "half"
    BY <1>8 DEF TypeOK, Unlock
  <2>3. \A q \in Procs \ {p} : UNCHANGED <<at[q], why[q]>>
    BY <1>8 DEF TypeOK, Unlock
  <2> QED BY <2>1, <2>2, <2>3, WholeKept
<1>9. ASSUME NEW p \in Procs, End(p) PROVE WholeInv'
  <2>1. UNCHANGED <<file, killed, buf, copied>> /\ (clash => clash')
    BY <1>9 DEF End, process, memory, disk
  <2>2. at[p] # "half" /\ at'[p] # "half"
    BY <1>9 DEF TypeOK, End, Free, DisableNow, Begin
  <2>3. \A q \in Procs \ {p} : UNCHANGED <<at[q], why[q]>>
    BY <1>9 DEF TypeOK, End, Free, DisableNow, Begin
  <2> QED BY <2>1, <2>2, <2>3, WholeKept
<1>10. ASSUME NEW p \in Procs, Finish(p) PROVE WholeInv'
  <2>1. UNCHANGED <<file, killed, buf, copied>> /\ (clash => clash')
    BY <1>10 DEF Finish, process, memory, disk
  <2>2. at[p] # "half" /\ at'[p] # "half"
    BY <1>10 DEF TypeOK, Finish, CloseFile
  <2>3. \A q \in Procs \ {p} : UNCHANGED <<at[q], why[q]>>
    BY <1>10 DEF TypeOK, Finish, CloseFile
  <2> QED BY <2>1, <2>2, <2>3, WholeKept
<1>11. ASSUME NEW p \in Procs, Kill(p) PROVE WholeInv'
  <2>1. /\ UNCHANGED <<file, clash, copied>> /\ killed' = killed \cup {p} /\ at'[p] = "idle"
        /\ \A q \in Procs \ {p} : UNCHANGED <<at[q], why[q], buf[q]>>
    BY <1>11 DEF Kill, TypeOK
  <2>2. CASE at[p] # "half"
    BY <2>1, <2>2, WholeKept
  <2>3. CASE at[p] = "half"
    <3> SUFFICES ASSUME ~clash PROVE WholeInv'
      BY <2>1 DEF WholeInv
    <3>1. file[Len(file)] = Half(Now(p), 1) /\ \A q \in Procs : at'[q] # "half"
      BY <2>1, <2>3 DEF WholeInv, LockInv, Writing
    <3>2. p \in Writers(Half(Now(p), 1))
      <4>1. CASE why[p] = "enable"
        BY <2>3, <4>1, HeaderFacts DEF Now, Writers, StepInv
      <4>2. CASE why[p] # "enable" /\ owner[p] # p
        <5>1. Head(buf[p]) \in Events /\ <<Head(buf[p]), p>> \in copied
          BY <2>3, <4>2 DEF StepInv, RightfulInv, Rightful, TypeOK
        <5> QED BY <4>2, <5>1, HeaderFacts DEF Now, Writers
      <4>3. CASE why[p] # "enable" /\ owner[p] = p
        <5>1. Head(buf[p]) = <<p, Written(p) + 1>>
          BY <2>3, <4>3, NextNumber DEF StepInv
        <5>2. Head(buf[p]) # Header /\ Head(buf[p])[1] = p
          BY <5>1 DEF Header
        <5> QED BY <4>3, <5>2, HeaderFacts DEF Now, Writers
      <4> QED BY <4>1, <4>2, <4>3
    <3>3. \A y \in Halves : y = file[Len(file)] => Orphan(y)'
      BY <2>1, <3>1, <3>2 DEF Orphan, Writers
    <3>4. WholeEvents'
      BY <2>1 DEF WholeInv, WholeEvents, Writers
    <3> QED BY <2>1, <3>1, <3>3, <3>4 DEF WholeInv
  <2> QED BY <2>2, <2>3
<1>12. ASSUME NEW p \in Procs, NEW c \in Kids, NEW raw \in BOOLEAN, Fork(p, c, raw)
       PROVE  WholeInv'
  <2>1. UNCHANGED <<file, killed, clash, copied, at, why>> /\ at[c] = "idle"
    BY <1>12 DEF Fork, disk, StepInv
  <2>2. \A q \in Procs \ {c} : buf'[q] = buf[q]
    BY <1>12 DEF Fork, TypeOK
  <2> QED BY <2>1, <2>2, WholeKept
<1>13. CASE UNCHANGED vars
  BY <1>13 DEF WholeInv, WholeEvents, Now, Orphan, Writers, vars, process, memory, disk
<1> QED BY <1>1, <1>2, <1>3, <1>4, <1>5, <1>6, <1>7,
           <1>8, <1>9, <1>10, <1>11, <1>12, <1>13 DEF Next, FileStep

LEMMA InitWhole == Init => WholeInv
BY DEF Init, WholeInv, WholeEvents

LEMMA WholeInvariance == Spec => []WholeInv
<1>1. (TypeOK /\ StepInv) /\ (LockInv /\ NoStaleLock) /\ OwnInv /\ RightfulInv /\ WholeInv
        /\ [Next]_vars => WholeInv'
  BY StepWhole
<1> QED BY <1>1, InitWhole, TypeInvariance, LockInvariance, OwnInvariance,
           RightfulInvariance, PTL DEF Spec

(* Only two processes that hold the lock of one open file at once make an  *)
(* event come apart, or a signal between its two writes.                   *)
THEOREM TraceLogWholeUnlessClash == Spec => []WholeUnlessClash
<1>1. WholeInv => WholeUnlessClash
  BY DEF WholeInv, WholeUnlessClash
<1> QED BY <1>1, WholeInvariance, PTL

-----------------------------------------------------------------------------
(* The order of the events.  Part of an event is appended only when all    *)
(* that its process has recorded before it are in the file.                *)
LEMMA OrderGrows ==
    ASSUME TypeOK, EventsInOrder, NEW x \in Halves, file' = Append(file, x),
           \A p \in Procs, n, m \in 1..MaxEvents :
             n < m /\ x.of = <<p, m>> => InFile(<<p, n>>)
    PROVE  EventsInOrder'
<1>1. /\ Len(file) \in Nat /\ DOMAIN file = 1..Len(file)
      /\ DOMAIN file' = 1..(Len(file) + 1)
      /\ \A i \in 1..Len(file) : file'[i] = file[i]
      /\ file'[Len(file) + 1] = x
  BY AppendFacts, FileType
<1>2. SUFFICES ASSUME NEW p \in Procs, NEW n \in 1..MaxEvents, NEW m \in 1..MaxEvents,
                      NEW j \in 1..(Len(file) + 1), n < m, file'[j].of = <<p, m>>
               PROVE  \E i \in 1..(j - 1) : file'[i] = Half(<<p, n>>, 2)
  BY <1>1 DEF EventsInOrder
<1>3. CASE j \in 1..Len(file)
  <2>1. file[j].of = <<p, m>>
    BY <1>1, <1>2, <1>3
  <2>2. PICK i \in 1..(j - 1) : file[i] = Half(<<p, n>>, 2)
    BY <1>1, <1>2, <1>3, <2>1 DEF EventsInOrder
  <2>3. i \in 1..Len(file)
    BY <1>1, <1>3
  <2>4. file'[i] = Half(<<p, n>>, 2)
    BY <1>1, <2>2, <2>3
  <2> QED BY <2>4
<1>4. CASE j = Len(file) + 1
  <2>1. x.of = <<p, m>>
    BY <1>1, <1>2, <1>4
  <2>2. PICK i \in 1..Len(file) : file[i] = Half(<<p, n>>, 2)
    BY <1>1, <1>2, <2>1 DEF InFile
  <2>3. file'[i] = Half(<<p, n>>, 2)
    BY <1>1, <2>2
  <2>4. i \in 1..(j - 1)
    BY <1>1, <1>4
  <2> QED BY <2>3, <2>4
<1>5. j \in 1..Len(file) \/ j = Len(file) + 1
  BY <1>1
<1> QED BY <1>3, <1>4, <1>5

(* What waits in the memory of a process, be it its own or inherited, is   *)
(* in order, and all before the first is in the file.                      *)
Ordered(s, logged) ==
    \A i \in 1..Len(s) : \A q \in Procs, n, m \in 1..MaxEvents :
      n < m /\ s[i] = <<q, m>> =>
        <<q, n>> \in logged \/ \E j \in 1..(i - 1) : s[j] = <<q, n>>

OrderInv == EventsInOrder /\ \A p \in Procs : Ordered(buf[p], Logged)

LEMMA MoreLogged ==
    ASSUME NEW s, NEW logged, NEW more, Ordered(s, logged), logged \subseteq more
    PROVE  Ordered(s, more)
BY DEF Ordered

LEMMA FirstInOrder ==
    ASSUME NEW s \in Seq(Events), s # <<>>, NEW logged, Ordered(s, logged),
           NEW q \in Procs, NEW n \in 1..MaxEvents, NEW m \in 1..MaxEvents,
           n < m, Head(s) = <<q, m>>
    PROVE  <<q, n>> \in logged
<1>1. Len(s) \in Nat \ {0} /\ Head(s) = s[1] /\ 1 \in 1..Len(s) /\ 1..(1 - 1) = {}
  BY TailFacts
<1> QED BY <1>1 DEF Ordered

(* The rest is in order when the first is in the file.                     *)
LEMMA RestInOrder ==
    ASSUME NEW s \in Seq(Events), s # <<>>, NEW logged, Ordered(s, logged)
    PROVE  Ordered(Tail(s), logged \cup {Head(s)})
<1> DEFINE t == Tail(s)
<1>1. /\ Len(s) \in Nat \ {0} /\ Len(t) = Len(s) - 1 /\ Head(s) = s[1]
      /\ \A i \in 1..(Len(s) - 1) : t[i] = s[i + 1]
  BY TailFacts
<1> HIDE DEF t
<1>2. ASSUME NEW i \in 1..Len(t), NEW q \in Procs,
             NEW n \in 1..MaxEvents, NEW m \in 1..MaxEvents, n < m, t[i] = <<q, m>>
      PROVE  <<q, n>> \in logged \cup {Head(s)} \/ \E j \in 1..(i - 1) : t[j] = <<q, n>>
  <2>1. i \in 1..(Len(s) - 1) /\ i + 1 \in 1..Len(s) /\ s[i + 1] = <<q, m>>
    BY <1>1, <1>2
  <2>2. <<q, n>> \in logged \/ \E j \in 1..i : s[j] = <<q, n>>
    <3>1. (i + 1) - 1 = i
      BY <1>1
    <3> QED BY <1>2, <2>1, <3>1 DEF Ordered
  <2>3. ASSUME NEW j \in 1..i, s[j] = <<q, n>>, j # 1
        PROVE  \E k \in 1..(i - 1) : t[k] = <<q, n>>
    <3>1. j - 1 \in 1..(i - 1) /\ j - 1 \in 1..(Len(s) - 1) /\ (j - 1) + 1 = j
      BY <1>1, <2>3
    <3> QED BY <1>1, <2>3, <3>1
  <2> QED BY <1>1, <2>2, <2>3
<1>3. Ordered(t, logged \cup {Head(s)})
  BY <1>2 DEF Ordered
<1> QED BY <1>3 DEF t

(* A new event comes after all that its process has recorded.              *)
LEMMA RecordInOrder ==
    ASSUME TypeOK, OwnInv, KeptInv, NEW p \in Procs, Ordered(buf[p], Logged), Record(p)
    PROVE  Ordered(buf'[p], Logged)
<1> DEFINE old == IF owner[p] = p THEN buf[p] ELSE <<>>
           event == <<p, count[p] + 1>>
<1>1. /\ event \in Events /\ old \in Seq(Events) /\ buf'[p] = Append(old, event)
      /\ count[p] \in Nat
  BY TraceLogConstants DEF Record, TypeOK, Events
<1>2. Ordered(old, Logged)
  <2>1. Ordered(<<>>, Logged)
    BY DEF Ordered
  <2> QED BY <2>1
<1>3. /\ Len(buf'[p]) = Len(old) + 1 /\ Len(old) \in Nat
      /\ \A i \in 1..Len(old) : buf'[p][i] = old[i]
      /\ buf'[p][Len(old) + 1] = event
  <2> HIDE DEF event, old
  <2> QED BY <1>1, AppendFacts
<1>4. ASSUME NEW n \in 1..MaxEvents, n < count[p] + 1
      PROVE  <<p, n>> \in Logged \/ \E j \in 1..Len(old) : old[j] = <<p, n>>
  <2>1. owner[p] = p
    BY <1>1, <1>4 DEF OwnInv, Own
  <2>2. old = buf[p] /\ Numbered(p) /\ Written(p) = count[p] - Len(buf[p])
    BY <2>1 DEF OwnInv, Own, Written
  <2>3. CASE n \in 1..Written(p)
    <3>1. InFile(<<p, n>>) /\ <<p, n>> \in Events
      BY <2>1, <2>3 DEF KeptInv, InOrder, Events
    <3> QED BY <3>1 DEF Logged
  <2>4. CASE n \notin 1..Written(p)
    <3>1. n - Written(p) \in 1..Len(old) /\ Written(p) + (n - Written(p)) = n
      BY <1>1, <1>3, <1>4, <2>2, <2>4 DEF Numbered
    <3>2. buf[p][n - Written(p)] = <<p, Written(p) + (n - Written(p))>>
      BY <2>2, <3>1 DEF Numbered
    <3> QED BY <2>2, <3>1, <3>2
  <2> QED BY <2>3, <2>4
<1> HIDE DEF old
<1>5. ASSUME NEW i \in 1..(Len(old) + 1), NEW q \in Procs,
             NEW n \in 1..MaxEvents, NEW m \in 1..MaxEvents, n < m, buf'[p][i] = <<q, m>>
      PROVE  <<q, n>> \in Logged \/ \E j \in 1..(i - 1) : buf'[p][j] = <<q, n>>
  <2>1. CASE i \in 1..Len(old)
    <3>1. <<q, n>> \in Logged \/ \E j \in 1..(i - 1) : old[j] = <<q, n>>
      BY <1>2, <1>3, <1>5, <2>1 DEF Ordered
    <3>2. \A j \in 1..(i - 1) : j \in 1..Len(old)
      BY <1>3, <2>1
    <3> QED BY <1>3, <3>1, <3>2
  <2>2. CASE i = Len(old) + 1
    <3>1. q = p /\ m = count[p] + 1
      BY <1>3, <1>5, <2>2
    <3>2. <<p, n>> \in Logged \/ \E j \in 1..Len(old) : old[j] = <<p, n>>
      BY <1>4, <1>5, <3>1
    <3>3. 1..(i - 1) = 1..Len(old)
      BY <1>3, <2>2
    <3> QED BY <1>3, <3>1, <3>2, <3>3
  <2> QED BY <1>3, <2>1, <2>2
<1> QED BY <1>3, <1>5 DEF Ordered

LEMMA StepInOrder ==
    ASSUME TypeOK, StepInv, OrderInv, [Next]_vars
    PROVE  EventsInOrder' /\ Logged \subseteq Logged'
<1> DEFINE Goal == EventsInOrder' /\ Logged \subseteq Logged'
<1> USE DEF OrderInv, Logged
<1>1. CASE file' = file
  BY <1>1 DEF EventsInOrder, InFile
<1>2. ASSUME NEW x \in Halves, file' = Append(file, x),
             \A q \in Procs, n, m \in 1..MaxEvents :
               n < m /\ x.of = <<q, m>> => InFile(<<q, n>>)
      PROVE  Goal
  BY <1>2, OrderGrows, FileGrows
<1>3. ASSUME NEW e, NEW h \in {1, 2}, file' = Append(file, Half(e, h)), NEW p \in Procs,
             e = Header \/ (buf[p] # <<>> /\ e = Head(buf[p]))
      PROVE  Goal
  <2>1. buf[p] \in Seq(Events) /\ Ordered(buf[p], Logged)
    BY DEF TypeOK
  <2>2. e \in Events \cup {Header}
    BY <1>3, <2>1
  <2>3. Half(e, h) \in Halves /\ Half(e, h).of = e
    BY <2>2, HeaderFacts DEF Halves
  <2>4. e = Header => \A q \in Procs, m \in 1..MaxEvents : e # <<q, m>>
    BY HeaderFacts DEF Events
  <2>5. ASSUME NEW q \in Procs, NEW n \in 1..MaxEvents, NEW m \in 1..MaxEvents,
               n < m, e = <<q, m>>
        PROVE  InFile(<<q, n>>)
    <3>1. buf[p] # <<>> /\ Head(buf[p]) = <<q, m>>
      BY <1>3, <2>4, <2>5
    <3>2. <<q, n>> \in Logged
      BY <2>1, <2>5, <3>1, FirstInOrder
    <3> QED BY <3>2
  <2> QED BY <1>2, <1>3, <2>3, <2>5
<1>4. ASSUME NEW p \in Procs, WriteFirst(p) PROVE Goal
  <2>1. \/ Head(ToWrite(p)) = Header
        \/ buf[p] # <<>> /\ Head(ToWrite(p)) = Head(buf[p])
    BY <1>4, ToWriteFacts DEF WriteFirst
  <2> QED BY <1>3, <1>4, <2>1 DEF WriteFirst
<1>5. ASSUME NEW p \in Procs, WriteSecond(p) PROVE Goal
  <2>1. why[p] = "enable" \/ buf[p] # <<>>
    BY <1>5 DEF WriteSecond, StepInv
  <2> QED BY <1>3, <1>5, <2>1 DEF WriteSecond
<1>6. ASSUME NEW p \in Procs, Enable(p) \/ Record(p) \/ Flush(p) \/ Disable(p)
      PROVE  file' = file
  BY <1>6 DEF Enable, Record, Flush, Disable, disk
<1>7. ASSUME NEW p \in Procs, LockFile(p) \/ Unlock(p) \/ End(p) \/ Finish(p) \/ Kill(p)
      PROVE  file' = file
  BY <1>7 DEF LockFile, Unlock, End, Finish, Kill, disk
<1>8. ASSUME NEW p \in Procs, NEW c \in Kids, NEW raw \in BOOLEAN, Fork(p, c, raw)
      PROVE  file' = file
  BY <1>8 DEF Fork, disk
<1>9. CASE UNCHANGED vars
  BY <1>1, <1>9 DEF vars, disk
<1> QED BY <1>1, <1>4, <1>5, <1>6, <1>7, <1>8, <1>9 DEF Next, FileStep

LEMMA StepOrder ==
    ASSUME TypeOK, StepInv, OwnInv, KeptInv, OrderInv, [Next]_vars
    PROVE  OrderInv'
<1>1. EventsInOrder' /\ Logged \subseteq Logged'
  BY StepInOrder
<1>2. SUFFICES \A q \in Procs : Ordered(buf'[q], Logged')
  BY <1>1 DEF OrderInv
<1>3. ASSUME NEW q \in Procs, NEW r \in Procs, buf'[q] = buf[r] PROVE Ordered(buf'[q], Logged')
  BY <1>1, <1>3, MoreLogged DEF OrderInv
<1>4. ASSUME NEW p \in Procs, Record(p) PROVE \A q \in Procs : Ordered(buf'[q], Logged')
  <2>1. \A q \in Procs \ {p} : buf'[q] = buf[q]
    BY <1>4 DEF Record, TypeOK
  <2>2. Ordered(buf'[p], Logged)
    BY <1>4, RecordInOrder DEF OrderInv
  <2>3. Ordered(buf'[p], Logged')
    BY <1>1, <2>2, MoreLogged
  <2> QED BY <1>3, <2>1, <2>3
<1>5. ASSUME NEW p \in Procs, WriteSecond(p) PROVE \A q \in Procs : Ordered(buf'[q], Logged')
  <2>1. CASE why[p] = "enable"
    BY <1>3, <1>5, <2>1 DEF WriteSecond
  <2>2. CASE why[p] # "enable"
    <3>1. buf' = [buf EXCEPT ![p] = Tail(@)] /\ file' = Append(file, Half(Head(buf[p]), 2))
      BY <1>5, <2>2 DEF WriteSecond
    <3>2. buf[p] \in Seq(Events) /\ buf[p] # <<>> /\ buf'[p] = Tail(buf[p])
      BY <1>5, <2>2, <3>1 DEF WriteSecond, StepInv, TypeOK
    <3>3. Head(buf[p]) \in Events
      BY <3>2
    <3>4. Head(buf[p]) \in Logged'
      <4>1. ASSUME NEW e \in Events, file' = Append(file, Half(e, 2)) PROVE e \in Logged'
        <5>1. Half(e, 2) \in Halves
          BY HeaderFacts DEF Halves
        <5>2. InFile(e)'
          BY <4>1, <5>1, FileGrows
        <5> QED BY <5>2 DEF Logged
      <4> QED BY <3>1, <3>3, <4>1
    <3>5. Ordered(Tail(buf[p]), Logged \cup {Head(buf[p])})
      BY <3>2, RestInOrder DEF OrderInv
    <3>6. Ordered(buf'[p], Logged')
      <4>1. Logged \cup {Head(buf[p])} \subseteq Logged'
        BY <1>1, <3>4
      <4>2. Ordered(Tail(buf[p]), Logged')
        BY <3>5, <4>1, MoreLogged
      <4> QED BY <3>2, <4>2
    <3>7. \A q \in Procs \ {p} : buf'[q] = buf[q]
      BY <3>1 DEF TypeOK
    <3> QED BY <1>3, <3>6, <3>7
  <2> QED BY <2>1, <2>2
<1>6. ASSUME NEW p \in Procs, NEW c \in Kids, NEW raw \in BOOLEAN, Fork(p, c, raw)
      PROVE  \A q \in Procs : Ordered(buf'[q], Logged')
  <2>1. \A q \in Procs : buf'[q] = buf[q] \/ buf'[q] = buf[p]
    BY <1>6 DEF Fork, TypeOK
  <2> QED BY <1>3, <2>1
<1>7. ASSUME NEW p \in Procs, Kill(p) PROVE \A q \in Procs : Ordered(buf'[q], Logged')
  <2>1. buf'[p] = <<>> /\ \A q \in Procs \ {p} : buf'[q] = buf[q]
    BY <1>7 DEF Kill, TypeOK
  <2>2. Ordered(buf'[p], Logged')
    BY <2>1 DEF Ordered
  <2> QED BY <1>3, <2>1, <2>2
<1>8. ASSUME buf' = buf PROVE \A q \in Procs : Ordered(buf'[q], Logged')
  BY <1>3, <1>8
<1>9. ASSUME NEW p \in Procs, Enable(p) \/ Flush(p) \/ Disable(p) \/ End(p) \/ Finish(p)
      PROVE  buf' = buf
  BY <1>9 DEF Enable, Flush, Disable, End, Finish, memory
<1>10. ASSUME NEW p \in Procs, LockFile(p) \/ WriteFirst(p) \/ Unlock(p)
       PROVE  buf' = buf
  BY <1>10 DEF LockFile, WriteFirst, Unlock, memory
<1>11. CASE UNCHANGED vars
  BY <1>8, <1>11 DEF vars, memory
<1> QED BY <1>4, <1>5, <1>6, <1>7, <1>8, <1>9, <1>10, <1>11 DEF Next, FileStep

LEMMA OrderInvariance == Spec => []OrderInv
<1>1. Init => OrderInv
  BY DEF Init, OrderInv, EventsInOrder, Ordered
<1>2. (TypeOK /\ StepInv) /\ OwnInv /\ KeptInv /\ OrderInv /\ [Next]_vars => OrderInv'
  BY StepOrder
<1> QED BY <1>1, <1>2, TypeInvariance, OwnInvariance, KeptInvariance, PTL DEF Spec

(* The events of a process are in the file in their order and without a    *)
(* gap, whoever writes beside it or in its place, and whenever it is       *)
(* killed.                                                                 *)
THEOREM TraceLogEventsInOrder == Spec => []EventsInOrder
<1>1. OrderInv => EventsInOrder
  BY DEF OrderInv
<1> QED BY <1>1, OrderInvariance, PTL

-----------------------------------------------------------------------------
(* The log as a journal.  Whatever is in memory or in the file was         *)
(* recorded by its own process, unless that was killed.                    *)
JournalStep == [Journal!JournalNext]_(Journal!journalVars)

Recorded(K, C, e) == e[1] \in K \/ e[2] <= C[e[1]]

KnownInv ==
    /\ \A p \in Procs : \A i \in 1..Len(buf[p]) : Recorded(killed, count, buf[p][i])
    /\ \A i \in 1..Len(file), e \in Events : file[i].of = e => Recorded(killed, count, e)

LEMMA RecordedKept ==
    ASSUME TypeOK, [Next]_vars, NEW e \in Events, Recorded(killed, count, e)
    PROVE  Recorded(killed', count', e)
<1>1. PICK a \in Procs, n \in 1..MaxEvents : e = <<a, n>>
  BY DEF Events
<1>2. e[1] = a /\ e[2] = n /\ n \in Nat /\ count[a] \in Nat
  BY <1>1, TraceLogConstants DEF TypeOK
<1>3. ASSUME a \in killed' \/ (killed \subseteq killed' /\ count'[a] \in {count[a], count[a] + 1})
      PROVE  Recorded(killed', count', e)
  BY <1>2, <1>3 DEF Recorded
<1>4. ASSUME NEW p \in Procs, Record(p) PROVE Recorded(killed', count', e)
  BY <1>3, <1>4 DEF Record, TypeOK, process
<1>5. ASSUME NEW p \in Procs, Kill(p) PROVE Recorded(killed', count', e)
  <2>1. killed' = killed \cup {p} /\ count' = [count EXCEPT ![p] = 0]
    BY <1>5 DEF Kill
  <2>2. a # p => count'[a] = count[a]
    BY <2>1 DEF TypeOK
  <2> QED BY <1>3, <2>1, <2>2
<1>6. ASSUME UNCHANGED <<killed, count>> PROVE Recorded(killed', count', e)
  BY <1>3, <1>6
<1>7. ASSUME NEW p \in Procs, Enable(p) \/ Flush(p) \/ Disable(p) \/ LockFile(p)
      PROVE  UNCHANGED <<killed, count>>
  BY <1>7 DEF Enable, Flush, Disable, LockFile, process, memory
<1>8. ASSUME NEW p \in Procs, WriteFirst(p) \/ WriteSecond(p) \/ Unlock(p)
      PROVE  UNCHANGED <<killed, count>>
  BY <1>8 DEF WriteFirst, WriteSecond, Unlock, process, memory
<1>9. ASSUME NEW p \in Procs, End(p) \/ Finish(p) PROVE UNCHANGED <<killed, count>>
  BY <1>9 DEF End, Finish
<1>10. ASSUME NEW p \in Procs, NEW c \in Kids, NEW raw \in BOOLEAN, Fork(p, c, raw)
       PROVE  UNCHANGED <<killed, count>>
  BY <1>10 DEF Fork
<1>11. CASE UNCHANGED vars
  BY <1>6, <1>11 DEF vars, process, memory
<1> QED BY <1>4, <1>5, <1>6, <1>7, <1>8, <1>9, <1>10, <1>11 DEF Next, FileStep

LEMMA FileKnown ==
    ASSUME TypeOK, KnownInv, [Next]_vars, NEW p \in Procs, NEW x \in Halves,
           file' = Append(file, x),
           x.of = Header \/ (buf[p] # <<>> /\ x.of = Head(buf[p]))
    PROVE  \A i \in 1..Len(file'), e \in Events : file'[i].of = e => Recorded(killed', count', e)
<1>1. /\ Len(file) \in Nat /\ Len(file') = Len(file) + 1
      /\ \A i \in 1..Len(file) : file'[i] = file[i]
      /\ file'[Len(file) + 1] = x
  BY AppendFacts, FileType
<1>2. ASSUME NEW e \in Events, x.of = e PROVE Recorded(killed, count, e)
  <2>1. buf[p] # <<>> /\ buf[p] \in Seq(Events) /\ e = Head(buf[p])
    BY <1>2, HeaderFacts DEF TypeOK
  <2>2. Len(buf[p]) \in Nat \ {0} /\ e = buf[p][1]
    BY <2>1, TailFacts
  <2>3. 1 \in 1..Len(buf[p])
    BY <2>2
  <2> QED BY <2>2, <2>3 DEF KnownInv
<1>3. ASSUME NEW i \in 1..Len(file'), NEW e \in Events, file'[i].of = e
      PROVE  Recorded(killed, count, e)
  <2>1. CASE i \in 1..Len(file)
    BY <1>1, <1>3, <2>1 DEF KnownInv
  <2>2. CASE i = Len(file) + 1
    BY <1>1, <1>2, <1>3, <2>2
  <2> QED BY <1>1, <2>1, <2>2
<1> QED BY <1>3, RecordedKept

LEMMA StepFileKnown ==
    ASSUME TypeOK, StepInv, KnownInv, [Next]_vars
    PROVE  \A i \in 1..Len(file'), e \in Events : file'[i].of = e => Recorded(killed', count', e)
<1> DEFINE Goal == \A i \in 1..Len(file'), e \in Events : file'[i].of = e => Recorded(killed', count', e)
<1>1. CASE file' = file
  BY <1>1, RecordedKept DEF KnownInv
<1>2. ASSUME NEW e, NEW h \in {1, 2}, file' = Append(file, Half(e, h)), NEW p \in Procs,
             e = Header \/ (buf[p] # <<>> /\ e = Head(buf[p]))
      PROVE  Goal
  <2>1. e \in Events \cup {Header}
    BY <1>2 DEF TypeOK
  <2>2. Half(e, h) \in Halves /\ Half(e, h).of = e
    BY <2>1, HeaderFacts DEF Halves
  <2> QED BY <1>2, <2>2, FileKnown
<1>3. ASSUME NEW p \in Procs, WriteFirst(p) PROVE Goal
  <2>1. \/ Head(ToWrite(p)) = Header
        \/ buf[p] # <<>> /\ Head(ToWrite(p)) = Head(buf[p])
    BY <1>3, ToWriteFacts DEF WriteFirst
  <2> QED BY <1>2, <1>3, <2>1 DEF WriteFirst
<1>4. ASSUME NEW p \in Procs, WriteSecond(p) PROVE Goal
  <2>1. why[p] = "enable" \/ buf[p] # <<>>
    BY <1>4 DEF WriteSecond, StepInv
  <2> QED BY <1>2, <1>4, <2>1 DEF WriteSecond
<1>5. ASSUME NEW p \in Procs, Enable(p) \/ Record(p) \/ Flush(p) \/ Disable(p)
      PROVE  file' = file
  BY <1>5 DEF Enable, Record, Flush, Disable, disk
<1>6. ASSUME NEW p \in Procs, LockFile(p) \/ Unlock(p) \/ End(p) \/ Finish(p) \/ Kill(p)
      PROVE  file' = file
  BY <1>6 DEF LockFile, Unlock, End, Finish, Kill, disk
<1>7. ASSUME NEW p \in Procs, NEW c \in Kids, NEW raw \in BOOLEAN, Fork(p, c, raw)
      PROVE  file' = file
  BY <1>7 DEF Fork, disk
<1>8. CASE UNCHANGED vars
  BY <1>1, <1>8 DEF vars, disk
<1> QED BY <1>1, <1>3, <1>4, <1>5, <1>6, <1>7, <1>8 DEF Next, FileStep

LEMMA StepKnown ==
    ASSUME TypeOK, StepInv, OwnInv, KnownInv, [Next]_vars
    PROVE  KnownInv'
<1> DEFINE Known(q) == \A i \in 1..Len(buf'[q]) : Recorded(killed', count', buf'[q][i])
<1>1. SUFFICES \A q \in Procs : Known(q)
  BY StepFileKnown DEF KnownInv
<1>2. ASSUME NEW q \in Procs, NEW r \in Procs, buf'[q] = buf[r] PROVE Known(q)
  <2>1. ASSUME NEW i \in 1..Len(buf[r]) PROVE Recorded(killed', count', buf[r][i])
    <3>1. buf[r][i] \in Events
      BY <2>1 DEF TypeOK
    <3>2. Recorded(killed, count, buf[r][i])
      BY <2>1 DEF KnownInv
    <3> QED BY <3>1, <3>2, RecordedKept
  <2> QED BY <1>2, <2>1 DEF Recorded
<1>3. ASSUME NEW p \in Procs, Record(p) PROVE \A q \in Procs : Known(q)
  <2>1. \A q \in Procs \ {p} : buf'[q] = buf[q]
    BY <1>3 DEF Record, TypeOK
  <2>2. Numbered(p)' /\ count'[p] \in Nat /\ buf'[p] \in Seq(Events)
    <3>1. Numbered(p)'
      BY <1>3, RecordFacts
    <3>2. TypeOK'
      BY StepTypeOK
    <3> QED BY <3>1, <3>2 DEF TypeOK
  <2>3. ASSUME NEW i \in 1..Len(buf'[p]) PROVE Recorded(killed', count', buf'[p][i])
    <3>1. /\ buf'[p][i] = <<p, Written(p)' + i>>
          /\ Written(p)' = count'[p] - Len(buf'[p])
      BY <2>2, <2>3 DEF Numbered, Written
    <3>2. Len(buf'[p]) \in Nat
      BY <2>2
    <3>3. Written(p)' + i <= count'[p]
      BY <2>2, <2>3, <3>1, <3>2
    <3>4. buf'[p][i][1] = p /\ buf'[p][i][2] <= count'[p]
      BY <3>1, <3>3
    <3> QED BY <3>4 DEF Recorded
  <2> QED BY <1>2, <2>1, <2>3 DEF Recorded
<1>4. ASSUME NEW p \in Procs, WriteSecond(p) PROVE \A q \in Procs : Known(q)
  <2>1. CASE why[p] = "enable"
    BY <1>2, <1>4, <2>1 DEF WriteSecond
  <2>2. CASE why[p] # "enable"
    <3>1. /\ buf[p] \in Seq(Events) /\ buf[p] # <<>> /\ buf'[p] = Tail(buf[p])
          /\ \A q \in Procs \ {p} : buf'[q] = buf[q]
      BY <1>4, <2>2 DEF WriteSecond, StepInv, TypeOK
    <3>2. /\ Len(buf[p]) \in Nat \ {0} /\ Len(buf'[p]) = Len(buf[p]) - 1
          /\ \A i \in 1..(Len(buf[p]) - 1) : buf'[p][i] = buf[p][i + 1]
      BY <3>1, TailFacts
    <3>3. ASSUME NEW i \in 1..Len(buf'[p]) PROVE Recorded(killed', count', buf'[p][i])
      <4>1. i + 1 \in 1..Len(buf[p]) /\ buf'[p][i] = buf[p][i + 1]
        BY <3>2, <3>3
      <4>2. Recorded(killed, count, buf[p][i + 1]) /\ buf[p][i + 1] \in Events
        BY <3>1, <4>1 DEF KnownInv
      <4>3. Recorded(killed', count', buf[p][i + 1])
        BY <4>2, RecordedKept
      <4> QED BY <4>1, <4>3 DEF Recorded
    <3> QED BY <1>2, <3>1, <3>3 DEF Recorded
  <2> QED BY <2>1, <2>2
<1>5. ASSUME NEW p \in Procs, NEW c \in Kids, NEW raw \in BOOLEAN, Fork(p, c, raw)
      PROVE  \A q \in Procs : Known(q)
  <2>1. \A q \in Procs : buf'[q] = buf[q] \/ buf'[q] = buf[p]
    BY <1>5 DEF Fork, TypeOK
  <2> QED BY <1>2, <2>1
<1>6. ASSUME NEW p \in Procs, Kill(p) PROVE \A q \in Procs : Known(q)
  <2>1. buf'[p] = <<>> /\ \A q \in Procs \ {p} : buf'[q] = buf[q]
    BY <1>6 DEF Kill, TypeOK
  <2> QED BY <1>2, <2>1
<1>7. ASSUME buf' = buf PROVE \A q \in Procs : Known(q)
  BY <1>2, <1>7
<1>8. ASSUME NEW p \in Procs, Enable(p) \/ Flush(p) \/ Disable(p) \/ End(p) \/ Finish(p)
      PROVE  buf' = buf
  BY <1>8 DEF Enable, Flush, Disable, End, Finish, memory
<1>9. ASSUME NEW p \in Procs, LockFile(p) \/ WriteFirst(p) \/ Unlock(p)
      PROVE  buf' = buf
  BY <1>9 DEF LockFile, WriteFirst, Unlock, memory
<1>10. CASE UNCHANGED vars
  BY <1>7, <1>10 DEF vars, memory
<1> HIDE DEF Known
<1> QED BY <1>3, <1>4, <1>5, <1>6, <1>7, <1>8, <1>9, <1>10 DEF Next, FileStep

LEMMA KnownInvariance == Spec => []KnownInv
<1>1. Init => KnownInv
  BY DEF Init, KnownInv
<1>2. (TypeOK /\ StepInv) /\ OwnInv /\ KnownInv /\ [Next]_vars => KnownInv'
  BY StepKnown
<1> QED BY <1>1, <1>2, TypeInvariance, OwnInvariance, PTL DEF Spec

(* What half an event that is appended makes of the journal.               *)
LEMMA JournalGrows ==
    ASSUME TypeOK, NEW x \in Halves, file' = Append(file, x)
    PROVE  \A e : InFile(e)' <=> InFile(e) \/ x = Half(e, 2)
<1>1. /\ Len(file) \in Nat /\ DOMAIN file = 1..Len(file)
      /\ DOMAIN file' = 1..(Len(file) + 1)
      /\ \A i \in 1..Len(file) : file'[i] = file[i]
      /\ file'[Len(file) + 1] = x
  BY AppendFacts, FileType
<1>2. \A i \in DOMAIN file' : i \in DOMAIN file \/ i = Len(file) + 1
  BY <1>1
<1>3. ASSUME NEW e, InFile(e)' PROVE InFile(e) \/ x = Half(e, 2)
  BY <1>1, <1>2, <1>3 DEF InFile
<1> QED BY <1>3, FileGrows

LEMMA JournalStays ==
    ASSUME OwnEvents' = OwnEvents, killed' = killed,
           \A e \in Events : InFile(e)' <=> InFile(e)
    PROVE  JournalStep
<1>1. Logged' = Logged
  BY DEF Logged
<1> QED BY <1>1 DEF JournalStep, Journal!journalVars

LEMMA RecordIsNote ==
    ASSUME TypeOK, StepInv, OwnInv, KnownInv, NEW p \in Procs, Record(p)
    PROVE  JournalStep
<1> DEFINE event == <<p, count[p] + 1>>
<1>1. /\ count[p] \in Nat /\ count[p] + 1 \in 1..MaxEvents
      /\ event \in Events /\ event \in EventsOf[p] /\ p \notin killed
  <2>1. count[p] \in Nat /\ count[p] < MaxEvents /\ alive[p] = "running"
    BY TraceLogConstants DEF Record, Free, TypeOK
  <2>2. p \notin killed
    BY <2>1 DEF StepInv
  <2>3. count[p] + 1 \in 1..MaxEvents
    BY <2>1, TraceLogConstants
  <2> QED BY <2>1, <2>2, <2>3 DEF Events, EventsOf
<1>2. owner[p] = p =>
        /\ Numbered(p) /\ Len(buf[p]) \in Nat /\ DOMAIN buf[p] = 1..Len(buf[p])
  BY DEF OwnInv, Own, TypeOK
<1>3. ~InFile(event)
  <2>1. ASSUME NEW i \in DOMAIN file, file[i].of = event PROVE FALSE
    <3>1. i \in 1..Len(file)
      BY FileType
    <3>2. Recorded(killed, count, event)
      BY <1>1, <2>1, <3>1 DEF KnownInv
    <3> QED BY <1>1, <3>2 DEF Recorded
  <2> HIDE DEF event
  <2> QED BY <2>1, HeaderFacts DEF InFile
<1>4. \A i \in DOMAIN OwnEvents[p] : OwnEvents[p][i] # event
  <2>1. CASE owner[p] = p
    <3>1. OwnEvents[p] = buf[p]
      BY <2>1 DEF OwnEvents
    <3>2. \A i \in 1..Len(buf[p]) : buf[p][i] = <<p, Written(p) + i>>
      BY <1>2, <2>1 DEF Numbered
    <3>3. \A i \in 1..Len(buf[p]) : Written(p) + i # count[p] + 1
      BY <1>1, <1>2, <2>1 DEF Written
    <3> QED BY <1>2, <2>1, <3>1, <3>2, <3>3
  <2>2. CASE owner[p] # p
    BY <2>2 DEF OwnEvents
  <2> QED BY <2>1, <2>2
<1>5. OwnEvents' = [OwnEvents EXCEPT ![p] = Append(@, event)]
  <2>1. /\ owner' = [owner EXCEPT ![p] = p]
        /\ buf' = [buf EXCEPT ![p] = Append(IF owner[p] = p THEN @ ELSE <<>>, event)]
    BY DEF Record
  <2>2. owner'[p] = p /\ buf'[p] = Append(OwnEvents[p], event)
    BY <2>1 DEF TypeOK, OwnEvents
  <2>3. \A q \in Procs \ {p} : owner'[q] = owner[q] /\ buf'[q] = buf[q]
    BY <2>1 DEF TypeOK
  <2> HIDE DEF event
  <2> QED BY <2>2, <2>3 DEF OwnEvents
<1>6. file' = file /\ killed' = killed
  BY DEF Record, disk, process
<1> HIDE DEF event
<1>7. Logged' = Logged
  BY <1>6 DEF Logged, InFile
<1>8. event \notin Logged
  BY <1>3 DEF Logged
<1>9. Journal!Note(p, event)
  BY <1>1, <1>4, <1>5, <1>6, <1>7, <1>8 DEF Journal!Note
<1> QED BY <1>1, <1>9 DEF JournalStep, Journal!JournalNext

(* What waits in a process's memory first is in the file, or next to come  *)
(* there of what its own process has recorded.                             *)
Echoes(a, e) ==
    \/ a \in killed
    \/ \E i \in DOMAIN OwnEvents[a] :
         OwnEvents[a][i] = e /\ \A j \in 1..(i - 1) : OwnEvents[a][j] \in Logged

LEMMA CopyEchoes ==
    ASSUME TypeOK, OwnInv, KeptInv, OrderInv, KnownInv, NEW p \in Procs,
           buf[p] # <<>>, Head(buf[p]) \notin Logged
    PROVE  \E a \in Procs : Head(buf[p]) \in EventsOf[a] /\ Echoes(a, Head(buf[p]))
<1>1. /\ buf[p] \in Seq(Events) /\ Head(buf[p]) = buf[p][1]
      /\ Head(buf[p]) \in Events /\ 1 \in 1..Len(buf[p])
  <2>1. buf[p] \in Seq(Events)
    BY DEF TypeOK
  <2> QED BY <2>1, TailFacts
<1>2. PICK a \in Procs, n \in 1..MaxEvents : Head(buf[p]) = <<a, n>>
  BY <1>1 DEF Events
<1>3. Head(buf[p]) \in EventsOf[a]
  <2>1. <<a, n>> \in {a} \X (1..MaxEvents)
    BY <1>2
  <2> QED BY <1>2, <2>1 DEF EventsOf
<1>4. SUFFICES ASSUME a \notin killed PROVE Echoes(a, <<a, n>>)
  BY <1>2, <1>3 DEF Echoes
<1>5. n <= count[a] /\ n \in Nat \ {0} /\ count[a] \in Nat
  <2>1. Recorded(killed, count, <<a, n>>)
    BY <1>1, <1>2 DEF KnownInv
  <2> QED BY <1>4, <2>1, TraceLogConstants DEF Recorded, TypeOK
<1>6. owner[a] = a
  BY <1>5 DEF OwnInv, Own
<1>7. /\ Numbered(a) /\ Len(buf[a]) \in Nat /\ DOMAIN buf[a] = 1..Len(buf[a])
      /\ Written(a) = count[a] - Len(buf[a]) /\ OwnEvents[a] = buf[a]
  BY <1>6 DEF OwnInv, Own, TypeOK, Written, OwnEvents
<1>8. n \notin 1..Written(a)
  <2>1. <<a, n>> \in Events /\ ~InFile(<<a, n>>)
    BY <1>1, <1>2 DEF Logged
  <2> QED BY <1>6, <2>1 DEF KeptInv, InOrder
<1>9. Written(a) \in Nat /\ n - Written(a) \in 1..Len(buf[a])
  BY <1>5, <1>7, <1>8 DEF Numbered
<1>10. \A i \in 1..Len(buf[a]) : buf[a][i] = <<a, Written(a) + i>>
  BY <1>7 DEF Numbered
<1>11. buf[a][n - Written(a)] = <<a, n>>
  <2>1. Written(a) + (n - Written(a)) = n
    BY <1>5, <1>9
  <2> QED BY <1>9, <1>10, <2>1
<1>12. ASSUME NEW j \in 1..((n - Written(a)) - 1) PROVE buf[a][j] \in Logged
  <2>1. /\ Written(a) + j \in 1..MaxEvents /\ Written(a) + j < n
        /\ j \in 1..Len(buf[a])
    BY <1>2, <1>5, <1>9, <1>12, TraceLogConstants
  <2>2. <<a, Written(a) + j>> \in Logged
    BY <1>1, <1>2, <2>1, FirstInOrder DEF OrderInv
  <2> QED BY <1>10, <2>1, <2>2
<1> QED BY <1>7, <1>9, <1>11, <1>12 DEF Echoes

LEMMA WriteIsPublish ==
    ASSUME TypeOK, StepInv, OwnInv, KeptInv, OrderInv, KnownInv,
           NEW p \in Procs, WriteSecond(p)
    PROVE  JournalStep
<1>1. UNCHANGED <<owner, killed>> /\ at[p] = "half" /\ p \notin killed
  BY DEF WriteSecond, process, StepInv
<1>2. CASE why[p] = "enable"
  <2>1. file' = Append(file, Half(Header, 2)) /\ buf' = buf
    BY <1>2 DEF WriteSecond
  <2>2. Half(Header, 2) \in Halves
    BY HeaderFacts DEF Halves
  <2>3. \A e \in Events : Half(Header, 2) # Half(e, 2)
    BY HeaderFacts
  <2>4. \A e \in Events : InFile(e)' <=> InFile(e)
    BY <2>1, <2>2, <2>3, JournalGrows
  <2>5. OwnEvents' = OwnEvents
    BY <1>1, <2>1 DEF OwnEvents
  <2> QED BY <1>1, <2>4, <2>5, JournalStays
<1>3. CASE why[p] # "enable"
  <2> DEFINE event == Head(buf[p])
  <2>1. buf[p] # <<>> /\ buf[p] \in Seq(Events)
    BY <1>1, <1>3 DEF StepInv, TypeOK
  <2>2. /\ file' = Append(file, Half(event, 2))
        /\ buf' = [buf EXCEPT ![p] = Tail(@)]
    BY <1>3 DEF WriteSecond
  <2>3. event \in Events
    BY <2>1
  <2> HIDE DEF event
  <2>4. Half(event, 2) \in Halves
    BY <2>3, HeaderFacts DEF Halves
  <2>5. \A e : InFile(e)' <=> InFile(e) \/ e = event
    <3>1. \A e : InFile(e)' <=> InFile(e) \/ Half(event, 2) = Half(e, 2)
      BY <2>2, <2>4, JournalGrows
    <3> QED BY <3>1, HeaderFacts
  <2>6. Logged' = Logged \cup {event}
    BY <2>3, <2>5 DEF Logged
  <2>7. /\ buf'[p] = Tail(buf[p]) /\ owner' = owner
        /\ \A q \in Procs \ {p} : buf'[q] = buf[q]
    BY <1>1, <2>2 DEF TypeOK
  <2>8. CASE owner[p] = p
    <3>1. OwnEvents[p] = buf[p] /\ event = Head(OwnEvents[p])
      BY <2>8 DEF OwnEvents, event
    <3>2. OwnEvents' = [OwnEvents EXCEPT ![p] = Tail(@)]
      BY <2>7, <2>8, <3>1 DEF OwnEvents
    <3>3. Journal!Publish(p)
      BY <1>1, <2>1, <2>6, <3>1, <3>2 DEF Journal!Publish
    <3> QED BY <3>3 DEF JournalStep, Journal!JournalNext
  <2>9. CASE owner[p] # p
    <3>1. OwnEvents' = OwnEvents
      BY <2>7, <2>9 DEF OwnEvents
    <3>2. CASE event \in Logged
      <4>1. Logged' = Logged
        BY <2>6, <3>2
      <4> QED BY <1>1, <3>1, <4>1 DEF JournalStep, Journal!journalVars
    <3>3. CASE event \notin Logged
      <4>1. PICK a \in Procs : event \in EventsOf[a] /\ Echoes(a, event)
        BY <2>1, <3>3, CopyEchoes DEF event
      <4>2. Journal!Echo(a, event)
        BY <1>1, <2>6, <3>1, <4>1 DEF Journal!Echo, Echoes
      <4> QED BY <4>1, <4>2 DEF JournalStep, Journal!JournalNext
    <3> QED BY <3>2, <3>3
  <2> QED BY <2>8, <2>9
<1> QED BY <1>2, <1>3

LEMMA KillIsPerish ==
    ASSUME TypeOK, StepInv, NEW p \in Procs, Kill(p)
    PROVE  JournalStep
<1>1. /\ p \notin killed /\ killed' = killed \cup {p} /\ file' = file
      /\ owner' = [owner EXCEPT ![p] = None] /\ buf' = [buf EXCEPT ![p] = <<>>]
  BY DEF Kill, StepInv
<1>2. OwnEvents' = [OwnEvents EXCEPT ![p] = <<>>]
  <2>1. buf'[p] = <<>> /\ \A q \in Procs \ {p} : owner'[q] = owner[q] /\ buf'[q] = buf[q]
    BY <1>1 DEF TypeOK
  <2> QED BY <2>1 DEF OwnEvents
<1>3. Logged' = Logged
  BY <1>1 DEF Logged, InFile
<1>4. Journal!Perish(p)
  BY <1>1, <1>2, <1>3 DEF Journal!Perish
<1> QED BY <1>4 DEF JournalStep, Journal!JournalNext

(* A forked process has nothing of its own to write.                       *)
LEMMA ForkIsQuiet ==
    ASSUME TypeOK, OwnInv, NEW p \in Procs, NEW c \in Kids, NEW raw \in BOOLEAN,
           Fork(p, c, raw)
    PROVE  JournalStep
<1>1. /\ owner' = [owner EXCEPT ![c] = owner[p]] /\ buf' = [buf EXCEPT ![c] = buf[p]]
      /\ alive[c] = "absent" /\ UNCHANGED <<killed, file>>
  BY DEF Fork, disk
<1>2. c \in Procs /\ owner[c] # c /\ owner[p] # c
  BY <1>1, ProcFacts DEF OwnInv
<1>3. owner'[c] # c /\ \A q \in Procs \ {c} : owner'[q] = owner[q] /\ buf'[q] = buf[q]
  BY <1>1, <1>2 DEF TypeOK
<1>4. OwnEvents' = OwnEvents
  BY <1>2, <1>3 DEF OwnEvents
<1> QED BY <1>1, <1>4, JournalStays DEF InFile

LEMMA NextIsJournalStep ==
    ASSUME TypeOK, StepInv, OwnInv, KeptInv, OrderInv, KnownInv, [Next]_vars
    PROVE  JournalStep
<1>1. ASSUME UNCHANGED <<owner, buf, killed, file>> PROVE JournalStep
  <2>1. OwnEvents' = OwnEvents
    BY <1>1 DEF OwnEvents
  <2> QED BY <1>1, <2>1, JournalStays DEF InFile
<1>2. ASSUME NEW p \in Procs, Enable(p) \/ Flush(p) \/ Disable(p) PROVE JournalStep
  BY <1>1, <1>2 DEF Enable, Flush, Disable, process, memory, disk
<1>3. ASSUME NEW p \in Procs, LockFile(p) \/ Unlock(p) PROVE JournalStep
  BY <1>1, <1>3 DEF LockFile, Unlock, process, memory
<1>4. ASSUME NEW p \in Procs, End(p) \/ Finish(p) PROVE JournalStep
  BY <1>1, <1>4 DEF End, Finish, disk
<1>5. ASSUME NEW p \in Procs, WriteFirst(p) PROVE JournalStep
  <2> DEFINE x == Half(Head(ToWrite(p)), 1)
  <2>1. file' = Append(file, x) /\ UNCHANGED <<owner, buf, killed>>
    BY <1>5 DEF WriteFirst, process, memory
  <2>2. Head(ToWrite(p)) \in Events \cup {Header}
    BY <1>5, ToWriteFacts DEF WriteFirst
  <2>3. x \in Halves /\ \A e : x # Half(e, 2)
    BY <2>2, HeaderFacts DEF Halves
  <2> HIDE DEF x
  <2>4. \A e \in Events : InFile(e)' <=> InFile(e)
    BY <2>1, <2>3, JournalGrows
  <2>5. OwnEvents' = OwnEvents
    BY <2>1 DEF OwnEvents
  <2> QED BY <2>1, <2>4, <2>5, JournalStays
<1>6. CASE UNCHANGED vars
  BY <1>1, <1>6 DEF vars, process, memory, disk
<1> QED BY <1>2, <1>3, <1>4, <1>5, <1>6, RecordIsNote, WriteIsPublish, KillIsPerish,
           ForkIsQuiet DEF Next, FileStep

(* The log that any number of processes share is a journal: what each has  *)
(* recorded comes to it in its order, from that process or as a copy, and  *)
(* only a process that is killed loses what it has not written.            *)
THEOREM TraceLogImplementsJournal == Spec => JournalImplemented
<1>1. Init => Journal!JournalInit
  <2> SUFFICES ASSUME Init PROVE Journal!JournalInit
    OBVIOUS
  <2>1. OwnEvents = [p \in Procs |-> <<>>]
    BY DEF Init, OwnEvents
  <2>2. Logged = {}
    BY DEF Init, Logged, InFile
  <2> QED BY <2>1, <2>2 DEF Init, Journal!JournalInit
<1>2. (TypeOK /\ StepInv) /\ OwnInv /\ KeptInv /\ OrderInv /\ KnownInv /\ [Next]_vars
        => [Journal!JournalNext]_(Journal!journalVars)
  BY NextIsJournalStep DEF JournalStep
<1> QED BY <1>1, <1>2, TypeInvariance, OwnInvariance, KeptInvariance, OrderInvariance,
           KnownInvariance, PTL DEF Spec, JournalImplemented, Journal!JournalSpec
=============================================================================
