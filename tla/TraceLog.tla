------------------------------ MODULE TraceLog ------------------------------
(***************************************************************************)
(* py_trace_event, trace_event_impl/log.py: every process keeps the events *)
(* it records in memory and appends them to a log file that it may share,  *)
(* with the processes it forks (which inherit the open file) and with      *)
(* processes that open it themselves.  A threading.Lock makes the          *)
(* operations of one process atomic to each other, flock() those of        *)
(* processes that opened the file themselves: a forked process shares the  *)
(* open file, and with it the lock, of its parent.  An event reaches the   *)
(* unbuffered file in several writes, here in two halves.                  *)
(***************************************************************************)
EXTENDS Naturals, Sequences

CONSTANTS Roots,     \* processes that open the log file themselves
          Kids,      \* processes that can be forked
          None,
          MaxEvents, \* bound: events that a process records
          Threaded   \* processes fork while another of their threads flushes

Procs == Roots \cup Kids

ASSUME TraceLogConstants ==
    /\ Roots \cap Kids = {} /\ None \notin Procs
    /\ MaxEvents \in Nat
    /\ Threaded \in BOOLEAN

VARIABLES alive,   \* [Procs -> "absent", "running", "ending" or "dead"]
          killed,  \* the processes that died of a signal
          trace,   \* [Procs -> "off", "on", "broken" (on, without a file), "closed"]
          allowed, \* _control_allowed: not a child of the multiprocessing shim
          stuck,   \* forked while _lock was held: they wait for it for good
          owner,   \* [Procs -> _atexit_registered_for_pid]
          fd,      \* [Procs -> which process opened the _log_file]
          buf,     \* [Procs -> _cur_events]
          count,   \* [Procs -> number of events recorded]
          at,      \* [Procs -> step of the flush under way]
          why,     \* [Procs -> what it is for: "enable", "flush" or "close"]
          flock,   \* the open file that holds the lock on the log file
          file,    \* the log file: halves of the header and of events
          clash,   \* history: two processes have held the lock at once
          copied   \* history: <<event, process>>: a forked process that had
                   \* recorded none itself has written what it inherited

process == <<alive, killed, allowed, stuck>>
memory == <<trace, owner, fd, buf, count>>
disk == <<flock, file, clash, copied>>
vars == <<process, memory, at, why, disk>>

Events == Procs \X (1..MaxEvents)
Header == <<"header">>
Half(e, h) == [of |-> e, half |-> h]

Init ==
    /\ alive = [p \in Procs |-> IF p \in Roots THEN "running" ELSE "absent"]
    /\ killed = {} /\ allowed = Procs /\ stuck = {}
    /\ trace = [p \in Procs |-> "off"]
    /\ owner = [p \in Procs |-> None] /\ fd = [p \in Procs |-> None]
    /\ buf = [p \in Procs |-> <<>>] /\ count = [p \in Procs |-> 0]
    /\ at = [p \in Procs |-> "idle"] /\ why = [p \in Procs |-> "flush"]
    /\ flock = None /\ file = <<>> /\ clash = FALSE /\ copied = {}

-----------------------------------------------------------------------------
(* p can begin an operation: it runs and _lock is free.                    *)
Free(p) == alive[p] = "running" /\ at[p] = "idle" /\ p \notin stuck
Enabled(p) == trace[p] \in {"on", "broken"}

Begin(p, purpose) ==
    /\ at' = [at EXCEPT ![p] = "wait"]
    /\ why' = [why EXCEPT ![p] = purpose]

(* _trace_enable, up to the lock on the file.  If the file cannot be       *)
(* opened tracing has been enabled all the same.  (No process enables it   *)
(* again after disabling it.)                                              *)
Enable(p) ==
    /\ p \in Roots /\ Free(p) /\ trace[p] = "off"
    /\ \/ /\ trace' = [trace EXCEPT ![p] = "on"]
          /\ fd' = [fd EXCEPT ![p] = p]
          /\ Begin(p, "enable")
       \/ /\ trace' = [trace EXCEPT ![p] = "broken"]
          /\ UNCHANGED <<fd, at, why>>
    /\ UNCHANGED <<process, owner, buf, count, disk>>

(* Mutant: the events of the parent are kept.                              *)
Record_KeepEvents(p) ==
    /\ Free(p) /\ Enabled(p) /\ count[p] < MaxEvents
    /\ count' = [count EXCEPT ![p] = @ + 1]
    /\ owner' = [owner EXCEPT ![p] = p]
    /\ buf' = [buf EXCEPT ![p] = Append(@, <<p, count[p] + 1>>)]
    /\ UNCHANGED <<process, trace, fd, at, why, disk>>

(* add_trace_event: the first one in a process drops what it has inherited *)
(* from its parent's memory.                                               *)
Record(p) ==
    /\ Free(p) /\ Enabled(p) /\ count[p] < MaxEvents
    /\ count' = [count EXCEPT ![p] = @ + 1]
    /\ owner' = [owner EXCEPT ![p] = p]
    /\ buf' = [buf EXCEPT ![p] =
                 Append(IF owner[p] = p THEN @ ELSE <<>>, <<p, count[p] + 1>>)]
    /\ UNCHANGED <<process, trace, fd, at, why, disk>>

(* trace_flush; without a file it raises.  A forked process that has       *)
(* recorded nothing yet flushes its parent's events.                       *)
Flush(p) ==
    /\ Free(p) /\ trace[p] = "on"
    /\ Begin(p, "flush")
    /\ UNCHANGED <<process, memory, disk>>

(* Mutant: tracing stays on.                                               *)
DisableNow_StaysOn(p) ==
    \/ /\ trace[p] = "on"
       /\ Begin(p, "close") /\ UNCHANGED trace
    \/ /\ trace[p] = "broken"
       /\ trace' = [trace EXCEPT ![p] = "off"]
       /\ UNCHANGED <<at, why>>

(* trace_disable: tracing is off, then the events are flushed and the file *)
(* is closed; without a file this raises.  A child of the shim may not.    *)
DisableNow(p) ==
    \/ /\ trace[p] = "on"
       /\ trace' = [trace EXCEPT ![p] = "closed"]
       /\ Begin(p, "close")
    \/ /\ trace[p] = "broken"
       /\ trace' = [trace EXCEPT ![p] = "off"]
       /\ UNCHANGED <<at, why>>

Disable(p) ==
    /\ Free(p) /\ p \in allowed
    /\ DisableNow(p)
    /\ UNCHANGED <<process, owner, fd, buf, count, disk>>

-----------------------------------------------------------------------------
(* The steps of an operation on the file.                                  *)
(* Mutant: the lock is shared.                                             *)
LockFile_Shared(p) ==
    /\ at[p] = "wait"
    /\ flock' = fd[p]
    /\ clash' = (clash \/ flock = fd[p])
    /\ at' = [at EXCEPT ![p] = "hold"]
    /\ UNCHANGED <<process, memory, why, file, copied>>

(* AcquireFileLock: it belongs to the open file, not to the process.       *)
LockFile(p) ==
    /\ at[p] = "wait"
    /\ flock \in {None, fd[p]}
    /\ flock' = fd[p]
    /\ clash' = (clash \/ flock = fd[p])
    /\ at' = [at EXCEPT ![p] = "hold"]
    /\ UNCHANGED <<process, memory, why, file, copied>>

(* Mutant: the size of the file is not looked at.                          *)
ToWrite_AlwaysHeader(p) == IF why[p] = "enable" THEN <<Header>> ELSE buf[p]

(* The header if the file is new, or the events.                           *)
ToWrite(p) ==
    IF why[p] # "enable" THEN buf[p]
    ELSE IF file = <<>> THEN <<Header>> ELSE <<>>

WriteFirst(p) ==
    /\ at[p] = "hold" /\ ToWrite(p) # <<>>
    /\ file' = Append(file, Half(Head(ToWrite(p)), 1))
    /\ at' = [at EXCEPT ![p] = "half"]
    /\ copied' = IF why[p] # "enable" /\ owner[p] # p
                 THEN copied \cup {<<Head(buf[p]), p>>} ELSE copied
    /\ UNCHANGED <<process, memory, why, flock, clash>>

(* An event is dropped from memory when it is written (the code drops all  *)
(* of them after the last, which no other operation can tell).             *)
WriteSecond(p) ==
    /\ at[p] = "half"
    /\ file' = Append(file, Half(IF why[p] = "enable" THEN Header ELSE Head(buf[p]), 2))
    /\ IF why[p] = "enable"
       THEN at' = [at EXCEPT ![p] = "done"] /\ UNCHANGED buf
       ELSE at' = [at EXCEPT ![p] = "hold"] /\ buf' = [buf EXCEPT ![p] = Tail(@)]
    /\ UNCHANGED <<process, trace, owner, fd, count, why, flock, clash, copied>>

(* ReleaseFileLock, whoever else counts on it; then the file is closed.    *)
Unlock(p) ==
    /\ \/ at[p] = "done"
       \/ at[p] = "hold" /\ ToWrite(p) = <<>>
    /\ flock' = IF flock = fd[p] THEN None ELSE flock
    /\ at' = [at EXCEPT ![p] = "idle"] /\ why' = [why EXCEPT ![p] = "flush"]
    /\ fd' = IF why[p] = "close" THEN [fd EXCEPT ![p] = None] ELSE fd
    /\ UNCHANGED <<process, trace, owner, buf, count, file, clash, copied>>

-----------------------------------------------------------------------------
(* Processes.                                                              *)
(* os.fork (raw) or the shim's Process: the memory of the parent is copied *)
(* and its open file shared.  If _lock is held it is never released.       *)
Fork(p, c, raw) ==
    /\ alive[p] = "running" /\ p \notin stuck /\ trace[p] = "on" /\ fd[p] # None
    /\ at[p] = "idle" \/ Threaded
    /\ c \in Kids /\ alive[c] = "absent"
    /\ alive' = [alive EXCEPT ![c] = "running"]
    /\ allowed' = IF raw /\ p \in allowed THEN allowed ELSE allowed \ {c}
    /\ stuck' = IF at[p] = "idle" THEN stuck ELSE stuck \cup {c}
    /\ trace' = [trace EXCEPT ![c] = "on"]
    /\ owner' = [owner EXCEPT ![c] = owner[p]]
    /\ fd' = [fd EXCEPT ![c] = fd[p]]
    /\ buf' = [buf EXCEPT ![c] = buf[p]]
    /\ UNCHANGED <<killed, count, at, why, disk>>

(* The lock goes with the last process that has the file open.             *)
CloseFile(p) ==
    /\ fd' = [fd EXCEPT ![p] = None]
    /\ flock' = IF flock = fd[p] /\ \A q \in Procs \ {p} : fd[q] # fd[p]
                THEN None ELSE flock

(* The handler that _trace_disable_atexit registers runs in the process    *)
(* that recorded an event and in those it forks with os.fork.              *)
AtExit(p) == p \in allowed /\ owner[p] # None

(* Mutant: the shim does not flush.                                        *)
End_NoFlush(p) ==
    /\ alive[p] = "running" /\ at[p] = "idle"
    /\ alive' = [alive EXCEPT ![p] = "ending"]
    /\ \/ /\ Free(p) /\ AtExit(p) /\ Enabled(p)
          /\ DisableNow(p)
       \/ /\ ~(AtExit(p) /\ Enabled(p))
          /\ UNCHANGED <<trace, at, why>>
    /\ UNCHANGED <<killed, allowed, stuck, owner, fd, buf, count, disk>>

(* A process ends: a child of the shim flushes, another one disables       *)
(* tracing if the handler is registered.                                   *)
End(p) ==
    /\ alive[p] = "running" /\ at[p] = "idle"
    /\ alive' = [alive EXCEPT ![p] = "ending"]
    /\ \/ /\ Free(p) /\ p \notin allowed /\ trace[p] = "on"
          /\ Begin(p, "flush") /\ UNCHANGED trace
       \/ /\ Free(p) /\ AtExit(p) /\ Enabled(p)
          /\ DisableNow(p)
       \/ /\ p \in allowed /\ ~(AtExit(p) /\ Enabled(p))
          /\ UNCHANGED <<trace, at, why>>
    /\ UNCHANGED <<killed, allowed, stuck, owner, fd, buf, count, disk>>

Finish(p) ==
    /\ alive[p] = "ending" /\ at[p] = "idle"
    /\ alive' = [alive EXCEPT ![p] = "dead"]
    /\ CloseFile(p)
    /\ UNCHANGED <<killed, allowed, stuck, trace, owner, buf, count, at, why, file,
                   clash, copied>>

(* terminate(), or any other signal, at any step: its memory is gone.      *)
Kill(p) ==
    /\ alive[p] \in {"running", "ending"}
    /\ alive' = [alive EXCEPT ![p] = "dead"]
    /\ killed' = killed \cup {p}
    /\ trace' = [trace EXCEPT ![p] = "off"]
    /\ owner' = [owner EXCEPT ![p] = None]
    /\ buf' = [buf EXCEPT ![p] = <<>>]
    /\ count' = [count EXCEPT ![p] = 0]
    /\ at' = [at EXCEPT ![p] = "idle"] /\ why' = [why EXCEPT ![p] = "flush"]
    /\ CloseFile(p)
    /\ UNCHANGED <<allowed, stuck, file, clash, copied>>

FileStep(p) == LockFile(p) \/ WriteFirst(p) \/ WriteSecond(p) \/ Unlock(p)

Next ==
    \E p \in Procs :
      \/ Enable(p) \/ Record(p) \/ Flush(p) \/ Disable(p)
      \/ FileStep(p)
      \/ \E c \in Kids, raw \in BOOLEAN : Fork(p, c, raw)
      \/ End(p) \/ Finish(p) \/ Kill(p)

Spec == Init /\ [][Next]_vars

-----------------------------------------------------------------------------
(* The type of the variables; tracing, when it is on, has a file to go to. *)
TypeOK ==
    /\ alive \in [Procs -> {"absent", "running", "ending", "dead"}]
    /\ killed \in SUBSET Procs /\ allowed \in SUBSET Procs /\ stuck \in SUBSET Kids
    /\ trace \in [Procs -> {"off", "on", "broken", "closed"}]
    /\ owner \in [Procs -> Procs \cup {None}]
    /\ fd \in [Procs -> Roots \cup {None}]
    /\ \A p \in Procs :
         fd[p] = None => at[p] = "idle" /\ (trace[p] = "on" => alive[p] = "dead")
    /\ buf \in [Procs -> Seq(Events)]
    /\ count \in [Procs -> 0..MaxEvents]
    /\ at \in [Procs -> {"idle", "wait", "hold", "half", "done"}]
    /\ why \in [Procs -> {"enable", "flush", "close"}]
    /\ flock \in Roots \cup {None}
    /\ file \in Seq([of : Events \cup {Header}, half : {1, 2}])
    /\ clash \in BOOLEAN /\ copied \in SUBSET (Events \X Procs)

(* The log file begins with a header and has no other, however many        *)
(* processes open it at once.                                              *)
OneHeader ==
    \A i \in DOMAIN file : file[i] = Half(Header, 1) <=> i = 1

(* "Multiple processes can safely output into a single trace_event         *)
(* logfile": the first half of an event is followed by the other, unless   *)
(* the process that wrote it was killed in between.                        *)
Copied(e) == \E q \in Procs : <<e, q>> \in copied

Writers(x) ==
    IF x.of = Header THEN Roots
    ELSE {x.of[1]} \cup {q \in Procs : <<x.of, q>> \in copied}

WholeEvents ==
    \A i \in DOMAIN file :
      file[i].half = 1 =>
        \/ i = Len(file)
        \/ file[i + 1] = Half(file[i].of, 2)
        \/ Writers(file[i]) \cap killed # {}

(* Only processes that share an open file, and so hold the lock both at    *)
(* once, make an event come apart: with anybody's, once they have.         *)
WholeUnlessClash == clash \/ WholeEvents

(* No event is in the file twice, but those that a forked process wrote    *)
(* which had recorded none of its own by then: the first that it records   *)
(* drops what it has inherited.                                            *)
EventsOnce ==
    \A i, j \in DOMAIN file : file[i] = file[j] => i = j \/ Copied(file[i].of)

(* The events of a process are in the file in the order in which it        *)
(* recorded them, and without a gap: one that was killed loses its last.   *)
EventsInOrder ==
    \A p \in Procs, n, m \in 1..MaxEvents, j \in DOMAIN file :
      n < m /\ file[j].of = <<p, m>> => \E i \in 1..(j - 1) : file[i] = Half(<<p, n>>, 2)

(* Whatever a process has recorded is in its memory or in the file, until  *)
(* it is killed.                                                           *)
InFile(e) == \E i \in DOMAIN file : file[i] = Half(e, 2)

NothingForgotten ==
    \A p \in Procs \ killed : \A n \in 1..count[p] :
      \/ InFile(<<p, n>>)
      \/ alive[p] # "dead" /\ \E i \in DOMAIN buf[p] : buf[p][i] = <<p, n>>
      \/ trace[p] \in {"off", "broken"}

(* The log file is locked only as long as somebody works on it: only a     *)
(* process that was killed leaves it locked, by way of its relatives.      *)
Writing(p) == at[p] \in {"hold", "half", "done"}

NoStaleLock ==
    flock # None =>
      \/ \E p \in Procs : Writing(p) /\ fd[p] = flock
      \/ killed # {}

(* A log of events that come to it in the order in which each process has  *)
(* recorded its own, from that process or as a copy from one forked from   *)
(* it; only a signal takes one away.  What a forked process has inherited  *)
(* from its parent's memory is not its own.                                *)
OwnEvents == [p \in Procs |-> IF owner[p] = p THEN buf[p] ELSE <<>>]
EventsOf == [p \in Procs |-> {p} \X (1..MaxEvents)]
Logged == {e \in Events : InFile(e)}

Journal == INSTANCE EventJournal
               WITH Authors <- Procs, Records <- EventsOf,
                    waiting <- OwnEvents, dead <- killed,
                    journal <- Logged
JournalImplemented == Journal!JournalSpec
=============================================================================
