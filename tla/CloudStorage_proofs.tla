------------------------ MODULE CloudStorage_proofs ------------------------
(***************************************************************************)
(* Proofs about CloudStorage, for any number of processes.                 *)
(***************************************************************************)
EXTENDS CloudStorage, TLAPS

Calls == [do : {"none", "changed", "hash", "get"}, at : Locations,
          fd : Inodes \cup {None}, want : Hashes \cup {None}]

(* One process at most is at work under the guard; the flock of an inode   *)
(* is held only as long as the name stands for it.                         *)
LockInv ==
    /\ \A p \in Procs : call[p].at \in {"open", "flock", "unlock", "remove"} => guard = p
    /\ \A p \in Procs : call[p].at = "flock" => link = call[p].fd
    /\ \A p \in Procs : call[p].at = "remove" => \A i \in Inodes : held[i] = None
    /\ \A p \in Procs : call[p].at \in Inside => held[call[p].fd] = p
    /\ \A i \in Inodes : held[i] # None => link = i

(* Only GetIfChanged goes through these.                                   *)
ChangedInv ==
    \A p \in Procs : call[p].at \in {"chosen", "compared", "half", "stamped", "verify"}
                         => call[p].do = "changed"

(* As long as .fetchts tells the truth, the hash wanted is still the one   *)
(* of .sha1, and the file is right or being fetched.                       *)
FreshInv ==
    fetched = "new" /\ ~spoiled =>
       /\ \A p \in Procs : Fetching(p) => call[p].want = sha1
       /\ file \in {None, sha1} \/ \E p \in Procs : Fetching(p)

Inv == TypeOK /\ LockInv /\ ChangedInv /\ FreshInv

-----------------------------------------------------------------------------
(* The call of one process changes, and of no other.                       *)
Becomes(p, do, at, fd, want) ==
    /\ call' \in [Procs -> Calls]
    /\ call'[p].do = do /\ call'[p].at = at
    /\ call'[p].fd = fd /\ call'[p].want = want
    /\ \A q \in Procs : q # p => call'[q] = call[q]

(* What an update of one entry of `call` leaves.                           *)
LEMMA EntrySet ==
    ASSUME call \in [Procs -> Calls], NEW p \in Procs, NEW c \in Calls,
           call' = [call EXCEPT ![p] = c]
    PROVE  Becomes(p, c.do, c.at, c.fd, c.want)
<1>1. call'[p] = c /\ \A q \in Procs : q # p => call'[q] = call[q]
  OBVIOUS
<1>2. call' \in [Procs -> Calls]
  OBVIOUS
<1> QED BY <1>1, <1>2 DEF Becomes

LEMMA GotoFacts ==
    ASSUME call \in [Procs -> Calls], NEW p \in Procs, NEW where \in Locations,
           Goto(p, where)
    PROVE  Becomes(p, call[p].do, where, call[p].fd, call[p].want)
<1> DEFINE c == [call[p] EXCEPT !.at = where]
<1>1. call' = [call EXCEPT ![p] = c]
  BY DEF Goto
<1>2. c \in Calls /\ c.do = call[p].do /\ c.at = where /\ c.fd = call[p].fd
      /\ c.want = call[p].want
  BY DEF Calls
<1> HIDE DEF c
<1> QED BY <1>1, <1>2, EntrySet

LEMMA FdFacts ==
    ASSUME call \in [Procs -> Calls], NEW p \in Procs, NEW where \in Locations,
           NEW i \in Inodes \cup {None},
           call' = [call EXCEPT ![p].at = where, ![p].fd = i]
    PROVE  Becomes(p, call[p].do, where, i, call[p].want)
<1> DEFINE c == [call[p] EXCEPT !.at = where, !.fd = i]
<1>1. call' = [call EXCEPT ![p] = c]
  OBVIOUS
<1>2. c \in Calls /\ c.do = call[p].do /\ c.at = where /\ c.fd = i
      /\ c.want = call[p].want
  BY DEF Calls
<1> HIDE DEF c
<1> QED BY <1>1, <1>2, EntrySet

LEMMA WantFacts ==
    ASSUME call \in [Procs -> Calls], NEW p \in Procs, NEW where \in Locations,
           NEW h \in Hashes \cup {None},
           call' = [call EXCEPT ![p].at = where, ![p].want = h]
    PROVE  Becomes(p, call[p].do, where, call[p].fd, h)
<1> DEFINE c == [call[p] EXCEPT !.at = where, !.want = h]
<1>1. call' = [call EXCEPT ![p] = c]
  OBVIOUS
<1>2. c \in Calls /\ c.do = call[p].do /\ c.at = where /\ c.fd = call[p].fd
      /\ c.want = h
  BY DEF Calls
<1> HIDE DEF c
<1> QED BY <1>1, <1>2, EntrySet

LEMMA IdleFacts ==
    ASSUME call \in [Procs -> Calls], NEW p \in Procs, call' = [call EXCEPT ![p] = Idle]
    PROVE  Becomes(p, "none", "idle", None, None)
<1>1. Idle \in Calls /\ Idle.do = "none" /\ Idle.at = "idle" /\ Idle.fd = None
      /\ Idle.want = None
  BY DEF Idle, Calls, Locations
<1> QED BY <1>1, EntrySet

-----------------------------------------------------------------------------
LEMMA InitInv == Init => Inv
<1> HAVE Init
<1>1. Idle \in Calls /\ Idle.at = "idle" /\ Idle.fd = None
  BY DEF Idle, Calls, Locations
<1>2. \A p \in Procs : call[p] = Idle
  BY DEF Init
<1>3. call \in [Procs -> Calls]
  BY <1>1 DEF Init
<1>4. TypeOK
  BY <1>1, <1>2, <1>3 DEF Init, TypeOK, Inside, Calls
<1>5. LockInv
  BY <1>1, <1>2 DEF Init, LockInv, Inside
<1>6. ChangedInv
  BY <1>1, <1>2 DEF ChangedInv
<1>7. FreshInv
  BY DEF Init, FreshInv
<1> QED BY <1>4, <1>5, <1>6, <1>7 DEF Inv

(* The types, when one call moves on and the variables keep theirs.        *)
LEMMA TypeMoves ==
    ASSUME TypeOK, NEW p \in Procs, NEW do, NEW at, NEW fd, NEW want,
           Becomes(p, do, at, fd, want), fd # None <=> at \in Inside \cup {"flock"},
           guard' \in Procs \cup {None}, link' \in Inodes \cup {None},
           held' \in [Inodes -> Procs \cup {None}],
           file' \in Hashes \cup {None}, sha1' \in Hashes \cup {None},
           fetched' \in {"none", "half", "old", "new"}, spoiled' \in BOOLEAN
    PROVE  TypeOK'
<1>1. \A q \in Procs : call'[q].fd # None <=> call'[q].at \in Inside \cup {"flock"}
  BY DEF TypeOK, Becomes
<1> QED BY <1>1 DEF TypeOK, Becomes, Calls

(* A call that keeps the locks as they are, inside or outside.             *)
LEMMA LockMoves ==
    ASSUME TypeOK, LockInv, NEW p \in Procs, NEW do, NEW at, NEW fd, NEW want,
           Becomes(p, do, at, fd, want), UNCHANGED locks,
           \/ at \in {"idle", "try"}
           \/ call[p].at \in Inside /\ at \in Inside \ {"unlock"} /\ fd = call[p].fd
    PROVE  LockInv'
<1> USE DEF Becomes
<1>1. UNCHANGED <<guard, link, held>>
  BY DEF locks
<1>2. (\A q \in Procs : call[q].at \in {"open", "flock", "unlock", "remove"} => guard = q)'
  BY <1>1 DEF LockInv, Inside
<1>3. (\A q \in Procs : call[q].at = "flock" => link = call[q].fd)'
  BY <1>1 DEF LockInv, Inside
<1>4. (\A q \in Procs : call[q].at = "remove" => \A i \in Inodes : held[i] = None)'
  BY <1>1 DEF LockInv, Inside
<1>5. (\A q \in Procs : call[q].at \in Inside => held[call[q].fd] = q)'
  BY <1>1 DEF LockInv, Inside
<1>6. (\A i \in Inodes : held[i] # None => link = i)'
  BY <1>1 DEF LockInv
<1> QED BY <1>2, <1>3, <1>4, <1>5, <1>6 DEF LockInv

(* A call that stays out of what only GetIfChanged does.                   *)
LEMMA ChangedMoves ==
    ASSUME ChangedInv, NEW p \in Procs, NEW do, NEW at, NEW fd, NEW want,
           Becomes(p, do, at, fd, want),
           at \in {"chosen", "compared", "half", "stamped", "verify"} => do = "changed"
    PROVE  ChangedInv'
BY DEF ChangedInv, Becomes

(* A call that leaves the files alone and fetches neither before nor after.*)
LEMMA FreshMoves ==
    ASSUME FreshInv, NEW p \in Procs, NEW do, NEW at, NEW fd, NEW want,
           Becomes(p, do, at, fd, want), UNCHANGED files, ~Fetching(p),
           ~(do = "changed" /\ at \in {"stamped", "download", "verify"})
    PROVE  FreshInv'
<1>1. \A q \in Procs : Fetching(q)' <=> Fetching(q)
  BY DEF Fetching, Becomes
<1>2. \A q \in Procs : Fetching(q) => call'[q] = call[q]
  BY DEF Becomes
<1>3. UNCHANGED <<file, sha1, fetched, spoiled>>
  BY DEF files
<1> QED BY <1>1, <1>2, <1>3 DEF FreshInv

-----------------------------------------------------------------------------
(* Steps that change nothing but the call.                                 *)
LEMMA CallMoves ==
    ASSUME Inv, NEW p \in Procs, NEW do, NEW at, NEW fd, NEW want,
           Becomes(p, do, at, fd, want), UNCHANGED <<locks, files>>,
           fd # None <=> at \in Inside \cup {"flock"},
           \/ at \in {"idle", "try"}
           \/ call[p].at \in Inside /\ at \in Inside \ {"unlock"} /\ fd = call[p].fd,
           at \in {"chosen", "compared", "half", "stamped", "verify"} => do = "changed",
           ~Fetching(p), ~(do = "changed" /\ at \in {"stamped", "download", "verify"})
    PROVE  Inv'
<1>1. UNCHANGED locks /\ UNCHANGED files
  BY DEF Inv
<1>2. TypeOK'
  BY <1>1, TypeMoves DEF Inv, TypeOK, locks, files
<1>3. LockInv'
  BY <1>1, LockMoves DEF Inv
<1>4. ChangedInv'
  BY ChangedMoves DEF Inv
<1>5. FreshInv'
  BY <1>1, FreshMoves DEF Inv
<1> QED BY <1>2, <1>3, <1>4, <1>5 DEF Inv

LEMMA CallTypes == TypeOK => call \in [Procs -> Calls]
BY DEF TypeOK, Calls

LEMMA BeginInv == ASSUME Inv, NEW p \in Procs, Begin(p) PROVE Inv'
<1> SUFFICES ASSUME NEW do \in {"changed", "hash", "get"}, NEW want \in Hashes \cup {None},
                    Call(p, do, want)
             PROVE  Inv'
  BY DEF Begin
<1> DEFINE c == [do |-> do, at |-> "try", fd |-> None, want |-> want]
<1>1. c \in Calls /\ c.do = do /\ c.at = "try" /\ c.fd = None /\ c.want = want
  BY DEF Calls, Locations
<1>2. call' = [call EXCEPT ![p] = c] /\ call[p].at = "idle" /\ UNCHANGED <<locks, files>>
  BY DEF Call, At
<1> HIDE DEF c
<1>3. Becomes(p, do, "try", None, want)
  BY <1>1, <1>2, EntrySet, CallTypes DEF Inv
<1>4. ~Fetching(p)
  BY <1>2 DEF Fetching
<1> QED BY <1>2, <1>3, <1>4, CallMoves DEF Inside

LEMMA GiveUpInv == ASSUME Inv, NEW p \in Procs, GiveUp(p) PROVE Inv'
<1>1. call \in [Procs -> Calls] /\ UNCHANGED <<locks, files>>
  BY CallTypes DEF Inv, GiveUp
<1>2. ~Fetching(p)
  BY DEF GiveUp, At, Fetching
<1>3. CASE At(p, "try") /\ call' = [call EXCEPT ![p] = Idle]
  <2>1. Becomes(p, "none", "idle", None, None)
    BY <1>1, <1>3, IdleFacts
  <2> QED BY <1>1, <1>2, <2>1, CallMoves DEF Inside
<1>4. CASE At(p, "leaving") /\ Goto(p, "leaked")
  <2>1. Becomes(p, call[p].do, "leaked", call[p].fd, call[p].want)
    BY <1>1, <1>4, GotoFacts DEF Locations, Inside
  <2>2. call[p].at = "leaving" /\ call[p].fd # None
    BY <1>4 DEF At, Inv, TypeOK, Inside
  <2> QED BY <1>1, <1>2, <2>1, <2>2, CallMoves DEF Inside
<1> QED BY <1>3, <1>4 DEF GiveUp

(* A step inside that goes on, outside of a fetch.                         *)
LEMMA InsideMoves ==
    ASSUME Inv, NEW p \in Procs, NEW at \in Inside \ {"unlock"}, Goto(p, at),
           call[p].at \in Inside, UNCHANGED <<locks, files>>, ~Fetching(p),
           ~(call[p].do = "changed" /\ at \in {"stamped", "download", "verify"}),
           at \in {"chosen", "compared", "half", "stamped", "verify"}
               => call[p].do = "changed"
    PROVE  Inv'
<1>1. Becomes(p, call[p].do, at, call[p].fd, call[p].want)
  BY GotoFacts, CallTypes DEF Inv, Locations
<1>2. call[p].fd # None
  BY DEF Inv, TypeOK
<1> QED BY <1>1, <1>2, CallMoves

LEMMA ChooseInv == ASSUME Inv, NEW p \in Procs, Choose(p) PROVE Inv'
<1>1. call[p].at = "locked" /\ UNCHANGED <<locks, files>> /\ ~Fetching(p)
  BY DEF Choose, At, Fetching
<1>2. CASE call[p].do = "changed" /\ sha1 # None
           /\ call' = [call EXCEPT ![p].at = "chosen", ![p].want = sha1]
  <2>1. Becomes(p, call[p].do, "chosen", call[p].fd, sha1)
    BY <1>2, WantFacts, CallTypes DEF Inv, TypeOK, Locations, Inside
  <2>2. call[p].fd # None
    BY <1>1 DEF Inv, TypeOK, Inside
  <2> QED BY <1>1, <1>2, <2>1, <2>2, CallMoves DEF Inside
<1>3. CASE Goto(p, "leaving")
  BY <1>1, <1>3, InsideMoves DEF Inside
<1>4. CASE call[p].do # "changed" /\ Goto(p, "download")
  BY <1>1, <1>4, InsideMoves DEF Inside
<1> QED BY <1>2, <1>3, <1>4 DEF Choose

LEMMA CompareInv == ASSUME Inv, NEW p \in Procs, Compare(p) PROVE Inv'
<1>1. call[p].at = "chosen" /\ UNCHANGED <<locks, files>> /\ ~Fetching(p)
      /\ call[p].do = "changed"
  BY DEF Compare, At, Fetching, Inv, ChangedInv
<1>2. Goto(p, "leaving") \/ Goto(p, "compared")
  BY DEF Compare
<1> QED BY <1>1, <1>2, InsideMoves DEF Inside

(* The file is what was asked for, or a fetch goes on.                     *)
LEMMA HashFileInv == ASSUME Inv, NEW p \in Procs, HashFile(p) PROVE Inv'
<1> DEFINE at == IF file = call[p].want THEN "leaving" ELSE "download"
<1>1. /\ call[p].at = "stamped" /\ call[p].do = "changed" /\ call[p].fd # None
      /\ UNCHANGED locks /\ UNCHANGED files
  BY DEF HashFile, At, Inv, ChangedInv, TypeOK, Inside
<1>2. at \in {"leaving", "download"} /\ (at = "leaving" => file = call[p].want)
  OBVIOUS
<1>3. Goto(p, at)
  BY DEF HashFile
<1> HIDE DEF at
<1>4. at \in Locations /\ at \in Inside \ {"unlock"}
  BY <1>2 DEF Inside, Locations
<1>5. Becomes(p, call[p].do, at, call[p].fd, call[p].want)
  BY <1>3, <1>4, GotoFacts, CallTypes DEF Inv
<1>6. TypeOK'
  BY <1>1, <1>4, <1>5, TypeMoves DEF Inv, TypeOK, locks, files
<1>7. LockInv'
  BY <1>1, <1>4, <1>5, LockMoves DEF Inv, Inside
<1>8. ChangedInv'
  BY <1>1, <1>5, ChangedMoves DEF Inv
<1>9. FreshInv'
  <2>1. \A q \in Procs : Fetching(q)' => Fetching(q) /\ call'[q].want = call[q].want
    BY <1>1, <1>5 DEF Becomes, Fetching
  <2>2. UNCHANGED <<file, sha1, fetched, spoiled>>
    BY <1>1 DEF files
  <2>3. Fetching(p)
    BY <1>1 DEF Fetching
  <2>4. CASE at = "leaving"
    <3>1. fetched = "new" /\ ~spoiled => file = sha1
      BY <1>2, <2>3, <2>4 DEF Inv, FreshInv
    <3> QED BY <2>1, <2>2, <3>1 DEF Inv, FreshInv
  <2>5. CASE at = "download"
    <3>1. Fetching(p)'
      BY <1>1, <1>5, <2>5 DEF Becomes, Fetching
    <3> QED BY <2>1, <2>2, <3>1 DEF Inv, FreshInv
  <2> QED BY <1>2, <2>4, <2>5
<1> QED BY <1>6, <1>7, <1>8, <1>9 DEF Inv

-----------------------------------------------------------------------------
(* A step inside that goes on and changes the files; what is left to show  *)
(* is that .fetchts still tells the truth.                                 *)
LEMMA FileMoves ==
    ASSUME Inv, NEW p \in Procs, NEW at \in Inside \ {"unlock"}, Goto(p, at),
           call[p].at \in Inside, UNCHANGED <<locks, sha1>>,
           at \in {"chosen", "compared", "half", "stamped", "verify"}
               => call[p].do = "changed",
           file' \in Hashes \cup {None}, spoiled' \in BOOLEAN,
           fetched' \in {"none", "half", "old", "new"}
    PROVE  /\ Becomes(p, call[p].do, at, call[p].fd, call[p].want)
           /\ FreshInv' => Inv'
<1>1. Becomes(p, call[p].do, at, call[p].fd, call[p].want)
  BY GotoFacts, CallTypes DEF Inv, Locations
<1>2. call[p].fd # None
  BY DEF Inv, TypeOK
<1>3. TypeOK'
  BY <1>1, <1>2, TypeMoves DEF Inv, TypeOK, locks
<1>4. LockInv'
  BY <1>1, LockMoves DEF Inv
<1>5. ChangedInv'
  BY <1>1, ChangedMoves DEF Inv
<1> QED BY <1>1, <1>3, <1>4, <1>5 DEF Inv

LEMMA OpenStampInv == ASSUME Inv, NEW p \in Procs, OpenStamp(p) PROVE Inv'
<1>1. /\ call[p].at = "compared" /\ call[p].do = "changed" /\ Goto(p, "half")
      /\ fetched' = "half" /\ UNCHANGED <<locks, file, sha1, spoiled>>
  BY DEF OpenStamp, At, Inv, ChangedInv
<1>2. FreshInv' => Inv'
  BY <1>1, FileMoves DEF Inv, TypeOK, Inside
<1> QED BY <1>1, <1>2 DEF FreshInv

LEMMA StampInv == ASSUME Inv, NEW p \in Procs, Stamp(p) PROVE Inv'
<1>1. /\ call[p].at = "half" /\ call[p].do = "changed" /\ Goto(p, "stamped")
      /\ fetched' = "new" /\ spoiled' = (call[p].want # sha1)
      /\ UNCHANGED <<locks, file, sha1>>
  BY DEF Stamp, At, Inv, ChangedInv
<1>2. (FreshInv' => Inv') /\ Becomes(p, "changed", "stamped", call[p].fd, call[p].want)
  BY <1>1, FileMoves DEF Inv, TypeOK, Inside
<1>3. Fetching(p)' /\ call'[p].want = call[p].want
  BY <1>2 DEF Fetching, Becomes
<1>4. \A q \in Procs : q # p => ~Fetching(q)'
  <2> SUFFICES ASSUME NEW q \in Procs, q # p PROVE ~Fetching(q)
    BY <1>2 DEF Fetching, Becomes
  <2>1. call[p].at \in Inside /\ held[call[p].fd] = p /\ link = call[p].fd
    BY <1>1, CloudStorageConstants DEF Inv, LockInv, TypeOK, Inside
  <2>2. call[q].at \in Inside => held[call[q].fd] = q /\ link = call[q].fd
    BY CloudStorageConstants DEF Inv, LockInv, TypeOK, Inside
  <2> QED BY <2>1, <2>2 DEF Fetching, Inside
<1> QED BY <1>1, <1>2, <1>3, <1>4 DEF FreshInv

LEMMA DownloadInv == ASSUME Inv, NEW p \in Procs, Download(p) PROVE Inv'
<1>1. call[p].at = "download" /\ file' \in Hashes /\ UNCHANGED <<locks, sha1, fetched>>
  BY DEF Download, At
<1>2. CASE call[p].do = "changed"
  <2>1. Goto(p, "verify") /\ UNCHANGED spoiled
    BY <1>2 DEF Download
  <2>2. (FreshInv' => Inv') /\ Becomes(p, "changed", "verify", call[p].fd, call[p].want)
    BY <1>1, <1>2, <2>1, FileMoves DEF Inv, TypeOK, Inside
  <2>3. Fetching(p) /\ Fetching(p)'
    BY <1>1, <1>2, <2>2 DEF Fetching, Becomes
  <2>4. \A q \in Procs : Fetching(q)' => Fetching(q) /\ call'[q].want = call[q].want
    BY <1>1, <1>2, <2>2 DEF Fetching, Becomes
  <2> QED BY <1>1, <2>1, <2>2, <2>3, <2>4 DEF Inv, FreshInv
<1>3. CASE call[p].do # "changed"
  <2>1. Goto(p, "leaving") /\ spoiled' = (spoiled \/ file' # sha1)
    BY <1>3 DEF Download
  <2>2. spoiled' \in BOOLEAN
    BY <2>1
  <2>3. /\ FreshInv' => Inv'
        /\ Becomes(p, call[p].do, "leaving", call[p].fd, call[p].want)
    BY <1>1, <2>1, <2>2, FileMoves DEF Inv, TypeOK, Inside
  <2>4. \A q \in Procs : Fetching(q)' => Fetching(q) /\ call'[q].want = call[q].want
    BY <2>3 DEF Fetching, Becomes
  <2> QED BY <1>1, <2>1, <2>3, <2>4 DEF Inv, FreshInv
<1> QED BY <1>2, <1>3

LEMMA DownloadFailsInv == ASSUME Inv, NEW p \in Procs, DownloadFails(p) PROVE Inv'
<1>1. /\ call[p].at = "download" /\ Goto(p, "leaving")
      /\ UNCHANGED <<locks, file, sha1, fetched>>
      /\ spoiled' = (spoiled \/ call[p].do = "changed")
  BY DEF DownloadFails, At
<1>2. spoiled' \in BOOLEAN
  BY <1>1
<1>3. /\ FreshInv' => Inv'
      /\ Becomes(p, call[p].do, "leaving", call[p].fd, call[p].want)
  BY <1>1, <1>2, FileMoves DEF Inv, TypeOK, Inside
<1>4. CASE call[p].do = "changed"
  BY <1>1, <1>3, <1>4 DEF FreshInv
<1>5. CASE call[p].do # "changed"
  <2>1. \A q \in Procs : Fetching(q)' <=> Fetching(q)
    BY <1>3, <1>5 DEF Fetching, Becomes
  <2>2. \A q \in Procs : call'[q].want = call[q].want
    BY <1>3 DEF Becomes
  <2> QED BY <1>1, <1>3, <1>5, <2>1, <2>2 DEF Inv, FreshInv
<1> QED BY <1>4, <1>5

LEMMA VerifyInv == ASSUME Inv, NEW p \in Procs, Verify(p) PROVE Inv'
<1>1. /\ call[p].at = "verify" /\ call[p].do = "changed" /\ Goto(p, "leaving")
      /\ UNCHANGED <<locks, file, sha1, spoiled>>
      /\ fetched' = IF file = call[p].want THEN fetched ELSE "none"
  BY DEF Verify, At, Inv, ChangedInv
<1>2. (FreshInv' => Inv') /\ Becomes(p, "changed", "leaving", call[p].fd, call[p].want)
  BY <1>1, FileMoves DEF Inv, TypeOK, Inside
<1>3. Fetching(p)
  BY <1>1 DEF Fetching
<1>4. \A q \in Procs : Fetching(q)' => Fetching(q) /\ call'[q].want = call[q].want
  BY <1>2 DEF Fetching, Becomes
<1> QED BY <1>1, <1>2, <1>3, <1>4 DEF Inv, FreshInv

LEMMA SyncInv == ASSUME Inv, Sync PROVE Inv'
<1>1. sha1' \in Hashes /\ UNCHANGED <<locks, call, file, spoiled>>
      /\ fetched' \in {"none", "half", "old", "new"} /\ fetched' # "new"
  BY DEF Sync, Inv, TypeOK
<1>2. UNCHANGED <<guard, link, held>>
  BY <1>1 DEF locks
<1>3. TypeOK'
  BY <1>1, <1>2 DEF Inv, TypeOK
<1>4. LockInv'
  BY <1>1, <1>2 DEF Inv, LockInv
<1>5. ChangedInv' /\ FreshInv'
  BY <1>1 DEF Inv, ChangedInv, FreshInv
<1> QED BY <1>3, <1>4, <1>5 DEF Inv

-----------------------------------------------------------------------------
(* A step that takes or gives back a lock, with the files as they are; what*)
(* is left to show is that the locks are in order.                         *)
LEMMA LockStep ==
    ASSUME Inv, NEW p \in Procs, NEW at, NEW fd,
           Becomes(p, call[p].do, at, fd, call[p].want), UNCHANGED files,
           fd # None <=> at \in Inside \cup {"flock"},
           call[p].at \notin {"stamped", "download", "verify"},
           at \in {"open", "flock", "locked", "try", "unlock", "remove"},
           guard' \in Procs \cup {None}, link' \in Inodes \cup {None},
           held' \in [Inodes -> Procs \cup {None}]
    PROVE  LockInv' => Inv'
<1>1. ~Fetching(p)
  BY DEF Fetching
<1>2. FreshInv'
  BY <1>1, FreshMoves DEF Inv
<1>3. ChangedInv'
  BY ChangedMoves DEF Inv
<1>4. TypeOK'
  BY TypeMoves DEF Inv, TypeOK, files
<1> QED BY <1>2, <1>3, <1>4 DEF Inv

LEMMA TakeGuardInv == ASSUME Inv, NEW p \in Procs, TakeGuard(p) PROVE Inv'
<1>1. guard = None /\ guard' = p /\ UNCHANGED <<link, held>> /\ UNCHANGED files
  BY DEF TakeGuard
<1>2. \A q \in Procs : call[q].at \notin {"open", "flock", "unlock", "remove"}
  BY <1>1, CloudStorageConstants DEF Inv, LockInv
<1> DEFINE at == IF At(p, "try") THEN "open" ELSE "unlock"
<1>3. Goto(p, at) /\ call[p].at \in {"try", "leaving"}
      /\ (at = "unlock" <=> call[p].at = "leaving") /\ at \in {"open", "unlock"}
  BY DEF TakeGuard, At
<1> HIDE DEF at
<1>4. Becomes(p, call[p].do, at, call[p].fd, call[p].want)
  BY <1>3, GotoFacts, CallTypes DEF Inv, Locations, Inside
<1>5. call[p].fd # None <=> at \in Inside \cup {"flock"}
  BY <1>3 DEF Inv, TypeOK, Inside
<1>6. LockInv'
  <2>1. \A q \in Procs : call'[q].at \in {"open", "flock", "unlock", "remove"} => q = p
    BY <1>2, <1>4 DEF Becomes
  <2>2. \A q \in Procs : call'[q].at \notin {"flock", "remove"}
    BY <1>2, <1>3, <1>4 DEF Becomes
  <2>3. ASSUME NEW q \in Procs, call'[q].at \in Inside PROVE held'[call'[q].fd] = q
    <3>1. call[q].at \in Inside /\ call'[q].fd = call[q].fd
      BY <1>3, <1>4, <2>3 DEF Becomes, Inside
    <3> QED BY <1>1, <3>1 DEF Inv, LockInv
  <2> QED BY <1>1, <2>1, <2>2, <2>3 DEF Inv, LockInv
<1>7. guard' \in Procs \cup {None} /\ link' \in Inodes \cup {None}
      /\ held' \in [Inodes -> Procs \cup {None}]
  BY <1>1 DEF Inv, TypeOK
<1>8. /\ call[p].at \notin {"stamped", "download", "verify"}
      /\ at \in {"open", "flock", "locked", "try", "unlock", "remove"}
      /\ UNCHANGED files
  BY <1>1, <1>3
<1>9. CASE at = "open"
  <2>1. Becomes(p, call[p].do, "open", call[p].fd, call[p].want)
    BY <1>4, <1>9
  <2>2. call[p].fd # None <=> "open" \in Inside \cup {"flock"}
    BY <1>5, <1>9
  <2> QED BY <1>6, <1>7, <1>8, <2>1, <2>2, LockStep
<1>10. CASE at = "unlock"
  <2>1. Becomes(p, call[p].do, "unlock", call[p].fd, call[p].want)
    BY <1>4, <1>10
  <2>2. call[p].fd # None
    BY <1>5, <1>10 DEF Inside
  <2> QED BY <1>6, <1>7, <1>8, <2>1, <2>2, LockStep DEF Inside
<1> QED BY <1>3, <1>9, <1>10

LEMMA OpenLockInv == ASSUME Inv, NEW p \in Procs, OpenLock(p) PROVE Inv'
<1>1. PICK i \in Inodes : /\ i = link \/ link = None
                          /\ link' = i
                          /\ call' = [call EXCEPT ![p].at = "flock", ![p].fd = i]
  BY DEF OpenLock
<1>2. call[p].at = "open" /\ guard = p /\ UNCHANGED <<guard, held>> /\ UNCHANGED files
  BY DEF OpenLock, At, Inv, LockInv
<1>3. Becomes(p, call[p].do, "flock", i, call[p].want)
  BY <1>1, FdFacts, CallTypes DEF Inv, Locations
<1>4. i # None
  BY CloudStorageConstants
<1>5. \A j \in Inodes : held[j] # None => i = j
  BY <1>1, CloudStorageConstants DEF Inv, LockInv
<1>6. \A q \in Procs : q # p => call'[q].at \notin {"open", "flock", "unlock", "remove"}
  BY <1>2, <1>3 DEF Inv, LockInv, Becomes
<1>7. LockInv'
  BY <1>1, <1>2, <1>3, <1>5, <1>6 DEF Inv, LockInv, Becomes, Inside
<1>8. guard' \in Procs \cup {None} /\ link' \in Inodes \cup {None}
      /\ held' \in [Inodes -> Procs \cup {None}]
  BY <1>1, <1>2 DEF Inv, TypeOK
<1> QED BY <1>2, <1>3, <1>4, <1>7, <1>8, LockStep

(* What holds for a process that is about to take the flock.               *)
LEMMA AtFlock ==
    ASSUME Inv, NEW p \in Procs, call[p].at = "flock"
    PROVE  /\ guard = p /\ link = call[p].fd /\ call[p].fd \in Inodes
           /\ \A q \in Procs : q # p =>
                 call[q].at \notin {"open", "flock", "unlock", "remove"}
           /\ held[call[p].fd] = None => \A q \in Procs : call[q].at \notin Inside
<1>1. guard = p /\ link = call[p].fd /\ call[p].fd \in Inodes
  BY DEF Inv, LockInv, TypeOK
<1>2. \A q \in Procs : q # p => call[q].at \notin {"open", "flock", "unlock", "remove"}
  BY <1>1 DEF Inv, LockInv
<1>3. ASSUME NEW q \in Procs, call[q].at \in Inside PROVE held[call[p].fd] # None
  <2>1. call[q].fd \in Inodes /\ held[call[q].fd] = q
    BY <1>3 DEF Inv, LockInv, TypeOK
  <2>2. link = call[q].fd
    BY <2>1, CloudStorageConstants DEF Inv, LockInv
  <2> QED BY <1>1, <2>1, <2>2, CloudStorageConstants
<1> QED BY <1>1, <1>2, <1>3

LEMMA FlockInv == ASSUME Inv, NEW p \in Procs, Flock(p) PROVE Inv'
<1> DEFINE i == call[p].fd
<1>1. call[p].at = "flock" /\ held[i] = None /\ held' = [held EXCEPT ![i] = p]
      /\ Goto(p, "locked") /\ guard' = None /\ UNCHANGED link /\ UNCHANGED files
  BY DEF Flock, At
<1>2. i \in Inodes /\ link = i /\ held \in [Inodes -> Procs \cup {None}]
  BY <1>1, AtFlock DEF Inv, TypeOK
<1>3. Becomes(p, call[p].do, "locked", i, call[p].want)
  BY <1>1, GotoFacts, CallTypes DEF Inv, Locations, Inside
<1> HIDE DEF i
<1>4. /\ \A q \in Procs : call[q].at \notin Inside
      /\ \A q \in Procs : q # p => call[q].at \notin {"open", "flock", "unlock", "remove"}
  BY <1>1, AtFlock DEF i
<1>5. held' \in [Inodes -> Procs \cup {None}] /\ held'[i] = p
      /\ \A j \in Inodes : j # i => held'[j] = held[j]
  BY <1>1, <1>2
<1>6. \A q \in Procs : call'[q].at \in Inside => q = p
  BY <1>3, <1>4 DEF Becomes
<1>7. \A q \in Procs : call'[q].at \notin {"open", "flock", "unlock", "remove"}
  BY <1>3, <1>4 DEF Becomes
<1>8. \A j \in Inodes : held'[j] # None => link' = j
  BY <1>1, <1>2, <1>5 DEF Inv, LockInv
<1>9. LockInv'
  BY <1>3, <1>5, <1>6, <1>7, <1>8 DEF LockInv, Becomes
<1>10. guard' \in Procs \cup {None} /\ link' \in Inodes \cup {None} /\ i # None
  BY <1>1, <1>2, CloudStorageConstants DEF Inv, TypeOK
<1> QED BY <1>1, <1>3, <1>5, <1>9, <1>10, LockStep DEF Inside

LEMMA FlockRefusedInv == ASSUME Inv, NEW p \in Procs, FlockRefused(p) PROVE Inv'
<1>1. call[p].at = "flock" /\ call' = [call EXCEPT ![p].at = "try", ![p].fd = None]
      /\ guard' = None /\ UNCHANGED <<link, held>> /\ UNCHANGED files
  BY DEF FlockRefused, At
<1>2. Becomes(p, call[p].do, "try", None, call[p].want)
  BY <1>1, FdFacts, CallTypes DEF Inv, Locations
<1>3. \A q \in Procs : q # p => call[q].at \notin {"open", "flock", "unlock", "remove"}
  BY <1>1, AtFlock
<1>4. LockInv'
  BY <1>1, <1>2, <1>3 DEF Inv, LockInv, Becomes, Inside
<1>5. guard' \in Procs \cup {None} /\ link' \in Inodes \cup {None}
      /\ held' \in [Inodes -> Procs \cup {None}]
  BY <1>1 DEF Inv, TypeOK
<1> QED BY <1>1, <1>2, <1>4, <1>5, LockStep DEF Inside

LEMMA UnlockInv == ASSUME Inv, NEW p \in Procs, Unlock(p) PROVE Inv'
<1> DEFINE i == call[p].fd
<1>1. /\ call[p].at = "unlock" /\ held' = [held EXCEPT ![i] = None]
      /\ call' = [call EXCEPT ![p].at = "remove", ![p].fd = None]
      /\ UNCHANGED <<guard, link>> /\ UNCHANGED files
  BY DEF Unlock, At
<1>2. i \in Inodes /\ held[i] = p /\ guard = p /\ held \in [Inodes -> Procs \cup {None}]
  BY <1>1 DEF Inv, LockInv, TypeOK, Inside
<1>3. Becomes(p, call[p].do, "remove", None, call[p].want)
  BY <1>1, FdFacts, CallTypes DEF Inv, Locations
<1> HIDE DEF i
<1>4. link = i /\ \A j \in Inodes : j # i => held[j] = None
  BY <1>2, CloudStorageConstants DEF Inv, LockInv
<1>5. held' \in [Inodes -> Procs \cup {None}] /\ \A j \in Inodes : held'[j] = None
  BY <1>1, <1>2, <1>4
<1>6. \A q \in Procs : q # p => call[q].at \notin Inside
  <2> SUFFICES ASSUME NEW q \in Procs, call[q].at \in Inside PROVE q = p
    OBVIOUS
  <2>1. call[q].fd \in Inodes /\ held[call[q].fd] = q
    BY DEF Inv, LockInv, TypeOK
  <2> QED BY <1>2, <1>4, <2>1, CloudStorageConstants
<1>7. \A q \in Procs : q # p => call[q].at \notin {"open", "flock", "unlock", "remove"}
  BY <1>2 DEF Inv, LockInv
<1>8. \A q \in Procs : call'[q].at \notin Inside \cup {"flock"}
  BY <1>3, <1>6, <1>7 DEF Becomes, Inside
<1>9. \A q \in Procs : call'[q].at \in {"open", "flock", "unlock", "remove"} => q = p
  BY <1>3, <1>7 DEF Becomes
<1>10. LockInv'
  BY <1>1, <1>2, <1>5, <1>8, <1>9 DEF LockInv
<1>11. guard' \in Procs \cup {None} /\ link' \in Inodes \cup {None}
  BY <1>1 DEF Inv, TypeOK
<1> QED BY <1>1, <1>3, <1>5, <1>10, <1>11, LockStep DEF Inside

(* A call that ends and fetched nothing, or fetched in vain.               *)
LEMMA EndStep ==
    ASSUME Inv, NEW p \in Procs, call' = [call EXCEPT ![p] = Idle],
           UNCHANGED <<file, sha1, fetched>>, spoiled' = (spoiled \/ Fetching(p)),
           guard' \in Procs \cup {None}, link' \in Inodes \cup {None},
           held' \in [Inodes -> Procs \cup {None}]
    PROVE  LockInv' => Inv'
<1>1. Becomes(p, "none", "idle", None, None)
  BY IdleFacts, CallTypes DEF Inv
<1>2. spoiled' \in BOOLEAN
  OBVIOUS
<1>3. TypeOK'
  BY <1>1, <1>2, TypeMoves DEF Inv, TypeOK, Inside
<1>4. ChangedInv'
  BY <1>1, ChangedMoves DEF Inv
<1>5. FreshInv'
  <2>1. CASE Fetching(p)
    BY <2>1 DEF FreshInv
  <2>2. CASE ~Fetching(p)
    <3>1. UNCHANGED files
      BY <2>2 DEF files, Inv, TypeOK
    <3> QED BY <1>1, <2>2, <3>1, FreshMoves DEF Inv
  <2> QED BY <2>1, <2>2
<1> QED BY <1>3, <1>4, <1>5 DEF Inv

LEMMA RemoveLockInv == ASSUME Inv, NEW p \in Procs, RemoveLock(p) PROVE Inv'
<1>1. /\ call[p].at = "remove" /\ call' = [call EXCEPT ![p] = Idle]
      /\ link' = None /\ guard' = None /\ UNCHANGED held /\ UNCHANGED files
  BY DEF RemoveLock, At
<1>2. Becomes(p, "none", "idle", None, None)
  BY <1>1, IdleFacts, CallTypes DEF Inv
<1>3. guard = p /\ \A i \in Inodes : held[i] = None
  BY <1>1 DEF Inv, LockInv
<1>4. \A q \in Procs : call[q].at \notin Inside
  BY <1>3, CloudStorageConstants DEF Inv, LockInv, TypeOK
<1>5. \A q \in Procs : q # p => call[q].at \notin {"open", "flock", "unlock", "remove"}
  BY <1>3 DEF Inv, LockInv
<1>6. LockInv'
  <2>1. \A q \in Procs : call'[q].at \notin Inside \cup {"open", "flock", "unlock", "remove"}
    BY <1>2, <1>4, <1>5 DEF Becomes, Inside
  <2> QED BY <1>1, <1>3, <2>1 DEF LockInv
<1>7. ~Fetching(p) /\ UNCHANGED <<file, sha1, fetched, spoiled>>
  BY <1>1 DEF Fetching, files
<1>8. spoiled' = (spoiled \/ Fetching(p))
  BY <1>7 DEF Inv, TypeOK
<1>9. guard' \in Procs \cup {None} /\ link' \in Inodes \cup {None}
      /\ held' \in [Inodes -> Procs \cup {None}]
  BY <1>1 DEF Inv, TypeOK
<1> QED BY <1>1, <1>6, <1>7, <1>8, <1>9, EndStep

(* The locks of a process that is closed are free, and no others.          *)
LEMMA ClosedInv ==
    ASSUME Inv, NEW p \in Procs, Closed(p), UNCHANGED link
    PROVE  /\ LockInv'
           /\ guard' \in Procs \cup {None} /\ link' \in Inodes \cup {None}
           /\ held' \in [Inodes -> Procs \cup {None}]
<1>1. Becomes(p, "none", "idle", None, None)
  BY IdleFacts, CallTypes DEF Inv, Closed
<1>2. /\ held' = [i \in Inodes |-> IF held[i] = p THEN None ELSE held[i]]
      /\ guard' = IF guard = p THEN None ELSE guard
  BY DEF Closed
<1>3. /\ guard' \in Procs \cup {None} /\ link' \in Inodes \cup {None}
      /\ held' \in [Inodes -> Procs \cup {None}]
  BY <1>2 DEF Inv, TypeOK
<1>4. \A i \in Inodes : held'[i] = held[i] \/ (held[i] = p /\ held'[i] = None)
  BY <1>2
<1>5. (\A q \in Procs : call[q].at \in {"open", "flock", "unlock", "remove"} => guard = q)'
  BY <1>1, <1>2 DEF Inv, LockInv, Becomes
<1>6. (\A q \in Procs : call[q].at = "flock" => link = call[q].fd)'
  BY <1>1 DEF Inv, LockInv, Becomes
<1>7. (\A q \in Procs : call[q].at = "remove" => \A i \in Inodes : held[i] = None)'
  BY <1>1, <1>4 DEF Inv, LockInv, Becomes
<1>8. (\A q \in Procs : call[q].at \in Inside => held[call[q].fd] = q)'
  <2> SUFFICES ASSUME NEW q \in Procs, call'[q].at \in Inside
               PROVE  held'[call'[q].fd] = q
    OBVIOUS
  <2>1. q # p /\ call'[q] = call[q]
    BY <1>1 DEF Becomes, Inside
  <2>2. call[q].fd \in Inodes /\ held[call[q].fd] = q
    BY <2>1 DEF Inv, LockInv, TypeOK
  <2> QED BY <1>4, <2>1, <2>2
<1>9. (\A i \in Inodes : held[i] # None => link = i)'
  BY <1>4 DEF Inv, LockInv
<1> QED BY <1>3, <1>5, <1>6, <1>7, <1>8, <1>9 DEF LockInv

LEMMA CollectInv == ASSUME Inv, NEW p \in Procs, Collect(p) PROVE Inv'
<1>1. ~Fetching(p) /\ Closed(p) /\ UNCHANGED <<link, file, sha1, fetched, spoiled>>
  BY DEF Collect, At, Fetching, files
<1>2. call' = [call EXCEPT ![p] = Idle] /\ spoiled' = (spoiled \/ Fetching(p))
  BY <1>1 DEF Closed, Inv, TypeOK
<1> QED BY <1>1, <1>2, ClosedInv, EndStep

LEMMA CrashInv == ASSUME Inv, NEW p \in Procs, Crash(p) PROVE Inv'
<1>1. call' = [call EXCEPT ![p] = Idle] /\ spoiled' = (spoiled \/ Fetching(p))
      /\ Closed(p) /\ UNCHANGED <<link, file, sha1, fetched>>
  BY DEF Crash, Closed
<1> QED BY <1>1, ClosedInv, EndStep

-----------------------------------------------------------------------------
LEMMA StepInv == Inv /\ [Next]_vars => Inv'
<1> SUFFICES ASSUME Inv, [Next]_vars PROVE Inv'
  OBVIOUS
<1>1. ASSUME NEW p \in Procs, Begin(p) \/ GiveUp(p) \/ Collect(p) \/ Crash(p) PROVE Inv'
  BY <1>1, BeginInv, GiveUpInv, CollectInv, CrashInv
<1>2. ASSUME NEW p \in Procs, Run(p) PROVE Inv'
  BY <1>2, TakeGuardInv, OpenLockInv, FlockInv, FlockRefusedInv, UnlockInv, RemoveLockInv,
     ChooseInv, CompareInv, OpenStampInv, StampInv, HashFileInv, DownloadInv,
     DownloadFailsInv, VerifyInv DEF Run
<1>3. CASE Sync
  BY <1>3, SyncInv
<1>4. CASE UNCHANGED vars
  <2>1. UNCHANGED <<guard, link, held, call, file, sha1, fetched, spoiled>>
    BY <1>4 DEF vars
  <2>2. TypeOK' /\ LockInv'
    BY <2>1 DEF Inv, TypeOK, LockInv
  <2>3. ChangedInv' /\ FreshInv'
    BY <2>1 DEF Inv, ChangedInv, FreshInv, Fetching
  <2> QED BY <2>2, <2>3 DEF Inv
<1> QED BY <1>1, <1>2, <1>3, <1>4 DEF Next

LEMMA CloudStorageInv == Spec => []Inv
<1> QED BY InitInv, StepInv, PTL DEF Spec

(* Every variable keeps its type, and a descriptor of the lock file is open*)
(* exactly while a call uses it (cloud_storage.py:250-338).                *)
THEOREM CloudStorageTypeOK == Spec => []TypeOK
<1>1. Inv => TypeOK
  BY DEF Inv
<1> QED BY <1>1, CloudStorageInv, PTL

(* A file that is not what its .sha1 says is believed only after a failed  *)
(* fetch, a write of others or a change of .sha1 (cloud_storage.py:409).   *)
THEOREM CloudStorageStale == Spec => []StaleOnlyWhenSpoiled
<1>1. Inv => StaleOnlyWhenSpoiled
  BY DEF Inv, TypeOK, FreshInv, StaleOnlyWhenSpoiled
<1> QED BY <1>1, CloudStorageInv, PTL

-----------------------------------------------------------------------------
(* One call at most is inside.                                             *)
LEMMA OneInside ==
    ASSUME Inv, NEW p \in Procs, call[p].at \in Inside
    PROVE  \A q \in Procs : call[q].at \in Inside => q = p
<1> SUFFICES ASSUME NEW q \in Procs, call[q].at \in Inside PROVE q = p
  OBVIOUS
<1>1. \A r \in {p, q} : call[r].fd \in Inodes /\ held[call[r].fd] = r
  BY DEF Inv, LockInv, TypeOK
<1>2. \A r \in {p, q} : link = call[r].fd
  BY <1>1, CloudStorageConstants DEF Inv, LockInv
<1> QED BY <1>1, <1>2

InsideNow == {p \in Procs : call[p].at \in Inside}

(* A call that is inside before and after, or outside before and after.    *)
LEMMA SameInside ==
    ASSUME NEW p \in Procs, NEW do, NEW at, NEW fd, NEW want,
           Becomes(p, do, at, fd, want), at \in Inside <=> call[p].at \in Inside
    PROVE  InsideNow' = InsideNow
BY DEF Becomes, InsideNow

LEMMA GotoInside ==
    ASSUME Inv, NEW p \in Procs, NEW at \in Inside, Goto(p, at), call[p].at \in Inside
    PROVE  InsideNow' = InsideNow
<1>1. Becomes(p, call[p].do, at, call[p].fd, call[p].want)
  BY GotoFacts, CallTypes DEF Inv, Locations
<1> QED BY <1>1, SameInside

LEMMA EndInside ==
    ASSUME Inv, NEW p \in Procs, call' = [call EXCEPT ![p] = Idle]
    PROVE  /\ InsideNow' = InsideNow \ {p}
           /\ InsideNow' = InsideNow \/ (InsideNow = {p} /\ InsideNow' = {})
<1>1. Becomes(p, "none", "idle", None, None)
  BY IdleFacts, CallTypes DEF Inv
<1>2. InsideNow' = InsideNow \ {p}
  BY <1>1 DEF Becomes, InsideNow, Inside
<1>3. p \in InsideNow => InsideNow = {p}
  BY OneInside DEF InsideNow
<1> QED BY <1>2, <1>3

Enters(p) == InsideNow = {} /\ InsideNow' = {p} /\ UNCHANGED file
Leaves(p) == InsideNow = {p} /\ InsideNow' = {} /\ UNCHANGED file
Stutters == InsideNow' = InsideNow /\ UNCHANGED file

(* The steps that take no lock and give back none.                         *)
LEMMA WorkInside ==
    ASSUME Inv, NEW p \in Procs,
           \/ Choose(p) \/ Compare(p) \/ OpenStamp(p) \/ Stamp(p) \/ HashFile(p)
           \/ DownloadFails(p) \/ Verify(p)
    PROVE  Stutters
<1>1. UNCHANGED file
  BY DEF Choose, Compare, OpenStamp, Stamp, HashFile, DownloadFails, Verify, files
<1>2. call[p].at \in Inside
  BY DEF Choose, Compare, OpenStamp, Stamp, HashFile, DownloadFails, Verify, At, Inside
<1>3. CASE call' = [call EXCEPT ![p].at = "chosen", ![p].want = sha1]
  <2>1. Becomes(p, call[p].do, "chosen", call[p].fd, sha1)
    BY <1>3, WantFacts, CallTypes DEF Inv, TypeOK, Locations, Inside
  <2> QED BY <1>1, <1>2, <2>1, SameInside DEF Stutters, Inside
<1>4. ASSUME NEW at \in Inside, Goto(p, at) PROVE Stutters
  BY <1>1, <1>2, <1>4, GotoInside DEF Stutters
<1>5. \/ call' = [call EXCEPT ![p].at = "chosen", ![p].want = sha1]
      \/ Goto(p, "leaving") \/ Goto(p, "download") \/ Goto(p, "compared")
      \/ Goto(p, "half") \/ Goto(p, "stamped")
  <2>1. CASE Choose(p) BY <2>1 DEF Choose
  <2>2. CASE Compare(p) \/ OpenStamp(p) \/ Stamp(p) \/ DownloadFails(p) \/ Verify(p)
             \/ HashFile(p)
    BY <2>2 DEF Compare, OpenStamp, Stamp, DownloadFails, Verify, HashFile
  <2> QED BY <2>1, <2>2
<1> QED BY <1>3, <1>4, <1>5 DEF Inside

(* The steps of _FileLock: the flock lets one in, its release lets it out. *)
LEMMA LockInside ==
    ASSUME Inv, NEW p \in Procs
    PROVE  /\ TakeGuard(p) \/ OpenLock(p) \/ FlockRefused(p) => Stutters
           /\ Flock(p) => Enters(p)
           /\ Unlock(p) => Leaves(p)
<1> USE CallTypes DEF Inv
<1>1. ASSUME TakeGuard(p) PROVE Stutters
  <2>1. CASE At(p, "try") /\ Goto(p, "open")
    <3>1. Becomes(p, call[p].do, "open", call[p].fd, call[p].want)
      BY <2>1, GotoFacts DEF Locations
    <3> QED BY <1>1, <2>1, <3>1, SameInside DEF TakeGuard, Stutters, files, At, Inside
  <2>2. CASE At(p, "leaving") /\ Goto(p, "unlock")
    <3>1. InsideNow' = InsideNow
      BY <2>2, GotoInside DEF Inside, At
    <3> QED BY <1>1, <3>1 DEF TakeGuard, Stutters, files
  <2> QED BY <1>1, <2>1, <2>2 DEF TakeGuard
<1>2. ASSUME OpenLock(p) PROVE Stutters
  <2>1. PICK i \in Inodes : call' = [call EXCEPT ![p].at = "flock", ![p].fd = i]
    BY <1>2 DEF OpenLock
  <2>2. Becomes(p, call[p].do, "flock", i, call[p].want)
    BY <2>1, FdFacts DEF Locations
  <2> QED BY <1>2, <2>2, SameInside DEF OpenLock, Stutters, files, At, Inside
<1>3. ASSUME FlockRefused(p) PROVE Stutters
  <2>1. Becomes(p, call[p].do, "try", None, call[p].want)
    BY <1>3, FdFacts DEF FlockRefused, Locations
  <2> QED BY <1>3, <2>1, SameInside DEF FlockRefused, Stutters, files, At, Inside
<1>4. ASSUME Flock(p) PROVE Enters(p)
  <2>1. Becomes(p, call[p].do, "locked", call[p].fd, call[p].want)
    BY <1>4, GotoFacts DEF Flock, Locations, Inside
  <2>2. InsideNow = {}
    BY <1>4, AtFlock DEF Flock, At, InsideNow
  <2>3. InsideNow' = {p}
    BY <2>1, <2>2 DEF Becomes, InsideNow, Inside
  <2> QED BY <1>4, <2>2, <2>3 DEF Flock, Enters, files
<1>5. ASSUME Unlock(p) PROVE Leaves(p)
  <2>1. Becomes(p, call[p].do, "remove", None, call[p].want)
    BY <1>5, FdFacts DEF Unlock, Locations
  <2>2. InsideNow = {p}
    BY <1>5, OneInside DEF Unlock, At, InsideNow, Inside
  <2>3. InsideNow' = {}
    BY <2>1, <2>2 DEF Becomes, InsideNow, Inside
  <2> QED BY <1>5, <2>2, <2>3 DEF Unlock, Leaves, files
<1> QED BY <1>1, <1>2, <1>3, <1>4, <1>5

(* A call that begins or ends.                                             *)
LEMMA CallInside ==
    ASSUME Inv, NEW p \in Procs,
           Begin(p) \/ GiveUp(p) \/ RemoveLock(p) \/ Collect(p) \/ Crash(p)
    PROVE  Stutters \/ Leaves(p)
<1>1. UNCHANGED file
  BY DEF Begin, Call, GiveUp, RemoveLock, Collect, Crash, files
<1>2. CASE Begin(p)
  <2>1. PICK do \in {"changed", "hash", "get"}, want \in Hashes \cup {None} :
             Call(p, do, want)
    BY <1>2 DEF Begin
  <2> DEFINE c == [do |-> do, at |-> "try", fd |-> None, want |-> want]
  <2>2. c \in Calls /\ c.do = do /\ c.at = "try" /\ c.fd = None /\ c.want = want
    BY DEF Calls, Locations
  <2>3. call' = [call EXCEPT ![p] = c] /\ call[p].at = "idle"
    BY <2>1 DEF Call, At
  <2> HIDE DEF c
  <2>4. Becomes(p, do, "try", None, want)
    BY <2>2, <2>3, EntrySet, CallTypes DEF Inv
  <2>5. InsideNow' = InsideNow
    BY <2>3, <2>4, SameInside DEF Inside
  <2> QED BY <1>1, <2>5 DEF Stutters
<1>3. CASE At(p, "leaving") /\ Goto(p, "leaked")
  BY <1>1, <1>3, GotoInside DEF Stutters, At, Inside
<1>4. CASE call' = [call EXCEPT ![p] = Idle]
  BY <1>1, <1>4, EndInside DEF Stutters, Leaves
<1>5. \/ Begin(p) \/ (At(p, "leaving") /\ Goto(p, "leaked"))
      \/ call' = [call EXCEPT ![p] = Idle]
  BY DEF GiveUp, RemoveLock, Collect, Crash, Closed
<1> QED BY <1>2, <1>3, <1>4, <1>5

(* The comment in _FileLock (cloud_storage.py:255-267): all processes refer*)
(* to the same lock, and the file changes under it only.                   *)
THEOREM CloudStorageImplementsLock == Spec => LockIsExclusive
<1>1. Init => Lock!Init
  BY DEF Init, Lock!Init, Idle, Inside
<1>2. ASSUME Inv, [Next]_vars PROVE [Lock!Next]_<<InsideNow, file>>
  <2> USE DEF Lock!Next, Lock!Enter, Lock!Write, Lock!Leave
  <2>1. ASSUME NEW p \in Procs, Stutters \/ Leaves(p) \/ Enters(p)
        PROVE  [Lock!Next]_<<InsideNow, file>>
    BY <2>1 DEF Stutters, Leaves, Enters, InsideNow
  <2>2. ASSUME NEW p \in Procs, Download(p) PROVE [Lock!Next]_<<InsideNow, file>>
    <3>1. call[p].at \in Inside /\ file' \in Hashes \cup {None}
      BY <2>2 DEF Download, At, Inside
    <3>2. InsideNow = {p}
      BY <3>1, OneInside, <1>2 DEF InsideNow
    <3>3. InsideNow' = InsideNow
      BY <1>2, <2>2, <3>1, GotoInside DEF Download, Inside
    <3> QED BY <3>1, <3>2, <3>3 DEF InsideNow
  <2>3. ASSUME NEW p \in Procs, Begin(p) \/ GiveUp(p) \/ Collect(p) \/ Crash(p)
        PROVE  [Lock!Next]_<<InsideNow, file>>
    BY <1>2, <2>1, <2>3, CallInside
  <2>4. ASSUME NEW p \in Procs, Run(p) PROVE [Lock!Next]_<<InsideNow, file>>
    BY <1>2, <2>1, <2>2, <2>4, CallInside, LockInside, WorkInside DEF Run
  <2>5. CASE Sync \/ UNCHANGED vars
    BY <2>5 DEF Sync, vars, InsideNow
  <2> QED BY <1>2, <2>3, <2>4, <2>5 DEF Next
<1>3. Inv /\ [Next]_vars => [Lock!Next]_<<{p \in Procs : call[p].at \in Inside}, file>>
  BY <1>2 DEF InsideNow
<1> QED BY <1>1, <1>3, CloudStorageInv, PTL DEF Spec, LockIsExclusive, Lock!Spec
=============================================================================
