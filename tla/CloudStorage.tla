---------------------------- MODULE CloudStorage ---------------------------
(***************************************************************************)
(* py_utils/cloud_storage.py: processes of one host download a file that   *)
(* they share.  A lock file beside it (the pseudo lock) is created, taken, *)
(* given back and removed under one guard, the lock of a file that always  *)
(* exists; both locks are flocks, tried without blocking until a timeout.  *)
(* GetIfChanged believes a file that was fetched after its .sha1 changed.  *)
(***************************************************************************)
EXTENDS FiniteSets

CONSTANTS Procs,
          Hashes,   \* contents of the file, named by their hash
          Inodes,   \* files the name of the pseudo lock may stand for
          None      \* no file, nobody

ASSUME CloudStorageConstants == None \notin Hashes \cup Inodes \cup Procs

VARIABLES guard,   \* who holds the flock of _CLOUD_STORAGE_GLOBAL_LOCK
          link,    \* the inode that the name of the pseudo lock stands for
          held,    \* [Inodes -> who holds its flock]
          call,    \* [Procs -> the call under way]
          file,    \* the content of the local file
          sha1,    \* the hash in its .sha1
          fetched, \* its .fetchts: missing, half written, older or newer than .sha1
          spoiled  \* history: what was done since .fetchts does not show in it

locks == <<guard, link, held>>
files == <<file, sha1, fetched, spoiled>>
vars == <<guard, link, held, call, file, sha1, fetched, spoiled>>

Idle == [do |-> "none", at |-> "idle", fd |-> None, want |-> None]

(* Where a call holds the pseudo lock; "leaked": WaitFor raised, and the   *)
(* exception keeps the descriptor open.                                    *)
Inside == {"locked", "chosen", "compared", "half", "stamped", "download", "verify",
           "leaving", "unlock", "leaked"}

Init ==
    /\ guard = None /\ link = None /\ held = [i \in Inodes |-> None]
    /\ call = [p \in Procs |-> Idle]
    /\ file = None /\ sha1 \in Hashes \cup {None}
    /\ fetched = "none" /\ spoiled = FALSE

At(p, where) == call[p].at = where
Goto(p, where) == call' = [call EXCEPT ![p].at = where]

(* .fetchts says that the file was fetched, which is still to be done.     *)
Fetching(p) == call[p].do = "changed" /\ call[p].at \in {"stamped", "download", "verify"}

-----------------------------------------------------------------------------
(* _FileLock: the pseudo lock.                                             *)
Call(p, do, want) ==
    /\ At(p, "idle")
    /\ call' = [call EXCEPT ![p] = [do |-> do, at |-> "try", fd |-> None, want |-> want]]
    /\ UNCHANGED <<locks, files>>

(* Mutant: the pseudo lock is given back without the guard.                *)
TakeGuard_NotToRelease(p) ==
    /\ \/ At(p, "try") /\ guard = None /\ guard' = p /\ Goto(p, "open")
       \/ At(p, "leaving") /\ UNCHANGED guard /\ Goto(p, "unlock")
    /\ UNCHANGED <<link, held, files>>

(* The guard, to take the pseudo lock or to give it back.                  *)
TakeGuard(p) ==
    /\ guard = None /\ guard' = p
    /\ \/ At(p, "try") /\ Goto(p, "open")
       \/ At(p, "leaving") /\ Goto(p, "unlock")
    /\ UNCHANGED <<link, held, files>>

OpenLock(p) ==
    /\ At(p, "open")
    /\ \E i \in Inodes :
          /\ \/ i = link
             \/ link = None /\ \A q \in Procs : call[q].fd # i
          /\ link' = i
          /\ call' = [call EXCEPT ![p].at = "flock", ![p].fd = i]
    /\ UNCHANGED <<guard, held, files>>

Flock(p) ==
    /\ At(p, "flock") /\ held[call[p].fd] = None
    /\ held' = [held EXCEPT ![call[p].fd] = p]
    /\ Goto(p, "locked") /\ guard' = None
    /\ UNCHANGED <<link, files>>

(* Mutant: the descriptor is not closed.                                   *)
FlockRefused_LeftOpen(p) ==
    /\ At(p, "flock") /\ held[call[p].fd] # None
    /\ Goto(p, "try") /\ guard' = None
    /\ UNCHANGED <<link, held, files>>

(* Mutant: the flock is taken without LOCK_NB.                             *)
FlockRefused_Waits(p) == FALSE

FlockRefused(p) ==
    /\ At(p, "flock") /\ held[call[p].fd] # None
    /\ call' = [call EXCEPT ![p].at = "try", ![p].fd = None]
    /\ guard' = None
    /\ UNCHANGED <<link, held, files>>

Unlock(p) ==
    /\ At(p, "unlock")
    /\ held' = [held EXCEPT ![call[p].fd] = None]
    /\ call' = [call EXCEPT ![p].at = "remove", ![p].fd = None]
    /\ UNCHANGED <<guard, link, files>>

(* The name is removed, whatever it stands for.                            *)
RemoveLock(p) ==
    /\ At(p, "remove")
    /\ link' = None /\ guard' = None
    /\ call' = [call EXCEPT ![p] = Idle]
    /\ UNCHANGED <<held, files>>

(* WaitFor's time is up: TimeoutException.                                 *)
GiveUp(p) ==
    /\ \/ At(p, "try") /\ call' = [call EXCEPT ![p] = Idle]
       \/ At(p, "leaving") /\ Goto(p, "leaked")
    /\ UNCHANGED <<locks, files>>

(* Descriptors of a dead process, or of a collected exception, are closed. *)
Closed(p) ==
    /\ held' = [i \in Inodes |-> IF held[i] = p THEN None ELSE held[i]]
    /\ guard' = IF guard = p THEN None ELSE guard
    /\ call' = [call EXCEPT ![p] = Idle]

Collect(p) == At(p, "leaked") /\ Closed(p) /\ UNCHANGED <<link, files>>

-----------------------------------------------------------------------------
(* What is done inside: GetIfChanged, GetIfHashChanged and Get.            *)
Choose(p) ==
    /\ At(p, "locked")
    /\ LET do == call[p].do IN
       \/ do = "changed" /\ sha1 = None /\ Goto(p, "leaving")
       \/ /\ do = "changed" /\ sha1 # None
          /\ call' = [call EXCEPT ![p].at = "chosen", ![p].want = sha1]
       \/ do = "hash" /\ Goto(p, IF file = call[p].want THEN "leaving" ELSE "download")
       \/ do = "get" /\ Goto(p, "download")
    /\ UNCHANGED <<locks, files>>

(* A half written time is no float: ValueError.                            *)
Compare(p) ==
    /\ At(p, "chosen")
    /\ Goto(p, IF file # None /\ fetched \in {"new", "half"} THEN "leaving" ELSE "compared")
    /\ UNCHANGED <<locks, files>>

OpenStamp(p) ==
    /\ At(p, "compared") /\ Goto(p, "half") /\ fetched' = "half"
    /\ UNCHANGED <<locks, file, sha1, spoiled>>

Stamp(p) ==
    /\ At(p, "half") /\ Goto(p, "stamped") /\ fetched' = "new"
    /\ spoiled' = (call[p].want # sha1)
    /\ UNCHANGED <<locks, file, sha1>>

HashFile(p) ==
    /\ At(p, "stamped")
    /\ Goto(p, IF file = call[p].want THEN "leaving" ELSE "download")
    /\ UNCHANGED <<locks, files>>

(* The file is moved into place when all of it has come; the bucket may    *)
(* hold something else under that name.                                    *)
Download(p) ==
    /\ At(p, "download")
    /\ file' \in Hashes
    /\ IF call[p].do = "changed"
       THEN Goto(p, "verify") /\ UNCHANGED spoiled
       ELSE Goto(p, "leaving") /\ spoiled' = (spoiled \/ file' # sha1)
    /\ UNCHANGED <<locks, sha1, fetched>>

DownloadFails(p) ==
    /\ At(p, "download") /\ Goto(p, "leaving")
    /\ spoiled' = (spoiled \/ call[p].do = "changed")
    /\ UNCHANGED <<locks, file, sha1, fetched>>

(* Mutant: the .fetchts of a wrong file is kept.                           *)
Verify_KeepsStamp(p) ==
    /\ At(p, "verify") /\ Goto(p, "leaving")
    /\ UNCHANGED <<locks, files>>

Verify(p) ==
    /\ At(p, "verify") /\ Goto(p, "leaving")
    /\ fetched' = IF file = call[p].want THEN fetched ELSE "none"
    /\ UNCHANGED <<locks, file, sha1, spoiled>>

-----------------------------------------------------------------------------
(* The rest of the host: a process dies, a checkout replaces the .sha1.    *)
Crash(p) ==
    /\ ~At(p, "idle") /\ Closed(p)
    /\ spoiled' = (spoiled \/ Fetching(p))
    /\ UNCHANGED <<link, file, sha1, fetched>>

Sync ==
    /\ sha1' \in Hashes \ {sha1}
    /\ fetched' = IF fetched = "new" THEN "old" ELSE fetched
    /\ UNCHANGED <<locks, call, file, spoiled>>

Run(p) ==
    \/ TakeGuard(p) \/ OpenLock(p) \/ Flock(p) \/ FlockRefused(p)
    \/ Unlock(p) \/ RemoveLock(p)
    \/ Choose(p) \/ Compare(p) \/ OpenStamp(p) \/ Stamp(p) \/ HashFile(p)
    \/ Download(p) \/ DownloadFails(p) \/ Verify(p)

Begin(p) ==
    \/ Call(p, "changed", None)
    \/ \E h \in Hashes : Call(p, "hash", h) \/ Call(p, "get", h)

Next ==
    \/ \E p \in Procs : Begin(p) \/ Run(p) \/ GiveUp(p) \/ Collect(p) \/ Crash(p)
    \/ Sync

Spec == Init /\ [][Next]_vars

(* A process runs until it dies, and WaitFor's clock goes on while it      *)
(* polls; when an exception is collected is not known.                     *)
Fairness == \A p \in Procs : WF_vars(Run(p)) /\ SF_vars(GiveUp(p))
FairSpec == Spec /\ Fairness

-----------------------------------------------------------------------------
Locations == Inside \cup {"idle", "try", "open", "flock", "remove"}

(* Types: a descriptor is open from OpenLock to the end of Unlock.         *)
TypeOK ==
    /\ guard \in Procs \cup {None} /\ link \in Inodes \cup {None}
    /\ held \in [Inodes -> Procs \cup {None}]
    /\ call \in [Procs -> [do : {"none", "changed", "hash", "get"}, at : Locations,
                           fd : Inodes \cup {None}, want : Hashes \cup {None}]]
    /\ file \in Hashes \cup {None} /\ sha1 \in Hashes \cup {None}
    /\ fetched \in {"none", "half", "old", "new"} /\ spoiled \in BOOLEAN
    /\ \A p \in Procs : call[p].fd # None <=> call[p].at \in Inside \cup {"flock"}

(* The comment in _FileLock: all processes refer to the same lock, so they *)
(* are inside one after the other and the file changes under the lock only.*)
Lock == INSTANCE LockedFile
            WITH inside <- {p \in Procs : call[p].at \in Inside},
                 Contents <- Hashes \cup {None}
LockIsExclusive == Lock!Spec

(* GetIfChanged skips a file that is not what .sha1 says only when a fetch *)
(* failed or died after .fetchts was written, when another call wrote the  *)
(* file, or when .sha1 changed while GetIfChanged looked at it.            *)
StaleOnlyWhenSpoiled ==
    fetched = "new" /\ file \notin {None, sha1}
        => spoiled \/ \E p \in Procs : Fetching(p)

(* The comment in _AttemptPseudoLockAcquisition: nobody waits for the      *)
(* pseudo lock with the guard in hand, so every call returns or raises.    *)
CallEnds ==
    \A p \in Procs : ~At(p, "idle") ~> call[p].at \in {"idle", "leaked"}

=============================================================================
