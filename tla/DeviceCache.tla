---------------------------- MODULE DeviceCache ----------------------------
(***************************************************************************)
(* devil/android/device_utils.py: Install, Uninstall and PushChangedFiles  *)
(* skip what the device has already, going by a cache of what it was found *)
(* or left with.  The cache can be dumped and loaded by the next process,  *)
(* if a token on the device says that nobody else has used it since.       *)
(* One app, without splits, and one pushed file stand for all.             *)
(***************************************************************************)
EXTENDS Integers

CONSTANTS Versions,   \* of the app and of the file, named by their checksums
          Missing,    \* neither on the device
          Unknown,    \* not in the cache
          Torn,       \* a file pushed in part
          MaxTokens   \* bound: caches initialised on the device

ASSUME DeviceCacheConstants ==
    /\ {Missing, Unknown, Torn} \cap Versions = {} /\ MaxTokens \in Nat
    /\ Missing # Unknown /\ Missing # Torn /\ Unknown \notin {Torn, "some", "none"}

VARIABLES system,     \* the app of the system image, if it has it; never changes
          apk, file,  \* the device: what is installed, what the file holds,
          devToken,   \* and its cache token, which each new one makes stale
          cache,      \* _cache of this process
          dump,       \* the last DumpCacheData
          op,         \* the call under way
          blame       \* history: why the cache of this process may be wrong

device == <<system, apk, file, devToken>>
vars == <<device, cache, dump, op, blame>>

Apks == Versions \cup {Missing}
(* An app of the system can be updated, but not taken off the device.      *)
Installable == IF system = Missing THEN Apks ELSE Versions
Files == Versions \cup {Missing, Torn}
Empty == [paths |-> Unknown, verify |-> FALSE, sums |-> Unknown, file |-> Unknown,
          token |-> 0, prev |-> 0]
NoDump == [token |-> 0, paths |-> Unknown, sums |-> Unknown, file |-> Unknown, spoiled |-> {}]
Idle == [what |-> "none", at |-> "idle", v |-> Missing, keep |-> FALSE, known |-> FALSE]

Init ==
    /\ system \in Apks /\ apk \in Installable /\ file \in Versions \cup {Missing}
    /\ devToken = 0
    /\ cache = Empty /\ dump = NoDump /\ op = Idle /\ blame = {}

-----------------------------------------------------------------------------
At(where) == op.at = where
Goto(where) == op' = [op EXCEPT !.at = where]
Return == Goto("done")
Fail == op' = Idle

(* What a call of ours changes makes a dump written before it wrong.       *)
Spoil(part) == dump' = [dump EXCEPT !.spoiled = @ \cup {part}]

(* _EnsureCacheInitialized: c is the cache, with a token.                  *)
Ensured(c) == [c EXCEPT !.token = devToken + 1, !.prev = devToken]
Ensure(c) ==
    IF c.token # 0 THEN cache' = c /\ UNCHANGED devToken
    ELSE devToken < MaxTokens /\ cache' = Ensured(c) /\ devToken' = devToken + 1

(* Its command was executed, and then failed.                              *)
EnsureFails ==
    /\ op.at \in {"paths", "sums"} /\ cache.token = 0 /\ devToken < MaxTokens
    /\ devToken' = devToken + 1 /\ Fail
    /\ UNCHANGED <<system, apk, file, cache, dump, blame>>

Call(what, at, v, keep) ==
    /\ At("idle") /\ op' = [Idle EXCEPT !.what = what, !.at = at, !.v = v, !.keep = keep]
    /\ UNCHANGED <<device, cache, dump, blame>>

Install(v, reinstall) == Call("install", "paths", v, reinstall)
Uninstall == Call("uninstall", "paths", Missing, FALSE)
PushChangedFiles(v) == Call("push", "sums", v, FALSE)

-----------------------------------------------------------------------------
(* _GetApplicationPathsInternal, in both callers.                          *)
Found(paths) ==
    Goto(IF paths = "some" THEN IF op.what = "install" THEN "compare" ELSE "remove"
         ELSE IF op.what = "install" THEN "put" ELSE "done")

(* Mutant: an app that was verified is still to be verified.               *)
CachedPaths_StillToVerify ==
    /\ At("paths") /\ cache.paths # Unknown
    /\ cache.verify /\ cache.paths = "some" => apk # Missing
    /\ Found(cache.paths)
    /\ UNCHANGED <<device, cache, dump, blame>>

CachedPaths ==
    /\ At("paths") /\ cache.paths # Unknown
    /\ cache.verify /\ cache.paths = "some" => apk # Missing
    /\ cache' = [cache EXCEPT !.verify = FALSE]
    /\ Found(cache.paths)
    /\ UNCHANGED <<device, dump, blame>>

(* The app is no longer to be verified although it was not, or was found   *)
(* gone, for the command failed that tests its path, or pm path after it.  *)
VerifyFails ==
    /\ At("paths") /\ cache.paths = "some" /\ cache.verify
    /\ cache' \in {[cache EXCEPT !.verify = FALSE],
                  [cache EXCEPT !.verify = FALSE, !.sums = Unknown]}
    /\ Fail /\ blame' = blame \cup {"unverified"}
    /\ UNCHANGED <<device, dump>>

(* A path that cannot be tested counts as gone.                            *)
PmPath ==
    /\ At("paths") /\ (cache.paths = Unknown \/ (cache.paths = "some" /\ cache.verify))
    /\ LET p == IF apk = Missing THEN "none" ELSE "some"
       IN  Ensure([cache EXCEPT !.paths = p, !.verify = FALSE,
                                !.sums = IF cache.paths = Unknown THEN @ ELSE Unknown])
           /\ Found(p)
    /\ UNCHANGED <<system, apk, file, dump, blame>>

(* _ComputeStaleApks.  Without the host's checksums all is installed.      *)
Compare ==
    /\ At("compare")
    /\ \E known \in BOOLEAN, sums \in Apks :
          /\ sums = (IF cache.sums = Unknown THEN apk ELSE cache.sums)
          /\ cache' = [cache EXCEPT !.sums = sums]
          /\ op' = [op EXCEPT !.known = known,
                              !.at = IF known /\ sums = op.v THEN "stop"
                                     ELSE IF op.keep THEN "put" ELSE "remove"]
    /\ UNCHANGED <<device, dump, blame>>

Forget == [cache EXCEPT !.paths = Unknown, !.sums = Unknown]

(* Uninstall, called by itself or by Install.  A system app takes over.    *)
Remove ==
    /\ At("remove") /\ apk # Missing /\ apk' = system
    /\ cache' = Forget /\ Spoil("apk")
    /\ Goto(IF op.what = "install" THEN "put" ELSE "done")
    /\ UNCHANGED <<system, file, devToken, blame>>

RemoveFails ==
    /\ At("remove") /\ apk' \in {apk, system}
    /\ cache' = Forget /\ Spoil("apk") /\ Fail
    /\ UNCHANGED <<system, file, devToken, blame>>

(* Devices differ in whether they replace an app unasked: see PutFails.    *)
Put ==
    /\ At("put") /\ apk' = op.v
    /\ cache' = Forget /\ Spoil("apk") /\ Goto("grant")
    /\ UNCHANGED <<system, file, devToken, blame>>

(* Mutant: the cache is only cleared when the app is installed.            *)
PutFails_KeepsCache ==
    /\ At("put") /\ apk' \in {apk, op.v} /\ Fail /\ Spoil("apk")
    /\ UNCHANGED <<system, file, devToken, cache, blame>>

PutFails ==
    /\ At("put") /\ apk' \in {apk, op.v}
    /\ cache' = Forget /\ Spoil("apk") /\ Fail
    /\ UNCHANGED <<system, file, devToken, blame>>

Stop ==
    /\ At("stop") /\ Goto("grant")
    /\ UNCHANGED <<device, cache, dump, blame>>

Grant ==
    /\ At("grant")
    /\ cache' = IF op.known THEN [cache EXCEPT !.sums = op.v] ELSE cache
    /\ Return
    /\ UNCHANGED <<device, dump, blame>>

(* A command that changes nothing fails: the tries are used up.            *)
CommandFails ==
    /\ op.at \in {"compare", "stop", "grant", "sums"} \/ (At("paths") /\ cache.paths = Unknown)
    /\ Fail
    /\ UNCHANGED <<device, cache, dump, blame>>

-----------------------------------------------------------------------------
(* PushChangedFiles with the files cache: _GetChangedAndStaleFiles, the    *)
(* push, and cache_commit_func.                                            *)
Sums ==
    /\ At("sums")
    /\ LET sums == IF cache.file = Unknown THEN file ELSE cache.file
       IN  /\ Ensure([cache EXCEPT !.file = sums])
           /\ Goto(IF sums = op.v THEN "commit" ELSE "send")
    /\ UNCHANGED <<system, apk, file, dump, blame>>

(* The host's checksums fail while the device's are read or not: all is    *)
(* pushed, and what the device had before stays in the cache.              *)
SumsFail ==
    /\ At("sums")
    /\ \/ Ensure(cache)
       \/ Ensure([cache EXCEPT !.file = IF @ = Unknown THEN file ELSE @])
    /\ Goto("sendAll")
    /\ UNCHANGED <<system, apk, file, dump, blame>>

Send ==
    /\ op.at \in {"send", "sendAll"} /\ file' = op.v /\ Spoil("file")
    /\ IF At("send") THEN Goto("commit") /\ UNCHANGED blame
       ELSE Return /\ blame' = blame \cup {"push"}
    /\ UNCHANGED <<system, apk, devToken, cache>>

SendFails ==
    /\ op.at \in {"send", "sendAll"} /\ file' \in {file, Torn, op.v} /\ Fail
    /\ Spoil("file") /\ blame' = blame \cup {"push"}
    /\ UNCHANGED <<system, apk, devToken, cache>>

(* Mutant: the cache keeps what the device had before the push.            *)
Commit_Forgotten ==
    /\ At("commit") /\ Return
    /\ UNCHANGED <<device, cache, dump, blame>>

Commit ==
    /\ At("commit") /\ cache' = [cache EXCEPT !.file = op.v] /\ Return
    /\ UNCHANGED <<device, dump, blame>>

Returned ==
    /\ At("done") /\ op' = Idle
    /\ UNCHANGED <<device, cache, dump, blame>>

-----------------------------------------------------------------------------
(* ClearCache, which Reboot calls too, or a new process, which may come    *)
(* after a crash in the middle of a call.                                  *)
Fresh ==
    /\ cache' = Empty /\ op' = Idle /\ blame' = {}
    /\ UNCHANGED <<device, dump>>

DumpCacheData ==
    /\ At("idle") /\ Ensure(cache)
    /\ dump' = [token |-> cache'.token, paths |-> cache.paths, sums |-> cache.sums,
                file |-> cache.file, spoiled |-> blame]
    /\ UNCHANGED <<system, apk, file, op, blame>>

Loaded == [cache EXCEPT !.paths = dump.paths, !.verify = dump.paths # Unknown,
                        !.sums = dump.sums, !.file = dump.file]

(* The token was read with the first command: what others have done since  *)
(* stays unnoticed, whatever is loaded.                                    *)
BlameLoaded == IF cache.token = 0 THEN dump.spoiled ELSE blame \cup dump.spoiled

(* Mutant: any dump is taken.                                              *)
LoadCacheData_AnyToken ==
    /\ At("idle") /\ dump.token # 0
    /\ Ensure(Loaded) /\ blame' = BlameLoaded
    /\ UNCHANGED <<system, apk, file, dump, op>>

LoadCacheData ==
    /\ At("idle") /\ dump.token # 0
    /\ IF dump.token = (IF cache.token = 0 THEN devToken ELSE cache.prev)
       THEN Ensure(Loaded) /\ blame' = BlameLoaded
       ELSE Ensure(cache) /\ UNCHANGED blame
    /\ UNCHANGED <<system, apk, file, dump, op>>

-----------------------------------------------------------------------------
(* Others change what they find.  What this process holds in its cache is  *)
(* wrong then, or what it is about to do.                                  *)
Change ==
    \/ apk' \in Installable /\ UNCHANGED file
    \/ file' \in Versions \cup {Missing} /\ UNCHANGED apk

Changed == (IF apk' # apk THEN {"apk"} ELSE {}) \cup (IF file' # file THEN {"file"} ELSE {})

(* Another process with a DeviceUtils: it has a token of its own.          *)
OtherProcess ==
    /\ Change /\ devToken < MaxTokens /\ devToken' = devToken + 1
    /\ blame' = IF cache = Empty /\ At("idle") THEN blame ELSE blame \cup Changed
    /\ UNCHANGED <<system, cache, dump, op>>

(* Somebody with a shell, or this process itself by the calls that do not  *)
(* mind the cache (a bundle, RemovePath).  An app that is only uninstalled *)
(* is noticed by the next process.                                         *)
ByHand ==
    /\ Change
    /\ LET noticed == IF apk' = Missing THEN {"apk"} ELSE {}
       IN  /\ blame' = IF cache = Empty /\ At("idle") THEN blame
                       ELSE blame \cup (IF cache.verify /\ At("idle") THEN Changed \ noticed
                                        ELSE Changed)
           /\ dump' = [dump EXCEPT !.spoiled = @ \cup (Changed \ noticed)]
    /\ UNCHANGED <<system, devToken, cache, op>>

Next ==
    \/ \E v \in Versions : \/ \E reinstall \in BOOLEAN : Install(v, reinstall)
                           \/ PushChangedFiles(v)
    \/ Uninstall
    \/ EnsureFails \/ CachedPaths \/ VerifyFails \/ PmPath \/ Compare
    \/ Remove \/ RemoveFails \/ Put \/ PutFails \/ Stop \/ Grant \/ CommandFails
    \/ Sums \/ SumsFail \/ Send \/ SendFails \/ Commit \/ Returned
    \/ Fresh \/ DumpCacheData \/ LoadCacheData
    \/ OtherProcess \/ ByHand

Spec == Init /\ [][Next]_vars
-----------------------------------------------------------------------------
(* Types; an app to be verified is in the cache, which a token guards; an  *)
(* app of the system is never missing.                                     *)
TypeOK ==
    /\ system \in Apks /\ apk \in Installable /\ file \in Files /\ devToken \in 0..MaxTokens
    /\ cache \in [paths : {"some", "none", Unknown}, verify : BOOLEAN,
                  sums : Apks \cup {Unknown}, file : Files \cup {Unknown},
                  token : 0..MaxTokens, prev : 0..MaxTokens]
    /\ cache.verify => cache.paths # Unknown
    /\ cache.token = 0 => cache = Empty
    /\ dump \in [token : 0..MaxTokens, paths : {"some", "none", Unknown},
                 sums : Apks \cup {Unknown}, file : Files \cup {Unknown},
                 spoiled : SUBSET {"apk", "file", "unverified", "push"}]
    /\ op \in [what : {"none", "install", "uninstall", "push"},
               at : {"idle", "paths", "compare", "remove", "put", "stop", "grant",
                     "sums", "send", "sendAll", "commit", "done"},
               v : Apks, keep : BOOLEAN, known : BOOLEAN]
    /\ blame \subseteq {"apk", "file", "unverified", "push"}

(* An app that was installed is installed, in the version that was asked   *)
(* for, and one that was uninstalled is gone, or the system's own has taken*)
(* its place, through all that was skipped on the word of a cache, failed  *)
(* calls, crashes and loaded dumps.  Except: someone changed the app behind*)
(* this process's back, or the dump's writer did after the dump ("apk");   *)
(* or the app was not verified and is no longer going to be, because the   *)
(* call that was to do so failed on the way ("unverified").                *)
AppIsAsAsked ==
    At("done") /\ blame \cap {"apk", "unverified"} = {}
        => /\ op.what = "install" => apk = op.v
           /\ op.what = "uninstall" => apk = system

(* A file that was pushed is on the device as it is on the host, unless    *)
(* someone changed it behind this process's back, or an earlier push ended *)
(* before it could correct the cache.                                      *)
FileIsAsAsked ==
    At("done") /\ op.what = "push" /\ blame \cap {"file", "push"} = {} => file = op.v

(* What the comment in LoadCacheData hopes for and does not hold: apps of a*)
(* loaded cache are verified, so one uninstalled by hand is found missing. *)
UninstalledIsNoticed ==
    At("done") /\ op.what = "install" /\ "apk" \notin blame => apk # Missing
=============================================================================
