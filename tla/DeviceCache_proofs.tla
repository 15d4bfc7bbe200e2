------------------------- MODULE DeviceCache_proofs -------------------------
(***************************************************************************)
(* Proofs about DeviceCache.                                               *)
(***************************************************************************)
EXTENDS DeviceCache, TLAPS

Paths == {"some", "none", Unknown}
Parts == {"apk", "file", "unverified", "push"}
Caches == [paths : Paths, verify : BOOLEAN, sums : Apks \cup {Unknown},
           file : Files \cup {Unknown}, token : 0..MaxTokens, prev : 0..MaxTokens]
Dumps == [token : 0..MaxTokens, paths : Paths, sums : Apks \cup {Unknown},
          file : Files \cup {Unknown}, spoiled : SUBSET Parts]
Places == {"idle", "paths", "compare", "remove", "put", "stop", "grant",
           "sums", "send", "sendAll", "commit", "done"}
Ops == [what : {"none", "install", "uninstall", "push"}, at : Places,
        v : Apks, keep : BOOLEAN, known : BOOLEAN]

(* Which call is where, what it was asked for, and what it has seen to.    *)
PlaceInv ==
    /\ op.what = "install" => op.v \in Versions
    /\ op.at \in {"compare", "put", "stop", "grant"} => op.what = "install"
    /\ op.at \in {"paths", "remove"} => op.what \in {"install", "uninstall"}
    /\ op.at \in {"sums", "send", "sendAll", "commit"} => op.what = "push"
    /\ op.at \in {"compare", "remove", "put"} => ~cache.verify
    /\ op.at \notin {"idle", "paths", "sums", "done"} => cache.token # 0
    /\ dump.token <= devToken /\ cache.token <= devToken
    /\ cache.token # 0 => cache.prev < devToken

(* What the cache says of the app is true, but for an app to be verified,  *)
(* which may be gone; and so are the checksums of an app that is gone.     *)
AppFine == blame \cap {"apk", "unverified"} = {}
AppCached ==
    AppFine => /\ cache.paths = "none" => apk = Missing
               /\ cache.paths = "some" /\ ~cache.verify => apk # Missing
               /\ cache.sums # Unknown => apk \in {cache.sums, Missing}
(* LoadCacheData would take the dump, now or by the token this process     *)
(* found.                                                                  *)
AppTaken ==
    dump.token # 0 /\ (devToken = dump.token \/ (cache.token # 0 /\ cache.prev = dump.token /\ AppFine))
AppDumped ==
    AppTaken /\ dump.spoiled \cap {"apk", "unverified"} = {}
        => /\ dump.paths = "none" => apk = Missing
           /\ dump.sums # Unknown => apk \in {dump.sums, Missing}
AppCall ==
    AppFine => /\ op.at = "compare" => apk # Missing
               /\ op.at \in {"stop", "grant"} => apk = op.v
AppInv == AppCached /\ AppDumped /\ AppCall /\ AppIsAsAsked

(* The cache is corrected after the push.                                  *)
FileFine == blame \cap {"file", "push"} = {}
FileCached == FileFine /\ op.at # "commit" /\ cache.file # Unknown => cache.file = file
FileTaken ==
    dump.token # 0 /\ (devToken = dump.token \/ (cache.token # 0 /\ cache.prev = dump.token /\ FileFine))
FileDumped ==
    FileTaken /\ dump.spoiled \cap {"file", "push"} = {} /\ dump.file # Unknown
        => dump.file = file
FileInv ==
    FileCached /\ FileDumped /\ (FileFine /\ op.at = "commit" => file = op.v) /\ FileIsAsAsked

Inv == TypeOK /\ PlaceInv /\ AppInv /\ FileInv

-----------------------------------------------------------------------------
LEMMA Types ==
    ASSUME TypeOK
    PROVE  /\ cache \in Caches /\ dump \in Dumps /\ op \in Ops /\ blame \subseteq Parts
           /\ system \in Apks /\ apk \in Installable /\ apk \in Apks
           /\ apk = Missing => system = Missing
           /\ file \in Files /\ devToken \in 0..MaxTokens
           /\ MaxTokens \in Nat
           /\ cache.verify => cache.paths # Unknown
           /\ cache.token = 0 => cache = Empty
BY DeviceCacheConstants
DEF TypeOK, Caches, Dumps, Ops, Paths, Parts, Places, Installable, Apks

LEMMA EmptyType == Empty \in Caches /\ Idle \in Ops
BY DeviceCacheConstants DEF Empty, Idle, Caches, Ops, Paths, Places, Apks, Files

(* What _EnsureCacheInitialized leaves, given a cache with the token it has.*)
LEMMA EnsureFacts ==
    ASSUME TypeOK, NEW c \in Caches, c.token = cache.token, c.prev = cache.prev, Ensure(c)
    PROVE  /\ cache' \in Caches /\ devToken' \in 0..MaxTokens
           /\ cache'.paths = c.paths /\ cache'.verify = c.verify
           /\ cache'.sums = c.sums /\ cache'.file = c.file
           /\ cache'.token # 0 /\ devToken <= devToken'
           /\ \/ /\ cache.token # 0 /\ devToken' = devToken
                 /\ cache'.token = cache.token /\ cache'.prev = cache.prev
              \/ /\ cache.token = 0 /\ devToken' = devToken + 1
                 /\ cache'.token = devToken' /\ cache'.prev = devToken
<1>1. devToken \in 0..MaxTokens /\ MaxTokens \in Nat
  BY Types
<1>2. CASE c.token # 0
  BY <1>1, <1>2 DEF Ensure
<1>3. CASE c.token = 0
  <2>1. cache' = Ensured(c) /\ devToken' = devToken + 1 /\ devToken < MaxTokens
    BY <1>3 DEF Ensure
  <2>2. devToken + 1 \in 0..MaxTokens /\ devToken \in 0..MaxTokens /\ devToken + 1 # 0
    BY <1>1, <2>1
  <2>3. /\ Ensured(c) \in Caches /\ Ensured(c).paths = c.paths
        /\ Ensured(c).verify = c.verify /\ Ensured(c).sums = c.sums
        /\ Ensured(c).file = c.file /\ Ensured(c).token = devToken + 1
        /\ Ensured(c).prev = devToken
    BY <2>2 DEF Ensured, Caches
  <2> QED BY <1>1, <1>3, <2>1, <2>2, <2>3
<1> QED BY <1>2, <1>3

LEMMA GotoFacts ==
    ASSUME TypeOK, NEW where \in Places, Goto(where)
    PROVE  op' \in Ops /\ op'.at = where /\ op'.what = op.what /\ op'.v = op.v
<1>1. op \in Ops
  BY Types
<1>2. op' = [op EXCEPT !.at = where]
  BY DEF Goto
<1> QED BY <1>1, <1>2 DEF Ops

LEMMA SpoilFacts ==
    ASSUME TypeOK, NEW part \in Parts, Spoil(part)
    PROVE  /\ dump' \in Dumps /\ dump'.token = dump.token
           /\ part \in dump'.spoiled /\ dump.spoiled \subseteq dump'.spoiled
           /\ dump'.spoiled \subseteq dump.spoiled \cup {part}
           /\ dump'.paths = dump.paths /\ dump'.sums = dump.sums /\ dump'.file = dump.file
<1>1. dump \in Dumps
  BY Types
<1>2. dump' = [dump EXCEPT !.spoiled = @ \cup {part}]
  BY DEF Spoil
<1>3. dump.spoiled \cup {part} \in SUBSET Parts
  BY <1>1 DEF Dumps
<1> QED BY <1>1, <1>2, <1>3 DEF Dumps

LEMMA InitInv == Init => Inv
<1> SUFFICES ASSUME Init PROVE Inv
  OBVIOUS
<1>1. /\ cache = Empty /\ dump = NoDump /\ op = Idle /\ blame = {} /\ devToken = 0
      /\ system \in Apks /\ apk \in Installable /\ file \in Files
  BY DEF Init, Files
<1>2. TypeOK
  BY <1>1, DeviceCacheConstants DEF TypeOK, Empty, NoDump, Idle, Apks, Files
<1>3. PlaceInv
  BY <1>1 DEF PlaceInv, Idle, NoDump, Empty
<1>4. AppInv
  BY <1>1, DeviceCacheConstants
  DEF AppInv, AppCached, AppDumped, AppCall, AppIsAsAsked, AppTaken, Empty, NoDump, Idle, At
<1>5. FileInv
  BY <1>1 DEF FileInv, FileCached, FileDumped, FileIsAsAsked, FileTaken, Empty, NoDump, Idle, At
<1> QED BY <1>2, <1>3, <1>4, <1>5 DEF Inv

-----------------------------------------------------------------------------
(* What a step does to the tokens.                                         *)
TokenMoves ==
    \/ devToken' = devToken /\ cache'.token = cache.token /\ cache'.prev = cache.prev
    \/ /\ cache.token = 0 /\ devToken' = devToken + 1
       /\ cache'.token = devToken' /\ cache'.prev = devToken
    \/ devToken' = devToken + 1 /\ cache'.token = cache.token /\ cache'.prev = cache.prev

LEMMA TypeParts ==
    ASSUME TypeOK, cache' \in Caches, dump' \in Dumps, op' \in Ops, blame' \subseteq Parts,
           UNCHANGED system, apk' \in Installable, file' \in Files, devToken' \in 0..MaxTokens,
           cache'.verify => cache'.paths # Unknown, cache'.token = 0 => cache' = Empty
    PROVE  TypeOK'
BY DEF TypeOK, Caches, Dumps, Ops, Paths, Parts, Places, Installable

LEMMA TokensAre ==
    ASSUME Inv
    PROVE  /\ devToken \in Nat /\ dump.token \in Nat /\ cache.token \in Nat /\ cache.prev \in Nat
           /\ dump.token <= devToken /\ cache.token <= devToken
           /\ cache.token # 0 => cache.prev < devToken
BY Types DEF Inv, PlaceInv, Caches, Dumps

(* A dump that is worth something was worth it before the step.            *)
LEMMA AppTakenBefore ==
    ASSUME Inv, TokenMoves, dump'.token = dump.token, AppFine' => AppFine, AppTaken'
    PROVE  AppTaken
BY TokensAre DEF TokenMoves, AppTaken

LEMMA FileTakenBefore ==
    ASSUME Inv, TokenMoves, dump'.token = dump.token, FileFine' => FileFine, FileTaken'
    PROVE  FileTaken
BY TokensAre DEF TokenMoves, FileTaken

(* A step that has nothing to do with the app.                             *)
LEMMA AppFrame ==
    ASSUME Inv, TokenMoves, UNCHANGED <<system, apk>>, AppFine' => AppFine,
           cache'.paths = cache.paths, cache'.verify = cache.verify, cache'.sums = cache.sums,
           dump'.token = dump.token, dump'.paths = dump.paths, dump'.sums = dump.sums,
           dump.spoiled \subseteq dump'.spoiled,
           op'.at \notin {"compare", "stop", "grant"},
           op'.at = "done" => op'.what \notin {"install", "uninstall"}
    PROVE  AppInv'
<1>1. AppCached'
  BY DEF Inv, AppInv, AppCached
<1>2. AppDumped'
  BY AppTakenBefore DEF Inv, AppInv, AppDumped
<1>3. AppCall' /\ AppIsAsAsked'
  BY DEF AppCall, AppIsAsAsked, At
<1> QED BY <1>1, <1>2, <1>3 DEF AppInv

(* A step that has nothing to do with the file.                            *)
LEMMA FileFrame ==
    ASSUME Inv, TokenMoves, UNCHANGED file, FileFine' => FileFine,
           cache'.file = cache.file, dump'.token = dump.token, dump'.file = dump.file,
           dump.spoiled \subseteq dump'.spoiled,
           op.at # "commit", op'.at # "commit", op'.at = "done" => op'.what # "push"
    PROVE  FileInv'
<1>1. FileCached'
  BY DEF Inv, FileInv, FileCached
<1>2. FileDumped'
  BY FileTakenBefore DEF Inv, FileInv, FileDumped
<1>3. FileIsAsAsked' /\ ~(op'.at = "commit")
  BY DEF FileIsAsAsked, At
<1> QED BY <1>1, <1>2, <1>3 DEF FileInv

-----------------------------------------------------------------------------
(* Steps that change only the place of the call.                           *)
LEMMA CallInv ==
    ASSUME Inv, NEW v \in Apks, NEW keep \in BOOLEAN, NEW what, NEW at,
           \/ what = "install" /\ at = "paths" /\ v \in Versions
           \/ what = "uninstall" /\ at = "paths"
           \/ what = "push" /\ at = "sums",
           Call(what, at, v, keep)
    PROVE  Inv'
<1>1. /\ op.at = "idle" /\ UNCHANGED <<system, apk, file, devToken, cache, dump, blame>>
      /\ TypeOK /\ PlaceInv
  BY DEF Call, At, device, Inv
<1>2. op' \in Ops /\ op'.at = at /\ op'.what = what /\ op'.v = v
  BY EmptyType DEF Call, Ops, Places, Idle
<1>3. TypeOK'
  BY <1>1, <1>2, Types, TypeParts
<1>4. PlaceInv'
  BY <1>1, <1>2 DEF PlaceInv
<1>5. AppInv'
  BY <1>1, <1>2, AppFrame DEF TokenMoves, AppFine
<1>6. FileInv'
  BY <1>1, <1>2, FileFrame DEF TokenMoves, FileFine
<1> QED BY <1>3, <1>4, <1>5, <1>6 DEF Inv

LEMMA EndInv ==
    ASSUME Inv, CommandFails \/ Returned
    PROVE  Inv'
<1>1. /\ op' = Idle /\ UNCHANGED <<system, apk, file, devToken, cache, dump, blame>>
      /\ op.at # "commit" /\ TypeOK /\ PlaceInv
  BY DEF CommandFails, Returned, Fail, At, device, Inv
<1>2. op' \in Ops /\ op'.at = "idle" /\ op'.what = "none"
  BY <1>1, EmptyType DEF Idle
<1>3. TypeOK'
  BY <1>1, <1>2, Types, TypeParts
<1>4. PlaceInv'
  BY <1>1, <1>2 DEF PlaceInv
<1>5. AppInv'
  BY <1>1, <1>2, AppFrame DEF TokenMoves, AppFine
<1>6. FileInv'
  BY <1>1, <1>2, FileFrame DEF TokenMoves, FileFine
<1> QED BY <1>3, <1>4, <1>5, <1>6 DEF Inv

LEMMA EnsureFailsInv == ASSUME Inv, EnsureFails PROVE Inv'
<1>1. /\ op' = Idle /\ UNCHANGED <<system, apk, file, cache, dump, blame>>
      /\ devToken' = devToken + 1 /\ devToken < MaxTokens
      /\ op.at # "commit" /\ TypeOK /\ PlaceInv
  BY DEF EnsureFails, Fail, At, Inv
<1>2. op' \in Ops /\ op'.at = "idle" /\ op'.what = "none"
  BY <1>1, EmptyType DEF Idle
<1>3. devToken' \in 0..MaxTokens
  BY <1>1, Types
<1>4. TypeOK'
  BY <1>1, <1>2, <1>3, Types, TypeParts
<1>5. PlaceInv'
  BY <1>1, <1>2, TokensAre DEF PlaceInv
<1>6. AppInv'
  BY <1>1, <1>2, AppFrame DEF TokenMoves, AppFine
<1>7. FileInv'
  BY <1>1, <1>2, FileFrame DEF TokenMoves, FileFine
<1> QED BY <1>4, <1>5, <1>6, <1>7 DEF Inv

-----------------------------------------------------------------------------
(* Steps of Install and Uninstall.                                         *)
LEMMA FoundFacts ==
    ASSUME TypeOK, NEW paths \in {"some", "none"}, Found(paths)
    PROVE  /\ op' \in Ops /\ op'.what = op.what /\ op'.v = op.v
           /\ op'.at = IF paths = "some" THEN IF op.what = "install" THEN "compare" ELSE "remove"
                       ELSE IF op.what = "install" THEN "put" ELSE "done"
BY GotoFacts DEF Found, Places

(* The app is found, or not, and the cache says so.                        *)
LEMMA LookedUp ==
    ASSUME Inv, NEW paths \in {"some", "none"}, Found(paths), op.at = "paths",
           UNCHANGED <<system, apk, file, dump, blame>>, TokenMoves, devToken <= devToken',
           cache' \in Caches, devToken' \in 0..MaxTokens, cache'.token # 0,
           cache'.paths = paths, ~cache'.verify, cache'.file = cache.file,
           cache'.sums \in {cache.sums, Unknown},
           AppFine => (paths = "none" <=> apk = Missing)
    PROVE  Inv'
<1>1. /\ op' \in Ops /\ op'.what = op.what /\ op'.v = op.v
      /\ op'.at = IF paths = "some" THEN IF op.what = "install" THEN "compare" ELSE "remove"
                  ELSE IF op.what = "install" THEN "put" ELSE "done"
      /\ TypeOK /\ PlaceInv
  BY FoundFacts DEF Inv
<1>2. TypeOK'
  BY <1>1, Types, TypeParts
<1>3. op.what \in {"install", "uninstall"} /\ (op.what = "uninstall" => op'.at \in {"remove", "done"})
  BY <1>1 DEF PlaceInv
<1>4. PlaceInv'
  BY <1>1, <1>3, TokensAre DEF PlaceInv, TokenMoves
<1>5. AppCached'
  BY DEF Inv, AppInv, AppCached, AppFine
<1>6. AppDumped'
  BY AppTakenBefore DEF Inv, AppInv, AppDumped, AppFine
<1>7. AppCall'
  BY <1>1, <1>3 DEF AppCall, AppFine
<1>8. AppIsAsAsked'
  BY <1>1, <1>3, Types DEF AppIsAsAsked, At, AppFine
<1>9. FileInv'
  BY <1>1, <1>3, FileFrame DEF FileFine
<1> QED BY <1>2, <1>4, <1>5, <1>6, <1>7, <1>8, <1>9 DEF Inv, AppInv

LEMMA CachedPathsInv == ASSUME Inv, CachedPaths PROVE Inv'
<1>1. /\ op.at = "paths" /\ cache.paths # Unknown
      /\ (cache.verify /\ cache.paths = "some" => apk # Missing)
      /\ Found(cache.paths) /\ cache' = [cache EXCEPT !.verify = FALSE]
      /\ UNCHANGED <<system, apk, file, devToken, dump, blame>> /\ TypeOK
  BY DEF CachedPaths, At, device, Inv
<1>2. cache.paths \in {"some", "none"} /\ cache \in Caches /\ cache.token # 0
  BY <1>1, Types DEF Caches, Paths, Empty
<1>3. /\ cache' \in Caches /\ cache'.paths = cache.paths /\ ~cache'.verify
      /\ cache'.sums = cache.sums /\ cache'.file = cache.file
      /\ cache'.token = cache.token /\ cache'.prev = cache.prev
  BY <1>1, <1>2 DEF Caches
<1>4. TokenMoves /\ devToken \in 0..MaxTokens /\ devToken <= devToken'
  BY <1>1, <1>3, Types DEF TokenMoves
<1>5. AppFine => (cache.paths = "none" <=> apk = Missing)
  BY <1>1, <1>2 DEF Inv, AppInv, AppCached
<1> QED BY <1>1, <1>2, <1>3, <1>4, <1>5, LookedUp

LEMMA PmPathInv == ASSUME Inv, PmPath PROVE Inv'
<1> DEFINE p == IF apk = Missing THEN "none" ELSE "some"
           c == [cache EXCEPT !.paths = p, !.verify = FALSE,
                              !.sums = IF cache.paths = Unknown THEN @ ELSE Unknown]
<1>1. /\ op.at = "paths" /\ Ensure(c) /\ Found(p)
      /\ UNCHANGED <<system, apk, file, dump, blame>> /\ TypeOK
  BY DEF PmPath, At, Inv
<1>2. /\ c \in Caches /\ c.paths = p /\ ~c.verify /\ c.sums \in {cache.sums, Unknown}
      /\ c.file = cache.file /\ c.token = cache.token /\ c.prev = cache.prev
      /\ p \in {"some", "none"} /\ (p = "none" <=> apk = Missing)
  BY <1>1, Types DEF Caches, Paths
<1> HIDE DEF c, p
<1>3. /\ cache' \in Caches /\ devToken' \in 0..MaxTokens
      /\ cache'.paths = p /\ cache'.verify = c.verify
      /\ cache'.sums = c.sums /\ cache'.file = cache.file
      /\ cache'.token # 0 /\ devToken <= devToken'
      /\ \/ /\ cache.token # 0 /\ devToken' = devToken
            /\ cache'.token = cache.token /\ cache'.prev = cache.prev
         \/ /\ cache.token = 0 /\ devToken' = devToken + 1
            /\ cache'.token = devToken' /\ cache'.prev = devToken
  BY <1>1, <1>2, EnsureFacts
<1>4. TokenMoves
  BY <1>3 DEF TokenMoves
<1> QED BY <1>1, <1>2, <1>3, <1>4, LookedUp

LEMMA VerifyFailsInv == ASSUME Inv, VerifyFails PROVE Inv'
<1>1. /\ op.at = "paths" /\ op' = Idle
      /\ cache' \in {[cache EXCEPT !.verify = FALSE],
                    [cache EXCEPT !.verify = FALSE, !.sums = Unknown]}
      /\ blame' = blame \cup {"unverified"} /\ cache.paths = "some"
      /\ UNCHANGED <<system, apk, file, devToken, dump>> /\ TypeOK /\ PlaceInv
  BY DEF VerifyFails, At, Fail, device, Inv
<1>2. /\ cache' \in Caches /\ cache'.paths = cache.paths /\ ~cache'.verify
      /\ cache'.file = cache.file /\ cache'.token = cache.token /\ cache'.prev = cache.prev
  BY <1>1, Types DEF Caches
<1>3. op' \in Ops /\ op'.at = "idle" /\ op'.what = "none" /\ cache.token # 0
  BY <1>1, EmptyType, Types, DeviceCacheConstants DEF Idle, Empty
<1>4. TypeOK'
  BY <1>1, <1>2, <1>3, Types, TypeParts DEF Parts
<1>5. PlaceInv'
  BY <1>1, <1>2, <1>3 DEF PlaceInv
<1>6. AppInv'
  BY <1>1, <1>2, <1>3, AppTakenBefore
  DEF AppInv, AppCached, AppDumped, AppCall, AppIsAsAsked, At, AppFine, AppTaken, TokenMoves, Inv
<1>7. FileInv'
  BY <1>1, <1>2, <1>3, FileFrame DEF TokenMoves, FileFine
<1> QED BY <1>4, <1>5, <1>6, <1>7 DEF Inv

LEMMA CompareInv == ASSUME Inv, Compare PROVE Inv'
<1>1. PICK known \in BOOLEAN, sums \in Apks :
          /\ sums = (IF cache.sums = Unknown THEN apk ELSE cache.sums)
          /\ cache' = [cache EXCEPT !.sums = sums]
          /\ op' = [op EXCEPT !.known = known,
                              !.at = IF known /\ sums = op.v THEN "stop"
                                     ELSE IF op.keep THEN "put" ELSE "remove"]
  BY DEF Compare
<1>2. /\ op.at = "compare" /\ UNCHANGED <<system, apk, file, devToken, dump, blame>>
      /\ TypeOK /\ PlaceInv /\ op.what = "install" /\ ~cache.verify
  BY DEF Compare, At, device, Inv, PlaceInv
<1>3. /\ op' \in Ops /\ op'.what = op.what /\ op'.v = op.v
      /\ op'.at = IF known /\ sums = op.v THEN "stop" ELSE IF op.keep THEN "put" ELSE "remove"
  BY <1>1, <1>2, Types DEF Ops, Places
<1>4. /\ cache' \in Caches /\ cache'.paths = cache.paths /\ cache'.verify = cache.verify
      /\ cache'.file = cache.file /\ cache'.token = cache.token /\ cache'.prev = cache.prev
      /\ cache'.sums = sums
  BY <1>1, <1>2, Types DEF Caches
<1>5. AppFine => sums = apk
  BY <1>1, <1>2 DEF Inv, AppInv, AppCached, AppCall
<1>6. PlaceInv'
  BY <1>2, <1>3, <1>4 DEF PlaceInv
<1>7. AppInv'
  <2>1. AppCached'
    BY <1>2, <1>4, <1>5 DEF Inv, AppInv, AppCached, AppFine
  <2>2. AppDumped'
    BY <1>2, <1>4, AppTakenBefore DEF Inv, AppInv, AppDumped, AppFine, TokenMoves
  <2>3. AppCall' /\ AppIsAsAsked'
    BY <1>2, <1>3, <1>5 DEF AppCall, AppIsAsAsked, AppFine, At
  <2> QED BY <2>1, <2>2, <2>3 DEF AppInv
<1>8. FileInv'
  BY <1>2, <1>3, <1>4, FileFrame DEF TokenMoves, FileFine
<1>9. TypeOK'
  BY <1>2, <1>3, <1>4, Types, TypeParts DEF PlaceInv
<1> QED BY <1>6, <1>7, <1>8, <1>9 DEF Inv

-----------------------------------------------------------------------------
(* The app is removed or put, or the command that does it fails.           *)
LEMMA AppChanges ==
    ASSUME Inv, op.at \in {"remove", "put"}, apk' \in Installable, cache' = Forget, Spoil("apk"),
           UNCHANGED <<system, file, devToken, blame>>, op' \in Ops,
           op'.what = "install" => op'.v \in Versions,
           \/ op'.at = "idle"
           \/ op'.at = "put" /\ op'.what = "install"
           \/ op'.at = "grant" /\ op'.what = "install" /\ apk' = op'.v
           \/ op'.at = "done" /\ op'.what = "uninstall" /\ apk' = system
    PROVE  Inv'
<1>1. TypeOK /\ PlaceInv
  BY DEF Inv
<1>2. /\ cache' \in Caches /\ cache'.paths = Unknown /\ cache'.sums = Unknown
      /\ cache'.verify = cache.verify /\ cache'.file = cache.file
      /\ cache'.token = cache.token /\ cache'.prev = cache.prev
  BY <1>1, Types DEF Caches, Forget, Paths
<1>3. /\ dump' \in Dumps /\ dump'.token = dump.token /\ "apk" \in dump'.spoiled
      /\ dump.spoiled \subseteq dump'.spoiled /\ dump'.file = dump.file
  BY <1>1, SpoilFacts DEF Parts
<1>4. ~cache.verify /\ cache.token # 0
  BY <1>1 DEF PlaceInv
<1>5. TypeOK'
  BY <1>1, <1>2, <1>3, <1>4, Types, TypeParts
<1>6. PlaceInv'
  BY <1>1, <1>2, <1>3, <1>4 DEF PlaceInv
<1>7. AppInv'
  BY <1>2, <1>3, DeviceCacheConstants
  DEF AppInv, AppCached, AppDumped, AppCall, AppIsAsAsked, At
<1>8. FileInv'
  BY <1>1, <1>2, <1>3, FileFrame DEF TokenMoves, FileFine
<1> QED BY <1>5, <1>6, <1>7, <1>8 DEF Inv

LEMMA RemoveInv == ASSUME Inv, Remove \/ RemoveFails PROVE Inv'
<1>1. TypeOK /\ PlaceInv
  BY DEF Inv
<1>2. /\ op.at = "remove" /\ cache' = Forget /\ Spoil("apk")
      /\ UNCHANGED <<system, file, devToken, blame>> /\ apk' \in Installable
      /\ \/ op' = Idle
         \/ apk' = system /\ Goto(IF op.what = "install" THEN "put" ELSE "done")
  BY <1>1, Types DEF Remove, RemoveFails, At, Fail, Apks, Installable
<1>3. op.what \in {"install", "uninstall"}
  BY <1>1, <1>2 DEF PlaceInv
<1>4. CASE op' = Idle
  <2>1. op' \in Ops /\ op'.at = "idle" /\ op'.what = "none"
    BY <1>4, EmptyType DEF Idle
  <2> QED BY <1>2, <2>1, AppChanges
<1>5. CASE apk' = system /\ Goto(IF op.what = "install" THEN "put" ELSE "done")
  <2>1. /\ op' \in Ops /\ op'.what = op.what
        /\ op'.at = IF op.what = "install" THEN "put" ELSE "done"
        /\ op'.what = "install" => op'.v \in Versions
    BY <1>1, <1>5, GotoFacts DEF Places, PlaceInv
  <2> QED BY <1>2, <1>3, <1>5, <2>1, AppChanges
<1> QED BY <1>2, <1>4, <1>5

LEMMA PutInv == ASSUME Inv, Put \/ PutFails PROVE Inv'
<1>1. TypeOK /\ PlaceInv
  BY DEF Inv
<1>2. /\ op.at = "put" /\ cache' = Forget /\ Spoil("apk")
      /\ UNCHANGED <<system, file, devToken, blame>> /\ apk' \in {apk, op.v}
      /\ op' = Idle \/ (apk' = op.v /\ Goto("grant"))
  BY DEF Put, PutFails, At, Fail
<1>3. op.what = "install" /\ apk' \in Installable
  BY <1>1, <1>2, Types DEF PlaceInv, Ops, Installable, Apks
<1>4. CASE op' = Idle
  <2>1. op' \in Ops /\ op'.at = "idle" /\ op'.what = "none"
    BY <1>4, EmptyType DEF Idle
  <2> QED BY <1>2, <1>3, <2>1, AppChanges
<1>5. CASE apk' = op.v /\ Goto("grant")
  <2>1. /\ op' \in Ops /\ op'.what = op.what /\ op'.v = op.v /\ op'.at = "grant"
        /\ op'.what = "install" => op'.v \in Versions
    BY <1>1, <1>5, GotoFacts DEF Places, PlaceInv
  <2> QED BY <1>2, <1>3, <1>5, <2>1, AppChanges
<1> QED BY <1>2, <1>4, <1>5

LEMMA StopInv == ASSUME Inv, Stop PROVE Inv'
<1>1. /\ op.at = "stop" /\ Goto("grant") /\ UNCHANGED <<system, apk, file, devToken, cache, dump, blame>>
      /\ TypeOK /\ PlaceInv /\ op.what = "install"
  BY DEF Stop, At, device, Inv, PlaceInv
<1>2. op' \in Ops /\ op'.what = op.what /\ op'.v = op.v /\ op'.at = "grant"
  BY <1>1, GotoFacts DEF Places
<1>3. TypeOK'
  BY <1>1, <1>2, Types, TypeParts
<1>4. PlaceInv'
  BY <1>1, <1>2 DEF PlaceInv
<1>5. AppCached' /\ AppCall' /\ AppIsAsAsked'
  BY <1>1, <1>2 DEF Inv, AppInv, AppCached, AppCall, AppIsAsAsked, At, AppFine
<1>6. AppDumped'
  BY <1>1 DEF Inv, AppInv, AppDumped, AppTaken, AppFine
<1>7. FileInv'
  BY <1>1, <1>2, FileFrame DEF TokenMoves, FileFine
<1> QED BY <1>3, <1>4, <1>5, <1>6, <1>7 DEF Inv, AppInv

LEMMA GrantInv == ASSUME Inv, Grant PROVE Inv'
<1>1. /\ op.at = "grant" /\ Goto("done") /\ UNCHANGED <<system, apk, file, devToken, dump, blame>>
      /\ cache' = (IF op.known THEN [cache EXCEPT !.sums = op.v] ELSE cache)
      /\ TypeOK /\ PlaceInv /\ op.what = "install" /\ cache.token # 0
  BY DEF Grant, Return, At, device, Inv, PlaceInv
<1>2. op' \in Ops /\ op'.what = op.what /\ op'.v = op.v /\ op'.at = "done" /\ op.v \in Apks
  BY <1>1, GotoFacts, Types DEF Places, Ops
<1>3. /\ cache' \in Caches /\ cache'.paths = cache.paths /\ cache'.verify = cache.verify
      /\ cache'.file = cache.file /\ cache'.token = cache.token /\ cache'.prev = cache.prev
      /\ cache'.sums \in {cache.sums, op.v}
  BY <1>1, <1>2, Types DEF Caches
<1>4. TypeOK'
  BY <1>1, <1>2, <1>3, Types, TypeParts
<1>5. PlaceInv'
  BY <1>1, <1>2 DEF PlaceInv
<1>6. AppFine => apk = op.v
  BY <1>1 DEF Inv, AppInv, AppCall
<1>7. AppCached' /\ AppCall' /\ AppIsAsAsked'
  BY <1>1, <1>2, <1>3, <1>6 DEF Inv, AppInv, AppCached, AppCall, AppIsAsAsked, At, AppFine
<1>8. AppDumped'
  BY <1>1, <1>3 DEF Inv, AppInv, AppDumped, AppTaken, AppFine
<1>9. FileInv'
  BY <1>1, <1>2, <1>3, FileFrame DEF TokenMoves, FileFine
<1> QED BY <1>4, <1>5, <1>7, <1>8, <1>9 DEF Inv, AppInv

-----------------------------------------------------------------------------
(* Steps of PushChangedFiles.                                              *)
LEMMA LookedAt ==
    ASSUME Inv, op.at = "sums", NEW where \in {"commit", "send", "sendAll"}, Goto(where),
           NEW c \in Caches, Ensure(c), c.token = cache.token, c.prev = cache.prev,
           c.paths = cache.paths, c.verify = cache.verify, c.sums = cache.sums,
           c.file \in {cache.file, file}, UNCHANGED <<system, apk, file, dump, blame>>,
           where = "commit" /\ FileFine => file = op.v
    PROVE  Inv'
<1>1. TypeOK /\ PlaceInv /\ op.what = "push"
  BY DEF Inv, PlaceInv
<1>2. op' \in Ops /\ op'.what = op.what /\ op'.v = op.v /\ op'.at = where
  BY <1>1, GotoFacts DEF Places
<1>3. /\ cache' \in Caches /\ devToken' \in 0..MaxTokens
      /\ cache'.paths = cache.paths /\ cache'.verify = cache.verify
      /\ cache'.sums = cache.sums /\ cache'.file = c.file
      /\ cache'.token # 0 /\ devToken <= devToken'
      /\ \/ /\ cache.token # 0 /\ devToken' = devToken
            /\ cache'.token = cache.token /\ cache'.prev = cache.prev
         \/ /\ cache.token = 0 /\ devToken' = devToken + 1
            /\ cache'.token = devToken' /\ cache'.prev = devToken
  BY <1>1, EnsureFacts
<1>5. TokenMoves
  BY <1>3 DEF TokenMoves
<1>6. TypeOK'
  BY <1>1, <1>2, <1>3, Types, TypeParts
<1>7. PlaceInv'
  BY <1>1, <1>2, <1>3, TokensAre, Types DEF PlaceInv
<1>8. AppInv'
  BY <1>2, <1>3, <1>5, AppFrame DEF AppFine
<1>9. FileInv'
  <2>1. FileCached'
    BY <1>3 DEF Inv, FileInv, FileCached, FileFine
  <2>2. FileDumped'
    BY <1>5, FileTakenBefore DEF Inv, FileInv, FileDumped, FileFine
  <2>3. (FileFine /\ op.at = "commit" => file = op.v)' /\ FileIsAsAsked'
    BY <1>2 DEF FileIsAsAsked, At, FileFine
  <2> QED BY <2>1, <2>2, <2>3 DEF FileInv
<1> QED BY <1>6, <1>7, <1>8, <1>9 DEF Inv

LEMMA SumsInv == ASSUME Inv, Sums \/ SumsFail PROVE Inv'
<1>1. TypeOK /\ op.at = "sums" /\ UNCHANGED <<system, apk, file, dump, blame>>
  BY DEF Inv, Sums, SumsFail, At
<1>2. cache \in Caches /\ file \in Files
  BY <1>1, Types
<1>3. CASE Sums
  <2> DEFINE sums == IF cache.file = Unknown THEN file ELSE cache.file
             c == [cache EXCEPT !.file = sums]
             where == IF sums = op.v THEN "commit" ELSE "send"
  <2>1. Ensure(c) /\ Goto(where)
    BY <1>3 DEF Sums
  <2>2. /\ c \in Caches /\ c.token = cache.token /\ c.prev = cache.prev
        /\ c.paths = cache.paths /\ c.verify = cache.verify /\ c.sums = cache.sums
        /\ c.file \in {cache.file, file}
    BY <1>2 DEF Caches
  <2>3. FileFine => sums = file
    BY <1>1 DEF Inv, FileInv, FileCached
  <2>4. where \in {"commit", "send", "sendAll"} /\ (where = "commit" /\ FileFine => file = op.v)
    BY <2>3
  <2> HIDE DEF c, where
  <2> QED BY <1>1, <2>1, <2>2, <2>4, LookedAt
<1>4. CASE SumsFail
  <2>1. Goto("sendAll") /\ (Ensure(cache) \/ Ensure([cache EXCEPT !.file = IF @ = Unknown THEN file ELSE @]))
    BY <1>4 DEF SumsFail
  <2>2. CASE Ensure(cache)
    BY <1>1, <1>2, <2>1, <2>2, LookedAt
  <2>3. CASE Ensure([cache EXCEPT !.file = IF @ = Unknown THEN file ELSE @])
    <3> DEFINE c == [cache EXCEPT !.file = IF @ = Unknown THEN file ELSE @]
    <3>1. /\ c \in Caches /\ c.token = cache.token /\ c.prev = cache.prev
          /\ c.paths = cache.paths /\ c.verify = cache.verify /\ c.sums = cache.sums
          /\ c.file \in {cache.file, file}
      BY <1>2 DEF Caches
    <3>2. Ensure(c)
      BY <2>3
    <3> HIDE DEF c
    <3> QED BY <1>1, <2>1, <3>1, <3>2, LookedAt
  <2> QED BY <2>1, <2>2, <2>3
<1> QED BY <1>3, <1>4

-----------------------------------------------------------------------------
LEMMA SendInv == ASSUME Inv, Send \/ SendFails PROVE Inv'
<1>1. TypeOK /\ PlaceInv
  BY DEF Inv
<1>2. /\ op.at \in {"send", "sendAll"} /\ Spoil("file") /\ UNCHANGED <<system, apk, devToken, cache>>
      /\ file' \in {file, Torn, op.v} /\ blame' \in {blame, blame \cup {"push"}}
      /\ \/ op' = Idle /\ "push" \in blame'
         \/ Goto("commit") /\ file' = op.v
         \/ Goto("done") /\ "push" \in blame'
  BY DEF Send, SendFails, At, Fail, Return
<1>3. op.what = "push" /\ file' \in Files /\ cache.token # 0
  BY <1>1, <1>2, Types DEF PlaceInv, Ops, Files, Apks
<1>4. /\ op' \in Ops
      /\ op'.what # "install"
      /\ \/ op'.at = "idle" /\ "push" \in blame'
         \/ op'.at = "commit" /\ op'.what = "push" /\ file' = op'.v
         \/ op'.at = "done" /\ op'.what = "push" /\ "push" \in blame'
  <2>1. CASE op' = Idle /\ "push" \in blame'
    BY <2>1, EmptyType DEF Idle
  <2>2. CASE Goto("commit") /\ file' = op.v
    BY <1>1, <1>3, <2>2, GotoFacts DEF Places
  <2>3. CASE Goto("done") /\ "push" \in blame'
    BY <1>1, <1>3, <2>3, GotoFacts DEF Places
  <2> QED BY <1>2, <2>1, <2>2, <2>3
<1>5. /\ dump' \in Dumps /\ dump'.token = dump.token /\ "file" \in dump'.spoiled
      /\ dump.spoiled \subseteq dump'.spoiled /\ dump'.paths = dump.paths
      /\ dump'.sums = dump.sums
  BY <1>1, <1>2, SpoilFacts DEF Parts
<1>6. TypeOK'
  BY <1>1, <1>2, <1>3, <1>4, <1>5, Types, TypeParts DEF Parts
<1>7. PlaceInv'
  BY <1>1, <1>2, <1>3, <1>4, <1>5 DEF PlaceInv
<1>8. AppInv'
  BY <1>2, <1>4, <1>5, AppFrame DEF TokenMoves, AppFine
<1>9. FileInv'
  BY <1>4, <1>5 DEF FileInv, FileCached, FileDumped, FileIsAsAsked, FileFine, At
<1> QED BY <1>6, <1>7, <1>8, <1>9 DEF Inv

LEMMA CommitInv == ASSUME Inv, Commit PROVE Inv'
<1>1. /\ op.at = "commit" /\ cache' = [cache EXCEPT !.file = op.v] /\ Goto("done")
      /\ UNCHANGED <<system, apk, file, devToken, dump, blame>>
      /\ TypeOK /\ PlaceInv /\ op.what = "push" /\ cache.token # 0
  BY DEF Commit, At, Return, device, Inv, PlaceInv
<1>2. op' \in Ops /\ op'.what = op.what /\ op'.v = op.v /\ op'.at = "done" /\ op.v \in Files
  BY <1>1, GotoFacts, Types DEF Places, Ops, Files, Apks
<1>3. /\ cache' \in Caches /\ cache'.paths = cache.paths /\ cache'.verify = cache.verify
      /\ cache'.sums = cache.sums /\ cache'.token = cache.token /\ cache'.prev = cache.prev
      /\ cache'.file = op.v
  BY <1>1, <1>2, Types DEF Caches
<1>4. TypeOK'
  BY <1>1, <1>2, <1>3, Types, TypeParts
<1>5. PlaceInv'
  BY <1>1, <1>2 DEF PlaceInv
<1>6. AppInv'
  BY <1>1, <1>2, <1>3, AppFrame DEF TokenMoves, AppFine
<1>7. FileCached' /\ FileIsAsAsked'
  BY <1>1, <1>2, <1>3 DEF Inv, FileInv, FileCached, FileIsAsAsked, FileFine, At
<1>8. FileDumped'
  BY <1>1, <1>3 DEF Inv, FileInv, FileDumped, FileTaken, FileFine
<1> QED BY <1>2, <1>4, <1>5, <1>6, <1>7, <1>8 DEF Inv, FileInv

-----------------------------------------------------------------------------
(* The cache is cleared, dumped and loaded.                                *)
LEMMA FreshInv == ASSUME Inv, Fresh PROVE Inv'
<1>1. /\ cache' = Empty /\ op' = Idle /\ blame' = {} /\ UNCHANGED <<system, apk, file, devToken, dump>>
      /\ TypeOK /\ PlaceInv
  BY DEF Fresh, device, Inv
<1>2. /\ cache' \in Caches /\ op' \in Ops /\ op'.at = "idle" /\ op'.what = "none" /\ cache'.token = 0
      /\ cache'.paths = Unknown /\ cache'.sums = Unknown /\ cache'.file = Unknown
      /\ ~cache'.verify
  BY <1>1, EmptyType DEF Empty, Idle
<1>3. TypeOK'
  BY <1>1, <1>2, Types, TypeParts DEF Parts
<1>4. PlaceInv'
  BY <1>1, <1>2, Types DEF PlaceInv
<1>5. AppInv'
  BY <1>1, <1>2, DeviceCacheConstants
  DEF Inv, AppInv, AppCached, AppDumped, AppTaken, AppCall, AppIsAsAsked, At
<1>6. FileInv'
  BY <1>1, <1>2 DEF Inv, FileInv, FileCached, FileDumped, FileTaken, FileIsAsAsked, At
<1> QED BY <1>3, <1>4, <1>5, <1>6 DEF Inv

LEMMA DumpInv == ASSUME Inv, DumpCacheData PROVE Inv'
<1>1. /\ op.at = "idle" /\ Ensure(cache) /\ UNCHANGED <<system, apk, file, op, blame>>
      /\ dump' = [token |-> cache'.token, paths |-> cache.paths, sums |-> cache.sums,
                  file |-> cache.file, spoiled |-> blame]
      /\ TypeOK /\ PlaceInv
  BY DEF DumpCacheData, At, Inv
<1>2. cache \in Caches /\ blame \subseteq Parts
  BY <1>1, Types
<1>3. /\ cache' \in Caches /\ devToken' \in 0..MaxTokens
      /\ cache'.paths = cache.paths /\ cache'.verify = cache.verify
      /\ cache'.sums = cache.sums /\ cache'.file = cache.file /\ cache'.token # 0
      /\ \/ /\ cache.token # 0 /\ devToken' = devToken
            /\ cache'.token = cache.token /\ cache'.prev = cache.prev
         \/ /\ cache.token = 0 /\ devToken' = devToken + 1
            /\ cache'.token = devToken' /\ cache'.prev = devToken
  BY <1>1, <1>2, EnsureFacts
<1>4. dump' \in Dumps
  BY <1>1, <1>2, <1>3 DEF Dumps, Caches
<1>5. TypeOK'
  BY <1>1, <1>3, <1>4, Types, TypeParts
<1>6. cache'.token <= devToken' /\ cache'.prev < devToken'
  BY <1>1, <1>3, TokensAre
<1>7. PlaceInv'
  BY <1>1, <1>3, <1>6 DEF PlaceInv
<1>8. AppInv'
  BY <1>1, <1>3
  DEF Inv, AppInv, AppCached, AppDumped, AppTaken, AppCall, AppIsAsAsked, At, AppFine
<1>9. FileInv'
  BY <1>1, <1>3 DEF Inv, FileInv, FileCached, FileDumped, FileTaken, FileIsAsAsked, At, FileFine
<1> QED BY <1>5, <1>7, <1>8, <1>9 DEF Inv
-----------------------------------------------------------------------------
(* The dump was written when nothing else could be said of the device, and *)
(* nobody has changed that since without leaving a mark.                   *)
LEMMA LoadInv == ASSUME Inv, LoadCacheData PROVE Inv'
<1> DEFINE taken == dump.token = (IF cache.token = 0 THEN devToken ELSE cache.prev)
<1>1. /\ op.at = "idle" /\ dump.token # 0 /\ UNCHANGED <<system, apk, file, dump, op>>
      /\ IF taken THEN Ensure(Loaded) /\ blame' = BlameLoaded ELSE Ensure(cache) /\ blame' = blame
      /\ TypeOK /\ PlaceInv
  BY DEF LoadCacheData, At, Inv
<1>2. cache \in Caches /\ dump \in Dumps /\ blame \subseteq Parts
  BY <1>1, Types
<1>3. CASE taken
  <2>1. /\ Loaded \in Caches /\ Loaded.paths = dump.paths /\ Loaded.sums = dump.sums
        /\ Loaded.file = dump.file /\ (Loaded.verify <=> dump.paths # Unknown)
        /\ Loaded.token = cache.token /\ Loaded.prev = cache.prev
    BY <1>2 DEF Loaded, Caches, Dumps
  <2>2. /\ cache' \in Caches /\ devToken' \in 0..MaxTokens
        /\ cache'.paths = dump.paths /\ cache'.sums = dump.sums /\ cache'.file = dump.file
        /\ (cache'.verify <=> dump.paths # Unknown) /\ cache'.token # 0
        /\ \/ /\ cache.token # 0 /\ devToken' = devToken
              /\ cache'.token = cache.token /\ cache'.prev = cache.prev
           \/ /\ cache.token = 0 /\ devToken' = devToken + 1
              /\ cache'.token = devToken' /\ cache'.prev = devToken
    BY <1>1, <1>3, <2>1, EnsureFacts
  <2>3. /\ blame' = (IF cache.token = 0 THEN dump.spoiled ELSE blame \cup dump.spoiled)
        /\ blame' \subseteq Parts
    BY <1>1, <1>2, <1>3 DEF BlameLoaded, Dumps
  <2>4. TypeOK'
    BY <1>1, <2>2, <2>3, Types, TypeParts
  <2>5. PlaceInv'
    BY <1>1, <2>2, TokensAre DEF PlaceInv
  <2>6. AppFine' => AppTaken /\ dump.spoiled \cap {"apk", "unverified"} = {}
    BY <1>1, <1>3, <2>3 DEF AppFine, AppTaken
  <2>7. AppFine' => /\ dump.paths = "none" => apk = Missing
                    /\ dump.sums # Unknown => apk \in {dump.sums, Missing}
    BY <2>6 DEF Inv, AppInv, AppDumped
  <2>8. AppCached'
    BY <1>1, <2>2, <2>7, DeviceCacheConstants DEF AppCached
  <2>9. AppDumped'
    <3>1. ASSUME AppTaken' PROVE AppFine'
      BY <1>1, <1>3, <2>2, <3>1, TokensAre DEF AppTaken
    <3> QED BY <1>1, <2>7, <3>1 DEF AppDumped
  <2>10. AppCall' /\ AppIsAsAsked'
    BY <1>1 DEF AppCall, AppIsAsAsked, At
  <2>11. FileFine' => FileTaken /\ dump.spoiled \cap {"file", "push"} = {}
    BY <1>1, <1>3, <2>3 DEF FileFine, FileTaken
  <2>12. FileFine' => (dump.file # Unknown => dump.file = file)
    BY <2>11 DEF Inv, FileInv, FileDumped
  <2>13. FileCached'
    BY <1>1, <2>2, <2>12 DEF FileCached
  <2>14. FileDumped'
    <3>1. ASSUME FileTaken' PROVE FileFine'
      BY <1>1, <1>3, <2>2, <3>1, TokensAre DEF FileTaken
    <3> QED BY <1>1, <2>12, <3>1 DEF FileDumped
  <2>15. FileIsAsAsked' /\ ~(op'.at = "commit")
    BY <1>1 DEF FileIsAsAsked, At
  <2> QED
    BY <2>4, <2>5, <2>8, <2>9, <2>10, <2>13, <2>14, <2>15 DEF Inv, AppInv, FileInv
<1>4. CASE ~taken
  <2>1. /\ cache' \in Caches /\ devToken' \in 0..MaxTokens
        /\ cache'.paths = cache.paths /\ cache'.verify = cache.verify
        /\ cache'.sums = cache.sums /\ cache'.file = cache.file /\ cache'.token # 0
        /\ \/ /\ cache.token # 0 /\ devToken' = devToken
              /\ cache'.token = cache.token /\ cache'.prev = cache.prev
           \/ /\ cache.token = 0 /\ devToken' = devToken + 1
              /\ cache'.token = devToken' /\ cache'.prev = devToken
    BY <1>1, <1>2, <1>4, EnsureFacts
  <2>2. blame' = blame
    BY <1>1, <1>4
  <2>3. TypeOK'
    BY <1>1, <2>1, <2>2, Types, TypeParts
  <2>4. PlaceInv'
    BY <1>1, <2>1, TokensAre DEF PlaceInv
  <2>5. TokenMoves
    BY <2>1 DEF TokenMoves
  <2>6. AppInv'
    BY <1>1, <2>1, <2>2, <2>5, AppFrame DEF AppFine
  <2>7. FileInv'
    BY <1>1, <2>1, <2>2, <2>5, FileFrame DEF FileFine
  <2> QED BY <2>3, <2>4, <2>6, <2>7 DEF Inv
<1> QED BY <1>3, <1>4

-----------------------------------------------------------------------------
(* Others.                                                                 *)
LEMMA ChangeFacts ==
    ASSUME TypeOK, Change
    PROVE  /\ apk' \in Installable /\ file' \in Files /\ Changed \subseteq {"apk", "file"}
           /\ ("apk" \in Changed <=> apk' # apk) /\ ("file" \in Changed <=> file' # file)
BY Types DEF Change, Changed, Files

LEMMA OtherProcessInv == ASSUME Inv, OtherProcess PROVE Inv'
<1>1. /\ Change /\ devToken < MaxTokens /\ devToken' = devToken + 1
      /\ blame' = IF cache = Empty /\ op.at = "idle" THEN blame ELSE blame \cup Changed
      /\ UNCHANGED <<system, cache, dump, op>> /\ TypeOK /\ PlaceInv
  BY DEF OtherProcess, At, Inv
<1>2. /\ apk' \in Installable /\ file' \in Files /\ Changed \subseteq {"apk", "file"}
      /\ ("apk" \in Changed <=> apk' # apk) /\ ("file" \in Changed <=> file' # file)
  BY <1>1, ChangeFacts
<1>3. devToken' \in 0..MaxTokens
  BY <1>1, Types
<1>4. TypeOK'
  BY <1>1, <1>2, <1>3, Types, TypeParts DEF Parts
<1>5. PlaceInv'
  BY <1>1, TokensAre DEF PlaceInv
<1>6. /\ AppFine' => AppFine /\ (apk' = apk \/ (cache = Empty /\ op.at = "idle"))
      /\ FileFine' => FileFine /\ (file' = file \/ (cache = Empty /\ op.at = "idle"))
  BY <1>1, <1>2 DEF AppFine, FileFine
<1>7. /\ Empty.token = 0 /\ Empty.paths = Unknown /\ Empty.sums = Unknown
      /\ Empty.file = Unknown
  BY DEF Empty
<1>8. AppCached'
  BY <1>1, <1>6, <1>7, DeviceCacheConstants DEF Inv, AppInv, AppCached
<1>9. AppTaken' => AppTaken /\ apk' = apk
  BY <1>1, <1>6, <1>7, TokensAre DEF AppTaken
<1>10. AppDumped'
  BY <1>1, <1>9 DEF Inv, AppInv, AppDumped
<1>11. AppCall' /\ AppIsAsAsked'
  BY <1>1, <1>6 DEF Inv, AppInv, AppCall, AppIsAsAsked, AppFine, At
<1>12. FileCached'
  BY <1>1, <1>6, <1>7 DEF Inv, FileInv, FileCached
<1>13. FileTaken' => FileTaken /\ file' = file
  BY <1>1, <1>6, <1>7, TokensAre DEF FileTaken
<1>14. FileDumped'
  BY <1>1, <1>13 DEF Inv, FileInv, FileDumped
<1>15. FileIsAsAsked' /\ (FileFine /\ op.at = "commit" => file = op.v)'
  BY <1>1, <1>6 DEF Inv, FileInv, FileIsAsAsked, FileFine, At
<1> QED
  BY <1>4, <1>5, <1>8, <1>10, <1>11, <1>12, <1>14, <1>15 DEF Inv, AppInv, FileInv

LEMMA ByHandInv == ASSUME Inv, ByHand PROVE Inv'
<1> DEFINE noticed == IF apk' = Missing THEN {"apk"} ELSE {}
           marked == dump.spoiled \cup (Changed \ noticed)
<1>1. /\ Change /\ UNCHANGED <<system, devToken, cache, op>> /\ TypeOK /\ PlaceInv
      /\ blame' = IF cache = Empty /\ op.at = "idle" THEN blame
                  ELSE blame \cup (IF cache.verify /\ op.at = "idle" THEN Changed \ noticed
                                   ELSE Changed)
      /\ dump' = [dump EXCEPT !.spoiled = marked]
  BY DEF ByHand, At, Inv
<1>2. /\ apk' \in Installable /\ file' \in Files /\ Changed \subseteq {"apk", "file"}
      /\ ("apk" \in Changed <=> apk' # apk) /\ ("file" \in Changed <=> file' # file)
  BY <1>1, ChangeFacts
<1>3. dump \in Dumps /\ marked \in SUBSET Parts
  BY <1>1, <1>2, Types DEF Dumps, Parts
<1>4. /\ dump' \in Dumps /\ dump'.token = dump.token /\ dump'.paths = dump.paths
      /\ dump'.sums = dump.sums /\ dump'.file = dump.file /\ dump'.spoiled = marked
  BY <1>1, <1>3 DEF Dumps
<1>5. TypeOK'
  BY <1>1, <1>2, <1>4, Types, TypeParts DEF Parts
<1>6. PlaceInv'
  BY <1>1, <1>4 DEF PlaceInv
<1>7. /\ AppFine' => /\ AppFine
                     /\ \/ apk' = apk \/ (cache = Empty /\ op.at = "idle")
                        \/ apk' = Missing /\ cache.verify /\ op.at = "idle"
      /\ FileFine' => FileFine /\ (file' = file \/ (cache = Empty /\ op.at = "idle"))
  BY <1>1, <1>2 DEF AppFine, FileFine
<1>8. /\ Empty.paths = Unknown /\ Empty.sums = Unknown /\ Empty.file = Unknown
  BY DEF Empty
<1>9. AppCached'
  BY <1>1, <1>7, <1>8, DeviceCacheConstants DEF Inv, AppInv, AppCached
<1>10. AppTaken' => AppTaken
  BY <1>1, <1>4, <1>7 DEF AppTaken
<1>11. dump'.spoiled \cap {"apk", "unverified"} = {}
         => dump.spoiled \cap {"apk", "unverified"} = {} /\ (apk' = apk \/ apk' = Missing)
  BY <1>2, <1>4
<1>12. AppDumped'
  BY <1>4, <1>10, <1>11 DEF Inv, AppInv, AppDumped
<1>13. AppCall' /\ AppIsAsAsked'
  BY <1>1, <1>7 DEF Inv, AppInv, AppCall, AppIsAsAsked, AppFine, At
<1>14. FileCached'
  BY <1>1, <1>7, <1>8 DEF Inv, FileInv, FileCached
<1>15. FileTaken' => FileTaken
  BY <1>1, <1>4, <1>7 DEF FileTaken
<1>16. dump'.spoiled \cap {"file", "push"} = {}
         => dump.spoiled \cap {"file", "push"} = {} /\ file' = file
  BY <1>2, <1>4
<1>17. FileDumped'
  BY <1>4, <1>15, <1>16 DEF Inv, FileInv, FileDumped
<1>18. FileIsAsAsked' /\ (FileFine /\ op.at = "commit" => file = op.v)'
  BY <1>1, <1>7 DEF Inv, FileInv, FileIsAsAsked, FileFine, At
<1> QED
  BY <1>5, <1>6, <1>9, <1>12, <1>13, <1>14, <1>17, <1>18 DEF Inv, AppInv, FileInv

-----------------------------------------------------------------------------
LEMMA NextInv == ASSUME Inv, Next PROVE Inv'
<1>1. ASSUME NEW v \in Versions, NEW reinstall \in BOOLEAN, Install(v, reinstall) PROVE Inv'
  BY <1>1, CallInv DEF Install, Apks
<1>2. ASSUME NEW v \in Versions, PushChangedFiles(v) PROVE Inv'
  BY <1>2, CallInv DEF PushChangedFiles, Apks
<1>3. ASSUME Uninstall PROVE Inv'
  BY <1>3, CallInv DEF Uninstall, Apks
<1>4. ASSUME \/ EnsureFails \/ CachedPaths \/ VerifyFails \/ PmPath \/ Compare
             \/ Remove \/ RemoveFails \/ Put \/ PutFails \/ Stop \/ Grant \/ CommandFails
      PROVE  Inv'
  BY <1>4, EnsureFailsInv, CachedPathsInv, VerifyFailsInv, PmPathInv, CompareInv,
     RemoveInv, PutInv, StopInv, GrantInv, EndInv
<1>5. ASSUME \/ Sums \/ SumsFail \/ Send \/ SendFails \/ Commit \/ Returned
             \/ Fresh \/ DumpCacheData \/ LoadCacheData \/ OtherProcess \/ ByHand
      PROVE  Inv'
  BY <1>5, SumsInv, SendInv, CommitInv, EndInv, FreshInv, DumpInv, LoadInv,
     OtherProcessInv, ByHandInv
<1> QED BY <1>1, <1>2, <1>3, <1>4, <1>5 DEF Next

LEMMA StutterInv == ASSUME Inv, UNCHANGED vars PROVE Inv'
<1>1. UNCHANGED <<system, apk, file, devToken, cache, dump, op, blame>>
  BY DEF vars, device
<1>2. TypeOK' /\ PlaceInv'
  BY <1>1 DEF Inv, TypeOK, PlaceInv, At, Installable
<1>3. AppInv'
  BY <1>1 DEF Inv, AppInv, AppCached, AppDumped, AppTaken, AppCall, AppIsAsAsked, AppFine, At
<1>4. FileInv'
  BY <1>1 DEF Inv, FileInv, FileCached, FileDumped, FileTaken, FileIsAsAsked, FileFine, At
<1> QED BY <1>2, <1>3, <1>4 DEF Inv

LEMMA SpecInv == Spec => []Inv
<1>1. Inv /\ [Next]_vars => Inv'
  BY NextInv, StutterInv
<1> QED BY InitInv, <1>1, PTL DEF Spec

(* Whatever fails and whoever else uses the device: the variables keep     *)
(* their types, and a cache that holds anything is guarded by a token.     *)
THEOREM DeviceCacheTypeOK == Spec => []TypeOK
<1>1. Inv => TypeOK
  BY DEF Inv
<1> QED BY SpecInv, <1>1, PTL

(* For any versions and any number of tokens: what Install and Uninstall   *)
(* skip on the word of the cache was done already, unless others changed   *)
(* the app or a call failed before it had verified it.                     *)
THEOREM DeviceCacheAppIsAsAsked == Spec => []AppIsAsAsked
<1>1. Inv => AppIsAsAsked
  BY DEF Inv, AppInv
<1> QED BY SpecInv, <1>1, PTL

(* For any versions and any number of tokens: so was what PushChangedFiles *)
(* skips.                                                                  *)
THEOREM DeviceCacheFileIsAsAsked == Spec => []FileIsAsAsked
<1>1. Inv => FileIsAsAsked
  BY DEF Inv, FileInv
<1> QED BY SpecInv, <1>1, PTL
=============================================================================
