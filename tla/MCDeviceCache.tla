--------------------------- MODULE MCDeviceCache ---------------------------
(* DeviceCache for TLC.  The app and the file share the token and the dump *)
(* and nothing else: a behaviour concerns one of them.                     *)
EXTENDS DeviceCache, TLC

VersionsAreAlike == Permutations(Versions)

NoFile == file = Missing /\ cache.file = Unknown /\ op.what # "push"
NoApp == system = Missing /\ apk = Missing /\ cache.paths = Unknown /\ op.what \in {"none", "push"}
OneOfBoth == NoFile \/ NoApp
=============================================================================
