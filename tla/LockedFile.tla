---------------------------- MODULE LockedFile -----------------------------
(***************************************************************************)
(* What _FileLock promises about a file: processes are inside one after    *)
(* the other, and only the one inside changes the file.                    *)
(***************************************************************************)
CONSTANTS Procs, Contents

VARIABLES inside, file

Init == inside = {} /\ file \in Contents

Enter(p) == inside = {} /\ inside' = {p} /\ UNCHANGED file

Write(p) == inside = {p} /\ file' \in Contents /\ UNCHANGED inside

Leave(p) == inside = {p} /\ inside' = {} /\ UNCHANGED file

Next == \E p \in Procs : Enter(p) \/ Write(p) \/ Leave(p)

Spec == Init /\ [][Next]_<<inside, file>>
=============================================================================
