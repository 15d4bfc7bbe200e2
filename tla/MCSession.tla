----------------------------- MODULE MCSession -----------------------------
(* Session on small instances.  Accounts, sign-ins, calls and logouts are  *)
(* interchangeable; the liveness run does not use the symmetry.            *)
EXTENDS Session, TLC

Symmetry == Permutations(Users) \cup Permutations(SignIns)
            \cup Permutations(Calls) \cup Permutations(Logouts)
=============================================================================
