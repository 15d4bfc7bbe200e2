-------------------------- MODULE CredentialStore --------------------------
(***************************************************************************)
(* What the login code promises about stored credentials, with no          *)
(* activities, coroutines or network in sight.  The server grants access   *)
(* tokens; a granted token is written to its own user's profile row at     *)
(* most once, or given up; the whole table may be wiped at any moment.     *)
(* Once stored or given up a token never comes back: nothing in the app    *)
(* may replay an old token over a newer session.  Session implements this. *)
(***************************************************************************)
EXTENDS Naturals

CONSTANTS Users,     \* ids of the accounts the server knows
          NoToken    \* what a read of a missing profile row yields

Token == [user : Users, serial : Nat \ {0}]

VARIABLES stored,    \* [Users -> Token or NoToken]: the token of each profile row
          granted,   \* tokens granted, neither stored nor given up yet
          last       \* serial of the most recently granted token

storeVars == <<stored, granted, last>>

StoreInit ==
    /\ stored = [u \in Users |-> NoToken]
    /\ granted = {}
    /\ last = 0

(* The server accepts a user's credentials and answers with a fresh token. *)
Grant(u) ==
    /\ last' = last + 1
    /\ granted' = granted \cup {[user |-> u, serial |-> last + 1]}
    /\ UNCHANGED stored

(* A granted token becomes the token of its own user's row. *)
Store(t) ==
    /\ t \in granted
    /\ stored' = [stored EXCEPT ![t.user] = t]
    /\ granted' = granted \ {t}
    /\ UNCHANGED last

(* Any number of granted tokens are lost: a process death loses them all. *)
GiveUp ==
    /\ \E lost \in SUBSET granted : granted' = granted \ lost
    /\ UNCHANGED <<stored, last>>

(* The profile table is emptied. *)
Wipe ==
    /\ stored' = [u \in Users |-> NoToken]
    /\ UNCHANGED <<granted, last>>

StoreNext ==
    \/ \E u \in Users : Grant(u)
    \/ \E t \in granted : Store(t)
    \/ GiveUp
    \/ Wipe

StoreSpec == StoreInit /\ [][StoreNext]_storeVars
=============================================================================
