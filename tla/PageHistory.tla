---------------------------- MODULE PageHistory ----------------------------
(***************************************************************************)
(* What the pages of the main screen promise the user, with no fragments,  *)
(* transactions or back stack entries in sight.  The user goes from page   *)
(* to page and sees the last one, alone.  Back takes that one away and     *)
(* shows the one before it, with the list it had; no page comes twice.     *)
(* When the activity is created anew for a configuration change the        *)
(* history is lost, until the app starts afresh.  Navigation implements    *)
(* this.                                                                   *)
(***************************************************************************)
EXTENDS Integers, Sequences

CONSTANT Pages

VARIABLES path,    \* the pages the user went through, the one on screen last
          shown,   \* the pages on screen
          filled,  \* the pages whose list has come
          lost     \* the history was lost in a configuration change

historyVars == <<path, shown, filled, lost>>

OnPath(p) == \E i \in DOMAIN path : path[i] = p

HistoryInit == path = <<>> /\ shown = {} /\ filled = {} /\ lost = FALSE

(* The user goes on to a page that is not in the history.                  *)
Open(p) ==
    /\ ~lost /\ ~OnPath(p)
    /\ path' = Append(path, p)
    /\ shown' = {p}
    /\ UNCHANGED <<filled, lost>>

(* The page on screen goes, and its list; the one before it is as it was.  *)
Back ==
    /\ ~lost /\ Len(path) > 1
    /\ path' = SubSeq(path, 1, Len(path) - 1)
    /\ shown' = {path[Len(path) - 1]}
    /\ filled' = filled \ {path[Len(path)]}
    /\ UNCHANGED lost

(* The list of a page comes, be it on screen or further back.              *)
Fill(p) ==
    /\ ~lost /\ OnPath(p)
    /\ filled' = filled \cup {p}
    /\ UNCHANGED <<path, shown, lost>>

Lose ==
    /\ path # <<>>
    /\ path' = <<>> /\ shown' = {} /\ filled' = {} /\ lost' = TRUE

StartAfresh == path' = <<>> /\ shown' = {} /\ filled' = {} /\ lost' = FALSE

HistoryNext ==
    \/ Back \/ Lose \/ StartAfresh
    \/ \E p \in Pages : Open(p) \/ Fill(p)

HistorySpec == HistoryInit /\ [][HistoryNext]_historyVars
=============================================================================
