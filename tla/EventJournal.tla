---------------------------- MODULE EventJournal ---------------------------
(***************************************************************************)
(* What a trace log promises to those who record events, with no locks, no *)
(* flushes, no open files and no forked memory in sight.  The events that  *)
(* a writer records wait in their order, and each goes to the journal      *)
(* after those before it.  Only a writer that dies loses those that wait.  *)
(* A copy of an event may come from elsewhere, but never out of order, and *)
(* never one that was not recorded while its writer lives.                 *)
(***************************************************************************)
EXTENDS Integers, Sequences

CONSTANTS Authors,
          Records     \* [Authors -> the events that one can record]

VARIABLES waiting,  \* [Authors -> its events that are not in the journal yet]
          journal,  \* the events in the journal
          dead      \* the writers that died

journalVars == <<waiting, journal, dead>>

JournalInit ==
    waiting = [w \in Authors |-> <<>>] /\ journal = {} /\ dead = {}

(* An event is recorded for the first time.                                *)
Note(w, e) ==
    /\ w \notin dead /\ e \notin journal
    /\ \A i \in DOMAIN waiting[w] : waiting[w][i] # e
    /\ waiting' = [waiting EXCEPT ![w] = Append(@, e)]
    /\ UNCHANGED <<journal, dead>>

(* The one that waits longest goes to the journal, where a copy of it may  *)
(* be already.                                                             *)
Publish(w) ==
    /\ w \notin dead /\ waiting[w] # <<>>
    /\ journal' = journal \cup {Head(waiting[w])}
    /\ waiting' = [waiting EXCEPT ![w] = Tail(@)]
    /\ UNCHANGED dead

(* A copy of one that waits, after those before it, or of a dead writer's. *)
Echo(w, e) ==
    /\ \/ w \in dead
       \/ \E i \in DOMAIN waiting[w] :
            waiting[w][i] = e /\ \A j \in 1..(i - 1) : waiting[w][j] \in journal
    /\ journal' = journal \cup {e}
    /\ UNCHANGED <<waiting, dead>>

Perish(w) ==
    /\ w \notin dead /\ dead' = dead \cup {w}
    /\ waiting' = [waiting EXCEPT ![w] = <<>>]
    /\ UNCHANGED journal

JournalNext ==
    \E w \in Authors :
      Publish(w) \/ Perish(w)
      \/ \E e \in Records[w] : Note(w, e) \/ Echo(w, e)

JournalSpec == JournalInit /\ [][JournalNext]_journalVars
=============================================================================
