------------------------------ MODULE Tracing ------------------------------
(***************************************************************************)
(* systrace/tracing_controller.py and the agents it drives: StartTracing   *)
(* starts the controller's own agent and then the others, StopTracing has  *)
(* each write a clock sync marker, stops them and collects their results.  *)
(* The user may give a timeout to the starts and stops, and another to the *)
(* collection: when it passes the call returns False, and the thread of    *)
(* the call goes on.  Without one a call may hang with the device.         *)
(***************************************************************************)
CONSTANTS Agents,     \* the agents made for this program, in any order
          Tracers,    \* those that trace on the device between start and stop
          Synced,     \* those that support an explicit clock sync
          Shelled,    \* those that ask for the marker through a PersistentShell
          Echoed,     \* those of them that read nothing of what it answers
          Threaded    \* those whose stop starts a thread to collect the trace

ASSUME TracingConstants ==
    /\ Tracers \cup Synced \cup Threaded \subseteq Agents
    /\ Echoed \subseteq Shelled /\ Shelled \subseteq Synced
    /\ {"controller", "none"} \cap Agents = {}

VARIABLES options,    \* the timeouts given on the command line
          pc,         \* where the main thread is
          todo,       \* agents its loop has not come to
          inProgress, \* _trace_in_progress
          child,      \* _child_agents; None before StartTracing has set it
          succ,       \* succ_agents
          ctl,        \* trace_event, which the controller's agent enables
          on,         \* agents that trace on the device
          late,       \* timed out starts and stops that may yet do their work
          thread,     \* [Threaded -> the state of the collection thread]
          marks, log, \* clock sync markers in the agents' traces, and in ours
          results,    \* all_results, the program's once StopTracing is done
          warned      \* agents the user was told of

device == <<on, late, thread>>
sync == <<marks, log>>
loop == <<todo, inProgress, child, succ>>
vars == <<options, pc, loop, ctl, device, sync, results, warned>>

None == {"none"}  \* no list
Controller == "controller"

Timeouts == {"timeout", "collection_timeout"}
Given(option) == option \in options

Init ==
    /\ options \in SUBSET Timeouts
    /\ pc = "idle" /\ todo = {} /\ inProgress = FALSE /\ child = None /\ succ = {}
    /\ ctl = "off" /\ on = {} /\ late = [start |-> {}, stop |-> {}]
    /\ thread = [a \in Threaded |-> "none"]
    /\ marks = {} /\ log = {} /\ results = {} /\ warned = {}

-----------------------------------------------------------------------------
At(where) == pc = where
Loop(where, agents) == pc' = where /\ todo' = agents
RaiseError == Loop("raised", {})

(* The command of a call may have come to the device or not, or may still  *)
(* come to it after the call was given up.                                 *)
Partly(a) == on' \in {on, on \cup ({a} \cap Tracers)}

StartTracing ==
    /\ At("idle") /\ inProgress' = TRUE /\ Loop("startController", Agents)
    /\ UNCHANGED <<options, child, succ, ctl, device, sync, results, warned>>

StartController ==
    /\ At("startController") /\ ctl' = "on" /\ Loop("start", todo)
    /\ UNCHANGED <<options, inProgress, child, succ, device, sync, results, warned>>

(* StartTracing returns False or raises; _child_agents stays None, and the *)
(* trace in progress.  The callers ask for a stop all the same.            *)
StartControllerFails ==
    /\ At("startController") /\ ctl' \in {"off", "on"}
    /\ (Given("timeout") /\ Loop("tracing", {})) \/ RaiseError
    /\ warned' = warned \cup {Controller}
    /\ UNCHANGED <<options, inProgress, child, succ, device, sync, results>>

StartAgent(a) ==
    /\ At("start") /\ a \in todo /\ Loop("start", todo \ {a})
    /\ succ' = succ \cup {a} /\ on' = on \cup ({a} \cap Tracers)
    /\ UNCHANGED <<options, inProgress, child, ctl, late, thread, sync, results, warned>>

(* Mutant: an agent whose start timed out counts as started.               *)
StartAgentTimesOut_Counts(a) ==
    /\ Given("timeout") /\ At("start") /\ a \in todo /\ Loop("start", todo \ {a})
    /\ late' = [late EXCEPT !.start = @ \cup ({a} \cap Tracers)]
    /\ succ' = succ \cup {a}
    /\ UNCHANGED <<options, inProgress, child, ctl, on, thread, sync, results, warned>>

StartAgentTimesOut(a) ==
    /\ Given("timeout") /\ At("start") /\ a \in todo /\ Loop("start", todo \ {a})
    /\ late' = [late EXCEPT !.start = @ \cup ({a} \cap Tracers)]
    /\ warned' = warned \cup {a}
    /\ UNCHANGED <<options, inProgress, child, succ, ctl, on, thread, sync, results>>

StartAgentRaises(a) ==
    /\ At("start") /\ a \in todo /\ RaiseError /\ Partly(a)
    /\ UNCHANGED <<options, inProgress, child, succ, ctl, late, thread, sync, results, warned>>

(* Its commands run without a timeout of their own under that of the call, *)
(* which is None unless it was given.                                      *)
StartAgentHangs(a) ==
    /\ ~Given("timeout") /\ At("start") /\ a \in todo /\ Loop("hung", {}) /\ Partly(a)
    /\ UNCHANGED <<options, inProgress, child, succ, ctl, late, thread, sync, results, warned>>

Started ==
    /\ At("start") /\ todo = {} /\ child' = succ /\ Loop("tracing", {})
    /\ UNCHANGED <<options, inProgress, succ, ctl, device, sync, results, warned>>

-----------------------------------------------------------------------------
(* With no list of agents the loop that is to sync them raises.            *)
StopTracing ==
    /\ At("tracing") /\ inProgress /\ inProgress' = FALSE /\ succ' = {}
    /\ IF child = None THEN RaiseError ELSE Loop("sync", child)
    /\ UNCHANGED <<options, child, ctl, device, sync, results, warned>>

(* A shell command whose exit status is not looked at may have failed.     *)
Mark(a) ==
    \/ marks' = marks \cup ({a} \cap Synced)
    \/ a \in Echoed /\ marks' = marks

(* Mutant: the marker is not written on our side.                          *)
Sync_NoCallback(a) ==
    /\ At("sync") /\ a \in todo /\ Loop("sync", todo \ {a}) /\ Mark(a) /\ UNCHANGED log
    /\ UNCHANGED <<options, inProgress, child, succ, ctl, device, results, warned>>

(* The agent's marker, and then ours through its callback.                 *)
Sync(a) ==
    /\ At("sync") /\ a \in todo /\ Loop("sync", todo \ {a}) /\ Mark(a)
    /\ log' = IF ctl = "on" THEN log \cup ({a} \cap Synced) ELSE log
    /\ UNCHANGED <<options, inProgress, child, succ, ctl, device, results, warned>>

(* The shell gives no answer, or not the one that was asked for; no option *)
(* sets a timeout for it.                                                  *)
SyncFails(a) ==
    /\ At("sync") /\ a \in todo \cap Synced /\ marks' \in {marks, marks \cup {a}}
    /\ RaiseError \/ (a \in Shelled /\ Loop("syncHung", {}))
    /\ UNCHANGED <<options, inProgress, child, succ, ctl, device, log, results, warned>>

Synchronised ==
    /\ At("sync") /\ todo = {} /\ Loop("stop", child)
    /\ UNCHANGED <<options, inProgress, child, succ, ctl, device, sync, results, warned>>

(* Only a thread is started, or the device told to stop.                   *)
StopAgent(a) ==
    /\ At("stop") /\ a \in todo /\ Loop("stop", todo \ {a}) /\ succ' = succ \cup {a}
    /\ IF a \in Threaded THEN thread' = [thread EXCEPT ![a] = "running"] /\ UNCHANGED on
       ELSE on' = on \ {a} /\ UNCHANGED thread
    /\ UNCHANGED <<options, inProgress, child, ctl, late, sync, results, warned>>

(* Mutant: it is asked again until it has stopped.                         *)
StopAgentFails_Again(a) ==
    /\ At("stop") /\ a \in todo \ Threaded /\ Loop("stop", todo)
    /\ \/ Given("timeout") /\ late' = [late EXCEPT !.stop = @ \cup {a}] /\ UNCHANGED on
       \/ a \in Tracers /\ on' = on \ {a} /\ UNCHANGED late
    /\ warned' = warned \cup {a}
    /\ UNCHANGED <<options, inProgress, child, succ, ctl, thread, sync, results>>

(* It timed out, or the device stopped and its trace could not be pulled.  *)
StopAgentFails(a) ==
    /\ At("stop") /\ a \in todo \ Threaded /\ Loop("stop", todo \ {a})
    /\ \/ Given("timeout") /\ late' = [late EXCEPT !.stop = @ \cup {a}] /\ UNCHANGED on
       \/ a \in Tracers /\ on' = on \ {a} /\ UNCHANGED late
    /\ warned' = warned \cup {a}
    /\ UNCHANGED <<options, inProgress, child, succ, ctl, thread, sync, results>>

(* Those that only start a thread do not wait for the device.              *)
StopAgentHangs(a) ==
    /\ ~Given("timeout") /\ At("stop") /\ a \in todo \ Threaded /\ Loop("hung", {})
    /\ on' \in {on, on \ {a}}
    /\ UNCHANGED <<options, inProgress, child, succ, ctl, late, thread, sync, results, warned>>

StopAgentRaises(a) ==
    /\ At("stop") /\ a \in todo \ Threaded /\ RaiseError /\ on' \in {on, on \ {a}}
    /\ UNCHANGED <<options, inProgress, child, succ, ctl, late, thread, sync, results, warned>>

StopController ==
    /\ At("stop") /\ todo = {} /\ ctl' = "closed" /\ child' = succ
    /\ Loop("collect", succ \cup {Controller})
    /\ UNCHANGED <<options, inProgress, succ, device, sync, results, warned>>

(* StopTracing returns False: nobody is asked for results.                 *)
StopControllerFails ==
    /\ At("stop") /\ todo = {} /\ ctl' \in {"on", "closed"}
    /\ RaiseError \/ (Given("timeout") /\ Loop("noResults", {}))
    /\ warned' = warned \cup {Controller}
    /\ UNCHANGED <<options, inProgress, child, succ, device, sync, results>>

-----------------------------------------------------------------------------
Result(a, data) == [agent |-> a, data |-> data]

(* The agents come before the controller.  A thread that failed has left   *)
(* nothing, and its result may be taken all the same.                      *)
Collect(a) ==
    /\ At("collect") /\ a \in todo /\ (a = Controller => todo = {a})
    /\ a \in Threaded => thread[a] \in {"done", "failed"}
    /\ Loop("collect", todo \ {a})
    /\ results' = results \cup {Result(a, a \in Threaded => thread[a] = "done")}
    /\ UNCHANGED <<options, inProgress, child, succ, ctl, device, sync, warned>>

CollectTimesOut(a) ==
    /\ Given("collection_timeout") /\ At("collect") /\ a \in todo /\ (a = Controller => todo = {a})
    /\ Loop("collect", todo \ {a}) /\ warned' = warned \cup {a}
    /\ UNCHANGED <<options, inProgress, child, succ, ctl, device, sync, results>>

CollectRaises(a) ==
    /\ At("collect") /\ a \in todo /\ (a = Controller => todo = {a})
    /\ a = Controller \/ (a \in Threaded /\ thread[a] = "failed")
    /\ RaiseError
    /\ UNCHANGED <<options, inProgress, child, succ, ctl, device, sync, results, warned>>

Collected ==
    /\ At("collect") /\ todo = {} /\ Loop("done", {})
    /\ UNCHANGED <<options, inProgress, child, succ, ctl, device, sync, results, warned>>

(* The collection threads were made by the daemon threads of the stops and *)
(* are daemons too: the interpreter does not wait for them.                *)
Exit ==
    /\ pc \in {"done", "noResults", "raised"}
    /\ pc' = (IF At("done") THEN "exitDone" ELSE "exit")
    /\ UNCHANGED <<options, loop, ctl, device, sync, results, warned>>

Exited == pc \in {"exit", "exitDone"}

-----------------------------------------------------------------------------
(* The collection thread stops the device and reads its trace.  What it    *)
(* raises is printed by the interpreter.                                   *)
ThreadStops(a) ==
    /\ ~Exited /\ thread[a] = "running" /\ on' = on \ {a}
    /\ thread' = [thread EXCEPT ![a] = "stopped"]
    /\ UNCHANGED <<options, pc, loop, ctl, late, sync, results, warned>>

(* Mutant: the trace is taken before the device is told to stop.           *)
ThreadEnds_Tracing(a) ==
    /\ ~Exited /\ thread[a] \in {"running", "stopped"} /\ thread' = [thread EXCEPT ![a] = "done"]
    /\ UNCHANGED <<options, pc, loop, ctl, on, late, sync, results, warned>>

ThreadEnds(a) ==
    /\ ~Exited /\ thread[a] = "stopped" /\ thread' = [thread EXCEPT ![a] = "done"]
    /\ UNCHANGED <<options, pc, loop, ctl, on, late, sync, results, warned>>

ThreadFails(a) ==
    /\ ~Exited /\ thread[a] \in {"running", "stopped"} /\ thread' = [thread EXCEPT ![a] = "failed"]
    /\ warned' = warned \cup {a}
    /\ UNCHANGED <<options, pc, loop, ctl, on, late, sync, results>>

(* The thread of a call that timed out does its work after all, or fails;  *)
(* its last command may be with the device when the program exits.         *)
LateStart(a) ==
    /\ a \in late.start /\ late' = [late EXCEPT !.start = @ \ {a}] /\ on' \in {on, on \cup {a}}
    /\ UNCHANGED <<options, pc, loop, ctl, thread, sync, results, warned>>

LateStop(a) ==
    /\ a \in late.stop /\ late' = [late EXCEPT !.stop = @ \ {a}] /\ on' \in {on, on \ {a}}
    /\ UNCHANGED <<options, pc, loop, ctl, thread, sync, results, warned>>

Main ==
    \/ StartTracing \/ StartController \/ StartControllerFails \/ Started
    \/ StopTracing \/ Synchronised \/ StopController \/ StopControllerFails \/ Collected \/ Exit
    \/ \E a \in Agents :
          \/ StartAgent(a) \/ StartAgentTimesOut(a) \/ StartAgentRaises(a) \/ StartAgentHangs(a)
          \/ Sync(a) \/ SyncFails(a)
          \/ StopAgent(a) \/ StopAgentFails(a) \/ StopAgentRaises(a) \/ StopAgentHangs(a)
    \/ \E a \in Agents \cup {Controller} : Collect(a) \/ CollectTimesOut(a) \/ CollectRaises(a)

Collection(a) == ThreadStops(a) \/ ThreadEnds(a) \/ ThreadFails(a)

Next ==
    \/ Main
    \/ \E a \in Threaded : Collection(a)
    \/ \E a \in Agents : LateStart(a) \/ LateStop(a)

Spec == Init /\ [][Next]_vars

Stopping == ~inProgress /\ pc # "idle"

(* Once it has been asked to stop, the main thread goes on from each call  *)
(* that ends; that a call hangs is a step of its own.  The commands of a   *)
(* collection thread have the default timeouts of DeviceUtils, for it is   *)
(* no thread of timeout_retry.  The user need not stop the trace.          *)
Fairness == WF_vars(Stopping /\ Main) /\ \A a \in Threaded : WF_vars(Collection(a))
FairSpec == Spec /\ Fairness

-----------------------------------------------------------------------------
Places == {"idle", "startController", "start", "tracing", "sync", "stop", "collect",
           "done", "noResults", "raised", "hung", "syncHung", "exit", "exitDone"}

(* Types; only tracers trace, only what timed out can still arrive, after  *)
(* the user was told, and only what was given a timeout times out.         *)
TypeOK ==
    /\ options \subseteq Timeouts
    /\ pc \in Places
    /\ todo \subseteq Agents \cup {Controller} /\ (Controller \in todo => At("collect"))
    /\ inProgress \in BOOLEAN
    /\ child = None \/ child \subseteq Agents
    /\ succ \subseteq Agents /\ ctl \in {"off", "on", "closed"}
    /\ on \subseteq Tracers
    /\ late \in [start : SUBSET Agents, stop : SUBSET Agents]
    /\ late.start \subseteq Tracers /\ late.start \cup late.stop \subseteq warned
    /\ late.start \cup late.stop # {} => Given("timeout")
    /\ thread \in [Threaded -> {"none", "running", "stopped", "done", "failed"}]
    /\ log \subseteq Synced /\ marks \subseteq Synced
    /\ results \subseteq [agent : Agents \cup {Controller}, data : BOOLEAN]
    /\ warned \subseteq Agents \cup {Controller}

Complete(a) == Result(a, TRUE) \in results

(* A trace that is shown has what was asked for: each agent's result is in *)
(* it, with data, and the agent has stopped tracing; or the user was told. *)
NothingIsLostSilently ==
    pc \in {"done", "exitDone"}
        => \A a \in Agents : (Complete(a) /\ a \notin on) \/ a \in warned

(* Results can be put on one time line: for each agent with a clock of its *)
(* own the controller's trace has a marker, and the agent's trace has it   *)
(* too unless it is atrace, whose echo may fail without anyone noticing.   *)
ResultsAreSynced ==
    \A a \in Synced : Complete(a) /\ Complete(Controller) => a \in log /\ a \in marks \cup Echoed

(* Whatever agents time out, fail or raise, a stop that was asked for ends *)
(* the program, also one that finds no list of agents; but the device may  *)
(* hang on a clock sync, and on a stop that was given no timeout.          *)
StopEnds == Stopping ~> Exited \/ pc = "syncHung" \/ (pc = "hung" /\ ~Given("timeout"))
=============================================================================
