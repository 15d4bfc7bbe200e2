--------------------------- MODULE Tracing_proofs ---------------------------
(***************************************************************************)
(* Proofs about Tracing, for any set of agents.                            *)
(***************************************************************************)
EXTENDS Tracing, TLAPS

(* What is true of an agent the user was not told of: the loops either     *)
(* have it still before them or have done their work on it, and it is off  *)
(* once it was stopped.                                                    *)
Listed(a) ==
    /\ pc = "startController" => a \in todo
    /\ pc \in {"start", "stop"} => a \in todo \cup succ
    /\ pc = "tracing" /\ child # None => a \in child
    /\ pc = "sync" => a \in child
    /\ pc = "collect" => a \in todo \/ Complete(a)
    /\ pc \in {"done", "exitDone"} => Complete(a)

Stopped(a) ==
    /\ pc \in {"stop", "collect"} /\ a \in succ /\ a \notin Threaded => a \notin on
    /\ pc = "collect" /\ a \in todo => a \in succ
    /\ a \in Threaded => /\ thread[a] \in {"stopped", "done"} => a \notin on
                         /\ thread[a] # "failed"
                         /\ pc \in {"idle", "startController", "start"} => thread[a] = "none"
    /\ pc = "stop" /\ a \in Threaded /\ a \in todo => a \notin succ /\ thread[a] = "none"
    /\ Complete(a) => a \notin on

FateInv == \A a \in Agents : a \notin warned => Listed(a) /\ Stopped(a)

(* The controller has a's marker, and so has a unless nobody could tell.   *)
InSync(a) == a \in log /\ a \in marks \cup Echoed

(* Which agents have been synced, and what is empty still.                 *)
SyncInv ==
    /\ pc \in {"start", "sync", "stop"} => ctl = "on"
    /\ pc = "tracing" /\ child # None => ctl = "on"
    /\ pc \in {"sync", "stop"} => child # None
    /\ pc \in {"idle", "startController"} => child = None
    /\ pc = "sync" => todo \subseteq child /\ succ = {}
    /\ pc = "sync" => \A a \in child \cap Synced : a \in todo \/ InSync(a)
    /\ pc = "stop" => /\ todo \cup succ \subseteq child /\ todo \cap succ = {}
                      /\ \A a \in child \cap Synced : InSync(a)
    /\ pc = "collect" => \A a \in todo \cap Synced : InSync(a)
    /\ pc \in {"idle", "startController", "start", "tracing", "sync", "stop"} => results = {}
    /\ \A a \in Synced : Complete(a) => InSync(a)

(* A collection starts once.                                               *)
ThreadInv ==
    \A a \in Threaded :
       /\ pc \in {"idle", "startController", "start", "tracing", "sync"} => thread[a] = "none"
       /\ pc = "stop" /\ a \in todo => thread[a] = "none"

IInv == TypeOK /\ FateInv /\ SyncInv /\ ThreadInv

USE TracingConstants DEF None, Controller, Given, Timeouts, InSync, Mark

LEMMA InitInv == Init => IInv
<1> HAVE Init
<1> USE DEF Init
<1>1. TypeOK
  BY DEF TypeOK, At, Places
<1>2. FateInv
  BY DEF FateInv, Listed, Stopped, Complete
<1>3. SyncInv /\ ThreadInv
  BY DEF SyncInv, ThreadInv, Complete
<1> QED BY <1>1, <1>2, <1>3 DEF IInv

LEMMA TypeStep == IInv /\ [Next]_vars => TypeOK'
<1> SUFFICES ASSUME IInv, [Next]_vars, TypeOK PROVE TypeOK'
  BY DEF IInv
<1> USE DEF TypeOK, At, Loop, RaiseError, Partly, Places, loop, device, sync
<1>1. CASE UNCHANGED vars
  BY <1>1 DEF vars
<1>2. CASE StartTracing \/ StartController \/ StartControllerFails \/ Started \/ StopTracing
  BY <1>2 DEF StartTracing, StartController, StartControllerFails, Started, StopTracing
<1>3. CASE Synchronised \/ StopController \/ StopControllerFails \/ Collected \/ Exit
  <2>1. CASE Synchronised
    BY <2>1 DEF Synchronised, IInv, SyncInv
  <2>3. CASE Collected \/ Exit
    BY <2>3 DEF Collected, Exit
  <2>2. CASE StopController \/ StopControllerFails
    BY <2>2 DEF StopController, StopControllerFails
  <2> QED BY <1>3, <2>1, <2>2, <2>3
<1>4. ASSUME NEW a \in Agents, StartAgent(a) \/ StartAgentTimesOut(a) \/ StartAgentRaises(a) \/ StartAgentHangs(a)
      PROVE  TypeOK'
  <2>1. CASE StartAgent(a)
    BY <2>1 DEF StartAgent
  <2>3. CASE StartAgentRaises(a) \/ StartAgentHangs(a)
    BY <2>3 DEF StartAgentRaises, StartAgentHangs
  <2>2. CASE StartAgentTimesOut(a)
    BY <2>2 DEF StartAgentTimesOut
  <2> QED BY <1>4, <2>1, <2>2, <2>3
<1>5. ASSUME NEW a \in Agents, Sync(a) \/ SyncFails(a) PROVE TypeOK'
  <2>1. CASE Sync(a)
    BY <2>1 DEF Sync
  <2>2. CASE SyncFails(a)
    BY <2>2 DEF SyncFails
  <2> QED BY <1>5, <2>1, <2>2
<1>6. ASSUME NEW a \in Agents, StopAgent(a) \/ StopAgentFails(a) \/ StopAgentRaises(a) \/ StopAgentHangs(a)
      PROVE  TypeOK'
  <2>1. CASE StopAgent(a)
    BY <2>1 DEF StopAgent
  <2>2. CASE StopAgentFails(a)
    BY <2>2 DEF StopAgentFails
  <2>3. CASE StopAgentRaises(a) \/ StopAgentHangs(a)
    BY <2>3 DEF StopAgentRaises, StopAgentHangs
  <2> QED BY <1>6, <2>1, <2>2, <2>3
<1>7. ASSUME NEW a \in Agents \cup {Controller},
             Collect(a) \/ CollectTimesOut(a) \/ CollectRaises(a)
      PROVE  TypeOK'
  <2>1. CASE Collect(a)
    <3>1. Result(a, a \in Threaded => thread[a] = "done")
             \in [agent : Agents \cup {Controller}, data : BOOLEAN]
      BY DEF Result
    <3>2. results' \subseteq [agent : Agents \cup {Controller}, data : BOOLEAN]
      BY <2>1, <3>1 DEF Collect
    <3>3. /\ pc' = "collect" /\ todo' = todo \ {a} /\ todo \subseteq Agents \cup {Controller}
          /\ UNCHANGED <<options, inProgress, child, succ, ctl, device, sync, warned>>
      BY <2>1 DEF Collect
    <3> QED BY <3>2, <3>3
  <2>2. CASE CollectTimesOut(a) \/ CollectRaises(a)
    BY <2>2 DEF CollectTimesOut, CollectRaises
  <2> QED BY <1>7, <2>1, <2>2
<1>8. ASSUME NEW a \in Threaded, Collection(a) PROVE TypeOK'
  <2>1. CASE ThreadStops(a)
    BY <2>1 DEF ThreadStops
  <2>2. CASE ThreadEnds(a)
    BY <2>2 DEF ThreadEnds
  <2>3. CASE ThreadFails(a)
    BY <2>3 DEF ThreadFails
  <2> QED BY <1>8, <2>1, <2>2, <2>3 DEF Collection
<1>9. ASSUME NEW a \in Agents, LateStart(a) \/ LateStop(a) PROVE TypeOK'
  <2>1. CASE LateStart(a)
    BY <2>1 DEF LateStart
  <2>2. CASE LateStop(a)
    BY <2>2 DEF LateStop
  <2> QED BY <1>9, <2>1, <2>2
<1> QED BY <1>1, <1>2, <1>3, <1>4, <1>5, <1>6, <1>7, <1>8, <1>9 DEF Next, Main

LEMMA ThreadStep == IInv /\ [Next]_vars => ThreadInv'
<1> SUFFICES ASSUME IInv, [Next]_vars PROVE ThreadInv'
  BY DEF IInv
<1> USE DEF IInv, TypeOK, At, Loop, RaiseError, Partly, loop, device, sync,
        Complete, Result, Listed, Stopped, FateInv, SyncInv, ThreadInv
<1>1. CASE UNCHANGED vars
  BY <1>1 DEF vars
<1>2. CASE StartTracing
  BY <1>2 DEF StartTracing
<1>3. CASE StartController \/ StartControllerFails \/ Started
  BY <1>3 DEF StartController, StartControllerFails, Started
<1>4. CASE StopTracing
  BY <1>4 DEF StopTracing
<1>5. CASE Synchronised \/ Collected \/ Exit
  BY <1>5 DEF Synchronised, Collected, Exit
<1>6. CASE StopController
  BY <1>6 DEF StopController
<1>7. CASE StopControllerFails
  BY <1>7 DEF StopControllerFails
<1>8. ASSUME NEW b \in Agents, StartAgent(b) PROVE ThreadInv'
  BY <1>8 DEF StartAgent
<1>9. ASSUME NEW b \in Agents, StartAgentTimesOut(b) PROVE ThreadInv'
  BY <1>9 DEF StartAgentTimesOut
<1>10. ASSUME NEW b \in Agents, StartAgentRaises(b) \/ StartAgentHangs(b)
       PROVE ThreadInv'
  BY <1>10 DEF StartAgentRaises, StartAgentHangs
<1>11. ASSUME NEW b \in Agents, Sync(b) PROVE ThreadInv'
  BY <1>11 DEF Sync
<1>12. ASSUME NEW b \in Agents, SyncFails(b) PROVE ThreadInv'
  BY <1>12 DEF SyncFails
<1>13. ASSUME NEW b \in Agents, StopAgent(b) PROVE ThreadInv'
  BY <1>13 DEF StopAgent
<1>14. ASSUME NEW b \in Agents, StopAgentFails(b) PROVE ThreadInv'
  BY <1>14 DEF StopAgentFails
<1>15. ASSUME NEW b \in Agents, StopAgentRaises(b) \/ StopAgentHangs(b)
       PROVE ThreadInv'
  BY <1>15 DEF StopAgentRaises, StopAgentHangs
<1>16. ASSUME NEW b \in Agents \cup {Controller}, Collect(b) PROVE ThreadInv'
  BY <1>16 DEF Collect
<1>17. ASSUME NEW b \in Agents \cup {Controller}, CollectTimesOut(b) \/ CollectRaises(b)
       PROVE ThreadInv'
  BY <1>17 DEF CollectTimesOut, CollectRaises
<1>18. ASSUME NEW b \in Threaded, ThreadStops(b) \/ ThreadEnds(b) \/ ThreadFails(b)
       PROVE ThreadInv'
  BY <1>18 DEF ThreadStops, ThreadEnds, ThreadFails
<1>19. ASSUME NEW b \in Agents, LateStart(b) \/ LateStop(b) PROVE ThreadInv'
  BY <1>19 DEF LateStart, LateStop
<1> QED BY <1>1, <1>2, <1>3, <1>4, <1>5, <1>6, <1>7, <1>8, <1>9, <1>10, <1>11,
           <1>12, <1>13, <1>14, <1>15, <1>16, <1>17, <1>18, <1>19 DEF Next,
           Main, Collection

LEMMA SyncStep == IInv /\ [Next]_vars => SyncInv'
<1> SUFFICES ASSUME IInv, [Next]_vars PROVE SyncInv'
  BY DEF IInv
<1> USE DEF IInv, TypeOK, At, Loop, RaiseError, Partly, loop, device, sync,
        Complete, Result, Listed, Stopped, FateInv, SyncInv, ThreadInv
<1>1. CASE UNCHANGED vars
  BY <1>1 DEF vars
<1>2. CASE StartTracing
  BY <1>2 DEF StartTracing
<1>3. CASE StartController \/ StartControllerFails \/ Started
  BY <1>3 DEF StartController, StartControllerFails, Started
<1>4. CASE StopTracing
  BY <1>4 DEF StopTracing
<1>5. CASE Synchronised \/ Collected \/ Exit
  BY <1>5 DEF Synchronised, Collected, Exit
<1>6. CASE StopController
  BY <1>6 DEF StopController
<1>7. CASE StopControllerFails
  BY <1>7 DEF StopControllerFails
<1>8. ASSUME NEW b \in Agents, StartAgent(b) PROVE SyncInv'
  BY <1>8 DEF StartAgent
<1>9. ASSUME NEW b \in Agents, StartAgentTimesOut(b) PROVE SyncInv'
  BY <1>9 DEF StartAgentTimesOut
<1>10. ASSUME NEW b \in Agents, StartAgentRaises(b) \/ StartAgentHangs(b)
       PROVE SyncInv'
  BY <1>10 DEF StartAgentRaises, StartAgentHangs
<1>11. ASSUME NEW b \in Agents, Sync(b) PROVE SyncInv'
  BY <1>11 DEF Sync
<1>12. ASSUME NEW b \in Agents, SyncFails(b) PROVE SyncInv'
  BY <1>12 DEF SyncFails
<1>13. ASSUME NEW b \in Agents, StopAgent(b) PROVE SyncInv'
  BY <1>13 DEF StopAgent
<1>14. ASSUME NEW b \in Agents, StopAgentFails(b) PROVE SyncInv'
  BY <1>14 DEF StopAgentFails
<1>15. ASSUME NEW b \in Agents, StopAgentRaises(b) \/ StopAgentHangs(b)
       PROVE SyncInv'
  BY <1>15 DEF StopAgentRaises, StopAgentHangs
<1>16. ASSUME NEW b \in Agents \cup {Controller}, Collect(b) PROVE SyncInv'
  BY <1>16 DEF Collect
<1>17. ASSUME NEW b \in Agents \cup {Controller}, CollectTimesOut(b) \/ CollectRaises(b)
       PROVE SyncInv'
  BY <1>17 DEF CollectTimesOut, CollectRaises
<1>18. ASSUME NEW b \in Threaded, ThreadStops(b) \/ ThreadEnds(b) \/ ThreadFails(b) PROVE SyncInv'
  BY <1>18 DEF ThreadStops, ThreadEnds, ThreadFails
<1>19. ASSUME NEW b \in Agents, LateStart(b) \/ LateStop(b) PROVE SyncInv'
  BY <1>19 DEF LateStart, LateStop
<1> QED BY <1>1, <1>2, <1>3, <1>4, <1>5, <1>6, <1>7, <1>8, <1>9, <1>10, <1>11,
           <1>12, <1>13, <1>14, <1>15, <1>16, <1>17, <1>18, <1>19 DEF Next,
           Main, Collection

LEMMA FateStep == IInv /\ [Next]_vars => FateInv'
<1> SUFFICES ASSUME IInv, [Next]_vars, NEW a \in Agents, a \notin warned'
             PROVE (Listed(a) /\ Stopped(a))'
  BY DEF FateInv
<1> USE DEF IInv, TypeOK, At, Loop, RaiseError, Partly, loop, device, sync,
        Complete, Result, Listed, Stopped, FateInv, SyncInv, ThreadInv
<1>1. CASE UNCHANGED vars
  BY <1>1 DEF vars
<1>2. CASE StartTracing
  BY <1>2 DEF StartTracing
<1>3. CASE StartController \/ StartControllerFails \/ Started
  BY <1>3 DEF StartController, StartControllerFails, Started
<1>4. CASE StopTracing
  BY <1>4 DEF StopTracing
<1>5. CASE Synchronised \/ Collected \/ Exit
  BY <1>5 DEF Synchronised, Collected, Exit
<1>6. CASE StopController
  BY <1>6 DEF StopController
<1>7. CASE StopControllerFails
  BY <1>7 DEF StopControllerFails
<1>8. ASSUME NEW b \in Agents, StartAgent(b) PROVE (Listed(a) /\ Stopped(a))'
  BY <1>8 DEF StartAgent
<1>9. ASSUME NEW b \in Agents, StartAgentTimesOut(b) PROVE (Listed(a) /\ Stopped(a))'
  BY <1>9 DEF StartAgentTimesOut
<1>10. ASSUME NEW b \in Agents, StartAgentRaises(b) \/ StartAgentHangs(b)
       PROVE (Listed(a) /\ Stopped(a))'
  BY <1>10 DEF StartAgentRaises, StartAgentHangs
<1>11. ASSUME NEW b \in Agents, Sync(b) PROVE (Listed(a) /\ Stopped(a))'
  BY <1>11 DEF Sync
<1>12. ASSUME NEW b \in Agents, SyncFails(b) PROVE (Listed(a) /\ Stopped(a))'
  BY <1>12 DEF SyncFails
<1>13. ASSUME NEW b \in Agents, StopAgent(b) PROVE (Listed(a) /\ Stopped(a))'
  BY <1>13 DEF StopAgent
<1>14. ASSUME NEW b \in Agents, StopAgentFails(b) PROVE (Listed(a) /\ Stopped(a))'
  BY <1>14 DEF StopAgentFails
<1>15. ASSUME NEW b \in Agents, StopAgentRaises(b) \/ StopAgentHangs(b)
       PROVE (Listed(a) /\ Stopped(a))'
  BY <1>15 DEF StopAgentRaises, StopAgentHangs
<1>16. ASSUME NEW b \in Agents \cup {Controller}, Collect(b) PROVE (Listed(a) /\ Stopped(a))'
  BY <1>16 DEF Collect
<1>17. ASSUME NEW b \in Agents \cup {Controller}, CollectTimesOut(b) \/ CollectRaises(b)
       PROVE (Listed(a) /\ Stopped(a))'
  BY <1>17 DEF CollectTimesOut, CollectRaises
<1>18. ASSUME NEW b \in Threaded, ThreadStops(b) \/ ThreadEnds(b) \/ ThreadFails(b)
       PROVE (Listed(a) /\ Stopped(a))'
  BY <1>18 DEF ThreadStops, ThreadEnds, ThreadFails
<1>19. ASSUME NEW b \in Agents, LateStart(b) \/ LateStop(b) PROVE (Listed(a) /\ Stopped(a))'
  BY <1>19 DEF LateStart, LateStop
<1> QED BY <1>1, <1>2, <1>3, <1>4, <1>5, <1>6, <1>7, <1>8, <1>9, <1>10, <1>11,
           <1>12, <1>13, <1>14, <1>15, <1>16, <1>17, <1>18, <1>19 DEF Next,
           Main, Collection

LEMMA SpecInv == Spec => []IInv
<1>1. IInv /\ [Next]_vars => IInv'
  BY TypeStep, FateStep, SyncStep, ThreadStep DEF IInv
<1> QED BY InitInv, <1>1, PTL DEF Spec

(* Whatever agents time out, raise or answer late: every variable keeps    *)
(* its type, and only calls that timed out can still change the device.    *)
THEOREM TracingTypeOK == Spec => []TypeOK
<1>1. IInv => TypeOK
  BY DEF IInv
<1> QED BY SpecInv, <1>1, PTL

(* For any agents: a trace that is shown has the whole result of each that *)
(* the user was not told of, and that agent no longer traces.              *)
THEOREM TracingNothingIsLostSilently == Spec => []NothingIsLostSilently
<1>1. IInv => NothingIsLostSilently
  BY DEF IInv, FateInv, Listed, Stopped, NothingIsLostSilently
<1> QED BY SpecInv, <1>1, PTL

(* For any agents: when both results are complete the controller's trace   *)
(* has a marker of every agent with a clock of its own, and so has that    *)
(* agent's trace unless it is written by an echo nobody checks.            *)
THEOREM TracingResultsAreSynced == Spec => []ResultsAreSynced
<1>1. IInv => ResultsAreSynced
  BY DEF IInv, SyncInv, ResultsAreSynced
<1> QED BY SpecInv, <1>1, PTL
=============================================================================
