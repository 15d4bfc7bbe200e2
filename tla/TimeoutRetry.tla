--------------------------- MODULE TimeoutRetry ---------------------------
(***************************************************************************)
(* Timeouts and retries of devil (timeout_retry.py, reraiser_thread.py,    *)
(* watchdog_timer.py, decorators.py): one call of a decorated function.    *)
(* Every try runs the function on a thread of its own, watched by a timer. *)
(* When the timer expires the caller abandons the thread, which nobody can *)
(* kill, and starts the next try next to it.  An abandoned thread is only  *)
(* stopped by itself: WaitFor and adb commands look up the thread group    *)
(* that times the thread they run on, and refuse to go on without time.    *)
(* RunAsync splits the work of a try over workers, which find that group   *)
(* through the link StartAll(will_block=True) left in theirs.              *)
(***************************************************************************)
EXTENDS Naturals, FiniteSets

CONSTANTS Workers,    \* the functions one RunAsync runs
          Body,       \* the thread of the function itself
          Retries,    \* how often the function is tried again
          HasTimeout  \* FALSE: the timeout is None (or 0), time never runs out

ASSUME TimeoutRetryConstants ==
    /\ Body \notin Workers
    /\ Retries \in Nat
    /\ HasTimeout \in BOOLEAN

VARIABLES numTry,  \* the current try, 0 before the first
          caller,  \* what the calling thread is doing
          result,  \* what the call returned or raised, "none" before it has
          left,    \* [Tries -> time the try has left]
          thread,  \* [Tries -> [Body and Workers -> what the thread is doing]]
          linked   \* tries whose RunAsync group is linked to the timed group

vars == <<numTry, caller, result, left, thread, linked>>

Tries == 1..(Retries + 1)
Threads == {Body} \cup Workers

(* Left of the time: more than WaitFor's wait_period, less, or it is over. *)
Amounts == {"ample", "short", "over"}

(* TimeoutError, CommandTimeoutError, an error retry_if_func retries and   *)
(* one it does not; KeyError is what LogThreadStack may raise.             *)
Raised == {"timeout", "cmdtimeout", "error", "fatal"}
Finished == Raised \cup {"value"}
Working == {"run", "granted", "adb", "own", "sleep", "split"}

Init ==
    /\ numTry = 0 /\ caller = "start" /\ result = "none"
    /\ left = [a \in Tries |-> "ample"]
    /\ thread = [a \in Tries |-> [t \in Threads |-> "none"]]
    /\ linked = {}

Current(a) == a = numTry /\ caller \notin {"start", "done"}
Abandoned(a) == a <= numTry /\ ~Current(a)

-----------------------------------------------------------------------------
(* The calling thread: Run.                                                *)

Start ==
    /\ caller = "start"
    /\ numTry' = numTry + 1
    /\ thread' = [thread EXCEPT ![numTry + 1][Body] = "run"]
    /\ caller' = "check"
    /\ UNCHANGED <<result, left, linked>>

(* Mutant: the watchdog is not looked at.                                  *)
Check_NoWatchdog ==
    /\ caller = "check"
    /\ caller' = "join"
    /\ UNCHANGED <<numTry, result, left, thread, linked>>

(* _JoinAll looks at the watchdog, then joins the thread for 0.1 s; after  *)
(* 60 s Run calls it again.                                                *)
Check ==
    /\ caller = "check"
    /\ caller' = IF left[numTry] = "over" THEN "dump" ELSE "join"
    /\ UNCHANGED <<numTry, result, left, thread, linked>>

JoinAgain ==
    /\ caller = "join"
    /\ thread[numTry][Body] \notin Finished
    /\ caller' = "check"
    /\ UNCHANGED <<numTry, result, left, thread, linked>>

(* Mutant: one try too many.                                               *)
Handle_OneMore(error) ==
    /\ IF numTry > Retries + 1 \/ error = "fatal"
       THEN /\ caller' = "done"
            /\ result' = IF error = "timeout" THEN "cmdtimeout" ELSE error
       ELSE caller' = "start" /\ UNCHANGED result
    /\ UNCHANGED <<numTry, left, thread, linked>>

(* Run's except clauses, and what the decorator makes of a TimeoutError.   *)
Handle(error) ==
    /\ IF numTry > Retries \/ error = "fatal"
       THEN /\ caller' = "done"
            /\ result' = IF error = "timeout" THEN "cmdtimeout" ELSE error
       ELSE caller' = "start" /\ UNCHANGED result
    /\ UNCHANGED <<numTry, left, thread, linked>>

Return ==
    /\ caller = "join"
    /\ thread[numTry][Body] = "value"
    /\ caller' = "done" /\ result' = "value"
    /\ UNCHANGED <<numTry, left, thread, linked>>

Reraise ==
    /\ caller = "join"
    /\ thread[numTry][Body] \in Raised
    /\ Handle(thread[numTry][Body])

(* JoinAll dumps the stack of a thread it saw alive.  If the thread ends   *)
(* in between, its frame is gone and the lookup raises KeyError.           *)
Dump ==
    /\ caller = "dump"
    /\ IF thread[numTry][Body] \in Finished
       THEN Handle("timeout")
       ELSE caller' = "frames" /\ UNCHANGED <<numTry, result, left, thread, linked>>

DumpFrames ==
    /\ caller = "frames"
    /\ Handle(IF thread[numTry][Body] \in Finished THEN "keyerror" ELSE "timeout")

-----------------------------------------------------------------------------
(* Time passes for every try that was started, abandoned or not.           *)
TimePasses(a) ==
    /\ HasTimeout /\ a <= numTry
    /\ left[a] # "over"
    /\ left' = [left EXCEPT ![a] = IF @ = "ample" THEN "short" ELSE "over"]
    /\ UNCHANGED <<numTry, caller, result, thread, linked>>

-----------------------------------------------------------------------------
(* The threads of a try.                                                   *)

Becomes(a, t, s) ==
    /\ thread' = [thread EXCEPT ![a][t] = s]
    /\ UNCHANGED <<numTry, caller, result, left, linked>>

(* CurrentTimeoutThreadGroup finds the watched group of try a.             *)
Timed(a, t) == t = Body \/ a \in linked

(* Mutant: WaitFor sleeps without looking at the time.                     *)
Sleep_Unchecked(a, t) == thread[a][t] = "run" /\ Becomes(a, t, "sleep")

(* WaitFor, its condition not met: GetRemainingTime(wait_period), sleep.   *)
Sleep(a, t) ==
    /\ thread[a][t] = "run"
    /\ Becomes(a, t, IF Timed(a, t) /\ left[a] # "ample" THEN "timeout" ELSE "sleep")

Wake(a, t) == thread[a][t] = "sleep" /\ Becomes(a, t, "run")

(* Mutant: no time left is taken for no timeout.                           *)
AskForTime_NoneLeftIsNone(a, t) ==
    /\ thread[a][t] = "run"
    /\ Becomes(a, t, IF Timed(a, t) THEN "granted" ELSE "own")

(* A decorated adb command: on a timed thread it asks for the remaining    *)
(* time and runs with that as its timeout; on another, the decorator gives *)
(* it a Run of its own.  A refusal is raised, or caught by the function.   *)
AskForTime(a, t) ==
    /\ thread[a][t] = "run"
    /\ \/ ~Timed(a, t) /\ Becomes(a, t, "own")
       \/ Timed(a, t) /\ left[a] # "over" /\ Becomes(a, t, "granted")
       \/ Timed(a, t) /\ left[a] = "over" /\ Becomes(a, t, "cmdtimeout")

BeginAdb(a, t) == thread[a][t] = "granted" /\ Becomes(a, t, "adb")

EndAdb(a, t) ==
    /\ thread[a][t] \in {"adb", "own"}
    /\ \E s \in {"run", "error", "fatal", "cmdtimeout"} : Becomes(a, t, s)

(* The function returns or raises.                                         *)
Finish(a, t) ==
    /\ thread[a][t] = "run"
    /\ \E s \in {"value", "error", "fatal"} : Becomes(a, t, s)

(* Mutant: StartAll without will_block.                                    *)
Split_NotLinked(a) ==
    /\ thread[a][Body] = "run"
    /\ thread' = [thread EXCEPT ![a] =
                    [t \in Threads |-> IF t = Body THEN "split" ELSE "run"]]
    /\ UNCHANGED <<numTry, caller, result, left, linked>>

(* RunAsync: start the workers, wait for all of them, raise what the first *)
(* of them raised (or go on, if the function catches it).                  *)
Split(a) ==
    /\ thread[a][Body] = "run"
    /\ thread' = [thread EXCEPT ![a] =
                    [t \in Threads |-> IF t = Body THEN "split" ELSE "run"]]
    /\ linked' = linked \cup {a}
    /\ UNCHANGED <<numTry, caller, result, left>>

Unite(a) ==
    /\ thread[a][Body] = "split"
    /\ \A w \in Workers : thread[a][w] \in Finished
    /\ \E s \in {"run"} \cup {thread[a][w] : w \in Workers} :
         /\ s # "value"
         /\ thread' = [thread EXCEPT ![a] =
                      [t \in Threads |-> IF t = Body THEN s ELSE "none"]]
    /\ linked' = linked \ {a}
    /\ UNCHANGED <<numTry, caller, result, left>>

ThreadStep(a, t) ==
    \/ Sleep(a, t) \/ Wake(a, t)
    \/ AskForTime(a, t) \/ BeginAdb(a, t) \/ EndAdb(a, t)
    \/ Finish(a, t)

CallerStep ==
    \/ Start \/ Check \/ JoinAgain \/ Return \/ Reraise \/ Dump \/ DumpFrames

Next ==
    \/ CallerStep
    \/ \E a \in Tries :
         \/ TimePasses(a) \/ Split(a) \/ Unite(a)
         \/ \E t \in Threads : ThreadStep(a, t)

Spec == Init /\ [][Next]_vars

(* The caller's loop and the clock go on; a sleep ends and so does an adb  *)
(* command, which has a timeout.  What the function does between two such  *)
(* steps may take forever: nothing is assumed of it.                       *)
FairSpec ==
    /\ Spec
    /\ WF_vars(CallerStep)
    /\ \A a \in Tries :
         /\ WF_vars(TimePasses(a))
         /\ \A t \in Threads : WF_vars(Wake(a, t) \/ BeginAdb(a, t) \/ EndAdb(a, t))

-----------------------------------------------------------------------------
(* The type of the variables.                                              *)
TypeOK ==
    /\ numTry \in 0..(Retries + 1)
    /\ caller \in {"start", "check", "join", "dump", "frames", "done"}
    /\ result \in Finished \cup {"none", "keyerror"}
    /\ left \in [Tries -> Amounts]
    /\ thread \in [Tries -> [Threads -> Working \cup Finished \cup {"none"}]]
    /\ linked \in SUBSET Tries

(* A try is repeated only if it failed or its time was over: the caller    *)
(* gives up on nothing else.  (A try that succeeds while the caller is     *)
(* between two looks at it may well be repeated.)                          *)
RepeatedForAReason ==
    \A a \in Tries :
      a < numTry => thread[a][Body] \in Raised \ {"fatal"} \/ left[a] = "over"

(* The work of a try is timed by its watchdog, whichever thread does it:   *)
(* no command is given a retry loop of its own inside the loop of the try. *)
EveryCommandIsTimed ==
    \A a \in Tries, t \in Threads : thread[a][t] # "own"

(* Once the caller has given up on a try, or has returned, no thread of it *)
(* is granted another adb command or goes to sleep in WaitFor.             *)
AbandonedTriesAreRefused ==
    [][\A a \in Tries, t \in Threads :
         /\ Abandoned(a)
         /\ thread'[a][t] \in {"granted", "sleep"}
         => thread[a][t] = thread'[a][t]]_vars

(* No thread of a try survives the function itself: RunAsync waits for all *)
(* of them before it raises.                                               *)
WorkersEndFirst ==
    \A a \in Tries : thread[a][Body] # "split" =>
      \A w \in Workers : thread[a][w] = "none"

(* With a timeout the call returns or raises, whatever the function does.  *)
CallEnds == HasTimeout => <>(caller = "done")

(* When it has, the device is eventually left alone by all tries.          *)
DeviceIsLeftAlone ==
    caller = "done" ~>
      [](\A a \in Tries, t \in Threads : thread[a][t] \notin {"granted", "adb", "sleep"})

(* The tests say that a function that runs out of time ends in a           *)
(* CommandTimeoutError; at the least, that a call raises nothing but that  *)
(* and what the function itself raises.                                    *)
RaisesNothingElse == result # "keyerror"
=============================================================================
