------------------------ MODULE TimeoutRetry_proofs ------------------------
(***************************************************************************)
(* Proofs about TimeoutRetry, for any number of retries and of workers.    *)
(***************************************************************************)
EXTENDS TimeoutRetry, TLAPS

(* Where the caller is and what it knows of the current try.               *)
CallerInv ==
    /\ caller = "start" => numTry <= Retries
    /\ caller # "start" => numTry >= 1
    /\ caller \in {"dump", "frames"} => left[numTry] = "over"

(* What the caller has given up on has ended or has no time left; what it  *)
(* repeats has not ended well.                                             *)
TriesInv ==
    \A a \in Tries :
      /\ a > numTry => \A t \in Threads : thread[a][t] = "none"
      /\ Abandoned(a) => thread[a][Body] \in Finished \/ left[a] = "over"
      /\ Abandoned(a) /\ caller # "done" =>
           thread[a][Body] \in Raised \ {"fatal"} \/ left[a] = "over"
      /\ a < numTry =>
           thread[a][Body] \in Raised \ {"fatal"} \/ left[a] = "over"

(* Workers are there only while the function waits for them, and then they *)
(* are linked to the timed group.                                          *)
WorkInv ==
    \A a \in Tries :
      /\ thread[a][Body] = "split" => a \in linked
      /\ thread[a][Body] # "split" => \A w \in Workers : thread[a][w] = "none"
      /\ \A t \in Threads : thread[a][t] # "own"

Inv == TypeOK /\ CallerInv /\ TriesInv /\ WorkInv

-----------------------------------------------------------------------------
(* Where in its tries the caller is, in terms of the constants.            *)
LEMMA TriesFacts ==
    /\ Retries \in Nat
    /\ \A a \in Tries : a \in Nat /\ a >= 1 /\ a <= Retries + 1
    /\ \A a \in Nat : a >= 1 /\ a <= Retries + 1 => a \in Tries
    /\ Body \in Threads /\ Workers \subseteq Threads
    /\ \A t \in Threads : t # Body => t \in Workers
BY TimeoutRetryConstants DEF Tries, Threads

LEMMA InitInv == Init => Inv
<1> HAVE Init
<1>1. TypeOK
  BY TriesFacts DEF Init, TypeOK, Amounts
<1>2. CallerInv
  BY TriesFacts DEF Init, CallerInv
<1>3. TriesInv
  BY TriesFacts DEF Init, TriesInv, Abandoned, Current
<1>4. WorkInv
  BY TriesFacts DEF Init, WorkInv
<1> QED BY <1>1, <1>2, <1>3, <1>4 DEF Inv

-----------------------------------------------------------------------------
(* How a try is given up: in an error that ends the call, or to be retried.*)
LEMMA HandleInv ==
    ASSUME Inv, NEW error \in Raised \cup {"keyerror"}, Handle(error),
           caller \in {"join", "dump", "frames"},
           \/ thread[numTry][Body] \in Finished /\ thread[numTry][Body] = error
           \/ left[numTry] = "over" /\ error # "fatal"
    PROVE  Inv'
<1> USE DEF Inv
<1>1. numTry \in Tries
  BY TriesFacts DEF CallerInv, TypeOK
<1>2. UNCHANGED <<numTry, left, thread, linked>> /\ caller' \in {"start", "done"}
  BY DEF Handle
<1>3. TypeOK'
  BY <1>2 DEF TypeOK, Handle, Finished, Raised
<1>4. CallerInv'
  BY <1>1, <1>2, TriesFacts DEF CallerInv, Handle, TypeOK
<1>5. TriesInv'
  <2> SUFFICES ASSUME NEW a \in Tries PROVE TriesInv!(a)'
    BY DEF TriesInv
  <2>1. a > numTry' => \A t \in Threads : thread'[a][t] = "none"
    BY <1>2 DEF TriesInv
  <2>2. caller' = "start" => error # "fatal"
    BY DEF Handle
  <2>3. a = numTry => /\ thread[a][Body] \in Finished \/ left[a] = "over"
                      /\ caller' = "start" =>
                           thread[a][Body] \in Raised \ {"fatal"} \/ left[a] = "over"
    BY <2>2, <1>1 DEF Finished, Raised
  <2>4. a < numTry => thread[a][Body] \in Raised \ {"fatal"} \/ left[a] = "over"
    BY DEF TriesInv
  <2>5. a <= numTry => a < numTry \/ a = numTry
    BY TriesFacts, <1>1
  <2>6. Raised \ {"fatal"} \subseteq Finished
    BY DEF Finished
  <2>7. (Abandoned(a) => thread[a][Body] \in Finished \/ left[a] = "over")'
    BY <1>2, <2>3, <2>4, <2>5, <2>6 DEF Abandoned
  <2>8. (Abandoned(a) /\ caller # "done" =>
           thread[a][Body] \in Raised \ {"fatal"} \/ left[a] = "over")'
    BY <1>2, <2>3, <2>4, <2>5 DEF Abandoned
  <2> QED BY <1>2, <2>1, <2>4, <2>7, <2>8
<1>6. WorkInv'
  BY <1>2 DEF WorkInv
<1> QED BY <1>3, <1>4, <1>5, <1>6

(* The caller's steps preserve the invariant.                              *)
LEMMA CallerStepInv == ASSUME Inv, CallerStep PROVE Inv'
<1> USE DEF Inv
<1>1. CASE Start
  <2>1. numTry + 1 \in Tries /\ numTry' = numTry + 1 /\ caller' = "check"
    BY <1>1, TriesFacts DEF Start, CallerInv, TypeOK
  <2>2. /\ UNCHANGED <<result, left, linked>>
        /\ thread' = [thread EXCEPT ![numTry + 1][Body] = "run"]
    BY <1>1 DEF Start
  <2>3. TypeOK'
    BY <2>1, <2>2, TriesFacts DEF TypeOK, Working, Tries
  <2>4. CallerInv'
    BY <2>1, <2>2, TriesFacts DEF CallerInv, TypeOK
  <2>5. \A a \in Tries : a # numTry + 1 => thread'[a] = thread[a]
    BY <2>2 DEF TypeOK
  <2>6. \A t \in Threads : t # Body => thread'[numTry + 1][t] = "none"
    BY <2>1, <2>2, TriesFacts DEF TypeOK, TriesInv
  <2>7. thread'[numTry + 1][Body] = "run"
    BY <2>1, <2>2, TriesFacts DEF TypeOK
  <2>8. TriesInv'
    <3> SUFFICES ASSUME NEW a \in Tries PROVE TriesInv!(a)'
      BY DEF TriesInv
    <3>1. CASE a > numTry'
      <4>1. thread'[a] = thread[a] /\ a > numTry /\ ~Abandoned(a)'
        BY <3>1, <2>1, <2>5, TriesFacts DEF TypeOK, Abandoned
      <4> QED BY <3>1, <4>1, <2>1, TriesFacts DEF TriesInv, TypeOK
    <3>2. CASE a = numTry'
      BY <3>2, <2>1, TriesFacts DEF Abandoned, Current, TypeOK
    <3>3. CASE a < numTry'
      <4>1. thread'[a] = thread[a] /\ Abandoned(a) /\ caller # "done"
        BY <3>3, <1>1, <2>1, <2>5, TriesFacts DEF TypeOK, Abandoned, Current, Start
      <4>2. thread'[a][Body] \in Raised \ {"fatal"} \/ left'[a] = "over"
        BY <4>1, <2>2 DEF TriesInv
      <4> QED BY <3>3, <4>2, TriesFacts, <2>1 DEF Finished, TypeOK
    <3> QED BY <3>1, <3>2, <3>3, <2>1, TriesFacts DEF TypeOK
  <2>9. WorkInv'
    <3> SUFFICES ASSUME NEW a \in Tries PROVE WorkInv!(a)'
      BY DEF WorkInv
    <3>1. CASE a = numTry + 1
      BY <3>1, <2>6, <2>7, TimeoutRetryConstants, TriesFacts DEF Threads
    <3>2. CASE a # numTry + 1
      BY <3>2, <2>2, <2>5 DEF WorkInv
    <3> QED BY <3>1, <3>2
  <2> QED BY <2>3, <2>4, <2>8, <2>9
<1>2. CASE Check \/ JoinAgain
  <2>1. /\ UNCHANGED <<numTry, result, left, thread, linked>>
        /\ caller \in {"check", "join"} /\ caller' \in {"check", "join", "dump"}
        /\ caller' = "dump" => left[numTry] = "over"
    BY <1>2 DEF Check, JoinAgain
  <2>2. TypeOK' /\ CallerInv' /\ WorkInv'
    BY <2>1 DEF TypeOK, CallerInv, WorkInv
  <2>3. \A a \in Tries : Abandoned(a)' <=> Abandoned(a)
    BY <2>1 DEF Abandoned, Current
  <2>4. TriesInv'
    BY <2>1, <2>3 DEF TriesInv
  <2> QED BY <2>2, <2>4
<1>3. CASE Return
  <2>1. /\ UNCHANGED <<numTry, left, thread, linked>>
        /\ caller = "join" /\ caller' = "done" /\ result' = "value"
        /\ thread[numTry][Body] = "value"
    BY <1>3 DEF Return
  <2>2. TypeOK' /\ CallerInv' /\ WorkInv'
    BY <2>1 DEF TypeOK, CallerInv, WorkInv, Finished
  <2>3. \A a \in Tries : Abandoned(a)' => Abandoned(a) \/ a = numTry
    BY <2>1 DEF Abandoned, Current
  <2>4. TriesInv'
    BY <2>1, <2>3 DEF TriesInv, Finished
  <2> QED BY <2>2, <2>4
<1>4. CASE Reraise
  BY <1>4, HandleInv DEF Reraise, Finished
<1>5. CASE Dump
  <2>1. left[numTry] = "over"
    BY <1>5 DEF Dump, CallerInv
  <2>2. CASE thread[numTry][Body] \in Finished
    BY <1>5, <2>1, <2>2, HandleInv DEF Dump, Raised
  <2>3. CASE thread[numTry][Body] \notin Finished
    <3>1. /\ UNCHANGED <<numTry, result, left, thread, linked>>
          /\ caller = "dump" /\ caller' = "frames"
      BY <1>5, <2>3 DEF Dump
    <3>2. TypeOK' /\ CallerInv' /\ WorkInv'
      BY <3>1, <2>1 DEF TypeOK, CallerInv, WorkInv
    <3>3. \A a \in Tries : Abandoned(a)' <=> Abandoned(a)
      BY <3>1 DEF Abandoned, Current
    <3>4. TriesInv'
      BY <3>1, <3>3 DEF TriesInv
    <3> QED BY <3>2, <3>4
  <2> QED BY <2>2, <2>3
<1>6. CASE DumpFrames
  <2>1. left[numTry] = "over"
    BY <1>6 DEF DumpFrames, CallerInv
  <2>2. PICK error \in {"keyerror", "timeout"} : Handle(error)
    BY <1>6 DEF DumpFrames
  <2> QED BY <1>6, <2>1, <2>2, HandleInv DEF DumpFrames, Raised
<1> QED BY <1>1, <1>2, <1>3, <1>4, <1>5, <1>6 DEF CallerStep

-----------------------------------------------------------------------------
(* A thread that changes its own state and nothing else: not from a state  *)
(* that ends it, nor into one only RunAsync brings about.                  *)
LEMMA BecomesInv ==
    ASSUME Inv, NEW a \in Tries, NEW t \in Threads,
           NEW s \in (Working \ {"own", "split"}) \cup Finished,
           Becomes(a, t, s), thread[a][t] \notin Finished \cup {"none", "split"}
    PROVE  Inv'
<1> USE DEF Inv
<1>1. /\ UNCHANGED <<numTry, caller, result, left, linked>>
      /\ thread' = [thread EXCEPT ![a][t] = s]
  BY DEF Becomes
<1>2. /\ thread'[a][t] = s
      /\ \A b \in Tries, u \in Threads :
           b # a \/ u # t => thread'[b][u] = thread[b][u]
  BY <1>1 DEF TypeOK
<1>3. TypeOK' /\ CallerInv'
  BY <1>1 DEF TypeOK, CallerInv
<1>4. \A b \in Tries : Abandoned(b)' <=> Abandoned(b)
  BY <1>1 DEF Abandoned, Current
<1>5. a <= numTry
  BY TriesFacts DEF TriesInv, TypeOK
<1>6. t = Body => thread[a][Body] \notin Raised \cup Finished
  BY DEF Finished
<1>7. TriesInv'
  <2> SUFFICES ASSUME NEW b \in Tries PROVE TriesInv!(b)'
    BY DEF TriesInv
  <2>1. b > numTry => \A u \in Threads : thread'[b][u] = "none"
    BY <1>2, <1>5, TriesFacts DEF TriesInv, TypeOK
  <2>2. b # a \/ t # Body => thread'[b][Body] = thread[b][Body]
    BY <1>2, TriesFacts
  <2>3. b = a /\ t = Body => ~Abandoned(b) \/ left[b] = "over"
    BY <1>6 DEF TriesInv
  <2>4. b = a /\ t = Body /\ b < numTry => left[b] = "over"
    BY <1>6 DEF TriesInv
  <2> QED BY <1>1, <1>4, <2>1, <2>2, <2>3, <2>4 DEF TriesInv
<1>8. WorkInv'
  <2> SUFFICES ASSUME NEW b \in Tries PROVE WorkInv!(b)'
    BY DEF WorkInv
  <2>1. thread'[b][Body] = "split" <=> thread[b][Body] = "split"
    BY <1>2, TriesFacts DEF Finished, Raised, Working
  <2>2. thread[b][Body] # "split" => \A w \in Workers : thread'[b][w] = "none"
    <3> SUFFICES ASSUME thread[b][Body] # "split", NEW w \in Workers
                 PROVE  thread'[b][w] = "none"
      OBVIOUS
    <3>1. thread[b][w] = "none"
      BY DEF WorkInv
    <3>2. b # a \/ w # t
      BY <3>1
    <3> QED BY <3>1, <3>2, <1>2, TriesFacts
  <2>3. \A u \in Threads : thread'[b][u] # "own"
    BY <1>2 DEF WorkInv, Finished, Raised, Working
  <2> QED BY <1>1, <2>1, <2>2, <2>3 DEF WorkInv
<1> QED BY <1>3, <1>7, <1>8

(* A thread that runs is timed: it is the function's or a linked worker.   *)
LEMMA RunningIsTimed ==
    ASSUME Inv, NEW a \in Tries, NEW t \in Threads, thread[a][t] # "none"
    PROVE  Timed(a, t)
BY TriesFacts DEF Inv, WorkInv, Timed

(* The threads' own steps preserve the invariant.                          *)
LEMMA ThreadStepInv ==
    ASSUME Inv, NEW a \in Tries, NEW t \in Threads, ThreadStep(a, t)
    PROVE  Inv'
<1> DEFINE Alive == (Working \ {"own", "split"}) \cup Finished
<1>1. thread[a][t] \in {"run", "sleep", "granted", "adb"}
  BY TriesFacts
     DEF ThreadStep, Sleep, Wake, AskForTime, BeginAdb, EndAdb, Finish, Inv, WorkInv
<1>2. thread[a][t] \notin Finished \cup {"none", "split"}
  BY <1>1 DEF Finished, Raised
<1>3. Timed(a, t)
  BY <1>1, RunningIsTimed
<1>4. \E s \in Alive : Becomes(a, t, s)
  BY <1>3 DEF ThreadStep, Sleep, Wake, AskForTime, BeginAdb, EndAdb, Finish,
              Finished, Raised, Working
<1> QED BY <1>2, <1>4, BecomesInv

(* Time passing only makes it more over.                                   *)
LEMMA TimePassesInv == ASSUME Inv, NEW a \in Tries, TimePasses(a) PROVE Inv'
<1> USE DEF Inv
<1>1. /\ UNCHANGED <<numTry, caller, result, thread, linked>>
      /\ left' \in [Tries -> Amounts]
      /\ \A b \in Tries : left[b] = "over" => left'[b] = "over"
  BY DEF TimePasses, TypeOK, Amounts
<1>2. TypeOK' /\ WorkInv'
  BY <1>1 DEF TypeOK, WorkInv
<1>3. CallerInv'
  BY <1>1, TriesFacts DEF CallerInv, TypeOK
<1>4. \A b \in Tries : Abandoned(b)' <=> Abandoned(b)
  BY <1>1 DEF Abandoned, Current
<1>5. TriesInv'
  BY <1>1, <1>4 DEF TriesInv
<1> QED BY <1>2, <1>3, <1>5

(* RunAsync's two ends.                                                    *)
LEMMA SplitInv == ASSUME Inv, NEW a \in Tries, Split(a) PROVE Inv'
<1> USE DEF Inv
<1>1. /\ UNCHANGED <<numTry, caller, result, left>>
      /\ linked' = linked \cup {a}
      /\ thread[a][Body] = "run"
      /\ thread' = [thread EXCEPT ![a] =
                      [t \in Threads |-> IF t = Body THEN "split" ELSE "run"]]
  BY DEF Split
<1>2. /\ thread'[a] = [t \in Threads |-> IF t = Body THEN "split" ELSE "run"]
      /\ \A b \in Tries : b # a => thread'[b] = thread[b]
  BY <1>1 DEF TypeOK
<1>3. TypeOK' /\ CallerInv'
  BY <1>1 DEF TypeOK, CallerInv, Working
<1>4. \A b \in Tries : Abandoned(b)' <=> Abandoned(b)
  BY <1>1 DEF Abandoned, Current
<1>5. TriesInv'
  BY <1>1, <1>2, <1>4, TriesFacts DEF TriesInv, TypeOK, Finished, Raised
<1>6. WorkInv'
  BY <1>1, <1>2, TriesFacts DEF WorkInv
<1> QED BY <1>3, <1>5, <1>6

LEMMA UniteInv == ASSUME Inv, NEW a \in Tries, Unite(a) PROVE Inv'
<1> USE DEF Inv
<1>1. PICK s \in {"run"} \cup {thread[a][w] : w \in Workers} :
         /\ s # "value"
         /\ thread' = [thread EXCEPT ![a] =
                         [t \in Threads |-> IF t = Body THEN s ELSE "none"]]
  BY DEF Unite
<1>2. /\ UNCHANGED <<numTry, caller, result, left>>
      /\ linked' = linked \ {a}
      /\ thread[a][Body] = "split"
      /\ \A w \in Workers : thread[a][w] \in Finished
  BY DEF Unite
<1>3. s \in {"run"} \cup Raised
  BY <1>1, <1>2 DEF Finished
<1>4. /\ thread'[a] = [t \in Threads |-> IF t = Body THEN s ELSE "none"]
      /\ \A b \in Tries : b # a => thread'[b] = thread[b]
  BY <1>1 DEF TypeOK
<1>5. TypeOK' /\ CallerInv'
  BY <1>1, <1>2, <1>3 DEF TypeOK, CallerInv, Working, Finished
<1>6. \A b \in Tries : Abandoned(b)' <=> Abandoned(b)
  BY <1>2 DEF Abandoned, Current
<1>7. TriesInv'
  BY <1>2, <1>3, <1>4, <1>6, TriesFacts DEF TriesInv, TypeOK, Finished, Raised
<1>8. WorkInv'
  BY <1>2, <1>3, <1>4, TriesFacts, TimeoutRetryConstants DEF WorkInv, Raised
<1> QED BY <1>5, <1>7, <1>8

LEMMA StepInv == ASSUME Inv, [Next]_vars PROVE Inv'
<1>1. CASE UNCHANGED vars
  BY <1>1 DEF vars, Inv, TypeOK, CallerInv, TriesInv, WorkInv, Abandoned, Current
<1> QED
  BY <1>1, CallerStepInv, ThreadStepInv, TimePassesInv, SplitInv, UniteInv DEF Next

LEMMA Invariance == Spec => []Inv
BY InitInv, StepInv, PTL DEF Spec

-----------------------------------------------------------------------------
(* Every variable keeps its type: in particular there is never a try more  *)
(* than the first one and its retries.                                     *)
THEOREM RetryTypeOK == Spec => []TypeOK
BY Invariance, PTL DEF Inv

(* A try is repeated only if it failed or its time was over.               *)
THEOREM RetryForAReason == Spec => []RepeatedForAReason
<1>1. Inv => RepeatedForAReason
  BY DEF Inv, TriesInv, RepeatedForAReason
<1> QED BY <1>1, Invariance, PTL

(* No command escapes the watchdog of the try it belongs to.               *)
THEOREM RetryIsTimed == Spec => []EveryCommandIsTimed
<1>1. Inv => EveryCommandIsTimed
  BY DEF Inv, WorkInv, EveryCommandIsTimed
<1> QED BY <1>1, Invariance, PTL

(* No worker outlives the RunAsync that started it.                        *)
THEOREM RetryWorkersEndFirst == Spec => []WorkersEndFirst
<1>1. Inv => WorkersEndFirst
  BY DEF Inv, WorkInv, WorkersEndFirst
<1> QED BY <1>1, Invariance, PTL

(* Nothing an abandoned try still runs is granted a command or a sleep.    *)
THEOREM RetryRefusesAbandoned == Spec => AbandonedTriesAreRefused
<1> DEFINE Refused ==
      \A a \in Tries, t \in Threads :
        /\ Abandoned(a)
        /\ thread'[a][t] \in {"granted", "sleep"}
        => thread[a][t] = thread'[a][t]
<1>1. Inv /\ [Next]_vars => [Refused]_vars
  <2> SUFFICES ASSUME Inv, Next, NEW a \in Tries, NEW t \in Threads, Abandoned(a),
                      thread'[a][t] \in {"granted", "sleep"},
                      thread[a][t] # thread'[a][t]
               PROVE  FALSE
    OBVIOUS
  <2>1. TypeOK /\ thread[a][t] # "none" => Timed(a, t)
    BY RunningIsTimed DEF Inv
  <2>2. CASE CallerStep
    <3>1. CASE Start
      BY <3>1, TriesFacts DEF Start, Inv, TypeOK
    <3>2. CASE ~Start
      BY <2>2, <3>2 DEF CallerStep, Check, JoinAgain, Return, Reraise, Dump,
                        DumpFrames, Handle
    <3> QED BY <3>1, <3>2
  <2>3. ASSUME NEW b \in Tries, TimePasses(b) \/ Split(b) \/ Unite(b) PROVE FALSE
    <3>1. CASE TimePasses(b)
      BY <3>1 DEF TimePasses
    <3>2. CASE Split(b)
      BY <3>2, TriesFacts DEF Split, Inv, TypeOK
    <3>3. CASE Unite(b)
      BY <3>3, TriesFacts DEF Unite, Inv, TypeOK, Finished, Raised
    <3> QED BY <2>3, <3>1, <3>2, <3>3
  <2>4. ASSUME NEW b \in Tries, NEW u \in Threads, ThreadStep(b, u) PROVE FALSE
    <3>1. \A s : Becomes(b, u, s) => b = a /\ u = t /\ thread'[a][t] = s
      BY DEF Becomes, Inv, TypeOK
    <3>2. \/ thread[a][t] = "run" /\ Timed(a, t) /\ left[a] # "over"
          \/ thread[a][t] = "run" /\ ~Timed(a, t)
      BY <2>4, <3>1 DEF ThreadStep, Sleep, Wake, AskForTime, BeginAdb, EndAdb,
                        Finish, Finished, Raised
    <3>3. Timed(a, t) /\ left[a] # "over" /\ thread[a][t] = "run"
      BY <3>2, <2>1 DEF Inv
    <3>4. thread[a][Body] \in Finished
      BY <3>3 DEF Inv, TriesInv
    <3>5. t # Body /\ thread[a][Body] # "split"
      BY <3>3, <3>4 DEF Finished, Raised
    <3> QED BY <3>3, <3>5, TriesFacts DEF Inv, WorkInv
  <2> QED BY <2>2, <2>3, <2>4 DEF Next
<1> QED BY <1>1, Invariance, PTL DEF Spec, AbandonedTriesAreRefused
=============================================================================
