---------------------------- MODULE App_proofs ----------------------------
(***************************************************************************)
(* Proofs about the two halves of the Simonis app: its login session, for  *)
(* any number of accounts, sign-ins, calls and logouts, and its pages, for *)
(* any number of fragments, queued transactions and loads.                 *)
(***************************************************************************)
EXTENDS Session, Navigation, FiniteSetTheorems, SequenceTheorems, TLAPS

-----------------------------------------------------------------------------
(* The idle records are states of their coroutines. *)
LEMMA IdleTypes ==
    /\ IdleJob \in SignInState /\ IdleJob \in CallState
    /\ IdleLogout \in LogoutState
    /\ IdleLoading \in [pc : {"idle", "launched", "read"}, user : MaybeUser]
    /\ IdleJob.pc = "idle" /\ IdleJob.user = NoUser /\ IdleJob.token = NoToken
    /\ IdleJob.cancelled = FALSE
    /\ IdleLogout.removed = FALSE /\ IdleLogout.pc = "idle"
BY DEF IdleJob, IdleLogout, IdleLoading, SignInState, CallState, LogoutState,
       MaybeUser, MaybeToken

(* ProcessDies, the step most failures take, preserves the type invariant. *)
LEMMA DiesTypeOK == ASSUME TypeOK, ProcessDies PROVE TypeOK'
BY IdleTypes DEF TypeOK, ProcessDies, MaybeUser, Lifecycle

(* A coroutine that may write on somebody's behalf knows on whose. *)
JobsOK ==
    /\ \A s \in SignIns : signIn[s].pc # "idle" => signIn[s].user \in Users
    /\ \A c \in Calls :
         call[c].pc \in {"relogin", "refreshed"} => call[c].user \in Users

(* The type invariant holds initially. *)
LEMMA InitTypeOK == Init => TypeOK
<1> HAVE Init
<1>1. profile \in [Users -> MaybeToken]
  BY DEF Init, EmptyTable, MaybeToken
<1>2. /\ signIn \in [SignIns -> SignInState] /\ call \in [Calls -> CallState]
      /\ logout \in [Logouts -> LogoutState]
      /\ loading \in [pc : {"idle", "launched", "read"}, user : MaybeUser]
  BY IdleTypes DEF Init
<1>3. issued \in 0..MaxTokens
  BY SessionConstants DEF Init
<1>4. /\ login \in Lifecycle /\ main \in Lifecycle /\ activeUser \in MaybeUser
      /\ check \in {"idle", "launched", "yes", "no"}
  BY DEF Init, Lifecycle, MaybeUser
<1>5. /\ overlap \in BOOLEAN /\ cleared \in BOOLEAN /\ revived \in BOOLEAN
      /\ late \in SUBSET (SignIns \cup Calls) /\ lost \in BOOLEAN
      /\ answer = "none"
  BY DEF Init
<1> QED BY <1>1, <1>2, <1>3, <1>4, <1>5 DEF TypeOK

(* Every step preserves the type invariant. *)
LEMMA StepTypeOK == ASSUME TypeOK, JobsOK, [Next]_vars PROVE TypeOK'
<1>1. CASE Launch \/ LeaveLogin \/ LeaveMain
  BY <1>1 DEF TypeOK, Launch, LeaveLogin, LeaveMain, Lifecycle, history
<1>2. CASE DestroyMain
  <2>1. /\ call' \in [Calls -> CallState] /\ logout' \in [Logouts -> LogoutState]
        /\ loading' \in [pc : {"idle", "launched", "read"}, user : MaybeUser]
    BY <1>2, IdleTypes DEF TypeOK, DestroyMain, CallState
  <2> QED BY <1>2, <2>1 DEF TypeOK, DestroyMain, Lifecycle, MaybeUser, history
<1>3. CASE DestroyLogin
  <2>1. signIn' \in [SignIns -> SignInState]
    BY <1>3, IdleTypes DEF TypeOK, DestroyLogin, SignInState
  <2> QED BY <1>3, <2>1 DEF TypeOK, DestroyLogin, Lifecycle
<1>4. CASE CheckReads
  BY <1>4 DEF TypeOK, CheckReads, history
<1>5. CASE CheckDelivered
  BY <1>5 DEF TypeOK, CheckDelivered, OpenMain, Lifecycle, MaybeUser, history
<1>6. CASE ReadActiveUser
  BY <1>6, DiesTypeOK DEF TypeOK, ReadActiveUser, Rows, MaybeUser, history
<1>7. CASE ActiveUserDelivered
  BY <1>7, IdleTypes DEF TypeOK, ActiveUserDelivered, history
<1>8. ASSUME NEW s \in SignIns, SignInStep(s) PROVE TypeOK'
  <2>1. CASE SignInAccepted(s)
    <3>1. issued' \in 0..MaxTokens /\ NewToken(signIn[s].user) \in MaybeToken
      BY <2>1, SessionConstants
         DEF TypeOK, JobsOK, SignInAccepted, NewToken, MaybeToken, Token
    <3>2. signIn' \in [SignIns -> SignInState]
      <4> DEFINE t == NewToken(signIn[s].user)
      <4>1. t \in MaybeToken /\ signIn \in [SignIns -> SignInState]
        BY <3>1 DEF TypeOK
      <4>2. signIn' = [signIn EXCEPT ![s].pc = "granted", ![s].token = t]
        BY <2>1 DEF SignInAccepted
      <4> HIDE DEF t
      <4> QED BY <4>1, <4>2 DEF SignInState
    <3> QED BY <2>1, <3>1, <3>2 DEF TypeOK, SignInAccepted, history
  <2>2. CASE SignInRefused(s)
    BY <2>2, DiesTypeOK DEF SignInRefused
  <2>3. CASE SignInDeletes(s)
    BY <2>3 DEF TypeOK, SignInDeletes, SignInState, EmptyTable, MaybeToken
  <2>4. CASE SignInSaves(s)
    <3>1. signIn' \in [SignIns -> SignInState] /\ profile' \in [Users -> MaybeToken]
      BY <2>4, IdleTypes DEF TypeOK, SignInSaves, SignInState
    <3> QED BY <2>4, <3>1 DEF TypeOK, SignInSaves
  <2>5. CASE SignInDelivered(s)
    <3>1. signIn' \in [SignIns -> SignInState]
      BY <2>5, IdleTypes DEF TypeOK, SignInDelivered
    <3> QED
      BY <2>5, <3>1
         DEF TypeOK, SignInDelivered, OpenMain, Lifecycle, MaybeUser, history
  <2> QED BY <1>8, <2>1, <2>2, <2>3, <2>4, <2>5 DEF SignInStep
<1>9. ASSUME NEW s \in SignIns, NEW u \in Users, TapSignIn(s, u) PROVE TypeOK'
  <2>1. signIn' \in [SignIns -> SignInState]
    BY <1>9, IdleTypes DEF TypeOK, TapSignIn, SignInState, MaybeUser
  <2> QED BY <1>9, <2>1 DEF TypeOK, TapSignIn, history
<1>10. ASSUME NEW c \in Calls, CallStep(c) PROVE TypeOK'
  <2>1. CASE CallReadsToken(c)
    <3>1. SelectToken \subseteq MaybeToken
      BY DEF TypeOK, SelectToken, Rows, MaybeToken
    <3>2. call' \in [Calls -> CallState]
      <4>1. PICK t \in MaybeToken :
               call' = [call EXCEPT ![c].pc = "sending", ![c].token = t]
        BY <2>1, <3>1 DEF CallReadsToken
      <4>2. call \in [Calls -> CallState]
        BY DEF TypeOK
      <4> QED BY <4>1, <4>2 DEF CallState
    <3> QED BY <2>1, <3>2 DEF TypeOK, CallReadsToken, history
  <2>2. ASSUME CallSettles(c) PROVE TypeOK'
    BY <2>2, IdleTypes DEF TypeOK, CallSettles
  <2>3. CASE CallDenied(c)
    BY <2>3 DEF TypeOK, CallDenied, CallState, history
  <2>4. CASE CallAnswered(c) \/ CallFails(c) \/ ReloginUnreachable(c)
    BY <2>2, <2>4, DiesTypeOK
       DEF CallAnswered, CallFails, ReloginUnreachable, Rethrow
  <2>5. CASE CallReadsUser(c)
    <3>1. CASE ProcessDies
      BY <3>1, DiesTypeOK
    <3>2. CASE /\ \E u \in Rows :
                    call' = [call EXCEPT ![c].pc = "relogin", ![c].user = u]
               /\ UNCHANGED <<profile, issued, login, main, check, loading,
                              activeUser, signIn, logout, answer, history>>
      <4>1. PICK u \in Rows :
               call' = [call EXCEPT ![c].pc = "relogin", ![c].user = u]
        BY <3>2
      <4>2. u \in MaybeUser
        BY <4>1 DEF Rows, MaybeUser
      <4>3. call \in [Calls -> CallState]
        BY DEF TypeOK
      <4>4. call' \in [Calls -> CallState]
        BY <4>1, <4>2, <4>3 DEF CallState
      <4> QED BY <3>2, <4>4 DEF TypeOK, history
    <3> QED BY <2>5, <3>1, <3>2 DEF CallReadsUser
  <2>6. CASE ReloginAccepted(c)
    <3>1. issued' \in 0..MaxTokens
      BY <2>6, SessionConstants DEF TypeOK, ReloginAccepted
    <3>2. NewToken(call[c].user) \in MaybeToken
      BY <2>6, SessionConstants
         DEF TypeOK, JobsOK, ReloginAccepted, NewToken, MaybeToken, Token
    <3>3. call' \in [Calls -> CallState]
      <4> DEFINE t == NewToken(call[c].user)
      <4>1. t \in MaybeToken /\ call \in [Calls -> CallState]
        BY <3>2 DEF TypeOK
      <4>2. call' = [call EXCEPT ![c].pc = "refreshed", ![c].token = t]
        BY <2>6 DEF ReloginAccepted
      <4> HIDE DEF t
      <4> QED BY <4>1, <4>2 DEF CallState
    <3> QED BY <2>6, <3>1, <3>3 DEF TypeOK, ReloginAccepted, history
  <2>7. CASE ReloginRefused(c)
    BY <2>7, DiesTypeOK DEF ReloginRefused
  <2>8. CASE CallSaves(c)
    BY <2>8 DEF TypeOK, CallSaves, CallState
  <2> QED
    BY <1>10, <2>1, <2>3, <2>4, <2>5, <2>6, <2>7, <2>8 DEF CallStep
<1>11. ASSUME NEW c \in Calls, StartCall(c) \/ CancelCall(c) PROVE TypeOK'
  <2>1. call' \in [Calls -> CallState]
    <3>1. CASE StartCall(c)
      BY <3>1, IdleTypes DEF TypeOK, StartCall, CallState
    <3>2. CASE CancelCall(c)
      BY <3>2 DEF TypeOK, CancelCall, CallState
    <3> QED BY <1>11, <3>1, <3>2
  <2> QED BY <1>11, <2>1 DEF TypeOK, StartCall, CancelCall, history
<1>12. ASSUME NEW l \in Logouts, LogoutStep(l) \/ TapLogout(l) PROVE TypeOK'
  <2>1. CASE LogoutDeletes(l)
    BY <2>1 DEF TypeOK, LogoutDeletes, LogoutState, InFlight, EmptyTable,
                MaybeToken, Rows
  <2>2. CASE LogoutAnswered(l)
    <3>1. logout' \in [Logouts -> LogoutState]
      BY <2>2, IdleTypes DEF TypeOK, LogoutAnswered
    <3>2. /\ main' \in Lifecycle /\ login' \in Lifecycle
          /\ check' \in {"idle", "launched", "yes", "no"}
      BY <2>2 DEF TypeOK, LogoutAnswered, ObserveLogout, Lifecycle
    <3>3. /\ answer' \in {"none", "yes", "no"} /\ lost' \in BOOLEAN
          /\ answer' # "none" => main' = "active"
      BY <2>2 DEF TypeOK, LogoutAnswered
    <3> QED BY <2>2, <3>1, <3>2, <3>3 DEF TypeOK, LogoutAnswered
  <2>3. CASE TapLogout(l)
    BY <2>3 DEF TypeOK, TapLogout, LogoutState, history
  <2> QED BY <1>12, <2>1, <2>2, <2>3 DEF LogoutStep
<1>13. CASE UNCHANGED vars
  BY <1>13 DEF TypeOK, vars, history
<1>14. CASE ReturnToMain
  BY <1>14 DEF TypeOK, ReturnToMain, ObserveLogout, Lifecycle, history
<1> QED
  BY <1>1, <1>2, <1>3, <1>4, <1>5, <1>6, <1>7, <1>8, <1>9, <1>10, <1>11,
     <1>12, <1>13, <1>14, DiesTypeOK DEF Next

(* Initially, and after a process death, nobody acts on anybody's behalf. *)
LEMMA IdleJobsOK ==
  ASSUME signIn = [s \in SignIns |-> IdleJob], call = [c \in Calls |-> IdleJob]
  PROVE  JobsOK
BY IdleTypes DEF JobsOK

(* Every step preserves JobsOK: sign-ins start for a user, a refresh for a *)
(* user read from a row. *)
LEMMA StepJobsOK == ASSUME TypeOK, JobsOK, [Next]_vars PROVE JobsOK'
<1>0. ASSUME ProcessDies PROVE JobsOK'
  BY <1>0, IdleTypes DEF ProcessDies, JobsOK
<1>1. ASSUME UNCHANGED <<signIn, call>> PROVE JobsOK'
  BY <1>1 DEF JobsOK
<1>2. CASE DestroyMain
  BY <1>2 DEF TypeOK, JobsOK, DestroyMain, CallState
<1>3. CASE DestroyLogin
  BY <1>3, IdleTypes DEF TypeOK, JobsOK, DestroyLogin, SignInState
<1>4. ASSUME NEW s \in SignIns, SignInStep(s) PROVE JobsOK'
  <2>1. CASE SignInAccepted(s) \/ SignInDeletes(s)
    BY <2>1 DEF TypeOK, JobsOK, SignInAccepted, SignInDeletes, SignInState
  <2>2. CASE SignInSaves(s) \/ SignInDelivered(s)
    BY <2>2, IdleTypes
       DEF TypeOK, JobsOK, SignInSaves, SignInDelivered, SignInState
  <2> QED BY <1>0, <1>4, <2>1, <2>2 DEF SignInStep, SignInRefused
<1>5. ASSUME NEW s \in SignIns, NEW u \in Users, TapSignIn(s, u) PROVE JobsOK'
  BY <1>5 DEF TypeOK, JobsOK, TapSignIn, IdleJob, SignInState
<1>6. ASSUME NEW c \in Calls, CallStep(c) PROVE JobsOK'
  <2>1. ASSUME CallSettles(c) PROVE JobsOK'
    BY <2>1, IdleTypes DEF TypeOK, JobsOK, CallSettles
  <2>2. CASE CallReadsToken(c) \/ CallDenied(c) \/ CallSaves(c)
    BY <2>2 DEF TypeOK, JobsOK, CallReadsToken, CallDenied, CallSaves, CallState
  <2>3. CASE CallReadsUser(c)
    BY <1>0, <2>3 DEF TypeOK, JobsOK, CallReadsUser, Rows, CallState
  <2>4. CASE ReloginAccepted(c)
    BY <2>4 DEF TypeOK, JobsOK, ReloginAccepted, CallState
  <2> QED
    BY <1>0, <1>6, <2>1, <2>2, <2>3, <2>4
       DEF CallStep, CallAnswered, CallFails, ReloginRefused,
           ReloginUnreachable, Rethrow
<1>7. ASSUME NEW c \in Calls, StartCall(c) \/ CancelCall(c) PROVE JobsOK'
  BY <1>7, IdleTypes DEF TypeOK, JobsOK, StartCall, CancelCall, IdleJob, CallState
<1> QED
  BY <1>0, <1>1, <1>2, <1>3, <1>4, <1>5, <1>6, <1>7
     DEF Next, Launch, LeaveLogin, LeaveMain, CheckReads, CheckDelivered,
         ReadActiveUser, ActiveUserDelivered, LogoutStep, LogoutDeletes,
         LogoutAnswered, TapLogout, ReturnToMain, vars

(* Every variable of the login session keeps its type: in particular a row *)
(* of the profile table is a granted token or absent, whatever order the   *)
(* coroutines write it in.                                                 *)
THEOREM SessionTypeOK == Spec => []TypeOK
<1>1. Init => TypeOK /\ JobsOK
  BY InitTypeOK, IdleJobsOK DEF Init
<1>2. TypeOK /\ JobsOK /\ [Next]_vars => (TypeOK /\ JobsOK)'
  BY StepTypeOK, StepJobsOK
<1> QED BY <1>1, <1>2, PTL DEF Spec
-----------------------------------------------------------------------------
(* One profile. *)
ArmedCalls == {c \in Calls : call[c].pc \in {"relogin", "refreshed"}}
Deleted == {s \in SignIns : signIn[s].pc = "deleted"}

(* A step that adds nothing: no row, no writer, and no bookkeeping. *)
Quiet ==
    /\ Rows' = Rows
    /\ Deleted' \subseteq Deleted
    /\ ArmedCalls' \subseteq ArmedCalls
    /\ \A c \in ArmedCalls' : call'[c].user = call[c].user
    /\ ArmedCalls' \cap late \subseteq late'
    /\ UNCHANGED <<overlap, cleared, revived>>

(* The five steps that are not. *)
Loud ==
    \/ \E s \in SignIns : SignInDeletes(s) \/ SignInSaves(s)
    \/ \E c \in Calls : (Rows # {} /\ CallReadsUser(c)) \/ CallSaves(c)
    \/ \E l \in Logouts : LogoutDeletes(l)

(* Every other step is quiet. *)
LEMMA QuietOrLoud == ASSUME TypeOK, [Next]_vars PROVE Quiet \/ Loud
<1> USE DEF ArmedCalls, Deleted
<1>0. ASSUME ProcessDies PROVE Quiet
  BY <1>0, IdleTypes DEF ProcessDies, Quiet, Rows
<1>1. ASSUME UNCHANGED <<profile, signIn, call, overlap, cleared, late, revived>> PROVE Quiet
  BY <1>1 DEF Quiet, Rows
<1>2. CASE DestroyMain
  BY <1>2 DEF TypeOK, DestroyMain, CallState, Quiet, Rows, history
<1>3. CASE DestroyLogin
  <2>1. Deleted' \subseteq Deleted
    BY <1>3, IdleTypes DEF TypeOK, DestroyLogin, SignInState
  <2>2. ArmedCalls' \cap late \subseteq late'
    BY <1>3, SessionConstants DEF DestroyLogin
  <2> QED BY <1>3, <2>1, <2>2 DEF DestroyLogin, Quiet, Rows
<1>4. ASSUME NEW s \in SignIns, SignInStep(s) PROVE Quiet \/ Loud
  <2>1. CASE SignInAccepted(s)
    BY <2>1 DEF TypeOK, SignInAccepted, SignInState, Quiet, Rows, history
  <2>2. CASE SignInDelivered(s)
    BY <2>2, IdleTypes DEF TypeOK, SignInDelivered, Quiet, Rows, history
  <2> QED BY <1>0, <1>4, <2>1, <2>2 DEF SignInStep, SignInRefused, Loud
<1>5. ASSUME NEW s \in SignIns, NEW u \in Users, TapSignIn(s, u) PROVE Quiet
  BY <1>5 DEF TypeOK, TapSignIn, IdleJob, SignInState, Quiet, Rows, history
<1>6. ASSUME NEW c \in Calls, CallStep(c) PROVE Quiet \/ Loud
  <2>1. ASSUME CallSettles(c) PROVE Quiet
    BY <2>1, IdleTypes DEF TypeOK, CallSettles, Quiet, Rows
  <2>2. CASE CallReadsToken(c) \/ CallDenied(c) \/ ReloginAccepted(c)
    BY <2>2 DEF TypeOK, CallReadsToken, CallDenied, ReloginAccepted, CallState,
                Quiet, Rows, history
  <2>3. CASE CallReadsUser(c)
    BY <1>0, <2>3 DEF CallReadsUser, Loud
  <2> QED
    BY <1>0, <1>6, <2>1, <2>2, <2>3
       DEF CallStep, CallAnswered, CallFails, ReloginRefused,
           ReloginUnreachable, Rethrow, Loud
<1>7. ASSUME NEW c \in Calls, StartCall(c) \/ CancelCall(c) PROVE Quiet
  <2>1. CASE StartCall(c)
    BY <2>1 DEF TypeOK, StartCall, IdleJob, CallState, Quiet, Rows, history
  <2>2. CASE CancelCall(c)
    BY <2>2 DEF TypeOK, CancelCall, CallState, Quiet, Rows, history
  <2> QED BY <1>7, <2>1, <2>2
<1> QED
  BY <1>0, <1>1, <1>2, <1>3, <1>4, <1>5, <1>6, <1>7
     DEF Next, Launch, LeaveLogin, LeaveMain, CheckReads, CheckDelivered,
         ReadActiveUser, ActiveUserDelivered, LogoutStep, LogoutAnswered, ReturnToMain,
         TapLogout, vars, history, Loud

(* Without an overlap the row, if there is one, and everybody about to     *)
(* overwrite it are the same user's; and a sign-in that emptied the table  *)
(* is the only one who may fill it.                                        *)
OneInv ==
    ~overlap =>
      /\ \A u, v \in Rows : u = v
      /\ \A c \in ArmedCalls : \A u \in Rows : call[c].user = u
      /\ \A c, d \in ArmedCalls : call[c].user = call[d].user
      /\ \A s \in Deleted : Rows = {} /\ ArmedCalls = {} /\ Deleted = {s}

LEMMA StepOne == ASSUME TypeOK, JobsOK, OneInv, [Next]_vars PROVE OneInv'
<1> USE DEF ArmedCalls, Deleted
<1>1. CASE Quiet
  BY <1>1 DEF Quiet, OneInv
<1>2. ASSUME NEW s \in SignIns, SignInDeletes(s) PROVE OneInv'
  <2> SUFFICES ASSUME ~overlap' PROVE OneInv'
    BY DEF OneInv
  <2>1. ArmedCalls = {} /\ Deleted = {}
    <3>1. Armed = {s} /\ signIn[s].pc = "granted" /\ s \notin Calls
      BY <1>2, SessionConstants DEF SignInDeletes
    <3> QED BY <3>1 DEF Armed
  <2>2. Rows' = {} /\ ArmedCalls' = {} /\ Deleted' = {s}
    BY <1>2, <2>1 DEF TypeOK, SignInDeletes, SignInState, Rows, EmptyTable
  <2> QED BY <2>2 DEF OneInv
<1>3. ASSUME NEW s \in SignIns, SignInSaves(s) PROVE OneInv'
  <2> SUFFICES ASSUME ~overlap' PROVE OneInv'
    BY DEF OneInv
  <2>1. Rows = {} /\ ArmedCalls = {} /\ Deleted = {s}
    BY <1>3 DEF SignInSaves, OneInv
  <2>2. Rows' \subseteq {signIn[s].user} /\ ArmedCalls' = {} /\ Deleted' = {}
    BY <1>3, <2>1, IdleTypes DEF TypeOK, SignInSaves, SignInState, Rows
  <2> QED BY <2>2 DEF OneInv
<1>4. ASSUME NEW c \in Calls, Rows # {}, CallReadsUser(c) PROVE OneInv'
  <2> SUFFICES ASSUME ~overlap' PROVE OneInv'
    BY DEF OneInv
  <2>1. PICK u \in Rows :
          call' = [call EXCEPT ![c].pc = "relogin", ![c].user = u]
    BY <1>4 DEF CallReadsUser
  <2>2. UNCHANGED <<profile, signIn, overlap>>
    BY <1>4 DEF CallReadsUser, history
  <2>3. Rows' = Rows /\ Deleted' = {}
    BY <2>1, <2>2 DEF Rows, OneInv
  <2>4. \A d \in ArmedCalls' : call'[d].user = u
    BY <2>1, <2>2 DEF OneInv, TypeOK, CallState
  <2> QED BY <2>1, <2>2, <2>3, <2>4 DEF OneInv
<1>5. ASSUME NEW c \in Calls, CallSaves(c) PROVE OneInv'
  <2> SUFFICES ASSUME ~overlap' PROVE OneInv'
    BY DEF OneInv
  <2>1. c \in ArmedCalls /\ Deleted' = {} /\ Rows' \subseteq Rows \cup {call[c].user}
    BY <1>5 DEF CallSaves, OneInv, Rows, TypeOK
  <2>2. /\ ArmedCalls' \subseteq ArmedCalls
        /\ \A d \in ArmedCalls' : call'[d].user = call[d].user
    BY <1>5 DEF CallSaves, TypeOK, CallState
  <2>3. ~overlap
    BY <1>5 DEF CallSaves
  <2> QED BY <2>1, <2>2, <2>3 DEF OneInv
<1>6. ASSUME NEW l \in Logouts, LogoutDeletes(l) PROVE OneInv'
  <2>1. Rows' = {} /\ ArmedCalls' = ArmedCalls /\ Deleted' = Deleted
    BY <1>6 DEF LogoutDeletes, Rows, EmptyTable
  <2> QED BY <1>6, <2>1 DEF LogoutDeletes, OneInv
<1> QED
  BY <1>1, <1>2, <1>3, <1>4, <1>5, <1>6, QuietOrLoud DEF Loud

(* Unless a sign-in overlapped another writer or a running main screen,    *)
(* the table that AuthManagerImpl reads with `limit 1` has one row.        *)
THEOREM SessionOneProfile == Spec => []OneProfileUnlessOverlap
<1>1. Init => TypeOK /\ JobsOK /\ OneInv
  BY InitTypeOK, IdleJobsOK, IdleTypes
     DEF Init, OneInv, Rows, EmptyTable, ArmedCalls, Deleted
<1>2. TypeOK /\ JobsOK /\ OneInv /\ [Next]_vars => (TypeOK /\ JobsOK /\ OneInv)'
  BY StepTypeOK, StepJobsOK, StepOne
<1>3. OneInv => OneProfileUnlessOverlap
  BY DEF OneInv, OneProfileUnlessOverlap
<1> QED BY <1>1, <1>2, <1>3, PTL DEF Spec

(* After a logout, until a later sign-in saves or an earlier writer does,  *)
(* the table is empty and the refreshes under way are all older than it.   *)
SticksInv ==
    cleared /\ ~revived => Rows = {} /\ ArmedCalls \subseteq late

LEMMA StepSticks == ASSUME TypeOK, JobsOK, SticksInv, [Next]_vars PROVE SticksInv'
<1> USE DEF ArmedCalls
<1>1. CASE Quiet
  BY <1>1 DEF Quiet, SticksInv
<1>2. ASSUME NEW s \in SignIns, SignInDeletes(s) PROVE SticksInv'
  BY <1>2 DEF SignInDeletes, SticksInv, Rows, EmptyTable
<1>3. ASSUME NEW s \in SignIns, SignInSaves(s) PROVE SticksInv'
  BY <1>3 DEF SignInSaves, SticksInv, TypeOK
<1>4. ASSUME NEW c \in Calls, Rows # {}, CallReadsUser(c) PROVE SticksInv'
  <2>1. UNCHANGED <<profile, cleared, revived>>
    BY <1>4 DEF CallReadsUser, history
  <2> QED BY <1>4, <2>1 DEF SticksInv, Rows
<1>5. ASSUME NEW c \in Calls, CallSaves(c) PROVE SticksInv'
  BY <1>5 DEF CallSaves, SticksInv, TypeOK
<1>6. ASSUME NEW l \in Logouts, LogoutDeletes(l) PROVE SticksInv'
  <2>1. Rows' = {} /\ ArmedCalls' \subseteq late'
    BY <1>6 DEF LogoutDeletes, Rows, EmptyTable, InFlight
  <2> QED BY <2>1 DEF SticksInv
<1> QED
  BY <1>1, <1>2, <1>3, <1>4, <1>5, <1>6, QuietOrLoud DEF Loud

(* What a logout cleared stays cleared, except through a sign-in begun     *)
(* later or a writer that was already under way.                           *)
THEOREM SessionLogoutSticks == Spec => []LogoutSticks
<1>1. Init => TypeOK /\ JobsOK /\ SticksInv
  BY InitTypeOK, IdleJobsOK DEF Init, SticksInv
<1>2. TypeOK /\ JobsOK /\ SticksInv /\ [Next]_vars
        => (TypeOK /\ JobsOK /\ SticksInv)'
  BY StepTypeOK, StepJobsOK, StepSticks
<1>3. SticksInv => LogoutSticks
  BY DEF SticksInv, LogoutSticks
<1> QED BY <1>1, <1>2, <1>3, PTL DEF Spec

-----------------------------------------------------------------------------
(* Who holds a token that was granted and not saved yet. *)
Writers == SignIns \cup Calls
Holding(w) == \/ w \in SignIns /\ signIn[w].pc \in {"granted", "deleted"}
              \/ w \in Calls /\ call[w].pc = "refreshed"
Held(w) == IF ~Holding(w) THEN NoToken
           ELSE IF w \in SignIns THEN signIn[w].token ELSE call[w].token

(* What is held was granted, and to the user it is held for. *)
OwnInv ==
    /\ \A s \in SignIns : signIn[s].pc \in {"granted", "deleted"} =>
         /\ signIn[s].token \in Token
         /\ signIn[s].token.user = signIn[s].user
         /\ signIn[s].token.serial <= issued
    /\ \A c \in Calls : call[c].pc = "refreshed" =>
         /\ call[c].token \in Token
         /\ call[c].token.user = call[c].user
         /\ call[c].token.serial <= issued

LEMMA NewTokenFacts ==
  ASSUME TypeOK, NEW u \in Users
  PROVE  /\ NewToken(u) \in Token /\ NewToken(u).user = u
         /\ NewToken(u).serial = issued + 1
BY SessionConstants DEF TypeOK, NewToken, Token

LEMMA StepOwn == ASSUME TypeOK, JobsOK, OwnInv, [Next]_vars PROVE OwnInv'
<1>0. ASSUME ProcessDies PROVE OwnInv'
  BY <1>0, IdleTypes DEF ProcessDies, OwnInv
<1>1. ASSUME UNCHANGED <<issued, signIn, call>> PROVE OwnInv'
  BY <1>1 DEF OwnInv
<1>2. CASE DestroyMain
  BY <1>2 DEF TypeOK, OwnInv, DestroyMain, CallState
<1>3. CASE DestroyLogin
  BY <1>3, IdleTypes DEF TypeOK, OwnInv, DestroyLogin, SignInState
<1>4. ASSUME NEW s \in SignIns, SignInStep(s) PROVE OwnInv'
  <2>1. CASE SignInAccepted(s)
    <3> DEFINE t == NewToken(signIn[s].user)
    <3>1. t \in Token /\ t.user = signIn[s].user /\ t.serial = issued + 1
      BY <2>1, NewTokenFacts DEF JobsOK, SignInAccepted
    <3> HIDE DEF t
    <3>2. /\ signIn' = [signIn EXCEPT ![s].pc = "granted", ![s].token = t]
          /\ issued' = issued + 1 /\ call' = call
      BY <2>1 DEF SignInAccepted, t
    <3>3. \A r \in Token : r.serial <= issued => r.serial <= issued'
      BY <3>2, SessionConstants DEF TypeOK, Token
    <3>4. signIn'[s].token = t /\ signIn'[s].user = signIn[s].user
      BY <3>2 DEF TypeOK, SignInState
    <3>5. \A r \in SignIns \ {s} : signIn'[r] = signIn[r]
      BY <3>2 DEF TypeOK
    <3>6. t.serial <= issued'
      BY <3>1, <3>2, SessionConstants DEF TypeOK
    <3> QED BY <3>1, <3>2, <3>3, <3>4, <3>5, <3>6 DEF OwnInv
  <2>2. CASE SignInDeletes(s)
    BY <2>2 DEF TypeOK, OwnInv, SignInDeletes, SignInState
  <2>3. CASE SignInSaves(s) \/ SignInDelivered(s)
    BY <2>3, IdleTypes
       DEF TypeOK, OwnInv, SignInSaves, SignInDelivered, SignInState
  <2> QED BY <1>0, <1>4, <2>1, <2>2, <2>3 DEF SignInStep, SignInRefused
<1>5. ASSUME NEW s \in SignIns, NEW u \in Users, TapSignIn(s, u) PROVE OwnInv'
  BY <1>5 DEF TypeOK, OwnInv, TapSignIn, IdleJob, SignInState
<1>6. ASSUME NEW c \in Calls, CallStep(c) PROVE OwnInv'
  <2>1. ASSUME CallSettles(c) PROVE OwnInv'
    BY <2>1, IdleTypes DEF TypeOK, OwnInv, CallSettles
  <2>2. CASE CallReadsToken(c)
    BY <2>2 DEF TypeOK, OwnInv, CallReadsToken, CallState
  <2>3. CASE CallDenied(c) \/ CallSaves(c)
    BY <2>3 DEF TypeOK, OwnInv, CallDenied, CallSaves, CallState
  <2>4. CASE CallReadsUser(c)
    BY <1>0, <2>4 DEF TypeOK, OwnInv, CallReadsUser, CallState
  <2>5. CASE ReloginAccepted(c)
    <3> DEFINE t == NewToken(call[c].user)
    <3>1. t \in Token /\ t.user = call[c].user /\ t.serial = issued + 1
      BY <2>5, NewTokenFacts DEF JobsOK, ReloginAccepted
    <3> HIDE DEF t
    <3>2. /\ call' = [call EXCEPT ![c].pc = "refreshed", ![c].token = t]
          /\ issued' = issued + 1 /\ signIn' = signIn
      BY <2>5 DEF ReloginAccepted, t
    <3>3. \A r \in Token : r.serial <= issued => r.serial <= issued'
      BY <3>2, SessionConstants DEF TypeOK, Token
    <3>4. call'[c].token = t /\ call'[c].user = call[c].user
      BY <3>2 DEF TypeOK, CallState
    <3>5. \A r \in Calls \ {c} : call'[r] = call[r]
      BY <3>2 DEF TypeOK
    <3>6. t.serial <= issued'
      BY <3>1, <3>2, SessionConstants DEF TypeOK
    <3> QED BY <3>1, <3>2, <3>3, <3>4, <3>5, <3>6 DEF OwnInv
  <2> QED
    BY <1>0, <1>6, <2>1, <2>2, <2>3, <2>4, <2>5
       DEF CallStep, CallAnswered, CallFails, ReloginRefused,
           ReloginUnreachable, Rethrow
<1>7. ASSUME NEW c \in Calls, StartCall(c) \/ CancelCall(c) PROVE OwnInv'
  <2>1. CASE StartCall(c)
    BY <2>1 DEF TypeOK, OwnInv, StartCall, IdleJob, CallState
  <2>2. CASE CancelCall(c)
    BY <2>2 DEF TypeOK, OwnInv, CancelCall, CallState
  <2> QED BY <1>7, <2>1, <2>2
<1> QED
  BY <1>0, <1>1, <1>2, <1>3, <1>4, <1>5, <1>6, <1>7
     DEF Next, Launch, LeaveLogin, LeaveMain, CheckReads, CheckDelivered,
         ReadActiveUser, ActiveUserDelivered, LogoutStep, LogoutDeletes,
         LogoutAnswered, TapLogout, ReturnToMain, vars

-----------------------------------------------------------------------------
(* The user MainActivity holds, or is about to hold, is the user stored.   *)
ShownInv ==
    /\ main = "none" => /\ loading.pc = "idle" /\ activeUser = NoUser
                        /\ \A l \in Logouts : logout[l].pc = "idle"
    /\ \A l \in Logouts : logout[l].removed => logout[l].pc = "deleted"
    /\ (main = "active" /\ ~overlap /\ ~Unaware)
         => /\ loading.pc = "read" => Rows = {loading.user}
            /\ activeUser # NoUser => Rows = {activeUser}

LEMMA StepShown ==
  ASSUME TypeOK, JobsOK, OwnInv, OneInv, ShownInv, [Next]_vars
  PROVE  ShownInv'
<1>0. ASSUME ProcessDies PROVE ShownInv'
  BY <1>0, IdleTypes DEF ProcessDies, ShownInv, IdleLoading
<1>1. ASSUME UNCHANGED <<profile, main, loading, activeUser, logout, answer, overlap, lost>>
      PROVE  ShownInv'
  BY <1>1 DEF ShownInv, Rows, Unaware
<1>2. CASE LeaveMain
  BY <1>2 DEF LeaveMain, ShownInv
<1>3. CASE DestroyMain
  BY <1>3, IdleTypes DEF DestroyMain, ShownInv, IdleLoading
<1>4. ASSUME OpenMain, UNCHANGED <<profile, logout, answer, overlap, lost>> PROVE ShownInv'
  BY <1>4 DEF OpenMain, ShownInv
<1>5. CASE CheckDelivered
  BY <1>1, <1>4, <1>5 DEF CheckDelivered, history
<1>6. CASE ReadActiveUser
  <2>1. ASSUME NEW u \in Rows, loading' = [pc |-> "read", user |-> u],
               loading.pc = "launched",
               UNCHANGED <<profile, main, activeUser, logout, answer, overlap, lost>>
        PROVE  ShownInv'
    BY <2>1 DEF ShownInv, OneInv, Rows, Unaware
  <2> QED BY <1>0, <1>6, <2>1 DEF ReadActiveUser, history
<1>7. CASE ActiveUserDelivered
  BY <1>7, IdleTypes DEF ActiveUserDelivered, ShownInv, IdleLoading, Rows, Unaware, history
<1>8. ASSUME NEW s \in SignIns, SignInStep(s) PROVE ShownInv'
  <2>1. CASE SignInDeletes(s)
    BY <2>1 DEF SignInDeletes, ShownInv
  <2>2. CASE SignInSaves(s)
    <3>1. ~overlap => Rows = {}
      BY <2>2 DEF SignInSaves, OneInv, Deleted
    <3> QED BY <2>2, <3>1 DEF SignInSaves, ShownInv, Unaware
  <2>3. CASE SignInDelivered(s)
    BY <1>1, <1>4, <2>3 DEF SignInDelivered, history
  <2> QED
    BY <1>0, <1>1, <1>8, <2>1, <2>2, <2>3
       DEF SignInStep, SignInAccepted, SignInRefused, history
<1>9. ASSUME NEW c \in Calls, CallStep(c) PROVE ShownInv'
  <2>1. CASE CallSaves(c)
    <3>1. ASSUME ~overlap, Rows # {} PROVE Rows' = Rows
      <4>1. call[c].user \in Rows
        BY <2>1, <3>1 DEF CallSaves, OneInv, ArmedCalls
      <4>2. profile' = [profile EXCEPT ![call[c].user] = call[c].token]
        BY <2>1 DEF CallSaves
      <4>3. call[c].token # NoToken
        BY <2>1, SessionConstants DEF CallSaves, OwnInv, Token
      <4> QED BY <4>1, <4>2, <4>3 DEF Rows, TypeOK
    <3> QED BY <2>1, <3>1 DEF CallSaves, ShownInv, Unaware
  <2> QED
    BY <1>0, <1>1, <1>9, <2>1
       DEF CallStep, CallReadsToken, CallAnswered, CallDenied, CallFails,
           CallReadsUser, ReloginAccepted, ReloginRefused, ReloginUnreachable,
           CallSettles, Rethrow, history
<1>10. ASSUME NEW l \in Logouts, LogoutStep(l) \/ TapLogout(l) PROVE ShownInv'
  <2>1. CASE LogoutDeletes(l)
    BY <2>1 DEF LogoutDeletes, ShownInv, TypeOK, LogoutState, Rows, EmptyTable, Unaware
  <2>2. CASE LogoutAnswered(l)
    <3>1. /\ logout'[l] = IdleLogout /\ \A k \in Logouts \ {l} : logout'[k] = logout[k]
          /\ logout[l].pc = "deleted" /\ logout[l].removed \in BOOLEAN
          /\ UNCHANGED <<profile, loading, activeUser, overlap>> /\ Rows' = Rows
      BY <2>2 DEF LogoutAnswered, TypeOK, LogoutState, Rows
    <3>2. main' = "active" => main = "active"
      BY <2>2 DEF LogoutAnswered, ObserveLogout
    <3>3. main' = "none" => main = "none"
      BY <2>2 DEF LogoutAnswered, ObserveLogout
    <3>4. main' = "active" /\ ~Unaware' => ~Unaware
      BY <2>2, <3>1 DEF LogoutAnswered, ObserveLogout, Unaware
    <3> QED BY <3>1, <3>2, <3>3, <3>4, IdleTypes DEF ShownInv
  <2>3. CASE TapLogout(l)
    BY <2>3 DEF TapLogout, ShownInv, TypeOK, LogoutState, Rows, Unaware, history
  <2> QED BY <1>10, <2>1, <2>2, <2>3 DEF LogoutStep
<1>11. CASE ReturnToMain
  <2>1. main' = "active" /\ ~Unaware' => ~Unaware
    BY <1>11 DEF ReturnToMain, ObserveLogout, Unaware, history
  <2>2. /\ main = "active" /\ main' # "none" /\ Rows' = Rows
        /\ UNCHANGED <<profile, loading, activeUser, logout, overlap>>
    BY <1>11 DEF ReturnToMain, ObserveLogout, Rows, history
  <2> QED BY <2>1, <2>2 DEF ShownInv
<1> QED
  BY <1>0, <1>1, <1>2, <1>3, <1>5, <1>6, <1>7, <1>8, <1>9, <1>10, <1>11
     DEF Next, Launch, LeaveLogin, DestroyLogin, CheckReads, TapSignIn,
         StartCall, CancelCall, vars, history

(* The user shown is the user stored. *)
THEOREM SessionShownUser == Spec => []ShownUserIsStored
<1>1. Init => TypeOK /\ JobsOK /\ OwnInv /\ OneInv /\ ShownInv
  <2> HAVE Init
  <2>1. TypeOK /\ JobsOK /\ OwnInv /\ OneInv
    BY InitTypeOK, IdleJobsOK, IdleTypes
       DEF Init, OwnInv, OneInv, Rows, EmptyTable, ArmedCalls, Deleted
  <2>2. ShownInv
    BY IdleTypes DEF Init, ShownInv, IdleLoading
  <2> QED BY <2>1, <2>2
<1>2. TypeOK /\ JobsOK /\ OwnInv /\ OneInv /\ ShownInv /\ [Next]_vars
        => (TypeOK /\ JobsOK /\ OwnInv /\ OneInv /\ ShownInv)'
  BY StepTypeOK, StepJobsOK, StepOwn, StepOne, StepShown
<1>3. ShownInv => ShownUserIsStored
  BY DEF ShownInv, ShownUserIsStored
<1> QED BY <1>1, <1>2, <1>3, PTL DEF Spec

-----------------------------------------------------------------------------
(* What calls carry: the user whose screen they belong to.                 *)
RowsOwn == \A u \in Rows : profile[u].user = u

LEMMA StepRows == ASSUME TypeOK, OwnInv, RowsOwn, [Next]_vars PROVE RowsOwn'
<1>1. CASE profile' = profile
  BY <1>1 DEF RowsOwn, Rows
<1>2. CASE profile' = EmptyTable
  BY <1>2 DEF RowsOwn, Rows, EmptyTable
<1>3. ASSUME NEW s \in SignIns, SignInSaves(s) PROVE RowsOwn'
  BY <1>3 DEF SignInSaves, RowsOwn, OwnInv, Rows, TypeOK
<1>4. ASSUME NEW c \in Calls, CallSaves(c) PROVE RowsOwn'
  BY <1>4 DEF CallSaves, RowsOwn, OwnInv, Rows, TypeOK
<1>5. ASSUME NEW s \in SignIns, SignInStep(s) PROVE RowsOwn'
  BY <1>1, <1>2, <1>3, <1>5
     DEF SignInStep, SignInAccepted, SignInRefused, SignInDeletes, SignInDelivered, ProcessDies
<1>6. ASSUME NEW c \in Calls, CallStep(c) PROVE RowsOwn'
  BY <1>1, <1>4, <1>6
     DEF CallStep, CallReadsToken, CallAnswered, CallDenied, CallFails, CallReadsUser,
         ReloginAccepted, ReloginRefused, ReloginUnreachable, CallSettles, Rethrow,
         ProcessDies
<1> QED
  BY <1>1, <1>2, <1>5, <1>6
     DEF Next, Launch, LeaveLogin, LeaveMain, DestroyLogin, DestroyMain, CheckReads,
         CheckDelivered, ReadActiveUser, ActiveUserDelivered, TapSignIn, StartCall,
         CancelCall, LogoutStep, LogoutDeletes, LogoutAnswered, TapLogout, ReturnToMain,
         ProcessDies, vars

(* Only a screen whose user is known starts calls, and they are cancelled  *)
(* with it.                                                                *)
Scoped(c) == call[c].pc # "idle" /\ ~call[c].cancelled
ScopeInv ==
    /\ loading.pc # "idle" => activeUser = NoUser
    /\ \A c \in Calls : Scoped(c) => main # "none" /\ activeUser # NoUser

(* A step that starts no call and leaves the user alone.                   *)
LEMMA ScopeKeeps ==
    ASSUME TypeOK, ScopeInv, main' = "none" => main = "none",
           UNCHANGED <<loading, activeUser>>,
           \A c \in Calls : Scoped(c)' => Scoped(c)
    PROVE  ScopeInv'
BY DEF ScopeInv

LEMMA StepScope == ASSUME TypeOK, ScopeInv, [Next]_vars PROVE ScopeInv'
<1>0. ASSUME ProcessDies PROVE ScopeInv'
  BY <1>0, IdleTypes DEF ProcessDies, ScopeInv, Scoped, IdleLoading
<1>1. ASSUME UNCHANGED call, UNCHANGED <<loading, activeUser>>, main' = "none" => main = "none"
      PROVE  ScopeInv'
  BY <1>1, ScopeKeeps DEF Scoped
<1>2. ASSUME OpenMain, UNCHANGED call PROVE ScopeInv'
  BY <1>2 DEF OpenMain, ScopeInv, Scoped
<1>3. CASE DestroyMain
  <2>1. \A c \in Calls : ~Scoped(c)'
    BY <1>3 DEF DestroyMain, Scoped, TypeOK, CallState
  <2> QED BY <1>3, <2>1, IdleTypes DEF DestroyMain, ScopeInv, IdleLoading
<1>4. CASE ReadActiveUser
  BY <1>0, <1>4 DEF ReadActiveUser, ScopeInv, Scoped
<1>5. CASE ActiveUserDelivered
  <2>1. \A c \in Calls : ~Scoped(c)
    BY <1>5 DEF ActiveUserDelivered, ScopeInv
  <2> QED BY <1>5, <2>1, IdleTypes DEF ActiveUserDelivered, ScopeInv, Scoped, IdleLoading
<1>6. ASSUME NEW s \in SignIns, SignInStep(s) PROVE ScopeInv'
  BY <1>0, <1>1, <1>2, <1>6
     DEF SignInStep, SignInAccepted, SignInRefused, SignInDeletes, SignInSaves, SignInDelivered
<1>7. ASSUME NEW c \in Calls, StartCall(c) PROVE ScopeInv'
  BY <1>7 DEF StartCall, ScopeInv, Scoped, TypeOK
<1>8. ASSUME NEW c \in Calls, CancelCall(c) PROVE ScopeInv'
  BY <1>8, ScopeKeeps DEF CancelCall, Scoped, TypeOK, CallState
<1>9. ASSUME NEW c \in Calls, CallStep(c) PROVE ScopeInv'
  <2>1. CASE CallSettles(c)
    BY <2>1, ScopeKeeps, IdleTypes DEF CallSettles, Scoped, TypeOK
  <2>2. CASE CallReadsToken(c) \/ CallDenied(c)
    BY <2>2, ScopeKeeps DEF CallReadsToken, CallDenied, Scoped, TypeOK, CallState
  <2>3. CASE ReloginAccepted(c) \/ CallSaves(c)
    BY <2>3, ScopeKeeps DEF ReloginAccepted, CallSaves, Scoped, TypeOK, CallState
  <2>4. CASE CallReadsUser(c)
    BY <1>0, <2>4, ScopeKeeps DEF CallReadsUser, Scoped, TypeOK, CallState
  <2> QED
    BY <1>0, <1>9, <2>1, <2>2, <2>3, <2>4
       DEF CallStep, CallAnswered, CallFails, ReloginRefused, ReloginUnreachable, Rethrow
<1>10. CASE CheckDelivered
  BY <1>1, <1>2, <1>10 DEF CheckDelivered
<1> QED
  BY <1>0, <1>1, <1>3, <1>4, <1>5, <1>6, <1>7, <1>8, <1>9, <1>10
     DEF Next, Launch, LeaveLogin, LeaveMain, DestroyLogin, CheckReads,
         TapSignIn, LogoutStep, LogoutDeletes, LogoutAnswered, ObserveLogout, TapLogout,
         ReturnToMain, vars

(* Once main has read its user, all that is stored, or about to be, is     *)
(* that user's.                                                            *)
KnownUser == IF loading.pc = "read" THEN loading.user ELSE activeUser
KnownInv ==
    main = "active" /\ ~overlap /\ KnownUser # NoUser =>
      /\ Rows \subseteq {KnownUser} /\ Deleted = {}
      /\ \A c \in ArmedCalls : call[c].user = KnownUser

LEMMA StepKnown ==
    ASSUME TypeOK, JobsOK, OneInv, ScopeInv, KnownInv, [Next]_vars PROVE KnownInv'
<1>1. ASSUME Quiet, KnownUser' = KnownUser, main' = "active" => main = "active"
      PROVE  KnownInv'
  BY <1>1 DEF Quiet, KnownInv
<1>2. ASSUME main' # "active" PROVE KnownInv'
  BY <1>2 DEF KnownInv
<1>3. ASSUME OpenMain PROVE KnownInv'
  BY <1>3 DEF OpenMain, KnownInv, KnownUser
<1>4. ASSUME NEW u \in Rows, loading' = [pc |-> "read", user |-> u],
             UNCHANGED <<profile, signIn, call, overlap>>
      PROVE  KnownInv'
  <2>1. KnownUser' = u
    BY <1>4 DEF KnownUser
  <2>2. Rows' = Rows /\ Deleted' = Deleted /\ ArmedCalls' = ArmedCalls
    BY <1>4 DEF Rows, Deleted, ArmedCalls
  <2>3. ~overlap => /\ Rows \subseteq {u} /\ Deleted = {}
                    /\ \A c \in ArmedCalls : call[c].user = u
    BY <1>4 DEF OneInv
  <2> QED BY <1>4, <2>1, <2>2, <2>3 DEF KnownInv
<1>5. CASE ActiveUserDelivered
  <2>1. main = "active" => KnownUser' = KnownUser
    BY <1>5, IdleTypes DEF ActiveUserDelivered, KnownUser, IdleLoading
  <2>2. main' = main /\ overlap' = overlap /\ Rows' = Rows /\ Deleted' = Deleted
        /\ ArmedCalls' = ArmedCalls /\ call' = call
    BY <1>5 DEF ActiveUserDelivered, history, Rows, Deleted, ArmedCalls
  <2> QED BY <2>1, <2>2 DEF KnownInv
<1>6. ASSUME NEW s \in SignIns, SignInDeletes(s) PROVE KnownInv'
  BY <1>6 DEF SignInDeletes, KnownInv
<1>7. ASSUME NEW s \in SignIns, SignInSaves(s) PROVE KnownInv'
  <2>1. Deleted # {} /\ KnownUser' = KnownUser /\ main' = main /\ overlap' = overlap
    BY <1>7 DEF SignInSaves, Deleted, KnownUser
  <2> QED BY <2>1 DEF KnownInv
<1>8. ASSUME NEW c \in Calls, Rows # {}, CallReadsUser(c) PROVE KnownInv'
  <2>1. PICK u \in Rows : call' = [call EXCEPT ![c].pc = "relogin", ![c].user = u]
    BY <1>8 DEF CallReadsUser
  <2>2. UNCHANGED <<profile, main, loading, activeUser, signIn, overlap>>
    BY <1>8 DEF CallReadsUser, history
  <2>3. /\ Rows' = Rows /\ Deleted' = Deleted /\ KnownUser' = KnownUser
        /\ \A d \in ArmedCalls' : d = c \/ (d \in ArmedCalls /\ call'[d].user = call[d].user)
        /\ call'[c].user = u
    BY <2>1, <2>2 DEF Rows, Deleted, KnownUser, ArmedCalls, TypeOK, CallState
  <2> QED BY <2>1, <2>2, <2>3 DEF KnownInv
<1>9. ASSUME NEW c \in Calls, CallSaves(c) PROVE KnownInv'
  <2>1. UNCHANGED <<main, loading, activeUser, signIn, overlap>>
    BY <1>9 DEF CallSaves
  <2>2. /\ c \in ArmedCalls /\ Rows' \subseteq Rows \cup {call[c].user}
        /\ Deleted' = Deleted /\ KnownUser' = KnownUser
    BY <1>9, <2>1 DEF CallSaves, ArmedCalls, Rows, Deleted, KnownUser, TypeOK
  <2>3. \A d \in ArmedCalls' : d \in ArmedCalls /\ call'[d].user = call[d].user
    BY <1>9 DEF CallSaves, ArmedCalls, TypeOK, CallState
  <2> QED BY <2>1, <2>2, <2>3 DEF KnownInv
<1>10. ASSUME NEW l \in Logouts, LogoutDeletes(l) PROVE KnownInv'
  <2>1. /\ Rows' = {} /\ ArmedCalls' = ArmedCalls /\ Deleted' = Deleted
        /\ KnownUser' = KnownUser /\ UNCHANGED <<main, overlap, call>>
    BY <1>10 DEF LogoutDeletes, Rows, EmptyTable, ArmedCalls, Deleted, KnownUser
  <2> QED BY <2>1 DEF KnownInv
<1>11. CASE Loud
  BY <1>6, <1>7, <1>8, <1>9, <1>10, <1>11 DEF Loud
<1>12. CASE Quiet
  <2>1. ASSUME UNCHANGED <<main, loading, activeUser>> PROVE KnownInv'
    BY <1>1, <1>12, <2>1 DEF KnownUser
  <2>2. ASSUME NEW s \in SignIns, SignInStep(s) PROVE KnownInv'
    BY <1>2, <1>3, <2>1, <2>2
       DEF SignInStep, SignInAccepted, SignInRefused, SignInDeletes, SignInSaves,
           SignInDelivered, ProcessDies
  <2>3. ASSUME NEW c \in Calls, CallStep(c) PROVE KnownInv'
    BY <1>2, <2>1, <2>3
       DEF CallStep, CallReadsToken, CallAnswered, CallDenied, CallFails, CallReadsUser,
           ReloginAccepted, ReloginRefused, ReloginUnreachable, CallSaves, CallSettles,
           Rethrow, ProcessDies
  <2>4. CASE CheckDelivered
    BY <1>3, <2>1, <2>4 DEF CheckDelivered
  <2>5. CASE ReadActiveUser
    BY <1>2, <1>4, <2>5 DEF ReadActiveUser, ProcessDies, history
  <2>6. CASE LeaveMain \/ DestroyMain \/ ProcessDies
    BY <1>2, <2>6 DEF LeaveMain, DestroyMain, ProcessDies
  <2>7. ASSUME NEW l \in Logouts, LogoutStep(l) \/ TapLogout(l) PROVE KnownInv'
    BY <1>2, <2>1, <2>7
       DEF LogoutStep, LogoutDeletes, LogoutAnswered, ObserveLogout, TapLogout
  <2>8. CASE ReturnToMain
    BY <1>2, <2>1, <2>8 DEF ReturnToMain, ObserveLogout
  <2> QED
    BY <1>5, <2>1, <2>2, <2>3, <2>4, <2>5, <2>6, <2>7, <2>8
       DEF Next, Launch, LeaveLogin, DestroyLogin, CheckReads, TapSignIn, StartCall,
           CancelCall, vars
<1> QED BY <1>11, <1>12, QuietOrLoud

LEMMA ScopedKnown ==
    ASSUME ScopeInv, NEW c \in Calls, Scoped(c)
    PROVE  KnownUser = activeUser /\ activeUser # NoUser /\ main # "none"
BY DEF ScopeInv, KnownUser

LEMMA StepCarry ==
    ASSUME TypeOK, OwnInv, RowsOwn, ScopeInv, KnownInv, CallsCarryShownUser, [Next]_vars
    PROVE  CallsCarryShownUser'
<1> USE DEF CallsCarryShownUser
<1>0. ASSUME ProcessDies PROVE CallsCarryShownUser'
  BY <1>0 DEF ProcessDies
<1>1. ASSUME UNCHANGED <<call, activeUser>>, main' = "active" => main = "active",
             overlap => overlap'
      PROVE  CallsCarryShownUser'
  BY <1>1
<1>2. ASSUME UNCHANGED call, \A c \in Calls : ~Scoped(c) PROVE CallsCarryShownUser'
  BY <1>2 DEF Scoped
<1>3. ASSUME OpenMain, UNCHANGED call PROVE CallsCarryShownUser'
  <2>1. \A c \in Calls : ~Scoped(c)
    BY <1>3 DEF OpenMain, ScopeInv
  <2> QED BY <1>2, <1>3, <2>1
<1>4. CASE DestroyMain
  BY <1>4 DEF DestroyMain
<1>5. CASE ReadActiveUser
  BY <1>0, <1>1, <1>5 DEF ReadActiveUser, history
<1>6. CASE ActiveUserDelivered
  <2>1. \A c \in Calls : ~Scoped(c)
    BY <1>6 DEF ActiveUserDelivered, ScopeInv
  <2> QED BY <1>2, <1>6, <2>1 DEF ActiveUserDelivered
<1>7. ASSUME NEW s \in SignIns, SignInStep(s) PROVE CallsCarryShownUser'
  BY <1>0, <1>1, <1>3, <1>7
     DEF SignInStep, SignInAccepted, SignInRefused, SignInDeletes, SignInSaves,
         SignInDelivered, history
<1>8. ASSUME NEW c \in Calls, UNCHANGED <<main, activeUser, overlap>>,
             \A d \in Calls \ {c} : call'[d] = call[d],
             main = "active" /\ ~overlap /\ ~call'[c].cancelled
                 /\ call'[c].pc \in {"sending", "denied", "resending"}
               => call'[c].token = NoToken \/ call'[c].token.user = activeUser
      PROVE  CallsCarryShownUser'
  BY <1>8
<1>9. ASSUME NEW c \in Calls, StartCall(c) \/ CancelCall(c) PROVE CallsCarryShownUser'
  BY <1>8, <1>9 DEF StartCall, CancelCall, IdleJob, TypeOK, CallState, history
<1>10. ASSUME NEW c \in Calls, CallStep(c) PROVE CallsCarryShownUser'
  <2>1. CASE CallSettles(c)
    BY <1>8, <2>1, IdleTypes DEF CallSettles, TypeOK
  <2>2. CASE CallReadsToken(c)
    <3>1. PICK t \in SelectToken :
            call' = [call EXCEPT ![c].pc = "sending", ![c].token = t]
      BY <2>2 DEF CallReadsToken
    <3>2. /\ call[c].pc = "reading" /\ UNCHANGED <<main, activeUser, overlap>>
          /\ call'[c].token = t /\ call'[c].cancelled = call[c].cancelled
          /\ \A d \in Calls \ {c} : call'[d] = call[d]
      BY <2>2, <3>1 DEF CallReadsToken, TypeOK, CallState, history
    <3>3. t = NoToken \/ (\E u \in Rows : t = profile[u] /\ t.user = u)
      BY DEF SelectToken, RowsOwn
    <3>4. main = "active" /\ ~overlap /\ ~call[c].cancelled
            => t = NoToken \/ t.user = activeUser
      BY <3>2, <3>3, ScopedKnown DEF KnownInv, Scoped
    <3> QED BY <1>8, <3>2, <3>4
  <2>3. CASE CallDenied(c)
    BY <1>8, <2>3 DEF CallDenied, TypeOK, CallState, history
  <2>4. CASE CallReadsUser(c)
    <3>1. ASSUME NEW u \in Rows, UNCHANGED <<main, activeUser, overlap>>,
                 call' = [call EXCEPT ![c].pc = "relogin", ![c].user = u]
          PROVE  CallsCarryShownUser'
      BY <1>8, <3>1 DEF TypeOK, CallState
    <3> QED BY <1>0, <2>4, <3>1 DEF CallReadsUser, history
  <2>5. CASE ReloginAccepted(c)
    BY <1>8, <2>5 DEF ReloginAccepted, TypeOK, CallState, history
  <2>6. CASE CallSaves(c)
    <3>1. /\ call[c].pc = "refreshed" /\ UNCHANGED <<main, activeUser, overlap>>
          /\ call'[c].token = call[c].token /\ call'[c].cancelled = call[c].cancelled
          /\ \A d \in Calls \ {c} : call'[d] = call[d]
      BY <2>6 DEF CallSaves, TypeOK, CallState
    <3>2. c \in ArmedCalls /\ call[c].token.user = call[c].user
      BY <3>1 DEF ArmedCalls, OwnInv
    <3>3. main = "active" /\ ~overlap /\ ~call[c].cancelled
            => call[c].user = activeUser
      BY <3>1, <3>2, ScopedKnown DEF KnownInv, Scoped
    <3> QED BY <1>8, <3>1, <3>2, <3>3
  <2> QED
    BY <1>0, <1>10, <2>1, <2>2, <2>3, <2>4, <2>5, <2>6
       DEF CallStep, CallAnswered, CallFails, ReloginRefused, ReloginUnreachable, Rethrow
<1>11. CASE CheckDelivered
  BY <1>1, <1>3, <1>11 DEF CheckDelivered, history
<1>12. CASE Launch \/ LeaveLogin \/ LeaveMain \/ DestroyLogin \/ CheckReads
  BY <1>1, <1>12 DEF Launch, LeaveLogin, LeaveMain, DestroyLogin, CheckReads, history
<1>13. ASSUME NEW s \in SignIns, NEW u \in Users, TapSignIn(s, u) PROVE CallsCarryShownUser'
  BY <1>1, <1>13 DEF TapSignIn, history
<1>14. ASSUME NEW l \in Logouts, LogoutStep(l) \/ TapLogout(l) PROVE CallsCarryShownUser'
  BY <1>1, <1>14
     DEF LogoutStep, LogoutDeletes, LogoutAnswered, ObserveLogout, TapLogout, history
<1>15. CASE UNCHANGED vars
  BY <1>1, <1>15 DEF vars
<1>16. CASE ReturnToMain
  BY <1>1, <1>16 DEF ReturnToMain, ObserveLogout, history
<1> HIDE DEF CallsCarryShownUser
<1> QED
  BY <1>0, <1>4, <1>5, <1>6, <1>7, <1>9, <1>10, <1>11, <1>12, <1>13, <1>14, <1>15, <1>16
     DEF Next

(* A screen's calls go out as the user it shows, or as nobody.             *)
THEOREM SessionCallsCarryShownUser == Spec => []CallsCarryShownUser
<1> DEFINE CarryInv == /\ TypeOK /\ JobsOK /\ OwnInv /\ OneInv
                       /\ RowsOwn /\ ScopeInv /\ KnownInv /\ CallsCarryShownUser
<1>1. Init => CarryInv
  <2> HAVE Init
  <2>1. TypeOK /\ JobsOK /\ OwnInv /\ OneInv /\ RowsOwn
    BY InitTypeOK, IdleJobsOK, IdleTypes
       DEF Init, OwnInv, OneInv, RowsOwn, Rows, EmptyTable, ArmedCalls, Deleted
  <2>2. ScopeInv /\ KnownInv /\ CallsCarryShownUser
    BY IdleTypes DEF Init, ScopeInv, Scoped, KnownInv, CallsCarryShownUser, IdleLoading
  <2> QED BY <2>1, <2>2
<1>2. CarryInv /\ [Next]_vars => CarryInv'
  BY StepTypeOK, StepJobsOK, StepOwn, StepOne, StepRows, StepScope, StepKnown, StepCarry
<1>3. CarryInv => CallsCarryShownUser
  OBVIOUS
<1> QED BY <1>1, <1>2, <1>3, PTL DEF Spec

-----------------------------------------------------------------------------
(* The steps as CredentialStore sees them. *)
HeldUnchanged == \A w \in Writers : Held(w)' = Held(w)
Grants == \E x \in Writers, u \in Users :
    /\ Held(x) = NoToken /\ Held(x)' = NewToken(u)
    /\ \A w \in Writers \ {x} : Held(w)' = Held(w)
    /\ issued' = issued + 1 /\ profile' = profile
Saves == \E x \in Writers :
    /\ Held(x) \in Token /\ Held(x)' = NoToken
    /\ \A w \in Writers \ {x} : Held(w)' = Held(w)
    /\ profile' = [profile EXCEPT ![Held(x).user] = Held(x)]
    /\ issued' = issued
Drops == (\A w \in Writers : Held(w)' = NoToken) /\ UNCHANGED <<profile, issued>>
Wipes == HeldUnchanged /\ profile' = EmptyTable /\ issued' = issued
Stutters == HeldUnchanged /\ UNCHANGED <<profile, issued>>
StoreEffect == Grants \/ Saves \/ Drops \/ Wipes \/ Stutters

LEMMA Effects == ASSUME TypeOK, JobsOK, OwnInv, [Next]_vars PROVE StoreEffect
<1> USE DEF Held, Holding, Writers
<1>0. ASSUME ProcessDies PROVE StoreEffect
  BY <1>0, IdleTypes DEF ProcessDies, Drops, StoreEffect
<1>1. ASSUME UNCHANGED <<profile, issued, signIn, call>> PROVE StoreEffect
  BY <1>1 DEF Stutters, HeldUnchanged, StoreEffect
<1>2. CASE DestroyMain
  BY <1>2 DEF TypeOK, DestroyMain, CallState, Stutters, HeldUnchanged, StoreEffect
<1>3. CASE DestroyLogin
  <2>1. call' = call /\ \A s \in SignIns :
          \/ signIn'[s].pc = signIn[s].pc /\ signIn'[s].token = signIn[s].token
          \/ signIn'[s].pc = "idle" /\ signIn[s].pc \notin {"granted", "deleted"}
    BY <1>3, IdleTypes DEF TypeOK, DestroyLogin, SignInState
  <2>2. HeldUnchanged
    BY <2>1, SessionConstants DEF HeldUnchanged
  <2> QED BY <1>3, <2>2 DEF DestroyLogin, Stutters, StoreEffect
<1>4. ASSUME NEW s \in SignIns, SignInStep(s) PROVE StoreEffect
  <2>0. s \notin Calls /\ s \in Writers
    BY SessionConstants
  <2>1. CASE SignInAccepted(s)
    <3>1. /\ signIn[s].pc = "calling" /\ issued' = issued + 1
          /\ signIn' = [signIn EXCEPT ![s].pc = "granted",
                                      ![s].token = NewToken(signIn[s].user)]
          /\ UNCHANGED <<profile, call>> /\ signIn[s].user \in Users
      BY <2>1 DEF SignInAccepted, JobsOK
    <3>2. Held(s) = NoToken /\ Held(s)' = NewToken(signIn[s].user)
      BY <2>0, <3>1 DEF TypeOK, SignInState
    <3>3. \A w \in Writers \ {s} : Held(w)' = Held(w)
      BY <3>1 DEF TypeOK
    <3> QED BY <2>0, <3>1, <3>2, <3>3 DEF Grants, StoreEffect
  <2>2. CASE SignInDeletes(s)
    <3>1. HeldUnchanged
      BY <2>2 DEF TypeOK, SignInDeletes, SignInState, HeldUnchanged
    <3> QED BY <2>2, <3>1 DEF SignInDeletes, Wipes, StoreEffect
  <2>3. CASE SignInSaves(s)
    <3>1. Held(s) = signIn[s].token /\ Held(s) \in Token
          /\ Held(s).user = signIn[s].user
      BY <2>3 DEF SignInSaves, OwnInv
    <3>2. Held(s)' = NoToken
      BY <2>0, <2>3, IdleTypes DEF TypeOK, SignInSaves, SignInState
    <3>3. \A w \in Writers \ {s} : Held(w)' = Held(w)
      BY <2>3 DEF TypeOK, SignInSaves
    <3>4. /\ profile' = [profile EXCEPT ![Held(s).user] = Held(s)]
          /\ issued' = issued
      BY <2>3, <3>1 DEF SignInSaves
    <3> QED BY <2>0, <3>1, <3>2, <3>3, <3>4 DEF Saves, StoreEffect
  <2>4. CASE SignInDelivered(s)
    <3>1. HeldUnchanged
      BY <2>4, IdleTypes, SessionConstants
         DEF TypeOK, SignInDelivered, HeldUnchanged
    <3> QED BY <2>4, <3>1 DEF SignInDelivered, Stutters, StoreEffect
  <2> QED
    BY <1>0, <1>4, <2>1, <2>2, <2>3, <2>4 DEF SignInStep, SignInRefused
<1>5. ASSUME NEW s \in SignIns, NEW u \in Users, TapSignIn(s, u) PROVE StoreEffect
  <2>1. HeldUnchanged
    BY <1>5, SessionConstants
       DEF TypeOK, TapSignIn, IdleJob, SignInState, HeldUnchanged
  <2> QED BY <1>5, <2>1 DEF TapSignIn, Stutters, StoreEffect
<1>6. ASSUME NEW c \in Calls, CallStep(c) PROVE StoreEffect
  <2>0. c \notin SignIns /\ c \in Writers
    BY SessionConstants
  <2>1. ASSUME CallSettles(c), call[c].pc # "refreshed" PROVE StoreEffect
    BY <2>1, IdleTypes
       DEF TypeOK, CallSettles, Stutters, HeldUnchanged, StoreEffect
  <2>2. CASE CallReadsToken(c) \/ CallDenied(c)
    <3>1. HeldUnchanged
      BY <2>2 DEF TypeOK, CallReadsToken, CallDenied, CallState, HeldUnchanged
    <3> QED
      BY <2>2, <3>1 DEF CallReadsToken, CallDenied, Stutters, StoreEffect
  <2>3. CASE CallReadsUser(c)
    BY <1>0, <2>3
       DEF TypeOK, CallReadsUser, CallState, Stutters, HeldUnchanged, StoreEffect
  <2>4. CASE ReloginAccepted(c)
    <3>1. /\ call[c].pc = "relogin" /\ issued' = issued + 1
          /\ call' = [call EXCEPT ![c].pc = "refreshed",
                                  ![c].token = NewToken(call[c].user)]
          /\ UNCHANGED <<profile, signIn>> /\ call[c].user \in Users
      BY <2>4 DEF ReloginAccepted, JobsOK
    <3>2. Held(c) = NoToken /\ Held(c)' = NewToken(call[c].user)
      BY <2>0, <3>1 DEF TypeOK, CallState
    <3>3. \A w \in Writers \ {c} : Held(w)' = Held(w)
      BY <3>1 DEF TypeOK
    <3> QED BY <2>0, <3>1, <3>2, <3>3 DEF Grants, StoreEffect
  <2>5. CASE CallSaves(c)
    <3>1. Held(c) = call[c].token /\ Held(c) \in Token
          /\ Held(c).user = call[c].user
      BY <2>0, <2>5 DEF CallSaves, OwnInv
    <3>2. Held(c)' = NoToken
      BY <2>0, <2>5 DEF TypeOK, CallSaves, CallState
    <3>3. \A w \in Writers \ {c} : Held(w)' = Held(w)
      BY <2>5 DEF TypeOK, CallSaves
    <3>4. /\ profile' = [profile EXCEPT ![Held(c).user] = Held(c)]
          /\ issued' = issued
      BY <2>5, <3>1 DEF CallSaves
    <3> QED BY <2>0, <3>1, <3>2, <3>3, <3>4 DEF Saves, StoreEffect
  <2> QED
    BY <1>0, <1>6, <2>1, <2>2, <2>3, <2>4, <2>5
       DEF CallStep, CallAnswered, CallFails, ReloginRefused,
           ReloginUnreachable, Rethrow
<1>7. ASSUME NEW c \in Calls, StartCall(c) \/ CancelCall(c) PROVE StoreEffect
  <2>1. HeldUnchanged
    <3>1. CASE StartCall(c)
      BY <3>1 DEF TypeOK, StartCall, IdleJob, CallState, HeldUnchanged
    <3>2. CASE CancelCall(c)
      BY <3>2 DEF TypeOK, CancelCall, CallState, HeldUnchanged
    <3> QED BY <1>7, <3>1, <3>2
  <2> QED BY <1>7, <2>1 DEF StartCall, CancelCall, Stutters, StoreEffect
<1>8. ASSUME NEW l \in Logouts, LogoutDeletes(l) PROVE StoreEffect
  BY <1>8 DEF LogoutDeletes, Wipes, HeldUnchanged, StoreEffect
<1> QED
  BY <1>0, <1>1, <1>2, <1>3, <1>4, <1>5, <1>6, <1>7, <1>8
     DEF Next, Launch, LeaveLogin, LeaveMain, CheckReads, CheckDelivered,
         ReadActiveUser, ActiveUserDelivered, LogoutStep, LogoutAnswered, ReturnToMain,
         TapLogout, vars

(* No two writers hold the same token: each grant has a serial of its own. *)
DistinctInv == \A v, w \in Writers : Held(v) # NoToken /\ Held(v) = Held(w) => v = w

LEMMA HeldFacts ==
  ASSUME OwnInv
  PROVE  /\ HeldTokens = {Held(w) : w \in Writers} \ {NoToken}
         /\ \A w \in Writers : Held(w) # NoToken =>
              Held(w) \in Token /\ Held(w).serial <= issued
BY SessionConstants DEF OwnInv, HeldTokens, Held, Holding, Writers, Token

LEMMA HeldTokensNext ==
  ASSUME OwnInv' PROVE HeldTokens' = {Held(w)' : w \in Writers} \ {NoToken}
BY SessionConstants DEF OwnInv, HeldTokens, Held, Holding, Writers, Token

LEMMA StepDistinct ==
  ASSUME TypeOK, OwnInv, DistinctInv, StoreEffect PROVE DistinctInv'
<1>1. CASE Grants
  <2>1. PICK x \in Writers, u \in Users :
          /\ Held(x) = NoToken /\ Held(x)' = NewToken(u)
          /\ \A w \in Writers \ {x} : Held(w)' = Held(w)
    BY <1>1 DEF Grants
  <2>2. \A w \in Writers \ {x} : Held(w)' # NewToken(u)
    BY <2>1, HeldFacts, NewTokenFacts, SessionConstants DEF TypeOK, Token
  <2> QED BY <2>1, <2>2 DEF DistinctInv, Writers
<1>2. CASE Saves
  BY <1>2 DEF Saves, DistinctInv, Writers
<1>3. CASE Drops \/ Wipes \/ Stutters
  BY <1>3 DEF Drops, Wipes, Stutters, HeldUnchanged, DistinctInv, Writers
<1> QED BY <1>1, <1>2, <1>3 DEF StoreEffect

(* Whatever the coroutines do, the stored credentials behave as the        *)
(* abstract CredentialStore: a granted token is stored at most once, over  *)
(* its own user's row, and one that was given up never comes back.         *)
THEOREM SessionImplementsStore == Spec => StoreImplemented
<1> DEFINE Inv == TypeOK /\ JobsOK /\ OwnInv /\ DistinctInv
<1>1. Init => Inv
  BY InitTypeOK, IdleJobsOK, IdleTypes
     DEF Init, OwnInv, DistinctInv, Held, Holding, Writers
<1>2. Inv /\ [Next]_vars => Inv'
  BY StepTypeOK, StepJobsOK, StepOwn, Effects, StepDistinct
<1>3. Init => Store!StoreInit
  BY IdleTypes DEF Init, Store!StoreInit, EmptyTable, HeldTokens
<1>4. Inv /\ Inv' /\ [Next]_vars => [Store!StoreNext]_(Store!storeVars)
  <2> SUFFICES ASSUME Inv, Inv', [Next]_vars
               PROVE  [Store!StoreNext]_(Store!storeVars)
    OBVIOUS
  <2>1. /\ HeldTokens = {Held(w) : w \in Writers} \ {NoToken}
        /\ HeldTokens' = {Held(w)' : w \in Writers} \ {NoToken}
    BY HeldFacts, HeldTokensNext
  <2>2. CASE Grants
    <3>1. PICK x \in Writers, u \in Users :
            /\ Held(x) = NoToken /\ Held(x)' = NewToken(u)
            /\ \A w \in Writers \ {x} : Held(w)' = Held(w)
            /\ issued' = issued + 1 /\ profile' = profile
      BY <2>2 DEF Grants
    <3>2. NewToken(u) # NoToken
      BY NewTokenFacts, SessionConstants DEF Token
    <3>3. HeldTokens' = HeldTokens \cup {NewToken(u)}
      BY <2>1, <3>1, <3>2
    <3>4. Store!Grant(u)
      BY <3>1, <3>3 DEF Store!Grant, NewToken
    <3> QED BY <3>4 DEF Store!StoreNext
  <2>3. CASE Saves
    <3>1. PICK x \in Writers :
            /\ Held(x) \in Token /\ Held(x)' = NoToken
            /\ \A w \in Writers \ {x} : Held(w)' = Held(w)
            /\ profile' = [profile EXCEPT ![Held(x).user] = Held(x)]
            /\ issued' = issued
      BY <2>3 DEF Saves
    <3>2. Held(x) # NoToken
      BY <3>1, SessionConstants DEF Token
    <3>3. \A w \in Writers \ {x} : Held(w) # Held(x)
      BY <3>2 DEF DistinctInv
    <3>4. HeldTokens' = HeldTokens \ {Held(x)} /\ Held(x) \in HeldTokens
      BY <2>1, <3>1, <3>2, <3>3
    <3>5. Store!Store(Held(x))
      BY <3>1, <3>4 DEF Store!Store
    <3> QED BY <3>4, <3>5 DEF Store!StoreNext
  <2>4. CASE Drops
    <3>1. HeldTokens' = {} /\ UNCHANGED <<profile, issued>>
      BY <2>1, <2>4 DEF Drops
    <3>2. Store!GiveUp
      BY <3>1 DEF Store!GiveUp
    <3> QED BY <3>2 DEF Store!StoreNext
  <2>5. CASE Wipes
    <3>1. HeldTokens' = HeldTokens
      BY <2>1, <2>5 DEF Wipes, HeldUnchanged
    <3> QED
      BY <2>5, <3>1 DEF Wipes, EmptyTable, Store!Wipe, Store!StoreNext
  <2>6. CASE Stutters
    <3>1. HeldTokens' = HeldTokens
      BY <2>1, <2>6 DEF Stutters, HeldUnchanged
    <3> QED BY <2>6, <3>1 DEF Stutters, Store!storeVars
  <2> QED BY <2>2, <2>3, <2>4, <2>5, <2>6, Effects DEF StoreEffect
<1> QED
  BY <1>1, <1>2, <1>3, <1>4, PTL DEF Spec, Store!StoreSpec, StoreImplemented

(* A token that was overwritten, wiped or given up never comes back, as no *)
(* step of CredentialStore brings one (LoginViewModel.login,               *)
(* SimonisInterceptor.intercept).                                          *)
THEOREM SessionTokensDoNotReturn == Spec => TokensDoNotReturn
<1> DEFINE NoReturn ==
             \A t \in [user : Users, serial : 1..issued] :
               t \notin HeldTokens /\ profile[t.user] # t
                 => t \notin HeldTokens' /\ profile'[t.user] # t
<1>1. ASSUME TypeOK, [Store!StoreNext]_(Store!storeVars) PROVE NoReturn
  <2> SUFFICES ASSUME NEW t \in [user : Users, serial : 1..issued], t \notin HeldTokens,
                      profile[t.user] # t
               PROVE  t \notin HeldTokens' /\ profile'[t.user] # t
    OBVIOUS
  <2>1. profile \in [Users -> MaybeToken] /\ t.user \in Users /\ issued \in Nat
        /\ t.serial \in Nat /\ t.serial <= issued
    BY <1>1 DEF TypeOK
  <2>7. t # NoToken
    <3>1. t \in [user : Users, serial : Nat \ {0}]
      BY <2>1
    <3> QED BY <3>1, SessionConstants
  <2>2. ASSUME NEW u \in Users, Store!Grant(u) PROVE t \notin HeldTokens' /\ profile'[t.user] # t
    <3>1. t # [user |-> u, serial |-> issued + 1]
      BY <2>1
    <3> QED BY <2>2, <3>1 DEF Store!Grant
  <2>3. ASSUME NEW s \in HeldTokens, Store!Store(s)
        PROVE  t \notin HeldTokens' /\ profile'[t.user] # t
    <3>1. s # t /\ profile' = [profile EXCEPT ![s.user] = s] /\ HeldTokens' = HeldTokens \ {s}
      BY <2>3 DEF Store!Store
    <3>2. profile'[t.user] = s \/ profile'[t.user] = profile[t.user]
      BY <2>1, <3>1
    <3> QED BY <3>1, <3>2
  <2>4. CASE Store!GiveUp
    BY <2>4 DEF Store!GiveUp
  <2>5. CASE Store!Wipe
    BY <2>1, <2>5, <2>7 DEF Store!Wipe
  <2>6. CASE UNCHANGED Store!storeVars
    BY <2>6 DEF Store!storeVars
  <2> QED BY <1>1, <2>2, <2>3, <2>4, <2>5, <2>6 DEF Store!StoreNext
<1>2. TypeOK /\ [Store!StoreNext]_(Store!storeVars) => [NoReturn]_vars
  BY <1>1
<1> QED
  BY <1>2, SessionTypeOK, SessionImplementsStore, PTL
     DEF TokensDoNotReturn, StoreImplemented, Store!StoreSpec

-----------------------------------------------------------------------------
(* The pages.                                                              *)
Entries == [page : Pages, removed : SUBSET Pages]

(* A user that is to be delivered comes of an activity that was created.   *)
UserInv == user <= recreated + 1

(* The back stack is a path, with the page at its end in the container, or *)
(* nothing was shown yet and the one root menu is still to come.           *)
Beginning ==
    /\ container = {} /\ stack = <<>>
    /\ \/ user = 1 /\ queue = <<>>
       \/ user = 0 /\ queue = <<"menu">>
Path ==
    /\ user = 0 /\ \A i \in DOMAIN queue : queue[i] # "menu"
    /\ \E p \in Pages : container = {p}
    /\ \A i \in DOMAIN stack :
         /\ \E p \in Pages : stack[i].removed = {p}
         /\ i > 1 => stack[i].removed = {stack[i-1].page}
    /\ stack # <<>> => container = {stack[Len(stack)].page}
PathInv == recreated = 0 => Beginning \/ Path

(* A page that is shown, or that Back would show, is a fragment.           *)
KindInv == \A p \in container \cup InStack(stack) : kind[p] # "unused"

(* A list that was not shown yet is there.                                 *)
FreshInv == \A p \in Pages : fresh[p] => listed[p]

WaitInv == \A p \in container : Waiting(p) => loads[p] > 0 /\ (recreated = 0 => loader)

(* Pages the bar may be up for: the list of a menu never takes it down.    *)
Awaited(p) == UsesLoader(kind[p]) /\ (~listed[p] \/ fresh[p])
BarInv == loader /\ ~abandoned => \E p \in container : Awaited(p)

PageInv == UserInv /\ PathInv /\ KindInv /\ FreshInv /\ WaitInv /\ BarInv
NavInv == NavTypeOK /\ PageInv

-----------------------------------------------------------------------------
LEMMA NavTypeFacts ==
    ASSUME NavTypeOK
    PROVE  /\ \A p \in Pages : /\ kind[p] \in Kinds \cup {"unused"}
                               /\ loads[p] \in 0..MaxLoads
                               /\ listed[p] \in BOOLEAN /\ fresh[p] \in BOOLEAN
           /\ \A i \in DOMAIN stack : stack[i].page \in Pages
                                      /\ stack[i].removed \in SUBSET Pages
           /\ \A p \in container : p \in Pages
           /\ user \in Nat /\ recreated \in Nat /\ MaxLoads \in Nat
<1>1. ASSUME NEW i \in DOMAIN stack PROVE stack[i].page \in Pages /\ stack[i].removed \in SUBSET Pages
  <2>1. stack \in Seq(Entries)
    BY DEF NavTypeOK, Entries
  <2>2. stack[i] \in Entries
    BY <2>1
  <2> QED BY <2>2 DEF Entries
<1>2. ASSUME NEW p \in Pages
      PROVE  /\ kind[p] \in Kinds \cup {"unused"} /\ loads[p] \in 0..MaxLoads
             /\ listed[p] \in BOOLEAN /\ fresh[p] \in BOOLEAN
  BY DEF NavTypeOK
<1>3. user \in Nat /\ recreated \in Nat /\ MaxLoads \in Nat /\ \A p \in container : p \in Pages
  BY NavigationConstants DEF NavTypeOK
<1> QED BY <1>1, <1>2, <1>3

LEMMA NavInitInv == NavInit => NavInv
<1> SUFFICES ASSUME NavInit PROVE NavInv
  OBVIOUS
<1>1. NavTypeOK
  <2>1. 0 \in 0..MaxLoads /\ 1 \in 0..(MaxRecreate + 1) /\ 0 \in 0..MaxRecreate /\ 0 <= MaxQueue
    BY NavigationConstants
  <2>2. queue \in Seq(Kinds) /\ Len(queue) = 0 /\ stack \in Seq(Entries)
    BY DEF NavInit
  <2> QED BY <2>1, <2>2 DEF NavInit, NavTypeOK, Entries
<1>2. PageInv
  BY DEF NavInit, PageInv, UserInv, PathInv, Beginning, KindInv, InStack,
     FreshInv, WaitInv, BarInv
<1> QED BY <1>1, <1>2 DEF NavInv

(* The pages of a back stack.                                              *)
LEMMA InStackPages ==
    ASSUME NEW stk, NEW p
    PROVE  p \in InStack(stk) <=> \E i \in DOMAIN stk : p \in stk[i].removed \cup {stk[i].page}
BY DEF InStack

LEMMA InStackType == ASSUME NEW stk \in Seq(Entries) PROVE InStack(stk) \in SUBSET Pages
<1> SUFFICES ASSUME NEW i \in DOMAIN stk PROVE stk[i].removed \cup {stk[i].page} \in SUBSET Pages
  BY DEF InStack
<1>1. stk[i] \in Entries
  OBVIOUS
<1> QED BY <1>1 DEF Entries

LEMMA InStackAppend ==
    ASSUME NEW stk \in Seq(Entries), NEW e \in Entries
    PROVE  InStack(Append(stk, e)) \subseteq InStack(stk) \cup e.removed \cup {e.page}
<1> SUFFICES ASSUME NEW p \in InStack(Append(stk, e)), p \notin e.removed \cup {e.page}
             PROVE  p \in InStack(stk)
  OBVIOUS
<1>1. PICK i \in DOMAIN Append(stk, e) :
        p \in Append(stk, e)[i].removed \cup {Append(stk, e)[i].page}
  BY InStackPages
<1>2. Append(stk, e)[i] = IF i = Len(stk) + 1 THEN e ELSE stk[i]
  OBVIOUS
<1>3. i # Len(stk) + 1
  BY <1>1, <1>2
<1>4. i \in DOMAIN stk /\ Append(stk, e)[i] = stk[i]
  BY <1>3
<1> QED BY <1>1, <1>4, InStackPages

(* What Show makes of the bar: what enters raises it, and pages that leave *)
(* while it is up for them are remembered.                                 *)
LEMMA ShowLoader ==
    ASSUME NavTypeOK, NEW shown \in SUBSET Pages, NEW stk, NEW entering \in SUBSET shown,
           NEW knd, Show(shown, stk, entering, knd)
    PROVE  /\ \/ (\A p \in entering : ~UsesLoader(knd[p])) /\ loader' = loader
              \/ \E last \in entering : UsesLoader(knd[last]) /\ loader' = ~listed[last]
           /\ loader' \in BOOLEAN /\ abandoned' \in BOOLEAN
           /\ loader' /\ ~abandoned' => ~abandoned /\ \A p \in container \ shown : ~Unseen(p)
<1> DEFINE alive == shown \cup InStack(stk)
           had == [p \in Pages |-> p \in alive /\ listed[p]]
           raising == {p \in entering : UsesLoader(knd[p])}
<1>1. /\ IF raising = {} THEN loader' = loader
         ELSE \E last \in raising : loader' = ~had[last]
      /\ abandoned' = (loader' /\ (abandoned \/ \E p \in container \ shown : Unseen(p)))
  BY DEF Show
<1>2. ASSUME NEW p \in entering PROVE had[p] = listed[p]
  <2>1. had[p] = (p \in alive /\ listed[p]) /\ p \in alive /\ listed[p] \in BOOLEAN
    BY NavTypeFacts
  <2> QED BY <2>1
<1> HIDE DEF had
<1>3. \/ (\A p \in entering : ~UsesLoader(knd[p])) /\ loader' = loader
      \/ \E last \in entering : UsesLoader(knd[last]) /\ loader' = ~listed[last]
  <2>1. CASE raising = {}
    BY <1>1, <2>1
  <2>2. CASE raising # {}
    BY <1>1, <1>2, <2>2
  <2> QED BY <2>1, <2>2
<1>4. loader' \in BOOLEAN /\ abandoned' \in BOOLEAN
  <2>1. loader \in BOOLEAN
    BY DEF NavTypeOK
  <2>2. loader' \in BOOLEAN
    BY <1>3, <2>1
  <2> QED BY <1>1, <2>2
<1>5. loader' /\ ~abandoned' => ~abandoned /\ \A p \in container \ shown : ~Unseen(p)
  BY <1>1
<1> QED BY <1>3, <1>4, <1>5

(* What Show makes of the pages.                                           *)
LEMMA ShowFacts ==
    ASSUME NavTypeOK, NEW shown \in SUBSET Pages, NEW stk, NEW entering \in SUBSET shown,
           NEW knd \in [Pages -> Kinds \cup {"unused"}], Show(shown, stk, entering, knd)
    PROVE  /\ container' = shown /\ stack' = stk
           /\ kind' \in [Pages -> Kinds \cup {"unused"}] /\ loads' \in [Pages -> 0..MaxLoads]
           /\ listed' \in [Pages -> BOOLEAN] /\ fresh' \in [Pages -> BOOLEAN]
           /\ \A p \in shown :
                /\ kind'[p] = knd[p] /\ listed'[p] = listed[p]
                /\ fresh'[p] = (p \notin entering /\ fresh[p])
                /\ loads'[p] = IF p \in entering /\ Loads(knd[p]) THEN loads[p] + 1 ELSE loads[p]
           /\ \A p \in Pages \cap InStack(stk) : kind'[p] = knd[p]
           /\ \A p \in Pages : fresh'[p] => fresh[p] /\ (listed[p] => listed'[p])
<1> DEFINE alive == shown \cup InStack(stk)
           had == [p \in Pages |-> p \in alive /\ listed[p]]
<1>1. /\ container' = shown /\ stack' = stk /\ listed' = had
      /\ kind' = [p \in Pages |-> IF p \in alive THEN knd[p] ELSE "unused"]
      /\ loads' = [p \in Pages |->
                       IF p \notin alive THEN 0
                       ELSE IF p \in entering /\ Loads(knd[p]) THEN loads[p] + 1
                       ELSE loads[p]]
      /\ fresh' = [p \in Pages |-> p \in alive \ entering /\ fresh[p]]
      /\ \A p \in entering : loads[p] < MaxLoads
  BY DEF Show
<1>2. /\ \A p \in shown : p \in alive /\ p \in Pages
      /\ \A p \in Pages \cap InStack(stk) : p \in alive
  OBVIOUS
<1> HIDE DEF alive
<1>3. \A p \in Pages \cap InStack(stk) : kind'[p] = knd[p]
  BY <1>1, <1>2
<1>4. kind' \in [Pages -> Kinds \cup {"unused"}]
  BY <1>1
<1>5. loads' \in [Pages -> 0..MaxLoads]
  <2> SUFFICES ASSUME NEW p \in Pages
               PROVE  (IF p \notin alive THEN 0
                       ELSE IF p \in entering /\ Loads(knd[p]) THEN loads[p] + 1
                       ELSE loads[p]) \in 0..MaxLoads
    BY <1>1
  <2>1. loads[p] \in 0..MaxLoads /\ MaxLoads \in Nat /\ 0 \in 0..MaxLoads
    BY NavTypeFacts
  <2>2. p \in entering => loads[p] + 1 \in 0..MaxLoads
    BY <1>1, <2>1
  <2> QED BY <2>1, <2>2
<1>6. listed' \in [Pages -> BOOLEAN] /\ fresh' \in [Pages -> BOOLEAN]
  BY <1>1
<1>7. ASSUME NEW p \in shown
      PROVE  /\ kind'[p] = knd[p] /\ listed'[p] = listed[p]
             /\ fresh'[p] = (p \notin entering /\ fresh[p])
             /\ loads'[p] = IF p \in entering /\ Loads(knd[p]) THEN loads[p] + 1 ELSE loads[p]
  <2>1. p \in alive /\ p \in Pages /\ listed[p] \in BOOLEAN /\ fresh[p] \in BOOLEAN
    BY <1>2, NavTypeFacts
  <2>2. kind'[p] = knd[p]
        /\ loads'[p] = IF p \in entering /\ Loads(knd[p]) THEN loads[p] + 1 ELSE loads[p]
    BY <1>1, <2>1
  <2>3. listed'[p] = (p \in alive /\ listed[p]) /\ fresh'[p] = (p \in alive \ entering /\ fresh[p])
    BY <1>1, <2>1
  <2> QED BY <2>1, <2>2, <2>3
<1>8. ASSUME NEW p \in Pages, fresh'[p] PROVE fresh[p] /\ (listed[p] => listed'[p])
  BY <1>1, <1>8
<1> QED BY <1>1, <1>3, <1>4, <1>5, <1>6, <1>7, <1>8

(* The bar goes with the pages, whatever is shown: what enters starts a    *)
(* load and raises it, what stays keeps its own.                           *)
LEMMA ShowBar ==
    ASSUME NavInv, NEW shown \in SUBSET Pages, NEW stk, NEW entering \in SUBSET shown,
           shown \ entering \subseteq container,
           NEW knd \in [Pages -> Kinds \cup {"unused"}],
           \A p \in Pages \ entering : knd[p] = kind[p],
           \A p \in entering : p \notin container \/ ~UsesLoader(kind[p]),
           Show(shown, stk, entering, knd), recreated' = recreated,
           recreated = 0 => \E p \in Pages : shown = {p}
    PROVE  FreshInv' /\ WaitInv' /\ BarInv'
<1>1. NavTypeOK /\ FreshInv /\ WaitInv /\ BarInv
  BY DEF NavInv, PageInv
<1>2. container' = shown
  BY <1>1, ShowFacts
<1>3. \A p \in shown :
                /\ kind'[p] = knd[p] /\ listed'[p] = listed[p]
                /\ fresh'[p] = (p \notin entering /\ fresh[p])
                /\ loads'[p] = IF p \in entering /\ Loads(knd[p]) THEN loads[p] + 1 ELSE loads[p]
  BY <1>1, ShowFacts
<1>4. \A p \in Pages : fresh'[p] => fresh[p] /\ (listed[p] => listed'[p])
  BY <1>1, ShowFacts
<1>5. \/ (\A p \in entering : ~UsesLoader(knd[p])) /\ loader' = loader
      \/ \E last \in entering : UsesLoader(knd[last]) /\ loader' = ~listed[last]
  BY <1>1, ShowLoader
<1>6. loader' /\ ~abandoned' => ~abandoned /\ \A p \in container \ shown : ~Unseen(p)
  BY <1>1, ShowLoader
<1>7. FreshInv'
  BY <1>1, <1>4 DEF FreshInv
<1>8. WaitInv'
  <2> SUFFICES ASSUME NEW p \in shown, UsesLoader(knd[p]), ~listed[p]
               PROVE  loads'[p] > 0 /\ (recreated = 0 => loader')
    BY <1>2, <1>3 DEF WaitInv, Waiting
  <2>1. CASE p \in entering
    <3>1. loads[p] \in Nat /\ Loads(knd[p])
      BY <1>1, NavTypeFacts, NavigationConstants DEF UsesLoader, Loads
    <3>2. loads'[p] > 0
      BY <1>3, <2>1, <3>1
    <3>3. recreated = 0 => loader'
      BY <1>5, <2>1
    <3> QED BY <3>2, <3>3
  <2>2. CASE p \notin entering
    <3>1. p \in container /\ Waiting(p)
      BY <2>2 DEF Waiting
    <3>2. loads'[p] > 0
      BY <1>1, <1>3, <2>2, <3>1 DEF WaitInv
    <3>3. recreated = 0 => loader' = loader
      BY <1>5, <2>2
    <3> QED BY <1>1, <3>1, <3>2, <3>3 DEF WaitInv
  <2> QED BY <2>1, <2>2
<1>9. BarInv'
  <2> SUFFICES ASSUME loader', ~abandoned'
               PROVE  \E p \in shown : UsesLoader(knd[p]) /\ (~listed[p] \/ fresh'[p])
    BY <1>2, <1>3 DEF BarInv, Awaited
  <2>1. CASE \E last \in entering : UsesLoader(knd[last]) /\ loader' = ~listed[last]
    BY <2>1
  <2>2. CASE (\A p \in entering : ~UsesLoader(knd[p])) /\ loader' = loader
    <3>1. PICK p \in container : Awaited(p)
      BY <1>1, <1>6, <2>2 DEF BarInv
    <3>2. p \in shown /\ p \notin entering
      BY <1>6, <3>1 DEF Awaited, Unseen, Waiting
    <3> QED BY <1>3, <3>1, <3>2 DEF Awaited
  <2> QED BY <1>5, <2>1, <2>2
<1> QED BY <1>7, <1>8, <1>9

LEMMA ShowType ==
    ASSUME NavTypeOK, NEW shown \in SUBSET Pages, NEW stk \in Seq(Entries),
           NEW entering \in SUBSET shown, NEW knd \in [Pages -> Kinds \cup {"unused"}],
           Show(shown, stk, entering, knd), UNCHANGED <<user, web, recreated>>,
           queue' \in Seq(Kinds), Len(queue') <= MaxQueue
    PROVE  NavTypeOK'
<1>1. /\ container' = shown /\ stack' = stk
      /\ kind' \in [Pages -> Kinds \cup {"unused"}] /\ loads' \in [Pages -> 0..MaxLoads]
      /\ listed' \in [Pages -> BOOLEAN] /\ fresh' \in [Pages -> BOOLEAN]
  BY ShowFacts
<1>2. loader' \in BOOLEAN /\ abandoned' \in BOOLEAN
  BY ShowLoader
<1> QED BY <1>1, <1>2 DEF NavTypeOK, Entries

(* What is shown and what the back stack names stay fragments.              *)
LEMMA ShowKind ==
    ASSUME NavTypeOK, NEW shown \in SUBSET Pages, NEW stk \in Seq(Entries),
           NEW entering \in SUBSET shown, NEW knd \in [Pages -> Kinds \cup {"unused"}],
           \A p \in shown \cup InStack(stk) : knd[p] # "unused",
           Show(shown, stk, entering, knd)
    PROVE  KindInv'
<1>1. container' = shown /\ stack' = stk /\ \A p \in shown : kind'[p] = knd[p]
  BY ShowFacts
<1>2. \A p \in Pages \cap InStack(stk) : kind'[p] = knd[p]
  BY ShowFacts
<1>3. InStack(stk) \in SUBSET Pages
  BY InStackType
<1>4. ASSUME NEW p \in shown \cup InStack(stk) PROVE kind'[p] # "unused"
  BY <1>1, <1>2, <1>3
<1>5. InStack(stack)' = InStack(stk)
  BY <1>1 DEF InStack
<1> QED BY <1>1, <1>4, <1>5 DEF KindInv

-----------------------------------------------------------------------------
(* Pages come and go.                                                      *)
LEMMA RunTransactionInv == ASSUME NavInv, RunTransaction PROVE NavInv'
<1> DEFINE entry(p) == [page |-> p, removed |-> container]
           stk(p) == IF Head(queue) = "menu" THEN stack ELSE Append(stack, entry(p))
           knd(p) == [kind EXCEPT ![p] = Head(queue)]
<1>1. PICK p \in Pages : kind[p] = "unused" /\ Show({p}, stk(p), {p}, knd(p))
  BY DEF RunTransaction
<1>2. queue # <<>> /\ queue' = Tail(queue) /\ UNCHANGED <<user, web, recreated>>
  BY DEF RunTransaction
<1>3. NavTypeOK /\ PathInv /\ KindInv
  BY DEF NavInv, PageInv
<1>4. /\ queue \in Seq(Kinds) /\ Head(queue) = queue[1] /\ 1 \in DOMAIN queue /\ Head(queue) \in Kinds
      /\ Tail(queue) \in Seq(Kinds) /\ Len(Tail(queue)) <= MaxQueue
      /\ \A i \in DOMAIN Tail(queue) : i + 1 \in DOMAIN queue /\ Tail(queue)[i] = queue[i + 1]
  <2>1. queue \in Seq(Kinds) /\ Len(queue) <= MaxQueue /\ MaxQueue \in Nat
    BY <1>3, NavigationConstants DEF NavTypeOK
  <2> QED BY <1>2, <2>1
<1>5. stack \in Seq(Entries) /\ entry(p) \in Entries
  BY <1>3 DEF NavTypeOK, Entries
<1> HIDE DEF entry
<1>6. stk(p) \in Seq(Entries)
  BY <1>5
<1>7. knd(p) \in [Pages -> Kinds \cup {"unused"}]
  BY <1>3, <1>4 DEF NavTypeOK
<1>8. \A q \in Pages \ {p} : knd(p)[q] = kind[q]
  BY <1>3 DEF NavTypeOK
<1>16. knd(p)[p] = Head(queue) /\ Head(queue) # "unused"
  BY <1>3, <1>4 DEF NavTypeOK, Kinds
<1>9. entry(p).page = p /\ entry(p).removed = container
  BY DEF entry
<1> HIDE DEF knd
<1>10. container' = {p} /\ stack' = stk(p)
  <2>1. {p} \in SUBSET Pages /\ {p} \in SUBSET {p}
    OBVIOUS
  <2> HIDE DEF stk
  <2> QED BY <1>1, <1>3, <1>7, <2>1, ShowFacts
<1>11. NavTypeOK'
  BY <1>1, <1>2, <1>3, <1>4, <1>6, <1>7, ShowType
<1>12. FreshInv' /\ WaitInv' /\ BarInv'
  BY <1>1, <1>2, <1>7, <1>8, ShowBar DEF UsesLoader
<1>13. PathInv'
  <2> SUFFICES ASSUME recreated = 0 PROVE Path'
    BY <1>2 DEF PathInv
  <2>1. CASE Beginning
    <3>1. queue = <<"menu">> /\ user = 0 /\ stack = <<>> /\ Head(queue) = "menu"
      BY <1>2, <2>1 DEF Beginning
    <3>2. queue' = <<>> /\ user' = 0 /\ stack' = <<>>
      BY <1>2, <1>10, <3>1
    <3> QED BY <1>10, <3>2 DEF Path
  <2>2. CASE Path
    <3>1. Head(queue) # "menu" /\ \A i \in DOMAIN queue' : queue'[i] # "menu"
      BY <1>2, <1>4, <2>2 DEF Path
    <3>2. stack' = Append(stack, entry(p))
      BY <1>10, <3>1
    <3>3. /\ Len(stack') = Len(stack) + 1 /\ Len(stack) \in Nat /\ DOMAIN stack' = 1..(Len(stack) + 1)
          /\ DOMAIN stack = 1..Len(stack)
          /\ stack'[Len(stack) + 1] = entry(p) /\ \A i \in DOMAIN stack : stack'[i] = stack[i]
      BY <1>5, <3>2
    <3>4. ASSUME NEW i \in DOMAIN stack'
          PROVE  /\ \E q \in Pages : stack'[i].removed = {q}
                 /\ i > 1 => stack'[i].removed = {stack'[i-1].page}
      <4>1. CASE i \in DOMAIN stack
        <5>1. i > 1 => i - 1 \in DOMAIN stack
          BY <3>3, <4>1
        <5> QED BY <2>2, <3>3, <4>1, <5>1 DEF Path
      <4>2. CASE i = Len(stack) + 1
        <5>1. stack'[i].removed = container
          BY <1>9, <3>3, <4>2
        <5>2. i > 1 => stack # <<>> /\ i - 1 = Len(stack) /\ Len(stack) \in DOMAIN stack
          BY <1>5, <3>3, <4>2
        <5> QED BY <2>2, <3>3, <5>1, <5>2 DEF Path
      <4> QED BY <3>3, <4>1, <4>2
    <3>5. container' = {stack'[Len(stack')].page}
      BY <1>9, <1>10, <3>3
    <3> QED BY <1>2, <1>10, <2>2, <3>1, <3>4, <3>5 DEF Path
  <2> QED BY <1>3, <2>1, <2>2 DEF PathInv
<1>14. UserInv'
  BY <1>2 DEF NavInv, PageInv, UserInv
<1>15. KindInv'
  <2>1. InStack(stk(p)) \subseteq InStack(stack) \cup container \cup {p}
    BY <1>5, <1>9, InStackAppend
  <2>2. \A q \in {p} \cup InStack(stk(p)) : knd(p)[q] # "unused"
    BY <1>3, <1>8, <1>16, <2>1, InStackType, <1>6 DEF KindInv
  <2> HIDE DEF stk
  <2> QED BY <1>1, <1>3, <1>6, <1>7, <2>2, ShowKind
<1> QED BY <1>11, <1>12, <1>13, <1>14, <1>15 DEF NavInv, PageInv

LEMMA BackInv == ASSUME NavInv, Back PROVE NavInv'
<1> DEFINE top == stack[Len(stack)]
           below == SubSeq(stack, 1, Len(stack) - 1)
           shown == (container \ {top.page}) \cup top.removed
           entering == top.removed \ container
<1>1. /\ stack # <<>> /\ queue = <<>> /\ UNCHANGED <<queue, user, web, recreated>>
      /\ Show(shown, below, entering, kind)
  BY DEF Back
<1>2. NavTypeOK /\ PathInv /\ KindInv
  BY DEF NavInv, PageInv
<1>3. /\ stack \in Seq(Entries) /\ Len(stack) \in DOMAIN stack /\ Len(stack) - 1 \in Nat
      /\ below \in Seq(Entries) /\ Len(below) = Len(stack) - 1 /\ DOMAIN below = 1..(Len(stack) - 1)
      /\ DOMAIN stack = 1..Len(stack)
      /\ \A i \in DOMAIN below : i \in DOMAIN stack /\ below[i] = stack[i]
  <2>1. stack \in Seq(Entries)
    BY <1>2 DEF NavTypeOK, Entries
  <2>2. Len(stack) \in Nat \ {0} /\ DOMAIN stack = 1..Len(stack)
    BY <1>1, <2>1
  <2>3. 1 \in 1..(Len(stack) + 1) /\ Len(stack) - 1 \in 0..Len(stack)
    BY <2>2
  <2>4. below \in Seq(Entries) /\ Len(below) = Len(stack) - 1
        /\ \A i \in 1..(Len(stack) - 1) : below[i] = stack[i]
    BY <2>1, <2>2, <2>3
  <2> HIDE DEF below
  <2>5. DOMAIN below = 1..(Len(stack) - 1)
    BY <2>2, <2>4
  <2> QED BY <2>1, <2>2, <2>4, <2>5
<1>4. top.removed \in SUBSET Pages /\ container \in SUBSET Pages
  BY <1>2, <1>3, NavTypeFacts DEF NavTypeOK
<1>5. /\ shown \in SUBSET Pages /\ entering \in SUBSET shown /\ shown \ entering \subseteq container
      /\ \A p \in entering : p \notin container
  BY <1>4
<1>6. kind \in [Pages -> Kinds \cup {"unused"}]
  BY <1>2 DEF NavTypeOK
<1>7. ASSUME recreated = 0
      PROVE  /\ Path
             /\ \E p \in Pages : top.removed = {p}
             /\ shown = top.removed
             /\ Len(stack) > 1 => shown = {stack[Len(stack) - 1].page}
  <2>1. Path
    BY <1>1, <1>2, <1>7 DEF PathInv, Beginning
  <2> QED BY <1>1, <1>3, <2>1 DEF Path
<1>13. shown \cup InStack(below) \subseteq container \cup InStack(stack)
  <2>1. top.removed \subseteq InStack(stack)
    BY <1>3, InStackPages
  <2>2. InStack(below) \subseteq InStack(stack)
    <3> HIDE DEF below
    <3> QED BY <1>3, InStackPages
  <2> QED BY <2>1, <2>2
<1> HIDE DEF shown, entering, below
<1>8. container' = shown /\ stack' = below
  BY <1>1, <1>2, <1>5, <1>6, ShowFacts
<1>9. NavTypeOK'
  <2>1. queue' \in Seq(Kinds) /\ Len(queue') <= MaxQueue
    BY <1>1, <1>2 DEF NavTypeOK
  <2> QED BY <1>1, <1>2, <1>3, <1>5, <1>6, <2>1, ShowType
<1>10. FreshInv' /\ WaitInv' /\ BarInv'
  BY <1>1, <1>5, <1>6, <1>7, ShowBar
<1>11. PathInv'
  <2> SUFFICES ASSUME recreated = 0 PROVE Path'
    BY <1>1 DEF PathInv
  <2>1. ASSUME NEW i \in DOMAIN stack'
        PROVE  /\ \E p \in Pages : stack'[i].removed = {p}
               /\ i > 1 => stack'[i].removed = {stack'[i-1].page}
    <3>1. i \in DOMAIN stack /\ stack'[i] = stack[i]
          /\ (i > 1 => i - 1 \in DOMAIN stack /\ stack'[i-1] = stack[i-1])
      BY <1>3, <1>8
    <3> QED BY <1>7, <3>1 DEF Path
  <2>2. ASSUME stack' # <<>> PROVE container' = {stack'[Len(stack')].page}
    <3>1. Len(stack) > 1 /\ Len(stack') = Len(stack) - 1 /\ stack'[Len(stack')] = stack[Len(stack) - 1]
      BY <1>3, <1>8, <2>2
    <3> QED BY <1>7, <1>8, <3>1
  <2> QED BY <1>1, <1>7, <1>8, <2>1, <2>2 DEF Path
<1>12. UserInv'
  BY <1>1 DEF NavInv, PageInv, UserInv
<1>14. KindInv'
  BY <1>1, <1>2, <1>3, <1>5, <1>6, <1>13, ShowKind DEF KindInv
<1> QED BY <1>9, <1>10, <1>11, <1>12, <1>14 DEF NavInv, PageInv

LEMMA RestartInv == ASSUME Restart PROVE NavInv'
<1>1. NavTypeOK'
  <2>1. 0 \in 0..MaxLoads /\ 1 \in 0..(MaxRecreate + 1) /\ 0 \in 0..MaxRecreate /\ 0 <= MaxQueue
    BY NavigationConstants
  <2>2. queue' \in Seq(Kinds) /\ Len(queue') = 0 /\ stack' \in Seq(Entries)
    BY DEF Restart
  <2> QED BY <2>1, <2>2 DEF Restart, NavTypeOK, Entries
<1>2. PageInv'
  BY DEF Restart, PageInv, UserInv, PathInv, Beginning, KindInv, InStack,
     FreshInv, WaitInv, BarInv
<1> QED BY <1>1, <1>2 DEF NavInv

-----------------------------------------------------------------------------
(* Steps that leave the pages as they are, and commit something or not.    *)
LEMMA StayInv ==
    ASSUME NavInv,
           UNCHANGED <<kind, loads, listed, fresh, container, stack, loader, abandoned, recreated>>,
           queue' \in Seq(Kinds), Len(queue') <= MaxQueue,
           web' \in BOOLEAN, user' \in Nat, user' <= user,
           recreated = 0 /\ Beginning => Beginning',
           recreated = 0 /\ Path => user' = 0 /\ \A i \in DOMAIN queue' : queue'[i] # "menu"
    PROVE  NavInv'
<1>1. NavTypeOK'
  BY NavigationConstants DEF NavInv, NavTypeOK
<1>2. UserInv'
  BY <1>1, NavTypeFacts DEF NavInv, PageInv, UserInv
<1>3. PathInv' /\ KindInv'
  BY DEF NavInv, PageInv, PathInv, Path, KindInv, InStack
<1>4. FreshInv' /\ WaitInv' /\ BarInv'
  BY DEF NavInv, PageInv, FreshInv, WaitInv, BarInv, Waiting, Awaited
<1> QED BY <1>1, <1>2, <1>3, <1>4 DEF NavInv, PageInv

LEMMA UserDeliveredInv == ASSUME NavInv, UserDelivered PROVE NavInv'
<1>1. /\ user > 0 /\ user' = user - 1 /\ Len(queue) < MaxQueue /\ queue' = Append(queue, "menu")
      /\ UNCHANGED <<kind, loads, listed, fresh, container, stack, loader, web, abandoned, recreated>>
  BY DEF UserDelivered
<1>2. NavTypeOK /\ user \in Nat /\ queue \in Seq(Kinds) /\ MaxQueue \in Nat
  BY NavTypeFacts, NavigationConstants DEF NavInv, NavTypeOK
<1>3. user' \in Nat /\ user' <= user
  BY <1>1, <1>2
<1>4. queue' \in Seq(Kinds) /\ Len(queue') <= MaxQueue
  BY <1>1, <1>2 DEF Kinds
<1>5. Beginning => Beginning'
  <2> SUFFICES ASSUME Beginning PROVE Beginning'
    OBVIOUS
  <2>1. user = 1 /\ queue = <<>>
    BY <1>1 DEF Beginning
  <2>2. user' = 0 /\ queue' = <<"menu">>
    BY <1>1, <2>1
  <2> QED BY <1>1, <2>2 DEF Beginning
<1>6. ~Path
  BY <1>1 DEF Path
<1> QED BY <1>1, <1>2, <1>3, <1>4, <1>5, <1>6, StayInv DEF NavTypeOK

LEMMA TapInv == ASSUME NavInv, NEW p \in Pages, Tap(p) PROVE NavInv'
<1>1. /\ p \in container /\ Len(queue) < MaxQueue
      /\ UNCHANGED <<kind, loads, listed, fresh, container, stack, loader, user, web, abandoned,
                     recreated>>
  BY DEF Tap
<1>2. NavTypeOK /\ user \in Nat /\ queue \in Seq(Kinds) /\ MaxQueue \in Nat
  BY NavTypeFacts, NavigationConstants DEF NavInv, NavTypeOK
<1>3. PICK k \in Leads(kind[p]) : queue' = Append(queue, k)
  BY DEF Tap
<1>4. k \in Kinds \ {"menu"}
  <2>1. kind[p] \in Kinds \cup {"unused"}
    BY <1>2, NavTypeFacts
  <2>2. kind[p] # "unused"
    BY <1>1 DEF NavInv, PageInv, KindInv
  <2>3. ASSUME NEW c, c \in Kinds PROVE Leads(c) \subseteq Kinds \ {"menu"}
    BY <2>3 DEF Leads, Kinds
  <2> QED BY <1>3, <2>1, <2>2, <2>3
<1>5. queue' \in Seq(Kinds) /\ Len(queue') <= MaxQueue
  BY <1>1, <1>2, <1>3, <1>4
<1>6. ~Beginning
  BY <1>1 DEF Beginning
<1>7. Path => \A i \in DOMAIN queue' : queue'[i] # "menu"
  BY <1>2, <1>3, <1>4 DEF Path
<1>8. web' \in BOOLEAN /\ user' \in Nat /\ user' <= user /\ (Path => user' = 0)
  BY <1>1, <1>2 DEF NavTypeOK, Path
<1> QED BY <1>1, <1>5, <1>6, <1>7, <1>8, StayInv

LEMMA OpenWebFormInv == ASSUME NavInv, NEW p \in Pages, OpenWebForm(p) PROVE NavInv'
<1>1. /\ web' = TRUE
      /\ UNCHANGED <<kind, loads, listed, fresh, container, stack, queue, loader, user, abandoned,
                     recreated>>
  BY DEF OpenWebForm
<1>2. NavTypeOK /\ user \in Nat /\ queue \in Seq(Kinds) /\ Len(queue) <= MaxQueue
  BY NavTypeFacts DEF NavInv, NavTypeOK
<1>3. Beginning => Beginning'
  BY <1>1 DEF Beginning
<1> QED BY <1>1, <1>2, <1>3, StayInv DEF Path

-----------------------------------------------------------------------------
(* Lists come, and are shown.                                              *)
LEMMA CloseWebFormInv == ASSUME NavInv, CloseWebForm PROVE NavInv'
<1>1. /\ web' = FALSE
      /\ loader' = (loader /\ ~\E p \in container : fresh[p] /\ UsesLoader(kind[p]))
      /\ fresh' = [p \in Pages |-> fresh[p] /\ p \notin container]
      /\ abandoned' = (abandoned /\ loader')
      /\ UNCHANGED <<kind, loads, listed, container, stack, queue, user, recreated>>
  BY DEF CloseWebForm
<1>2. NavTypeOK /\ UserInv /\ PathInv /\ KindInv /\ FreshInv /\ WaitInv /\ BarInv
  BY DEF NavInv, PageInv
<1>3. NavTypeOK'
  BY <1>1, <1>2 DEF NavTypeOK
<1>4. UserInv' /\ PathInv' /\ KindInv'
  BY <1>1, <1>2 DEF UserInv, PathInv, Beginning, Path, KindInv, InStack
<1>5. FreshInv'
  BY <1>1, <1>2 DEF FreshInv
<1>6. WaitInv'
  <2> SUFFICES ASSUME NEW p \in container, Waiting(p)
               PROVE  loads[p] > 0 /\ (recreated = 0 => loader')
    BY <1>1 DEF WaitInv, Waiting
  <2>1. loads[p] > 0 /\ (recreated = 0 => loader)
    BY <1>2 DEF WaitInv
  <2>2. ASSUME recreated = 0, NEW q \in container PROVE ~(fresh[q] /\ UsesLoader(kind[q]))
    <3>1. q = p
      BY <1>2, <2>2 DEF PathInv, Beginning, Path
    <3>2. ~listed[q] /\ q \in Pages
      BY <1>2, <3>1, NavTypeFacts DEF Waiting
    <3> QED BY <1>2, <3>2 DEF FreshInv
  <2> QED BY <1>1, <2>1, <2>2
<1>7. BarInv'
  <2> SUFFICES ASSUME loader', ~abandoned' PROVE \E p \in container : Awaited(p)'
    BY <1>1 DEF BarInv
  <2>1. PICK p \in container : Awaited(p)
    BY <1>1, <1>2 DEF BarInv
  <2>2. ~fresh[p] /\ UsesLoader(kind[p])
    BY <1>1, <2>1 DEF Awaited
  <2> QED BY <1>1, <2>1, <2>2 DEF Awaited
<1> QED BY <1>3, <1>4, <1>5, <1>6, <1>7 DEF NavInv, PageInv

LEMMA LoadDeliveredInv == ASSUME NavInv, NEW p \in Pages, LoadDelivered(p) PROVE NavInv'
<1> DEFINE seen == p \in container /\ ~web
<1>1. /\ loads[p] > 0 /\ loads' = [loads EXCEPT ![p] = @ - 1]
      /\ listed' = [listed EXCEPT ![p] = TRUE] /\ fresh' = [fresh EXCEPT ![p] = ~seen]
      /\ loader' = (loader /\ ~(seen /\ UsesLoader(kind[p])))
      /\ abandoned' = (abandoned /\ loader')
      /\ UNCHANGED <<kind, container, stack, queue, user, web, recreated>>
  BY DEF LoadDelivered
<1>2. NavTypeOK /\ UserInv /\ PathInv /\ KindInv /\ FreshInv /\ WaitInv /\ BarInv
  BY DEF NavInv, PageInv
<1>3. seen \in BOOLEAN /\ loads[p] - 1 \in 0..MaxLoads
  BY <1>1, <1>2, NavTypeFacts
<1> HIDE DEF seen
<1>4. NavTypeOK'
  BY <1>1, <1>2, <1>3 DEF NavTypeOK
<1>5. /\ listed'[p] = TRUE /\ fresh'[p] = ~seen
      /\ \A q \in Pages : q # p => listed'[q] = listed[q] /\ fresh'[q] = fresh[q] /\ loads'[q] = loads[q]
  BY <1>1, <1>2 DEF NavTypeOK
<1>6. UserInv' /\ PathInv' /\ KindInv'
  BY <1>1, <1>2 DEF UserInv, PathInv, Beginning, Path, KindInv, InStack
<1>7. FreshInv'
  BY <1>2, <1>5 DEF FreshInv
<1>8. WaitInv'
  <2> SUFFICES ASSUME NEW q \in container, Waiting(q)'
               PROVE  loads'[q] > 0 /\ (recreated = 0 => loader')
    BY <1>1 DEF WaitInv
  <2>1. q # p /\ q \in Pages
    BY <1>2, <1>5, NavTypeFacts DEF Waiting
  <2>2. Waiting(q)
    BY <1>1, <1>5, <2>1 DEF Waiting
  <2>3. recreated = 0 => ~seen
    BY <1>2, <2>1 DEF PathInv, Beginning, Path, seen
  <2> QED BY <1>1, <1>2, <1>5, <2>1, <2>2, <2>3 DEF WaitInv
<1>9. BarInv'
  <2> SUFFICES ASSUME loader', ~abandoned' PROVE \E q \in container : Awaited(q)'
    BY <1>1 DEF BarInv
  <2>1. PICK q \in container : Awaited(q)
    BY <1>1, <1>2 DEF BarInv
  <2>2. CASE q = p
    <3>1. ~seen
      BY <1>1, <2>1, <2>2 DEF Awaited
    <3> QED BY <1>1, <1>5, <2>1, <2>2, <3>1 DEF Awaited
  <2>3. CASE q # p
    BY <1>1, <1>2, <1>5, <2>1, <2>3, NavTypeFacts DEF Awaited
  <2> QED BY <2>2, <2>3
<1> QED BY <1>4, <1>6, <1>7, <1>8, <1>9 DEF NavInv, PageInv

(* A configuration change ends what is known of the path, not of the bar.  *)
LEMMA RecreateInv == ASSUME NavInv, Recreate PROVE NavInv'
<1> DEFINE raising == {p \in container : UsesLoader(kind[p])}
<1>1. /\ recreated < MaxRecreate /\ recreated' = recreated + 1 /\ container # {}
      /\ \A p \in container : loads[p] < MaxLoads
      /\ loads' = [p \in Pages |-> IF p \in container /\ Loads(kind[p])
                                   THEN loads[p] + 1 ELSE loads[p]]
      /\ fresh' = [p \in Pages |-> fresh[p] /\ p \notin container]
      /\ IF raising = {} THEN loader' = FALSE
         ELSE \E last \in raising : loader' = ~listed[last]
      /\ abandoned' = FALSE /\ queue' = <<"menu">> /\ user' = user + 1 /\ queue = <<>>
      /\ Room(2)
      /\ UNCHANGED <<kind, listed, container, stack, web>>
  BY DEF Recreate
<1>2. NavTypeOK /\ UserInv /\ KindInv /\ FreshInv /\ WaitInv /\ BarInv
  BY DEF NavInv, PageInv
<1>3. /\ recreated \in Nat /\ user \in Nat /\ MaxRecreate \in Nat /\ user <= recreated + 1
      /\ recreated' # 0 /\ recreated' \in 0..MaxRecreate /\ user' \in 0..(MaxRecreate + 1)
      /\ user' <= recreated' + 1
  <2>1. recreated \in Nat /\ user \in Nat /\ MaxRecreate \in Nat /\ user <= recreated + 1
    BY <1>2, NavTypeFacts, NavigationConstants DEF UserInv
  <2> QED BY <1>1, <2>1
<1>4. \/ raising = {} /\ loader' = FALSE
      \/ \E last \in container : UsesLoader(kind[last]) /\ loader' = ~listed[last]
  BY <1>1
<1>5. loads' \in [Pages -> 0..MaxLoads] /\ \A p \in container : Loads(kind[p]) => loads'[p] > 0
  <2>1. ASSUME NEW p \in Pages
        PROVE  /\ (IF p \in container /\ Loads(kind[p]) THEN loads[p] + 1 ELSE loads[p]) \in 0..MaxLoads
               /\ loads[p] + 1 > 0
    BY <1>1, <1>2, NavTypeFacts
  <2> QED BY <1>1, <1>2, <2>1, NavTypeFacts
<1>6. NavTypeOK'
  <2>1. loader' \in BOOLEAN
    BY <1>4
  <2>2. queue' \in Seq(Kinds) /\ Len(queue') <= MaxQueue
    BY <1>1, NavigationConstants DEF Kinds
  <2>3. fresh' \in [Pages -> BOOLEAN]
    BY <1>1
  <2> QED BY <1>1, <1>2, <1>3, <1>5, <2>1, <2>2, <2>3 DEF NavTypeOK
<1>7. UserInv' /\ PathInv' /\ KindInv'
  BY <1>1, <1>2, <1>3 DEF UserInv, PathInv, KindInv, InStack
<1>8. FreshInv'
  BY <1>1, <1>2 DEF FreshInv
<1>9. WaitInv'
  <2>1. \A k : UsesLoader(k) => Loads(k)
    BY DEF UsesLoader, Loads
  <2> QED BY <1>1, <1>3, <1>5, <2>1 DEF WaitInv, Waiting
<1>10. BarInv'
  <2> SUFFICES ASSUME loader' PROVE \E p \in container : UsesLoader(kind[p]) /\ ~listed[p]
    BY <1>1 DEF BarInv, Awaited
  <2> QED BY <1>4
<1> QED BY <1>6, <1>7, <1>8, <1>9, <1>10 DEF NavInv, PageInv

-----------------------------------------------------------------------------
LEMMA NavStepInv == NavInv /\ [NavNext]_navVars => NavInv'
<1> SUFFICES ASSUME NavInv, [NavNext]_navVars PROVE NavInv'
  OBVIOUS
<1>1. CASE UNCHANGED navVars
  <2>1. UNCHANGED <<kind, loads, listed, fresh, container, stack, queue, loader, user, web,
                    abandoned, recreated>>
    BY <1>1 DEF navVars
  <2>2. NavTypeOK'
    BY <2>1 DEF NavInv, NavTypeOK
  <2>3. PageInv'
    BY <2>1 DEF NavInv, PageInv, UserInv, PathInv, Beginning, Path, KindInv,
       InStack, FreshInv, WaitInv, BarInv,
       Waiting, Awaited
  <2> QED BY <2>2, <2>3 DEF NavInv
<1>2. CASE RunTransaction \/ Back \/ UserDelivered \/ CloseWebForm \/ Recreate
  BY <1>2, RunTransactionInv, BackInv, UserDeliveredInv, CloseWebFormInv, RecreateInv
<1>3. CASE Leave
  BY <1>3, RestartInv DEF Leave
<1>4. ASSUME NEW p \in Pages, Tap(p) \/ OpenWebForm(p) \/ LoadDelivered(p) \/ LoadFails(p)
      PROVE  NavInv'
  BY <1>4, TapInv, OpenWebFormInv, LoadDeliveredInv, RestartInv DEF LoadFails
<1> QED BY <1>1, <1>2, <1>3, <1>4 DEF NavNext

LEMMA NavSpecInv == NavSpec => []NavInv
BY NavInitInv, NavStepInv, PTL DEF NavSpec

(* Every variable of Navigation keeps its type; loads are counted exactly  *)
(* (EquipmentViewModel, InspectionViewModel, MenuViewModel).               *)
THEOREM NavigationTypeOK == NavSpec => []NavTypeOK
<1>1. NavInv => NavTypeOK
  BY DEF NavInv
<1> QED BY NavSpecInv, <1>1, PTL

(* Until the activity is recreated each back stack entry replaced exactly  *)
(* the page pushed before it (MainActivity.replaceFragment).               *)
THEOREM NavigationBackStackIsPath == NavSpec => []BackStackIsPath
<1>1. NavInv => BackStackIsPath
  <2> SUFFICES ASSUME NavInv, recreated = 0
               PROVE  /\ Cardinality(container) <= 1
                      /\ \A i \in DOMAIN stack :
                           /\ Cardinality(stack[i].removed) = 1
                           /\ i > 1 => stack[i].removed = {stack[i-1].page}
                      /\ stack # <<>> => container = {stack[Len(stack)].page}
    BY DEF BackStackIsPath
  <2>1. CASE Beginning
    <3>1. Cardinality(container) = 0 /\ stack = <<>>
      BY <2>1, FS_EmptySet DEF Beginning
    <3> QED BY <3>1
  <2>2. CASE Path
    <3>1. Cardinality(container) = 1
      BY <2>2, FS_Singleton DEF Path
    <3>2. ASSUME NEW i \in DOMAIN stack PROVE Cardinality(stack[i].removed) = 1
      <4>1. PICK p \in Pages : stack[i].removed = {p}
        BY <2>2 DEF Path
      <4>2. Cardinality({p}) = 1
        BY FS_Singleton
      <4> QED BY <4>1, <4>2
    <3> QED BY <2>2, <3>1, <3>2 DEF Path
  <2> QED BY <2>1, <2>2 DEF NavInv, PageInv, PathInv
<1> QED BY NavSpecInv, <1>1, PTL

(* A page without a list loads it and has the bar up, and the bar is up for*)
(* nobody else, unless a page was left too early (PageLoaderListener).     *)
THEOREM NavigationBarIsRight == NavSpec => []BarIsRight
<1>1. NavInv => BarIsRight
  <2> SUFFICES ASSUME WaitInv, BarInv PROVE BarIsRight
    BY DEF NavInv, PageInv
  <2>1. \A p : Awaited(p) => Unseen(p)
    BY DEF Awaited, Unseen, Waiting
  <2> QED BY <2>1 DEF WaitInv, BarInv, BarIsRight
<1> QED BY NavSpecInv, <1>1, PTL

-----------------------------------------------------------------------------
(* The history.  A sequence of pages follows a back stack if each entry    *)
(* leads from one page of it to the next.                                  *)
Follows(path, stk, cont) ==
    /\ path \in Seq(Pages) /\ Len(path) = Len(stk) + 1
    /\ \A i \in 1..Len(stk) : path[i+1] = stk[i].page /\ stk[i].removed = {path[i]}
    /\ cont = {path[Len(stk) + 1]}

(* A page that is gone has no list and no load.                            *)
AliveInv ==
    \A p \in Pages : listed[p] \/ loads[p] > 0 => p \in container \cup InStack(stack)

(* No page comes twice.                                                    *)
TrailInv == \A i, j \in DOMAIN Trail : Trail[i] = Trail[j] => i = j

LEMMA TrailFollows == NavTypeOK /\ recreated = 0 /\ Path => Follows(Trail, stack, container)
<1> SUFFICES ASSUME NavTypeOK, recreated = 0, Path PROVE Follows(Trail, stack, container)
  OBVIOUS
<1>1. stack \in Seq(Entries) /\ Len(stack) \in Nat /\ DOMAIN stack = 1..Len(stack)
  <2>1. stack \in Seq(Entries)
    BY DEF NavTypeOK, Entries
  <2> QED BY <2>1
<1>2. \A i \in 1..Len(stack) : stack[i].page \in Pages
  BY <1>1, NavTypeFacts
<1>3. PICK q \in Pages : (IF stack = <<>> THEN container ELSE stack[1].removed) = {q}
  <2>1. stack # <<>> => 1 \in DOMAIN stack
    BY <1>1
  <2> QED BY <2>1 DEF Path
<1>4. Root = q
  BY <1>3 DEF Root
<1>5. container # {}
  BY DEF Path
<1>6. Trail = [i \in 1..(Len(stack) + 1) |-> IF i = 1 THEN q ELSE stack[i-1].page]
  BY <1>4, <1>5 DEF Trail
<1>7. \A i \in 1..(Len(stack) + 1) : (IF i = 1 THEN q ELSE stack[i-1].page) \in Pages
  BY <1>1, <1>2
<1>8. Trail \in Seq(Pages) /\ Len(Trail) = Len(stack) + 1
  BY <1>1, <1>6, <1>7
<1>9. ASSUME NEW i \in 1..Len(stack)
      PROVE  Trail[i+1] = stack[i].page /\ stack[i].removed = {Trail[i]}
  <2>1. Trail[i+1] = stack[i].page
    BY <1>1, <1>6
  <2>2. CASE i = 1
    <3>1. Trail[1] = q /\ stack # <<>>
      BY <1>1, <1>6
    <3> QED BY <1>3, <2>1, <2>2, <3>1
  <2>3. CASE i > 1
    <3>1. Trail[i] = stack[i-1].page
      BY <1>1, <1>6, <2>3
    <3> QED BY <1>1, <2>1, <2>3, <3>1 DEF Path
  <2> QED BY <2>2, <2>3
<1>10. container = {Trail[Len(stack) + 1]}
  <2>1. CASE stack = <<>>
    <3>1. Trail[1] = q /\ Len(stack) = 0
      BY <1>6, <2>1
    <3> QED BY <1>3, <2>1, <3>1
  <2>2. CASE stack # <<>>
    <3>1. Len(stack) \in 1..Len(stack)
      BY <1>1, <2>2
    <3> QED BY <1>9, <2>2, <3>1 DEF Path
  <2> QED BY <2>1, <2>2
<1> QED BY <1>8, <1>9, <1>10 DEF Follows

(* The pages that are alive are those of the history.                      *)
LEMMA FollowsPages ==
    ASSUME NEW path, NEW stk \in Seq(Entries), NEW cont, Follows(path, stk, cont), NEW p
    PROVE  p \in cont \cup InStack(stk) <=> \E i \in DOMAIN path : path[i] = p
<1>1. Len(stk) \in Nat /\ DOMAIN stk = 1..Len(stk) /\ DOMAIN path = 1..(Len(stk) + 1)
  BY DEF Follows
<1>2. ASSUME NEW i \in DOMAIN stk PROVE stk[i].removed \cup {stk[i].page} = {path[i], path[i+1]}
  BY <1>1, <1>2 DEF Follows
<1>3. cont = {path[Len(stk) + 1]}
  BY DEF Follows
<1>4. ASSUME p \in cont \cup InStack(stk) PROVE \E i \in DOMAIN path : path[i] = p
  <2>1. CASE p \in cont
    BY <1>1, <1>3, <2>1
  <2>2. CASE p \in InStack(stk)
    <3>1. PICK i \in DOMAIN stk : p \in stk[i].removed \cup {stk[i].page}
      BY <2>2, InStackPages
    <3>2. i \in DOMAIN path /\ i + 1 \in DOMAIN path
      BY <1>1
    <3> QED BY <1>2, <3>1, <3>2
  <2> QED BY <1>4, <2>1, <2>2
<1>5. ASSUME NEW i \in DOMAIN path PROVE path[i] \in cont \cup InStack(stk)
  <2>1. CASE i = Len(stk) + 1
    BY <1>3, <2>1
  <2>2. CASE i \in DOMAIN stk
    <3>1. path[i] \in stk[i].removed \cup {stk[i].page}
      BY <1>2, <2>2
    <3> QED BY <2>2, <3>1, InStackPages
  <2> QED BY <1>1, <2>1, <2>2
<1> QED BY <1>4, <1>5

LEMMA FollowsAppend ==
    ASSUME NEW path, NEW stk \in Seq(Entries), NEW cont, Follows(path, stk, cont),
           NEW e \in Entries, e.removed = cont,
           NEW new, Follows(new, Append(stk, e), {e.page})
    PROVE  new = Append(path, e.page)
<1>1. /\ Len(stk) \in Nat /\ Len(Append(stk, e)) = Len(stk) + 1
      /\ Append(stk, e)[Len(stk) + 1] = e
      /\ \A i \in 1..Len(stk) : Append(stk, e)[i] = stk[i]
  OBVIOUS
<1>2. path \in Seq(Pages) /\ Len(path) = Len(stk) + 1 /\ new \in Seq(Pages) /\ Len(new) = Len(stk) + 2
  BY <1>1 DEF Follows
<1>3. \A i \in 1..(Len(stk) + 1) : Append(stk, e)[i].removed = {new[i]}
  BY <1>1 DEF Follows
<1>4. ASSUME NEW i \in 1..Len(stk) PROVE new[i] = path[i]
  <2>1. i \in 1..(Len(stk) + 1)
    BY <1>1
  <2>2. Append(stk, e)[i].removed = {new[i]} /\ Append(stk, e)[i] = stk[i]
    BY <1>1, <1>3, <2>1
  <2>3. stk[i].removed = {path[i]}
    BY DEF Follows
  <2>4. {new[i]} = {path[i]}
    BY <2>2, <2>3
  <2> QED BY <2>4
<1>5. new[Len(stk) + 1] = path[Len(stk) + 1]
  <2>1. e.removed = {path[Len(stk) + 1]}
    BY DEF Follows
  <2>2. Len(stk) + 1 \in 1..(Len(stk) + 1)
    BY <1>1
  <2>3. Append(stk, e)[Len(stk) + 1].removed = {new[Len(stk) + 1]}
    BY <1>3, <2>2
  <2>4. {new[Len(stk) + 1]} = {path[Len(stk) + 1]}
    BY <1>1, <2>1, <2>3
  <2> QED BY <2>4
<1>6. new[Len(stk) + 2] = e.page
  <2>1. {e.page} = {new[Len(stk) + 2]}
    BY <1>1 DEF Follows
  <2> QED BY <2>1
<1>7. e.page \in Pages
  BY DEF Entries
<1> DEFINE longer == Append(path, e.page)
<1>8. /\ longer \in Seq(Pages) /\ Len(longer) = Len(stk) + 2
      /\ longer[Len(stk) + 2] = e.page
      /\ \A i \in 1..(Len(stk) + 1) : longer[i] = path[i]
  BY <1>1, <1>2, <1>7
<1> HIDE DEF longer
<1>9. \A i \in 1..Len(new) : new[i] = longer[i]
  <2>1. \A i \in 1..Len(stk) : new[i] = longer[i]
    <3>1. \A i \in 1..Len(stk) : i \in 1..(Len(stk) + 1)
      BY <1>1
    <3> QED BY <1>4, <1>8, <3>1
  <2>2. new[Len(stk) + 1] = longer[Len(stk) + 1]
    <3>1. Len(stk) + 1 \in 1..(Len(stk) + 1)
      BY <1>1
    <3> QED BY <1>5, <1>8, <3>1
  <2>3. \A i \in 1..Len(new) :
          i \in 1..Len(stk) \/ i = Len(stk) + 1 \/ i = Len(stk) + 2
    BY <1>1, <1>2
  <2> QED BY <1>6, <1>8, <2>1, <2>2, <2>3
<1>10. new = longer
  BY <1>2, <1>8, <1>9, SeqEqual
<1> QED BY <1>10 DEF longer

LEMMA FollowsFront ==
    ASSUME NEW path, NEW stk \in Seq(Entries), NEW cont, Follows(path, stk, cont), stk # <<>>,
           NEW front, Follows(front, SubSeq(stk, 1, Len(stk) - 1), {path[Len(stk)]})
    PROVE  front = SubSeq(path, 1, Len(path) - 1)
<1> DEFINE rest == SubSeq(stk, 1, Len(stk) - 1)
<1>1. Len(stk) \in Nat \ {0} /\ DOMAIN stk = 1..Len(stk)
  OBVIOUS
<1>2. /\ Len(rest) = Len(stk) - 1
      /\ \A i \in 1..(Len(stk) - 1) : rest[i] = stk[i]
  <2>1. 1 \in 1..(Len(stk) + 1) /\ Len(stk) - 1 \in 0..Len(stk)
    BY <1>1
  <2> QED BY <1>1, <2>1
<1>10. Follows(front, rest, {path[Len(stk)]})
  OBVIOUS
<1> HIDE DEF rest
<1>3. path \in Seq(Pages) /\ Len(path) = Len(stk) + 1 /\ front \in Seq(Pages) /\ Len(front) = Len(stk)
  BY <1>1, <1>2, <1>10 DEF Follows
<1>4. ASSUME NEW i \in 1..(Len(stk) - 1) PROVE front[i] = path[i]
  <2>1. i \in 1..Len(stk) /\ i \in 1..Len(rest)
    BY <1>1, <1>2
  <2>2. rest[i].removed = {front[i]} /\ rest[i] = stk[i]
    BY <1>2, <1>10, <2>1 DEF Follows
  <2>3. stk[i].removed = {path[i]}
    BY <2>1 DEF Follows
  <2>4. {front[i]} = {path[i]}
    BY <2>2, <2>3
  <2> QED BY <2>4
<1>5. front[Len(stk)] = path[Len(stk)]
  <2>1. Len(rest) + 1 = Len(stk)
    BY <1>1, <1>2
  <2>2. {path[Len(stk)]} = {front[Len(stk)]}
    BY <1>10, <2>1 DEF Follows
  <2> QED BY <2>2
<1>6. \A i \in 1..Len(stk) : front[i] = path[i]
  BY <1>1, <1>4, <1>5
<1> DEFINE shorter == SubSeq(path, 1, Len(path) - 1)
<1>7. /\ shorter \in Seq(Pages) /\ Len(shorter) = Len(stk)
      /\ \A i \in 1..Len(stk) : shorter[i] = path[i]
  BY <1>1, <1>3
<1> HIDE DEF shorter
<1>8. \A i \in 1..Len(front) : front[i] = shorter[i]
  BY <1>3, <1>6, <1>7
<1>9. front = shorter
  BY <1>3, <1>7, <1>8, SeqEqual
<1> QED BY <1>9 DEF shorter

-----------------------------------------------------------------------------
(* Every step is one of the history.                                       *)
HistoryStep == [History!HistoryNext]_(History!historyVars)

LEMMA ShowAlive ==
    ASSUME NavTypeOK, NEW shown, NEW stk, NEW entering, NEW knd,
           Show(shown, stk, entering, knd)
    PROVE  /\ container' = shown /\ stack' = stk
           /\ \A p \in Pages : listed'[p] <=> (p \in shown \cup InStack(stk) /\ listed[p])
           /\ AliveInv'
<1> DEFINE alive == shown \cup InStack(stk)
<1>1. /\ container' = shown /\ stack' = stk
      /\ listed' = [p \in Pages |-> p \in alive /\ listed[p]]
      /\ loads' = [p \in Pages |->
                       IF p \notin alive THEN 0
                       ELSE IF p \in entering /\ Loads(knd[p]) THEN loads[p] + 1
                       ELSE loads[p]]
  BY DEF Show
<1>2. container' \cup InStack(stack)' = alive
  BY <1>1 DEF InStack
<1> HIDE DEF alive
<1>3. \A p \in Pages : listed'[p] <=> (p \in alive /\ listed[p])
  BY <1>1
<1>4. \A p \in Pages : p \notin alive => loads'[p] = 0
  BY <1>1
<1>5. AliveInv'
  BY <1>2, <1>3, <1>4 DEF AliveInv
<1> QED BY <1>1, <1>3, <1>5 DEF alive

(* Once the history is lost it stays lost.                                 *)
LEMMA LostStep ==
    ASSUME recreated # 0, recreated' # 0 PROVE HistoryStep /\ TrailInv'
<1>1. Trail = <<>> /\ Trail' = <<>>
  BY DEF Trail
<1>2. TrailInv'
  BY <1>1 DEF TrailInv
<1> QED BY <1>1, <1>2 DEF HistoryStep, History!historyVars

LEMMA SameStep ==
    ASSUME AliveInv, TrailInv, UNCHANGED <<loads, listed, container, stack, recreated>>
    PROVE  AliveInv' /\ TrailInv' /\ HistoryStep
<1>1. Trail' = Trail
  BY DEF Trail, Root
<1>2. AliveInv'
  BY DEF AliveInv, InStack
<1>3. TrailInv'
  BY <1>1 DEF TrailInv
<1>4. HistoryStep
  BY <1>1 DEF HistoryStep, History!historyVars
<1> QED BY <1>2, <1>3, <1>4

LEMMA RestartStep ==
    ASSUME Restart PROVE AliveInv' /\ TrailInv' /\ HistoryStep
<1>1. Trail' = <<>> /\ container' = {} /\ recreated' = 0
  BY DEF Trail, Restart
<1>2. \A p \in Pages : listed'[p] = FALSE /\ loads'[p] = 0
  BY DEF Restart
<1>3. AliveInv'
  BY <1>2 DEF AliveInv
<1>4. TrailInv'
  BY <1>1 DEF TrailInv
<1>5. History!StartAfresh
  BY <1>1, <1>2 DEF History!StartAfresh
<1> QED BY <1>3, <1>4, <1>5 DEF HistoryStep, History!HistoryNext

(* Nothing is alive at the beginning.                                      *)
LEMMA BeginningFacts ==
    ASSUME NavTypeOK, AliveInv, Beginning
    PROVE  Trail = <<>> /\ \A p \in Pages : ~listed[p] /\ ~(loads[p] > 0)
<1>1. Trail = <<>>
  BY DEF Beginning, Trail
<1>2. container \cup InStack(stack) = {}
  BY DEF Beginning, InStack
<1> QED BY <1>1, <1>2 DEF AliveInv

LEMMA RunTransactionStep ==
    ASSUME NavInv, NavInv', AliveInv, TrailInv, RunTransaction
    PROVE  AliveInv' /\ TrailInv' /\ HistoryStep
<1> DEFINE entry(p) == [page |-> p, removed |-> container]
           stk(p) == IF Head(queue) = "menu" THEN stack ELSE Append(stack, entry(p))
           knd(p) == [kind EXCEPT ![p] = Head(queue)]
<1>1. PICK p \in Pages : kind[p] = "unused" /\ Show({p}, stk(p), {p}, knd(p))
  BY DEF RunTransaction
<1>2. queue # <<>> /\ recreated' = recreated
  BY DEF RunTransaction
<1>3. NavTypeOK /\ PathInv /\ KindInv /\ NavTypeOK' /\ PathInv'
  BY DEF NavInv, PageInv
<1>4. /\ container' = {p} /\ stack' = stk(p) /\ AliveInv'
      /\ \A q \in Pages : listed'[q] <=> (q \in {p} \cup InStack(stk(p)) /\ listed[q])
  <2> HIDE DEF stk, knd
  <2> QED BY <1>1, <1>3, ShowAlive
<1>5. CASE recreated # 0
  BY <1>2, <1>4, <1>5, LostStep
<1>6. CASE recreated = 0
  <2>1. Path' /\ Follows(Trail, stack, container)'
    <3>1. Path'
      BY <1>2, <1>3, <1>4, <1>6 DEF PathInv, Beginning
    <3>2. (NavTypeOK /\ recreated = 0 /\ Path)' => Follows(Trail, stack, container)'
      BY TrailFollows, PTL
    <3> QED BY <1>2, <1>3, <1>6, <3>1, <3>2
  <2>2. p \notin container \cup InStack(stack)
    BY <1>1, <1>3 DEF KindInv
  <2>3. /\ Trail' = Append(Trail, p) /\ Trail \in Seq(Pages)
        /\ ~\E i \in DOMAIN Trail : Trail[i] = p
        /\ \A q \in Pages : listed'[q] <=> listed[q]
    <3>1. CASE Beginning
      <4>1. stack = <<>> /\ stack' = <<>> /\ queue = <<"menu">>
        BY <1>2, <1>4, <3>1 DEF Beginning
      <4>2. Trail = <<>> /\ \A q \in Pages : ~listed[q]
        BY <1>3, <3>1, BeginningFacts
      <4>3. Len(stack') = 0
        BY <4>1
      <4>4. Trail' \in Seq(Pages) /\ Len(Trail') = 1 /\ {Trail'[1]} = {p}
        BY <1>4, <2>1, <4>3 DEF Follows
      <4>5. Trail' = <<p>>
        <5>1. <<p>> \in Seq(Pages) /\ Len(<<p>>) = 1 /\ <<p>>[1] = p
          OBVIOUS
        <5> QED BY <4>4, <5>1, SeqEqual
      <4> QED BY <1>4, <4>2, <4>5
    <3>2. CASE Path
      <4>1. Head(queue) # "menu"
        <5>1. queue \in Seq(Kinds)
          BY <1>3 DEF NavTypeOK
        <5>2. 1 \in DOMAIN queue /\ Head(queue) = queue[1]
          BY <1>2, <5>1
        <5> QED BY <3>2, <5>2 DEF Path
      <4>2. stack' = Append(stack, entry(p))
        BY <1>4, <4>1
      <4>3. stack \in Seq(Entries) /\ entry(p) \in Entries
        BY <1>3 DEF NavTypeOK, Entries
      <4>4. entry(p).page = p /\ entry(p).removed = container
        OBVIOUS
      <4> HIDE DEF entry
      <4>5. Follows(Trail, stack, container)
        BY <1>3, <1>6, <3>2, TrailFollows
      <4>6. Follows(Trail', Append(stack, entry(p)), {entry(p).page})
        BY <1>4, <2>1, <4>2, <4>4 DEF Follows
      <4>7. Trail' = Append(Trail, p)
        BY <4>3, <4>4, <4>5, <4>6, FollowsAppend
      <4>8. Trail \in Seq(Pages)
        BY <4>5 DEF Follows
      <4>9. ASSUME NEW q \in Pages, listed[q] PROVE listed'[q]
        <5>1. q \in container \cup InStack(stack)
          BY <4>9 DEF AliveInv
        <5>2. PICK i \in DOMAIN Trail : Trail[i] = q
          BY <4>3, <4>5, <5>1, FollowsPages
        <5>3. i \in DOMAIN Trail' /\ Trail'[i] = q
          BY <4>7, <4>8, <5>2
        <5>4. Append(stack, entry(p)) \in Seq(Entries)
          BY <4>3
        <5>5. q \in {entry(p).page} \cup InStack(Append(stack, entry(p)))
          BY <4>6, <5>3, <5>4, FollowsPages
        <5> QED BY <1>4, <4>1, <4>4, <4>9, <5>5
      <4>10. ~\E i \in DOMAIN Trail : Trail[i] = p
        BY <2>2, <4>3, <4>5, FollowsPages
      <4> QED BY <1>4, <4>7, <4>8, <4>9, <4>10
    <3> QED BY <1>3, <1>6, <3>1, <3>2 DEF PathInv
  <2>4. TrailInv'
    <3> DEFINE new == Append(Trail, p)
    <3>1. /\ Len(Trail) \in Nat /\ DOMAIN Trail = 1..Len(Trail) /\ DOMAIN new = 1..(Len(Trail) + 1)
          /\ new[Len(Trail) + 1] = p /\ \A i \in 1..Len(Trail) : new[i] = Trail[i]
      BY <2>3
    <3> HIDE DEF new
    <3>2. \A i, j \in DOMAIN new : new[i] = new[j] => i = j
      BY <2>3, <3>1 DEF TrailInv
    <3> QED BY <2>3, <3>2 DEF TrailInv, new
  <2>5. History!Open(p)
    BY <1>2, <1>4, <1>6, <2>3 DEF History!Open, History!OnPath
  <2> QED BY <1>4, <2>4, <2>5 DEF HistoryStep, History!HistoryNext
<1> QED BY <1>5, <1>6

LEMMA BackStep ==
    ASSUME NavInv, NavInv', AliveInv, TrailInv, Back
    PROVE  AliveInv' /\ TrailInv' /\ HistoryStep
<1> DEFINE top == stack[Len(stack)]
           below == SubSeq(stack, 1, Len(stack) - 1)
           rest == (container \ {top.page}) \cup top.removed
<1>1. stack # <<>> /\ recreated' = recreated /\ Show(rest, below, top.removed \ container, kind)
  BY DEF Back
<1>2. NavTypeOK /\ PathInv /\ NavTypeOK' /\ PathInv'
  BY DEF NavInv, PageInv
<1>3. /\ container' = rest /\ stack' = below /\ AliveInv'
      /\ \A q \in Pages : listed'[q] <=> (q \in rest \cup InStack(below) /\ listed[q])
  <2> HIDE DEF rest, below
  <2> QED BY <1>1, <1>2, ShowAlive
<1>4. CASE recreated # 0
  BY <1>1, <1>3, <1>4, LostStep
<1>5. CASE recreated = 0
  <2>1. Path /\ Follows(Trail, stack, container)
    BY <1>1, <1>2, <1>5, TrailFollows DEF PathInv, Beginning
  <2>2. stack \in Seq(Entries) /\ Len(stack) \in Nat \ {0} /\ Len(stack) \in 1..Len(stack)
    <3>1. stack \in Seq(Entries)
      BY <1>2 DEF NavTypeOK, Entries
    <3> QED BY <1>1, <3>1
  <2>3. Trail \in Seq(Pages) /\ Len(Trail) = Len(stack) + 1 /\ DOMAIN Trail = 1..(Len(stack) + 1)
    BY <2>1, <2>2 DEF Follows
  <2>4. rest = {Trail[Len(stack)]} /\ Trail[Len(stack)] \in Pages
    <3>1. container = {top.page} /\ top.removed = {Trail[Len(stack)]}
      BY <1>1, <2>1, <2>2 DEF Path, Follows
    <3> QED BY <2>2, <2>3, <3>1
  <2>5. Path' /\ Follows(Trail, stack, container)'
    <3>1. Path'
      BY <1>1, <1>2, <1>3, <1>5, <2>4 DEF PathInv, Beginning
    <3>2. (NavTypeOK /\ recreated = 0 /\ Path)' => Follows(Trail, stack, container)'
      BY TrailFollows, PTL
    <3> QED BY <1>1, <1>2, <1>5, <3>1, <3>2
  <2>6. Follows(Trail', below, {Trail[Len(stack)]})
    BY <1>3, <2>4, <2>5 DEF Follows
  <2>7. Trail' = SubSeq(Trail, 1, Len(Trail) - 1)
    BY <1>1, <2>1, <2>2, <2>6, FollowsFront
  <2>8. below \in Seq(Entries)
    <3>1. 1 \in 1..(Len(stack) + 1) /\ Len(stack) - 1 \in 0..Len(stack)
      BY <2>2
    <3> QED BY <2>2, <3>1
  <2>9. DOMAIN Trail' = 1..Len(stack) /\ \A i \in 1..Len(stack) : Trail'[i] = Trail[i]
    BY <2>2, <2>3, <2>7
  <2> HIDE DEF rest, below
  <2>10. \A q \in Pages : listed'[q] <=> ((\E i \in 1..Len(stack) : Trail[i] = q) /\ listed[q])
    <3> SUFFICES ASSUME NEW q \in Pages
                 PROVE  q \in rest \cup InStack(below) <=> \E i \in 1..Len(stack) : Trail[i] = q
      BY <1>3
    <3>1. q \in {Trail[Len(stack)]} \cup InStack(below) <=> \E i \in DOMAIN Trail' : Trail'[i] = q
      BY <2>6, <2>8, FollowsPages
    <3> QED BY <2>4, <2>9, <3>1
  <2>11. ASSUME NEW q \in Pages
         PROVE  listed'[q] <=> (listed[q] /\ q # Trail[Len(stack) + 1])
    <3>1. Len(stack) + 1 \in DOMAIN Trail /\ 1..Len(stack) \subseteq DOMAIN Trail
          /\ Len(stack) + 1 \notin 1..Len(stack)
      BY <2>2, <2>3
    <3>2. CASE q = Trail[Len(stack) + 1]
      <4>1. \A i \in 1..Len(stack) : Trail[i] # q
        BY <3>1, <3>2 DEF TrailInv
      <4> QED BY <2>10, <3>2, <4>1
    <3>3. CASE q # Trail[Len(stack) + 1] /\ listed[q]
      <4>1. q \in container \cup InStack(stack)
        BY <3>3 DEF AliveInv
      <4>2. PICK i \in DOMAIN Trail : Trail[i] = q
        BY <2>1, <2>2, <4>1, FollowsPages
      <4>3. i \in 1..Len(stack)
        BY <2>2, <2>3, <3>3, <4>2
      <4> QED BY <2>10, <3>3, <4>2, <4>3
    <3> QED BY <2>10, <3>2, <3>3
  <2>12. TrailInv'
    <3>1. DOMAIN Trail' \subseteq DOMAIN Trail
      BY <2>2, <2>3, <2>9
    <3> QED BY <2>9, <3>1 DEF TrailInv
  <2>13. Len(Trail) > 1 /\ Len(Trail) - 1 = Len(stack)
    BY <2>2, <2>3
  <2>14. History!Back
    <3>1. container' = {Trail[Len(Trail) - 1]}
      BY <1>3, <2>4, <2>13
    <3>2. {q \in Pages : listed'[q]} = {q \in Pages : listed[q]} \ {Trail[Len(Trail)]}
      BY <2>3, <2>11
    <3> QED BY <1>1, <1>5, <2>7, <2>13, <3>1, <3>2 DEF History!Back
  <2> QED BY <1>3, <2>12, <2>14 DEF HistoryStep, History!HistoryNext
<1> QED BY <1>4, <1>5

LEMMA LoadDeliveredStep ==
    ASSUME NavInv, AliveInv, TrailInv, NEW p \in Pages, LoadDelivered(p)
    PROVE  AliveInv' /\ TrailInv' /\ HistoryStep
<1>1. /\ loads[p] > 0 /\ loads' = [loads EXCEPT ![p] = @ - 1]
      /\ listed' = [listed EXCEPT ![p] = TRUE]
      /\ UNCHANGED <<container, stack, recreated>>
  BY DEF LoadDelivered
<1>2. NavTypeOK /\ PathInv
  BY DEF NavInv, PageInv
<1>3. \A q \in Pages : /\ listed'[q] <=> (listed[q] \/ q = p)
                       /\ q # p => loads'[q] = loads[q]
  BY <1>1, <1>2 DEF NavTypeOK
<1>4. p \in container \cup InStack(stack)
  BY <1>1 DEF AliveInv
<1>5. AliveInv'
  BY <1>1, <1>3, <1>4 DEF AliveInv, InStack
<1>6. Trail' = Trail
  BY <1>1 DEF Trail, Root
<1>7. TrailInv'
  BY <1>6 DEF TrailInv
<1>8. CASE recreated # 0
  BY <1>1, <1>5, <1>8, LostStep
<1>9. CASE recreated = 0
  <2>1. Path
    BY <1>1, <1>2, <1>9, BeginningFacts DEF PathInv
  <2>2. Follows(Trail, stack, container) /\ stack \in Seq(Entries)
    BY <1>2, <1>9, <2>1, TrailFollows DEF NavTypeOK, Entries
  <2>3. \E i \in DOMAIN Trail : Trail[i] = p
    BY <1>4, <2>2, FollowsPages
  <2>4. {q \in Pages : listed'[q]} = {q \in Pages : listed[q]} \cup {p}
    BY <1>3
  <2>5. History!Fill(p)
    BY <1>1, <1>6, <1>9, <2>3, <2>4 DEF History!Fill, History!OnPath
  <2> QED BY <1>5, <1>7, <2>5 DEF HistoryStep, History!HistoryNext
<1> QED BY <1>8, <1>9

LEMMA RecreateStep ==
    ASSUME NavInv, NavInv', AliveInv, TrailInv, Recreate
    PROVE  AliveInv' /\ TrailInv' /\ HistoryStep
<1>1. /\ recreated' = recreated + 1 /\ container # {}
      /\ loads' = [p \in Pages |-> IF p \in container /\ Loads(kind[p])
                                   THEN loads[p] + 1 ELSE loads[p]]
      /\ UNCHANGED <<listed, container, stack>>
  BY DEF Recreate
<1>2. NavTypeOK /\ PathInv
  BY DEF NavInv, PageInv
<1>3. recreated' # 0
  BY <1>1, <1>2, NavTypeFacts
<1>4. AliveInv'
  BY <1>1 DEF AliveInv, InStack
<1>5. CASE recreated # 0
  BY <1>3, <1>4, <1>5, LostStep
<1>6. CASE recreated = 0
  <2>1. Follows(Trail, stack, container)
    BY <1>1, <1>2, <1>6, TrailFollows DEF PathInv, Beginning
  <2>2. Trail # <<>>
    <3>1. Len(stack) \in Nat
      BY <1>2 DEF NavTypeOK
    <3> QED BY <2>1, <3>1 DEF Follows
  <2>3. Trail' = <<>>
    BY <1>3 DEF Trail
  <2>4. TrailInv'
    BY <2>3 DEF TrailInv
  <2>5. History!Lose
    BY <1>3, <2>2, <2>3 DEF History!Lose
  <2> QED BY <1>4, <2>4, <2>5 DEF HistoryStep, History!HistoryNext
<1> QED BY <1>5, <1>6

HistInv == NavInv /\ AliveInv /\ TrailInv

LEMMA HistoryNextStep == HistInv /\ NavInv' /\ [NavNext]_navVars => HistInv' /\ HistoryStep
<1> SUFFICES ASSUME NavInv, AliveInv, TrailInv, NavInv', [NavNext]_navVars
             PROVE  AliveInv' /\ TrailInv' /\ HistoryStep
  BY DEF HistInv
<1>1. CASE UNCHANGED navVars
  BY <1>1, SameStep DEF navVars
<1>2. CASE RunTransaction \/ Back \/ Recreate
  BY <1>2, RunTransactionStep, BackStep, RecreateStep
<1>3. CASE Leave
  BY <1>3, RestartStep DEF Leave
<1>4. CASE UserDelivered
  BY <1>4, SameStep DEF UserDelivered
<1>5. CASE CloseWebForm
  BY <1>5, SameStep DEF CloseWebForm
<1>6. ASSUME NEW p \in Pages, Tap(p) PROVE AliveInv' /\ TrailInv' /\ HistoryStep
  BY <1>6, SameStep DEF Tap
<1>7. ASSUME NEW p \in Pages, OpenWebForm(p) PROVE AliveInv' /\ TrailInv' /\ HistoryStep
  BY <1>7, SameStep DEF OpenWebForm
<1>8. ASSUME NEW p \in Pages, LoadDelivered(p) \/ LoadFails(p)
      PROVE  AliveInv' /\ TrailInv' /\ HistoryStep
  BY <1>8, LoadDeliveredStep, RestartStep DEF LoadFails
<1> QED BY <1>1, <1>2, <1>3, <1>4, <1>5, <1>6, <1>7, <1>8 DEF NavNext

(* Navigation implements PageHistory: whatever is tapped before Android    *)
(* runs the transactions, the user sees the last page gone to and Back     *)
(* returns to the one before it, with its list.                            *)
THEOREM NavigationImplementsHistory == NavSpec => HistoryImplemented
<1>1. NavInit => HistInv /\ History!HistoryInit
  <2> SUFFICES ASSUME NavInit PROVE HistInv /\ History!HistoryInit
    OBVIOUS
  <2>1. container = {} /\ recreated = 0 /\ \A p \in Pages : listed[p] = FALSE /\ loads[p] = 0
    BY DEF NavInit
  <2>2. Trail = <<>>
    BY <2>1 DEF Trail
  <2>3. HistInv
    BY <2>1, <2>2, NavInitInv DEF HistInv, AliveInv, TrailInv
  <2>4. History!HistoryInit
    BY <2>1, <2>2 DEF History!HistoryInit
  <2> QED BY <2>3, <2>4
<1>2. HistInv /\ [NavNext]_navVars => HistInv' /\ [History!HistoryNext]_(History!historyVars)
  BY NavStepInv, HistoryNextStep DEF HistInv, HistoryStep
<1> QED BY <1>1, <1>2, PTL DEF NavSpec, HistoryImplemented, History!HistorySpec

=============================================================================
