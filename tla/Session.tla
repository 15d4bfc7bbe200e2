------------------------------ MODULE Session ------------------------------
(***************************************************************************)
(* The login session of the Simonis app: who writes the `profile` table,   *)
(* when, and what is on screen meanwhile.  Four kinds of coroutine share   *)
(* the table with no lock and no transaction:                              *)
(*   - sign-in (LoginViewModel.login, UserInterActorImpl.signIn): call the *)
(*     server, delete every row, insert the new one;                       *)
(*   - the login screen's check whether somebody is already logged in;     *)
(*   - an API call of a screen (SimonisInterceptor.intercept): read the    *)
(*     token, send, and on 401 read the user, log in again, overwrite the  *)
(*     row, send again.  It runs on an OkHttp thread: cancelling the       *)
(*     coroutine that started it stops neither the second login nor the    *)
(*     write;                                                              *)
(*   - logout (MainViewModel.logout): delete every row.                    *)
(* No coroutine handles an exception, so a failure that reaches one whose  *)
(* scope is alive kills the process.  Only `profile` and what the server   *)
(* did survive that.                                                       *)
(***************************************************************************)
EXTENDS Naturals

CONSTANTS Users,      \* accounts of the server
          NoUser,     \* activity field not initialised / no row
          NoToken,    \* no row: the query yields null
          SignIns,    \* sign-in coroutines that may be in flight at once
          Calls,      \* API calls that may be in flight at once
          Logouts,    \* logout coroutines that may be in flight at once
          MaxTokens   \* bound: tokens the server grants in a behaviour

ASSUME SessionConstants ==
    /\ NoUser \notin Users
    /\ NoToken \notin [user : Users, serial : Nat \ {0}]
    /\ SignIns \cap Calls = {}
    /\ MaxTokens \in Nat

VARIABLES profile,     \* the profile table: token of each user's row, or NoToken
          issued,      \* serial of the last token the server granted
          login,       \* LoginActivity: not there, in use, or finish() was called
          main,        \* MainActivity, likewise
          check,       \* coroutine of checkIsUserAlreadyLoggedIn
          loading,     \* coroutine of initiateActiveUser, and the user it read
          activeUser,  \* MainActivity.activeUser
          signIn,      \* [SignIns -> state of that sign-in]
          call,        \* [Calls -> state of that API call]
          logout,      \* [Logouts -> state of that logout]
          answer       \* MainViewModel.logout, the LiveData: the result that
                       \* waits for a stopped MainActivity, "none" otherwise

(* What happened so far; no action of the app reads these. *)
VARIABLES overlap,     \* a sign-in emptied the table while MainActivity was in use
                       \* or while another writer held credentials to save
          cleared,     \* a logout emptied the table and no sign-in begun
                       \* after it has saved its user
          late,        \* writers that were in flight when it did
          revived,     \* one of those saved a row afterwards
          lost         \* MainActivity never saw that a logout emptied the table:
                       \* the result of another one came over it

appVars == <<profile, issued, login, main, check, loading, activeUser,
             signIn, call, logout, answer>>
history == <<overlap, cleared, late, revived, lost>>
vars == <<profile, issued, login, main, check, loading, activeUser,
          signIn, call, logout, answer, overlap, cleared, late, revived, lost>>

-----------------------------------------------------------------------------
Token == [user : Users, serial : Nat \ {0}]
MaybeToken == Token \cup {NoToken}
MaybeUser == Users \cup {NoUser}
Lifecycle == {"none", "active", "finishing"}

SignInState == [pc : {"idle", "calling", "granted", "deleted", "saved"},
                user : MaybeUser, token : MaybeToken, cancelled : BOOLEAN]
CallState == [pc : {"idle", "reading", "sending", "denied", "relogin",
                    "refreshed", "resending"},
              user : MaybeUser, token : MaybeToken, cancelled : BOOLEAN]
LogoutState == [pc : {"idle", "requested", "deleted"}, removed : BOOLEAN]

IdleJob == [pc |-> "idle", user |-> NoUser, token |-> NoToken, cancelled |-> FALSE]
IdleLogout == [pc |-> "idle", removed |-> FALSE]
IdleLoading == [pc |-> "idle", user |-> NoUser]

EmptyTable == [u \in Users |-> NoToken]
Rows == {u \in Users : profile[u] # NoToken}

(* `select ... from profile limit 1` has no ORDER BY: any row may come. *)
SelectToken == IF Rows = {} THEN {NoToken} ELSE {profile[u] : u \in Rows}

NewToken(u) == [user |-> u, serial |-> issued + 1]

(* Writers past the point where cancellation stops them, yet to save. *)
Armed == {s \in SignIns : signIn[s].pc \in {"granted", "deleted"}}
         \cup {c \in Calls : call[c].pc \in {"relogin", "refreshed"}}
InFlight == {s \in SignIns : signIn[s].pc \in {"calling", "granted", "deleted"}}
            \cup {c \in Calls : call[c].pc # "idle"}

Init ==
    /\ profile = EmptyTable
    /\ issued = 0
    /\ login = "none" /\ main = "none"
    /\ check = "idle"
    /\ loading = IdleLoading
    /\ activeUser = NoUser
    /\ signIn = [s \in SignIns |-> IdleJob]
    /\ call = [c \in Calls |-> IdleJob]
    /\ logout = [l \in Logouts |-> IdleLogout] /\ answer = "none"
    /\ overlap = FALSE /\ cleared = FALSE /\ late = {} /\ revived = FALSE
    /\ lost = FALSE

-----------------------------------------------------------------------------
(* The process: an uncaught exception or the system ends it at any time.   *)
ProcessDies ==
    /\ login' = "none" /\ main' = "none"
    /\ check' = "idle"
    /\ loading' = IdleLoading
    /\ activeUser' = NoUser
    /\ signIn' = [s \in SignIns |-> IdleJob]
    /\ call' = [c \in Calls |-> IdleJob]
    /\ logout' = [l \in Logouts |-> IdleLogout] /\ answer' = "none"
    /\ late' = {} /\ lost' = FALSE
    /\ UNCHANGED <<profile, issued, overlap, cleared, revived>>

(* An exception reaches the coroutine of job j: fatal unless its scope was *)
(* cancelled, when the continuation drops it and `settled` is left.        *)
Rethrow(j, settled) == IF j.cancelled THEN settled ELSE ProcessDies

-----------------------------------------------------------------------------
(* Activities.  One of a kind is destroyed before the next is created.     *)
Launch ==
    /\ login = "none" /\ main # "active"
    /\ login' = "active"
    /\ check' = "launched"
    /\ UNCHANGED <<profile, issued, main, loading, activeUser, signIn, call,
                   logout, answer, history>>

(* navigateToMainPage: start MainActivity, whose onCreate loads the user.  *)
(* A finishing activity may still be started, and so observe a result.     *)
OpenMain ==
    /\ login # "none" /\ main = "none"
    /\ main' = "active"
    /\ login' = "finishing"
    /\ loading' = [pc |-> "launched", user |-> NoUser]
    /\ activeUser' = NoUser

LeaveLogin ==
    /\ login = "active"
    /\ login' = "finishing"
    /\ UNCHANGED <<profile, issued, main, check, loading, activeUser, signIn,
                   call, logout, answer, history>>

LeaveMain ==
    /\ main = "active" /\ answer = "none"
    /\ main' = "finishing"
    /\ UNCHANGED <<profile, issued, login, check, loading, activeUser,
                   signIn, call, logout, answer, history>>

(* onDestroy clears the view model and cancels its scope.  A sign-in that  *)
(* got its answer runs on to the end of the save.                          *)
DestroyLogin ==
    /\ login = "finishing"
    /\ login' = "none"
    /\ check' = "idle"
    /\ signIn' = [s \in SignIns |->
                    IF signIn[s].pc \in {"granted", "deleted"}
                      THEN [signIn[s] EXCEPT !.cancelled = TRUE]
                      ELSE IdleJob]
    /\ late' = {w \in late : w \in SignIns => signIn[w].pc # "calling"}
    /\ UNCHANGED <<profile, issued, main, loading, activeUser, call, logout,
                   answer, overlap, cleared, revived, lost>>

(* Mutant: the scope of the view models is not cancelled. *)
DestroyMain_KeepsScope ==
    /\ main = "finishing"
    /\ main' = "none"
    /\ loading' = IdleLoading
    /\ activeUser' = NoUser
    /\ logout' = [l \in Logouts |-> IdleLogout]
    /\ lost' = FALSE
    /\ UNCHANGED <<profile, issued, login, check, signIn, call, answer,
                   overlap, cleared, late, revived>>

(* The OkHttp thread of a call outlives the scope that made the call.      *)
DestroyMain ==
    /\ main = "finishing"
    /\ main' = "none"
    /\ loading' = IdleLoading
    /\ activeUser' = NoUser
    /\ call' = [c \in Calls |-> IF call[c].pc = "idle" THEN call[c]
                                ELSE [call[c] EXCEPT !.cancelled = TRUE]]
    /\ logout' = [l \in Logouts |-> IdleLogout]
    /\ lost' = FALSE
    /\ UNCHANGED <<profile, issued, login, check, signIn, answer, overlap,
                   cleared, late, revived>>

-----------------------------------------------------------------------------
(* LoginActivity: is somebody logged in already?                           *)
CheckReads ==
    /\ check = "launched"
    /\ check' = IF Rows # {} THEN "yes" ELSE "no"
    /\ UNCHANGED <<profile, issued, login, main, loading, activeUser, signIn,
                   call, logout, answer, history>>

CheckDelivered ==
    /\ check \in {"yes", "no"}
    /\ check' = "idle"
    /\ \/ check = "yes" /\ OpenMain
       \/ /\ check = "no" \/ login = "finishing"
          /\ UNCHANGED <<login, main, loading, activeUser>>
    /\ UNCHANGED <<profile, issued, signIn, call, logout, answer, history>>

-----------------------------------------------------------------------------
(* Sign-in.  The button is disabled while one is in flight, the keyboard's *)
(* done action is not: two may be in flight.                               *)
TapSignIn(s, u) ==
    /\ login = "active"
    /\ signIn[s].pc = "idle"
    /\ signIn' = [signIn EXCEPT ![s] = [IdleJob EXCEPT !.pc = "calling", !.user = u]]
    /\ UNCHANGED <<profile, issued, login, main, check, loading, activeUser,
                   call, logout, answer, history>>

SignInAccepted(s) ==
    /\ signIn[s].pc = "calling"
    /\ issued < MaxTokens
    /\ issued' = issued + 1
    /\ signIn' = [signIn EXCEPT ![s].pc = "granted",
                                ![s].token = NewToken(signIn[s].user)]
    /\ UNCHANGED <<profile, login, main, check, loading, activeUser, call,
                   logout, answer, history>>

(* Wrong password, no network, timeout: nobody catches it.                 *)
SignInRefused(s) ==
    /\ signIn[s].pc = "calling"
    /\ ProcessDies

(* Mutant: the previous user is not deleted. *)
SignInDeletes_Forgotten(s) ==
    /\ signIn[s].pc = "granted"
    /\ signIn' = [signIn EXCEPT ![s].pc = "deleted"]
    /\ overlap' = (overlap \/ main = "active" \/ Armed # {s})
    /\ UNCHANGED <<profile, issued, login, main, check, loading, activeUser,
                   call, logout, answer, cleared, late, revived, lost>>

SignInDeletes(s) ==
    /\ signIn[s].pc = "granted"
    /\ profile' = EmptyTable
    /\ signIn' = [signIn EXCEPT ![s].pc = "deleted"]
    /\ overlap' = (overlap \/ main = "active" \/ Armed # {s})
    /\ UNCHANGED <<issued, login, main, check, loading, activeUser, call,
                   logout, answer, cleared, late, revived, lost>>

SignInSaves(s) ==
    /\ signIn[s].pc = "deleted"
    /\ profile' = [profile EXCEPT ![signIn[s].user] = signIn[s].token]
    /\ signIn' = [signIn EXCEPT ![s] = IF @.cancelled THEN IdleJob
                                       ELSE [@ EXCEPT !.pc = "saved"]]
    /\ cleared' = (cleared /\ s \in late)
    /\ revived' = (cleared /\ s \in late)
    /\ late' = late \ {s}
    /\ UNCHANGED <<issued, login, main, check, loading, activeUser, call,
                   logout, answer, overlap, lost>>

SignInDelivered(s) ==
    /\ signIn[s].pc = "saved"
    /\ signIn' = [signIn EXCEPT ![s] = IdleJob]
    /\ \/ OpenMain
       \/ /\ login = "finishing"
          /\ UNCHANGED <<login, main, loading, activeUser>>
    /\ UNCHANGED <<profile, issued, check, call, logout, answer, history>>

-----------------------------------------------------------------------------
(* MainActivity: initiateActiveUser.  With no row the mapper is handed     *)
(* null: a NullPointerException.                                           *)
ReadActiveUser ==
    /\ loading.pc = "launched"
    /\ \/ /\ Rows = {}
          /\ ProcessDies
       \/ /\ \E u \in Rows : loading' = [pc |-> "read", user |-> u]
          /\ UNCHANGED <<profile, issued, login, main, check, activeUser,
                         signIn, call, logout, answer, history>>

ActiveUserDelivered ==
    /\ loading.pc = "read"
    /\ loading' = IdleLoading
    /\ \/ activeUser' = loading.user
       \/ main = "finishing" /\ UNCHANGED activeUser
    /\ UNCHANGED <<profile, issued, login, main, check, signIn, call, logout,
                   answer, history>>

-----------------------------------------------------------------------------
(* API calls, through SimonisInterceptor.  The first screen appears when   *)
(* the active user is known; screens start calls and, when popped, cancel  *)
(* them.                                                                   *)
StartCall(c) ==
    /\ main = "active" /\ activeUser # NoUser
    /\ call[c].pc = "idle"
    /\ call' = [call EXCEPT ![c] = [IdleJob EXCEPT !.pc = "reading"]]
    /\ UNCHANGED <<profile, issued, login, main, check, loading, activeUser,
                   signIn, logout, answer, history>>

CancelCall(c) ==
    /\ main = "active"
    /\ call[c].pc # "idle" /\ ~call[c].cancelled
    /\ call' = [call EXCEPT ![c].cancelled = TRUE]
    /\ UNCHANGED <<profile, issued, login, main, check, loading, activeUser,
                   signIn, logout, answer, history>>

CallReadsToken(c) ==
    /\ call[c].pc = "reading"
    /\ \E t \in SelectToken :
         call' = [call EXCEPT ![c].pc = "sending", ![c].token = t]
    /\ UNCHANGED <<profile, issued, login, main, check, loading, activeUser,
                   signIn, logout, answer, history>>

CallSettles(c) ==
    /\ call' = [call EXCEPT ![c] = IdleJob]
    /\ late' = late \ {c}
    /\ UNCHANGED <<profile, issued, login, main, check, loading, activeUser,
                   signIn, logout, answer, overlap, cleared, revived, lost>>

CallAnswered(c) ==
    /\ call[c].pc \in {"sending", "resending"}
    /\ CallSettles(c)

CallDenied(c) ==
    /\ call[c].pc = "sending"
    /\ call' = [call EXCEPT ![c].pc = "denied"]
    /\ UNCHANGED <<profile, issued, login, main, check, loading, activeUser,
                   signIn, logout, answer, history>>

(* Timeout, cancelled connection, an error status, 401 on the second try.  *)
CallFails(c) ==
    /\ call[c].pc \in {"sending", "resending"}
    /\ Rethrow(call[c], CallSettles(c))

(* Mutant: the missing row goes unnoticed. *)
CallReadsUser_NullUser(c) ==
    /\ call[c].pc = "denied"
    /\ \E u \in IF Rows = {} THEN {NoUser} ELSE Rows :
         call' = [call EXCEPT ![c].pc = "relogin", ![c].user = u]
    /\ UNCHANGED <<profile, issued, login, main, check, loading, activeUser,
                   signIn, logout, answer, history>>

(* Mutant: the refresh logs in as the user on screen. *)
CallReadsUser_FromScreen(c) ==
    /\ call[c].pc = "denied" /\ activeUser # NoUser
    /\ call' = [call EXCEPT ![c].pc = "relogin", ![c].user = activeUser]
    /\ UNCHANGED <<profile, issued, login, main, check, loading, activeUser,
                   signIn, logout, answer, history>>

(* refreshToken: getActiveUser, with the null row fatal on this thread too. *)
CallReadsUser(c) ==
    /\ call[c].pc = "denied"
    /\ \/ /\ Rows = {}
          /\ ProcessDies
       \/ /\ \E u \in Rows :
               call' = [call EXCEPT ![c].pc = "relogin", ![c].user = u]
          /\ UNCHANGED <<profile, issued, login, main, check, loading,
                         activeUser, signIn, logout, answer, history>>

(* Mutant: the login is answered from a cache. *)
ReloginAccepted_Cached(c) ==
    /\ call[c].pc = "relogin"
    /\ call' = [call EXCEPT ![c].pc = "refreshed",
                            ![c].token = [user |-> call[c].user, serial |-> issued]]
    /\ UNCHANGED <<profile, issued, login, main, check, loading, activeUser,
                   signIn, logout, answer, history>>

ReloginAccepted(c) ==
    /\ call[c].pc = "relogin"
    /\ issued < MaxTokens
    /\ issued' = issued + 1
    /\ call' = [call EXCEPT ![c].pc = "refreshed",
                            ![c].token = NewToken(call[c].user)]
    /\ UNCHANGED <<profile, login, main, check, loading, activeUser, signIn,
                   logout, answer, history>>

(* HttpException is not an IOException: it kills the OkHttp thread, and    *)
(* the process, whether the call is cancelled or not.                      *)
ReloginRefused(c) ==
    /\ call[c].pc = "relogin"
    /\ ProcessDies

ReloginUnreachable(c) ==
    /\ call[c].pc = "relogin"
    /\ Rethrow(call[c], CallSettles(c))

CallSaves(c) ==
    /\ call[c].pc = "refreshed"
    /\ profile' = [profile EXCEPT ![call[c].user] = call[c].token]
    /\ call' = [call EXCEPT ![c].pc = "resending"]
    /\ revived' = (revived \/ (cleared /\ c \in late))
    /\ UNCHANGED <<issued, login, main, check, loading, activeUser, signIn,
                   logout, answer, overlap, cleared, late, lost>>

-----------------------------------------------------------------------------
(* Logout from the options menu.                                           *)
TapLogout(l) ==
    /\ main = "active" /\ answer = "none"
    /\ logout[l].pc = "idle"
    /\ logout' = [logout EXCEPT ![l].pc = "requested"]
    /\ UNCHANGED <<profile, issued, login, main, check, loading, activeUser,
                   signIn, call, answer, history>>

(* Mutant: success is more than one deleted row. *)
LogoutDeletes_ResultGtOne(l) ==
    /\ logout[l].pc = "requested"
    /\ profile' = EmptyTable
    /\ logout' = [logout EXCEPT ![l] =
         [pc |-> "deleted", removed |-> \E u, v \in Rows : u # v]]
    /\ cleared' = TRUE
    /\ late' = InFlight
    /\ revived' = FALSE
    /\ UNCHANGED <<issued, login, main, check, loading, activeUser, signIn,
                   call, answer, overlap, lost>>

LogoutDeletes(l) ==
    /\ logout[l].pc = "requested"
    /\ profile' = EmptyTable
    /\ logout' = [logout EXCEPT ![l] = [pc |-> "deleted", removed |-> Rows # {}]]
    /\ cleared' = TRUE
    /\ late' = InFlight
    /\ revived' = FALSE
    /\ UNCHANGED <<issued, login, main, check, loading, activeUser, signIn,
                   call, answer, overlap, lost>>

(* Mutant: the result is taken for a failure's, and the other way about.   *)
ObserveLogout_Inverted(removed) ==
    \/ /\ ~removed /\ login = "none"
       /\ main' = "finishing"
       /\ login' = "active"
       /\ check' = "launched"
    \/ /\ removed \/ main = "finishing"
       /\ UNCHANGED <<login, main, check>>

(* The observer navigates when the delete removed a row; a finishing       *)
(* activity may be stopped, and no longer observe.                         *)
ObserveLogout(removed) ==
    \/ /\ removed /\ login = "none"
       /\ main' = "finishing"
       /\ login' = "active"
       /\ check' = "launched"
    \/ /\ ~removed \/ main = "finishing"
       /\ UNCHANGED <<login, main, check>>

(* logoutController.value: the observer of a started activity runs at      *)
(* once.  For a stopped one (the user went home, or to a web form) the     *)
(* value waits, and it replaces the one that waited before.                *)
LogoutAnswered(l) ==
    /\ logout[l].pc = "deleted"
    /\ logout' = [logout EXCEPT ![l] = IdleLogout]
    /\ \/ /\ answer = "none"
          /\ ObserveLogout(logout[l].removed)
          /\ UNCHANGED <<answer, lost>>
       \/ /\ main = "active"
          /\ answer' = IF logout[l].removed THEN "yes" ELSE "no"
          /\ lost' = (lost \/ (answer = "yes" /\ ~logout[l].removed))
          /\ UNCHANGED <<login, main, check>>
    /\ UNCHANGED <<profile, issued, loading, activeUser, signIn, call,
                   overlap, cleared, late, revived>>

(* The user comes back to the main screen, and the value is delivered.     *)
ReturnToMain ==
    /\ main = "active" /\ answer # "none"
    /\ ObserveLogout(answer = "yes")
    /\ answer' = "none"
    /\ UNCHANGED <<profile, issued, loading, activeUser, signIn, call, logout,
                   history>>

-----------------------------------------------------------------------------
SignInStep(s) ==
    \/ SignInAccepted(s) \/ SignInRefused(s)
    \/ SignInDeletes(s) \/ SignInSaves(s) \/ SignInDelivered(s)

CallStep(c) ==
    \/ CallReadsToken(c) \/ CallAnswered(c) \/ CallDenied(c) \/ CallFails(c)
    \/ CallReadsUser(c) \/ ReloginAccepted(c) \/ ReloginRefused(c)
    \/ ReloginUnreachable(c) \/ CallSaves(c)

LogoutStep(l) == LogoutDeletes(l) \/ LogoutAnswered(l)

Next ==
    \/ Launch \/ LeaveLogin \/ LeaveMain \/ DestroyLogin \/ DestroyMain
    \/ CheckReads \/ CheckDelivered
    \/ ReadActiveUser \/ ActiveUserDelivered
    \/ \E s \in SignIns : SignInStep(s) \/ \E u \in Users : TapSignIn(s, u)
    \/ \E c \in Calls : CallStep(c) \/ StartCall(c) \/ CancelCall(c)
    \/ \E l \in Logouts : LogoutStep(l) \/ TapLogout(l)
    \/ ReturnToMain
    \/ ProcessDies

Spec == Init /\ [][Next]_vars

(* Coroutines and OkHttp threads run on, every request is answered or times *)
(* out, and Android destroys what is finished.  Users, servers and the      *)
(* system killer owe nothing.                                               *)
Fairness ==
    /\ WF_vars(DestroyLogin) /\ WF_vars(DestroyMain)
    /\ WF_vars(CheckReads) /\ WF_vars(CheckDelivered)
    /\ WF_vars(ReadActiveUser) /\ WF_vars(ActiveUserDelivered)
    /\ \A s \in SignIns : WF_vars(SignInStep(s))
    /\ \A c \in Calls : WF_vars(CallStep(c))
    /\ \A l \in Logouts : WF_vars(LogoutStep(l))

FairSpec == Spec /\ Fairness

-----------------------------------------------------------------------------
(* Every variable has its type; rows hold their own user's tokens.         *)
TypeOK ==
    /\ profile \in [Users -> MaybeToken]
    /\ issued \in 0..MaxTokens
    /\ login \in Lifecycle /\ main \in Lifecycle
    /\ check \in {"idle", "launched", "yes", "no"}
    /\ loading \in [pc : {"idle", "launched", "read"}, user : MaybeUser]
    /\ activeUser \in MaybeUser
    /\ signIn \in [SignIns -> SignInState]
    /\ call \in [Calls -> CallState]
    /\ logout \in [Logouts -> LogoutState]
    /\ answer \in {"none", "yes", "no"} /\ (answer # "none" => main = "active")
    /\ overlap \in BOOLEAN /\ cleared \in BOOLEAN /\ revived \in BOOLEAN
    /\ lost \in BOOLEAN
    /\ late \in SUBSET (SignIns \cup Calls)

(* AuthManagerImpl reads the one row of a table whose key is the user id:  *)
(* it names the signed-in user only while there is at most one.  There is, *)
(* as long as no sign-in empties the table between another writer's answer *)
(* from the server and its save, or under a running MainActivity.          *)
OneProfileUnlessOverlap ==
    ~overlap => \A u, v \in Rows : u = v

(* After a logout the table stays empty until somebody signs in: the only  *)
(* writers that can undo it were already in flight when it emptied the     *)
(* table (a token refresh, or a sign-in).                                  *)
LogoutSticks ==
    cleared /\ ~revived => Rows = {}

(* MainActivity keeps a copy of the user for as long as it lives.  The     *)
(* copy and the table agree until a logout empties the table, which the    *)
(* activity sees later, and not at all if the result of another logout     *)
(* comes over that one's while it is stopped.                              *)
Unaware ==
    lost \/ answer = "yes" \/ \E l \in Logouts : logout[l].removed

ShownUserIsStored ==
    (main = "active" /\ activeUser # NoUser /\ ~overlap /\ ~Unaware)
      => Rows = {activeUser}

(* What a living screen is sent was asked for as the user it is shown to,  *)
(* or as nobody: the interceptor's own read of the table, the refresh and  *)
(* the retry never borrow another account's token.                         *)
CallsCarryShownUser ==
    \A c \in Calls :
      (/\ main = "active" /\ ~overlap /\ ~call[c].cancelled
       /\ call[c].pc \in {"sending", "denied", "resending"})
        => call[c].token = NoToken \/ call[c].token.user = activeUser

(* The credentials behave as CredentialStore says: a token is stored at    *)
(* most once, in its own user's row, and never after it was given up.      *)
HeldTokens ==
    {signIn[s].token : s \in {t \in SignIns : signIn[t].pc \in {"granted", "deleted"}}}
    \cup {call[c].token : c \in {d \in Calls : call[d].pc = "refreshed"}}

Store == INSTANCE CredentialStore
           WITH stored <- profile, granted <- HeldTokens, last <- issued

StoreImplemented == Store!StoreSpec

(* A token that was overwritten, wiped or given up never comes back: no    *)
(* slow sign-in or refresh brings an old login back over a newer one.      *)
TokensDoNotReturn ==
    [][\A t \in [user : Users, serial : 1..issued] :
         t \notin HeldTokens /\ profile[t.user] # t
           => t \notin HeldTokens' /\ profile'[t.user] # t]_vars

(* The user comes back to a main screen with a result that waits.          *)
UserReturns == []<>(answer = "none")

(* A logout the user asked for on a usable screen takes effect when the    *)
(* user is there to see it: the main screen is left, unless a sign-in      *)
(* overlapped or the result of another logout came over a success.         *)
LogoutTakesEffect ==
    UserReturns =>
      \A l \in Logouts :
        (logout[l].pc = "requested" /\ activeUser # NoUser)
          ~> (main # "active" \/ overlap \/ lost)

(* A main screen over an empty table (every request would go out           *)
(* anonymous, every refresh would crash) does not last, but where the      *)
(* result of a second logout came over that of the first.                  *)
MainIsNotStranded ==
    UserReturns =>
      ((main = "active" /\ Rows = {}) ~> (main # "active" \/ Rows # {} \/ lost))
=============================================================================
