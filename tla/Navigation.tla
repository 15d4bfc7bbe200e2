---------------------------- MODULE Navigation ----------------------------
(***************************************************************************)
(* The pages of MainActivity: menu, submenus, equipment and inspection     *)
(* lists are fragments in one container.  A tap commits a transaction,     *)
(* which Android runs later; Back undoes the last one.  Equipment and      *)
(* inspection pages load their list each time their view is created and    *)
(* share the activity's one progress bar (PageLoaderListener): shown by    *)
(* onViewCreated, hidden by whichever page next observes a list.           *)
(* Observers run only in the container of the activity in front.           *)
(***************************************************************************)
EXTENDS Integers, Sequences, FiniteSets

CONSTANTS Pages,       \* fragments that may exist at once
          MaxQueue,    \* bound: transactions committed and not yet run
          MaxLoads,    \* bound: loads under way in one page
          MaxRecreate  \* bound: configuration changes of MainActivity

ASSUME NavigationConstants ==
    /\ IsFiniteSet(Pages)
    /\ MaxQueue \in Nat \ {0} /\ MaxLoads \in Nat /\ MaxRecreate \in Nat

VARIABLES kind,      \* [Pages -> kind of fragment, "unused" if there is none]
          loads,     \* [Pages -> loads its view model has under way]
          listed,    \* [Pages -> its LiveData holds a list]
          fresh,     \* [Pages -> its observers have not been given the list yet]
          container, \* pages in R.id.fragment
          stack,     \* the back stack: page added, pages it replaced
          queue,     \* kinds of the committed transactions
          loader,    \* the progress bar is visible
          user,      \* initiateActiveUser calls not delivered yet
          web,       \* a WebFormActivity is in front
          abandoned, \* history: a page was left while the bar was up for it
          recreated  \* history: configuration changes so far

navVars == <<kind, loads, listed, fresh, container, stack, queue, loader, user,
             web, abandoned, recreated>>

Kinds == {"menu", "submenu", "equipment", "inspection"}
UsesLoader(k) == k \in {"equipment", "inspection"}
Loads(k) == k # "submenu"

(* Bound: fragments are left for `n` more transactions besides those due.  *)
Room(n) ==
    Cardinality({p \in Pages : kind[p] = "unused"}) >= n + Len(queue) + user

NavInit ==
    /\ kind = [p \in Pages |-> "unused"]
    /\ loads = [p \in Pages |-> 0]
    /\ listed = [p \in Pages |-> FALSE]
    /\ fresh = [p \in Pages |-> FALSE]
    /\ container = {} /\ stack = <<>> /\ queue = <<>>
    /\ loader = FALSE /\ user = 1 /\ web = FALSE
    /\ abandoned = FALSE /\ recreated = 0

-----------------------------------------------------------------------------
(* Pages some back stack entry still refers to keep their view model.      *)
InStack(stk) == UNION {stk[i].removed \cup {stk[i].page} : i \in DOMAIN stk}

(* A page whose bar is up and whose list has not come.                     *)
Waiting(p) == UsesLoader(kind[p]) /\ ~listed[p]
Unseen(p) == Waiting(p) \/ fresh[p]

(* The fragments in `shown` leave or stay, those in `entering` get a view: *)
(* onViewCreated starts a load and raises the bar, then onStart hands the  *)
(* observers the list, if there is one already, which hides it.  Fragments *)
(* neither shown nor in the back stack are destroyed, loads and all.       *)
Show(shown, stk, entering, knd) ==
    LET alive == shown \cup InStack(stk)
        raising == {p \in entering : UsesLoader(knd[p])}
        had == [p \in Pages |-> p \in alive /\ listed[p]]
    IN  /\ \A p \in entering : loads[p] < MaxLoads
        /\ container' = shown
        /\ stack' = stk
        /\ kind' = [p \in Pages |-> IF p \in alive THEN knd[p] ELSE "unused"]
        /\ loads' = [p \in Pages |->
                       IF p \notin alive THEN 0
                       ELSE IF p \in entering /\ Loads(knd[p]) THEN loads[p] + 1
                       ELSE loads[p]]
        /\ listed' = had
        /\ fresh' = [p \in Pages |-> p \in alive \ entering /\ fresh[p]]
        /\ IF raising = {} THEN loader' = loader
           ELSE \E last \in raising : loader' = ~had[last]
        /\ abandoned' = (loader' /\ (abandoned \/ \E p \in container \ shown : Unseen(p)))

(* Mutant: the root menu is put on the back stack like any other page.     *)
RunTransaction_MenuPushed ==
    /\ queue # <<>>
    /\ \E p \in Pages :
         /\ kind[p] = "unused"
         /\ Show({p}, Append(stack, [page |-> p, removed |-> container]),
                 {p}, [kind EXCEPT ![p] = Head(queue)])
    /\ queue' = Tail(queue)
    /\ UNCHANGED <<user, web, recreated>>

(* replaceFragment, when the transaction runs: everything in the container *)
(* goes; the root menu is the one page that is not put on the back stack.  *)
RunTransaction ==
    /\ queue # <<>>
    /\ \E p \in Pages :
         /\ kind[p] = "unused"
         /\ Show({p},
                 IF Head(queue) = "menu" THEN stack
                 ELSE Append(stack, [page |-> p, removed |-> container]),
                 {p},
                 [kind EXCEPT ![p] = Head(queue)])
    /\ queue' = Tail(queue)
    /\ UNCHANGED <<user, web, recreated>>

(* onBackPressed: the fragment manager runs what is queued, then undoes    *)
(* the last transaction.                                                   *)
Back ==
    /\ ~web /\ queue = <<>> /\ stack # <<>>
    /\ LET top == stack[Len(stack)]
           below == SubSeq(stack, 1, Len(stack) - 1)
       IN  Show((container \ {top.page}) \cup top.removed, below,
                top.removed \ container, kind)
    /\ UNCHANGED <<queue, user, web, recreated>>

(* With nothing to undo the activity finishes; the next one starts afresh, *)
(* as after the death of the process.                                      *)
Restart ==
    /\ kind' = [p \in Pages |-> "unused"]
    /\ loads' = [p \in Pages |-> 0]
    /\ listed' = [p \in Pages |-> FALSE]
    /\ fresh' = [p \in Pages |-> FALSE]
    /\ container' = {} /\ stack' = <<>> /\ queue' = <<>>
    /\ loader' = FALSE /\ user' = 1 /\ web' = FALSE
    /\ abandoned' = FALSE /\ recreated' = 0

Leave ==
    /\ ~web /\ queue = <<>> /\ stack = <<>>
    /\ Restart

-----------------------------------------------------------------------------
(* The active user is known: runMainFragment.                              *)
UserDelivered ==
    /\ user > 0 /\ ~web
    /\ user' = user - 1
    /\ Len(queue) < MaxQueue
    /\ queue' = Append(queue, "menu")
    /\ UNCHANGED <<kind, loads, listed, fresh, container, stack, loader, web,
                   abandoned, recreated>>

(* onMenuItemClicked, on a page that shows its list, as often as the user  *)
(* taps before the transaction runs.                                       *)
Leads(k) == CASE k \in {"menu", "submenu"} -> {"submenu", "equipment"}
              [] k = "equipment" -> {"inspection"}
              [] k = "inspection" -> {}

Tap(p) ==
    /\ p \in container /\ ~web
    /\ Loads(kind[p]) => listed[p]
    /\ Len(queue) < MaxQueue /\ Room(1)
    /\ \E k \in Leads(kind[p]) : queue' = Append(queue, k)
    /\ UNCHANGED <<kind, loads, listed, fresh, container, stack, loader, user,
                   web, abandoned, recreated>>

OpenWebForm(p) ==
    /\ p \in container /\ ~web
    /\ kind[p] = "inspection" /\ listed[p]
    /\ web' = TRUE
    /\ UNCHANGED <<kind, loads, listed, fresh, container, stack, queue, loader,
                   user, abandoned, recreated>>

(* Mutant: what came while the form was in front is taken as shown.        *)
CloseWebForm_NoCatchUp ==
    /\ web
    /\ web' = FALSE
    /\ fresh' = [p \in Pages |-> fresh[p] /\ p \notin container]
    /\ UNCHANGED <<kind, loads, listed, container, stack, queue, loader, user,
                   abandoned, recreated>>

(* WebFormActivity finishes: the observers of the container catch up.      *)
CloseWebForm ==
    /\ web
    /\ web' = FALSE
    /\ loader' = (loader /\ ~\E p \in container : fresh[p] /\ UsesLoader(kind[p]))
    /\ fresh' = [p \in Pages |-> fresh[p] /\ p \notin container]
    /\ abandoned' = (abandoned /\ loader')
    /\ UNCHANGED <<kind, loads, listed, container, stack, queue, user, recreated>>

-----------------------------------------------------------------------------
(* Mutants: a page hides the bar though it is not in front (observeForever *)
(* instead of observe); the list is dropped; the load counts twice.        *)
LoadDelivered_ObserveForever(p) ==
    /\ loads[p] > 0
    /\ loads' = [loads EXCEPT ![p] = @ - 1]
    /\ listed' = [listed EXCEPT ![p] = TRUE]
    /\ loader' = (loader /\ ~UsesLoader(kind[p]))
    /\ abandoned' = (abandoned /\ loader')
    /\ UNCHANGED <<kind, fresh, container, stack, queue, user, web, recreated>>

LoadDelivered_Dropped(p) ==
    /\ loads[p] > 0
    /\ loads' = [loads EXCEPT ![p] = @ - 1]
    /\ listed' = [listed EXCEPT ![p] = @ \/ ~UsesLoader(kind[p])]
    /\ UNCHANGED <<kind, fresh, container, stack, queue, loader, user, web,
                   abandoned, recreated>>

LoadDelivered_CountedTwice(p) ==
    /\ loads[p] > 0
    /\ loads' = [loads EXCEPT ![p] = @ - 2]
    /\ listed' = [listed EXCEPT ![p] = TRUE]
    /\ UNCHANGED <<kind, fresh, container, stack, queue, loader, user, web,
                   abandoned, recreated>>

(* A load ends.  Its observers, if the page is in front, hide the bar;     *)
(* nobody catches a failure.                                               *)
LoadDelivered(p) ==
    /\ loads[p] > 0
    /\ loads' = [loads EXCEPT ![p] = @ - 1]
    /\ listed' = [listed EXCEPT ![p] = TRUE]
    /\ LET seen == p \in container /\ ~web
       IN  /\ fresh' = [fresh EXCEPT ![p] = ~seen]
           /\ loader' = (loader /\ ~(seen /\ UsesLoader(kind[p])))
           /\ abandoned' = (abandoned /\ loader')
    /\ UNCHANGED <<kind, container, stack, queue, user, web, recreated>>

LoadFails(p) ==
    /\ loads[p] > 0
    /\ Restart

(* A configuration change: MainActivity, its bar and the views of the      *)
(* container are created anew; view models, values and the back stack      *)
(* survive.  The retained user is delivered at once, the new call's later. *)
Recreate ==
    /\ ~web /\ queue = <<>> /\ container # {}
    /\ recreated < MaxRecreate /\ Room(2)
    /\ recreated' = recreated + 1
    /\ \A p \in container : loads[p] < MaxLoads
    /\ loads' = [p \in Pages |-> IF p \in container /\ Loads(kind[p])
                                 THEN loads[p] + 1 ELSE loads[p]]
    /\ fresh' = [p \in Pages |-> fresh[p] /\ p \notin container]
    /\ LET raising == {p \in container : UsesLoader(kind[p])}
       IN  IF raising = {} THEN loader' = FALSE
           ELSE \E last \in raising : loader' = ~listed[last]
    /\ abandoned' = FALSE
    /\ queue' = <<"menu">>
    /\ user' = user + 1
    /\ UNCHANGED <<kind, listed, container, stack, web>>

NavNext ==
    \/ RunTransaction \/ Back \/ Leave \/ UserDelivered \/ CloseWebForm
    \/ Recreate
    \/ \E p \in Pages :
         Tap(p) \/ OpenWebForm(p) \/ LoadDelivered(p) \/ LoadFails(p)

NavSpec == NavInit /\ [][NavNext]_navVars

(* The main thread runs what is posted to it; a request is answered or     *)
(* fails within OkHttp's timeouts.                                         *)
NavFairSpec ==
    /\ NavSpec
    /\ WF_navVars(RunTransaction) /\ WF_navVars(UserDelivered)
    /\ \A p \in Pages : WF_navVars(LoadDelivered(p) \/ LoadFails(p))

-----------------------------------------------------------------------------
(* The type of the variables; loads are counted exactly, up to the bound.   *)
NavTypeOK ==
    /\ kind \in [Pages -> Kinds \cup {"unused"}]
    /\ loads \in [Pages -> 0..MaxLoads]
    /\ listed \in [Pages -> BOOLEAN]
    /\ fresh \in [Pages -> BOOLEAN]
    /\ container \in SUBSET Pages
    /\ stack \in Seq([page : Pages, removed : SUBSET Pages])
    /\ queue \in Seq(Kinds) /\ Len(queue) <= MaxQueue
    /\ loader \in BOOLEAN /\ web \in BOOLEAN /\ abandoned \in BOOLEAN
    /\ user \in 0..(MaxRecreate + 1) /\ recreated \in 0..MaxRecreate

(* However often the user taps before Android runs the transactions, the   *)
(* back stack is a path: each entry replaced exactly the page pushed       *)
(* before it, and the last page pushed is alone in the container.  (A      *)
(* configuration change breaks it: runMainFragment replaces without a back *)
(* stack entry, and Back then adds pages next to the new menu.)            *)
BackStackIsPath ==
    recreated = 0 =>
      /\ Cardinality(container) <= 1
      /\ \A i \in DOMAIN stack :
           /\ Cardinality(stack[i].removed) = 1
           /\ i > 1 => stack[i].removed = {stack[i-1].page}
      /\ stack # <<>> => container = {stack[Len(stack)].page}

(* One progress bar stands for all pages.  A page that has no list yet is  *)
(* loading one, and as long as the activity was not recreated the bar is   *)
(* up for it: nobody else's list hides it.  It stays up without a visible  *)
(* page to wait for only because a page was popped, or covered by a second *)
(* tap, before its list came (or the activity is behind a web form and has *)
(* not shown the list yet).                                                *)
BarIsRight ==
    /\ \A p \in container :
         Waiting(p) => loads[p] > 0 /\ (recreated = 0 => loader)
    /\ loader /\ ~abandoned => \E p \in container : Unseen(p)

(* Until the activity is recreated, the pages are those the user went      *)
(* through: the root, which the first transaction put in the container,    *)
(* and the page of each back stack entry.                                  *)
Root == CHOOSE p \in Pages :
          (IF stack = <<>> THEN container ELSE stack[1].removed) \subseteq {p}

Trail ==
    IF recreated # 0 \/ container = {} THEN <<>>
    ELSE [i \in 1..(Len(stack) + 1) |-> IF i = 1 THEN Root ELSE stack[i-1].page]

(* The pages behave as PageHistory says: the user sees the last page gone  *)
(* to and nothing else, whatever was tapped before it was shown; Back      *)
(* returns to the one before, whose list was kept or has come meanwhile.   *)
History == INSTANCE PageHistory
             WITH path <- Trail,
                  shown <- IF recreated = 0 THEN container ELSE {},
                  filled <- IF recreated = 0 THEN {p \in Pages : listed[p]} ELSE {},
                  lost <- recreated # 0

HistoryImplemented == History!HistorySpec

(* A page the user waits for gets its list, or is left.                    *)
PageLoads ==
    \A p \in Pages :
      (p \in container /\ Waiting(p)) ~> (listed[p] \/ p \notin container)
=============================================================================
