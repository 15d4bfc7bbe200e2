# Simonis: models, checks and proofs

This directory verifies parts of the Simonis repository with TLA+: modules that
model the code, TLC configurations that check them on small instances, and
theorems that the TLA+ proof system (TLAPS) checks for every value of the
constants.

The repository holds two things that have nothing to do with each other at run
time:

- **the Simonis app** (`app/`, `domain/`, `platform/`): an Android app in
  Kotlin with which inspectors of electrical substations sign in, pick
  equipment or an inspection from a menu, and fill in a form on a web page;
- **the Android platform tools** it was checked in with: binaries, and under
  `systrace/catapult/` the Python sources of *catapult* that systrace is built
  from: `devil` (drives devices over adb), `py_utils`, `py_trace_event`,
  `dependency_manager`, `systrace`, `profile_chrome`.

Most of the Python is libraries whose behaviour is hard for the same reasons in
all of them (threads that cannot be killed, lock files, daemons and devices that
fail at any step), so the components below were picked for that.

## Inventory

| component | state | operations | what is hard | what makes it correct |
|---|---|---|---|---|
| **login session** (`NetworkModule.kt`, `UserInterActor.kt`, `AuthManagerImpl.kt`, login and main activity and view models) | the `profile` table; `MainActivity.activeUser`; coroutines | sign in, check whether signed in, API call with token refresh on 401, log out | four kinds of coroutine write one table without lock or transaction; refreshes outlive the screen that caused them; a crash at every await | one row; a logout is not undone; what is shown is what is stored; tokens are never replayed |
| **page navigation** (`MainActivity.kt`, `MenuFragment.kt`, equipment, inspection and web form screens) | fragments, back stack, pending transactions, view models' lists, one progress bar | tap, back, list arrives or fails, web form, configuration change | transactions run later than they are committed; pages share the bar; observers sleep behind the web form | the back stack is the path taken; a page without a list is loading it and says so |
| forms, web form, menu data, database schema, injection | see `PROJECT.json` | | unreachable, stateless, or in SQL and on the server's page | |
| **timeouts and retries** (`timeout_retry.py`, `reraiser_thread.py`, `watchdog_timer.py`, `decorators.py`, `_RunAdbCmd`) | threads of the tries, their watchdogs, the link of a worker group to its try | `Run`, `JoinAll`, `RunAsync`, `WaitFor`, an adb command | an abandoned thread works on beside its own retry | it is refused everything that touches the device; every command is timed; the call ends |
| **port forwarder** (`forwarder.py`) | two maps per process, a lock file with the owner's process group, host and device daemons | `Map`, `UnmapDevicePort`, `UnmapAllDevicePorts`, `KillHost`, `KillDevice`, `DevicePortForHostPort` | several processes share daemons; every command may fail between two changes of the maps; processes die | maps and daemons go together; nobody takes down what is not theirs |
| **trace event log** (`py_trace_event`: `log.py`, `multiprocessing_shim.py`; `lock.py`) | events in memory, a file shared between processes, a thread lock and a file lock | enable, add event, flush, disable, process end, fork | a forked process has its parent's memory, open file and file lock | no event lost, doubled or torn apart; one header |
| **tracing controller** (`tracing_controller.py`, its agents, `py_utils.Timeout`) | the main loop's place, agents started, trace in progress, collection threads, clock sync markers | `StartTracing`, `StopTracing`, clock sync, collection of results, end of the program | agents that fail, time out or raise at each step; a call that timed out goes on in its thread; traces are read by threads of their own | a trace that is shown is complete or the user was told; results can be put on one time line; stopping ends |
| **cloud storage lock and fetch** (`cloud_storage.py`, `cloud_storage_global_lock.py`, `lock.py`) | the guard file, a lock file beside each download, the file, its `.sha1` and `.fetchts` | take and give back the lock, `GetIfChanged`, `GetIfHashChanged`, `Get` | the lock file is created and removed by those who use it; processes give up waiting or die at any step | one process after the other; a stale file is not believed; nobody waits for ever |
| **dependency config** (`base_config.py`, `uploader.py`) | the config in memory and on disk, jobs that wait, cloud storage and backups | `AddCloudStorageDependencyUpdateJob`, `ExecuteUpdateJobs`, `Upload`, `Rollback` | one of several uploads fails, the user interrupts, the rollback fails, jobs are tried again | all is uploaded or none; what the config names is stored |
| **device caches** (`device_utils.py`) | what this process knows of the device, a token on the device, a dump for the next process | `Install`, `Uninstall`, `PushChangedFiles`, `DumpCacheData`, `LoadCacheData`, `ClearCache` | commands that fail half way; other processes and people use the device | what was asked for is on the device, although most of it is skipped |
| **parallelizer** | one thread group per step over many devices | call, `pFinish`, `pMap`, `pFilter` | joins without a watcher | timeouts hold, errors are not lost |
| **ports** | a counter in a file | reset, allocate | a crash between read and write, exhaustion | no port twice |
| **logcat monitor** | recording thread, file, stop event | `Start`, `Stop`, `WaitFor`, `Close` | the thread writes while the file is read, moved, closed | nothing recorded is lost |
| **device state keepers** (`battery_utils`, `flag_changer`, `perf_control`) | what was changed on the device | enable, disable, restore | a failed or repeated step | the device ends as it began |
| the rest of device utilities, adb and shell helpers, tools, trace viewer project, vendored libraries | see `PROJECT.json` | | meaning is the device's; scripts; build tools; third-party | |

In the app the components interact through the view models: `MainActivity`
shows what `Session` reads from the table (that `activeUser` arrives is
`UserDelivered` in `Navigation`), and each list that `Navigation` loads is an
API call of `Session`. The two are modelled apart because the only things
that cross are "the user has arrived" and "a load is answered or fails". In
catapult, `Forwarder` and everything else that talks to a device runs its adb
commands through `TimeoutRetry`: what the latter says about abandoned threads is
why an operation of `Forwarder` or `DeviceCache` may be taken as the sequence of
steps of one process. `ConfigUpdate` uploads the files that other hosts fetch
with `CloudStorage`; they meet only in the hash of a file, which both use as its
name. `Tracing` runs each call to an agent in a thread that is given up on when a timeout the user may give has passed, the
controller's agent is the trace log of `TraceLog`, and what crosses is that its
file is open (`ctl`) and has a clock sync marker (`log`).

## Modules

| module | models | proved in |
|---|---|---|
| `CredentialStore` | abstract: what the app promises about stored tokens | |
| `Session` (`MCSession`) | login session; implements `CredentialStore` | `App_proofs` |
| `PageHistory` | abstract: what the pages promise the user | |
| `Navigation` | page navigation; implements `PageHistory` | `App_proofs` |
| `TimeoutRetry` | timeouts and retries | `TimeoutRetry_proofs` |
| `Forwarder` (`MCForwarder`) | port forwarder | `Forwarder_proofs` |
| `EventJournal` | abstract: what a trace log promises to those who record events | |
| `TraceLog` (`MCTraceLog`) | trace event log; implements `EventJournal` | `TraceLog_proofs` |
| `LockedFile` | abstract: what the lock of a file promises | |
| `CloudStorage` | cloud storage lock and fetch; implements `LockedFile` | `CloudStorage_proofs` |
| `ConfigUpdate` (`MCConfigUpdate`) | dependency config | `ConfigUpdate_proofs` |
| `Tracing` | tracing controller | `Tracing_proofs` |
| `DeviceCache` (`MCDeviceCache`) | device caches | `DeviceCache_proofs` |

The MC modules only give constants their sets and define symmetry and constraints. `map` in
`PROJECT.json` gives the source lines of every definition. Definitions whose name
has a suffix after an underscore (`SignInDeletes_Forgotten`) are mutants: plausible
bugs put in the place of the definition before the underscore, which show that a property
can fail. They are no part of the specifications.

### Session

One action per step between two awaits, because a coroutine may be overtaken at
each: a sign-in is `TapSignIn`, `SignInAccepted` or `SignInRefused`,
`SignInDeletes`, `SignInSaves`, `SignInDelivered`; an API call `StartCall`,
`CallReadsToken`, `CallAnswered`, `CallDenied` or `CallFails`, and after a 401
`CallReadsUser`, `ReloginAccepted`, `ReloginRefused` or `ReloginUnreachable`,
`CallSaves`. Rows are tokens `[user, serial]`; the server grants serials in
order. What the code says between the lines is kept:

- `select ... limit 1` has no ORDER BY, so with two rows any may come
  (`SelectToken`); a query of an empty table gives null, and the null user of
  a refresh kills the process;
- no coroutine handles exceptions: one whose scope is alive takes the process
  with it (`Rethrow`), and so does a refused second login, which is thrown on
  OkHttp's thread; only the table and what the server did survive (`ProcessDies`);
- the interceptor's refresh blocks an OkHttp thread: cancelling the screen's
  scope stops neither the second login nor its write;
- `synchronized(request)` in the interceptor locks an object that only this call
  has: two refreshes run at once;
- logout reports success only if a row was deleted; otherwise the screen stays;
- the result of a logout is a LiveData value (`answer`): a started main screen observes it at
  once (`LogoutAnswered`), for a stopped one it waits until the user comes back
  (`ReturnToMain`), and the next result takes its place.

Simplifications: one activity of each kind; rotations of the login screen are not modelled;
the other LiveData deliver at once when their activity lives (the user is read once for each main
screen, and `loginResult` has successes only: one that takes another's place asks for the same navigation);
user ids are positive (the code's
`isUserLoggedIn` tests `id > 0`). History variables say when a sign-in
*overlapped* another writer (`overlap`), that a logout emptied the table
(`cleared`), which writers were in flight then (`late`), that one of them
saved afterwards (`revived`), and that main never saw a success because the failure of
another logout took its place (`lost`).

### Navigation

Taps append to `queue`, `RunTransaction` runs the oldest later; `Back`, before which
the fragment manager runs those due, undoes the last. `Show` is `onViewCreated`: it starts a load
and raises the bar; `LoadDelivered` gives a list to the page's observers if the
activity is in front, or marks it `fresh` for `CloseWebForm` to deliver;
`LoadFails` kills the process, as nothing catches it. `Recreate` keeps the
fragments and view models and delivers the retained user again. The history
variable `abandoned` is set when a page is popped or covered before its list
came. `PageHistory` is what the user is promised of all this: a path of pages, the last one on
screen, and `Back`, which takes that one away and shows the one before with the
list it had. `Trail` reads that path off the back stack. A configuration change loses
the history (`lost`), because `runMainFragment` then replaces the page without a back
stack entry; the promise is made again when the app starts afresh. The fragment manager and LiveData are external, modelled from how the
code uses them.

### TimeoutRetry

One call with `Retries + 1` tries. `caller` is where `Run` is: between two looks
at the watchdog, joining for 60 s at most, dumping stacks. Each try has a thread
for the function and, while that is in `RunAsync`, one for each worker. The time
left is *ample*, *short* (less than one sleep of `WaitFor`) or *over*, and only
passes down. What a decorated function does is nondeterministic: return, raise
something retried or not, wait, run an adb command, split its work. The first
of several workers' errors is raised; which one is first is left open.
`TimePasses` does not happen when there is no timeout.

### Forwarder

The lock file makes operations exclusive, so `Begin` takes the lock, the steps
follow one by one and `End` releases it; only `Die` can come in between, and
releases it too. Every command of a daemon can succeed or fail, and a
failed one may have had its effect or not. A daemon's death takes its forwardings along.
`lost` remembers the forwardings whose process died or was told of a failure:
nobody can be asked to unmap those. Process groups are compared by pid and start
time in the code; equal groups are equal here. Two facts read in the code are
modelled as they are and not stated as properties: when `Map` fails and killing
the device daemon fails too, the handler logs `str(e)` with no `e` bound and
raises `UnboundLocalError` (`forwarder.py:170`); and a second `Map` of a device
port leaves its old host port in the other map (`forwarder.py:187`).

### TraceLog

The JSON format. Each event is written in two halves, as `json.dump` writes an
unbuffered file in pieces. `_lock` makes the operations of one process follow
each other, so a process has at most one flush under way: `at` says where it is
and `why` for what. `flock` belongs to the open file: `fd[p]` is the process that opened
the file `p` writes to, which is its parent's after a fork. A process forked while
`_lock` is held (`Threaded`) is `stuck` at its first operation. A forked process drops what it has
inherited when it records its first event, but the shim makes each child flush, also one that
has recorded none: that one writes its parent's events, which the parent may write too. The history variable
`copied` has the events that went this way and who wrote them. A process enables tracing once. Not modelled: the
other formats, failing writes, Windows.

`EventJournal` is what all this is for: the events of a process go to the log one by
one, in their order, and only its death loses those that wait. A copy of an event may come to the log
before or after it, but not before those that its author recorded before it (`Echo`). `OwnEvents` leaves
out of a process's memory what it inherited, and an event is in the log (`Logged`) when its second half is
in the file. No run lists `JournalImplemented` and `EventsInOrder`; both are proved, and TLC finds no
violation of either with one root, one kid and two events each, and a violation of the former without `Echo`.

### CloudStorage

`_FileLock` in steps: under the guard (`TakeGuard`) the lock file is opened, which
creates it if its name stands for nothing (`OpenLock`), its flock is tried
(`Flock`, `FlockRefused`), and the guard is given back; to leave, the guard is taken
again, the flock released and the name removed. Removing a name does not
close the file behind it: `link` is what the name stands for, `held` who has the flock of each inode.
Waiting is polling: `GiveUp` is the time that `WaitFor` has run out. When it does
on leaving, the exception holds on to the descriptor until it is collected (`leaked`, `Collect`).
Inside are the steps of `GetIfChanged`, `GetIfHashChanged` and `Get`, which differ
in how they choose the hash. `fetched` compares `.fetchts` with `.sha1`; it is written
before the file is fetched and removed only when a fetched file is found to be wrong.
A process that dies releases what it holds. `Sync` is a checkout that replaces the `.sha1`.
`spoiled` is a history variable: something happened that `.fetchts` does not show.

### ConfigUpdate

`exec` is where `ExecuteUpdateJobs` is and with which job: `Exists`, `Copy` (with
`force` only) and `Insert` for each, then `OpenConfig`, `DumpConfig` and `Clear`. Any step may
fail, or be interrupted after its effect and before the program has noted it
(`InterruptAfter`). The rollback goes through the jobs from the last to the first and
stops where it fails. The config is a hash per platform and a download path, the latter because a config that
is dirty without jobs returns early. `blame` is a history variable: what has
happened that the rollback cannot handle.

### Tracing

The main thread's loops take agents in any order. `options` has the timeouts given on the command line,
of which there is none by default (`util.py:136`). Each call returns, fails, raises, or times out if
it was given a timeout; one that timed out stays in `late` and may have its effect at any time after.
Without a timeout a call may hang for ever (`hung`), as the commands below it have none of their own: `timeout_retry` gives
those of a thread that is timed already the time that this one has left. The clock sync is given no timeout in
any case (`syncHung`). Two agents ask for the marker through a shell: the answer to one's command is read,
the other's `echo` may fail and nobody notices (`Mark`). An agent's
stop tells the device to stop (process data and the process dump have no thread)
or starts a thread that stops the device and reads the trace (`ThreadStops`, `ThreadEnds`, `ThreadFails`).
`Exit` is the end of the program, which does not wait for these threads: they were made by the daemon thread
of a call, and are daemons too.

### DeviceCache

One app and one pushed file. The system image may have a version of the app (`system`): an installed one updates it, and
when that is uninstalled the system's takes its place. `cache` is the dictionary of `DeviceUtils`; its `token` and
`prev` are the token this process wrote to the device and the one it found.
An operation is a sequence of adb commands, each of which succeeds, or fails before or after its
effect; a command that is tried again is not told apart from one that fails late.
`OtherProcess` uses the same code and writes a token; `ByHand` is everybody else.
`Fresh` is a new process or a reboot. `blame` is a history variable: which parts of the cache
may be wrong, and `dump.spoiled` the same for the dump: others changed the app or the file ("apk", "file"),
an app of a loaded cache was not verified because the call that was to do it failed ("unverified"), or a push ended before it
could correct the cache ("push"). The last two are the code's own doing, and named as such
in what the properties say.

## What the runs show

| run | instance | states | shows |
|---|---|---|---|
| `session_signins` | 2 users, 2 sign-ins, 2 logouts, 2 tokens, fair | 724 622 | `OneProfileUnlessOverlap`, `ShownUserIsStored`, `LogoutTakesEffect`, `MainIsNotStranded`: sign-ins, logouts and deaths in every order, and the result of one logout over that of another |
| `session_calls` | 2 users, 1 sign-in, 2 calls, 1 logout, 2 tokens, symmetric | 1 211 206 | `TypeOK`, `LogoutSticks`, `CallsCarryShownUser`, `StoreImplemented`: token refreshes against a sign-in and a logout |
| `navigation` | 4 pages, queue of 2, 2 loads per page, 1 recreation, fair | 256 146 | `NavTypeOK`, `BarIsRight`, `HistoryImplemented`, `PageLoads`: taps, back, late lists, the web form and a rotation. `HistoryImplemented` follows what Back does to the pages; that each entry refers to the one below it (`BackStackIsPath`) is proved |
| `timeout_retry` | 2 workers, 1 retry, fair | 75 931 | `TypeOK`, `EveryCommandIsTimed`, `AbandonedTriesAreRefused`, `CallEnds`, `DeviceIsLeftAlone`: a try that is given up on beside its retry |
| `forwarder` | 1 process, 2 devices, 2 ports on each side, 2 pairs a call | 118 472 | `TypeOK`, `MappedPortIsFound`, `NothingIsLeft`: commands that fail between two changes of the maps |
| `forwarder_shards` | 3 processes in 2 groups, 2 devices | 5 066 363 | `ForwardsAreKnown`, `OtherDevicesKeepTheirs`: processes that share daemons and die |
| `forwarder_unmap` | 1 process | violation | `UnmapFindsItsEntries`: with two device ports forwarded to one host port, the unmap of the second raises `KeyError` |
| `trace_log` | 2 processes that open the file, 1 forked, 1 event each, kills | 361 627 | `TypeOK`, `WholeUnlessClash`, `EventsOnce`, `NothingForgotten`: writes of processes that share a file and a lock |
| `cloud_storage` | 2 processes, 2 hashes, 2 inodes, fair | 96 344 | `TypeOK`, `StaleOnlyWhenSpoiled`, `LockIsExclusive`, `CallEnds`: a lock whose file comes and goes, fetches that fail or are killed |
| `config_update` | 2 platforms, 3 files, 2 jobs | 552 586 | `TypeOK`, `RollbackRestores`, `PublishedIsStored`: uploads that fail half way, rollbacks, retries, restarts |
| `tracing` | 4 agents, each choice of timeouts, fair | 113 106 | `TypeOK`, `NothingIsLostSilently`, `ResultsAreSynced`, `StopEnds`: agents that fail, time out, hang and answer late |
| `device_cache` | 2 versions, 3 tokens | 1 054 586 | `TypeOK`, `AppIsAsAsked`, `FileIsAsAsked`: commands that are skipped on the word of a cache, with and without an app of the system |

The violation disagrees with what the code's own comment says of it; the
line is quoted under `findings` in `PROJECT.json`.

**Known to be false.** Three definitions state what one would like to hold and
the code does not do. They are in no run; TLC refutes each of them with the
configuration of its module:

- `RaisesNothingElse` (`TimeoutRetry`): a thread that ends while its stack is
  dumped makes the call raise `KeyError` (`reraiser_thread.py:31`);
- `WholeEvents` (`TraceLog`): parent and child share the file lock
  (`trace_event.py:43` says that the log may be shared), so one may write into the
  other's event; `WholeUnlessClash` is what is left of it;
- `UninstalledIsNoticed` (`DeviceCache`): `device_utils.py:3053` says that apps of a
  loaded cache are verified, but an app is struck off the list before the command that
  verifies it (`device_utils.py:674`), and the retry trusts what was not verified.

**Seen while modelling**, and kept in the models as the code has it:

- `Session`: of two logouts whose results come while the main screen is stopped the first may succeed and the second,
  which finds no row, not; main then stays open over an empty table (`lost`).
- `TraceLog`: a child that flushes before it has recorded an event writes its
  parent's events too (`log.py:257`), and an event that both have written is in the file twice. `EventsOnce` says
  that no other event is, and no header.
- `ConfigUpdate`: after a rollback a job keeps `backed_up` and loses its backup path,
  so the next execution copies to and from the path `None` (`uploader.py:95`); an
  interrupt between the writing of the config and the clearing of the jobs rolls back
  what the config names (`base_config.py:301`); a config that is dirty without
  uploads is not written although `True` is returned; a dump that fails leaves the
  config file empty, and nothing works any more.
- `Tracing`: when the controller's agent does not start, `StopTracing` iterates over
  `None`; an agent whose start timed out is never stopped and may begin to trace after
  that; by default nothing has a timeout, and the clock sync never has one; when atrace's marker is not
  written, the controller's trace has one all the same (`atrace_agent.py:237`).
- `CloudStorage`: a half-written `.fetchts` makes each later `GetIfChanged` raise
  `ValueError` until the `.sha1` changes; archives are unpacked when the lock is already given back.
- `DeviceCache`: a push that fails, or whose checksums do, leaves the checksums from
  before it in the cache (`device_utils.py:1656`); a bundle is installed past the cache; a
  second `LoadCacheData` compares with a token read with the first command.

**Bounds.** Each is a constant in a guard, or the size of a set of processes.
A hazard of `Session` takes at most a sign-in, another writer and a logout, so
two sign-ins and a call, or two calls and a sign-in, show each pair of writers
with a third one between; more tokens than writers would only be granted to writers that
start afresh; two logouts are one that succeeds and one whose result takes its place. A back stack entry of `Navigation` refers to the one below
it, and a third page shows whether the middle one is right; the fourth lets one wait in the queue.
Two tries are enough for an abandoned one to meet its retry; two workers for one to end and another to go on.
In `Forwarder` the two maps disagree with two entries; three processes
are two shards and one stranger. In `TraceLog` three processes are two that share an open
file and one that opened it for itself. Two processes of `CloudStorage` and two inodes are one
that holds the lock of a removed file and one that creates the next; a third process could only wait.
Two jobs of `ConfigUpdate` are one that is done when the other fails, and three files let them differ from what
was published. `Tracing` has one agent of each kind, told apart by the sets they are in. Three tokens
of `DeviceCache` are a process that dumps, one that loads, and a third that came in between.
The theorems below do not depend on the bounds.

Two constraints cut behaviours off. `Blameless` ends those of `ConfigUpdate` at the first event
that `blame` names: its properties say nothing of what follows. `OneOfBoth` keeps the app
and the file of `DeviceCache` out of one behaviour; they share the token, and
no step of one reads what is known of the other.

**Deadlock** is checked for `Session`, `Navigation` and `ConfigUpdate`. Calls of `TimeoutRetry` and
`CloudStorage` and the program of `Tracing` end, processes
of `Forwarder` may have no device daemon left to wait for, all processes of `TraceLog` end and the tokens of `DeviceCache` run out, so their runs
do not check it.

**Fairness** is only assumed in the runs with liveness properties:

- `session_signins`: each coroutine's next step is weakly fair (the dispatchers run
  what is ready, requests end within OkHttp's timeouts), and so is
  destroying an activity that called `finish()`; nothing is assumed of
  deaths of the process. The two properties themselves say that the user comes back to a main screen for which a result
  waits (`UserReturns`): nobody can be shown anything on a stopped screen;
- `navigation`: the main thread runs what was posted to it, each load is
  answered or fails;
- `timeout_retry`: the caller's loop, the clock, sleeps and adb commands (which
  have timeouts of their own) go on. What the function does between those is given no fairness:
  it may hang, and the call must still end;
- `cloud_storage`: a process goes on until it dies; one that finds the guard taken again
  and again gives up (strong fairness: the clock of `WaitFor` runs while it polls);
- `tracing`: once a stop was asked for, the main thread goes on from each call that ends; a call that hangs is a step to a place of its
  own, and `StopEnds` names these places. Collection threads go on: theirs is no thread of `timeout_retry`, so
  their commands have the default timeouts of `DeviceUtils`.

## What is proved

For every value of the constants that satisfies the module's named assumption:

| theorem | statement | argument |
|---|---|---|
| `SessionTypeOK` | `TypeOK` | with `JobsOK`: which fields a coroutine has filled in at which step |
| `SessionOneProfile` | `OneProfileUnlessOverlap` | `OneInv`: without overlap the row and all refreshes about to overwrite it are one user's, and a sign-in that emptied the table is the only one who may fill it. Steps are sorted into those that touch none of this (`Quiet`) and five that do (`Loud`) |
| `SessionLogoutSticks` | `LogoutSticks` | `SticksInv`: refreshes under way are older than the logout. The property alone does not say who may still write |
| `SessionShownUser` | `ShownUserIsStored` | `ShownInv` adds the read of the table that is not delivered yet, and that a logout under way, a result that waits, or `lost` accounts for a table that is empty under a shown user; rests on `OneInv` |
| `SessionCallsCarryShownUser` | `CallsCarryShownUser` | `KnownInv`: once main has read its user, all that is stored or about to be is that user's; `ScopeInv`: the calls of a screen end with it |
| `SessionImplementsStore` | `Spec => StoreImplemented` | every step has one of five effects on the tokens held and stored (`Effects`), each a step of `CredentialStore` or a stutter; needs that held tokens are distinct (`DistinctInv`) and their own writer's (`OwnInv`) |
| `SessionTokensDoNotReturn` | `Spec => TokensDoNotReturn` | an action property of the implementation read off the abstract specification: no step of `CredentialStore` brings back a token that is neither held nor stored, and each step of `Session` is one of its steps |
| `NavigationTypeOK`, `NavigationBackStackIsPath` | `NavTypeOK`; `BackStackIsPath` | `PathInv`: until the root menu is committed nothing is shown, after that no queued transaction is a menu, so that each one pushes an entry. The property alone does not say what is queued. `KindInv`: what is shown or named by the back stack is a fragment |
| `NavigationBarIsRight` | `BarIsRight` | `WaitInv` and `BarInv`: the bar is up for a page in the container, and what it waits for is a list that has not come or was not shown (`FreshInv`); `ShowBar` shows it for every replacement at once |
| `NavigationImplementsHistory` | `NavSpec => HistoryImplemented` | `Follows`: the path that `Trail` reads off the back stack leads from entry to entry, so that pushing an entry appends a page and undoing one takes the last. `AliveInv`: a page that is gone has no list and no load; `TrailInv`: no page comes twice, so that Back drops only its own list |
| `RetryTypeOK`, `RetryForAReason`, `RetryIsTimed`, `RetryWorkersEndFirst` | the invariants of `TimeoutRetry` | one inductive invariant: what the caller knows of the current try, that what it gave up on has ended or has no time left, that workers exist only below a linked function |
| `RetryRefusesAbandoned` | `AbandonedTriesAreRefused` | an action property from the same invariant: an abandoned thread that runs has no time left |
| `ForwarderTypeOK` | `TypeOK` | with `OpInv`: what the step of an operation says about its parameters |
| `ForwarderPortIsFound` | `MappedPortIsFound` | `FreshPorts`: host ports still to be mapped have no entry yet and differ |
| `ForwarderKnown` | `ForwardsAreKnown` | `KnownInv`: while entries of a device are cleaned out, nothing of it is forwarded |
| `ForwarderOtherDevices` | `OtherDevicesKeepTheirs` | action property: what each kind of daemon command can take down |
| `ForwarderNothingIsLeft` | `NothingIsLeft` | action property; `CleanInv`: when the operation comes to its last step, the device has no entry any more |
| `ForwarderNoKeyError` | `~ShareHostPorts` implies `UnmapFindsItsEntries` | the bound of the finding of `forwarder_unmap`: a step raises `KeyError` only if it takes out an entry whose host port has none, which `MappedPortIsFound` excludes (`EntryHasItsPort`) |
| `TraceLogTypeOK` | `TypeOK` | with `StepInv`: what is known of a process at each step of its life and of a flush |
| `TraceLogNoStaleLock` | `NoStaleLock` | inductive with `StepInv`; the lock changes hands only in `LockFile`, `Unlock` and `CloseFile` |
| `TraceLogOneHeader` | `OneHeader` | `HeaderInv`: until the header is complete nobody can write an event, which needs `OpenInv`: whoever writes the header holds the lock and those it forked meanwhile are stuck |
| `TraceLogNothingForgotten` | `NothingForgotten` | `OwnInv`: a process that has recorded has in memory exactly the last of its events, in order; `KeptInv`: those before are in the file, and one that has ended or closed the file has none left |
| `TraceLogEventsOnce` | `EventsOnce` | `OnceInv`: each half of an event that is in the file is of the header, was written as a copy, or has its place there: what a living process has written of its own ends where its memory begins (`Settled`). `RightfulInv`: between its two writes a process writes an event of its own, or one that `copied` has |
| `TraceLogWholeUnlessClash` | `WholeUnlessClash` | `WholeInv`: a first half at the end belongs to whoever is between its writes, or was killed there, its author or one that copies it; that nobody writes in between is `LockInv`: until a clash one process is at work and has the lock |
| `TraceLogEventsInOrder` | `EventsInOrder` | `OrderInv`: what waits in any process's memory, its own or inherited, is in order, and whatever its author recorded before is in the file or waits ahead of it (`Ordered`), so that part of an event is appended only when all before it are there. The property alone does not say what may still be written |
| `TraceLogImplementsJournal` | `Spec => JournalImplemented` | recording is `Note`, the second half of an event `Publish` when its author writes it and `Echo` when another does, a kill `Perish`, and the other steps stutter. That an event is new when it is recorded is `KnownInv`, that a copy comes after those before it `OrderInv` |
| `CloudStorageTypeOK`, `CloudStorageImplementsLock` | `TypeOK`; `Spec => LockIsExclusive` | `LockInv`: whoever opens, locks or removes the lock file has the guard, and a flock is held only while the name stands for its inode, so that nobody can lock the next one |
| `CloudStorageStale` | `StaleOnlyWhenSpoiled` | `FreshInv`: what a fetch that has begun will leave behind; needs that one process at a time is inside |
| `ConfigUpdateTypeOK`, `ConfigUpdatePublished` | `TypeOK`; `PublishedIsStored` | `StoreInv`: what the config in memory names is published or waits as a job, jobs that are through are stored, and no rollback that may come takes away what is published |
| `ConfigUpdateRollbackRestores` | `RollbackRestores` | `BackInv`: what differs from before is what jobs that remain to be undone can take back (`BeforeInv`); those are the first ones, each about a file of its own (`PrefixInv`) |
| `TracingTypeOK`, `TracingNothingIsLostSilently` | `TypeOK`; `NothingIsLostSilently` | `FateInv`: what becomes of each agent between its start and the end of the program: it is still to be stopped, its thread is at work, its result is there, or the user was told |
| `TracingResultsAreSynced` | `ResultsAreSynced` | `SyncInv` and `ThreadInv`: an agent is stopped, and its result collected, only when the loop of the clock sync has been through all agents with the controller's file open |
| `DeviceCacheTypeOK`, `DeviceCacheAppIsAsAsked`, `DeviceCacheFileIsAsAsked` | `TypeOK`; `AppIsAsAsked`; `FileIsAsAsked` | `AppInv`, `FileInv`: cache and dump are true of the device unless `blame` says otherwise; the tokens order who has seen what. `PlaceInv`: which steps go by the cache |

TLC has checked every invariant before it was proved. The theorems assume nothing but
the named assumptions of their modules, which say what the sets of constants have to do with each other.

Only model-checked: the liveness properties, as fairness and ENABLED are beyond the
prover. All safety properties of the runs that pass are proved.

## Not modelled

`PROJECT.json` lists every component left out with the reason. In short:

- of the app: native forms cannot be reached (`MainActivity.kt:55`); what the web form does is
  on the server's page; migrations are SQL; repositories, adapters and injection keep no state;
- of the device utilities: splits, pushes of several files, the property cache, and all operations that
  are one adb command or a sequence of them whose meaning is the device's; device tools are scripts on top
  of these;
- parallelizer, ports, logcat monitor and the device state keepers: small components whose hard parts
  rest on threads, timeouts and locks that are modelled (`TimeoutRetry`, `CloudStorage`);
- `profile_chrome` and how the agents of systrace are made: what the controller needs
  of an agent is in `Tracing`;
- the dependency manager's choice of a file, archives, binary and discovery helpers: pure functions of what is on disk;
- the trace viewer project is a build tool; `pyserial`, `zipfile` and the minifiers are
  third-party; `api/` is generated.

Large parts of the Python are tests, command-line parsing and adb output parsing; they keep no state
a model could be about, and the map leaves them out.

## Plan

The order was: the app first, as the repository's own program (`Session`
with `CredentialStore`, `Navigation` with `PageHistory`), the components of catapult that everything
else rests on (`TimeoutRetry`), those that share state between processes (`Forwarder`, `TraceLog` with `EventJournal`,
`CloudStorage` with `LockedFile`, `DeviceCache`), and those of which one of several parts may fail
(`Tracing`, `ConfigUpdate`). What would come next:

1. an abstract specification for the config, as there are for the lock,
   the stored tokens, the pages and the trace log;
2. the device state keepers with failures between their steps, and `LogcatMonitor`, whose thread writes while
   its file is moved;
3. `Parallelizer` over the thread groups of `TimeoutRetry`: two devices, one timeout;
4. several files of one push in `DeviceCache`, which fall back to a push of all of them;
5. the form flow and `WebFormActivity`'s reload and logout, if the app's native
   forms are switched on.
