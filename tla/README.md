# Centrallix in TLA+

Centrallix is an application server: a web front end (a network driver per
protocol), an object system that reads files, databases and documents as one
tree, a query engine over that tree, and the library `centrallix-lib` below them
with its own cooperative threads. This directory holds TLA+ modules of the parts
whose behaviour depends on the order in which things happen, the TLC
configurations that check them on small instances, and theorems about them
checked by TLAPS. `PROJECT.json` maps every definition to the lines it models.

## 1. The system

### 1.1 Components, their state and operations

| component | source | state | operations | what makes it correct |
|---|---|---|---|---|
| MTASK kernel | `centrallix-lib/src/mtask.c` | thread table, current and locking thread, event wait table, semaphores | `thCreate thExit thKill thYield thWait thMultiWait thSleep thLock syCreateSem syPostSem syGetSem syDestroySem`, `mtSched` | one thread runs; every wait is answered; no count is made, given twice or lost; no waiter is left on a freed object |
| MTASK files, sockets | same | `File` with read and write caches, packet state | `fdOpen fdRead fdWrite fdClose netListenTCP netAcceptTCP ...` | bytes arrive once and in order; a close wakes those who wait |
| NHT sessions, timers | `centrallix/netdrivers/net_http_sess.c` | sessions with link counts, per-user and global lists, timer list under a mutex | `AllocSession LinkSess RetireSess UnlinkSess AddWatchdog RemoveWatchdog ResetWatchdog Watchdog LogoutUser` | a session lives as long as it is held, ends when retired, and its timers end with it |
| NHT requests | `net_http_conn.c`, `net_http.c` | one connection per thread | cookie lookup, timer reset, request, logout, release | holds one reference of its session, releases it once |
| NHT applications | `net_http_app.c`, `net_http_sess.c` | applications in groups, in a session; link counts, timers | `AllocApp LinkApp UnlinkApp AllocAppGroup ...` | as for sessions, within the session's life |
| hash queue | `centrallix-lib/src/xhashqueue.c` | table and LRU queue of elements with link counts, a lock | `xhqAdd xhqLookup xhqLink xhqUnlink xhqLockItem xhqRemove xhqDeInit` | a linked element is never discarded; table, queue and weight agree; every call posts the lock |
| OSML | `centrallix/objectsystem` | sessions, chains of open objects, queries, directory cache | `objOpen objOpenChild objOpenQuery objQueryFetch objQueryClose objClose objCloseSession` | a link count is the number of users; what is opened is closed once, and by the end of the session |
| joins | `centrallix/multiquery/multiq_equijoin.c` | order of the sources, a state per source kept between calls | `mqjAnalyze mqjStart mqjNextItem mqjFinish` | the rows are those the joins mean, each once; every source that is started is finished |
| multi-query | `centrallix/multiquery` | statements, their trees, the object list, rows the caller has | `mqStartQuery mqQueryFetch mqQueryClose mqClose`, grouping in `mqtNextItem` | rows are complete groups; rows, statements and the query live as long as they are used, in any order of closes |
| CXSS | `centrallix/cxss` | context stack per thread, key stores | push, pop, endorse, authorise | what is popped is what was pushed; endorsements do not leak |
| expressions | `centrallix/expression` | trees whose nodes keep their values, object lists with versions | `expEvalTree expModifyParam expCopyList expAllObjChanged expResetAggregates expUnlockAggregates` | a value is never that of objects that were replaced; an aggregate counts each row once |
| utilities, containers, strings | `utility`, `centrallix-lib/src` | values | pure functions | results |
| drivers, reports, HTML, widgets | `osdrivers`, `report`, `htmlgen`, `wgtr` | their files, pages and trees | I/O and generation | output |
| browser side | `centrallix-os/sys/js` | object sources and forms in a page | queries, saves, moves | the form shows what the source holds |

### 1.2 How they interact

Everything runs on MTASK. A thread keeps the processor until it calls something
that enters `mtSched()`; from then on any runnable thread may run. Code between
two such calls is atomic, and code around one is not. This is what the modules
are about: which calls yield is read off the source, and whatever is read before
a yield and used after it is a hazard.

The HTTP driver has one thread per connection, a listener thread, and one
watchdog thread for all timers. Connections and the watchdog share sessions (by
link count) and the timer list (by `TimerDataMutex`, a semaphore of one count).
A retirement may start from a login that finds too many sessions, an expired
timer, or a logout; it yields in the middle, in `nht_i_RemoveWatchdog`, and the
teardown yields again when it closes OSML objects. The object system is called
from connection threads and calls drivers, which read files through MTASK, and
the query engine is one of these drivers. Each session of the object system has
a directory cache, a hash queue, that keeps the upper part of a path open; the
requests of one HTTP session share it.

The modules compose along these lines: `MTask` implements (as `MTaskMutex`) the
lock of `FairLock`, on which `NhtSession`, `NhtApps` and `XHashQueue` are built;
`XHashQueue` implements the cache of `LinkCache`, on which `OsmlObject` is
built. So that each is checked with the one below it replaced by what that one
was shown to be.

### 1.3 Hard behaviours

- the wait table is shared by all waits, is compacted whenever a wait ends, and
  stores each entry's index in the request;
- a wait may be answered long before its thread runs: other posts, kills and
  destructions come in between;
- `thKill` and `syDestroySem` end waits of threads that are not running;
- the wait table can be full;
- threads are resumed early, late, or never when the scheduler is locked;
- sessions are retired by several threads at once, while a request uses them;
- timers fire while they are being added, reset or removed;
- a session ends its groups, a group its applications, each of which yields, while
  timers and other connections end the same ones;
- a discard function runs inside the cache, yields, and may refuse;
- objects share the upper part of their chain with others that come and go
  while a driver is closing part of it;
- iterators (joins, grouping, statements) stop in the middle and go on at the
  next call, and may be finished at any of these places;
- grouping knows a row only when it has read the next one, which has by then
  taken its place in the object list;
- an expression is evaluated only where something changed since, by the query
  and by the rows it gave out, each on its own list, past short circuits and
  failures.

`PROJECT.json` lists these hazards at their lines with the properties that cover
them. Others were met that no module covers yet:

- MTASK: with no runnable thread and no timer `poll()` waits forever, so that the
  deadlock message at `mtask.c:1303` is never reached; a signal between
  `mtProcessSignals()` and `poll()` waits for another reason to wake up
  (`:1104`); new threads start at a `CntDown` of 0 and can starve others
  (`:1263`); `k*64` overflows for a timer more than 2^25 ticks away (`:1053`);
  `thSetUserID` on another thread changes the process (`:2174`); in the build
  with OS threads `thKill` frees a thread that is still parked (`:1713`).
- The HTTP server does not look at what `syGetSem` returns
  (`net_http_sess.c:468`).
- `xhq_internal_DiscardOne` without a discard function loses a locked element
  from the table (`xhashqueue.c:112`); every user gives one.
- `objQueryDelete` deletes the object of the query instead of each row
  (`obj_query.c:421`); `objQueryCreate` closes an object's data twice when its
  name is too long (`:704`); `RnDelete` kills workers that may be in the callback
  (`obj_replica.c:180`, disabled at line 297).
- The XML driver never unlinks a document it found in its cache, so that it can
  never be replaced (`objdrv_xml.c:476`), and two opens parse a document that is
  in the cache before it is parsed (`:503`).
- A statement whose tree could not be started is freed without `Finish`
  (`multiquery.c:3372`).

## 2. The modules

### 2.1 `MTask`: the thread kernel

Variables: `status`, `starting`, `current`, `locked` (thread table and the
globals of `MTASK`), `table` (`EventWaitTable`), `ev` (the `EventReq`
structures), `sem` (semaphores, by address, reused after they are freed),
`call` (which API call a suspended thread is in), `process`.

An action is the code of one API call up to `mtSched()`; the prologue of
`mtSched()`, where a caller that is still `EXECUTING` may return without giving
up the processor, is the operator `Enter`. `Dispatch` is the rest of
`mtSched()`: due timers are answered, a runnable thread is chosen, waits on its
start or timeslice are answered, and it resumes. `ReturnGet`, `ReturnWait`,
`ReturnMulti` and `MultiBlock` are what a resumed thread still does in its call.

| action | code |
|---|---|
| `ThCreate ThYield ThExit ThKill ThLock ThUnlock` | the functions of that name |
| `SyCreateSem SyDestroySem SyPostSem` | the functions of that name; the loop of `syPostSem` is the recursive function in `Grants` |
| `SyGetSemAvailable SyGetSemBlock SyGetSemFull`, `ReturnGet` | `syGetSem`: counts there, blocks, table full; after the wait |
| `ThWaitReady ThWaitBlock`, `ReturnWait` | `thWait` |
| `ThMultiWait MultiBlock MultiFull ReturnMulti` | `thMultiWait`, also as called by `thSleep` and `thWaitTimed` |
| `Dispatch DispatchEarly` | `mtSched` |

Abstractions: which runnable thread is next and when a timer is due are left
open; file descriptors, signals, thread parameters and security contexts are not
in the module; a `thMultiWait` waits for at most one timer and one object. The
memory of a request is its own, except that `thKill` frees it, which sets
`process` to `"faulted"` when it was on a stack.

`MTaskTokens` adds to it where the counts of a semaphore are.

### 2.2 `FairLock` and `MTaskMutex`: a semaphore used as a mutex

`FairLock` is the abstract specification of a lock: one variable, the queue of
its clients, the holder first. `Ask` appends, `Release` takes the holder away.

`MTaskMutex` composes the actions of `MTask` into threads that use one semaphore
the way the HTTP server uses `TimerDataMutex`: made with one count, got and then
posted. `inside` is the set of threads between the two calls. `Queue` is the
refinement mapping: the thread inside, if there is one, and then the owners of
the entries of the event wait table. A thread whose request was answered and
that has not returned from `syGetSem` is the first of the table and holds the
lock already; `Taken`, its return, does not change the queue.

It is assumed that the wait table has an entry for each thread (the server
ignores the result of `syGetSem`), that no thread is killed or ends inside, and
that the semaphore is not destroyed.

### 2.3 `NhtSession`: sessions and timers of the HTTP driver

Variables: `sess` (the structures: link count, `Closed`, the two timer handles),
`listed` (`usr->Sessions`), `timer`, `handle`, `list` (timers, handle table,
`NHT.Timers`), `mutex` (`TimerDataMutex`), `me` (per thread: where it is and its
local variables), `cpu`, `misread`, `fault`.

`misread` is a history: `nht_i_AddWatchdog` reads the handle of its timer after
two posts that yield, so that the timer may have fired and its memory be that of
another session's timer, whose handle is then returned (`AddDone`). A request
resets the handles it copied when it found the session (`w_timer`, `i_timer`),
not those the session has by then.

`cpu` is what remains of MTASK: an action that ends in `Goto` yields, one that
ends in `Stay` does not, and until the thread that stays has yielded no other
thread steps. `TimerDataMutex` is an instance of `FairLock`, which `MTaskMutex`
implements (theorem `LockImplemented`), so that here a get that blocks, its wait
and the hand-over are one entry of a queue.

| actions | code |
|---|---|
| `AllocSession CreateSession CreateFails AddLocked AddDone AddInactivity` | `nht_i_AllocSession`, `nht_i_DiscardASession`, `nht_i_AddWatchdog` |
| `FindSession Refuse ResetTimers ResetLocked Answer FreeConn` | `nht_i_ConnHandler`, `nht_i_ResetWatchdog`, `nht_i_Logout`, `nht_i_FreeConn` |
| `LogoutUser LogoutChecked` | `nht_i_LogoutUser` |
| `RetireSess RemoveTimers RemoveLocked RemoveFree Delisted UnlinkSess CloseSession` | `nht_i_RetireSess`, `nht_i_DelistSess`, `nht_i_RemoveWatchdog`, `nht_i_UnlinkSess` |
| `WatchdogLock WatchdogPick WatchdogFire WatchdogFree` | `nht_i_Watchdog`, `nht_i_WTimeout`, `nht_i_ITimeout` |
| `UseFreed` | a read of a structure that was freed |

`Lines` has what is said of lists in which everything is once: the array of a
user's sessions, the line of the mutex, and the queue of `XHashQueue`.

Abstractions: the sessions of one user; which is the oldest is left open, so is
when a timer is due; a session structure is used once (so that use after free
can be told), timer addresses are reused; handle ids are not (xhandle.c: not
within 2^62). Applications and groups are left out, and with them the timers
they have: they would come and go in the same list (`NhtApps` has them). After a
use of freed memory nothing is specified, hence `CHECK_DEADLOCK FALSE`.

### 2.4 `NhtApps`: the applications of a session

A session has groups and a group has applications, each with a link count like
that of a session and a timer of its own. Variables: `session`, `own` (the
groups and applications: state, count, group), `groups`, `apps` (the lists they
are in), `osml` (the OSML session that a request opened under an application),
`lost` (a history: how often a connection overwrote its reference of one),
`valid`, `list`, `mutex` (timers with a valid handle, `NHT.Timers`,
`TimerDataMutex`), `me`, `cpu`, `fault` as in `NhtSession`.

`me[t].todo` is the stack of the calls a thread is in while it unlinks: a
session unlinks its groups, a group its applications, and each yields in
between. Its frames are `unlink`, `rm` and `rmfree` (`nht_i_RemoveWatchdog`
before and after the mutex), `members` (the loop over what is inside), `close`
and `free` (the end of an application or session), `fired` (what the watchdog
does behind the callback).

| actions | code |
|---|---|
| `FindSession VerifyAKey UseGroup Answer FreeConn` | `nht_i_ConnHandler`, `nht_i_VerifyAKey`, `nht_i_GET` (pages, `appinit`), `nht_i_Logout`, `nht_i_FreeConn` |
| `AllocAppGroup AllocApp AddLocked GroupAdded AppAdded AllocAppFails` | `nht_i_AllocAppGroup`, `nht_i_AllocApp`, `nht_i_AddWatchdog` |
| `OpenOsml` | `opensession` and `closesession` of `nht_i_OSML` |
| `Unlink RemoveLocked RemoveFree EndGroup EndApp FreeApp` | `nht_i_UnlinkApp`, `nht_i_UnlinkAppGroup`, `nht_i_RemoveWatchdog` |
| `UnlinkSess CloseSession FreeSession` | `nht_i_UnlinkSess` |
| `WatchdogLock WatchdogPick WatchdogFree` | `nht_i_Watchdog`, `nht_i_WTimeoutApp`, `nht_i_WTimeoutAppGroup` |
| `UseFreed` | the next use of a structure that was freed |

Abstractions: one session, whose own two timers, which are the subject of
`NhtSession`, are a watchdog that may retire it at any time; a timer is known by
what it is for, which is what `OwnTimer` says (a handle that was misread, see
above, is left out); resets of timers, which change only when they are due; one
OSML session for each application, and `closesession` only under the application
it was opened under.

### 2.5 `LinkCache` and `XHashQueue`: the hash queue as a cache

`LinkCache` is the abstract specification: which item each key stands for
(`cached`) and which item each client has a reference of (`held`). An item may be
discarded when no one holds it, and removed by one who does.

`XHashQueue` is the code: `elem` (the elements: key, weight, link count, locked),
`table`, `queue` (last used first), `num` (`NumElements`), `lock`
(`ControlLock`, an instance of `FairLock`), `me` (where each client is in which
call), `told` (how often the discard function took an element), `fault` (a freed
element was used).

| actions | code |
|---|---|
| `Add DiscardOne Discarded DiscardRefused AddElement AddFull AddFails` | `xhqAdd`, `xhq_internal_DiscardOne` |
| `Lookup LookedUp`, `Use Unlink Link`, `LockItem` | `xhqLookup`, `xhqUnlink`, `xhqLink`, `xhqLockItem` and `xhqUnlockItem` |
| `Remove RemoveDiscards Removed RemoveKeeps` | `xhqRemove`, with and without the discard function |
| `DeInit DeInitNext DeInitDone` | `xhqDeInit` |
| `UseFreed` | the next use of an element that another client removed |

A call asks for the lock, waits, and runs to its post in one step unless the
discard function is called, which may yield: then the step ends there, with the
element out of the table. Abstractions: a client has references of one element
at a time; the discard function does what that of `objdrv_xml.c` does about
locked items (that of `obj_object.c` is the case with none locked); an element
is used once.

### 2.6 `OsmlObject`: objects, queries and the end of a session

Variables: `obj` (the `Object` structures: link count and `Prev`), `opens`
(`OpenObjects`), `refs` (how often the caller must still close each), `query`,
`listed` (queries, `OpenQueries`), `cached`, `held` (the directory cache, an
instance of `LinkCache`), `me`, `session`.

| actions | code |
|---|---|
| `OpenFile OpenInside LookupHit LookupMiss LinkHit UnlinkHit UpperOpened OpenFails OpenDone` | `objOpen`, `obj_internal_ProcessOpen` |
| `AllocDC AddDC AddDCDiscards AddDCFails UnlinkDC` | the same, entering the upper part into the cache; `obj_internal_DiscardDC` |
| `Close LinkTo`, `Closed` | `objClose`, `objLinkTo`, the loop of `obj_internal_FreeObj` behind a driver's `Close` |
| `OpenQuery OpenQueryDone OpenQueryFails QueryFetch QueryFetched NoObject QueryClose QueryClosed` | `objOpenQuery`, `objQueryFetch`, `objQueryClose` |
| `OpenChild OpenChildDone` | `objOpenChild` |
| `CloseSession Uncache CloseQueries CloseObjects` | `objCloseSession` |

A step is the code between two calls that may yield: of a driver, or of the
cache. Abstractions: a path is a file or one object inside a file, and the parts
above the file, opened and closed together, are one object with it; structures
are reused, the first free one is taken; requests do not call into a session
that is closing (the HTTP server ends a session when no request holds it,
`HeldAlive`), nor close an object more often than they have opened it.

### 2.7 `MqJoin`: joins

`Plan` is `mqjAnalyze`: the order of the sources, what each depends on (`Dep`,
`ReverseDep`), whether it may be a null row, and which
conditions are checked where (`JoinsOf`). The search of
`mqj_internal_DetermineJoinOrder` goes back where it finds nothing, and returns the order
it comes to first; `FirstOrders` says which that is: of the orders in which every source
may be next (`JoinOrders`), the one that differs from any other by a source that is tried
before the other's (`TriedBefore`). The rest is `mqj_internal_NextItem_r`, whose
recursion along the sources is a walk of `at` with a `step` of `"enter"` (the
call), `"loop"` (the body of its loop) and `"back"` (the next source has
returned): `EnterNull Enter StartFails`, `Loop`, `BackError BackUnfulfilled
BackRow BackNone`; `NextItem Returned Cancel` are the caller. `src` has the state
of each source, `out` the rows returned so far.

The reference definition is `Results`: a row is in the result when each group of
sources that inner joins tie together has rows that satisfy all conditions, or
is null because the group above it is or has no match. Queries whose outer joins
do not put the groups in a tree have no agreed meaning (`HasMeaning`) and are run
for `TypeOK` and `CursorsPaired` only. Two kinds of queries that have a meaning are
also left out of `ResultIsJoin`, because the code gets their rows wrong:

- `LeftStarted`: a source i must be followed by a row of j (an inner join), j may
  come out null, and behind j stands a source k that depends neither on j nor is
  needed by i. `EnterNull`, `BackUnfulfilled` and `Takes` together then go wrong,
  as section 3 tells.
- `Unswept`: the sweep of `GlobalInner`, once over the joins in the order of the
  text, ends before it has found all that an outer join makes inner.

`EveryResultIsJoin` is the property without these two exceptions.

The constant `Cases` has the queries: the joins in the order of the text, the rows
the sources may have, and which drivers may fail. `MCMqJoin` gives the sets of cases;
the theorems are about any.

Abstractions: the condition of a join is that two values differ, which is not
transitive, so that a condition checked in the wrong place shows; no objects from
outside the query, no `NONEMPTY` source.

### 2.8 `MultiQuery`: statements, groups and rows

Variables: `text` (the statements, with their grouping, LIMIT and source rows),
`qy` (`MultiQuery`), `stmt` (`QueryStatement` and the state of its tablegen
element: the saved object list, the last key, the aggregates), `objlist`, `links`
(of the source's objects), `pseudo` (the rows the caller has), `pc` (where a
fetch is), `out` (what each row showed).

| actions | code |
|---|---|
| `Fetch LimitReached Row NoRow AssignFails` | `mqQueryFetch`, with HAVING, LIMIT and assignments |
| `NextPlain NextGroup Prime Group Regroup` | `mqtNextItem`: without grouping, and the group-by loops of the two aggregate levels |
| `Close QueryClose` | `mqClose`, `mqQueryClose` |
| `FinishStatement CloseStatement NextStatement Unlinked` (operators) | `mq_internal_FinishStatement` and so on, `mqtFinish` in `TreeFinished` |

The aggregates are the sequences of rows counted in them, which tells apart all
that any aggregate function could. The reference definition is `Expected`: the
runs of rows with the same key, those that meet HAVING, from the LIMIT on. A
statement has one source (`MqJoin` has several).

Left out are the error returns of an evaluation: of HAVING (`multiquery.c:3909-3915`:
the fetch fails, and the row is dropped and not counted), and of WHERE and the
aggregates (`multiq_tablegen.c:532`, `573`, `615`, `648`, `668`, `731`: the element
returns -1 and the row of its source stays in the object list). In the model a statement
fails by its source, without a row, and by an assignment. `RowsAreGroups` is about
statements that do not fail; that `RowsKept` and `FetchReturns` hold after an error
of these kinds as well is not checked.

### 2.9 `ExprEval`: evaluating an expression again

Variables: `tree` (which expression), `node` (what each node keeps: `new` is
`EXPR_F_NEW`, `delay` is `ObjDelayChangeMask`, `locked` is `EXPR_F_AGGLOCKED`,
`made` says that there is an `AggExp`), `obj` (the objects of each list, as what
can be read of them), `same` (for each slot, which lists and the tree have the
same version), `shown`, and three that the code does not have: `due` (the rows
each aggregate should have counted), `failed`, `miscount`.

| actions and operators | code |
|---|---|
| `Eval EvalNode EvalAggregates PassOver Delay` | `exp_internal_EvalTree`, `exp_internal_EvalAggregates` and the marks in `ObjDelayChangeMask` |
| `EvalProperty EvalJunction EvalCompare EvalIsNull EvalCondition EvalCount` | `expEvalProperty`, `expEvalAnd` and `expEvalOr`, `expEvalCompare`, `expEvalIsNull`, `exp_fn_condition`, `exp_fn_count` |
| `EvalTree`, `Changed`, `Record` | `expEvalTree` |
| `Modify Swap CopyList` | `expModifyParamByID`, `expObjChanged`; `mqt_internal_SwapObjList` with `expAllObjChanged`; `expCopyList` |
| `Read Row Reset` | `mqGetAttrValue` and the like; `mqt_internal_UpdateAggregates`; `expResetAggregates` |

The reference definition is `ValueOf`, which looks at the tree and the objects
alone. Abstractions: a version is a number that nothing is done with but to
compare it, and so is an equivalence class; attribute values are 0, 1, null, or
an error; a comparison is equality; of the aggregates there is `count()`, and it
is not inside another; the query's list is copied for a row when it is given out,
and copied back only when no aggregate is in the expression (those of rows that
were sorted are frozen).

Two cases are taken out of the properties since the code does not do what they
say. `failed`: an evaluation that failed has forgotten what its nodes had missed
(`exp_evaluate.c:2005`), or has left values of its list in a tree that still has
the versions of another list; until everything was replaced and evaluated anew
the values may be wrong. `miscount`: a row is not counted when its evaluation
fails, nor by an aggregate in a branch of a `condition()` whose first operand is
null, and an aggregate that was never evaluated is not locked by a reset.

## 3. The runs

`CHECK_DEADLOCK FALSE` is set in all of them but `expr_eval`: in `MTask` a
process whose threads all wait for one another, or that has exited, does stop; in
`NhtSession`, `NhtApps` and `XHashQueue` a run stops at a use of freed memory or when the
queue is shut down; in the others when the session or the query is closed.

| run | instance | shows |
|---|---|---|
| `mtask_sem` | 5 threads, 1 semaphore, table of 4, counts to 2, requests of 1 or 2 | `NoStaleWait`, `NoMissedWake`, `OldestFirst`: no waiter on a freed semaphore, none asleep beside counts it asked for, oldest first; `CountsNotMade`: no count comes from nowhere |
| `mtask_waits` | 3 threads that create, kill, lock, sleep and wait for threads, counts or several of these, table of 5 | `StatusExact` (`OneRunner` and `Answered`), `NoLostSleeper`, `TableExact` |
| `mtask_mutex` | 4 threads, a semaphore of one count, fairness | `IsFairLock`: `MTaskMutex` implements `FairLock`; `Served` |
| `nht_counts` | 2 connections, 2 sessions, 4 timers, limit 1 | `LinkCount`, `HeldAlive`, `FoundArmed`, `OwnTimer`, `FreedOnce` |
| `nht_apps` | 2 connections, 1 session, 1 group, 1 application, 1 overwritten reference, fairness | `LinksExact`, `HeldListed`, `RetiredFreed` |
| `xhq_cache` | 2 clients, 2 keys, 3 elements of weight 1 or 2, capacity 2, 2 references each, fairness | `TableIsQueue`, `Accounted`, `LinksHeld`; `IsLinkCache`: `XHashQueue` implements `LinkCache`; `CallsReturn` |
| `osml_object` | 2 threads, 1 file, 4 object structures, 1 query | `LinkExact`, `OpensExact`, `SessionEnds` |
| `mq_join` | 4 sources: every query over three of them with 0 to 2 rows each, in every order of the conditions, 1 driver that may fail, the fourth joined to them; every tree of joins over all four with an outer one, with rows that match differently | `ResultIsJoin`, `CursorsPaired` |
| `multiquery` | 1 statement of up to 3 rows with every grouping, HAVING, LIMIT; pairs of statements; 2 rows held; fairness | `RowsAreGroups`, `RowsKept` (`ObjectsHeld` and `StatementsHeld`), `FetchReturns` |
| `expr_eval` | 4 expressions, 2 slots of 3 contents each (2 in the second slot for one of the expressions), the lists of the query and of a row, 2 rows to count | `EvalIsFresh`, `CountsEveryRow` |

Why the bounds are enough: in `MTask` two threads make a race, the third is the
one that kills, destroys or barges in; four waiters beside a fifth thread fill a
table of four, with entries on both sides of one that is removed. The table of
`mtask_waits` has room for five: a `thMultiWait` can fill it and is backed out, but
a single `syGetSem` always finds room there, so that the call refused for a full table
(`SyGetSemFull`) is a matter of `mtask_sem`. One semaphore
suffices because no operation looks at two. A count of two lets a
waiter ask for more than there is, or for more than a younger one. In
`NhtSession` a session can be in the hands of its creator, of a second
connection and of the watchdog at once, which are all the kinds of thread there
are (with three connections, where the late read of a handle does harm, all
properties of the run hold as well, in 1,965,199 states; that takes longer than a
run of every day should, and the theorems hold for any number); the second session reuses the timer memory of the first, and a limit of one
makes each login discard. In `NhtApps` a group and an application
can be in the hands of two connections, the watchdog and the end of what they are
in at once; with two applications the three invariants hold in 1.2 million states
as well, and `RetiredFreed` with two applications and one connection. In `XHashQueue` one client works while the other is
inside a discard, an element of weight 2 takes two discards, and the third
element shows what is left of the first two. In `OsmlObject` two threads open
the same path at once, which is the case with duplicates; four structures hold
two leaves and two copies of the upper part. In `MqJoin` three sources give every
shape of a tree of outer joins up to that size, cycles of conditions among them, and two
values make a source match one row and not another; but a source that an inner join ties
to a null one, beside a third below the same source, takes four sources and three values,
which tell a match of one from a match of the other. `TreeCases` has all trees over four
sources for that, each in one order of its conditions, with rows of one or two values out
of three such that each of the three contents occurs. Four sources with four conditions
or more are not run, nor trees of four in other orders of the text. In `MultiQuery` a third row
follows a group that has ended, and two handles let rows outlive fetches and be
closed in both orders. In `ExprEval` two slots make a node stale whose sibling is
not, the second list is any list the tree was not evaluated on last, two rows
tell a row counted twice from one counted once, and the expressions have a short
circuit below another and an aggregate below one; one slot cannot be read at
times, in all expressions but `CountInBranch`, and both can be null (`condition()` and a
count beside a short circuit meet such a failure in the other expressions).

Runs that show where the code does not do what its text says (each checks the
one property that states the text):

| run | property | the code |
|---|---|---|
| `mtask_multiwait` | `MultiWaitSees` | `thMultiWait` blocks beside a semaphore that has the counts, after losing one |
| `nht_addrace` | `NoTimerOnFreed` | a session logged out while its first timer is being added is freed and the timer stays |

Two more defects, of the joins, are findings beside `mq_join`, whose `ResultIsJoin`
excepts them by name. Each has an instance that checks `EveryResultIsJoin` and ends in
the violation: `tlc -config MqJoin_left.cfg MCMqJoin` and
`tlc -config MqJoin_sweep.cfg MCMqJoin`.

- FROM R, A, B, C with `R *= A`, `A = B`, `R *= C`, in that order of the plan. Only B is
  in the `ReverseDependencyMask` of A, since C is an outer one. Let a1 and a2 match r, b
  match a2 only, c1 and c2 match r. With a1, B comes out null and C is started
  and gives c1; A finds B missing, and `multiq_equijoin.c:1053-1071` finishes B and
  leaves C started. A takes a2, B is started, and as its next source C is still started
  (`:1001`) no row of B is taken. C gives c2, B counts as started, and
  (r, a2, NULL, c2) is returned, though `A = B` does not hold. The comment at `:101`
  says that a started source's "last result if any was a valid not-null row", and the
  one at `:1136` that each row of a master has "a start, nextitem{}, and finish" of
  the slave. It takes the second row: in the instance `rows` of A is `<<1, 2>>` and of
  B `<<1>>`, where values match that differ.
- `2 = 4`, `3 = 4`, `1 *= 3`, in that order of the text. The sweep at `:490-501` is to
  find "all query objects forced to be inner" (`:84`) by `1 *= 3`: these are 3, with 4
  by the second condition, with 2 by the first. It comes to the first before 4 is
  there. Source 2 is then free to be put first in the order, and a row of 1 for which there
  is nothing is lost, while `MultiQuery.txt:180` (Legacy, in `centrallix-sysdoc`) has the
  asterisk on the side "from which rows are mandatory". In another order of the
  conditions the rows are right.

More disagreements were met while modelling, seen in the models or read off the
code, and are kept here rather than as runs:

- `thKill` frees the requests of the thread it kills (`mtask.c:1675`), which for
  `thMultiWait` and the like are variables on that thread's stack; the models
  stop there (`process` becomes `"faulted"`).
- A second `syPostSem` to a waiter that was answered and has not run yet is lost
  (`mtask.c:4443`): it matches the request again and lowers the count for it.
- `SEM_F_CLOSING` is set by a soft close and never read, though `mtask.c:4390`
  says that no new process may wait on such a semaphore.
- The session of a timer that was taken from the list may be freed before the
  timer fires (`net_http_sess.c:439`), though delisting is to see that "no timer
  can fire on it" (`:178`).
- The timer of a group or an application likewise: the watchdog has taken it from
  the list, the end of the session unlinks the group until it is freed, finds no
  timer to remove (`net_http_sess.c:889`), and the callback unlinks freed memory
  (`:635`), though `nht_i_UnlinkApp` removes the timer "to avoid further
  callbacks" (`:796`). In `NhtApps` this is `UseFreed`, and `RetiredFreed` excepts
  it. An application that ends after its group or session, when it had already
  left the list of its group, reads both once more to close its OSML sessions
  (`:812`).
- `appinit` with the akey of a page overwrites the connection's reference of that
  application without releasing it (`net_http.c:2371`): the application then
  lasts until its group ends (`lost`). `closesession` under another application
  than the one that opened the session leaves it in the list of the latter, which
  closes it again (`net_http_osml.c:624`; not in the model).
- A session that is given the handle of another one's timer (`misread`: the timer
  fired before `net_http_sess.c:475` read its handle) resets that timer, and
  removes it when it ends: the other session is then found by requests and can no
  longer time out by it, while the comment at `:178` has a session lose its timers
  when it is delisted. It takes three connections; `FoundArmed` excepts these
  handles.
- A login during a logout of all sessions ends the logout (`net_http_sess.c:675`
  compares the number of sessions across a call that yields).
- Two logins that overlap can pass the session limit of `centrallix.conf.in:45`,
  since `nht_i_DiscardASession` yields between the count and the new entry.
- `xhqRemove` looks at the link count before it waits for the lock
  (`xhashqueue.c:253`): a client that looks the element up meanwhile is left with
  freed memory, while `xhashqueue.h:37` says that linking is "to prevent
  discarding of an item while a routine is using it". `LinkCache` allows it
  (`Remove`), so that the rest can be stated.
- `objOpenChild` does not enter what it opens in `OpenObjects`, so that the end of
  the session, which "closes an OSML session, along with any objects and queries
  open in it" (`obj_session.c:80`), leaves it open. `SessionEnds` says that
  nothing else is.
- An error of a joined source is taken as the end of its rows
  (`multiq_equijoin.c:1007`), though `mqjNextItem` is to return "-1 if error"
  (`:1134`).
- With an outer join `A *= B` and a third source C that no join ties to them and
  that has no rows, the product is empty, but when C comes behind B in the order
  each A without a B gives a row in which C is null: whether a null source makes
  the row is decided by that source alone (`multiq_equijoin.c:1098`), while
  `MultiQuery.txt:177` (Legacy, in `centrallix-sysdoc`) speaks of the side "from
  which rows are mandatory". `HasMeaning` leaves such queries out.
- `IN` stops at the first item that is equal, and neither evaluates nor marks the
  items behind it, or any when the left side is null (`exp_evaluate.c:1743`),
  while `expEvalTree` notes the new versions: the next evaluation on the same
  objects can compare with items of objects that are gone, though a list is
  modified "so that the next time the evaluator runs it, it will reference
  attributes in a new or different object" (`exp_params.c:402`). It also compares
  with the old value of an item that is null.
- `condition()` with a null first operand does not evaluate the aggregates in the
  others (`exp_functions.c:343`), which every other short circuit does
  (`miscount`); `expResetAggregates` does not lock an aggregate that has no
  `AggExp` yet (`exp_params.c:613`), so that the next evaluation counts.
- An evaluation that fails clears `ObjDelayChangeMask` on its way out
  (`exp_evaluate.c:2005`), and leaves values of its own list to a tree that has
  the versions of another (`failed`).
- A property once indeterminate in a branch that is not evaluated stays so
  (`exp_evaluate.c:2013`), and removing a parameter shortens `nObjects`, so that a
  slot above it is not compared (`exp_evaluate.c:1898`).
- A grouped statement over a source that cannot be opened goes on with no object
  (`multiq_tablegen.c:626` tests only for 0), though `mqpNextItem` returned its
  error.
- The aggregates a row shows are those of its statement, and change when the next
  row is fetched (`mqGetAttrValue` in `multiquery.c`).

### Fairness

`nht_apps`, `mtask_mutex`, `xhq_cache` and `multiquery` need it. In
`NhtApps` `FairSpec` has strong fairness of each thread's
steps: `mtSched()` lowers the `CntDown` of runnable threads as it passes them
over, so a thread that is runnable each time the processor is given up runs in
the end. Strong, since while one thread keeps `cpu` the others are not enabled.
There is no fairness on the expiry of a timer or on what a client asks for. The
unfairness `mtSched()` does have, a new thread starts at a `CntDown` of 0, does
not arise with a fixed set of threads.

`MFairSpec` says the same of `MTask`, in parts: strong fairness of the resumption
of each thread (`Run`); `GivesWay`, that a running thread does not keep the
processor, since a tick passes in the end and the prologue of `mtSched()` then
gives it up; `Taken`, that a resumed thread returns from `syGetSem`; and strong
fairness of `Leave`, that the code inside the mutex, which is a few list
operations, comes to its end however often it yields. That a post is followed by
the next waiter's turn is not assumed, it is what `Served` shows.

In `XHashQueue` it is the same scheduler: strong fairness of the steps of a call
that has begun, none on the calls. In `MultiQuery` a fetch is one thread that
goes on: weak fairness of its steps.

## 4. The theorems

Eight modules hold the theorems. `MTask_proofs` proves the first ten rows of the
table, of `MTask` and at its end of `MTaskMutex`, for any number of threads and
semaphores, any table size and any counts. It assumes `ObjectAssumption` (threads and
semaphores are distinct, there is a thread) and `BoundAssumption` (the bounds are
numbers), and for what is proved of `MTaskMutex` also `MutexAssumption` (the mutex is a semaphore, a count of one is within the bounds, and
the operations it is used with are among those of the instance). `NhtSession_proofs`
proves the next six, from `NhtAssumption`, and `XHashQueue_proofs` five, from
`QueueAssumption`; both use the lemmas of `Lines_proofs`. `MultiQuery_proofs` proves three,
from `QueryAssumption` and with those lemmas too, `OsmlObject_proofs` four, from `OsmlAssumption`, and
`NhtApps_proofs` three, from `AppsAssumption`, and `MqJoin_proofs` three, from
`JoinAssumption`, with the lemmas of `Lines_proofs` too:

| theorem | property |
|---|---|
| `TypeCorrect` | `TypeOK` |
| `WaitTableExact` | `TableExact` |
| `WaitersAnswered`, `SingleRunner`, `StatusesAgree` | `Answered`, `OneRunner`, both (`StatusExact`) |
| `NoWaitOnFreed` | `NoStaleWait` |
| `NoMissedWakeUp` | `NoMissedWake` |
| `GrantedOldestFirst` | `OldestFirst` |
| `SleepersWait` | `NoLostSleeper` |
| `NoCountsMade` | `CountsNotMade` |
| `MutualExclusion` | `Exclusive` (which no run states: `IsFairLock` covers it) |
| `LockImplemented` | `IsFairLock` |
| `CountExact` | `LinkCount` |
| `HoldersSafe` | `HeldAlive` |
| `TimerIsOwn` | `OwnTimer` |
| `FreeOnce` | `FreedOnce` |
| `FoundIsArmed` | `FoundArmed` |
| `TypeCorrect` (of `NhtSession_proofs`) | `TypeOK` |
| `TableAgrees` | `TableIsQueue` |
| `LinkCountsExact` | `LinksHeld` |
| `CacheImplemented` | `IsLinkCache` |
| `WeightAccounted` | `Accounted` |
| `TypeCorrect` (of `XHashQueue_proofs`) | `TypeOK` |
| `TypeCorrect` (of `MultiQuery_proofs`) | `TypeOK` |
| `RowsAreKept` | `RowsKept` |
| `RowsAreTheGroups` | `RowsAreGroups` |
| `TypeCorrect` (of `OsmlObject_proofs`) | `TypeOK` |
| `LinksAreExact` (of `OsmlObject_proofs`) | `LinkExact` |
| `OpensAreExact` | `OpensExact` |
| `SessionsEnd` | `SessionEnds` |
| `LinksAreExact` (of `NhtApps_proofs`) | `LinksExact` |
| `HeldStands` | `HeldListed` |
| `TypeCorrect` (of `NhtApps_proofs`) | `TypeOK` |
| `CursorsArePaired` | `CursorsPaired` |
| `TypeCorrect` (of `MqJoin_proofs`) | `TypeOK` |
| `InnerResultIsJoin` | `ResultIsJoin`, for queries of inner joins |

The inductive invariant is `IInv`: `TypeOK`, `TableExact`, `Answered`,
`OneRunner`, and `Lives` (a thread in a call is in the thread table), which is
needed because a thread that has ended must own nothing in the table for its
descriptor to be reused. `TableExact` and `Answered` need one another: a thread
removes its request by a stored index, and it gets to do so only with an answer.
The proof has a lemma per table operation (`ShiftRemoves`, `RenumberIndexes`,
`AppendIn`, `Dropping`) and per kind of step (`AnswerStep`, `QuietStep`,
`LeaveStep`), then one per action.

`NoStaleWait` is not inductive: `Fresh` adds that what a request in process is
for has not been freed, and relates it to the table by `TableExact`. For
`NoMissedWake` and `OldestFirst` the loop of `syPostSem` has to be followed: the
total only falls (`Falls`) and where a request is passed over the total was less
than it asked for (`PostLoop`). Since no prover here can apply an induction
theorem to an operator, the induction is by a least counterexample in the natural
numbers (`LeastNat`). `OldestFirst` also needs that timers are for no object.

`NoLostSleeper` holds while `syGetSem` never finds the table full, so the theorem assumes
`Roomy`: the threads are finitely many and the table has room for two requests of all of
them but one. The code has room for four of each (`MT_MAX_EVENTS`, mtask.c:81), and the run's instance
just satisfies it. That there is room for one more is a count (`RoomForOne`): the entries
are different requests of other threads. For `CountsNotMade` a step either gives no
counts (`NextCarries`: a request that has its counts had them before) or is a post, where
by `UpTo` along the table the counts given are at most what the loop has taken off
(`PostMakes`). What the sum over the requests is, in whichever order and over whichever set it is
computed, is in `Lines_proofs` (`TotalsTake`, `TotalsAgree`, `TotalsGrow`).

What is proved of `MTaskMutex` reuses `IInv`, since what the users of a mutex do is a step of
`MTask` (`StepIsNext`), and adds `MInv`: the one count is in the semaphore, with
the thread inside, or with the first request of the table, and in only one of
these places (`Handed`, `OneCount`); and every request in the table is for one
count of the mutex (`Users`). The step that needs most of it is the post: that
the loop of `syPostSem` answers the first entry and no other follows from
`Falls`. `LockImplemented` then maps each action to `Ask`, `Release` or a stutter.

`NhtSession_proofs` holds for any number of connections, sessions and timers and
any session limit, from `NhtAssumption` (the sets are finite and distinct, a timer
for each of a session's two). Its `IInv` has two halves. `RefInv` is about the
sessions: `Placed` (the variables of a thread, by where it is), `Published` (a
listed session is live and not retired, and listed once), `Closing` (a session is
taken apart by one thread, with a count of zero) and `LinkCount` and `HeldAlive`
themselves. `LinkCount` makes the close safe: a count of zero is of a retired
session that nobody holds. `TimerInv` is about the timers: `Lined` (the line of
`TimerDataMutex` is the threads at a get), `Timed` (handles and addresses agree,
and a timer that is added, freed or fired is in the hands of one thread and not
in the list), `Creators` (a session's timers are added by one thread, so that
neither is added twice) and `Behind`, the reason that a look-up before a wait is
safe: if the memory of the timer was used again, who adds the new one waits
behind, and the list does not have the address by the time of the search. The
lemmas go by what a step does: `Quiet` (no reference moves), `Moves` (a reference
of one session does), `Lining` (the mutex or a timer), and for the timers
`AddTimers`, `AddedTimers`, `TakesTimer` and `FreesTimer`; then there is one per
action.

For `FoundIsArmed`, `ArmInv` is added to that `IInv`. A timer of a session that is not
retired is in the list, being fired, or in the hands of the thread that makes the
session (`Ticking`), and there is one such thread (`Builders`). So that it stays there, what a
thread removes has to be of a closed session or misread, and the watchdog, once it
has retired a session, is done with an open one (`Arms`, `OnlyFires`); a session
that can be found has two handles, its own or misread, each with its timer (`Has2`,
`HoldsOwn`). The lemmas go by what a step does to this: nothing (`Others`, `Passing`, `Idling`), a retirement (`Retires`), the end
of a timer (`Frees`).

`TypeOK` of `NhtSession` has a bound that a type alone does not give: no session has more
links than there are connections and one for the watchdog manager. `LinkCount` says
who has them, and a connection that holds a session and a thread that releases one
could be the same twice over; `Bounded` is added to `IInv` for that. Who releases a session
either gives back the link it held as a connection, or has retired it; the second is one
thread at most, because `nht_i_RetireSess` marks the session closed before it goes on, and
then the manager has no link any more (`CountBounded`). `Acts` is what a step may do
to the variables of its thread, `CountsStay` what it may do to the sessions, and `ActsKeeps`
that both keep `Bounded`. `Bounded` also says that `nht_i_LogoutUser` does not remember a list
longer than there are sessions.

`XHashQueue_proofs` holds for any clients, keys, elements, capacity, weights and
number of references, from `QueueAssumption` alone (clients and elements are
finite sets, NULL is none of them). Its `IInv` is `Types` (types, without the
bounds), `Lined` (the clients in the line of `ControlLock` are those in a call),
`Placed` (the variables of a client, by where it is), `Discarding` (only who has
the lock is inside a discard function, and for an element in use and, from
`xhqAdd`, without links), `Closing` (who ends the queue is alone), `Queued` and
`Tabled` (what the queue and the table hold), `Made` and `LinksHeld`. The parts
need one another: that the discarded element is not linked (`NotHeld`) is
`LinksHeld` and `Discarding`, and `LinksHeld` of a new element needs `Made`. The
lemmas go by what a step does: takes or posts the lock (`Asks`, `Returns`), takes
an element off the table, puts it back or frees it (`TakesOff`, `PutsBack`,
`Frees`), or changes a link count (`Counts`). For `Accounted`, `Bounded` is added to it. The weight of the queue is a sum by recursion, and
no prover here has an induction theorem it can use. `Lines_proofs` makes up for it: what
holds at 0 and goes on from each number to the next has no least exception (`UpTo`), so
that the recursion has a solution (`SumsExist`) and one can say what a sum becomes when the
list gets a new head (`SumOfPut`) or loses an entry (`SumOfTakenOut`); `WeighEnQueued` and
`WeighFreed` say it of the queue. `TypeOK` then has that the queue never weighs more than
the capacity, nor less than nothing. For `CacheImplemented` the abstract
cache is `Kept` and `Held`: adding, a hit, the last unlink and each of the three
ways to free are steps of `LinkCache`, and the rest are stutters (`Unseen`).

`MultiQuery_proofs` holds for queries of any number of statements, rows and values,
any errors of the sources and any finite number of rows the caller holds
(`QueryAssumption`: the queries are sequences of statements, and the rows held are a
finite set). Its `IInv` has the counts in the form the proof needs (`LinkCounts`,
`StmtCounts`, `QueryCount`) and what makes them inductive. `Sounds` is about one
statement: a saved row is its own and will be put back (`saving` and `begun`), its
tree has been finished once if it was started and is finished, and it is alive while
it has links. `Current` is about the query: only the current statement has an
unfinished tree, those after it have not been started, and during a fetch the
current one has. That a row saved by one statement is not another's (`SavedOnce`)
makes the last summand of `ObjectsHeld` 0 or 1. The lemmas go bottom up: what each operator does to the
links of the objects (`Same`: what the list and the saved row have of them does not
change), the reading of a row (`ChildItemIs`), the end of a statement with the start of
the next (`EndsStatement`), a step of the current statement (`Works`, `FetchKeeps`), the
end of a link of the query (`UnlinkedIs`); then there is one per action. The next
statement is the least one that qualifies, which exists by `LeastNat`.

`RowsAreTheGroups` adds `RowsInv` to that `IInv`. What a statement should return
(`Expected`) is computed from all of its rows at once: those that pass the constraint
(`Kept`), cut into runs of equal keys (`Runs`), each with its aggregates (`Groups`), those
that meet HAVING (`Met`), and of these the ones LIMIT lets through. The code reads a row
at a time, one row ahead. The invariant relates the two (`RowsFine`, of each statement
whose source does not fail): a number c of groups has been read, out has what they
give, with the two counters of LIMIT (`Given`), and the statement `Stands` after c
groups. Where it stands depends on `pc`: between fetches, the row read ahead is
the first of run c + 1 and is saved under its key (`Waiting`), or the source is done;
in the loop, the aggregates hold the rows of the run before the one at hand (`InRun`);
at the end of a run, all of them (`RunDone`). For a statement with an aggregate of
aggregates there is one group, of all the runs. The operators are folds, so
what they yield comes first: a fold exists and goes on by one element (`FoldExists` and
`FoldIs` of `Lines_proofs`),
`Kept` is the rows that pass, in order (`KeptIs`), the runs cut it with equal keys inside
and different ones between (`RunsStepIs`, `RunNext`), a run that another follows stays
as it is (`RunsStay`), and number and aggregates of the run at a row follow from those at the row
before (`AggNext`). These are inductions, by sets of numbers that have 0 and with each number
the next (`UpTo` of `Lines_proofs`). Then `GivenSkipped`, `GivenRow` and the
like say what a group does to what is out, one lemma says where the statement stands after
each kind of step, one that at the end everything is out (`GivenExpected`), and
there is one per action.

`OsmlObject_proofs` holds for any number of threads, files, objects, queries and closes
a caller owes, from `OsmlAssumption` (these are finite sets, objects are numbers, NULL
is none of them, a caller may have an object at least once). Who refers to an object is
a referrer: a caller, a query, an entry of the cache, or a call in progress with its
object, the object it enters into the cache, or the one it is releasing (`Referrers`,
`RefOf`). The first part of its `IInv`, `Graph`, is about the function from referrers to
objects: links count the users, and what is open has one (`Counted`); chains are of one
or two open objects (`Chained`); what callers and queries have is above nothing, and
neither a call nor the cache has it (`Separate`); what a call is about to return it has
alone (`Owned`). The rest says which thread has what: `Placed` (the variables of a
thread, by where it is), `Distinct` (no two with one query), `Closing` (an object that
is being closed is closed by one thread), `Listed` (a query with an object is listed, or
being opened), `Uppers` (the cache has no object inside another) and `Phase` (the order
of the session's end). The lemmas go by what a step does to
the graph, and count with it: a link more (`LinkKeeps`), a new object (`AllocKeeps`), a
reference that changes hands (`MoveKeeps`), one released while others remain
(`ReleaseKeeps`) or as the last, with what it leaves above it in the hands of the same
thread (`LastReleaseKeeps`). Others say when the rest of the state goes along (`Goes`,
`Calm`, `Frees`); then there is one per action. That `OpensExact` holds whoever ends an object follows from `Separate`: the last
referrer of an object is a user's or there has been none. `SessionsEnd` follows from
`Phase` and `Chained`: with no thread in a call and the cache and both lists empty, only
the children of `objOpenChild`, which are in no list, are left to refer to an object.

`NhtApps_proofs` holds for any number of connections, groups and applications, and of
references overwritten, from `AppsAssumption` (the sets are finite and distinct). What
makes an unlink hard to reason about is that the last one of a group ends its
applications, and that of the session its groups, on one stack (`todo`). Of its `IInv`,
`Homed` (an application is in a group that was allocated), `Listed` (what is listed is
live, linked and in its group), `Placed` (the variables of a thread by where it is; what
it works on is listed) and `Apart` (no two threads add the same) are about the lists.
`Stacked` is about the stacks: they end applications inside groups inside the session
(`Nested`), so that a thread releases an owner at most once, and what is being ended has
no reference left (`Sound`). `SessionExact` (the session's count is its requests, its
releases and its manager) is what lets the whole tree be torn down only when nobody works
on it. `Exact` is the property, with the threads that release (`Rel`) counted instead of the entries
of their stacks; `ReleasesAre` shows the two numbers equal. The lemmas go by what a step does: only a thread and the session change
(`CalmKeeps`, `Passes`), a frame of a stack is done (`InStack`, and `LastLink` where it
is the last reference that goes), or a list or a count changes (`StepKeeps`, and from it
`AllocKeeps`, `ReplacedKeeps`, `FiresKeep`); then there is one per action.

`TypeOK` of `NhtApps` bounds the counts, which `Exact` does not do alone: it is silent
while what an owner is in is being ended, and a thread could be counted as user and as releaser. `Bounds` is added to
`IInv`. A connection in a request has no other to release (`Answering`), and the link of
the watchdog manager is released by one thread (`RetiredOnce` for the session, `OffList`
for an owner whose timer has fired); so the counts have a bound above (`High`,
`SessionBounded`). For the one below, `Owed` says why a thread may release an owner: it
answers the timer, it ends what the owner is in and found it listed, or it ends a request
and has the home of the owner to release after it, so that the home still stands. Two who
both release what is listed then find a count above one (`TwoOwe`), and the
only release that can find nothing left is that of a timer that fired before the group
took its application down: the count is -1 then and nothing releases it again (`Low`).
`nht_i_UnlinkApp` then goes on to end it a second time, as with any count that is not
above zero (`net_http_sess.c:788`); `LinksExact` says that this is never while the group
stands. The lemmas go by what a step does: one of an unlink, to its
stack (`Undoes`, `UndoesTo`), one of a request or of the watchdog, which starts
with an empty stack (`Turned`, `TurnsTo`, `Tasks`); then there is one per action.

`MqJoin_proofs` holds for any sources, values, joins, rows, order and failures of the
drivers, from `JoinAssumption` (sources and values are finite sets, NULL is no value; a query has
one join or none for each two sources, and rows without repeats).
That a driver is started while the state of its source says so is the easy part of its
`IInv` (`Paired`). That a source which is finished is not entered needs the walk
(`OnPath`): above the source it is at, each has a row or is a null row; the loop of a
source is entered only with one; and when the source below has come back with a row, that
source has kept it, which is what the caller relies on when it asks for the next
(`Asked`). A start that fails returns -1 from a source that is not started, and all
that is above it ends on the way back. One lemma is about what taking a row
leaves (`TakenIs`), one about all the ways a level returns (`ReturnKeeps`).

`InnerResultIsJoin` says, of a query with any number of inner joins, that a caller who
asks to the end has exactly `Results`, each row once. It has three parts. The first
is the plan `mqjAnalyze` makes, whatever the order of the sources (`InnerPlan`): a source
depends only on sources before it (`Early`, kept by each widening of
`GlobalDependsOn`), none may be a null row (`NoneCanBeOuter`), and a join is checked at
the later of its two sources (`DepIs`). The second is what the joins mean: `Results` is
defined by groups of sources, each tied together by inner joins, below one another by the
outer ones; without outer joins no group is below another, and a result is one row from
each source such that every join holds (`ResultsAre`). The third is the walk,
`Good(d)`: the first d sources each have a row, these fit (`Fits`), and `out` has, each
once, the rows that come before those cursors in the order of the loop (`RowsBelow`)
while what is at the cursors is still to be returned (`Pending`), and also those that
begin with them (`RowsUpTo`) once it has been. A source
that starts adds nothing to what lies before (`RowsStarted`), a row that does not fit is
of no result and can be passed (`RowsTaken`), a source at its end hands over to the
one above (`RowsDone`), and when the first one is at its end all rows lie before
(`RowsAtEnds`). Each action is one lemma: `NextItemGood`, `EnterGood`, `LoopGood` (from
`RowTaken` and `RowsEnd`), `BackGood`, `ReturnedGood`; no step makes a null row
(`NothingIsNull`). `Walks` is that some d is good unless a driver has failed or the
caller has cancelled, of which `ResultIsJoin` says nothing. The theorem is about
any rows without repeats (`JoinAssumption`), which is what the lemmas of the walk need,
and says beside `ResultIsJoin` that no query of inner joins needs its exceptions: the rows
are `Joined` whatever the plan.

Only model-checked: `Served` (liveness), `ResultIsJoin` of `MqJoin` for queries with
outer joins (which sources may be null rows rests there on the single sweeps of
`GlobalDependsOn` and `CanBeOuter`, and the walk takes rows back with
`BackUnfulfilled`: it is checked for up to four sources, and for two kinds of queries it
does not hold, section 3), everything about `ExprEval`, which has recursive operators, and liveness, which is out of the reach of
the prover, as is `ENABLED`.

## 5. Not modelled

`PROJECT.json` has every component with its reason. In short: text handling, the
compiler and the functions of expressions, containers, memory managers, drivers, reports, widgets and HTML are
sequential code or I/O, where tests reach; the build of MTASK with OS threads is
a different program; sending OSML notifications is disabled in the source; NFS,
LDAP and BDQS are unfinished in it.

## 6. Plan

In this order:

1. `Osrc`: the object source of the browser side.
2. `MTaskSched`: `CntDown`, starvation, ticks and the `poll()` timeout with its
   integer width, signals; `NhtTicks`: the modular comparison of expiry ticks.
3. `MTaskFile`: read and write caches and closes; the sorted queries of the OSML;
   the drivers of the query engine that insert, update and delete.
4. `CxssContext`: the context stack of a thread.
