# SizeHunt: TLA+ models, model checking and proofs

SizeHunt is a Go server that watches single orders ("signals") in the order
books of Binance, OKX and Bybit for its users, and closes a user's futures
position when a watched order is cancelled or eaten. This directory holds TLA+
models of its concurrent parts, the TLC runs that check them and TLAPS proofs
of their main invariants. Paths below are relative to the repository.

## Inventory

| Component | State | Operations | Hard behaviour | What makes it correct |
|---|---|---|---|---|
| Depth watcher (`internal/binance/service/websocket_watcher.go`) | signals by symbol, active symbols, local books, `started`, client | `AddSignal`, `RemoveSignal`, `RemoveAllSignalsForSymbol`, `StartConnection`, `monitorActivity`, `processDepthUpdate` | a goroutine per message, several racing starts, dials that fail, drops | maps agree; a signal leaves once; triggers on evidence; no cancellation missed |
| User data stream (`user_data_stream.go`) | listen key, two channels, `isStopped`, a mutex | `Start`, `runWs`, `keepAliveLoop`, `recreateStream`, `StopWithContext` | stop during start, renewal failing, nil channels, self-deadlock | channels closed once; stop ends everything and returns |
| Position watcher, auto-close (`position_watcher.go`, `order_manager.go`) | cached positions, pending operations | `HandleWsEvent`, `checkAndRemoveSignalsIfZeroPosition`, `handleAutoClose`, `CloseFullPosition` | stale cache, two signals closing one position | never closes what the user did not mark; closes once |
| WebSocket manager (`websocket_manager.go`), handlers (`transport/http/handler.go`) | user watchers, their resources, rows of `signals` | load, create/replace watcher, delete, network monitor, graceful stop, cleanup | pending goroutines between checks and acts, three levels of locks, restart | an active row is watched; a deleted signal stays gone; cleanup spares new signals |
| OKX order-book watcher (`internal/okx/service/websocket_watcher.go`, `websocket_client.go`) | signals, books, `started`, the client and its reader, monitors | `AddSignal`, `RemoveSignal`, `StartConnection`, `readMessages`, `processDepthUpdate`, `monitorActivity`, `Close` | starts that overlap, a reader that outlives its client, monitors that pile up | `started` is never left behind; one stream; a signal fires because of its order; a dead client is dropped |
| OKX manager and handlers (`websocket_manager.go`, `position_watcher.go`, `transport/http/handler.go`) | rows of `okx_signals`, the user's watcher, its position watcher | create and replace, `DeleteUserSignal`, removal at a zero position, `DeleteKeys`, `LoadActiveSignals` | a signal lives in a row and in memory, and five goroutines change both, not together | rows and memory agree up to what is under way; an ended signal is not armed again |
| Bybit auto-close (`internal/bybit/service`) | position watcher and its cache, pending operations, the user's watcher | `handleAutoClose`, `loadInitialPositions`, `checkAndStopPositionWatcher`, `GracefulStopProxyForUser` | a stale cache, two operations on one position, fields that share no lock, a position watcher that is starting | an order is for the real position unless the code could not know it; an open position is not skipped; a position watcher is left over in named ways only |
| Proxy containers (`internal/proxy/service/service.go`) | instances, container status rows, a gauge, one Docker container per user | start, adopt, monitor, check and stop, stop all | concurrent starts and stops on one container name, monitor bound to a request | no proxy stopped under an active signal; no orphan container |
| Promo codes and subscriptions (`internal/promocode`, `internal/subscription`) | codes, usages, subscriptions | apply, create, delete; pay, activate | READ COMMITTED transactions, row locks | counter exact; once per user; limit; no deadlock |
| Users and tokens | refresh tokens | login, refresh | double exchange | one pair per token |
| REST clients, encryption, middleware, metrics, config | none of interest | I/O | - | - |

The handlers call the manager and the proxies synchronously and launch
goroutines for the rest; the manager owns one depth watcher per user, market and
symbol and one user data stream per user; watchers call back into the manager
when a position was closed; everybody shares the `signals` table. The hazards
are listed, line by line, in `PROJECT.json`.

## Modules

| Module | Models | Checked by | Proofs |
|---|---|---|---|
| `DepthWatcher` | one Binance `MarketDepthWatcher` with its connections | `MCDepthWatcher` with `DepthWatcher.cfg`, `DepthWatcherStream.cfg` | `DepthWatcherProofs` |
| `UserDataStream` | one Binance `UserDataStream` | `MCUserDataStream` with `UserDataStream.cfg` | `UserDataStreamProofs` |
| `SignalManager` | the Binance signals of one user: handlers, `WebSocketManager`, `signals` rows | `MCSignalManager` with `SignalManager.cfg`, `SignalManagerLive.cfg`, `SignalManagerNetwork.cfg` | `SignalManagerProofs` |
| `OkxWatcher` | one OKX `MarketDepthWatcher` with its clients | `MCOkxWatcher` with `OkxWatcher.cfg`, `OkxWatcherLive.cfg` | `OkxWatcherProofs` |
| `OkxManager` | the OKX signals of one user in rows and memory | `MCOkxManager` with `OkxManager.cfg` | `OkxManagerProofs` |
| `SignalLife` | what a signal manager promises; implemented by `OkxManager` and by `SignalManager` | `OkxManager.cfg` (as its implementation) | refined in `OkxManagerProofs` and `SignalManagerProofs` |
| `BybitAutoClose` | the auto-close of one user and symbol on Bybit | `MCBybitAutoClose` with `BybitAutoClose.cfg` | `BybitAutoCloseProofs` |
| `ProxyService` | the proxy container of one user | `MCProxyService` with `ProxyService.cfg` | `ProxyServiceProofs` |
| `PromoCode` | `ApplyPromoCode` transactions, payments | `MCPromoCode` with `PromoCode.cfg` | `PromoCodeProofs` |

Definitions whose comment starts with "Mutation:", "Mutant:" or "A plausible
mistake:" are deliberate bugs. They are not part of a specification: each property
is shown to fail when the definition they alter is replaced by them.

### DepthWatcher

One action is one critical section of `w.mu`; what the code does between two of
them interleaves with every other goroutine. `signals`, `activeSymbols`, `books`
are the three maps; `level` the quantities in the books; `start[g]` is a call of
`StartConnection` (claim the flag, copy the symbols, dial, store); `topics[c]` is
what a connection delivers. Messages form a set since each is handled by its own
goroutine: `DepthCheck` is the test under the read lock, `DepthApply` the
update, the triggers and the removals under the write lock. `fired`, `dropped`,
`added` and `events` are history. Quantities are small integers; the comparison
of the eaten share keeps the code's form, multiplied out.

The module assumes that a watcher gets one signal per symbol: the manager makes
a new watcher for every signal it adds. A signal that `restoreAutoCloseFeatures`
restores for a short position has a negative quantity
(`websocket_manager.go:1004`), so that neither trigger goes off. `qty` may
therefore be negative, in the proofs as well; the signal of TLC's instance has a
positive one, for which something happens.

### UserDataStream

One action is one section of `u.mu`, except that `recreateStream` keeps the mutex
over its HTTP request and over `runWs`; the variable `mu` holds it. A `select`
evaluates `u.stopChan` when it is reached, so the waiter and the loop either hear
the stop or, when the field is nil already, are deaf to it.

`recreateStream` calls `runWs`, which locks the mutex its caller holds
(`user_data_stream.go:301`): from there on a stop never returns. The property
`StopReturnsUnlessStuck` exempts that one state and says that there is no other.

### SignalManager

One user, because users share nothing but the map and its mutex. `row[s]` is the
row of a signal; `user` the map entry, `slots[u]` its two maps of watchers,
`held[w]` what a watcher holds (a watcher is its set of signals and may trigger
any of them, `DepthWatcher` being its detail). Every goroutine the code launches
is an element of a set (`adding`, `finding`, `removing`, `erasing`,
`deactivating`, `closing`, `autoClosing`) or a record with a program counter
(`request[g]`, `stop[g]`, `reviver`, the elements of `creating`). One action is one
critical section or one SQL statement:

| Code | Actions |
|---|---|
| `CreateSignal` | `CreateSignal` (the query for existing signals), `Replace` per signal, `Reject` (every early return), `Save`, `Undo` |
| `createWatcherForUser` | `FindUser` under `m.mu`, `Create` or `CreateFails` under `uw.mu` |
| watcher | `AddSignal`, `Trigger`, `CloseWatcher` (`RemoveAllSignalsForSymbol`), `Deactivate` (the row of a signal that left) |
| `DeleteUserSignal` | `DeleteSignal` (the request) or `Replace`, then `LookUpUser`, `LookUpSignal`, and two goroutines, `Remove` and `Erase` |
| `GracefulStopProxyForUser` | `StopRows`, `StopAgain`, `StopMemory`, then the cleanup |
| `CleanupUserResources` | `CleanupRows`, `CleanupDetach` under both locks, `CleanupSweep` without any |
| `StartConnectionMonitor` | `NetworkDown`, `Cut` per signal, `NetworkUp`; `ReviveList`, `ReviveSkip`, `ReviveRead`, `ReviveWrite` of `restoreAutoCloseFeatures` |
| crash, `LoadActiveSignals` | `Restart`, `Load` or `LoadZero` per row, before any request |

Merged: the reads of the watchers' maps with the checks of each watcher's own
mutex inside one `uw.mu` section (a watcher's set only shrinks or gains one signal
meanwhile, at one moment of the section or another). Left out: the stream and the
position watcher of a `UserWatcher` and `CheckAndStopUserDataStream`, the proxy
calls (`ProxyService`), `RemoveSignalFromMemory` on a zero position; the handler's validation; symbols that `createWatcherForUser` refuses
for their form. `replaced`, `cut`, `restored`, `failed`, `fired` are history.

The code reaches more than its texts promise, and the properties say where. A
signal that was deactivated by the request that replaced it may be activated again
by `restoreAutoCloseFeatures`, which reads "active" in the list and "inactive" in
the row as "deactivated by the network"; a deleted signal may come back when the
process ends before the row is erased; a `DELETE` that looked up a `UserWatcher`
just before a cleanup detached it answers "deleted" while a pending `AddSignal` on
that orphan keeps the signal watched (`DeletedIsGone` therefore speaks of signals
that are in a watcher of the user when they are deleted). A signal whose `AddSignal` is pending is in none of
the checks of `CleanupUserResources`, so a cleanup may take its user away; the
removal that a replacement launches may run before the `AddSignal` it is to undo,
and the replaced signal is watched for good.

### OkxWatcher

OKX has one watcher per user for all instruments, with a connection that lives as
long as any signal does. One action is one section of `w.mu`. `start[c]` is a
goroutine in `StartConnection` (claim `started`, read the instruments, dial, store
the client), named after the client it creates; `conn[c]` the connection, with what
it has subscribed, what the exchange has told over it and the message its reader
has read and not processed; `monitors` and `due` the `monitorActivity` goroutines
and those that have seen silence and wait for the mutex. The reader runs from the
subscription on, before the client is stored, and a message read earlier is
processed after the client was closed. Each signal has a price level of its own
with three contents (`whole`, `eaten`, `gone`). Silence may be found at any moment,
since time is not modelled. `cause`, `late`, `closed` are history.

Left out: pings, `lastActivity`, the auto-close a trigger starts, and a reader that
meets a nil connection while `Close` runs.

What the model shows and no property asserts: an instrument added to a watcher that
is started is never subscribed; a level that went while the stream was down stays in
the book, since the snapshot after a reconnection is merged like an update, so the
signal does not fire; a start that failed is tried again only when a signal on
another instrument comes; the second reset after a failed start
(`websocket_watcher.go:158`) may free the claim of another start, so that two streams
are open (`late`); a `Close` during a dial leaves a stream open (`closed`); the
monitors of earlier connections go on and may close one made since.

### OkxManager and SignalLife

One action is one database call or one section of a lock. `row[s]` is the row of a
signal, `mem[s]` the watcher that has it in memory, `watcher` the one in the map;
`create[s]`, `del[s]`, `write`, `zero` are `CreateSignal` with the goroutine it
launches, `DeleteUserSignal`, the background updates of rows and
`checkAndRemoveSignalsIfZeroPosition`. Positions are not modelled: a position may
close at any moment (`PositionCloses`), and a trigger may happen in any watcher that
has a stream (`Fire`, `OkxWatcher` being its detail). A crash may come between any
two steps, followed by `LoadActiveSignals` row by row before any request. A
position watcher made by `ensurePositionWatcher` has no user id and removes
nothing, so only those made with their watcher count (`pw`).

`DeleteUserSignal` looks for the watcher in one step and deletes the row in another
when there was none; `AddSignal` may come in between, or after the row had ended, and
then the user's watcher keeps a signal that nobody will remove. `late` remembers these
signals; the removal at a zero position looks for its watcher the same way. `odd`
are rows whose end could not be written or whose requests overlapped. A signal that
fired, or that was removed, leaves its row to a goroutine in the background; if that
fails, or the process ends first, the next start arms the signal again. `left` keeps,
over restarts, the signals whose row was active when they left the memory, `lost` those whose write
failed or was cut off: `GoneIsRecorded` says that there are no others.

`SignalLife` is the abstract specification: rows that end stay ended, a signal
begins to be watched once in a run of the process, and a start takes up no row
that was not active. Only signals in the constant `Revivable` may be taken up
again after they ended (`Revive`), and `revived` remembers them.

`OkxManager` implements it under the mapping `Life`: `record` is the row with
"deleted" read as ended, `watched` the signals in the memory of some watcher,
`mayWatch` those whose `AddSignal` is still to come or that `LoadActiveSignals` has
still to load, and nothing is revivable. `SignalManager` implements it too:
`Recorded` is the row with "inactive" and "deleted" read as ended, `Held` the
signals in some watcher, `Awaited` those that a `creating` or `adding` goroutine or
the loading still carries; auto-close signals are revivable, and `restored` are those
that `restoreAutoCloseFeatures` took up. `KeepsSignalLife` is the refinement in both
modules; `okx_manager` checks the first, and both are theorems.

Left out: keys, the trading socket, the auto-close, and that
`LoadActiveSignals` loses `close_inst_id` (`websocket_manager.go:94`).

### BybitAutoClose

One user and one symbol. `pos` is the real position on the exchange, a signed size;
the code sees it through `cache`, filled by the private stream (`feed`, which lags) and
by `loadInitialPositions` (`load`), and through REST. `pw[p]` is a `PositionWatcher`,
named after the signal it was made for, through its start (`dial`, `reading`, `up`);
`pwM` and `pwW` the pointers to one in the manager's entry and in the watcher. `op[s]` is
the auto-close operation of a signal: the position captured when it fired, or the
cache, or REST (`cap`), then the order. `pending` is `pendingAutoCloseOps`.

| Code | Lock | Actions |
|---|---|---|
| `GetOrCreateWatcherForUser`, `ensurePositionWatcher` | the manager's | `CreateEntry`, `FindEntry`, then `Ensure` after the query for the keys, which may be absent |
| removals and the end of an operation, `checkAndStopPositionWatcher` | the watcher's, to the end of the check | `Fire`, `DeleteFromMemory`, `OpEnds` (each with `CheckAndStop`), then `CheckStop`, `CheckClear` |
| `GracefulStopProxyForUser` | several, and none at the end | `GraceLooks`, `GraceLists`, `GraceFindsNone`, `GraceFindsEntry`, `GraceChecks`, `GraceStops`, `GraceClears` |
| `DeleteUserSignal` | the manager's, the watcher's | `Look`, then `DeleteRow`, or `DeleteFromMemory` and `Deactivate` |
| `CleanupUserResources` | both | `Cleanup` |
| `handleAutoClose` | none | `Find`, `Refused`, `AskAnswered`, `AskFails`, `OrderFilled`, `OrderFails` |

The two locks do not exclude each other, and the fields `positionWatcher` are written
under either or none: each write is a step. Calls of `GracefulStopProxyForUser` are not
counted; `calls` is the set of places that some call has come to. `client` is the
manager's HTTP client, nil when the keys were absent: an operation then asks
nobody and says that there is nothing to close (`AskFails`). An order without a client, a
`Stop` before there is a connection to close and a field set to nil between its test and
its use are nil pointers, which end the process: they have no step.
`OkxManager` takes the steps of `CreateSignal` apart; here they are one. The
connection of the order book is not taken apart either: a signal in memory may fire
at any time. After `CleanupUserResources` another watcher is not followed.

The rest is history. `excused` are the operations during which the position was flat,
or that got no answer; `outdated` those whose size is behind, because the position
changed since, or because the entry of the cache was behind when it was read, `lag`
being the loaded answer that goes over a newer message; `adrift` the position watchers
that were lost from sight while live: still starting when the check wanted to stop
them, replaced while they were not seen to run, or put in place between the check's `Stop`
and its nil.

What the model shows and no property asserts: `isRunning` is set after the reader was
started and may have ended, and the watcher then says that it runs for good
("zombie"); the graceful stop does not look at pending operations and may set the
manager's field to nil when another watcher is there by then; a stale, smaller size
leaves the rest of the position open; a signal added after the check stopped its
position watcher works through REST. Not modelled: the categories that are never
connected (TODO at `websocket_watcher.go:305`), and `SetUserID`, which the ensured
position watcher does not get.

### ProxyService

One user, since users share nothing but the mutex and a gauge. The container has one
name (`box`), and every call to Docker or the database is an action that succeeds or
fails; `inst` is the entry of the map, `rows` the statuses of `proxy_configs`,
`call[p]` a goroutine in the service with a program counter, `mon[m]` a
`monitorContainer`. A start is the 14 steps from `Read` to `Publish`, a stop the five
from `Look` to `Forget`. `Dies` and `Crash` may come at any time; after a crash
`initProxyContainers` starts the container, or does not, before requests are served.
`odd` is history: an event after which the code does not promise to know the
container has happened since it was created.

What the model shows and no property asserts: a monitor started by a request has the
request's context and ends with it (`service.go:285`), so nobody watches that
container, and only those started at boot do; a failed start cleans up with the same
context, which may be over, and leaves the container (263-269); a monitor of an
earlier container may restart one of another configuration; a stop writes
"stopped" to a row that is deleted by then; boot looks at the active signals of
Binance only (`cmd/server/main.go:92`), and the checkers are registered after the
signals were loaded, so that a check in between finds none; `CheckAndStopProxy` asks
the checkers without the mutex, and what they said may be over when it stops the
container. The answers of the checkers are therefore left open.

### PromoCode

One action is one SQL statement of a READ COMMITTED transaction: reads see what
is committed, an update waits for the row's lock and keeps it until the end, a
failed insert rolls back. PostgreSQL is external and modelled by that. Days
are integers, rows of `subscriptions` with equal contents are one.

Two requests that read the count before either writes it exceed `max_uses`, which
`internal/promocode/model.go:11` calls the maximum number of uses: the limit is not
kept. `Overshoot` says that what it is exceeded by stays below the number of
requests that run together. The subscription a promo code gives has no
`crypto_tx_id`, a NULL that `IsUserSubscribed` scans into a string: such a row
(`paid = "unpaid"`) makes that read fail, and the user is told an error.

## Runs

| Run | Instance | Shows |
|---|---|---|
| `depth_watcher` | 1 signal with both triggers, 2 starts, 2 connections, 2 messages of 4 kinds, faults | `TypeOK`, `MapsAgree`, `OneFate`, `FiredOnEvidence`, `WatchedRowsStayActive`, `CancelIsNoticed` hold |
| `depth_watcher_stream` | the same, no faults, no messages, fair | `SignalGetsStream` fails: lost wake-up between a start and `AddSignal` |
| `user_data_stream` | 2 listen keys, 2 stops | `TypeOK`, `ClosedOnce`, `NothingSurvivesStop`, `StopEndsEverything`, `StopReturnsUnlessStuck` hold |
| `signal_manager` | 2 auto-close signals of one slot, 1 request, 1 stop at a time, 2 UserWatchers, 3 watchers, 1 disturbing event | `TypeOK`, `ReplacedStaysInactive`, `CleanupKeepsKnown`, `FiresOnce` hold |
| `signal_manager_live` | 2 signals of one slot without auto-close, 1 disturbing event, fair | `SavedIsWatched`, `DeletedIsGone` hold |
| `signal_manager_network` | 1 signal, 1 loss of the network, fair | `NetworkRestores` fails: the restoring goroutine never sees what was deactivated |
| `promo_code` | 2 codes, 3 users, 2 requests, 2 days, 1 payment | `TypeOK`, `UsedMatchesUsages`, `OnceEach`, `Overshoot`, `EveryRequestEnds` hold |
| `proxy_service` | 2 concurrent calls (one of them a start), 1 monitor, 2 configurations, fair monitors | `TypeOK`, `RunningIsKnown`, `ContainerHeals` hold |
| `okx_watcher` | 2 signals on 2 instruments, one with each trigger, 2 starts, 1 monitor, `Close` | `TypeOK`, `StartedIsBacked`, `OneStream`, `FiresForCause` hold |
| `okx_watcher_live` | 2 cancel signals on 1 instrument, 2 starts, 1 monitor, no `Close`, fair | `BrokenIsReplaced`, `CancelIsNoticed` hold |
| `okx_manager` | 2 signals of one instrument, one with auto-close, 2 watchers, restarts, failing writes | `TypeOK`, `EndedIsBeingForgotten`, `GoneIsRecorded`, `OneActive`, `KeepsSignalLife` hold |
| `bybit_auto_close` | 2 auto-close signals, positions -1, 0 and 1, 1 deletion, clean-up or trade | `TypeOK`, `SkipsOnlyWhenFlat`, `OrderIsExact`, `UnneededIsStopped` hold |

Bounds. Two starts and two connections are what one watcher has in the code (the
manager's call, then `AddSignal`'s or the monitor's); two messages suffice to be
reordered and to come through two connections; quantities 0..2 tell an order
that is gone, partly eaten and whole. In `SignalManager` two signals of one slot
replace each other, and the requests come one after the other while their
goroutines pile up; three watchers are the current one, one being cleaned and one
being made; `MaxEvents` counts together what disturbs (a DELETE, the deletion of
the keys, a network loss, a restart, a failing call), so that two signals meet
each of them, in the live run too, where a second request or the removal of the first
signal replaces the watcher that a deletion is about to look up; one `restoreAutoCloseFeatures` runs at
a time. Two stops race for one claim. Two
transactions are needed for every race of promo codes; both codes may be used
once, one of them on the first day. Three users are needed for `Overshoot`: with two the
unique index alone keeps the count below the bound.

In `ProxyService` two calls race on one container name, one of which may start a
container; two starts at once fall under `odd` in any case. Two configurations tell an old container from a new one,
and one monitor outlives the container it was started for; what ends a call
(failure of Docker or the database, the end of a request, a crash) may hit any step.
Two starts of `OkxWatcher` are enough for a start that overlaps another and for a
connection that replaces a dead one; one monitor is enough to close what a later
start made; two instruments are needed for a signal that comes when the stream
is up. The live run has one instrument, since a signal on a second one is not
subscribed and would be outside the property. In `OkxManager` two signals of one
instrument replace each other and two requests overlap; a second watcher is the
one made after a cleanup; crashes are not counted. In `BybitAutoClose` two
operations close one position at once, which may turn to the other side between
what they saw and what they sent; `MaxEvents` counts deletions, clean-ups and trades
together, while fires, orders, calls and failures are not counted. Sizes
beyond 1, with which a stale size may be too small or too large, are left to the proof.

Deadlock is not checked, except in `ProxyService`, where a new process may always come
and it says little: a user whose goroutines are done, a watcher
whose signals are gone, a stopped stream and a day without codes really have nothing
to do.

Fairness. Weak fairness of each launched goroutine, which is what the Go
scheduler gives; strong fairness where a goroutine waits for a Go mutex, which is
handed to a waiter that has been passed over, or for a row lock, which
PostgreSQL queues. In `SignalManager` the goroutines that launch a graceful stop are
strongly fair, since the model makes them wait for a free element of `Stops`, a
bound the code does not have; requests and database calls return, and a failing
call is one of the bounded events. In `ProxyService` each monitor is weakly fair: its
ticker goes on until its context ends. In `OkxWatcher` starts, the processing of a
message that was read, and the monitors are weakly fair; a monitor sees the silence
when no connection can speak any more, since its half minute then elapses
(`DeadSilence`); and the exchange is strongly fair to each signal, since it sends every
change on a subscribed stream, but other messages may be read before. No fairness for the network, the user or, elsewhere, the exchange.

## Proofs

All are safety properties of the whole behaviour, for every value of the
constants, from the named assumptions of the modules. Each file proves
`Init => IInv`, `IInv /\ [Next]_vars => IInv'` action by action and derives the
properties.

- `DepthWatcherProofs`: `IInv` adds to the checked invariants that the rows of
  signals not yet added are untouched (`NewRowsStayActive`), that a held signal
  that waits for a cancel has its order in the book (`OrderInBook`) and that
  every quantity in a book is the one a held signal was created with or the one
  an applied event carried (`BookHasSource`). Without the second a removal could
  leave a signal that never triggers; without the third `FiredOnEvidence` is not
  inductive: what triggers may come from an earlier message's book.
- `UserDataStreamProofs`: `IInv` says who owns the WebSocket's `stopC` before
  it is closed (`StopCOwned`), in which order a stop closes things
  (`StopOrdered`) and that one stop at most is at work (`OneStop`).
- `SignalManagerProofs`: `IInv` says that whatever is on its way to a watcher, in
  one, or about to be deleted has a row (`Saved`), and that a request owns the
  signal it is about to save, which has none (`Owned`). Without them a restored or
  loaded row might be one a running request replaces. The type invariant carries
  one fact that is not a type: a sweep has a `UserWatcher`. `JInv` is a second
  strengthening, on top of `IInv`, for `FiresOnce` and `CleanupKeepsKnown`. It says
  that a signal which was not restored has one carrier, on one way to a watcher or
  in one watcher, and none after it fired (`OneCarrier`); without it a second
  watcher could fire the signal again. And it says that a signal some watcher held
  when a stop began comes to no watcher any more, nor is it in one that the stop
  detached (`KnownSettled`): otherwise an `AddSignal` still pending could put such a
  signal into a watcher between the checks of the stop and its cleanup, which would
  take it away. `ManagerImplementsLife` needs a third fact
  (`LInv`): the goroutine of `restoreAutoCloseFeatures` writes auto-close signals only,
  and a request undoes only what it saved. Then each action is a step of `SignalLife`
  or a stutter; what a cleanup or a lost network takes from watchers is `Leave`.
- `PromoCodeProofs`: `IInv` says that one transaction holds a code's row and
  has written the committed count plus one (`RowLock`), that the recorded usage
  is new (`Recorded`), and, for the bound on the overshoot, that committed and
  in-flight uses together stay below `MaxUses + |Workers|` (`Reserved`), by
  cardinalities of finite sets.

- `OkxManagerProofs`: `IInv` says that whatever is done about a signal has a row,
  and that a request has none before it saved (`HasRow`); that a signal comes into
  memory once, through its request or through `LoadActiveSignals` (`ComesOnce`); that the
  latter is over before any request (`BootFirst`); that a request which has read the
  active signals has still to end them (`Clearing`); that a signal which the user's
  watcher holds is not passed by its own deletion unless `late` (`NotPassed`); that zero positions
  drop one signal at a time (`OneDrop`). Without `ComesOnce` the row of a signal could
  end while a second goroutine is about to add it; without `Clearing` two requests
  could leave two active signals. `ManagerImplementsLife` takes each action to a
  step of `SignalLife` or a stutter: creations and loading watch a signal, the writes
  of rows end one, a crash and the read of the active rows restart.
- `BybitAutoCloseProofs`: `IInv` says that a signal opens one operation, when it
  leaves the memory (`OpensOnce`), so that `pendingAutoCloseOps` is a cardinality,
  and that the signal for which the keys are read waits (`EnsuringWaits`), so that the
  position watcher made for it is new. For `SkipsOnlyWhenFlat`: while the position is
  flat every operation may say so (`FlatIsExcused`). For `OrderIsExact` the cache has to
  be known message by message: the last message still to be read tells the position
  (`LastIsPos`); with all of them read the cache has it, unless a loaded answer went
  over it (`CaughtUp`, `LoadedOnce`); a position watcher that starts knows nothing
  (`StartsBlank`); so what an operation captured is the position or is known to be
  behind (`CapExact`), and an order has a size other than 0 (`Sized`). For
  `UnneededIsStopped`: a live position watcher is the one the watcher points to or is
  adrift (`Tracked`), and that one is needed, about to be stopped, or adrift
  (`UnneededEnds`); the property speaks of those that run, but one that is starting
  comes to run. The assumption on `Positions` (closed under partial closes) is what the
  reduce-only fill of the exchange needs.

- `OkxWatcherProofs`: `IInv` adds to `StartedIsBacked` that, unless a reset came late or
  the watcher was closed, at most one goroutine is making a client, only while
  none is stored, and every open connection is the stored client's or that
  goroutine's (`OneHolder`). `OneStream` alone counts connections and does not say
  who may open the next. For `FiresForCause` it adds that an order which has not
  changed since the handler saw it is whole on the exchange, in every message that
  names it and, once watched, in the book (`Unchanged`): messages wait while
  signals come and go, and what fires may come from one read long before.
- `ProxyServiceProofs`: `IInv` says that a start has noticed every other call, or that
  `odd` was or will be set when its container is made (`Overlaps`); which configuration
  a start at each of its steps is about, and that a stop past Docker leaves nothing
  that runs unless `odd` (`Holds`); that the container is of the configuration whose row says
  "running" (`Boxed`); and that a container that runs is in the map of instances,
  or a start is about to put it there or to remove it, or a new process has not
  looked yet (`Known`). `RunningIsKnown` speaks of quiet moments only; `Known`
  carries it through the fourteen steps of a start.

All safety properties that the passing runs check are proved, and so is
`KeepsSignalLife` of `SignalManager`, which no run checks: TLC found no
counterexample to it on the instances of `signal_manager` and
`signal_manager_live` with their properties replaced by it. Only model-checked is
liveness (`StopEndsEverything`, `StopReturnsUnlessStuck`, `EveryRequestEnds`, `SavedIsWatched`,
`DeletedIsGone`, `ContainerHeals`, `BrokenIsReplaced` and the `CancelIsNoticed` of
`OkxWatcher`), since it needs ENABLED, which the prover does not handle. The prover
cannot do induction over data either, nor see through RECURSIVE operators; the
modules use neither.

## Plan

Done: `DepthWatcher`, `UserDataStream`, `PromoCode`, `SignalManager`, `OkxWatcher`,
`OkxManager` with `SignalLife`, `BybitAutoClose`, `ProxyService`, their invariants
and action properties as theorems, and both implementations of `SignalLife`.
`SignalManager` also backs what `DepthWatcher` assumes: `Create` makes a new watcher for every
signal, and no other action but `AddSignal` puts one into a watcher.

1. The Binance auto-close: the shared stream and position watcher of a `UserWatcher`,
   `CheckAndStopUserDataStream` and the zero-position removal, whose futures branch
   never tells the position watcher its user.
2. Promo codes: the days a user ends up with. The shutdown of `main.go`.

Not modelled and not planned: REST clients and their circuit breakers,
encryption, JWT, request validation, metrics, configuration.
