--------------------------- MODULE SignalManager ---------------------------
(***************************************************************************)
(* The Binance signals of one user across the handler, the                 *)
(* WebSocketManager and the signals table: what the requests, the cleanup, *)
(* the network monitor and a restart do to the rows and to the watchers.   *)
(*                                                                         *)
(* A watcher is here the set of signals it holds and may trigger any of    *)
(* them; DepthWatcher is its detail.  User data streams and the proxy do   *)
(* not touch signals and are left out, so the second step of               *)
(* GracefulStopProxyForUser is only time that passes.  A critical section  *)
(* of m.mu, of uw.mu, of a watcher's mutex, and a statement sent to the    *)
(* database are one action each.                                           *)
(***************************************************************************)
EXTENDS Naturals, FiniteSets

CONSTANTS
    Signals,      \* signals the user may create
    Sig,          \* Sig[s]: symbol, market and autoClose of s
    Requests,     \* CreateSignal handlers that may run together
    Stops,        \* graceful stops and cleanups that may run together
    Users,        \* UserWatcher objects that may exist together
    Watchers,     \* MarketDepthWatcher objects that may exist together
    None,         \* the nil pointer
    MaxEvents     \* DELETE requests (for a signal or the keys), losses of the
                  \* network, restarts and failing calls, taken together

ASSUME ManagerAssumption ==
    /\ MaxEvents \in Nat
    /\ None \notin Signals \cup Users \cup Watchers /\ Users # {}
    /\ \A s \in Signals : Sig[s].autoClose \in BOOLEAN

VARIABLES
    row,          \* row[s]: the signals row of s
    user,         \* userWatchers[userID]: the current UserWatcher
    slots,        \* slots[u][k]: the watcher of market and symbol k
    held,         \* held[w]: signals in the memory of watcher w
    request,      \* request[g]: the CreateSignal call of handler g
    creating,     \* createWatcherForUser calls in flight
    adding,       \* AddSignal goroutines
    finding,      \* DeleteUserSignal calls in flight
    removing,     \* its goroutines that remove the signal from memory
    erasing,      \* its goroutines that delete the row
    deactivating, \* goroutines that set is_active = false, with their watcher
    closing,      \* cleanupOldWatcherAsync goroutines
    autoClosing,  \* handleAutoClose goroutines
    stop,         \* stop[g]: a GracefulStopProxyForUser or CleanupUserResources
    network,      \* networkStatus
    cutting,      \* signals handleNetworkDown has still to deactivate
    reviver,      \* the restoreAutoCloseFeatures goroutine
    boot,         \* rows LoadActiveSignals has still to load
    events,       \* how many of the events that MaxEvents bounds occurred
    replaced,     \* history: replaced[s], the signals the request of s deactivated
    cut,          \* history: signals deactivated by handleNetworkDown
    restored,     \* history: signals reactivated by restoreAutoCloseFeatures
    failed,       \* history: signals one of whose calls failed, or was lost in a restart
    fired         \* history: fired[s], times s triggered since the process started

memory == <<user, slots, held>>
calls == <<creating, adding, finding, removing, erasing, deactivating, closing, autoClosing>>
monitor == <<network, cutting, reviver>>
history == <<replaced, cut, restored, fired>>
fault == <<events, failed>>
vars == <<row, memory, request, calls, stop, monitor, boot, history, fault>>

Slot(s) == <<Sig[s].market, Sig[s].symbol>>
Slots == {Slot(s) : s \in Signals}
NoSlots == [k \in Slots |-> None]
NoRequest == [pc |-> "idle", signal |-> None, todo |-> {}]
NoStop == [pc |-> "idle", user |-> None, known |-> {}]
NoReviver == [pc |-> "idle", todo |-> {}, signal |-> None]
AutoClose == {s \in Signals : Sig[s].autoClose}

\* Rows with is_active = true.
Active == {s \in Signals : row[s] = "active"}

\* The watchers in the two maps of UserWatcher u, and the signals they hold.
WatchersOf(u) == {slots[u][k] : k \in Slots} \ {None}
InMemory(u) == IF u = None THEN {} ELSE UNION {held[w] : w \in WatchersOf(u)}
Held == UNION {held[w] : w \in Watchers}

\* Mutation: only the watchers of the spot market are looked at.
HasSpotSignals(u) ==
    \E k \in Slots : k[1] = "spot" /\ slots[u][k] # None /\ held[slots[u][k]] # {}

\* Whether a watcher of either market holds a signal.
HasSignals(u) == InMemory(u) # {}

\* Mutation: the statement forgets is_active.
WrittenWithout(s, b) == row

\* UPDATE signals SET is_active = b WHERE id = s: a deleted row stays deleted.
Written(s, b) ==
    [row EXCEPT ![s] = IF @ \in {"none", "deleted"} THEN @
                       ELSE IF b THEN "active" ELSE "inactive"]

\* One more of the events that are bounded.
Another == events < MaxEvents /\ events' = events + 1

\* A call about s that may fail: it has the effect ok, or none.
MayFail(s, ok) ==
    \/ row' = ok /\ UNCHANGED fault
    \/ /\ Another
       /\ failed' = failed \cup {s}
       /\ UNCHANGED row

\* Objects nobody can reach any more.
FreeUsers ==
    Users \ ({user} \cup {c.user : c \in creating \cup finding}
             \cup {stop[g].user : g \in Stops})
FreeWatchers ==
    {w \in Watchers : /\ held[w] = {}
                      /\ \A u \in Users \ FreeUsers : w \notin WatchersOf(u)
                      /\ \A c \in closing \cup adding : c.watcher # w}

\* LoadActiveSignals returns before the HTTP server starts.
Booting == boot # {} \/ \E c \in creating \cup adding : c.by = "boot"

Init ==
    /\ row = [s \in Signals |-> "none"]
    /\ user = None
    /\ slots = [u \in Users |-> NoSlots]
    /\ held = [w \in Watchers |-> {}]
    /\ request = [g \in Requests |-> NoRequest]
    /\ creating = {} /\ adding = {} /\ finding = {} /\ removing = {} /\ erasing = {}
    /\ deactivating = {} /\ closing = {} /\ autoClosing = {}
    /\ stop = [g \in Stops |-> NoStop]
    /\ network = "up" /\ cutting = {} /\ reviver = NoReviver /\ boot = {}
    /\ events = 0
    /\ replaced = [s \in Signals |-> {}]
    /\ cut = {} /\ restored = {} /\ failed = {}
    /\ fired = [s \in Signals |-> 0]

-----------------------------------------------------------------------------
(* CreateSignal *)

\* What comes before GetActiveByUserAndSymbol changes no signal.  It reads the
\* active rows of the symbol, in any market.
CreateSignal(g, s) ==
    LET existing == {t \in Active : Sig[t].symbol = Sig[s].symbol} IN
    /\ ~Booting /\ request[g].pc = "idle" /\ row[s] = "none"
    /\ \A h \in Requests : request[h].signal # s
    /\ request' = [request EXCEPT ![g] = [pc |-> "replace", signal |-> s, todo |-> existing]]
    /\ UNCHANGED <<row, memory, calls, stop, monitor, boot, history, fault>>

\* An existing signal is deactivated, and DeleteUserSignal launched for it
\* whether or not that failed.
Replace(g, t) ==
    /\ request[g].pc = "replace" /\ t \in request[g].todo
    /\ MayFail(t, Written(t, FALSE))
    /\ request' = [request EXCEPT ![g].todo = @ \ {t}]
    /\ replaced' = [replaced EXCEPT ![request[g].signal] = @ \cup {t}]
    /\ finding' = finding \cup {[signal |-> t, user |-> None]}
    /\ UNCHANGED <<memory, creating, adding, removing, erasing, deactivating, closing,
                   autoClosing, stop, monitor, boot, cut, restored, fired>>

\* An early return: the position, the order book, the order at the target price,
\* the deadline of the request, or Save.  The replaced signals stay replaced.
Reject(g) ==
    /\ request[g].pc = "replace" /\ request[g].todo = {}
    /\ request' = [request EXCEPT ![g] = NoRequest]
    /\ UNCHANGED <<row, memory, calls, stop, monitor, boot, history, fault>>

\* The INSERT; the handler goes on to createWatcherForUser.
Save(g) ==
    LET s == request[g].signal IN
    /\ request[g].pc = "replace" /\ request[g].todo = {}
    /\ row' = [row EXCEPT ![s] = "active"]
    /\ request' = [request EXCEPT ![g].pc = "create"]
    /\ creating' = creating \cup {[signal |-> s, user |-> None, by |-> "request"]}
    /\ UNCHANGED <<memory, adding, finding, removing, erasing, deactivating, closing,
                   autoClosing, stop, monitor, boot, history, fault>>

\* The watcher could not be made: the row is deleted again.
Undo(g) ==
    LET s == request[g].signal IN
    /\ request[g].pc = "undo"
    /\ MayFail(s, [row EXCEPT ![s] = "deleted"])
    /\ request' = [request EXCEPT ![g] = NoRequest]
    /\ UNCHANGED <<memory, calls, stop, monitor, boot, history>>

-----------------------------------------------------------------------------
(* createWatcherForUser, for a request, for LoadActiveSignals and for        *)
(* restoreAutoCloseFeatures                                                  *)

\* Under m.mu: the user's UserWatcher, made if there is none.
FindUser(c) ==
    LET new == CHOOSE u \in FreeUsers : TRUE IN
    /\ c \in creating /\ c.user = None
    /\ IF user # None THEN UNCHANGED <<user, slots>>
       ELSE /\ FreeUsers # {}
            /\ user' = new
            /\ slots' = [slots EXCEPT ![new] = NoSlots]
    /\ creating' = (creating \ {c}) \cup {[c EXCEPT !.user = user']}
    /\ UNCHANGED <<row, held, request, adding, finding, removing, erasing, deactivating,
                   closing, autoClosing, stop, monitor, boot, history, fault>>

\* The request of s answers, or turns to pc.
RequestGoes(c, pc) ==
    request' = [g \in Requests |->
        IF c.by = "request" /\ request[g].signal = c.signal
        THEN IF pc = "idle" THEN NoRequest ELSE [request[g] EXCEPT !.pc = pc]
        ELSE request[g]]

\* Mutation: AddSignal is not called.
NotHanded(c, w) == adding

\* The caller has AddSignal run on the new watcher w.
Handed(c, w) == adding \cup {[signal |-> c.signal, watcher |-> w, by |-> c.by]}

\* Mutation: the old watcher is forgotten.
Forgotten(old) == closing

\* The old watcher, if there is one, is left to a cleanup goroutine.
Replaced(old) ==
    closing \cup (IF old = None THEN {}
                  ELSE {[watcher |-> old, by |-> "replace", known |-> {}]})

\* Under uw.mu: a new watcher takes the slot.
Create(c) ==
    LET k == Slot(c.signal)
        new == CHOOSE w \in FreeWatchers : TRUE
    IN  /\ c \in creating /\ c.user # None /\ FreeWatchers # {}
        /\ creating' = creating \ {c}
        /\ slots' = [slots EXCEPT ![c.user][k] = new]
        /\ closing' = Replaced(slots[c.user][k])
        /\ adding' = Handed(c, new)
        /\ RequestGoes(c, "idle")
        /\ UNCHANGED <<row, user, held, finding, removing, erasing, deactivating, autoClosing,
                       stop, monitor, boot, history, fault>>

\* An auto-close watcher needs the keys, which may be gone or unreadable by now.
\* The old watcher, if any, was handed to its cleanup already.
CreateFails(c) ==
    /\ c \in creating /\ c.user # None
    /\ Sig[c.signal].autoClose /\ Another
    /\ creating' = creating \ {c}
    /\ closing' = Replaced(slots[c.user][Slot(c.signal)])
    /\ failed' = failed \cup {c.signal}
    /\ RequestGoes(c, "undo")
    /\ UNCHANGED <<row, memory, adding, finding, removing, erasing, deactivating, autoClosing,
                   stop, monitor, boot, history>>

\* AddSignal: by a goroutine after the reply, or by the caller at once.
AddSignal(a) ==
    /\ a \in adding
    /\ adding' = adding \ {a}
    /\ held' = [held EXCEPT ![a.watcher] = @ \cup {a.signal}]
    /\ UNCHANGED <<row, user, slots, request, creating, finding, removing, erasing, deactivating,
                   closing, autoClosing, stop, monitor, boot, history, fault>>

-----------------------------------------------------------------------------
(* What a watcher does *)

\* Mutation: the signal stays in the slice of its symbol.
DroppedFromRows(w, S) ==
    /\ held' = held
    /\ deactivating' = deactivating \cup {[watcher |-> w, signal |-> s] : s \in S}

\* removeSignalByIDLocked for each signal of S.
Dropped(w, S) ==
    /\ held' = [held EXCEPT ![w] = @ \ S]
    /\ deactivating' = deactivating \cup {[watcher |-> w, signal |-> s] : s \in S}

\* The order of s is gone or eaten: s leaves the watcher, its row follows, and
\* an auto-close signal has its position closed.
Trigger(w, s) ==
    /\ s \in held[w]
    /\ Dropped(w, {s})
    /\ fired' = [fired EXCEPT ![s] = @ + 1]
    /\ autoClosing' = autoClosing \cup ({s} \cap AutoClose)
    /\ UNCHANGED <<row, user, slots, request, creating, adding, finding, removing, erasing,
                   closing, stop, monitor, boot, replaced, cut, restored, fault>>

\* The goroutine that writes the row of a signal that left watcher d.watcher.
Deactivate(d) ==
    /\ d \in deactivating
    /\ deactivating' = deactivating \ {d}
    /\ MayFail(d.signal, Written(d.signal, FALSE))
    /\ UNCHANGED <<memory, request, creating, adding, finding, removing, erasing, closing,
                   autoClosing, stop, monitor, boot, history>>

\* RemoveAllSignalsForSymbol of a watcher that was replaced or cleaned up.
CloseWatcher(c) ==
    /\ c \in closing
    /\ closing' = closing \ {c}
    /\ Dropped(c.watcher, held[c.watcher])
    /\ UNCHANGED <<row, user, slots, request, creating, adding, finding, removing, erasing,
                   autoClosing, stop, monitor, boot, history, fault>>

-----------------------------------------------------------------------------
(* DeleteUserSignal *)

\* DELETE /signals/{id}: the row exists.
DeleteSignal(s) ==
    /\ ~Booting /\ row[s] \in {"active", "inactive"}
    /\ Another /\ UNCHANGED failed
    /\ finding' = finding \cup {[signal |-> s, user |-> None]}
    /\ UNCHANGED <<row, memory, request, creating, adding, removing, erasing, deactivating,
                   closing, autoClosing, stop, monitor, boot, history>>

\* Under m.mu; without a UserWatcher the answer is "user not found".
LookUpUser(f) ==
    /\ f \in finding /\ f.user = None
    /\ finding' = (finding \ {f}) \cup
                  IF user = None THEN {} ELSE {[f EXCEPT !.user = user]}
    /\ UNCHANGED <<row, memory, request, creating, adding, removing, erasing, deactivating,
                   closing, autoClosing, stop, monitor, boot, history, fault>>

\* Under uw.mu; a signal that no watcher holds is "signal not found".
LookUpSignal(f) ==
    LET found == {f.signal} \cap InMemory(f.user) IN
    /\ f \in finding /\ f.user # None
    /\ finding' = finding \ {f}
    /\ removing' = removing \cup found
    /\ erasing' = erasing \cup found
    /\ UNCHANGED <<row, memory, request, creating, adding, deactivating, closing, autoClosing,
                   stop, monitor, boot, history, fault>>

\* Mutation: the watcher is used without the check for nil.
RemoveUnchecked(s) ==
    LET w == IF user = None THEN None ELSE slots[user][Slot(s)] IN
    /\ s \in removing
    /\ removing' = removing \ {s}
    /\ IF w # None /\ s \notin held[w] THEN UNCHANGED <<held, deactivating>> ELSE Dropped(w, {s})
    /\ UNCHANGED <<row, user, slots, request, creating, adding, finding, erasing, closing,
                   autoClosing, stop, monitor, boot, history, fault>>

\* The watcher that now has the slot of s removes s, if it holds it.
Remove(s) ==
    LET w == IF user = None THEN None ELSE slots[user][Slot(s)] IN
    /\ s \in removing
    /\ removing' = removing \ {s}
    /\ IF w = None \/ s \notin held[w]
       THEN UNCHANGED <<held, deactivating>>
       ELSE Dropped(w, {s})
    /\ UNCHANGED <<row, user, slots, request, creating, adding, finding, erasing, closing,
                   autoClosing, stop, monitor, boot, history, fault>>

\* A graceful stop begins.
StopBegins(pc) ==
    \E g \in Stops : /\ stop[g].pc = "idle"
                     /\ stop' = [stop EXCEPT ![g] = [pc |-> pc, user |-> None, known |-> {}]]

\* The row is deleted, after which the proxy may be stopped.
Erase(s) ==
    /\ s \in erasing
    /\ erasing' = erasing \ {s}
    /\ \/ /\ row' = [row EXCEPT ![s] = "deleted"]
          /\ StopBegins("rows")
          /\ UNCHANGED fault
       \/ /\ Another /\ failed' = failed \cup {s}
          /\ UNCHANGED <<row, stop>>
    /\ UNCHANGED <<memory, request, creating, adding, finding, removing, deactivating, closing,
                   autoClosing, monitor, boot, history>>

\* handleAutoClose ends; if it closed the position it launches a graceful stop.
AutoClosed(s) ==
    /\ s \in autoClosing
    /\ autoClosing' = autoClosing \ {s}
    /\ StopBegins("rows") \/ UNCHANGED stop
    /\ UNCHANGED <<row, memory, request, creating, adding, finding, removing, erasing,
                   deactivating, closing, monitor, boot, history, fault>>

-----------------------------------------------------------------------------
(* GracefulStopProxyForUser and CleanupUserResources *)

\* DeleteKeys launches a cleanup at once; GracefulShutdown runs one, and exits.
DeleteKeys ==
    /\ ~Booting
    /\ Another /\ UNCHANGED failed
    /\ StopBegins("cleanup")
    /\ UNCHANGED <<row, memory, request, creating, adding, finding, removing, erasing,
                   deactivating, closing, autoClosing, monitor, boot, history>>

\* The call of g goes on to pc, or returns if the condition to stop holds.
Proceed(g, done, pc) ==
    /\ stop' = [stop EXCEPT ![g] = IF done THEN NoStop ELSE [@ EXCEPT !.pc = pc]]
    /\ UNCHANGED <<row, memory, request, calls, monitor, boot, history>>

\* The first check of the rows, and the one two seconds later.  A query that
\* fails ends the stop too.
StopRows(g) ==
    /\ stop[g].pc = "rows"
    /\ \E ok \in BOOLEAN :
          stop' = [stop EXCEPT ![g] = IF ok /\ Active = {}
                      THEN [pc |-> "again", user |-> None, known |-> InMemory(user)] ELSE NoStop]
    /\ UNCHANGED <<row, memory, request, calls, monitor, boot, history, fault>>
StopAgain(g) ==
    /\ stop[g].pc = "again" /\ UNCHANGED fault
    /\ \E ok \in BOOLEAN : Proceed(g, ~(ok /\ Active = {}), "memory")

\* The signals in memory, before CleanupUserResources.
StopMemory(g) ==
    /\ stop[g].pc = "memory" /\ Proceed(g, user # None /\ HasSignals(user), "cleanup") /\ UNCHANGED fault

\* CleanupUserResources looks at the rows; when that fails it goes on.
CleanupRows(g) ==
    /\ stop[g].pc = "cleanup"
    /\ \/ Proceed(g, Active # {}, "detach") /\ UNCHANGED fault
       \/ /\ Another /\ UNCHANGED failed
          /\ Proceed(g, FALSE, "detach")

\* Under m.mu and uw.mu: unless a watcher holds a signal, the map entry goes.
CleanupDetach(g) ==
    /\ stop[g].pc = "detach"
    /\ IF user = None \/ HasSignals(user)
       THEN stop' = [stop EXCEPT ![g] = NoStop] /\ UNCHANGED user
       ELSE /\ user' = None
            /\ stop' = [stop EXCEPT ![g].pc = "sweep", ![g].user = user]
    /\ UNCHANGED <<row, slots, held, request, calls, monitor, boot, history, fault>>

\* Without a lock: every watcher of the two maps is handed to a cleanup
\* goroutine.  (A createWatcherForUser that writes one of the maps meanwhile is
\* a data race; the runtime may abort the process, which is a Restart.)
CleanupSweep(g) ==
    /\ stop[g].pc = "sweep"
    /\ closing' = closing \cup {[watcher |-> w, by |-> "cleanup", known |-> stop[g].known] :
                                  w \in WatchersOf(stop[g].user)}
    /\ stop' = [stop EXCEPT ![g] = NoStop]
    /\ UNCHANGED <<row, memory, request, creating, adding, finding, removing, erasing,
                   deactivating, autoClosing, monitor, boot, history, fault>>

-----------------------------------------------------------------------------
(* StartConnectionMonitor *)

\* GetUserSignals: what is in memory with an active row, or all that is in
\* memory when the rows cannot be read.
Filtered == InMemory(user) \cap Active
Unfiltered == InMemory(user)

\* A ping fails: handleNetworkDown collects the auto-close signals.
NetworkDown ==
    /\ network = "up" /\ Another
    /\ network' = "down"
    /\ \E S \in {Filtered, Unfiltered} : cutting' = S \cap AutoClose
    /\ UNCHANGED <<row, memory, request, calls, stop, reviver, boot, history, failed>>

\* It sets is_active = false and leaves the watchers alone.
Cut(s) ==
    /\ s \in cutting
    /\ cutting' = cutting \ {s}
    /\ MayFail(s, Written(s, FALSE))
    /\ cut' = cut \cup {s}
    /\ UNCHANGED <<memory, request, calls, stop, network, reviver, boot,
                   replaced, restored, fired>>

\* A ping succeeds, once handleNetworkDown has returned to the monitor.  (Bound:
\* one restoreAutoCloseFeatures goroutine at a time.)
NetworkUp ==
    /\ network = "down" /\ cutting = {} /\ reviver.pc = "idle"
    /\ network' = "up"
    /\ reviver' = [NoReviver EXCEPT !.pc = "list"]
    /\ UNCHANGED <<row, memory, request, calls, stop, cutting, boot, history, fault>>

\* restoreAutoCloseFeatures collects the auto-close signals.
ReviveList ==
    /\ reviver.pc = "list"
    /\ \E S \in {Filtered, Unfiltered} :
          /\ \/ S = Filtered /\ UNCHANGED fault
             \/ S = Unfiltered /\ Another /\ UNCHANGED failed
          /\ reviver' = IF S \cap AutoClose = {} THEN NoReviver
                        ELSE [pc |-> "read", todo |-> S \cap AutoClose, signal |-> None]
    /\ UNCHANGED <<row, memory, request, calls, stop, network, cutting, boot, history>>

\* What is left to do once s is done with.
Without(s) ==
    IF reviver.todo = {s} THEN NoReviver
    ELSE [pc |-> "read", todo |-> reviver.todo \ {s}, signal |-> None]

\* GetByID of s: a row that is active or gone is left alone, and so is one
\* whose position is zero or unknown.
ReviveSkip(s) ==
    /\ reviver.pc = "read" /\ s \in reviver.todo
    /\ reviver' = Without(s)
    /\ UNCHANGED <<row, memory, request, calls, stop, network, cutting, boot,
                   history, fault>>

\* The row of s is inactive and there is a position to close.
ReviveRead(s) ==
    /\ reviver.pc = "read" /\ s \in reviver.todo /\ row[s] = "inactive"
    /\ reviver' = [reviver EXCEPT !.pc = "write", !.signal = s]
    /\ UNCHANGED <<row, memory, request, calls, stop, network, cutting, boot,
                   history, fault>>

\* The row is set active, and a goroutine makes a watcher for s.
ReviveWrite(s) ==
    /\ reviver.pc = "write" /\ reviver.signal = s
    /\ reviver' = Without(s)
    /\ \/ /\ row' = Written(s, TRUE)
          /\ restored' = restored \cup {s}
          /\ creating' = creating \cup {[signal |-> s, user |-> None, by |-> "revive"]}
          /\ UNCHANGED fault
       \/ /\ Another /\ failed' = failed \cup {s}
          /\ UNCHANGED <<row, restored, creating>>
    /\ UNCHANGED <<memory, request, adding, finding, removing, erasing, deactivating, closing,
                   autoClosing, stop, network, cutting, boot, replaced, cut, fired>>

-----------------------------------------------------------------------------
(* A crash or a shutdown, and LoadActiveSignals *)

\* Everything but the rows is lost; the new process reads the active rows and
\* makes a UserWatcher for a user who has some.  It goes on when that fails.
Restart ==
    /\ Another
    /\ \/ boot' = Active /\ failed' = failed \cup erasing
       \/ boot' = {} /\ failed' = failed \cup erasing \cup Active
    /\ user' = IF boot' = {} THEN None ELSE CHOOSE u \in Users : TRUE
    /\ slots' = [u \in Users |-> NoSlots]
    /\ held' = [w \in Watchers |-> {}]
    /\ request' = [g \in Requests |-> NoRequest]
    /\ creating' = {} /\ adding' = {} /\ finding' = {} /\ removing' = {} /\ erasing' = {}
    /\ deactivating' = {} /\ closing' = {} /\ autoClosing' = {}
    /\ stop' = [g \in Stops |-> NoStop]
    /\ network' = "up" /\ cutting' = {} /\ reviver' = NoReviver
    /\ fired' = [s \in Signals |-> 0]
    /\ UNCHANGED <<row, replaced, cut, restored>>

\* The next row, once the watcher of the previous one has its signal.
Load(s) ==
    /\ s \in boot /\ \A c \in creating \cup adding : c.by # "boot"
    /\ boot' = boot \ {s}
    /\ creating' = creating \cup {[signal |-> s, user |-> None, by |-> "boot"]}
    /\ UNCHANGED <<row, memory, request, adding, finding, removing, erasing, deactivating,
                   closing, autoClosing, stop, monitor, history, fault>>

\* An auto-close signal whose position is zero is deactivated instead.
LoadZero(s) ==
    /\ s \in boot \cap AutoClose /\ \A c \in creating \cup adding : c.by # "boot"
    /\ boot' = boot \ {s}
    /\ MayFail(s, Written(s, FALSE))
    /\ UNCHANGED <<memory, request, calls, stop, monitor, history>>

-----------------------------------------------------------------------------
RequestStep(g) ==
    (\E t \in Signals : Replace(g, t)) \/ Reject(g) \/ Save(g) \/ Undo(g)
CreatorStep == \E c \in creating : FindUser(c) \/ Create(c) \/ CreateFails(c)
AddStep(s) == \E a \in adding : a.signal = s /\ AddSignal(a)
RowStep(s) == \E d \in deactivating : d.signal = s /\ Deactivate(d)
CloseStep(w) == \E c \in closing : c.watcher = w /\ CloseWatcher(c)
DeleteStep == \E f \in finding : LookUpUser(f) \/ LookUpSignal(f)
StopStep(g) ==
    \/ StopRows(g) \/ StopAgain(g) \/ StopMemory(g)
    \/ CleanupRows(g) \/ CleanupDetach(g) \/ CleanupSweep(g)
ReviveStep ==
    ReviveList \/ \E s \in Signals : ReviveSkip(s) \/ ReviveRead(s) \/ ReviveWrite(s)
LoadStep == \E s \in Signals : Load(s) \/ LoadZero(s)

Next ==
    \/ \E g \in Requests : RequestStep(g) \/ \E s \in Signals : CreateSignal(g, s)
    \/ CreatorStep \/ DeleteStep \/ ReviveStep \/ LoadStep
    \/ \E s \in Signals : AddStep(s) \/ RowStep(s) \/ Remove(s) \/ Erase(s) \/ AutoClosed(s)
    \/ \E w \in Watchers : CloseStep(w) \/ \E s \in Signals : Trigger(w, s)
    \/ \E s \in Signals : DeleteSignal(s) \/ Cut(s)
    \/ \E g \in Stops : StopStep(g)
    \/ DeleteKeys \/ NetworkDown \/ NetworkUp \/ Restart

Spec == Init /\ [][Next]_vars

\* Goroutines run and their calls return; a request is answered.  Users, prices,
\* the network and crashes owe nothing.  Erase and AutoClosed may wait for a free
\* member of Stops, which is a bound of the model: hence the strong fairness.
Fairness ==
    /\ \A g \in Requests : WF_vars(RequestStep(g))
    /\ WF_vars(CreatorStep) /\ WF_vars(DeleteStep) /\ WF_vars(LoadStep) /\ WF_vars(ReviveStep)
    /\ \A s \in Signals : WF_vars(AddStep(s)) /\ WF_vars(RowStep(s)) /\ WF_vars(Cut(s))
    /\ \A s \in Signals : WF_vars(Remove(s)) /\ SF_vars(Erase(s)) /\ SF_vars(AutoClosed(s))
    /\ \A w \in Watchers : WF_vars(CloseStep(w))
    /\ \A g \in Stops : WF_vars(StopStep(g))
FairSpec == Spec /\ Fairness

-----------------------------------------------------------------------------
TypeOK ==
    /\ row \in [Signals -> {"none", "active", "inactive", "deleted"}]
    /\ user \in Users \cup {None}
    /\ slots \in [Users -> [Slots -> Watchers \cup {None}]]
    /\ held \in [Watchers -> SUBSET Signals]
    /\ request \in [Requests -> [pc : {"idle", "replace", "create", "undo"},
                                 signal : Signals \cup {None}, todo : SUBSET Signals]]
    /\ creating \subseteq [signal : Signals, user : Users \cup {None},
                           by : {"request", "boot", "revive"}]
    /\ adding \subseteq [signal : Signals, watcher : Watchers, by : {"request", "boot", "revive"}]
    /\ finding \subseteq [signal : Signals, user : Users \cup {None}]
    /\ removing \subseteq Signals /\ erasing \subseteq Signals /\ autoClosing \subseteq Signals
    /\ deactivating \subseteq [watcher : Watchers, signal : Signals]
    /\ closing \subseteq [watcher : Watchers, by : {"replace", "cleanup"}, known : SUBSET Signals]
    /\ stop \in [Stops -> [pc : {"sweep"}, user : Users, known : SUBSET Signals] \cup
                          [pc : {"idle", "rows", "again", "memory", "cleanup", "detach"},
                           user : {None}, known : SUBSET Signals]]
    /\ network \in {"up", "down"} /\ cutting \subseteq AutoClose
    /\ reviver \in [pc : {"idle", "list", "read", "write"}, todo : SUBSET AutoClose,
                    signal : Signals \cup {None}]
    /\ boot \subseteq Signals
    /\ events \in 0..MaxEvents
    /\ replaced \in [Signals -> SUBSET Signals] /\ fired \in [Signals -> Nat]
    /\ cut \subseteq Signals /\ restored \subseteq Signals /\ failed \subseteq Signals

\* The signals a request replaced stay inactive, whatever other requests,
\* deletions, cleanups and restarts do.  Exempt are a failed call and a
\* reactivation by restoreAutoCloseFeatures.
ReplacedStaysInactive ==
    \A s \in Signals : \A t \in replaced[s] :
        row[t] # "active" \/ t \in restored \cup failed

\* What a signal that is on its way to a watcher, in one, or about to lose its
\* row has in common: it was saved.
Saved ==
    /\ \A c \in creating \cup adding : row[c.signal] # "none"
    /\ \A w \in Watchers : \A s \in held[w] : row[s] # "none"
    /\ \A s \in boot \cup erasing : row[s] # "none"
    /\ reviver.pc = "write" => reviver.signal \in Signals /\ row[reviver.signal] # "none"

\* A request owns its signal: no other request has it, it is not saved before
\* the replacing is over, and what it replaces was saved.
Owned ==
    /\ \A g \in Requests :
          /\ request[g].pc # "idle" => request[g].signal # None
          /\ request[g].pc = "replace" =>
                /\ row[request[g].signal] = "none"
                /\ \A t \in request[g].todo : row[t] # "none"
          /\ \A h \in Requests :
                request[g].signal = request[h].signal => g = h \/ request[g].signal = None
    /\ \A s \in Signals : \A t \in replaced[s] : row[t] # "none"

\* The inductive strengthening of ReplacedStaysInactive.
IInv == TypeOK /\ Saved /\ Owned /\ ReplacedStaysInactive

\* A cleanup removes no signal that a watcher held when the stop began: one that
\* is monitored with an inactive row, which the row checks miss, is safe too.
CleanupKeepsKnown ==
    \A c \in closing : held[c.watcher] \cap c.known \subseteq restored

\* A signal fires at most once while the process runs, unless it was restored:
\* no path puts it in two watchers, or back in one.
FiresOnce == \A s \in Signals : fired[s] <= 1 \/ s \in restored

\* What SignalLife sees: the rows, the signals in watchers, those on their way
\* to one, and what restoreAutoCloseFeatures activated.
Recorded == [s \in Signals |-> IF row[s] \in {"inactive", "deleted"} THEN "ended" ELSE row[s]]
Awaited == boot \cup {c.signal : c \in creating \cup adding}

Life == INSTANCE SignalLife WITH record <- Recorded, watched <- Held, mayWatch <- Awaited,
                                 Revivable <- AutoClose, revived <- restored

\* The manager keeps the promises of SignalLife: unless restoreAutoCloseFeatures
\* takes an auto-close signal up again, ended rows stay ended and no signal is
\* watched twice in a run; a start takes up active rows and no others.
KeepsSignalLife == Life!Spec

\* A row that is active is not forgotten: a watcher comes to hold its signal, or
\* the row is deactivated, deleted, or a call about it failed.
SavedIsWatched ==
    \A s \in Signals : (row[s] = "active") ~> (row[s] # "active" \/ s \in Held \cup failed)

\* A signal that is in a watcher of the user while DeleteUserSignal removes it
\* ends without a row and in no watcher.  The two removals run on their own after
\* the answer, and another request may replace the watcher before they look it
\* up: the signal is then left to the cleanup of the old watcher.  Exempt are a
\* failed Delete, a process that dies first, and a reactivation by
\* restoreAutoCloseFeatures; a signal whose AddSignal comes after its watcher was
\* cleaned up is in no watcher of the user.
DeletedIsGone ==
    \A s \in Signals : (s \in erasing \cap InMemory(user)) ~>
        (s \in failed \cup restored \/ (row[s] = "deleted" /\ s \notin Held))

\* handleNetworkDown, its comment: "we do not remove the signals, only deactivate
\* them to restore them later".
NetworkRestores ==
    \A s \in Signals :
        (network = "up" /\ s \in cut /\ row[s] = "inactive" /\ s \in Held)
            ~> (row[s] # "inactive" \/ s \notin Held \/ network = "down")
=============================================================================
