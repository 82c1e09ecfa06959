--------------------------- MODULE BybitAutoClose ---------------------------
(***************************************************************************)
(* Auto-close on Bybit: one user and one symbol.                           *)
(*                                                                         *)
(* The handlers of internal/bybit/transport/http/handler.go save a signal, *)
(* WebSocketManager (internal/bybit/service/websocket_manager.go) starts a *)
(* PositionWatcher (position_watcher.go) when the signal closes positions, *)
(* MarketDepthWatcher (websocket_watcher.go) fires the signal and closes   *)
(* the position with a market order (order_manager.go).  The exchange      *)
(* holds the real position; the code sees it through the private stream,   *)
(* which lags, and through REST.                                           *)
(*                                                                         *)
(* One MarketDepthWatcher is followed; the private stream, which the       *)
(* stream of the order book resembles, is taken apart, the order book is   *)
(* not (see OkxWatcher): a signal in memory may fire at any time.          *)
(*                                                                         *)
(* Two locks matter.  The mutex of WebSocketManager is held by             *)
(* GetOrCreateWatcherForUser, while it reads the keys as well, and         *)
(* CleanupUserResources; the mutex of the watcher by all that looks at its *)
(* signals, up to the end of checkAndStopPositionWatcher.  The fields      *)
(* positionWatcher are guarded by neither: what holds no lock against the  *)
(* other is a step of its own.                                             *)
(*                                                                         *)
(* A nil pointer that is used ends the process; nothing is promised of     *)
(* what would happen then, so there is no step for it.                     *)
(*                                                                         *)
(* excused, outdated, lag and adrift are history variables.                *)
(***************************************************************************)
EXTENDS Integers, FiniteSets, Sequences

CONSTANTS
  Signals,
  AutoClose, \* the signals with auto-close
  Positions, \* signed sizes of the position: negative is short, 0 flat
  Initially, \* the positions at the start
  MaxEvents, \* of deletions, clean-ups and trades of the user together
  Absent     \* no entry in a cache, a nil *Position

None == "none" \* a nil pointer to a position watcher

\* With a position of some size there is what is left of it when a part of the
\* size of another position is closed.
ASSUME BybitAssumption ==
  /\ AutoClose \subseteq Signals /\ IsFiniteSet(AutoClose) /\ None \notin AutoClose
  /\ 0 \in Positions /\ Positions \subseteq Int /\ Absent \notin Positions
  /\ \A p, q \in Positions : (0 < q /\ q < p) \/ (p < q /\ q < 0) => p - q \in Positions
  /\ Initially \subseteq Positions
  /\ MaxEvents \in Nat

VARIABLES
  sig,      \* how far the signal is
  row,      \* the rows of bybit_signals that are active
  del,      \* DeleteUserSignal of the signal
  calls,    \* how far calls of GracefulStopProxyForUser have come
  lists,    \* of those calls: the active rows they have read
  known,    \* the user's entry of userWatchers: "no", "yes", "dropped"
  client,   \* its httpClient is not nil
  ensuring, \* ensurePositionWatcher reads the keys for this signal
  pwM,      \* positionWatcher of that entry
  pwW,      \* positionWatcher of the MarketDepthWatcher
  check,    \* checkAndStopPositionWatcher is about to stop pwW, to set it to nil
  pw,       \* the position watchers, each named after the signal it was made for
  cache,    \* of pwW: positions, for the symbol
  feed,     \* of pwW: what the private stream has for it
  load,     \* of pwW: loadInitialPositions
  lag,      \* history: the stream overtook load, and load then wrote the cache
  op,       \* the auto-close operation of the signal
  cap,      \* the position the operation goes by
  pending,  \* pendingAutoCloseOps
  excused,  \* history: operations that saw a flat position or no answer of REST
  outdated, \* history: operations whose cap was behind, or is by now
  pos,      \* the real position
  events,   \* deletions, clean-ups and trades so far
  adrift    \* history: position watchers lost from sight while they were live

signals == <<sig, row, del>>
graces  == <<calls, lists>>
entry   == <<known, client, ensuring, pwM>>
fields  == <<pwW, check, adrift>>
data    == <<cache, feed, load, lag>>
ops     == <<op, cap, pending, excused, outdated>>
outside == <<pos, events>>
vars == <<signals, graces, entry, fields, pw, data, ops, outside>>

Seen == Positions \union {Absent}

\* A position watcher says that it runs from the end of Start ("up") to the end
\* of its reader, and for good if the reader ends before Start does ("zombie").
\* One that is off does not run and will not say so any more.
Stages      == {"off", "dial", "reading", "ended", "up", "zombie"}
Starting(p) == pw[p].at \in {"dial", "reading", "ended"}
Running(p)  == p # None /\ pw[p].at \in {"up", "zombie"}
Reads(p)    == p # None /\ pw[p].at \in {"reading", "up"} /\ ~pw[p].canceled
Live(p)     == p # None /\ pw[p].at # "off"

Off   == [at |-> "off", canceled |-> FALSE]
NewPw == [at |-> "dial", canceled |-> FALSE]

NoLoad == [at |-> "no", answer |-> Absent]

Init ==
  \* LoadActiveSignals finds some rows; it takes them the way a creation goes on.
  /\ sig \in [Signals -> {"new", "saved"}]
  /\ row = {s \in Signals : sig[s] = "saved"}
  /\ del = [s \in Signals |-> "idle"]
  /\ calls = {} /\ lists = {}
  /\ known = "no" /\ client = FALSE /\ ensuring = None
  /\ pwM = None /\ pwW = None /\ check = "idle"
  /\ pw = [p \in AutoClose |-> Off]
  /\ cache = Absent /\ feed = <<>> /\ load = NoLoad /\ lag = "none"
  /\ op = [s \in AutoClose |-> "idle"]
  /\ cap = [s \in AutoClose |-> Absent]
  /\ pending = 0
  /\ excused = {} /\ outdated = {}
  /\ pos \in Initially
  /\ events = 0
  /\ adrift = {}

Watched  == {s \in Signals : sig[s] = "watched"}
Underway == {s \in AutoClose : op[s] \notin {"idle", "done"}}

\* The user does something that does not happen without end.
Event == events < MaxEvents /\ events' = events + 1

----------------------------------------------------------------------------
(* PositionWatcher.  The positions of pwW are kept, nobody asks the others. *)

\* pwW has no data, or none that is looked at again.
Forgotten == cache' = Absent /\ feed' = <<>> /\ load' = NoLoad /\ lag' = "none"

\* Stop: the connection is closed and the context cancelled, which Start does
\* not look at.
Stopped(p) == [pw EXCEPT ![p] = IF Starting(p) THEN [@ EXCEPT !.canceled = TRUE] ELSE Off]

\* What it has read stays if Start is still to say that it runs.
Stop(p) ==
  /\ pw' = Stopped(p)
  /\ IF p = pwW /\ Running(p) THEN Forgotten ELSE UNCHANGED data

\* connect: from here on the exchange reports every change.  It goes on when a
\* Stop came before there was a connection to close.
Connect(p, ok) ==
  /\ pw[p].at = "dial"
  /\ pw' = [pw EXCEPT ![p] = IF ok THEN [@ EXCEPT !.at = "reading"] ELSE Off]
  /\ UNCHANGED <<signals, graces, entry, fields, data, ops, outside>>

\* Start says that it runs after the reader was started, even if the reader
\* has ended meanwhile, and has the positions loaded if there is a client.
SaysRunning(p) ==
  /\ pw[p].at \in {"reading", "ended"}
  /\ pw' = [pw EXCEPT ![p].at = IF @ = "reading" THEN "up" ELSE "zombie"]
  /\ load' = IF p = pwW /\ client THEN [NoLoad EXCEPT !.at = "ask"] ELSE load
  /\ UNCHANGED <<signals, graces, entry, fields, cache, feed, lag, ops, outside>>

\* readMessages ends: the connection broke or the context is done.  It is not
\* set up again.
ReaderEnds(p) ==
  /\ pw[p].at = "up"
  /\ pw' = [pw EXCEPT ![p] = Off]
  /\ IF p = pwW THEN Forgotten ELSE UNCHANGED data
  /\ UNCHANGED <<signals, graces, entry, fields, ops, outside>>

\* ... before Start has ended
ReaderEndsEarly(p) ==
  /\ pw[p].at = "reading"
  /\ pw' = [pw EXCEPT ![p].at = "ended"]
  /\ feed' = IF p = pwW THEN <<>> ELSE feed
  /\ UNCHANGED <<signals, graces, entry, fields, cache, load, lag, ops, outside>>

\* Mutant: a flat position is skipped, as loadInitialPositions does it.
SkipFlat ==
  /\ Reads(pwW)
  /\ feed # <<>>
  /\ cache' = IF Head(feed) = 0 THEN cache ELSE Head(feed)
  /\ feed' = Tail(feed)
  /\ lag' = IF load.at = "answered" THEN "race" ELSE "none"
  /\ UNCHANGED <<signals, graces, entry, fields, pw, load, ops, outside>>

\* processMessage: the latest position goes into the cache, a flat one too.
ProcessMessage ==
  /\ Reads(pwW)
  /\ feed # <<>>
  /\ cache' = Head(feed)
  /\ feed' = Tail(feed)
  /\ lag' = IF load.at = "answered" THEN "race" ELSE "none"
  /\ UNCHANGED <<signals, graces, entry, fields, pw, load, ops, outside>>

\* loadInitialPositions, the request: the exchange answers, or it fails.
LoadAsk(ok) ==
  /\ load.at = "ask"
  /\ load' = IF ok THEN [at |-> "answered", answer |-> pos] ELSE NoLoad
  /\ UNCHANGED <<signals, graces, entry, fields, pw, cache, feed, lag, ops, outside>>

\* loadInitialPositions, the answer: a flat position is skipped; another one
\* goes over whatever the stream said meanwhile.
LoadStore ==
  /\ load.at = "answered"
  /\ load' = NoLoad
  /\ cache' = IF load.answer = 0 THEN cache ELSE load.answer
  /\ lag' = IF load.answer # 0 /\ lag = "race" THEN "stale" ELSE "none"
  /\ UNCHANGED <<signals, graces, entry, fields, pw, feed, ops, outside>>

----------------------------------------------------------------------------
(* MarketDepthWatcher *)

\* The mutex of the watcher is free.
WatcherFree == check = "idle"

AutoCloseLeft(list) == list \cap AutoClose # {}

\* checkAndStopPositionWatcher, with the signals and the operations that are
\* left, up to its decision.  It does not see a position watcher that is still
\* starting.
CheckAndStop(list, n) ==
  LET unneeded == n = 0 /\ ~AutoCloseLeft(list) IN
  /\ check' = IF unneeded /\ Running(pwW) THEN "stop" ELSE "idle"
  /\ adrift' = IF unneeded /\ pwW # None /\ Starting(pwW) THEN adrift \union {pwW} ELSE adrift
  /\ UNCHANGED pwW

\* It stops what the field holds by now ...
CheckStop ==
  /\ check = "stop"
  /\ check' = "clear"
  /\ Stop(pwW)
  /\ UNCHANGED <<signals, graces, entry, pwW, adrift, ops, outside>>

\* ... and sets the field to nil.
CheckClear ==
  /\ check = "clear"
  /\ check' = "idle"
  /\ pwW' = None
  /\ Forgotten
  /\ adrift' = IF Live(pwW) THEN adrift \union {pwW} ELSE adrift
  /\ UNCHANGED <<signals, graces, entry, pw, ops, outside>>

\* GetPosition, asked of a position watcher that says it runs
CachedPosition == IF Running(pwW) THEN cache ELSE Absent

\* The cache cannot be up to date: the reader has ended or been stopped, has
\* messages before it, or what it stored was overwritten by an older answer.
Behind == ~Reads(pwW) \/ feed # <<>> \/ lag = "stale"

\* AddSignal
Add(s) ==
  /\ sig[s] = "asked" /\ WatcherFree
  /\ sig' = [sig EXCEPT ![s] = "watched"]
  /\ UNCHANGED <<row, del, graces, entry, fields, pw, data, ops, outside>>

\* removeSignalByIDLocked.  Nothing here tells whether the row of a signal that
\* is not in memory is active: the Update in the background may come at once.
Take(s) ==
  /\ sig' = [sig EXCEPT ![s] = "gone"]
  /\ row' = row \ {s}

\* processDepthUpdate finds that the order of the signal is cancelled or eaten.
\* The position is captured before the signal is removed.
Fire(s) ==
  /\ sig[s] = "watched" /\ WatcherFree
  /\ Take(s)
  /\ IF s \in AutoClose
     THEN /\ op' = [op EXCEPT ![s] = "begun"]
          /\ cap' = [cap EXCEPT ![s] = CachedPosition]
          /\ pending' = pending + 1
          /\ excused' = IF pos = 0 THEN excused \union {s} ELSE excused
          /\ outdated' = IF Behind THEN outdated \union {s} ELSE outdated
     ELSE UNCHANGED ops
  /\ CheckAndStop(Watched \ {s}, pending')
  /\ UNCHANGED <<del, graces, entry, pw, data, outside>>

----------------------------------------------------------------------------
(* handleAutoClose *)

\* Mutant: an entry of the cache is believed, even one of size 0.
Believed(p) == IF p = Absent THEN "ask" ELSE IF p = 0 THEN "flat" ELSE "order"

\* No entry, or one of size 0, is not believed: REST is asked.
NextFor(p) == IF p \in {Absent, 0} THEN "ask" ELSE "order"

\* Subscribed; the captured position, or what the cache says by now.  pwW is not
\* set to nil while an operation is pending.
Find(s) ==
  LET found == IF cap[s] = Absent THEN CachedPosition ELSE cap[s] IN
  /\ op[s] = "begun"
  /\ cap' = [cap EXCEPT ![s] = found]
  /\ op' = [op EXCEPT ![s] = NextFor(found)]
  /\ outdated' = CASE cap[s] # Absent -> outdated
                   [] Behind          -> outdated \union {s}
                   [] OTHER           -> outdated \ {s}
  /\ UNCHANGED <<signals, graces, entry, fields, pw, data, pending, excused, outside>>

\* Mutant: the counter is decremented at the end of handleAutoClose only, not
\* on its early returns.
RefusedUncounted(s) ==
  /\ op[s] = "begun"
  /\ op' = [op EXCEPT ![s] = "done"]
  /\ UNCHANGED <<signals, graces, entry, fields, pw, data, cap,
                 pending, excused, outdated, outside>>

\* IsUserSubscribed fails or says no.
Refused(s) ==
  /\ op[s] = "begun"
  /\ op' = [op EXCEPT ![s] = "over"]
  /\ UNCHANGED <<signals, graces, entry, fields, pw, data, cap,
                 pending, excused, outdated, outside>>

\* GetPositionRisk, when the exchange answers
AskAnswered(s) ==
  /\ op[s] = "ask" /\ client
  /\ cap' = [cap EXCEPT ![s] = pos]
  /\ op' = [op EXCEPT ![s] = IF pos = 0 THEN "flat" ELSE "order"]
  /\ outdated' = outdated \ {s}
  /\ UNCHANGED <<signals, graces, entry, fields, pw, data, pending, excused, outside>>

\* GetPositionRisk fails, or there is no client to ask: "No position to close"
AskFails(s) ==
  /\ op[s] = "ask"
  /\ op' = [op EXCEPT ![s] = "flat"]
  /\ excused' = excused \union {s}
  /\ UNCHANGED <<signals, graces, entry, fields, pw, data, cap, pending, outdated, outside>>

Smaller(x, y) == IF x < y THEN x ELSE y

\* ClosePositionWithSize: a market order of that size against the side of the
\* position that was seen.  With reduceOnly the exchange rejects it when it
\* would open a position, and fills it up to the size of the real one.
AfterOrder(size) ==
  CASE pos > 0 /\ size > 0 -> pos - Smaller(pos, size)
    [] pos < 0 /\ size < 0 -> pos + Smaller(-pos, -size)
    [] OTHER -> pos

\* The position is another one: the private stream is told, operations that go
\* by the one before are behind.
Moved(p) ==
  /\ pos' = p
  /\ feed' = IF Reads(pwW) THEN Append(feed, p) ELSE feed
  /\ excused' = IF p = 0 THEN excused \union Underway ELSE excused
  /\ outdated' = outdated \union {s \in AutoClose : cap[s] # Absent}

\* A success has GracefulStopProxyForUser follow.
OrderFilled(s) ==
  /\ op[s] = "order" /\ client
  /\ AfterOrder(cap[s]) # pos
  /\ Moved(AfterOrder(cap[s]))
  /\ op' = [op EXCEPT ![s] = "over"]
  /\ calls' = calls \union {"called"}
  /\ UNCHANGED <<signals, lists, entry, fields, pw, cache, load, lag, cap, pending, events>>

\* The request fails, or the exchange rejects the order.  Without a client the
\* process ends here: the request is to be signed with its keys.
OrderFails(s) ==
  /\ op[s] = "order" /\ client
  /\ op' = [op EXCEPT ![s] = "over"]
  /\ UNCHANGED <<signals, graces, entry, fields, pw, data, cap,
                 pending, excused, outdated, outside>>

OpCounted(s) ==
  /\ op[s] \in {"flat", "over"} /\ WatcherFree
  /\ op' = [op EXCEPT ![s] = "done"]
  /\ cap' = [cap EXCEPT ![s] = Absent]
  /\ excused' = excused \ {s}
  /\ outdated' = outdated \ {s}
  /\ pending' = pending - 1

\* Mutant: the position watcher is left to the next removal.
OpEndsQuietly(s) ==
  /\ OpCounted(s)
  /\ UNCHANGED <<signals, graces, entry, fields, pw, data, outside>>

\* The deferred function of the goroutine
OpEnds(s) ==
  /\ OpCounted(s)
  /\ CheckAndStop(Watched, pending - 1)
  /\ UNCHANGED <<signals, graces, entry, pw, data, outside>>

----------------------------------------------------------------------------
(* The handlers and WebSocketManager *)

\* The mutex of WebSocketManager is free.
ManagerFree == ensuring = None

\* CreateSignal, after subscription, keys and proxy: the active signals of the
\* symbol are deactivated (an error is only logged), and DeleteUserSignal is
\* called for each.  The signal is saved, or the request is refused and may be
\* repeated.  An auto-close signal needs a position, which may be closed again by
\* the time it is saved.  OkxManager takes the steps apart.
Create(s, ended, saved) ==
  /\ sig[s] = "new"
  /\ sig' = [sig EXCEPT ![s] = IF saved THEN "saved" ELSE "new"]
  /\ row' = (row \ ended) \union IF saved THEN {s} ELSE {}
  /\ UNCHANGED <<del, graces, entry, fields, pw, data, ops, outside>>

\* A position watcher for the signal is started and pointed to.
NewWatcher(s) ==
  /\ pw' = [pw EXCEPT ![s] = NewPw]
  /\ pwM' = s /\ pwW' = s
  /\ Forgotten
  /\ adrift' = IF Live(pwW) THEN adrift \union {pwW} ELSE adrift

\* GetOrCreateWatcherForUser makes an entry, with a client if the keys are there
\* and a position watcher if the signal needs one besides.
CreateEntry(s, hasKeys) ==
  /\ sig[s] = "saved" /\ known = "no"
  /\ sig' = [sig EXCEPT ![s] = "asked"]
  /\ known' = "yes" /\ client' = hasKeys
  /\ IF hasKeys /\ s \in AutoClose THEN NewWatcher(s) ELSE UNCHANGED <<pw, pwM, pwW, data, adrift>>
  /\ UNCHANGED <<row, del, graces, ensuring, check, ops, outside>>

\* GetOrCreateWatcherForUser finds the entry; a signal that needs a position
\* watcher has one made (ensurePositionWatcher) if none says that it runs.  After
\* CleanupUserResources it would be another MarketDepthWatcher, which is not
\* followed.
FindEntry(s) ==
  /\ sig[s] = "saved" /\ known = "yes" /\ ManagerFree
  /\ IF s \in AutoClose /\ ~Running(pwM)
     THEN ensuring' = s /\ UNCHANGED sig
     ELSE sig' = [sig EXCEPT ![s] = "asked"] /\ UNCHANGED ensuring
  /\ UNCHANGED <<row, del, graces, known, client, pwM, fields, pw, data, ops, outside>>

\* ensurePositionWatcher has read the keys, with the mutex held.
Ensure(s, hasKeys) ==
  /\ ensuring = s
  /\ ensuring' = None
  /\ sig' = [sig EXCEPT ![s] = "asked"]
  /\ IF hasKeys THEN NewWatcher(s) ELSE UNCHANGED <<pw, pwM, pwW, data, adrift>>
  /\ UNCHANGED <<row, del, graces, known, client, check, ops, outside>>

\* DeleteUserSignal, of the user or of Create, looks for the watcher.  The user
\* may repeat it, one deletion of a signal at a time.
Look(s) ==
  /\ Event /\ sig[s] # "new" /\ del[s] = "idle" /\ ManagerFree
  /\ del' = [del EXCEPT ![s] = IF known = "yes" THEN "memory" ELSE "row"]
  /\ UNCHANGED <<sig, row, graces, entry, fields, pw, data, ops, pos>>

\* Without a watcher the row goes.
DeleteRow(s, ok) ==
  /\ del[s] = "row"
  /\ del' = [del EXCEPT ![s] = "idle"]
  /\ row' = IF ok THEN row \ {s} ELSE row
  /\ UNCHANGED <<sig, graces, entry, fields, pw, data, ops, outside>>

\* With one it is RemoveSignal first ...
DeleteFromMemory(s) ==
  /\ del[s] = "memory" /\ WatcherFree
  /\ del' = [del EXCEPT ![s] = "removed"]
  /\ IF sig[s] = "watched" THEN Take(s) ELSE UNCHANGED <<sig, row>>
  /\ CheckAndStop(Watched \ {s}, pending)
  /\ UNCHANGED <<graces, entry, pw, data, ops, outside>>

\* ... then the row; an error is only logged.
Deactivate(s, ok) ==
  /\ del[s] = "removed"
  /\ del' = [del EXCEPT ![s] = "idle"]
  /\ row' = IF ok THEN row \ {s} ELSE row
  /\ calls' = calls \union {"called"}
  /\ UNCHANGED <<sig, lists, entry, fields, pw, data, ops, outside>>

\* GracefulStopProxyForUser.  The calls are not counted: a deletion starts one
\* and can be repeated, so where a call has been others may wait.
CallComes(from, to) == from \in calls /\ calls' = calls \union {to}

\* GetUserSignals finds the entry of the user ...
GraceLooks ==
  /\ known = "yes" /\ ManagerFree
  /\ CallComes("called", "looked")
  /\ UNCHANGED <<signals, lists, entry, fields, pw, data, ops, outside>>

\* ... reads the active rows, all of them count when they cannot be read ...
GraceLists(readable) ==
  /\ "empty" \notin calls
  /\ CallComes("looked", "listed")
  /\ lists' = lists \union {IF readable THEN row ELSE Signals}
  /\ UNCHANGED <<signals, entry, fields, pw, data, ops, outside>>

\* ... and then finds none of them in memory.
GraceFindsNone ==
  /\ WatcherFree
  /\ \E list \in lists : Watched \cap list = {}
  /\ CallComes("listed", "empty")
  /\ lists' = {}
  /\ UNCHANGED <<signals, entry, fields, pw, data, ops, outside>>

\* The entry is looked for again.
GraceFindsEntry ==
  /\ known = "yes" /\ ManagerFree
  /\ CallComes("empty", "entry")
  /\ UNCHANGED <<signals, lists, entry, fields, pw, data, ops, outside>>

\* From here on no lock is held: its position watcher says that it runs ...
GraceChecks ==
  /\ Running(pwM)
  /\ CallComes("entry", "stop")
  /\ UNCHANGED <<signals, lists, entry, fields, pw, data, ops, outside>>

\* ... is stopped, the one it is by now, whatever operation is under way ...
GraceStops ==
  /\ pwM # None
  /\ CallComes("stop", "clear")
  /\ Stop(pwM)
  /\ UNCHANGED <<signals, lists, entry, fields, ops, outside>>

\* ... and given up, the one it is by now.
GraceClears ==
  /\ "clear" \in calls
  /\ pwM' = None
  /\ UNCHANGED <<signals, graces, known, client, ensuring, fields, pw, data, ops, outside>>

\* DeleteKeys and CleanupUserResources; a position watcher that is dialing gets
\* its connection later.
Cleanup ==
  /\ Event /\ known = "yes" /\ ManagerFree /\ WatcherFree
  /\ known' = "dropped"
  /\ IF pwM = None THEN UNCHANGED <<pw, data>> ELSE Stop(pwM)
  /\ UNCHANGED <<signals, graces, client, ensuring, pwM, fields, ops, pos>>

\* The user trades.
Move(p) ==
  /\ Event /\ p # pos
  /\ Moved(p)
  /\ UNCHANGED <<signals, graces, entry, fields, pw, cache, load, lag, op, cap, pending>>

----------------------------------------------------------------------------
PwStep(p) ==
  \/ \E ok \in BOOLEAN : Connect(p, ok)
  \/ SaysRunning(p) \/ ReaderEnds(p) \/ ReaderEndsEarly(p)

DataStep ==
  \/ ProcessMessage
  \/ \E ok \in BOOLEAN : LoadAsk(ok)
  \/ LoadStore

OpStep(s) ==
  \/ Find(s) \/ Refused(s) \/ AskAnswered(s) \/ AskFails(s)
  \/ OrderFilled(s) \/ OrderFails(s) \/ OpEnds(s)

SignalStep(s) ==
  \/ \E ended \in SUBSET row, saved \in BOOLEAN : Create(s, ended, saved)
  \/ \E hasKeys \in BOOLEAN : CreateEntry(s, hasKeys)
  \/ FindEntry(s) \/ Add(s) \/ Fire(s) \/ Look(s) \/ DeleteFromMemory(s)
  \/ \E ok \in BOOLEAN : DeleteRow(s, ok) \/ Deactivate(s, ok)

GraceStep ==
  \/ GraceLooks
  \/ \E readable \in BOOLEAN : GraceLists(readable)
  \/ GraceFindsNone \/ GraceFindsEntry \/ GraceChecks \/ GraceStops \/ GraceClears

Next ==
  \/ \E p \in AutoClose : PwStep(p)
  \/ DataStep
  \/ CheckStop \/ CheckClear
  \/ \E s \in AutoClose : OpStep(s) \/ \E hasKeys \in BOOLEAN : Ensure(s, hasKeys)
  \/ \E s \in Signals : SignalStep(s)
  \/ GraceStep
  \/ Cleanup
  \/ \E p \in Positions : Move(p)

Spec == Init /\ [][Next]_vars

----------------------------------------------------------------------------
(* Properties *)

\* The variables have their types, and pendingAutoCloseOps (int32, changed by
\* every operation's goroutine) counts the operations that are under way.
TypeOK ==
  /\ sig \in [Signals -> {"new", "saved", "asked", "watched", "gone"}]
  /\ row \subseteq Signals
  /\ del \in [Signals -> {"idle", "row", "memory", "removed"}]
  /\ calls \subseteq {"called", "looked", "listed", "empty", "entry", "stop", "clear"}
  /\ lists \subseteq SUBSET Signals
  /\ known \in {"no", "yes", "dropped"} /\ client \in BOOLEAN
  /\ ensuring \in AutoClose \union {None}
  /\ pwM \in AutoClose \union {None} /\ pwW \in AutoClose \union {None}
  /\ check \in {"idle", "stop", "clear"} /\ (check = "stop" => pwW # None)
  /\ pw \in [AutoClose -> [at : Stages, canceled : BOOLEAN]]
  /\ cache \in Seen /\ feed \in Seq(Positions)
  /\ load \in [at : {"no", "ask", "answered"}, answer : Seen]
  /\ lag \in {"none", "race", "stale"}
  /\ op \in [AutoClose -> {"idle", "begun", "ask", "order", "flat", "over", "done"}]
  /\ cap \in [AutoClose -> Seen]
  /\ pending = Cardinality(Underway)
  /\ excused \subseteq AutoClose /\ outdated \subseteq AutoClose
  /\ pos \in Positions /\ events \in 0..MaxEvents
  /\ adrift \subseteq AutoClose

\* handleAutoClose says "No position to close" only if the position was flat at
\* some moment of the operation, the request for it failed or there is no client
\* to make it with: neither a stale cache nor a stale captured position makes it
\* skip an open one.
SkipsOnlyWhenFlat ==
  \A s \in AutoClose : op[s] = "flat" => s \in excused

\* An auto-close order is for the side and the whole size of the real position,
\* unless the position changed after the code had looked at it, or the entry of
\* the cache was behind when it was taken: the reader had ended or been stopped,
\* a message was still to be read, or the positions loaded by REST had gone over
\* a newer message.
OrderIsExact ==
  \A s \in AutoClose : op[s] = "order" /\ s \notin outdated => cap[s] = pos

Needed ==
  \/ pending > 0
  \/ \E s \in AutoClose : sig[s] \in {"asked", "watched"}

\* A position watcher that no signal and no operation needs does not run on once
\* checkAndStopPositionWatcher is through, unless it was lost from sight: it was
\* still starting when it was to be stopped; another was put in its place while
\* it was starting, came up during the query for the keys or had been given up by
\* GracefulStopProxyForUser; or it was put in place after the Stop of the one
\* before and overwritten with the nil that follows.
UnneededIsStopped ==
  Needed \/ check # "idle" \/ \A p \in AutoClose : Running(p) => p \in adrift
=============================================================================
