---------------------------- MODULE DepthWatcher ----------------------------
(***************************************************************************)
(* One MarketDepthWatcher of the Binance service: the signals it holds, the*)
(* local order book fed by the depth stream, and the goroutines that start,*)
(* replace and lose its WebSocket connection.                              *)
(*                                                                         *)
(* Each critical section of w.mu is one action, so whatever the code does  *)
(* between two of them interleaves with every other goroutine.  The depth  *)
(* handler spawns a goroutine per message, so messages form a set.         *)
(* LastQty, the trigger times and the latency figures are display data and *)
(* are left out; AddSignal's check of the market is too, since the manager *)
(* hands a signal only to a watcher made for the signal's own market.      *)
(***************************************************************************)
EXTENDS Integers, Sequences, FiniteSets

CONSTANTS
    Signals,      \* signals handed to this watcher
    Symbols,      \* instruments
    Prices,       \* price levels that occur in messages
    MaxQty,       \* quantities are 0..MaxQty
    Sig,          \* Sig[s]: the immutable fields of signal s
    Feed,         \* the depth events the exchange may send
    Starters,     \* StartConnection calls that may be in flight together
    Conns,        \* connections that may exist together
    NoConn,       \* the nil client
    MaxUpdates,   \* bound on the depth messages of a behaviour
    Faulty        \* whether dials may fail and connections may drop

Sides == {"BUY", "SELL"}
Qty == 0..MaxQty
Level == Sides \X Prices

SignalFields == [symbol : Symbols, price : Prices, side : Sides, qty : (-MaxQty..MaxQty) \ {0},
                 onCancel : BOOLEAN, onEat : BOOLEAN, eatPercent : 1..100]

\* A depth event: the new quantity of every level it mentions (0: level gone).
Event == [symbol : Symbols, delta : UNION {[L -> Qty] : L \in SUBSET Level}]

\* What the callers guarantee: the create handler passes an order it found
\* (qty > 0), restoreAutoCloseFeatures the size of the position (qty < 0 for a
\* short one), both a percentage of at least 1; the manager replaces the watcher
\* of a symbol for every new signal, so no watcher gets two signals of one symbol.
ASSUME SignalsAssumption ==
    /\ MaxQty \in Nat /\ MaxUpdates \in Nat /\ Faulty \in BOOLEAN
    /\ Sig \in [Signals -> SignalFields] /\ Feed \subseteq Event
    /\ \A s, t \in Signals : Sig[s].symbol = Sig[t].symbol => s = t
    /\ NoConn \notin Conns

VARIABLES
    signals,        \* signals in signalsBySymbol
    activeSymbols,  \* activeSymbols
    books,          \* symbols that have an entry in orderBooks
    level,          \* level[y][l]: quantity in the book of y, 0 if absent
    lastUpdateID,   \* OrderBookMap.LastUpdateID
    started,        \* w.started
    client,         \* w.client
    topics,         \* topics[c]: symbols connection c delivers, {} once closed
    monitored,      \* whether a monitorActivity goroutine exists
    start,          \* start[g]: the StartConnection call of goroutine g
    cleanup,        \* cleanupOldWatcherAsync has closed, not yet removed
    events,         \* log of the depth events, the update id is the index
    arrived,        \* messages whose goroutine has not checked the symbol
    passed,         \* messages that passed the check, not yet applied
    applied,        \* ids applied to a book
    added,          \* signals AddSignal was called for
    fired,          \* fired[s]: times s triggered
    dropped,        \* dropped[s]: times s left memory without triggering
    dbActive,       \* signals whose row has is_active = true
    dbPending       \* signals whose deactivation goroutine is running

watchVars == <<signals, activeSymbols, books, level, lastUpdateID, added, fired, dropped>>
connVars == <<started, client, topics, monitored, start>>
depthVars == <<events, arrived, passed, applied>>
dbVars == <<dbActive, dbPending>>
vars == <<watchVars, connVars, depthVars, dbVars, cleanup>>

Idle == [pc |-> "idle", by |-> "create", symbols |-> {}, conn |-> NoConn]
Call(caller) == [Idle EXCEPT !.pc = "claim", !.by = caller]
Free == {g \in Starters : start[g].pc = "idle"}

\* Connections whose stream still delivers; a dial always names a symbol.
live == {c \in Conns : topics[c] # {}}

\* WebSocketClient.Close: nothing more is delivered.  Closing nil, or a closed
\* connection, changes nothing.
Close(c) == topics' = [d \in Conns |-> IF d = c THEN {} ELSE topics[d]]

EmptyBook == [l \in Level |-> 0]

Init ==
    /\ signals = {} /\ activeSymbols = {} /\ books = {}
    /\ level = [y \in Symbols |-> EmptyBook]
    /\ lastUpdateID = [y \in Symbols |-> 0]
    /\ started = FALSE /\ client = NoConn
    /\ topics = [c \in Conns |-> {}]
    /\ monitored = FALSE /\ cleanup = FALSE
    \* createWatcherForUser launches StartConnection before any AddSignal
    /\ \E g \in Starters : start = [h \in Starters |-> IF h = g THEN Call("create") ELSE Idle]
    /\ events = << >> /\ arrived = {} /\ passed = {} /\ applied = {}
    /\ added = {} /\ fired = [s \in Signals |-> 0] /\ dropped = [s \in Signals |-> 0]
    /\ dbActive = Signals /\ dbPending = {}

-----------------------------------------------------------------------------
(* Signals *)

\* Mutation: the local book starts empty.
SeedNothing(book, s) == book

\* The book after AddSignal: a level absent from both sides gets OriginalQty.
Seeded(book, s) ==
    IF Sig[s].qty > 0 /\ \A d \in Sides : book[<<d, Sig[s].price>>] = 0
    THEN [book EXCEPT ![<<Sig[s].side, Sig[s].price>>] = Sig[s].qty]
    ELSE book

\* Mutation: the list of signals is taken before the lock.
StaleWatching(y) == {s \in added : Sig[s].symbol = y}

\* signalsBySymbol[y].
Watching(y) == {s \in signals : Sig[s].symbol = y}

\* AddSignal, called once for each signal the manager hands to the watcher.
AddSignal(s) ==
    LET y == Sig[s].symbol IN
    /\ s \notin added
    /\ added' = added \cup {s}
    /\ signals' = signals \cup {s}
    /\ activeSymbols' = activeSymbols \cup {y}
    /\ books' = books \cup {y}
    /\ level' = [level EXCEPT ![y] = Seeded(@, s)]
    /\ IF y \notin activeSymbols /\ ~started
       THEN \E g \in Free : start' = [start EXCEPT ![g] = Call("add")]
       ELSE UNCHANGED start
    /\ UNCHANGED <<lastUpdateID, fired, dropped, started, client, topics,
                   monitored, depthVars, dbVars, cleanup>>

\* Symbols whose last signal is in S.
Unwatched(S) == {Sig[s].symbol : s \in S} \ {Sig[s].symbol : s \in signals \ S}

\* Mutation: the symbol stays active.
ForgetKeepsSymbol(S, had) ==
    /\ signals' = signals \ S
    /\ books' = had \ Unwatched(S)
    /\ dbPending' = dbPending \cup S
    /\ UNCHANGED <<activeSymbols, topics, client, started, monitored, start>>

\* removeSignalByIDLocked for every signal of S; had: the books before.  A symbol
\* without signals loses its book; without symbols the connection is closed.
Forget(S, had) ==
    /\ signals' = signals \ S
    /\ activeSymbols' = activeSymbols \ Unwatched(S)
    /\ books' = had \ Unwatched(S)
    /\ dbPending' = dbPending \cup S
    /\ IF S # {} /\ activeSymbols' = {}
       THEN /\ Close(client)
            /\ client' = NoConn
            /\ started' = FALSE
       ELSE UNCHANGED <<topics, client, started>>
    /\ UNCHANGED <<monitored, start>>

\* A table of books after the books of the symbols of S lost their last signal.
Wiped(table, S, empty) == [y \in Symbols |-> IF y \in Unwatched(S) THEN empty ELSE table[y]]

\* Counters of the signals, one more for those of S.
Counted(f, S) == [s \in Signals |-> f[s] + (IF s \in S THEN 1 ELSE 0)]

\* Mutation: an unknown id is deactivated too.
RemoveUnchecked(s) ==
    /\ Forget({s}, books)
    /\ level' = Wiped(level, {s}, EmptyBook)
    /\ lastUpdateID' = Wiped(lastUpdateID, {s}, 0)
    /\ dropped' = Counted(dropped, {s})
    /\ UNCHANGED <<added, fired, depthVars, dbActive, cleanup>>

\* RemoveSignal: the user deletes the signal, or its position went to zero.
RemoveSignal(s) ==
    /\ s \in signals
    /\ Forget({s}, books)
    /\ level' = Wiped(level, {s}, EmptyBook)
    /\ lastUpdateID' = Wiped(lastUpdateID, {s}, 0)
    /\ dropped' = Counted(dropped, {s})
    /\ UNCHANGED <<added, fired, depthVars, dbActive, cleanup>>

\* cleanupOldWatcherAsync, first half: the replaced watcher's client is closed
\* without w.mu and stays in w.client.
CleanupClose ==
    /\ ~cleanup
    /\ cleanup' = TRUE
    /\ Close(client)
    /\ UNCHANGED <<watchVars, started, client, monitored, start, depthVars, dbVars>>

\* Second half: RemoveAllSignalsForSymbol.  It ranges over the slice it edits,
\* which is harmless while a symbol has one signal.
CleanupRemove(y) ==
    LET S == Watching(y) IN
    /\ cleanup
    /\ cleanup' = FALSE
    /\ Forget(S, books)
    /\ level' = Wiped(level, S, EmptyBook)
    /\ lastUpdateID' = Wiped(lastUpdateID, S, 0)
    /\ dropped' = Counted(dropped, S)
    /\ UNCHANGED <<added, fired, depthVars, dbActive>>

\* The goroutine of removeSignalByIDLocked writes is_active = false; the update
\* has two seconds and its failure is only logged.
DbDeactivate(s, ok) ==
    /\ s \in dbPending
    /\ dbPending' = dbPending \ {s}
    /\ dbActive' = IF ok THEN dbActive \ {s} ELSE dbActive
    /\ UNCHANGED <<watchVars, connVars, depthVars, cleanup>>

-----------------------------------------------------------------------------
(* Connection *)

\* The started check and set of StartConnection.  Its unlocked first check
\* decides nothing that the second one does not.
StartClaim(g) ==
    /\ start[g].pc = "claim"
    /\ started' = TRUE
    /\ start' = [start EXCEPT ![g] = IF started THEN Idle ELSE [@ EXCEPT !.pc = "collect"]]
    /\ UNCHANGED <<watchVars, client, topics, monitored, depthVars, dbVars, cleanup>>

\* The active symbols are copied under the read lock, which is then released.
StartCollect(g) ==
    /\ start[g].pc = "collect"
    /\ start' = [start EXCEPT ![g] =
                    [@ EXCEPT !.symbols = activeSymbols,
                              !.pc = IF activeSymbols = {} THEN "skip" ELSE "dial"]]
    /\ UNCHANGED <<watchVars, started, client, topics, monitored, depthVars, dbVars, cleanup>>

\* No symbols: the flag is reset and the call returns nil.
StartSkip(g) ==
    /\ start[g].pc = "skip"
    /\ started' = FALSE
    /\ start' = [start EXCEPT ![g] = Idle]
    /\ UNCHANGED <<watchVars, client, topics, monitored, depthVars, dbVars, cleanup>>

UnusedConns == Conns \ (live \cup {client} \cup {start[g].conn : g \in Starters})

\* Connect...Combined with the copied symbols; a failed dial goes on at "fail".
StartDial(g) ==
    /\ start[g].pc = "dial"
    /\ \/ \E c \in UnusedConns :
            /\ topics' = [topics EXCEPT ![c] = start[g].symbols]
            /\ start' = [start EXCEPT ![g] = [@ EXCEPT !.pc = "store", !.conn = c]]
       \/ /\ Faulty
          /\ start' = [start EXCEPT ![g].pc = "fail"]
          /\ UNCHANGED topics
    /\ UNCHANGED <<watchVars, started, client, monitored, depthVars, dbVars, cleanup>>

\* The connected client is stored and its activity monitor launched.
StartStore(g) ==
    /\ start[g].pc = "store"
    /\ client' = start[g].conn
    /\ monitored' = TRUE
    /\ start' = [start EXCEPT ![g] = Idle]
    /\ UNCHANGED <<watchVars, started, topics, depthVars, dbVars, cleanup>>

\* After a failed dial started is reset.
StartFail(g) ==
    /\ start[g].pc = "fail"
    /\ started' = FALSE
    /\ start' = [start EXCEPT ![g].pc = "fallback"]
    /\ UNCHANGED <<watchVars, client, topics, monitored, depthVars, dbVars, cleanup>>

\* With a proxy configured a second dial is tried without it; when it succeeds
\* its connection is never stored.  The first error is returned either way.
StartFallback(g) ==
    /\ start[g].pc = "fallback"
    /\ \/ \E c \in UnusedConns :
            /\ topics' = [topics EXCEPT ![c] = start[g].symbols]
       \/ UNCHANGED topics
    /\ start' = [start EXCEPT ![g] =
                    IF @.by = "add" THEN [Idle EXCEPT !.pc = "failed"] ELSE Idle]
    /\ UNCHANGED <<watchVars, started, client, monitored, depthVars, dbVars, cleanup>>

\* AddSignal's goroutine after StartConnection returned an error.
StartFailed(g) ==
    /\ start[g].pc = "failed"
    /\ started' = FALSE
    /\ start' = [start EXCEPT ![g] = Idle]
    /\ UNCHANGED <<watchVars, client, topics, monitored, depthVars, dbVars, cleanup>>

\* monitorActivity after 30 s without data: close, forget, start again.
MonitorReconnect ==
    /\ monitored /\ started /\ client # NoConn
    /\ Close(client)
    /\ client' = NoConn
    /\ started' = FALSE
    /\ \E g \in Free : start' = [start EXCEPT ![g] = Call("monitor")]
    /\ UNCHANGED <<watchVars, monitored, depthVars, dbVars, cleanup>>

\* The stream of a connection ends by itself; the error handler only logs.
ConnDrop(c) ==
    /\ Faulty /\ c \in live
    /\ Close(c)
    /\ UNCHANGED <<watchVars, started, client, monitored, start, depthVars, dbVars, cleanup>>

-----------------------------------------------------------------------------
(* Depth stream *)

\* The exchange publishes e: every live connection subscribed to its symbol
\* delivers it, each in a goroutine of its own.
Publish(e) ==
    LET receivers == {c \in live : e.symbol \in topics[c]} IN
    /\ Len(events) < MaxUpdates
    /\ receivers # {}
    /\ events' = Append(events, e)
    /\ arrived' = arrived \cup ({Len(events) + 1} \X receivers)
    /\ UNCHANGED <<watchVars, connVars, passed, applied, dbVars, cleanup>>

\* Mutation: an update older than the book is skipped.
DepthCheckSkipsOld(m) ==
    LET y == events[m[1]].symbol IN
    /\ m \in arrived
    /\ arrived' = arrived \ {m}
    /\ passed' = IF Watching(y) # {} /\ m[1] > lastUpdateID[y] THEN passed \cup {m} ELSE passed
    /\ UNCHANGED <<watchVars, connVars, events, applied, dbVars, cleanup>>

\* processDepthUpdate under the read lock: symbols nobody watches are skipped.
DepthCheck(m) ==
    LET y == events[m[1]].symbol IN
    /\ m \in arrived
    /\ arrived' = arrived \ {m}
    /\ passed' = IF y \in activeSymbols /\ Watching(y) # {}
                 THEN passed \cup {m} ELSE passed
    /\ UNCHANGED <<watchVars, connVars, events, applied, dbVars, cleanup>>

\* Mutation: quantities are taken as increments.
AppliedAsIncrement(book, e) ==
    [l \in Level |-> IF l \in DOMAIN e.delta THEN book[l] + e.delta[l] ELSE book[l]]

\* The book after the bids and asks of event e.
Applied(book, e) == [l \in Level |-> IF l \in DOMAIN e.delta THEN e.delta[l] ELSE book[l]]

\* findOrderAtPrice: bids first, then asks; 0 when not found.
QtyAt(book, p) == IF book[<<"BUY", p>>] # 0 THEN book[<<"BUY", p>>] ELSE book[<<"SELL", p>>]

\* Neither trigger goes off for a quantity below 0.
Cancelled(s, q) == Sig[s].onCancel /\ Sig[s].qty > 0 /\ q = 0
Eaten(s, q) ==
    /\ Sig[s].onEat /\ Sig[s].qty > 0 /\ q # 0
    /\ Sig[s].qty * (100 - Sig[s].eatPercent) >= q * 100
Triggers(s, book) == LET q == QtyAt(book, Sig[s].price) IN Cancelled(s, q) \/ Eaten(s, q)

\* processDepthUpdate under the lock: apply the event whatever its id, trigger
\* the signals of the symbol and remove those that triggered.  The removal of
\* the last one deletes the book that was just written.
DepthApply(m) ==
    LET e == events[m[1]]
        y == e.symbol
        book == Applied(level[y], e)
        T == {s \in Watching(y) : Triggers(s, book)}
    IN
    /\ m \in passed
    /\ passed' = passed \ {m}
    /\ applied' = applied \cup {m[1]}
    /\ Forget(T, books \cup {y})
    /\ level' = Wiped([level EXCEPT ![y] = book], T, EmptyBook)
    /\ lastUpdateID' = Wiped([lastUpdateID EXCEPT ![y] = m[1]], T, 0)
    /\ fired' = Counted(fired, T)
    /\ UNCHANGED <<added, dropped, events, arrived, dbActive, cleanup>>

-----------------------------------------------------------------------------
StartStep(g) ==
    \/ StartClaim(g) \/ StartCollect(g) \/ StartSkip(g) \/ StartDial(g)
    \/ StartStore(g) \/ StartFail(g) \/ StartFallback(g) \/ StartFailed(g)

Message == (1..MaxUpdates) \X Conns

Next ==
    \/ \E s \in Signals : AddSignal(s) \/ RemoveSignal(s)
    \/ \E s \in Signals, ok \in BOOLEAN : DbDeactivate(s, ok)
    \/ CleanupClose
    \/ \E y \in Symbols : CleanupRemove(y)
    \/ \E g \in Starters : StartStep(g)
    \/ MonitorReconnect
    \/ \E c \in Conns : ConnDrop(c)
    \/ \E e \in Feed : Publish(e)
    \/ \E m \in Message : DepthCheck(m) \/ DepthApply(m)

Spec == Init /\ [][Next]_vars

\* The Go scheduler runs every launched goroutine: the pending AddSignal calls,
\* the StartConnection calls and the per-message goroutines.  Nothing makes
\* the exchange publish, the user delete or the monitor see 30 s of silence.
Fairness ==
    /\ \A s \in Signals : WF_vars(AddSignal(s))
    /\ \A g \in Starters : WF_vars(StartStep(g))
    /\ \A m \in Message : WF_vars(DepthCheck(m)) /\ WF_vars(DepthApply(m))

FairSpec == Spec /\ Fairness

-----------------------------------------------------------------------------
(* Properties *)

StartCall == [pc : {"idle", "claim", "collect", "skip", "dial", "store",
                    "fail", "fallback", "failed"},
              by : {"create", "add", "monitor"},
              symbols : SUBSET Symbols, conn : Conns \cup {NoConn}]

\* Type invariant of the watcher's fields and of its goroutines.
TypeOK ==
    /\ signals \subseteq Signals /\ added \subseteq Signals
    /\ activeSymbols \subseteq Symbols /\ books \subseteq Symbols
    /\ level \in [Symbols -> [Level -> Qty]]
    /\ lastUpdateID \in [Symbols -> Nat]
    /\ fired \in [Signals -> Nat] /\ dropped \in [Signals -> Nat]
    /\ started \in BOOLEAN /\ monitored \in BOOLEAN /\ cleanup \in BOOLEAN
    /\ client \in Conns \cup {NoConn}
    /\ topics \in [Conns -> SUBSET Symbols]
    /\ start \in [Starters -> StartCall]
    /\ events \in Seq(Event)
    /\ arrived \subseteq (1..Len(events)) \X Conns
    /\ passed \subseteq (1..Len(events)) \X Conns
    /\ applied \subseteq 1..Len(events)
    /\ dbActive \subseteq Signals /\ dbPending \subseteq Signals

\* The three maps of the watcher agree: a symbol is active exactly while it has
\* a signal, and an active symbol has a book.  GetStatus dereferences the book
\* of every active symbol, and the depth handler skips inactive ones.
MapsAgree ==
    /\ activeSymbols = {Sig[s].symbol : s \in signals}
    /\ activeSymbols \subseteq books

\* However updates, deletions and the replacement of the watcher interleave, a
\* signal leaves memory once, by exactly one of them: the position is never
\* closed twice for one signal and never after the user deleted it.
OneFate ==
    \A s \in Signals :
        fired[s] + dropped[s] + (IF s \in signals THEN 1 ELSE 0)
            = IF s \in added THEN 1 ELSE 0

\* Event e shows what signal s waits for: its level gone, or eaten far enough.
Evidence(s, e) ==
    /\ e.symbol = Sig[s].symbol
    /\ \E d \in Sides :
         /\ <<d, Sig[s].price>> \in DOMAIN e.delta
         /\ Cancelled(s, e.delta[<<d, Sig[s].price>>]) \/ Eaten(s, e.delta[<<d, Sig[s].price>>])

\* No false alarm: a signal that triggered did so on an event the exchange
\* sent, although messages are applied in any order, through several
\* connections, and the book is seeded and deleted around them.
FiredOnEvidence ==
    \A s \in Signals : fired[s] > 0 => \E i \in applied : Evidence(s, events[i])

\* The row of a signal the watcher still holds is never deactivated by it, so a
\* restart reloads every signal that was being watched.
WatchedRowsStayActive ==
    \A s \in signals : s \in dbActive /\ s \notin dbPending

OtherSide(d) == IF d = "BUY" THEN "SELL" ELSE "BUY"

\* Message m says that the order signal s watches is gone.  The signal of a
\* short position that was restored has no order.
TellsCancel(m, s) ==
    LET e == events[m[1]] IN
    /\ Sig[s].onCancel /\ Sig[s].qty > 0
    /\ e.symbol = Sig[s].symbol
    /\ <<Sig[s].side, Sig[s].price>> \in DOMAIN e.delta
    /\ e.delta[<<Sig[s].side, Sig[s].price>>] = 0

\* No missed cancellation: whatever the order of the messages, the goroutine
\* that ends the handling of a cancellation leaves the signal triggered, unless
\* the book shows an order on the other side of the same price.
CancelIsNoticed ==
    [][\A m \in (arrived \cup passed) \ (arrived' \cup passed'), s \in signals :
          TellsCancel(m, s) =>
             \/ s \notin signals'
             \/ level'[Sig[s].symbol][<<OtherSide(Sig[s].side), Sig[s].price>>] # 0]_vars

\* Some connection delivers the symbol of s to this watcher.
Served(s) == \E c \in live : Sig[s].symbol \in topics[c]

\* AddSignal starts the connection when none is established: with a network
\* that never fails, a signal gets a stream unless its watcher is replaced.
SignalGetsStream ==
    \A s \in Signals : s \in signals ~> (s \notin signals \/ Served(s) \/ cleanup)

-----------------------------------------------------------------------------
(* Inductive invariant *)

\* A held signal that waits for a cancel has its order in the book: the step
\* that takes it out is the step that triggers the signal.
OrderInBook ==
    \A s \in signals : Sig[s].onCancel /\ Sig[s].qty > 0 => QtyAt(level[Sig[s].symbol], Sig[s].price) # 0

\* Quantity q at level l of the book of y is the one a held signal was created
\* with, or the one an event that was applied carried.
Source(held, seen, log, y, l, q) ==
    \/ \E s \in held : Sig[s].symbol = y /\ q = Sig[s].qty
    \/ \E i \in seen : log[i].symbol = y /\ l \in DOMAIN log[i].delta /\ q = log[i].delta[l]

\* Nothing else gets into a book.
BookHasSource ==
    \A y \in Symbols, l \in Level :
        level[y][l] # 0 => Source(signals, applied, events, y, l, level[y][l])

\* Nothing touches the row of a signal before AddSignal was called for it.
NewRowsStayActive == \A s \in Signals \ added : s \in dbActive /\ s \notin dbPending

\* What the safety proofs carry from step to step.
IInv == /\ TypeOK /\ MapsAgree /\ OneFate /\ FiredOnEvidence
        /\ WatchedRowsStayActive /\ NewRowsStayActive /\ OrderInBook /\ BookHasSource
=============================================================================
