------------------------- MODULE DepthWatcherProofs -------------------------
(***************************************************************************)
(* The safety of DepthWatcher for any number of signals, symbols, starts,  *)
(* connections and messages.  IInv is inductive; it is proved in layers:   *)
(* the types first, then the maps, the fates of the signals and the        *)
(* contents of the book, each from the layers below it.                    *)
(***************************************************************************)
EXTENDS DepthWatcher, SequenceTheorems, TLAPS

USE DEF vars, watchVars, connVars, depthVars, dbVars

\* What a quantity in an event is.
LEMMA EventType ==
    ASSUME NEW e \in Event
    PROVE  /\ e.symbol \in Symbols
           /\ DOMAIN e.delta \subseteq Level
           /\ \A l \in DOMAIN e.delta : e.delta[l] \in Qty
  <1>1. PICK L \in SUBSET Level : e.delta \in [L -> Qty]
    BY DEF Event
  <1>2. QED
    BY <1>1 DEF Event

\* Where a price level lives, and what the constants say of a signal.
LEMMA SignalType ==
    ASSUME NEW s \in Signals
    PROVE  /\ Sig[s].symbol \in Symbols
           /\ Sig[s].qty \in (-MaxQty..MaxQty) \ {0}
           /\ Sig[s].onCancel \in BOOLEAN /\ Sig[s].onEat \in BOOLEAN
           /\ Sig[s].eatPercent \in 1..100
           /\ Sig[s].side \in Sides /\ Sig[s].price \in Prices
           /\ \A d \in Sides : <<d, Sig[s].price>> \in Level
  <1>1. Sig[s] \in SignalFields
    BY SignalsAssumption
  <1>2. /\ Sig[s].symbol \in Symbols /\ Sig[s].price \in Prices
        /\ Sig[s].side \in Sides /\ Sig[s].eatPercent \in 1..100
        /\ Sig[s].onCancel \in BOOLEAN /\ Sig[s].onEat \in BOOLEAN
    BY <1>1 DEF SignalFields
  <1>3. Sig[s].qty \in (-MaxQty..MaxQty) \ {0}
    BY <1>1, Zenon DEF SignalFields
  <1>4. QED
    BY <1>2, <1>3 DEF Level

\* The order a signal was created for does not count as eaten.
LEMMA WholeIsNotEaten ==
    ASSUME NEW s \in Signals
    PROVE  ~Eaten(s, Sig[s].qty)
  <1>0. SUFFICES ASSUME Sig[s].qty > 0 PROVE ~Eaten(s, Sig[s].qty)
    BY DEF Eaten
  <1>1. /\ Sig[s].qty \in Nat /\ Sig[s].qty > 0
        /\ Sig[s].eatPercent \in Nat /\ Sig[s].eatPercent >= 1 /\ Sig[s].eatPercent <= 100
    BY <1>0, SignalType, SignalsAssumption DEF Qty
  <1>2. SUFFICES ASSUME NEW q \in Nat, q > 0, NEW n \in Nat, n >= 1, n <= 100
                 PROVE  ~(q * (100 - n) >= q * 100)
    BY <1>1 DEF Eaten
  <1>3. q * (100 - n) = q * 100 - q * n
    OBVIOUS
  <1>4. q * n >= 1
    BY <1>2
  <1>5. QED
    BY <1>3, <1>4

-----------------------------------------------------------------------------
(* Types *)

\* The initial state is well typed.
LEMMA InitType == Init => TypeOK
  <1> SUFFICES ASSUME Init PROVE TypeOK
    OBVIOUS
  <1> USE SignalsAssumption DEF Init
  <1>1. level \in [Symbols -> [Level -> Qty]]
    BY DEF EmptyBook, Qty
  <1>2. start \in [Starters -> StartCall]
    <2>1. Idle \in StartCall /\ Call("create") \in StartCall
      BY DEF Idle, Call, StartCall
    <2>2. QED
      BY <2>1
  <1>3. events \in Seq(Event)
    OBVIOUS
  <1>4. QED
    BY <1>1, <1>2, <1>3 DEF TypeOK

\* Books stay books.
LEMMA BookTypes ==
    ASSUME TypeOK
    PROVE  /\ EmptyBook \in [Level -> Qty]
           /\ \A b \in [Level -> Qty], s \in Signals : Seeded(b, s) \in [Level -> Qty]
           /\ \A b \in [Level -> Qty], e \in Event : Applied(b, e) \in [Level -> Qty]
           /\ \A f \in [Symbols -> [Level -> Qty]], S \in SUBSET Signals :
                Wiped(f, S, EmptyBook) \in [Symbols -> [Level -> Qty]]
           /\ \A f \in [Symbols -> Nat], S \in SUBSET Signals :
                Wiped(f, S, 0) \in [Symbols -> Nat]
  <1>1. EmptyBook \in [Level -> Qty]
    BY SignalsAssumption DEF EmptyBook, Qty
  <1>2. ASSUME NEW b \in [Level -> Qty], NEW s \in Signals
        PROVE  Seeded(b, s) \in [Level -> Qty]
    <2>1. Sig[s].qty > 0 => Sig[s].qty \in Qty
      BY SignalType, SignalsAssumption DEF Qty
    <2>2. QED
      BY <2>1 DEF Seeded
  <1>3. ASSUME NEW b \in [Level -> Qty], NEW e \in Event
        PROVE  Applied(b, e) \in [Level -> Qty]
    BY EventType DEF Applied
  <1>4. ASSUME NEW f \in [Symbols -> [Level -> Qty]], NEW S \in SUBSET Signals
        PROVE  Wiped(f, S, EmptyBook) \in [Symbols -> [Level -> Qty]]
    BY <1>1 DEF Wiped
  <1>5. ASSUME NEW f \in [Symbols -> Nat], NEW S \in SUBSET Signals
        PROVE  Wiped(f, S, 0) \in [Symbols -> Nat]
    BY DEF Wiped
  <1>6. QED
    BY <1>1, <1>2, <1>3, <1>4, <1>5

\* A message in a goroutine names an event that was sent.
LEMMA MessageType ==
    ASSUME TypeOK, NEW m \in arrived \cup passed
    PROVE  /\ m[1] \in 1..Len(events)
           /\ events[m[1]] \in Event
           /\ m \in (1..Len(events)) \X Conns
  BY DEF TypeOK

\* Removing signals keeps the types of the maps and of the connection.
LEMMA ForgetType ==
    ASSUME TypeOK, NEW S \in SUBSET Signals, NEW had \in SUBSET Symbols, Forget(S, had)
    PROVE  /\ signals' \subseteq Signals /\ dbPending' \subseteq Signals
           /\ activeSymbols' \subseteq Symbols /\ books' \subseteq Symbols
           /\ topics' \in [Conns -> SUBSET Symbols]
           /\ client' \in Conns \cup {NoConn} /\ started' \in BOOLEAN
           /\ monitored' \in BOOLEAN /\ start' \in [Starters -> StartCall]
  BY DEF Forget, TypeOK, Close

\* A step of a StartConnection call keeps the types.
LEMMA StartType ==
    ASSUME TypeOK, NEW g \in Starters, StartStep(g)
    PROVE  TypeOK'
  <1>0. /\ start[g] \in StartCall /\ Idle \in StartCall
        /\ [Idle EXCEPT !.pc = "failed"] \in StartCall
    BY DEF TypeOK, Idle, StartCall
  <1>1. CASE StartClaim(g)
    <2>1. [start[g] EXCEPT !.pc = "collect"] \in StartCall
      BY <1>0 DEF StartCall
    <2>2. start' \in [Starters -> StartCall]
      BY <1>0, <1>1, <2>1 DEF StartClaim, TypeOK
    <2>3. QED
      BY <1>1, <2>2 DEF StartClaim, TypeOK
  <1>2. CASE StartCollect(g)
    <2>0. \A p \in {"skip", "dial"} :
            [start[g] EXCEPT !.symbols = activeSymbols, !.pc = p] \in StartCall
      BY <1>0 DEF StartCall, TypeOK
    <2>1. start' \in [Starters -> StartCall]
      BY <2>0, <1>2 DEF StartCollect, TypeOK
    <2>2. QED
      BY <1>2, <2>1 DEF StartCollect, TypeOK
  <1>3. CASE StartSkip(g)
    BY <1>0, <1>3 DEF StartSkip, TypeOK
  <1>4. CASE StartDial(g)
    <2>0. /\ \A c \in Conns : [start[g] EXCEPT !.pc = "store", !.conn = c] \in StartCall
          /\ [start[g] EXCEPT !.pc = "fail"] \in StartCall
      BY <1>0 DEF StartCall
    <2>1. start' \in [Starters -> StartCall]
      BY <2>0, <1>4 DEF StartDial, TypeOK, UnusedConns
    <2>2. topics' \in [Conns -> SUBSET Symbols]
      BY <1>0, <1>4 DEF StartDial, TypeOK, StartCall, UnusedConns
    <2>3. QED
      BY <1>4, <2>1, <2>2 DEF StartDial, TypeOK
  <1>5. CASE StartStore(g)
    BY <1>0, <1>5 DEF StartStore, TypeOK, StartCall
  <1>6. CASE StartFail(g)
    <2>1. start' \in [Starters -> StartCall]
      BY <1>0, <1>6 DEF StartFail, TypeOK, StartCall
    <2>2. QED
      BY <1>6, <2>1 DEF StartFail, TypeOK
  <1>7. CASE StartFallback(g)
    <2>1. start' \in [Starters -> StartCall]
      BY <1>0, <1>7 DEF StartFallback, TypeOK
    <2>2. topics' \in [Conns -> SUBSET Symbols]
      BY <1>0, <1>7 DEF StartFallback, TypeOK, StartCall, UnusedConns
    <2>3. QED
      BY <1>7, <2>1, <2>2 DEF StartFallback, TypeOK
  <1>8. CASE StartFailed(g)
    BY <1>0, <1>8 DEF StartFailed, TypeOK
  <1>9. QED
    BY <1>1, <1>2, <1>3, <1>4, <1>5, <1>6, <1>7, <1>8 DEF StartStep

\* Every step of the watcher keeps the types.
LEMMA NextType == TypeOK /\ [Next]_vars => TypeOK'
  <1> SUFFICES ASSUME TypeOK, [Next]_vars PROVE TypeOK'
    OBVIOUS
  <1>1. ASSUME NEW s \in Signals, AddSignal(s) PROVE TypeOK'
    <2>1. Seeded(level[Sig[s].symbol], s) \in [Level -> Qty]
      BY BookTypes, SignalType DEF TypeOK
    <2>2. level' \in [Symbols -> [Level -> Qty]]
      BY <1>1, <2>1, SignalType DEF AddSignal, TypeOK
    <2>3. Call("add") \in StartCall
      BY DEF Call, Idle, StartCall
    <2>4. start' \in [Starters -> StartCall]
      BY <1>1, <2>3 DEF AddSignal, TypeOK, Free
    <2>5. QED
      BY <1>1, <2>2, <2>4, SignalType DEF AddSignal, TypeOK
  <1>2. ASSUME NEW s \in Signals, RemoveSignal(s) PROVE TypeOK'
    <2>1. dropped' \in [Signals -> Nat]
      BY <1>2 DEF RemoveSignal, Counted, TypeOK
    <2>2. QED
      BY <1>2, <2>1, ForgetType, BookTypes DEF RemoveSignal, TypeOK
  <1>3. ASSUME NEW s \in Signals, NEW ok \in BOOLEAN, DbDeactivate(s, ok) PROVE TypeOK'
    BY <1>3 DEF DbDeactivate, TypeOK
  <1>4. ASSUME CleanupClose PROVE TypeOK'
    BY <1>4 DEF CleanupClose, Close, TypeOK
  <1>5. ASSUME NEW y \in Symbols, CleanupRemove(y) PROVE TypeOK'
    <2> DEFINE S == {s \in signals : Sig[s].symbol = y}
    <2>1. S \in SUBSET Signals /\ Forget(S, books)
      BY <1>5 DEF Watching, CleanupRemove, TypeOK
    <2>2. dropped' \in [Signals -> Nat]
      BY <1>5 DEF CleanupRemove, Counted, TypeOK
    <2>3. QED
      BY <1>5, <2>1, <2>2, ForgetType, BookTypes DEF Watching, CleanupRemove, TypeOK
  <1>6. ASSUME NEW g \in Starters, StartStep(g) PROVE TypeOK'
    BY <1>6, StartType
  <1>7. ASSUME MonitorReconnect PROVE TypeOK'
    <2>1. Call("monitor") \in StartCall
      BY DEF Call, Idle, StartCall
    <2>2. start' \in [Starters -> StartCall]
      BY <1>7, <2>1 DEF MonitorReconnect, TypeOK, Free
    <2>3. QED
      BY <1>7, <2>2 DEF MonitorReconnect, Close, TypeOK
  <1>8. ASSUME NEW c \in Conns, ConnDrop(c) PROVE TypeOK'
    BY <1>8 DEF ConnDrop, Close, TypeOK
  <1>9. ASSUME NEW e \in Feed, Publish(e) PROVE TypeOK'
    <2>1. e \in Event /\ events' \in Seq(Event) /\ Len(events') = Len(events) + 1
      BY <1>9, SignalsAssumption DEF Publish, TypeOK
    <2>2. /\ Len(events) \in Nat
          /\ 1..Len(events) \subseteq 1..Len(events') /\ Len(events) + 1 \in 1..Len(events')
      BY <2>1 DEF TypeOK
    <2>3. arrived' \subseteq (1..Len(events')) \X Conns
      BY <1>9, <2>2 DEF Publish, TypeOK, live
    <2>4. passed' \subseteq (1..Len(events')) \X Conns /\ applied' \subseteq 1..Len(events')
      BY <1>9, <2>2 DEF Publish, TypeOK
    <2>5. QED
      BY <1>9, <2>1, <2>3, <2>4 DEF Publish, TypeOK
  <1>10. ASSUME NEW m \in Message, DepthCheck(m) PROVE TypeOK'
    BY <1>10 DEF DepthCheck, TypeOK
  <1>11. ASSUME NEW m \in Message, DepthApply(m) PROVE TypeOK'
    <2> DEFINE y == events[m[1]].symbol
               book == Applied(level[y], events[m[1]])
               T == {s \in Watching(y) : Triggers(s, book)}
    <2>1. m[1] \in 1..Len(events) /\ events[m[1]] \in Event
      BY <1>11, MessageType DEF DepthApply
    <2>2. y \in Symbols /\ book \in [Level -> Qty] /\ EmptyBook \in [Level -> Qty]
      BY <2>1, EventType, BookTypes DEF TypeOK
    <2>3. T \in SUBSET Signals
      BY DEF Watching, TypeOK
    <2>4. Forget(T, books \cup {y})
      BY <1>11 DEF DepthApply
    <2>5. level' \in [Symbols -> [Level -> Qty]]
      <3>1. level' = Wiped([level EXCEPT ![y] = book], T, EmptyBook)
        BY <1>11 DEF DepthApply
      <3> HIDE DEF T, y, book
      <3>2. QED
        BY <2>2, <2>3, <3>1, BookTypes DEF TypeOK
    <2>6. lastUpdateID' \in [Symbols -> Nat]
      <3>1. lastUpdateID' = Wiped([lastUpdateID EXCEPT ![y] = m[1]], T, 0)
        BY <1>11 DEF DepthApply
      <3> HIDE DEF T, y
      <3>2. [lastUpdateID EXCEPT ![y] = m[1]] \in [Symbols -> Nat]
        BY <2>1, <2>2 DEF TypeOK
      <3>3. QED
        BY <2>3, <3>1, <3>2, BookTypes
    <2>7. fired' \in [Signals -> Nat]
      <3>1. fired' = Counted(fired, T)
        BY <1>11 DEF DepthApply
      <3> HIDE DEF T
      <3>2. QED
        BY <3>1 DEF Counted, TypeOK
    <2>8. books \cup {y} \in SUBSET Symbols
      BY <2>2 DEF TypeOK
    <2>9. /\ added' \subseteq Signals /\ dropped' \in [Signals -> Nat]
          /\ cleanup' \in BOOLEAN /\ dbActive' \subseteq Signals
          /\ events' \in Seq(Event)
          /\ arrived' \subseteq (1..Len(events')) \X Conns
          /\ passed' \subseteq (1..Len(events')) \X Conns
          /\ applied' \subseteq 1..Len(events')
      BY <1>11, <2>1 DEF DepthApply, TypeOK
    <2> HIDE DEF T, y
    <2>10. QED
      BY <2>3, <2>4, <2>5, <2>6, <2>7, <2>8, <2>9, ForgetType DEF TypeOK
  <1>12. CASE UNCHANGED vars
    BY <1>12 DEF TypeOK
  <1>13. QED
    BY <1>1, <1>2, <1>3, <1>4, <1>5, <1>6, <1>7, <1>8, <1>9, <1>10, <1>11, <1>12 DEF Next

-----------------------------------------------------------------------------
(* Which steps touch the signals *)

\* A step that leaves the signals, the books and the rows alone; the log of
\* events only grows.
Quiet == /\ UNCHANGED <<watchVars, applied, dbVars>>
         /\ \/ events' = events
            \/ \E e \in Event : events' = Append(events, e)

\* Everything but five operations is quiet.
LEMMA StepKinds ==
    ASSUME TypeOK, [Next]_vars
    PROVE  \/ \E s \in Signals : AddSignal(s)
           \/ \E s \in Signals : RemoveSignal(s)
           \/ \E y \in Symbols : CleanupRemove(y)
           \/ \E s \in Signals, ok \in BOOLEAN : DbDeactivate(s, ok)
           \/ \E m \in Message : DepthApply(m)
           \/ Quiet
  <1>1. CASE CleanupClose \/ MonitorReconnect \/ \E c \in Conns : ConnDrop(c)
    BY <1>1 DEF CleanupClose, MonitorReconnect, ConnDrop, Quiet
  <1>2. CASE \E g \in Starters : StartStep(g)
    BY <1>2 DEF StartStep, StartClaim, StartCollect, StartSkip, StartDial, StartStore,
                StartFail, StartFallback, StartFailed, Quiet
  <1>3. CASE \E e \in Feed : Publish(e)
    BY <1>3, SignalsAssumption DEF Publish, Quiet
  <1>4. CASE \E m \in Message : DepthCheck(m)
    BY <1>4 DEF DepthCheck, Quiet
  <1>5. CASE UNCHANGED vars
    BY <1>5 DEF Quiet
  <1>6. QED
    BY <1>1, <1>2, <1>3, <1>4, <1>5 DEF Next

\* What the three operations that remove signals have in common: the set that
\* goes, and the book table before the books of its symbols are deleted.
Removal(S, table, had) ==
    /\ S \subseteq signals
    /\ Forget(S, had)
    /\ books \subseteq had /\ had \subseteq Symbols
    /\ level' = Wiped(table, S, EmptyBook)
    /\ added' = added /\ dbActive' = dbActive

\* RemoveSignal and RemoveAllSignalsForSymbol are removals from the books as
\* they are, and change nothing of the events.
LEMMA Deletions ==
    ASSUME TypeOK
    PROVE  /\ \A s \in Signals : RemoveSignal(s) =>
                /\ Removal({s}, level, books)
                /\ UNCHANGED <<fired, applied, events>>
                /\ dropped' = Counted(dropped, {s})
           /\ \A y \in Symbols : CleanupRemove(y) =>
                \E S \in SUBSET Signals :
                  /\ Removal(S, level, books)
                  /\ UNCHANGED <<fired, applied, events>>
                  /\ dropped' = Counted(dropped, S)
  <1>1. ASSUME NEW s \in Signals, RemoveSignal(s)
        PROVE  /\ Removal({s}, level, books)
               /\ UNCHANGED <<fired, applied, events>>
               /\ dropped' = Counted(dropped, {s})
    BY <1>1 DEF RemoveSignal, Removal, TypeOK
  <1>2. ASSUME NEW y \in Symbols, CleanupRemove(y)
        PROVE  \E S \in SUBSET Signals :
                  /\ Removal(S, level, books)
                  /\ UNCHANGED <<fired, applied, events>>
                  /\ dropped' = Counted(dropped, S)
    <2> DEFINE S == {s \in signals : Sig[s].symbol = y}
    <2>1. S \in SUBSET Signals /\ S \subseteq signals
      BY DEF TypeOK
    <2>2. /\ Forget(S, books) /\ level' = Wiped(level, S, EmptyBook)
          /\ UNCHANGED <<fired, applied, events, added, dbActive>>
          /\ dropped' = Counted(dropped, S)
      BY <1>2 DEF Watching, CleanupRemove
    <2> HIDE DEF S
    <2>3. QED
      BY <2>1, <2>2 DEF Removal, TypeOK
  <1>3. QED
    BY <1>1, <1>2

\* The book a depth event leaves, and the signals it triggers.
NewBook(m) == Applied(level[events[m[1]].symbol], events[m[1]])
Hit(m) == {s \in signals : /\ Sig[s].symbol = events[m[1]].symbol
                           /\ Triggers(s, NewBook(m))}

\* Applying a depth event removes the signals it triggers from the new book.
LEMMA Application ==
    ASSUME TypeOK, NEW m \in Message, DepthApply(m)
    PROVE  LET y == events[m[1]].symbol IN
           /\ m \in passed /\ m[1] \in 1..Len(events) /\ events[m[1]] \in Event /\ y \in Symbols
           /\ Removal(Hit(m), [level EXCEPT ![y] = NewBook(m)], books \cup {y})
           /\ applied' = applied \cup {m[1]} /\ UNCHANGED <<dropped, events>>
           /\ fired' = Counted(fired, Hit(m))
  <1>1. /\ m \in passed /\ m[1] \in 1..Len(events) /\ events[m[1]] \in Event
        /\ events[m[1]].symbol \in Symbols
    BY MessageType, EventType DEF DepthApply
  <1> DEFINE y == events[m[1]].symbol
  <1>2. /\ Forget(Hit(m), books \cup {y})
        /\ level' = Wiped([level EXCEPT ![y] = NewBook(m)], Hit(m), EmptyBook)
        /\ applied' = applied \cup {m[1]}
        /\ fired' = Counted(fired, Hit(m))
    BY DEF Watching, DepthApply, Hit, NewBook
  <1>3. UNCHANGED <<added, dropped, dbActive, events>>
    BY DEF DepthApply
  <1>4. Hit(m) \subseteq signals
    BY DEF Hit
  <1>5. QED
    BY <1>1, <1>2, <1>3, <1>4 DEF Removal, TypeOK

-----------------------------------------------------------------------------
(* The maps *)

\* A removal keeps the maps together.
LEMMA RemovalKeepsMaps ==
    ASSUME MapsAgree, NEW S, NEW table, NEW had, Removal(S, table, had)
    PROVE  MapsAgree'
  <1>1. /\ signals' = signals \ S /\ activeSymbols' = activeSymbols \ Unwatched(S)
        /\ books' = had \ Unwatched(S)
    BY DEF Removal, Forget
  <1>2. activeSymbols' = {Sig[s].symbol : s \in signals \ S}
    BY <1>1 DEF MapsAgree, Unwatched, Removal
  <1>3. QED
    BY <1>1, <1>2 DEF MapsAgree, Removal

\* Every step keeps the three maps of the watcher in agreement.
LEMMA MapsStep == TypeOK /\ MapsAgree /\ [Next]_vars => MapsAgree'
  <1> SUFFICES ASSUME TypeOK, MapsAgree, [Next]_vars PROVE MapsAgree'
    OBVIOUS
  <1>1. ASSUME NEW s \in Signals, AddSignal(s) PROVE MapsAgree'
    BY <1>1 DEF AddSignal, MapsAgree
  <1>2. ASSUME NEW s \in Signals, RemoveSignal(s) PROVE MapsAgree'
    BY <1>2, Deletions, RemovalKeepsMaps
  <1>3. ASSUME NEW y \in Symbols, CleanupRemove(y) PROVE MapsAgree'
    BY <1>3, Deletions, RemovalKeepsMaps
  <1>4. ASSUME NEW s \in Signals, NEW ok \in BOOLEAN, DbDeactivate(s, ok) PROVE MapsAgree'
    BY <1>4 DEF DbDeactivate, MapsAgree
  <1>5. ASSUME NEW m \in Message, DepthApply(m) PROVE MapsAgree'
    BY <1>5, Application, RemovalKeepsMaps
  <1>6. CASE Quiet
    BY <1>6 DEF Quiet, MapsAgree
  <1>7. QED
    BY <1>1, <1>2, <1>3, <1>4, <1>5, <1>6, StepKinds

-----------------------------------------------------------------------------
(* The fate of a signal *)

\* A signal that leaves is counted once, as fired or as dropped.
LEMMA FateStep == TypeOK /\ OneFate /\ [Next]_vars => OneFate'
  <1> SUFFICES ASSUME TypeOK, OneFate, [Next]_vars PROVE OneFate'
    OBVIOUS
  <1>0. \A s \in Signals : fired[s] \in Nat /\ dropped[s] \in Nat
    BY DEF TypeOK
  <1>1. ASSUME NEW s \in Signals, AddSignal(s) PROVE OneFate'
    <2>1. s \notin signals /\ fired[s] + dropped[s] = 0
      BY <1>0, <1>1 DEF AddSignal, OneFate
    <2>2. /\ signals' = signals \cup {s} /\ added' = added \cup {s}
          /\ fired' = fired /\ dropped' = dropped
      BY <1>1 DEF AddSignal
    <2>3. QED
      BY <1>0, <2>1, <2>2 DEF OneFate
  <1>2. ASSUME NEW S \in SUBSET signals, signals' = signals \ S, added' = added,
               fired' = fired,
               dropped' = Counted(dropped, S)
        PROVE  OneFate'
    BY <1>0, <1>2 DEF OneFate, Counted
  <1>3. ASSUME NEW S \in SUBSET signals, signals' = signals \ S, added' = added,
               dropped' = dropped,
               fired' = Counted(fired, S)
        PROVE  OneFate'
    BY <1>0, <1>3 DEF OneFate, Counted
  <1>4. ASSUME NEW s \in Signals, RemoveSignal(s) PROVE OneFate'
    <2>1. /\ {s} \in SUBSET signals /\ signals' = signals \ {s} /\ added' = added
          /\ fired' = fired /\ dropped' = Counted(dropped, {s})
      BY <1>4, Deletions DEF Removal, Forget
    <2>2. QED
      BY ONLY <1>2, <2>1
  <1>5. ASSUME NEW y \in Symbols, CleanupRemove(y) PROVE OneFate'
    <2>1. \E S \in SUBSET signals :
            /\ signals' = signals \ S /\ added' = added
            /\ fired' = fired /\ dropped' = Counted(dropped, S)
      BY <1>5, Deletions DEF Removal, Forget
    <2>2. QED
      BY ONLY <1>2, <2>1
  <1>6. ASSUME NEW s \in Signals, NEW ok \in BOOLEAN, DbDeactivate(s, ok) PROVE OneFate'
    BY <1>6 DEF DbDeactivate, OneFate
  <1>7. ASSUME NEW m \in Message, DepthApply(m) PROVE OneFate'
    <2>1. added' = added
      BY <1>7 DEF DepthApply
    <2>2. /\ Hit(m) \in SUBSET signals /\ signals' = signals \ Hit(m)
          /\ dropped' = dropped /\ fired' = Counted(fired, Hit(m))
      BY <1>7, Application DEF Removal, Forget
    <2>3. QED
      BY ONLY <1>3, <2>1, <2>2
  <1>8. CASE Quiet
    BY <1>8 DEF Quiet, OneFate
  <1>9. QED
    BY <1>1, <1>4, <1>5, <1>6, <1>7, <1>8, StepKinds

-----------------------------------------------------------------------------
(* The rows *)

\* Only the row of a signal that has left memory is deactivated.
LEMMA RowsStep ==
    TypeOK /\ OneFate /\ WatchedRowsStayActive /\ NewRowsStayActive /\ [Next]_vars
        => WatchedRowsStayActive' /\ NewRowsStayActive'
  <1> SUFFICES ASSUME TypeOK, OneFate, WatchedRowsStayActive, NewRowsStayActive, [Next]_vars
               PROVE  WatchedRowsStayActive' /\ NewRowsStayActive'
    OBVIOUS
  <1>0. signals \subseteq added
    <2>1. \A s \in Signals : fired[s] \in Nat /\ dropped[s] \in Nat
      BY DEF TypeOK
    <2>2. \A s \in signals : s \in added
      BY <2>1 DEF OneFate, TypeOK
    <2>3. QED
      BY <2>2
  <1> USE DEF WatchedRowsStayActive, NewRowsStayActive
  <1>1. ASSUME NEW s \in Signals, AddSignal(s)
        PROVE  WatchedRowsStayActive' /\ NewRowsStayActive'
    BY <1>1 DEF AddSignal
  <1>2. ASSUME NEW S, NEW table, NEW had, Removal(S, table, had)
        PROVE  WatchedRowsStayActive' /\ NewRowsStayActive'
    BY <1>0, <1>2 DEF Removal, Forget
  <1>3. ASSUME NEW s \in Signals, NEW ok \in BOOLEAN, DbDeactivate(s, ok)
        PROVE  WatchedRowsStayActive' /\ NewRowsStayActive'
    BY <1>3 DEF DbDeactivate
  <1>4. CASE Quiet
    BY <1>4 DEF Quiet
  <1>5. QED
    BY <1>1, <1>2, <1>3, <1>4, StepKinds, Deletions, Application

-----------------------------------------------------------------------------
(* The contents of the book *)

\* QtyAt is zero exactly when both sides of the price are empty, and otherwise
\* the quantity of one of them.
LEMMA QtyAtSides ==
    ASSUME NEW b \in [Level -> Qty], NEW p \in Prices
    PROVE  /\ QtyAt(b, p) = 0 <=> \A d \in Sides : b[<<d, p>>] = 0
           /\ \E d \in Sides : QtyAt(b, p) = b[<<d, p>>]
  BY DEF QtyAt, Sides

\* The book of a held signal's symbol survives a removal.
LEMMA HeldBookStays ==
    ASSUME NEW S, NEW table, NEW had, Removal(S, table, had), TypeOK
    PROVE  \A s \in signals' : /\ s \in signals /\ s \notin S
                               /\ level'[Sig[s].symbol] = table[Sig[s].symbol]
  BY SignalType DEF Removal, Forget, Unwatched, Wiped, TypeOK

\* OrderInBook after a removal, if it held of the book the removal started from.
LEMMA OrderAfterRemoval ==
    ASSUME NEW S, NEW table \in [Symbols -> [Level -> Qty]], NEW had,
           Removal(S, table, had), TypeOK,
           \A s \in signals \ S :
             Sig[s].onCancel /\ Sig[s].qty > 0 => QtyAt(table[Sig[s].symbol], Sig[s].price) # 0
    PROVE  OrderInBook'
  BY HeldBookStays DEF OrderInBook

\* A held signal that waits for a cancel keeps its order in the book.
LEMMA OrderStep == TypeOK /\ OrderInBook /\ [Next]_vars => OrderInBook'
  <1> SUFFICES ASSUME TypeOK, OrderInBook, [Next]_vars PROVE OrderInBook'
    OBVIOUS
  <1>0. level \in [Symbols -> [Level -> Qty]]
    BY DEF TypeOK
  <1>1. ASSUME NEW s \in Signals, AddSignal(s) PROVE OrderInBook'
    <2> DEFINE y == Sig[s].symbol
               book == Seeded(level[y], s)
    <2>1. y \in Symbols /\ level[y] \in [Level -> Qty] /\ book \in [Level -> Qty]
      BY <1>0, SignalType, BookTypes
    <2>2. /\ level'[y] = book /\ \A z \in Symbols \ {y} : level'[z] = level[z]
          /\ signals' = signals \cup {s}
      BY <1>0, <1>1, <2>1 DEF AddSignal
    <2>3. ASSUME Sig[s].qty > 0 PROVE QtyAt(book, Sig[s].price) # 0
      <3>1. /\ <<Sig[s].side, Sig[s].price>> \in Level /\ Sig[s].side \in Sides
            /\ Sig[s].qty # 0 /\ Sig[s].price \in Prices
        BY SignalType
      <3>2. \E d \in Sides : book[<<d, Sig[s].price>>] # 0
        BY <2>1, <2>3, <3>1 DEF Seeded
      <3>3. QED
        BY <2>1, <3>1, <3>2, QtyAtSides
    <2>4. \A l \in Level : level[y][l] # 0 => book[l] # 0
      BY <2>1, SignalType DEF Seeded
    <2> HIDE DEF book
    <2>5. ASSUME NEW t \in signals', Sig[t].onCancel, Sig[t].qty > 0
          PROVE  QtyAt(level'[Sig[t].symbol], Sig[t].price) # 0
      <3>1. t \in Signals /\ Sig[t].symbol \in Symbols /\ Sig[t].price \in Prices
        BY <2>2, SignalType DEF TypeOK
      <3>2. CASE t = s
        BY <2>2, <2>3, <2>5, <3>2
      <3>3. CASE t # s /\ Sig[t].symbol # y
        BY <2>2, <2>5, <3>1, <3>3 DEF OrderInBook
      <3>4. CASE t # s /\ Sig[t].symbol = y
        <4>1. QtyAt(level[y], Sig[t].price) # 0
          BY <2>2, <2>5, <3>4 DEF OrderInBook
        <4>2. PICK d \in Sides : level[y][<<d, Sig[t].price>>] # 0
          BY <2>1, <3>1, <4>1, QtyAtSides
        <4>3. book[<<d, Sig[t].price>>] # 0
          BY <2>4, <3>1, <4>2 DEF Level
        <4>4. QED
          BY <2>1, <2>2, <3>1, <3>4, <4>3, QtyAtSides
      <3>5. QED
        BY <3>2, <3>3, <3>4
    <2>6. QED
      BY <2>5 DEF OrderInBook
  <1>2. ASSUME NEW S, NEW had, Removal(S, level, had) PROVE OrderInBook'
    BY <1>0, <1>2, OrderAfterRemoval DEF OrderInBook
  <1>3. ASSUME NEW s \in Signals, NEW ok \in BOOLEAN, DbDeactivate(s, ok) PROVE OrderInBook'
    BY <1>3 DEF DbDeactivate, OrderInBook
  <1>4. ASSUME NEW m \in Message, DepthApply(m) PROVE OrderInBook'
    <2> DEFINE y == events[m[1]].symbol
               table == [level EXCEPT ![y] = NewBook(m)]
    <2>1. /\ events[m[1]] \in Event /\ y \in Symbols
          /\ Removal(Hit(m), table, books \cup {y})
      BY <1>4, Application
    <2>2. NewBook(m) \in [Level -> Qty] /\ table \in [Symbols -> [Level -> Qty]]
      BY <1>0, <2>1, BookTypes DEF NewBook
    <2>3. ASSUME NEW s \in signals \ Hit(m), Sig[s].onCancel, Sig[s].qty > 0
          PROVE  QtyAt(table[Sig[s].symbol], Sig[s].price) # 0
      <3>1. Sig[s].symbol \in Symbols
        BY SignalType DEF TypeOK
      <3>2. CASE Sig[s].symbol = y
        BY <1>0, <2>1, <2>3, <3>2 DEF Hit, Triggers, Cancelled
      <3>3. CASE Sig[s].symbol # y
        BY <1>0, <2>3, <3>1, <3>3 DEF OrderInBook
      <3>4. QED
        BY <3>2, <3>3
    <2> HIDE DEF table
    <2>4. QED
      BY <2>1, <2>2, <2>3, OrderAfterRemoval
  <1>5. CASE Quiet
    BY <1>5 DEF Quiet, OrderInBook
  <1>6. QED
    BY <1>1, <1>2, <1>3, <1>4, <1>5, StepKinds, Deletions


\* A removal keeps the sources: a book that loses its signal is gone with it.
LEMMA SourceAfterRemoval ==
    ASSUME NEW S, NEW table \in [Symbols -> [Level -> Qty]], NEW had,
           Removal(S, table, had), TypeOK, events' = events,
           \A y \in Symbols, l \in Level :
               table[y][l] # 0 => Source(signals, applied', events, y, l, table[y][l])
    PROVE  BookHasSource'
  <1> SUFFICES ASSUME NEW y \in Symbols, NEW l \in Level, level'[y][l] # 0
               PROVE  Source(signals', applied', events, y, l, level'[y][l])
    BY DEF BookHasSource
  <1>1. y \notin Unwatched(S) /\ level'[y][l] = table[y][l]
    BY DEF Removal, Wiped, EmptyBook
  <1>2. ASSUME NEW s \in signals, Sig[s].symbol = y
        PROVE  s \in signals'
    BY <1>1, <1>2, SignalsAssumption DEF Unwatched, Removal, Forget, TypeOK
  <1>3. Source(signals, applied', events, y, l, table[y][l])
    BY <1>1
  <1>4. QED
    BY <1>1, <1>2, <1>3 DEF Source

\* Every quantity in a book keeps a source.
LEMMA SourceStep == TypeOK /\ BookHasSource /\ [Next]_vars => BookHasSource'
  <1> SUFFICES ASSUME TypeOK, BookHasSource, [Next]_vars PROVE BookHasSource'
    OBVIOUS
  <1>0. /\ level \in [Symbols -> [Level -> Qty]] /\ events \in Seq(Event)
        /\ applied \subseteq 1..Len(events)
    BY DEF TypeOK
  <1>1. ASSUME NEW s \in Signals, AddSignal(s) PROVE BookHasSource'
    <2> DEFINE y == Sig[s].symbol
    <2>1. /\ y \in Symbols /\ level[y] \in [Level -> Qty]
          /\ <<Sig[s].side, Sig[s].price>> \in Level
      BY <1>0, SignalType
    <2>2. /\ level'[y] = Seeded(level[y], s) /\ \A z \in Symbols \ {y} : level'[z] = level[z]
          /\ signals' = signals \cup {s} /\ applied' = applied /\ events' = events
      BY <1>0, <1>1, <2>1 DEF AddSignal
    <2>3. \A l \in Level : level'[y][l] = level[y][l] \/ level'[y][l] = Sig[s].qty
      BY <2>1, <2>2 DEF Seeded
    <2>4. \A z \in Symbols, l \in Level :
             level'[z][l] = level[z][l] \/ (z = y /\ level'[z][l] = Sig[s].qty)
      BY <2>2, <2>3
    <2>5. QED
      BY <2>2, <2>4 DEF BookHasSource, Source
  <1>2. ASSUME NEW S, NEW had, Removal(S, level, had), UNCHANGED <<applied, events>>
        PROVE  BookHasSource'
    BY <1>0, <1>2, SourceAfterRemoval DEF BookHasSource
  <1>3. ASSUME NEW s \in Signals, NEW ok \in BOOLEAN, DbDeactivate(s, ok) PROVE BookHasSource'
    BY <1>3 DEF DbDeactivate, BookHasSource, Source
  <1>4. ASSUME NEW m \in Message, DepthApply(m) PROVE BookHasSource'
    <2> DEFINE e == events[m[1]]
               y == e.symbol
               table == [level EXCEPT ![y] = NewBook(m)]
    <2>1. /\ e \in Event /\ y \in Symbols
          /\ Removal(Hit(m), table, books \cup {y})
          /\ applied' = applied \cup {m[1]} /\ events' = events
      BY <1>4, Application
    <2>2. NewBook(m) \in [Level -> Qty] /\ table \in [Symbols -> [Level -> Qty]]
      BY <1>0, <2>1, BookTypes DEF NewBook
    <2>3. ASSUME NEW z \in Symbols, NEW l \in Level, table[z][l] # 0
          PROVE  Source(signals, applied', events, z, l, table[z][l])
      <3>1. CASE z = y /\ l \in DOMAIN e.delta
        <4>1. table[z][l] = e.delta[l]
          BY <1>0, <2>1, <3>1 DEF NewBook, Applied
        <4>2. QED
          BY <2>1, <3>1, <4>1 DEF Source
      <3>2. CASE ~(z = y /\ l \in DOMAIN e.delta)
        <4>1. table[z][l] = level[z][l]
          BY <1>0, <2>1, <3>2 DEF NewBook, Applied
        <4>2. QED
          BY <2>1, <2>3, <4>1 DEF BookHasSource, Source
      <3>3. QED
        BY <3>1, <3>2
    <2> HIDE DEF table
    <2>4. QED
      BY <2>1, <2>2, <2>3, SourceAfterRemoval
  <1>5. CASE Quiet
    <2>1. \A i \in applied : events'[i] = events[i]
      BY <1>0, <1>5 DEF Quiet
    <2>2. level' = level /\ signals' = signals /\ applied' = applied
      BY <1>5 DEF Quiet
    <2>3. QED
      BY <2>1, <2>2 DEF BookHasSource, Source
  <1>6. QED
    BY <1>1, <1>2, <1>3, <1>4, <1>5, StepKinds, Deletions

-----------------------------------------------------------------------------
(* Alarms *)

\* A signal that an event triggers was shown what it waits for, by this event
\* or, for a quantity it did not mention, by an earlier one.
LEMMA HitHasEvidence ==
    ASSUME TypeOK, OrderInBook, BookHasSource,
           NEW m \in Message, DepthApply(m), NEW s \in Hit(m)
    PROVE  \E i \in applied' : Evidence(s, events[i])
  <1> DEFINE e == events[m[1]]
             y == e.symbol
             p == Sig[s].price
  <1>1. /\ e \in Event /\ y \in Symbols /\ m[1] \in applied' /\ applied \subseteq applied'
    BY Application
  <1>2. /\ s \in Signals /\ s \in signals /\ Sig[s].symbol = y /\ Triggers(s, NewBook(m))
    BY DEF Hit, TypeOK
  <1>3. /\ p \in Prices /\ \A d \in Sides : <<d, p>> \in Level
    BY <1>2, SignalType
  <1>4. /\ level[y] \in [Level -> Qty] /\ NewBook(m) \in [Level -> Qty]
        /\ \A l \in Level : NewBook(m)[l] = IF l \in DOMAIN e.delta THEN e.delta[l] ELSE level[y][l]
    BY <1>1, BookTypes DEF TypeOK, NewBook, Applied
  <1> HIDE DEF p
  <1>5. CASE Cancelled(s, QtyAt(NewBook(m), p))
    <2>1. Sig[s].onCancel /\ Sig[s].qty > 0 /\ \A d \in Sides : NewBook(m)[<<d, p>>] = 0
      BY <1>3, <1>4, <1>5, QtyAtSides DEF Cancelled
    <2>2. QtyAt(level[y], p) # 0
      BY <1>2, <2>1 DEF OrderInBook, p
    <2>3. PICK d \in Sides : level[y][<<d, p>>] # 0
      BY <1>3, <1>4, <2>2, QtyAtSides
    <2>4. <<d, p>> \in DOMAIN e.delta /\ e.delta[<<d, p>>] = 0
      BY <1>3, <1>4, <2>1, <2>3
    <2>5. Evidence(s, e)
      BY <1>2, <2>1, <2>4 DEF Evidence, Cancelled, p
    <2>6. QED
      BY <1>1, <2>5
  <1>6. CASE Eaten(s, QtyAt(NewBook(m), p))
    <2>1. PICK d \in Sides : QtyAt(NewBook(m), p) = NewBook(m)[<<d, p>>]
      BY <1>3, <1>4, QtyAtSides
    <2>2. NewBook(m)[<<d, p>>] # 0 /\ Eaten(s, NewBook(m)[<<d, p>>])
      BY <1>6, <2>1 DEF Eaten
    <2>3. CASE <<d, p>> \in DOMAIN e.delta
      <3>1. Evidence(s, e)
        BY <1>2, <1>3, <1>4, <2>2, <2>3 DEF Evidence, p
      <3>2. QED
        BY <1>1, <3>1
    <2>4. CASE <<d, p>> \notin DOMAIN e.delta
      <3>1. level[y][<<d, p>>] # 0 /\ Eaten(s, level[y][<<d, p>>])
        BY <1>3, <1>4, <2>2, <2>4
      <3>2. Source(signals, applied, events, y, <<d, p>>, level[y][<<d, p>>])
        BY <1>1, <1>3, <3>1 DEF BookHasSource
      <3>3. ~ \E t \in signals : Sig[t].symbol = y /\ level[y][<<d, p>>] = Sig[t].qty
        BY <1>2, <3>1, WholeIsNotEaten, SignalsAssumption DEF TypeOK
      <3>4. PICK i \in applied : /\ events[i].symbol = y /\ <<d, p>> \in DOMAIN events[i].delta
                                /\ level[y][<<d, p>>] = events[i].delta[<<d, p>>]
        BY <3>2, <3>3 DEF Source
      <3>5. Evidence(s, events[i])
        BY <1>2, <3>1, <3>4 DEF Evidence, p
      <3>6. QED
        BY <1>1, <3>4, <3>5
    <2>5. QED
      BY <2>3, <2>4
  <1>7. QED
    BY <1>2, <1>5, <1>6 DEF Triggers, p

\* Signals that triggered keep their evidence.
LEMMA EvidenceStep ==
    TypeOK /\ OrderInBook /\ BookHasSource /\ FiredOnEvidence /\ [Next]_vars => FiredOnEvidence'
  <1> SUFFICES ASSUME TypeOK, OrderInBook, BookHasSource, FiredOnEvidence, [Next]_vars
               PROVE  FiredOnEvidence'
    OBVIOUS
  <1>0. events \in Seq(Event) /\ applied \subseteq 1..Len(events)
    BY DEF TypeOK
  <1>1. ASSUME UNCHANGED <<fired, applied, events>> PROVE FiredOnEvidence'
    BY <1>1 DEF FiredOnEvidence
  <1>2. ASSUME NEW s \in Signals, AddSignal(s) PROVE FiredOnEvidence'
    BY <1>1, <1>2 DEF AddSignal
  <1>3. ASSUME NEW s \in Signals, NEW ok \in BOOLEAN, DbDeactivate(s, ok)
        PROVE  FiredOnEvidence'
    BY <1>1, <1>3 DEF DbDeactivate
  <1>4. ASSUME NEW m \in Message, DepthApply(m) PROVE FiredOnEvidence'
    <2>1. applied \subseteq applied' /\ events' = events /\ fired' = Counted(fired, Hit(m))
      BY <1>4, Application
    <2>2. ASSUME NEW s \in Signals, fired'[s] > 0
          PROVE  \E i \in applied' : Evidence(s, events[i])
      <3>1. CASE s \in Hit(m)
        BY <1>4, <3>1, HitHasEvidence
      <3>2. CASE s \notin Hit(m)
        <4>1. fired[s] > 0
          BY <2>1, <2>2, <3>2 DEF Counted, TypeOK
        <4>2. QED
          BY <2>1, <4>1 DEF FiredOnEvidence
      <3>3. QED
        BY <3>1, <3>2
    <2>3. QED
      BY <2>1, <2>2 DEF FiredOnEvidence
  <1>5. CASE Quiet
    <2>1. fired' = fired /\ applied' = applied /\ \A i \in applied : events'[i] = events[i]
      BY <1>0, <1>5 DEF Quiet
    <2>2. QED
      BY <2>1 DEF FiredOnEvidence
  <1>6. QED
    BY <1>1, <1>2, <1>3, <1>4, <1>5, StepKinds, Deletions

\* The messages whose handling a step ends.
Ended == (arrived \cup passed) \ (arrived' \cup passed')

\* What CancelIsNoticed asks of a step.
Noticed ==
    \A m \in Ended, s \in signals :
        TellsCancel(m, s) =>
            \/ s \notin signals'
            \/ level'[Sig[s].symbol][<<OtherSide(Sig[s].side), Sig[s].price>>] # 0

\* Applying a cancellation triggers the signal or finds the other side's order.
LEMMA AppliedCancel ==
    ASSUME TypeOK, NEW m \in Message, DepthApply(m), NEW s \in signals, TellsCancel(m, s)
    PROVE  \/ s \notin signals'
           \/ level'[Sig[s].symbol][<<OtherSide(Sig[s].side), Sig[s].price>>] # 0
  <1> DEFINE e == events[m[1]]
             y == e.symbol
             p == Sig[s].price
             table == [level EXCEPT ![y] = NewBook(m)]
  <1>1. /\ e \in Event /\ y \in Symbols
        /\ Removal(Hit(m), table, books \cup {y})
    BY Application
  <1>2. /\ Sig[s].onCancel /\ Sig[s].qty > 0 /\ Sig[s].symbol = y
        /\ <<Sig[s].side, p>> \in DOMAIN e.delta /\ e.delta[<<Sig[s].side, p>>] = 0
    BY DEF TellsCancel
  <1>3. p \in Prices /\ Sig[s].side \in Sides /\ \A d \in Sides : <<d, p>> \in Level
    BY SignalType DEF TypeOK
  <1>4. /\ NewBook(m) \in [Level -> Qty] /\ table \in [Symbols -> [Level -> Qty]]
        /\ table[y] = NewBook(m)
    BY <1>1, BookTypes DEF TypeOK, NewBook
  <1>5. NewBook(m)[<<Sig[s].side, p>>] = 0
    BY <1>2, <1>3 DEF NewBook, Applied
  <1>6. SUFFICES ASSUME s \in signals'
                 PROVE  level'[Sig[s].symbol][<<OtherSide(Sig[s].side), p>>] # 0
    OBVIOUS
  <1> HIDE DEF table, p
  <1>7. s \notin Hit(m) /\ level'[y] = NewBook(m)
    <2>1. \A t \in signals' : t \notin Hit(m) /\ level'[Sig[t].symbol] = table[Sig[t].symbol]
      BY <1>1, HeldBookStays
    <2>2. QED
      BY <1>2, <1>4, <1>6, <2>1
  <1>8. QtyAt(NewBook(m), p) # 0
    BY <1>2, <1>7 DEF Hit, Triggers, Cancelled, p
  <1>9. PICK d \in Sides : NewBook(m)[<<d, p>>] # 0
    BY <1>3, <1>4, <1>8, QtyAtSides
  <1>10. d = OtherSide(Sig[s].side)
    BY <1>3, <1>5, <1>9 DEF OtherSide, Sides
  <1>11. QED
    BY <1>2, <1>7, <1>9, <1>10

\* A cancellation is never skipped: the check skips only symbols without signals.
LEMMA NoticedStep == TypeOK /\ MapsAgree /\ [Next]_vars => Noticed
  <1> SUFFICES ASSUME TypeOK, MapsAgree, [Next]_vars, NEW m \in Ended, NEW s \in signals,
                      TellsCancel(m, s)
               PROVE  \/ s \notin signals'
                      \/ level'[Sig[s].symbol][<<OtherSide(Sig[s].side), Sig[s].price>>] # 0
    BY DEF Noticed
  <1>1. CASE \E n \in Message : DepthApply(n)
    <2>1. PICK n \in Message : DepthApply(n)
      BY <1>1
    <2>2. m = n
      BY <2>1 DEF DepthApply, Ended
    <2>3. QED
      BY <2>1, <2>2, AppliedCancel
  <1>2. CASE \E n \in Message : DepthCheck(n)
    <2>1. PICK n \in Message : DepthCheck(n)
      BY <1>2
    <2>2. m = n /\ n \notin passed'
      BY <2>1 DEF DepthCheck, Ended
    <2>3. QED
      BY <2>1, <2>2 DEF Watching, DepthCheck, MapsAgree, TellsCancel
  <1>3. CASE ~ (\E n \in Message : DepthApply(n) \/ DepthCheck(n))
    <2>1. arrived \subseteq arrived' /\ passed \subseteq passed'
      BY <1>3 DEF Next, AddSignal, RemoveSignal, DbDeactivate, CleanupClose, CleanupRemove,
                  StartStep, StartClaim, StartCollect, StartSkip, StartDial, StartStore,
                  StartFail, StartFallback, StartFailed, MonitorReconnect, ConnDrop, Publish
    <2>2. QED
      BY <2>1 DEF Ended
  <1>4. QED
    BY <1>1, <1>2, <1>3

-----------------------------------------------------------------------------
(* The theorems *)

\* IInv holds initially and is preserved: the argument of all that follows.
LEMMA Inductive == (Init => IInv) /\ (IInv /\ [Next]_vars => IInv')
  <1>1. Init => IInv
    <2>1. Init => MapsAgree /\ OneFate /\ FiredOnEvidence /\ WatchedRowsStayActive
                    /\ NewRowsStayActive /\ OrderInBook /\ BookHasSource
      BY DEF Init, MapsAgree, OneFate, FiredOnEvidence, WatchedRowsStayActive,
             NewRowsStayActive, OrderInBook, BookHasSource, EmptyBook
    <2>2. QED
      BY <2>1, InitType DEF IInv
  <1>2. IInv /\ [Next]_vars => IInv'
    BY NextType, MapsStep, FateStep, RowsStep, OrderStep, SourceStep, EvidenceStep DEF IInv
  <1>3. QED
    BY <1>1, <1>2

\* The watcher's fields always hold values of their types.
THEOREM TypeCorrect == Spec => []TypeOK
  BY InitType, NextType, PTL DEF Spec

\* The inductive invariant is an invariant.
LEMMA Invariance == Spec => []IInv
  BY Inductive, PTL DEF Spec

\* An active symbol always has a signal and a book: GetStatus never dereferences
\* a missing one.
THEOREM MapsAlwaysAgree == Spec => []MapsAgree
  <1>1. IInv => MapsAgree
    BY DEF IInv
  <1>2. QED
    BY <1>1, Invariance, PTL

\* A signal triggers at most once, and never once it was deleted or replaced.
THEOREM FateIsUnique == Spec => []OneFate
  <1>1. IInv => OneFate
    BY DEF IInv
  <1>2. QED
    BY <1>1, Invariance, PTL

\* A signal triggers only on a depth event that shows what it waits for.
THEOREM NoFalseAlarm == Spec => []FiredOnEvidence
  <1>1. IInv => FiredOnEvidence
    BY DEF IInv
  <1>2. QED
    BY <1>1, Invariance, PTL

\* The row of a watched signal stays active, so that a restart reloads it.
THEOREM WatchedRowsSurvive == Spec => []WatchedRowsStayActive
  <1>1. IInv => WatchedRowsStayActive
    BY DEF IInv
  <1>2. QED
    BY <1>1, Invariance, PTL

\* No cancellation that reaches a goroutine is missed, in any message order.
THEOREM CancelsAreNoticed == Spec => CancelIsNoticed
  <1>1. IInv /\ [Next]_vars => [Noticed]_vars
    BY NoticedStep DEF IInv
  <1>2. Noticed => \A m \in Ended, s \in signals : TellsCancel(m, s) =>
             \/ s \notin signals'
             \/ level'[Sig[s].symbol][<<OtherSide(Sig[s].side), Sig[s].price>>] # 0
    BY DEF Noticed
  <1>3. Spec => [][Noticed]_vars
    BY <1>1, Invariance, PTL DEF Spec
  <1>4. QED
    BY <1>3, PTL DEF CancelIsNoticed, Noticed, Ended
=============================================================================
