-------------------------- MODULE OkxWatcherProofs --------------------------
(***************************************************************************)
(* The watcher of one OKX user keeps one stream, is started for a reason   *)
(* and fires signals for a reason, for any signals, instruments, goroutines*)
(* and monitors.                                                           *)
(***************************************************************************)
EXTENDS OkxWatcher, FiniteSetTheorems, TLAPS

\* The goroutine that will store a client
Building(c) == start[c].pc \in {"read", "dial", "store"}

\* Unless a reset came late or the watcher was closed, `started' stands for one
\* client or one goroutine that makes one, and only that has a connection.
OneHolder ==
  late \/ closed \/
    /\ \A c, d \in Clients : Building(c) /\ Building(d) => c = d
    /\ \A c \in Clients : Building(c) => started /\ client = 0
    /\ client # 0 => started
    /\ \A c \in Clients : conn[c].st \in {"open", "broken"} => c = client \/ start[c].pc = "store"

\* A signal whose order has not changed since it was checked is whole on the
\* exchange, in every message that names it, and in the book once it is watched.
Unchanged ==
  \A s \in Signals : sig[s] \in {"checked", "watched"} /\ s \notin cause =>
    /\ level[s] = "whole"
    /\ sig[s] = "watched" => book[s] = "whole"
    /\ \A c \in Clients : s \in DOMAIN conn[c].msg.qty => conn[c].msg.qty[s] = "whole"

IInv == TypeOK /\ StartedIsBacked /\ OneHolder /\ Unchanged

Live(r) == r.st \in {"open", "broken"}

-----------------------------------------------------------------------------
(* Connections *)

LEMMA IdleTyped == Idle \in Goroutines /\ Off \in Connections /\ Off.st = "none" /\ Off.msg = None
  BY DEF Idle, Goroutines, Off, Connections, Messages, Qty

\* What Close leaves of a connection is no stream.
LEMMA HangTyped ==
  ASSUME NEW r \in Connections, r.seen \subseteq r.subs
  PROVE  /\ Hang(r) \in Connections /\ Hang(r).seen \subseteq Hang(r).subs
         /\ Hang(r).msg = r.msg /\ ~Live(Hang(r))
  <1>1. CASE r.msg = None
    BY <1>1, IdleTyped DEF Hang, Live, Off
  <1>2. CASE r.msg # None
    BY <1>2 DEF Hang, Live, Connections
  <1>3. QED
    BY <1>1, <1>2

LEMMA BlindTyped ==
  ASSUME NEW r \in Connections, NEW ends
  PROVE  /\ Blind(ends, r) \in Connections
         /\ Blind(ends, r).msg = r.msg /\ Blind(ends, r).st = r.st
         /\ Blind(ends, r).seen = r.seen /\ Blind(ends, r).subs = r.subs
  BY DEF Blind, Connections, Qty

LEMMA EmptiedTyped ==
  ASSUME NEW r \in Connections, r.seen \subseteq r.subs
  PROVE  /\ Emptied(r) \in Connections /\ Emptied(r).seen \subseteq Emptied(r).subs
         /\ Emptied(r).msg = None /\ (Live(Emptied(r)) => Live(r))
  <1>1. CASE r.st = "closed"
    BY <1>1, IdleTyped DEF Emptied, Live, Off
  <1>2. CASE r.st # "closed"
    BY <1>2 DEF Emptied, Live, Connections, Messages
  <1>3. QED
    BY <1>1, <1>2

\* What messages may be about
LEMMA NoneNames == DOMAIN None.qty = {}
  BY DEF None

LEMMA QtyTyped ==
  ASSUME NEW m \in Messages, NEW s \in DOMAIN m.qty
  PROVE  s \in Signals /\ m.qty[s] \in Qty
  <1>1. m # None
    BY NoneNames
  <1>2. PICK S \in SUBSET Signals : m.qty \in [S -> Qty]
    BY <1>1 DEF Messages
  <1>3. QED
    BY <1>2

\* The connections after a removal: as before, and the stored one is hung up if
\* the last instrument went.
ConnTyped(f) == f \in [Clients -> Connections] /\ \A c \in Clients : f[c].seen \subseteq f[c].subs

LEMMA DropConn ==
  ASSUME client \in {0} \union Clients, NEW ends, NEW outcome, NEW newBook,
         NEW newConn, ConnTyped(newConn), Drop(ends, outcome, newBook, newConn)
  PROVE  /\ ConnTyped(conn')
         /\ \A c \in Clients : conn'[c].msg = newConn[c].msg /\ (Live(conn'[c]) => Live(newConn[c]))
         /\ \/ UNCHANGED <<client, started>>
            \/ client # 0 /\ client' = 0 /\ started' = FALSE /\ ~Live(conn'[client])
  <1> DEFINE blind == [c \in Clients |-> Blind(ends, newConn[c])]
  <1>1. ConnTyped(blind) /\ \A c \in Clients : blind[c].msg = newConn[c].msg /\ blind[c].st = newConn[c].st
    BY BlindTyped DEF ConnTyped
  <1>2. CASE EndsConnection(ends)
    <2>1. conn' = [blind EXCEPT ![client] = Hang(@)] /\ client' = 0 /\ started' = FALSE
      BY <1>2 DEF Drop
    <2>2. client \in Clients
      BY <1>2 DEF EndsConnection
    <2>3. /\ Hang(blind[client]) \in Connections
          /\ Hang(blind[client]).seen \subseteq Hang(blind[client]).subs
          /\ Hang(blind[client]).msg = blind[client].msg /\ ~Live(Hang(blind[client]))
      BY <1>1, <2>2, HangTyped DEF ConnTyped
    <2> HIDE DEF blind
    <2>4. conn'[client] = Hang(blind[client]) /\ \A c \in Clients : c # client => conn'[c] = blind[c]
      BY <1>1, <2>1, <2>2 DEF ConnTyped
    <2>5. conn' \in [Clients -> Connections]
      BY <1>1, <2>1, <2>2, <2>3 DEF ConnTyped
    <2>6. ConnTyped(conn')
      BY <1>1, <2>3, <2>4, <2>5 DEF ConnTyped
    <2>7. QED
      BY <1>1, <2>1, <2>2, <2>3, <2>4, <2>6 DEF Live, Clients
  <1>3. CASE ~EndsConnection(ends)
    <2>1. conn' = blind /\ UNCHANGED <<client, started>>
      BY <1>3 DEF Drop
    <2> HIDE DEF blind
    <2>2. QED
      BY <1>1, <2>1 DEF Live
  <1>4. QED
    BY <1>2, <1>3

\* The connections while a message is processed
LEMMA ProcessConn ==
  ASSUME TypeOK, NEW c \in Clients
  PROVE  /\ ConnTyped([conn EXCEPT ![c] = Emptied(@)])
         /\ \A d \in Clients :
              /\ [conn EXCEPT ![c] = Emptied(@)][d].msg \in {conn[d].msg, None}
              /\ Live([conn EXCEPT ![c] = Emptied(@)][d]) => Live(conn[d])
  <1>1. conn \in [Clients -> Connections] /\ \A d \in Clients : conn[d].seen \subseteq conn[d].subs
    BY DEF TypeOK
  <1>2. /\ Emptied(conn[c]) \in Connections /\ Emptied(conn[c]).seen \subseteq Emptied(conn[c]).subs
        /\ Emptied(conn[c]).msg = None /\ (Live(Emptied(conn[c])) => Live(conn[c]))
    BY <1>1, EmptiedTyped
  <1>3. QED
    BY <1>1, <1>2 DEF ConnTyped

LEMMA MergedTyped ==
  ASSUME TypeOK, NEW m \in Messages PROVE Merged(m) \in [Signals -> Qty]
  BY QtyTyped DEF Merged, TypeOK

-----------------------------------------------------------------------------
(* What steps do to the stream *)

\* Nobody is in StartConnection; connections are as before, or the stored one
\* is given up and the watcher is not started any more.
Calm ==
  /\ ConnTyped(conn')
  /\ \A c \in Clients : Live(conn'[c]) => Live(conn[c])
  /\ \/ UNCHANGED <<client, started>>
     \/ client # 0 /\ client' = 0 /\ started' = FALSE /\ ~Live(conn'[client])

\* The steps of signals and of messages
SignalStep == \E s \in Signals : Check(s) \/ RemoveSignal(s) \/ \E q \in Levels(s) : Move(s, q)
MessageStep ==
  \E c \in Clients :
    \/ \E i \in Insts : ReceiveSnapshot(c, i)
    \/ \E s \in Signals : ReceiveUpdate(c, s)
    \/ Process(c) \/ Breaks(c)

LEMMA ReceiveConn ==
  ASSUME TypeOK, NEW c \in Clients,
         (\E i \in Insts : ReceiveSnapshot(c, i)) \/ (\E s \in Signals : ReceiveUpdate(c, s)) \/ Breaks(c)
  PROVE  /\ ConnTyped(conn') /\ (Live(conn'[c]) => Live(conn[c]))
         /\ \A d \in Clients : d # c => conn'[d] = conn[d]
  <1>0. ConnTyped(conn) /\ level \in [Signals -> Qty]
    BY DEF TypeOK, ConnTyped
  <1>1. ASSUME NEW i \in Insts, ReceiveSnapshot(c, i)
        PROVE  /\ conn'[c] \in Connections /\ conn'[c].seen \subseteq conn'[c].subs
               /\ conn'[c].st = conn[c].st /\ conn' = [conn EXCEPT ![c] = conn'[c]]
    <2> DEFINE r == conn[c]
               told == [s \in Signals |-> IF InstOf[s] = i THEN level[s] ELSE r.told[s]]
               qty == [s \in {t \in Of(i) : level[t] # "gone"} |-> level[s]]
               msg == [inst |-> i, qty |-> qty]
    <2>1. r \in Connections /\ r.seen \subseteq r.subs /\ i \in r.subs
      BY <1>0, <1>1 DEF ConnTyped, ReceiveSnapshot
    <2>2. told \in [Signals -> Qty]
      BY <1>0, <2>1 DEF Connections
    <2>3. qty \in [{t \in Of(i) : level[t] # "gone"} -> Qty] /\ {t \in Of(i) : level[t] # "gone"} \subseteq Signals
      BY <1>0 DEF Of
    <2>4. msg \in Messages
      BY <2>3 DEF Messages
    <2>5. conn' = [conn EXCEPT ![c] = [r EXCEPT !.seen = r.seen \union {i}, !.told = told, !.msg = msg]]
      BY <1>1 DEF ReceiveSnapshot
    <2> HIDE DEF r, told, qty, msg
    <2>6. /\ [r EXCEPT !.seen = r.seen \union {i}, !.told = told, !.msg = msg] \in Connections
          /\ [r EXCEPT !.seen = r.seen \union {i}, !.told = told, !.msg = msg].seen \subseteq r.subs
          /\ [r EXCEPT !.seen = r.seen \union {i}, !.told = told, !.msg = msg].subs = r.subs
          /\ [r EXCEPT !.seen = r.seen \union {i}, !.told = told, !.msg = msg].st = r.st
      BY <2>1, <2>2, <2>4 DEF Connections
    <2>7. conn'[c] = [r EXCEPT !.seen = r.seen \union {i}, !.told = told, !.msg = msg]
      BY <1>0, <2>5 DEF ConnTyped
    <2>8. QED
      BY <2>1, <2>5, <2>6, <2>7 DEF r
  <1>2. ASSUME NEW s \in Signals, ReceiveUpdate(c, s)
        PROVE  /\ conn'[c] \in Connections /\ conn'[c].seen \subseteq conn'[c].subs
               /\ conn'[c].st = conn[c].st /\ conn' = [conn EXCEPT ![c] = conn'[c]]
    <2> DEFINE r == conn[c]
               told == [r.told EXCEPT ![s] = level[s]]
               qty == [t \in {s} |-> level[t]]
               msg == [inst |-> InstOf[s], qty |-> qty]
    <2>1. r \in Connections /\ r.seen \subseteq r.subs
      BY <1>0 DEF ConnTyped
    <2>2. told \in [Signals -> Qty]
      BY <1>0, <2>1 DEF Connections
    <2>3. qty \in [{s} -> Qty] /\ {s} \subseteq Signals
      BY <1>0
    <2>4. msg \in Messages
      BY <2>3, OkxWatcherAssumption DEF Messages
    <2>5. conn' = [conn EXCEPT ![c] = [r EXCEPT !.told = told, !.msg = msg]]
      BY <1>2 DEF ReceiveUpdate
    <2> HIDE DEF r, told, qty, msg
    <2>6. /\ [r EXCEPT !.told = told, !.msg = msg] \in Connections
          /\ [r EXCEPT !.told = told, !.msg = msg].seen = r.seen
          /\ [r EXCEPT !.told = told, !.msg = msg].subs = r.subs
          /\ [r EXCEPT !.told = told, !.msg = msg].st = r.st
      BY <2>1, <2>2, <2>4 DEF Connections
    <2>7. conn'[c] = [r EXCEPT !.told = told, !.msg = msg]
      BY <1>0, <2>5 DEF ConnTyped
    <2>8. QED
      BY <2>1, <2>5, <2>6, <2>7 DEF r
  <1>3. ASSUME Breaks(c)
        PROVE  /\ conn'[c] \in Connections /\ conn'[c].seen \subseteq conn'[c].subs
               /\ Live(conn[c]) /\ conn' = [conn EXCEPT ![c] = conn'[c]]
    BY <1>0, <1>3 DEF ConnTyped, Breaks, Connections, Live
  <1>4. /\ conn'[c] \in Connections /\ conn'[c].seen \subseteq conn'[c].subs
        /\ Live(conn'[c]) => Live(conn[c])
        /\ conn' = [conn EXCEPT ![c] = conn'[c]]
    BY <1>1, <1>2, <1>3 DEF Live
  <1>5. /\ conn' \in [Clients -> Connections]
        /\ \A d \in Clients : d # c => conn'[d] = conn[d]
    BY <1>0, <1>4 DEF ConnTyped
  <1>6. QED
    BY <1>0, <1>4, <1>5 DEF ConnTyped

LEMMA StreamCalm ==
  ASSUME TypeOK, SignalStep \/ MessageStep \/ MonitorLooks
  PROVE  Calm /\ UNCHANGED <<start, monitors, late, closed>>
  <1>0. ConnTyped(conn) /\ client \in {0} \union Clients
    BY DEF TypeOK, ConnTyped
  <1>1. ASSUME NEW s \in Signals, RemoveSignal(s) PROVE Calm
    BY <1>0, <1>1, DropConn DEF RemoveSignal, Calm
  <1>2. ASSUME NEW c \in Clients, Process(c) PROVE Calm
    <2>1. Drop(Triggered(conn[c].msg), "fired", Merged(conn[c].msg), [conn EXCEPT ![c] = Emptied(@)])
      BY <1>2 DEF Process
    <2>2. QED
      BY <1>0, <2>1, DropConn, ProcessConn DEF Calm
  <1>3. ASSUME NEW c \in Clients,
               (\E i \in Insts : ReceiveSnapshot(c, i)) \/ (\E s \in Signals : ReceiveUpdate(c, s)) \/ Breaks(c)
        PROVE  Calm
    <2>1. UNCHANGED <<client, started>>
      BY <1>3 DEF ReceiveSnapshot, ReceiveUpdate, Breaks
    <2>2. QED
      BY <1>3, <2>1, ReceiveConn DEF Calm
  <1>4. ASSUME MonitorLooks \/ (\E s \in Signals : Check(s) \/ \E q \in Levels(s) : Move(s, q))
        PROVE  Calm
    BY <1>0, <1>4 DEF MonitorLooks, Check, Move, Calm
  <1>5. UNCHANGED <<start, monitors, late, closed>>
    BY DEF SignalStep, MessageStep, MonitorLooks, Check, RemoveSignal, Move, ReceiveSnapshot,
           ReceiveUpdate, Process, Breaks
  <1>6. QED
    BY <1>1, <1>2, <1>3, <1>4, <1>5 DEF SignalStep, MessageStep

-----------------------------------------------------------------------------
(* Types *)

\* The rest of the types
RestTyped ==
  /\ sig \in [Signals -> {"new", "checked", "watched", "fired", "removed"}]
  /\ level \in [Signals -> Qty] /\ book \in [Signals -> Qty]
  /\ started \in BOOLEAN /\ late \in BOOLEAN /\ closed \in BOOLEAN
  /\ client \in {0} \union Clients
  /\ cause \subseteq Signals
  /\ monitors \in 0..MaxMonitors /\ due \in 0..monitors
  /\ start \in [Clients -> Goroutines]

LEMMA TypeParts == (TypeOK <=> RestTyped /\ ConnTyped(conn)) /\ (TypeOK' <=> RestTyped' /\ ConnTyped(conn'))
  BY DEF TypeOK, RestTyped, ConnTyped

LEMMA DropTyped ==
  ASSUME RestTyped, NEW ends, NEW outcome \in {"fired", "removed"},
         NEW newBook \in [Signals -> Qty], NEW newConn, Drop(ends, outcome, newBook, newConn),
         UNCHANGED <<start, monitors, due, late, closed>>
  PROVE  RestTyped'
  <1>1. sig' \in [Signals -> {"new", "checked", "watched", "fired", "removed"}]
    BY DEF Drop, RestTyped
  <1>2. level' \in [Signals -> Qty] /\ book' \in [Signals -> Qty] /\ cause' \subseteq Signals
    BY DEF Drop, RestTyped, Qty
  <1>3. client' \in {0} \union Clients /\ started' \in BOOLEAN
    BY DEF Drop, RestTyped
  <1>4. QED
    BY <1>1, <1>2, <1>3 DEF RestTyped

LEMMA SignalStepTyped ==
  ASSUME TypeOK, SignalStep PROVE RestTyped'
  <1>0. RestTyped
    BY TypeParts
  <1>1. ASSUME NEW s \in Signals, Check(s) PROVE RestTyped'
    BY <1>0, <1>1 DEF Check, RestTyped
  <1>2. ASSUME NEW s \in Signals, RemoveSignal(s) PROVE RestTyped'
    <2>1. book \in [Signals -> Qty]
      BY <1>0 DEF RestTyped
    <2>2. QED
      BY <1>0, <1>2, <2>1, DropTyped DEF RemoveSignal
  <1>3. ASSUME NEW s \in Signals, NEW q \in Levels(s), Move(s, q) PROVE RestTyped'
    BY <1>0, <1>3 DEF Move, RestTyped, Levels, Qty
  <1>4. QED
    BY <1>1, <1>2, <1>3 DEF SignalStep

LEMMA MessageStepTyped ==
  ASSUME TypeOK, MessageStep \/ MonitorLooks PROVE RestTyped'
  <1>0. RestTyped
    BY TypeParts
  <1>1. ASSUME NEW c \in Clients, Process(c) PROVE RestTyped'
    <2>1. conn[c].msg \in Messages
      BY <1>1 DEF TypeOK, Connections
    <2>2. Merged(conn[c].msg) \in [Signals -> Qty]
      BY <2>1, MergedTyped
    <2>3. UNCHANGED <<start, monitors, due, late, closed>>
      BY <1>1 DEF Process
    <2>4. Drop(Triggered(conn[c].msg), "fired", Merged(conn[c].msg), [conn EXCEPT ![c] = Emptied(@)])
      BY <1>1 DEF Process
    <2>5. QED
      BY <1>0, <2>2, <2>3, <2>4, DropTyped
  <1>2. ASSUME NEW c \in Clients,
               (\E i \in Insts : ReceiveSnapshot(c, i)) \/ (\E s \in Signals : ReceiveUpdate(c, s)) \/ Breaks(c)
        PROVE  RestTyped'
    BY <1>0, <1>2 DEF ReceiveSnapshot, ReceiveUpdate, Breaks, RestTyped
  <1>3. CASE MonitorLooks
    BY <1>0, <1>3 DEF MonitorLooks, RestTyped
  <1>4. QED
    BY <1>1, <1>2, <1>3 DEF MessageStep

\* A goroutine is spawned in a place of its own.
LEMMA SpawnTyped ==
  ASSUME start \in [Clients -> Goroutines], NEW c \in Clients, NEW by \in {"add", "monitor"}, Spawn(c, by)
  PROVE  /\ start' \in [Clients -> Goroutines] /\ start'[c].pc = "claim"
         /\ \A d \in Clients : d # c => start'[d] = start[d]
  <1>1. [Idle EXCEPT !.pc = "claim", !.by = by] \in Goroutines
    BY DEF Idle, Goroutines
  <1>2. [Idle EXCEPT !.pc = "claim", !.by = by].pc = "claim"
    BY DEF Idle
  <1>3. QED
    BY <1>1, <1>2 DEF Spawn

LEMMA AddSignalTyped ==
  ASSUME TypeOK, NEW s \in Signals, AddSignal(s) PROVE TypeOK'
  <1>0. RestTyped
    BY TypeParts
  <1>1. start' \in [Clients -> Goroutines]
    BY <1>0, SpawnTyped DEF AddSignal, RestTyped
  <1>2. QED
    BY <1>1 DEF AddSignal, TypeOK, Qty

LEMMA StartsTyped ==
  ASSUME TypeOK, NEW c \in Clients, Starts(c) PROVE TypeOK'
  <1>0. RestTyped /\ ConnTyped(conn)
    BY TypeParts
  <1>1. start' \in [Clients -> Goroutines]
    <2>1. Active \subseteq Insts
      BY OkxWatcherAssumption DEF Active, Watched
    <2>2. start[c] \in Goroutines /\ start \in [Clients -> Goroutines]
      BY DEF TypeOK
    <2>3. /\ [start[c] EXCEPT !.pc = "read"] \in Goroutines
          /\ [start[c] EXCEPT !.pc = "dial", !.insts = Active] \in Goroutines
          /\ [start[c] EXCEPT !.pc = "store", !.insts = {}] \in Goroutines
          /\ [Idle EXCEPT !.pc = "reset"] \in Goroutines
      BY <2>1, <2>2, IdleTyped DEF Goroutines
    <2>4. QED
      BY <2>2, <2>3, IdleTyped DEF Starts, Claim, ReadInsts, DialOk, DialFails, LateReset, Store
  <1>2. ConnTyped(conn')
    <2>1. ASSUME DialOk(c) PROVE ConnTyped(conn')
      <3>1. start[c].insts \subseteq Insts
        BY DEF TypeOK, Goroutines
      <3>2. [Off EXCEPT !.st = "open", !.subs = start[c].insts] \in Connections
        BY <3>1, IdleTyped DEF Connections
      <3>3. [Off EXCEPT !.st = "open", !.subs = start[c].insts].seen = {}
        BY DEF Off
      <3>4. QED
        BY <1>0, <2>1, <3>2, <3>3 DEF DialOk, ConnTyped
    <2>2. QED
      BY <1>0, <2>1 DEF Starts, Claim, ReadInsts, DialFails, LateReset, Store
  <1>3. RestTyped'
    <2>1. UNCHANGED <<sig, level, book, cause, due, closed>>
      BY DEF Starts, Claim, ReadInsts, DialOk, DialFails, LateReset, Store
    <2>2. started' \in BOOLEAN /\ late' \in BOOLEAN /\ client' \in {0} \union Clients
      BY <1>0 DEF Starts, Claim, ReadInsts, DialOk, DialFails, LateReset, Store, RestTyped
    <2>3. monitors' \in 0..MaxMonitors /\ monitors' >= monitors
      BY <1>0, OkxWatcherAssumption
      DEF Starts, Claim, ReadInsts, DialOk, DialFails, LateReset, Store, RestTyped
    <2>4. QED
      BY <1>0, <1>1, <2>1, <2>2, <2>3, OkxWatcherAssumption DEF RestTyped
  <1>4. QED
    BY <1>2, <1>3, TypeParts

\* The monitor and Close hang the stored client up.
LEMMA HungUp ==
  ASSUME TypeOK, client \in Clients, conn' = [conn EXCEPT ![client] = Hang(@)]
  PROVE  /\ ConnTyped(conn') /\ ~Live(conn'[client])
         /\ \A c \in Clients : Live(conn'[c]) => Live(conn[c])
         /\ \A c \in Clients : conn'[c].msg = conn[c].msg
  <1>1. ConnTyped(conn)
    BY DEF TypeOK, ConnTyped
  <1>2. /\ Hang(conn[client]) \in Connections
        /\ Hang(conn[client]).seen \subseteq Hang(conn[client]).subs
        /\ ~Live(Hang(conn[client])) /\ Hang(conn[client]).msg = conn[client].msg
    BY <1>1, HangTyped DEF ConnTyped
  <1>3. conn'[client] = Hang(conn[client]) /\ \A c \in Clients : c # client => conn'[c] = conn[c]
    BY <1>1 DEF ConnTyped
  <1>4. ConnTyped(conn')
    BY <1>1, <1>2, <1>3 DEF ConnTyped
  <1>5. QED
    BY <1>2, <1>3, <1>4

LEMMA MonitorActsTyped ==
  ASSUME TypeOK, MonitorActs PROVE TypeOK' /\ Calm
  <1>0. RestTyped /\ ConnTyped(conn)
    BY TypeParts
  <1>1. Calm
    <2>1. CASE started /\ client # 0
      BY <1>0, <2>1, HungUp DEF MonitorActs, Calm, RestTyped
    <2>2. CASE ~(started /\ client # 0)
      BY <1>0, <2>2 DEF MonitorActs, Calm
    <2>3. QED
      BY <2>1, <2>2
  <1>2. start' \in [Clients -> Goroutines]
    BY <1>0, SpawnTyped DEF MonitorActs, RestTyped
  <1>3. due' \in 0..monitors
    BY <1>0, OkxWatcherAssumption DEF MonitorActs, RestTyped
  <1>4. UNCHANGED <<sig, level, book, monitors, cause, late, closed>>
    BY DEF MonitorActs
  <1>5. RestTyped'
    BY <1>0, <1>1, <1>2, <1>3, <1>4 DEF RestTyped, Calm
  <1>6. QED
    BY <1>1, <1>5, TypeParts DEF Calm

LEMMA CloseWatcherTyped ==
  ASSUME TypeOK, CloseWatcher PROVE TypeOK'
  <1>0. RestTyped /\ ConnTyped(conn)
    BY TypeParts
  <1>1. ConnTyped(conn')
    BY <1>0, HungUp DEF CloseWatcher, RestTyped
  <1>2. RestTyped'
    BY <1>0 DEF CloseWatcher, RestTyped
  <1>3. QED
    BY <1>1, <1>2, TypeParts

LEMMA NextCases ==
  ASSUME Next
  PROVE  \/ SignalStep \/ MessageStep \/ MonitorLooks \/ MonitorActs \/ CloseWatcher
         \/ \E s \in Signals : AddSignal(s)
         \/ \E c \in Clients : Starts(c)
  BY DEF Next, SignalStep, MessageStep

LEMMA TypesKept ==
  ASSUME TypeOK, [Next]_vars PROVE TypeOK'
  <1>1. CASE SignalStep \/ MessageStep \/ MonitorLooks
    BY <1>1, StreamCalm, SignalStepTyped, MessageStepTyped, TypeParts DEF Calm
  <1>2. CASE UNCHANGED vars
    BY <1>2 DEF vars, TypeOK
  <1>3. QED
    BY <1>1, <1>2, NextCases, MonitorActsTyped, CloseWatcherTyped, AddSignalTyped, StartsTyped

-----------------------------------------------------------------------------
(* One stream *)

LEMMA BackedKept ==
  ASSUME TypeOK, StartedIsBacked, [Next]_vars PROVE StartedIsBacked'
  <1>1. ASSUME Calm, UNCHANGED start PROVE StartedIsBacked'
    BY <1>1 DEF Calm, StartedIsBacked
  <1>2. ASSUME NEW s \in Signals, AddSignal(s) PROVE StartedIsBacked'
    <2>1. \A c \in Clients : start[c].pc \in {"read", "dial", "store"} => start'[c] = start[c]
      BY <1>2 DEF AddSignal, Spawn, NextFree, Free, TypeOK
    <2>2. QED
      BY <1>2, <2>1 DEF AddSignal, StartedIsBacked
  <1>3. ASSUME NEW c \in Clients, Starts(c) PROVE StartedIsBacked'
    <2>1. start \in [Clients -> Goroutines] /\ client \in {0} \union Clients
      BY DEF TypeOK
    <2>2. \A d \in Clients : d # c => start'[d] = start[d]
      BY <1>3, <2>1 DEF Starts, Claim, ReadInsts, DialOk, DialFails, LateReset, Store
    <2>3. CASE Claim(c)
      <3>1. start'[c].pc = IF started THEN "free" ELSE "read"
        BY <2>1, <2>3 DEF Claim, Idle, Goroutines
      <3>2. QED
        BY <2>2, <2>3, <3>1 DEF Claim, StartedIsBacked
    <2>4. CASE ReadInsts(c)
      <3>1. started' => start'[c].pc = "dial"
        BY <2>1, <2>4 DEF ReadInsts, Idle, Goroutines
      <3>2. QED
        BY <3>1 DEF StartedIsBacked
    <2>5. CASE DialOk(c)
      <3>1. start'[c].pc = "store"
        BY <2>1, <2>5 DEF DialOk, Goroutines
      <3>2. QED
        BY <3>1 DEF StartedIsBacked
    <2>6. CASE DialFails(c) \/ LateReset(c)
      BY <2>6 DEF DialFails, LateReset, StartedIsBacked
    <2>7. CASE Store(c)
      BY <2>7 DEF Store, StartedIsBacked, Clients
    <2>8. QED
      BY <1>3, <2>3, <2>4, <2>5, <2>6, <2>7 DEF Starts
  <1>4. ASSUME MonitorActs PROVE StartedIsBacked'
    <2>1. CASE started /\ client # 0
      BY <1>4, <2>1 DEF MonitorActs, StartedIsBacked
    <2>2. CASE ~(started /\ client # 0)
      BY <1>4, <2>2 DEF MonitorActs, StartedIsBacked
    <2>3. QED
      BY <2>1, <2>2
  <1>5. ASSUME CloseWatcher \/ UNCHANGED vars PROVE StartedIsBacked'
    BY <1>5 DEF CloseWatcher, vars, StartedIsBacked
  <1>6. QED
    BY <1>1, <1>2, <1>3, <1>4, <1>5, NextCases, StreamCalm

\* The goroutines that are spawned and those that give up hold nothing.
LEMMA CalmKeepsHolder ==
  ASSUME TypeOK, OneHolder, Calm, UNCHANGED <<late, closed>>,
         \A c \in Clients : start[c].pc \in {"read", "dial", "store"}
                              \/ start'[c].pc \in {"read", "dial", "store"} => start'[c] = start[c]
  PROVE  OneHolder'
  <1>1. CASE late \/ closed
    BY <1>1 DEF OneHolder
  <1>2. CASE ~late /\ ~closed
    <2>1. \A c \in Clients : Building(c)' <=> Building(c)
      BY DEF Building
    <2>2. \A c \in Clients : start[c].pc = "store" <=> start'[c].pc = "store"
      OBVIOUS
    <2>3. QED
      BY <1>2, <2>1, <2>2 DEF OneHolder, Calm, Live
  <1>3. QED
    BY <1>1, <1>2

LEMMA StartsKeepHolder ==
  ASSUME TypeOK, OneHolder, NEW c \in Clients, Starts(c) PROVE OneHolder'
  <1>1. CASE late' \/ closed'
    BY <1>1 DEF OneHolder
  <1>2. CASE ~late' /\ ~closed'
    <2>0. ~late /\ ~closed
      <3>1. late \in BOOLEAN /\ closed' = closed /\ (late => late')
        BY DEF Starts, Claim, ReadInsts, DialOk, DialFails, LateReset, Store, TypeOK
      <3>2. QED
        BY <1>2, <3>1
    <2>1. start \in [Clients -> Goroutines] /\ conn \in [Clients -> Connections]
      BY DEF TypeOK
    <2>2. \A d \in Clients : d # c => start'[d] = start[d] /\ conn'[d] = conn[d]
      BY <2>1 DEF Starts, Claim, ReadInsts, DialOk, DialFails, LateReset, Store
    <2>3. /\ \A d \in Clients : Building(d) => start[d].pc # "claim" /\ start[d].pc # "reset" /\ start[d].pc # "free"
          /\ \A d \in Clients : d # c => (Building(d)' <=> Building(d))
      BY <2>2 DEF Building
    <2>4. CASE Claim(c)
      <3>1. /\ start'[c].pc = IF started THEN "free" ELSE "read"
            /\ start[c].pc = "claim" /\ started' /\ UNCHANGED <<client, conn>>
        BY <2>1, <2>4 DEF Claim, Idle, Goroutines
      <3>2. Building(c)' <=> ~started
        BY <3>1 DEF Building
      <3>3. QED
        BY <2>0, <2>2, <2>3, <3>1, <3>2 DEF OneHolder
    <2>5. CASE ReadInsts(c)
      <3>0. start[c].pc = "read" /\ UNCHANGED <<client, conn>>
        BY <2>5 DEF ReadInsts
      <3>1. /\ start'[c].pc \in {"free", "dial"}
            /\ start'[c].pc = "free" => ~started'
            /\ start'[c].pc = "dial" => UNCHANGED started
        <4>1. CASE Active = {}
          BY <2>1, <2>5, <4>1 DEF ReadInsts, Idle
        <4>2. CASE Active # {}
          <5> DEFINE A == Active
          <5>1. start' = [start EXCEPT ![c] = [start[c] EXCEPT !.pc = "dial", !.insts = A]] /\ UNCHANGED started
            BY <2>5, <4>2 DEF ReadInsts
          <5> HIDE DEF A
          <5>2. start'[c].pc = "dial"
            BY <2>1, <5>1 DEF Goroutines
          <5>3. QED
            BY <5>1, <5>2
        <4>3. QED
          BY <4>1, <4>2
      <3>2. Building(c) /\ (Building(c)' <=> start'[c].pc = "dial")
        BY <3>0, <3>1 DEF Building
      <3>3. QED
        BY <2>0, <2>2, <2>3, <3>0, <3>1, <3>2 DEF OneHolder
    <2>6. CASE DialOk(c)
      <3>1. start[c].pc = "dial" /\ start'[c].pc = "store" /\ UNCHANGED <<client, started>>
        BY <2>1, <2>6 DEF DialOk, Goroutines
      <3>2. Building(c) /\ Building(c)'
        BY <3>1 DEF Building
      <3>3. QED
        BY <2>0, <2>2, <2>3, <3>1, <3>2 DEF OneHolder
    <2>7. CASE DialFails(c)
      <3>1. /\ start[c].pc = "dial" /\ start'[c].pc \in {"free", "reset"}
            /\ started' = FALSE /\ UNCHANGED <<client, conn>>
        BY <2>1, <2>7 DEF DialFails, Idle, Goroutines
      <3>2. Building(c) /\ ~Building(c)'
        BY <3>1 DEF Building
      <3>3. QED
        BY <2>0, <2>2, <2>3, <3>1, <3>2 DEF OneHolder
    <2>8. CASE LateReset(c)
      <3>1. /\ start[c].pc = "reset" /\ start'[c].pc = "free"
            /\ ~started /\ started' = FALSE /\ UNCHANGED <<client, conn>>
        BY <1>2, <2>1, <2>8 DEF LateReset, Idle
      <3>2. ~Building(c) /\ ~Building(c)'
        BY <3>1 DEF Building
      <3>3. QED
        BY <2>0, <2>2, <2>3, <3>1, <3>2 DEF OneHolder
    <2>9. CASE Store(c)
      <3>1. /\ start[c].pc = "store" /\ start'[c].pc = "free" /\ client' = c
            /\ UNCHANGED <<started, conn>>
        BY <2>1, <2>9 DEF Store, Idle
      <3>2. Building(c) /\ ~Building(c)'
        BY <3>1 DEF Building
      <3>3. \A d \in Clients : d # c => start[d].pc # "store"
        BY <2>0, <3>1 DEF OneHolder, Building
      <3>4. QED
        BY <2>0, <2>2, <2>3, <3>1, <3>2, <3>3 DEF OneHolder, Clients
    <2>10. QED
      BY <2>4, <2>5, <2>6, <2>7, <2>8, <2>9 DEF Starts
  <1>3. QED
    BY <1>1, <1>2

LEMMA HolderKept ==
  ASSUME TypeOK, OneHolder, [Next]_vars PROVE OneHolder'
  <1>0. start \in [Clients -> Goroutines]
    BY DEF TypeOK
  <1>1. ASSUME SignalStep \/ MessageStep \/ MonitorLooks PROVE OneHolder'
    BY <1>1, StreamCalm, CalmKeepsHolder
  <1>2. ASSUME NEW s \in Signals, AddSignal(s) PROVE OneHolder'
    <2>1. \A c \in Clients : start[c].pc \in {"read", "dial", "store"}
                               \/ start'[c].pc \in {"read", "dial", "store"} => start'[c] = start[c]
      <3>1. ASSUME NEW c \in Clients, NextFree(c), Spawn(c, "add")
            PROVE  start[c].pc = "free" /\ start'[c].pc = "claim"
                      /\ \A d \in Clients : d # c => start'[d] = start[d]
        BY <1>0, <3>1, SpawnTyped DEF NextFree, Free
      <3>2. QED
        BY <1>2, <3>1 DEF AddSignal
    <2>2. Calm /\ UNCHANGED <<late, closed>>
      BY <1>2 DEF AddSignal, Calm, ConnTyped, TypeOK
    <2>3. QED
      BY <2>1, <2>2, CalmKeepsHolder
  <1>3. ASSUME MonitorActs PROVE OneHolder'
    <2>1. \A c \in Clients : start[c].pc \in {"read", "dial", "store"}
                               \/ start'[c].pc \in {"read", "dial", "store"} => start'[c] = start[c]
      <3>1. ASSUME NEW c \in Clients, NextFree(c), Spawn(c, "monitor")
            PROVE  start[c].pc = "free" /\ start'[c].pc = "claim"
                      /\ \A d \in Clients : d # c => start'[d] = start[d]
        BY <1>0, <3>1, SpawnTyped DEF NextFree, Free
      <3>2. QED
        BY <1>3, <3>1 DEF MonitorActs
    <2>2. UNCHANGED <<late, closed>>
      BY <1>3 DEF MonitorActs
    <2>3. QED
      BY <1>3, <2>1, <2>2, CalmKeepsHolder, MonitorActsTyped
  <1>4. ASSUME CloseWatcher \/ UNCHANGED vars PROVE OneHolder'
    BY <1>4 DEF CloseWatcher, vars, OneHolder, Building
  <1>5. QED
    BY <1>1, <1>2, <1>3, <1>4, StartsKeepHolder, NextCases

-----------------------------------------------------------------------------
(* Signals fire for a reason *)

\* A removal changes no message, and processing one only empties it.
LEMMA RemoveMessages ==
  ASSUME TypeOK, NEW s \in Signals, RemoveSignal(s)
  PROVE  \A c \in Clients : conn'[c].msg = conn[c].msg
  <1>0. ConnTyped(conn) /\ client \in {0} \union Clients
    BY DEF TypeOK, ConnTyped
  <1>1. Drop({s}, "removed", book, conn)
    BY DEF RemoveSignal
  <1>2. \A c \in Clients : conn'[c].msg = conn[c].msg /\ (Live(conn'[c]) => Live(conn[c]))
    BY <1>0, <1>1, DropConn, Zenon
  <1>3. QED
    BY <1>2

LEMMA ProcessMessages ==
  ASSUME TypeOK, NEW c \in Clients, Process(c)
  PROVE  \A d \in Clients : conn'[d].msg \in {conn[d].msg, None}
  <1> DEFINE emptied == [conn EXCEPT ![c] = Emptied(@)]
             ends == Triggered(conn[c].msg)
             merged == Merged(conn[c].msg)
  <1>1. Drop(ends, "fired", merged, emptied)
    BY DEF Process
  <1>2. client \in {0} \union Clients
    BY DEF TypeOK
  <1>3. ConnTyped(emptied) /\ \A d \in Clients : emptied[d].msg \in {conn[d].msg, None}
    BY ProcessConn
  <1> HIDE DEF emptied, ends, merged
  <1>4. \A d \in Clients : conn'[d].msg = emptied[d].msg /\ (Live(conn'[d]) => Live(emptied[d]))
    BY <1>1, <1>2, <1>3, DropConn, Zenon
  <1>5. QED
    BY <1>3, <1>4

LEMMA SignalStepUnchanged ==
  ASSUME TypeOK, Unchanged, SignalStep PROVE Unchanged'
  <1>0. sig \in [Signals -> {"new", "checked", "watched", "fired", "removed"}]
        /\ level \in [Signals -> Qty] /\ client \in {0} \union Clients
    BY DEF TypeOK
  <1>1. ASSUME NEW s \in Signals, Check(s) PROVE Unchanged'
    <2>1. /\ sig' = [sig EXCEPT ![s] = "checked"] /\ level[s] = "whole"
          /\ cause \subseteq cause' /\ UNCHANGED <<level, book, conn>>
          /\ s \in cause' \/ \A c \in Clients : s \notin DOMAIN conn[c].msg.qty
      BY <1>1 DEF Check
    <2>2. \A t \in Signals : t # s => sig'[t] = sig[t]
      BY <1>0, <2>1
    <2>3. sig'[s] = "checked"
      BY <1>0, <2>1
    <2>4. QED
      BY <2>1, <2>2, <2>3 DEF Unchanged
  <1>2. ASSUME NEW s \in Signals, RemoveSignal(s) PROVE Unchanged'
    <2>1. /\ \A t \in Signals : t # s => sig'[t] = sig[t] /\ level'[t] = level[t]
          /\ sig'[s] = "removed" /\ cause' = cause \ {s}
      BY <1>2 DEF RemoveSignal, Drop
    <2>2. \A t \in Signals : sig[t] = "watched" /\ t # s => book'[t] = book[t]
      <3>1. \A t \in Signals : sig[t] = "watched" /\ t # s => InstOf[t] \in {InstOf[w] : w \in Watched \ {s}}
        BY DEF Watched
      <3>2. QED
        BY <1>2, <3>1 DEF RemoveSignal, Drop
    <2>3. \A c \in Clients : conn'[c].msg = conn[c].msg
      BY <1>2, RemoveMessages
    <2>4. QED
      BY <2>1, <2>2, <2>3 DEF Unchanged
  <1>3. ASSUME NEW s \in Signals, NEW q \in Levels(s), Move(s, q) PROVE Unchanged'
    <2>1. /\ level' = [level EXCEPT ![s] = q] /\ UNCHANGED <<sig, book, conn>>
          /\ cause \subseteq cause' /\ (sig[s] # "new" => s \in cause')
      BY <1>3 DEF Move
    <2>2. \A t \in Signals : t # s => level'[t] = level[t]
      BY <1>0, <2>1
    <2>3. QED
      BY <2>1, <2>2 DEF Unchanged
  <1>4. QED
    BY <1>1, <1>2, <1>3 DEF SignalStep

\* A signal whose order is unchanged does not fire: what is merged is whole.
LEMMA MergedWhole ==
  ASSUME TypeOK, Unchanged, NEW c \in Clients, NEW s \in Signals, sig[s] = "watched", s \notin cause
  PROVE  Merged(conn[c].msg)[s] = "whole" /\ s \notin Triggered(conn[c].msg)
  <1>1. Merged(conn[c].msg)[s] = "whole"
    BY DEF Unchanged, Merged
  <1>2. QED
    BY <1>1 DEF Triggered, Fires

LEMMA ProcessUnchanged ==
  ASSUME TypeOK, Unchanged, NEW c \in Clients, Process(c) PROVE Unchanged'
  <1> DEFINE m == conn[c].msg
             ends == Triggered(m)
  <1>1. Drop(ends, "fired", Merged(m), [conn EXCEPT ![c] = Emptied(@)])
    BY DEF Process
  <1>2. ends \subseteq Watched
    BY DEF Triggered
  <1>3. \A s \in Signals : sig[s] = "watched" /\ s \notin cause => Merged(m)[s] = "whole" /\ s \notin ends
    BY MergedWhole
  <1>4. \A d \in Clients : conn'[d].msg \in {conn[d].msg, None}
    BY ProcessMessages
  <1> HIDE DEF m, ends
  <1>5. /\ \A s \in Signals : s \notin ends => sig'[s] = sig[s] /\ level'[s] = level[s]
        /\ \A s \in ends \cap Signals : sig'[s] = "fired"
        /\ cause' = cause \ ends
    BY <1>1 DEF Drop
  <1>6. \A s \in Signals : sig[s] = "watched" /\ s \notin ends => book'[s] = Merged(m)[s]
    <2>1. \A s \in Signals : sig[s] = "watched" /\ s \notin ends => InstOf[s] \in {InstOf[w] : w \in Watched \ ends}
      BY DEF Watched
    <2>2. QED
      BY <1>1, <2>1 DEF Drop
  <1>7. QED
    BY <1>3, <1>4, <1>5, <1>6, NoneNames DEF Unchanged

LEMMA ReceiveUnchanged ==
  ASSUME TypeOK, Unchanged, NEW c \in Clients,
         (\E i \in Insts : ReceiveSnapshot(c, i)) \/ (\E s \in Signals : ReceiveUpdate(c, s)) \/ Breaks(c)
  PROVE  Unchanged'
  <1>0. conn \in [Clients -> Connections]
    BY DEF TypeOK
  <1>1. UNCHANGED <<sig, level, book, cause>> /\ \A d \in Clients : d # c => conn'[d] = conn[d]
    BY <1>0 DEF ReceiveSnapshot, ReceiveUpdate, Breaks
  <1>2. conn'[c].msg = conn[c].msg \/ \A s \in DOMAIN conn'[c].msg.qty : conn'[c].msg.qty[s] = level[s]
    <2>1. ASSUME NEW i \in Insts, ReceiveSnapshot(c, i)
          PROVE  conn'[c].msg = [inst |-> i, qty |-> [s \in {t \in Of(i) : level[t] # "gone"} |-> level[s]]]
      <3>1. DOMAIN conn[c] = {"st", "subs", "seen", "told", "msg"}
        BY <1>0 DEF Connections
      <3>2. QED
        BY <1>0, <2>1, <3>1 DEF ReceiveSnapshot
    <2>2. ASSUME NEW s \in Signals, ReceiveUpdate(c, s)
          PROVE  conn'[c].msg = [inst |-> InstOf[s], qty |-> [t \in {s} |-> level[s]]]
      <3>1. DOMAIN conn[c] = {"st", "subs", "seen", "told", "msg"}
        BY <1>0 DEF Connections
      <3>2. QED
        BY <1>0, <2>2, <3>1 DEF ReceiveUpdate
    <2>3. ASSUME Breaks(c) PROVE conn'[c].msg = conn[c].msg
      BY <1>0, <2>3 DEF Breaks, Connections
    <2>4. ASSUME NEW i \in Insts, ReceiveSnapshot(c, i)
          PROVE  \A s \in DOMAIN conn'[c].msg.qty : conn'[c].msg.qty[s] = level[s]
      <3> DEFINE q == [s \in {t \in Of(i) : level[t] # "gone"} |-> level[s]]
      <3>1. \A s \in DOMAIN q : q[s] = level[s]
        OBVIOUS
      <3>2. conn'[c].msg = [inst |-> i, qty |-> q]
        BY <2>1, <2>4
      <3> HIDE DEF q
      <3>3. QED
        BY <3>1, <3>2
    <2>5. ASSUME NEW s \in Signals, ReceiveUpdate(c, s)
          PROVE  \A t \in DOMAIN conn'[c].msg.qty : conn'[c].msg.qty[t] = level[t]
      <3> DEFINE q == [t \in {s} |-> level[s]]
      <3>1. \A t \in DOMAIN q : q[t] = level[t]
        OBVIOUS
      <3>2. conn'[c].msg = [inst |-> InstOf[s], qty |-> q]
        BY <2>2, <2>5
      <3> HIDE DEF q
      <3>3. QED
        BY <3>1, <3>2
    <2>6. QED
      BY <2>3, <2>4, <2>5
  <1>3. QED
    BY <1>1, <1>2 DEF Unchanged

LEMMA UnchangedKept ==
  ASSUME TypeOK, Unchanged, [Next]_vars PROVE Unchanged'
  <1>0. /\ sig \in [Signals -> {"new", "checked", "watched", "fired", "removed"}]
        /\ book \in [Signals -> Qty] /\ client \in {0} \union Clients
    BY DEF TypeOK
  <1>1. ASSUME NEW s \in Signals, AddSignal(s) PROVE Unchanged'
    <2>1. /\ sig' = [sig EXCEPT ![s] = "watched"] /\ sig[s] = "checked"
          /\ book' = [book EXCEPT ![s] = "whole"] /\ UNCHANGED <<level, cause, conn>>
      BY <1>1 DEF AddSignal
    <2>2. /\ \A t \in Signals : t # s => sig'[t] = sig[t] /\ book'[t] = book[t]
          /\ book'[s] = "whole"
      BY <1>0, <2>1
    <2>3. QED
      BY <2>1, <2>2 DEF Unchanged
  <1>2. ASSUME UNCHANGED <<sig, level, book, cause>>, \A c \in Clients : conn'[c].msg \in {conn[c].msg, None}
        PROVE  Unchanged'
    BY <1>2, NoneNames DEF Unchanged
  <1>3. ASSUME NEW c \in Clients, Starts(c) PROVE Unchanged'
    <2>1. UNCHANGED <<sig, level, book, cause>>
      BY <1>3 DEF Starts, Claim, ReadInsts, DialOk, DialFails, LateReset, Store
    <2>2. \A d \in Clients : conn'[d].msg \in {conn[d].msg, None}
      BY <1>3 DEF Starts, Claim, ReadInsts, DialOk, DialFails, LateReset, Store, Off, TypeOK
    <2>3. QED
      BY <1>2, <2>1, <2>2
  <1>4. ASSUME MonitorLooks \/ MonitorActs \/ CloseWatcher \/ UNCHANGED vars PROVE Unchanged'
    <2>1. UNCHANGED <<sig, level, book, cause>>
      BY <1>4 DEF MonitorLooks, MonitorActs, CloseWatcher, vars
    <2>2. \A d \in Clients : conn'[d].msg = conn[d].msg
      BY <1>0, <1>4, HungUp DEF MonitorLooks, MonitorActs, CloseWatcher, vars
    <2>3. QED
      BY <1>2, <2>1, <2>2
  <1>5. ASSUME MessageStep PROVE Unchanged'
    BY <1>5, ProcessUnchanged, ReceiveUnchanged DEF MessageStep
  <1>6. QED
    BY <1>1, <1>3, <1>4, <1>5, SignalStepUnchanged, NextCases

-----------------------------------------------------------------------------
(* The invariant *)

LEMMA InitEstablishes == Init => IInv
  <1> SUFFICES ASSUME Init PROVE IInv
    OBVIOUS
  <1>1. TypeOK
    <2>1. ConnTyped(conn)
      BY IdleTyped DEF Init, ConnTyped, Off
    <2>2. start \in [Clients -> Goroutines]
      BY IdleTyped DEF Init
    <2>3. monitors \in 0..MaxMonitors /\ due \in 0..monitors
      BY OkxWatcherAssumption DEF Init
    <2>4. RestTyped
      BY <2>2, <2>3 DEF Init, RestTyped, Qty
    <2>5. QED
      BY <2>1, <2>4, TypeParts
  <1>2. StartedIsBacked /\ OneHolder
    BY DEF Init, StartedIsBacked, OneHolder, Building, Idle, Off
  <1>3. Unchanged
    BY DEF Init, Unchanged
  <1>4. QED
    BY <1>1, <1>2, <1>3 DEF IInv

LEMMA Invariance == Spec => []IInv
  <1>1. IInv /\ [Next]_vars => IInv'
    BY TypesKept, BackedKept, HolderKept, UnchangedKept DEF IInv
  <1>2. QED
    BY <1>1, InitEstablishes, PTL DEF Spec

-----------------------------------------------------------------------------
(* What follows *)

\* The watcher, its goroutines, connections and messages keep their types.
THEOREM TypeCorrect == Spec => []TypeOK
  <1>1. IInv => TypeOK
    BY DEF IInv
  <1>2. QED
    BY <1>1, Invariance, PTL

\* However starts, failures, removals and monitors overlap, `started' has a
\* client or a goroutine behind it.
THEOREM StartedBacked == Spec => []StartedIsBacked
  <1>1. IInv => StartedIsBacked
    BY DEF IInv
  <1>2. QED
    BY <1>1, Invariance, PTL

\* One connection at a time is open or being made, unless a reset came late or
\* the watcher was closed meanwhile.
THEOREM StreamIsOne == Spec => []OneStream
  <1>1. ASSUME IInv PROVE OneStream
    <2> DEFINE streams == {c \in Clients : conn[c].st \in {"open", "broken"} \/ start[c].pc = "dial"}
    <2>1. CASE late \/ closed
      BY <2>1 DEF OneStream
    <2>2. CASE ~late /\ ~closed
      <3>1. \A c, d \in streams : c = d
        BY <1>1, <2>2 DEF IInv, OneHolder, Building, TypeOK, Clients
      <3>2. streams = {} \/ \E c \in streams : streams = {c}
        BY <3>1
      <3> HIDE DEF streams
      <3>3. Cardinality(streams) \in {0, 1}
        BY <3>2, FS_EmptySet, FS_Singleton
      <3>4. QED
        BY <3>3 DEF OneStream, streams
    <2>3. QED
      BY <2>1, <2>2
  <1>2. QED
    BY <1>1, Invariance, PTL

\* A signal fires only when its order has changed since the handler saw it, or
\* a message read before that names it.
THEOREM FiresBecause == Spec => FiresForCause
  <1>1. ASSUME IInv, [Next]_vars, NEW s \in Signals, sig[s] # "fired", sig'[s] = "fired"
        PROVE  s \in cause
    <2>0. sig \in [Signals -> {"new", "checked", "watched", "fired", "removed"}]
      BY <1>1 DEF IInv, TypeOK
    <2>1. PICK c \in Clients : Process(c)
      <3>1. ASSUME SignalStep PROVE FALSE
        BY <1>1, <2>0, <3>1 DEF SignalStep, Check, RemoveSignal, Move, Drop
      <3>2. ASSUME NEW t \in Signals, AddSignal(t) PROVE FALSE
        BY <1>1, <2>0, <3>2 DEF AddSignal
      <3>3. ASSUME (\E c \in Clients : Starts(c)) \/ MonitorLooks \/ MonitorActs \/ CloseWatcher
                     \/ UNCHANGED vars
            PROVE  FALSE
        BY <1>1, <3>3 DEF Starts, Claim, ReadInsts, DialOk, DialFails, LateReset, Store,
           MonitorLooks, MonitorActs, CloseWatcher, vars
      <3>4. ASSUME MessageStep PROVE \E c \in Clients : Process(c)
        BY <1>1, <3>4 DEF MessageStep, ReceiveSnapshot, ReceiveUpdate, Breaks
      <3>5. QED
        BY <1>1, <3>1, <3>2, <3>3, <3>4, NextCases
    <2>2. s \in Triggered(conn[c].msg)
      BY <1>1, <2>1 DEF Process, Drop
    <2>3. sig[s] = "watched"
      BY <2>2 DEF Triggered, Watched
    <2>4. QED
      BY <1>1, <2>2, <2>3, MergedWhole DEF IInv
  <1>2. IInv /\ [Next]_vars => [\A s \in Signals : sig[s] # "fired" /\ sig'[s] = "fired" => s \in cause]_vars
    BY <1>1
  <1>3. QED
    BY <1>2, Invariance, PTL DEF Spec, FiresForCause
=============================================================================
