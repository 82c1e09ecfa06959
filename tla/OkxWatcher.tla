----------------------------- MODULE OkxWatcher -----------------------------
(***************************************************************************)
(* The order-book watcher of one OKX user: MarketDepthWatcher in           *)
(* internal/okx/service/websocket_watcher.go and its WebSocketClient.      *)
(*                                                                         *)
(* Everything under w.mu is one action.  StartConnection lets go of the    *)
(* mutex between claiming `started', reading the instruments, dialling     *)
(* and storing the client, so each of these is an action; any number of    *)
(* goroutines may be in it.  The reader of a client runs from the moment   *)
(* the subscription is sent, before the client is stored, and a message    *)
(* it has read may wait for the mutex while the client is closed.          *)
(*                                                                         *)
(* Each signal has a price level of its own.  The exchange sends a         *)
(* snapshot of a subscribed instrument, which names the levels that        *)
(* exist, then the levels that changed.                                    *)
(***************************************************************************)
EXTENDS Naturals, FiniteSets

CONSTANTS
  Signals,
  Insts,
  InstOf,      \* the instrument of a signal
  OnCancel,    \* the signals with TriggerOnCancel
  OnEat,       \* the signals with TriggerOnEat
  MaxStarts,   \* goroutines in StartConnection or with a connection at one time
  MaxMonitors, \* monitorActivity goroutines that can tell themselves apart
  Closes       \* whether Close is ever called

ASSUME OkxWatcherAssumption ==
  /\ InstOf \in [Signals -> Insts] /\ "none" \notin Insts
  /\ OnCancel \subseteq Signals /\ OnEat \subseteq Signals
  /\ MaxStarts \in Nat \ {0} /\ MaxMonitors \in Nat \ {0} /\ Closes \in BOOLEAN

VARIABLES
  sig,      \* signal: "new", "checked" by the handler, "watched", "fired", "removed"
  level,    \* the order at the signal's price on the exchange
  book,     \* the same level in w.orderBooks
  started,  \* w.started
  client,   \* w.client, 0 for nil
  start,    \* goroutines in StartConnection, by the client they create
  conn,     \* the connection of a client
  monitors, \* monitorActivity goroutines
  due,      \* those that found the stream silent and wait for the mutex
  cause,    \* history: watched signals whose level has changed since the check
  late,     \* history: the reset after a failed start hit another start
  closed    \* history: Close was called

vars == <<sig, level, book, started, client, start, conn, monitors, due, cause, late, closed>>

Clients == 1..MaxStarts
Qty     == {"gone", "eaten", "whole"}

\* An order that is not watched for eating is only there or not there.
Levels(s) == IF s \in OnEat THEN Qty ELSE Qty \ {"eaten"}

Idle == [pc |-> "free", by |-> "add", insts |-> {}]
None == [inst |-> "none", qty |-> <<>>]
Off  == [st |-> "none", subs |-> {}, seen |-> {}, told |-> [s \in Signals |-> "gone"], msg |-> None]

Init ==
  /\ sig = [s \in Signals |-> "new"]
  /\ level = [s \in Signals |-> "gone"]
  /\ book = [s \in Signals |-> "gone"]
  /\ started = FALSE
  /\ client = 0
  /\ start = [c \in Clients |-> Idle]
  /\ conn = [c \in Clients |-> Off]
  /\ monitors = 0 /\ due = 0
  /\ cause = {}
  /\ late = FALSE
  /\ closed = FALSE

Of(i)    == {s \in Signals : InstOf[s] = i}
Watched  == {s \in Signals : sig[s] = "watched"}
Followed == {s \in Signals : sig[s] \notin {"fired", "removed"}}
Active   == {InstOf[s] : s \in Watched}          \* w.activeInstruments
Free(c)  == start[c].pc = "free" /\ conn[c].st = "none"
NextFree(c) == Free(c) /\ \A d \in 1..(c - 1) : ~Free(d)

\* client.Close(): the message already read is still processed.
Hang(r) == IF r.msg = None THEN Off ELSE [r EXCEPT !.st = "closed"]

----------------------------------------------------------------------------
(* AddSignal and RemoveSignal *)

\* The handler has found the order in the REST order book.
Check(s) ==
  /\ sig[s] = "new" /\ level[s] = "whole"
  /\ sig' = [sig EXCEPT ![s] = "checked"]
  /\ cause' = IF \E c \in Clients : s \in DOMAIN conn[c].msg.qty
              THEN cause \union {s} ELSE cause
  /\ UNCHANGED <<level, book, started, client, start, conn, monitors, due, late, closed>>

\* A goroutine that calls StartConnection.
Spawn(c, by) == start' = [start EXCEPT ![c] = [Idle EXCEPT !.pc = "claim", !.by = by]]

AddSignal(s) ==
  /\ sig[s] = "checked"
  /\ sig' = [sig EXCEPT ![s] = "watched"]
  /\ book' = [book EXCEPT ![s] = "whole"]
  /\ IF InstOf[s] \notin Active /\ ~started
     THEN \E c \in Clients : NextFree(c) /\ Spawn(c, "add")
     ELSE UNCHANGED start
  /\ UNCHANGED <<level, started, client, conn, monitors, due, cause, late, closed>>

\* removeSignalByIDLocked for the signals of `ends': the book of an instrument
\* goes with its last signal, the connection with the last instrument.  The
\* order of a signal that has ended is not followed any further.
EndsConnection(ends) == ends # {} /\ Watched \subseteq ends /\ client # 0

Blind(ends, r) == [r EXCEPT !.told = [s \in Signals |-> IF s \in ends THEN "gone" ELSE @[s]]]

Drop(ends, outcome, newBook, newConn) ==
  LET left  == {InstOf[s] : s \in Watched \ ends}
      blind == [c \in Clients |-> Blind(ends, newConn[c])]
  IN /\ sig' = [s \in Signals |-> IF s \in ends THEN outcome ELSE sig[s]]
     /\ book' = [s \in Signals |->
                   IF s \in ends \/ InstOf[s] \in {InstOf[e] : e \in ends} \ left
                   THEN "gone" ELSE newBook[s]]
     /\ level' = [s \in Signals |-> IF s \in ends THEN "gone" ELSE level[s]]
     /\ cause' = cause \ ends
     /\ IF EndsConnection(ends)
        THEN /\ conn' = [blind EXCEPT ![client] = Hang(@)]
             /\ client' = 0
             /\ started' = FALSE
        ELSE /\ conn' = blind
             /\ UNCHANGED <<client, started>>

RemoveSignal(s) ==
  /\ sig[s] = "watched"
  /\ Drop({s}, "removed", book, conn)
  /\ UNCHANGED <<start, monitors, due, late, closed>>

----------------------------------------------------------------------------
(* StartConnection *)

\* A start that finds the watcher started returns.
Claim(c) ==
  /\ start[c].pc = "claim"
  /\ started' = TRUE
  /\ start' = [start EXCEPT ![c] = IF started THEN Idle ELSE [@ EXCEPT !.pc = "read"]]
  /\ UNCHANGED <<sig, level, book, client, conn, monitors, due, cause, late, closed>>

ReadInsts(c) ==
  /\ start[c].pc = "read"
  /\ IF Active = {}
     THEN started' = FALSE /\ start' = [start EXCEPT ![c] = Idle]
     ELSE /\ start' = [start EXCEPT ![c] = [@ EXCEPT !.pc = "dial", !.insts = Active]]
          /\ UNCHANGED started
  /\ UNCHANGED <<sig, level, book, client, conn, monitors, due, cause, late, closed>>

\* ConnectPublic dials, subscribes and starts the reader.
DialOk(c) ==
  /\ start[c].pc = "dial"
  /\ conn' = [conn EXCEPT ![c] = [Off EXCEPT !.st = "open", !.subs = start[c].insts]]
  /\ start' = [start EXCEPT ![c] = [@ EXCEPT !.pc = "store", !.insts = {}]]
  /\ UNCHANGED <<sig, level, book, started, client, monitors, due, cause, late, closed>>

\* Mutant: a failed dial leaves `started' as it is.
DialFailsKeeps(c) ==
  /\ start[c].pc = "dial"
  /\ start' = [start EXCEPT ![c] = Idle]
  /\ UNCHANGED <<sig, level, book, started, client, conn, monitors, due, cause, late, closed>>

\* The goroutine of AddSignal has another look at `started' afterwards, that
\* of the monitor only logs.
DialFails(c) ==
  /\ start[c].pc = "dial"
  /\ started' = FALSE
  /\ start' = [start EXCEPT ![c] = IF @.by = "add" THEN [Idle EXCEPT !.pc = "reset"] ELSE Idle]
  /\ UNCHANGED <<sig, level, book, client, conn, monitors, due, cause, late, closed>>

LateReset(c) ==
  /\ start[c].pc = "reset"
  /\ started' = FALSE
  /\ start' = [start EXCEPT ![c] = Idle]
  /\ late' = (late \/ started)
  /\ UNCHANGED <<sig, level, book, client, conn, monitors, due, cause, closed>>

\* Mutant: a connection without a monitor.
StoreUnwatched(c) ==
  /\ start[c].pc = "store"
  /\ client' = c
  /\ start' = [start EXCEPT ![c] = Idle]
  /\ UNCHANGED <<sig, level, book, started, conn, monitors, due, cause, late, closed>>

\* Every connection starts a monitor of its own, and none of them ends.
Store(c) ==
  /\ start[c].pc = "store"
  /\ client' = c
  /\ start' = [start EXCEPT ![c] = Idle]
  /\ monitors' = IF monitors < MaxMonitors THEN monitors + 1 ELSE monitors
  /\ UNCHANGED <<sig, level, book, started, conn, due, cause, late, closed>>

\* A goroutine in StartConnection goes on; a dial ends one way or the other.
Starts(c) == \/ Claim(c) \/ ReadInsts(c) \/ DialOk(c) \/ DialFails(c)
             \/ LateReset(c) \/ Store(c)

----------------------------------------------------------------------------
(* The stream *)

\* The exchange: an order is placed, eaten or taken away.
Move(s, q) ==
  /\ s \in Followed /\ q # level[s]
  /\ level' = [level EXCEPT ![s] = q]
  /\ cause' = IF sig[s] # "new" THEN cause \union {s} ELSE cause
  /\ UNCHANGED <<sig, book, started, client, start, conn, monitors, due, late, closed>>

Reads(c) == conn[c].st = "open" /\ conn[c].msg = None

ReceiveSnapshot(c, i) ==
  /\ Reads(c) /\ i \in conn[c].subs \ conn[c].seen
  /\ conn' = [conn EXCEPT ![c] =
       [@ EXCEPT !.seen = conn[c].seen \union {i},
                 !.told = [s \in Signals |-> IF InstOf[s] = i THEN level[s] ELSE conn[c].told[s]],
                 !.msg = [inst |-> i,
                          qty |-> [s \in {t \in Of(i) : level[t] # "gone"} |-> level[s]]]]]
  /\ UNCHANGED <<sig, level, book, started, client, start, monitors, due, cause, late, closed>>

ReceiveUpdate(c, s) ==
  /\ Reads(c) /\ InstOf[s] \in conn[c].seen /\ conn[c].told[s] # level[s]
  /\ conn' = [conn EXCEPT ![c] =
       [@ EXCEPT !.told = [conn[c].told EXCEPT ![s] = level[s]],
                 !.msg = [inst |-> InstOf[s], qty |-> [t \in {s} |-> level[s]]]]]
  /\ UNCHANGED <<sig, level, book, started, client, start, monitors, due, cause, late, closed>>

\* Mutant: a level with quantity zero is not deleted.
MergedKeeps(m) ==
  [s \in Signals |-> IF s \in DOMAIN m.qty \cap Followed /\ m.qty[s] # "gone"
                     THEN m.qty[s] ELSE book[s]]

\* processDepthUpdate: merge the message, fire, remove what fired.
Merged(m) == [s \in Signals |-> IF s \in DOMAIN m.qty \cap Followed THEN m.qty[s] ELSE book[s]]

\* Mutant: what is left of the order is taken for what was eaten.
FiresOnRest(s, q) == \/ s \in OnCancel /\ q = "gone"
                     \/ s \in OnEat /\ q = "whole"

Fires(s, q) == \/ s \in OnCancel /\ q = "gone"
               \/ s \in OnEat /\ q = "eaten"

Triggered(m) == {s \in Watched \cap Of(m.inst) : Fires(s, Merged(m)[s])}

Emptied(r) == IF r.st = "closed" THEN Off ELSE [r EXCEPT !.msg = None]

Process(c) ==
  /\ conn[c].msg # None
  /\ Drop(Triggered(conn[c].msg), "fired", Merged(conn[c].msg), [conn EXCEPT ![c] = Emptied(@)])
  /\ UNCHANGED <<start, monitors, due, late, closed>>

\* readMessages ends at the first error; nobody is told.
Breaks(c) ==
  /\ conn[c].st = "open"
  /\ conn' = [conn EXCEPT ![c] = [@ EXCEPT !.st = "broken"]]
  /\ UNCHANGED <<sig, level, book, started, client, start, monitors, due, cause, late, closed>>

----------------------------------------------------------------------------
(* monitorActivity *)

Speaks(c) == conn[c].st = "open" \/ conn[c].msg # None

\* Half a minute without a message, an AddSignal or a RemoveSignal: time is
\* not modelled, so a monitor may find that at any moment.
MonitorLooks ==
  /\ due < monitors /\ started
  /\ due' = due + 1
  /\ UNCHANGED <<sig, level, book, started, client, start, conn, monitors, cause, late, closed>>

DeadSilence == MonitorLooks /\ \A c \in Clients : ~Speaks(c)

\* Mutant: the monitor acts whether or not it has found silence.
MonitorActsAnyway ==
  /\ monitors > 0
  /\ due' = due - 1
  /\ IF started /\ client # 0
     THEN /\ conn' = [conn EXCEPT ![client] = Hang(@)]
          /\ client' = 0
          /\ started' = FALSE
          /\ \E c \in Clients : NextFree(c) /\ Spawn(c, "monitor")
     ELSE UNCHANGED <<conn, client, started, start>>
  /\ UNCHANGED <<sig, level, book, monitors, cause, late, closed>>

\* Mutant: the monitor restarts without closing the old client.
MonitorActsLeaks ==
  /\ due > 0
  /\ due' = due - 1
  /\ IF started /\ client # 0
     THEN /\ client' = 0
          /\ started' = FALSE
          /\ \E c \in Clients : NextFree(c) /\ Spawn(c, "monitor")
     ELSE UNCHANGED <<client, started, start>>
  /\ UNCHANGED <<sig, level, book, conn, monitors, cause, late, closed>>

MonitorActs ==
  /\ due > 0
  /\ due' = due - 1
  /\ IF started /\ client # 0
     THEN /\ conn' = [conn EXCEPT ![client] = Hang(@)]
          /\ client' = 0
          /\ started' = FALSE
          /\ \E c \in Clients : NextFree(c) /\ Spawn(c, "monitor")
     ELSE UNCHANGED <<conn, client, started, start>>
  /\ UNCHANGED <<sig, level, book, monitors, cause, late, closed>>

\* Close of the watcher, when the user's keys are deleted.
CloseWatcher ==
  /\ Closes /\ ~closed
  /\ closed' = TRUE
  /\ conn' = IF client # 0 THEN [conn EXCEPT ![client] = Hang(@)] ELSE conn
  /\ client' = 0
  /\ started' = FALSE
  /\ UNCHANGED <<sig, level, book, start, monitors, due, cause, late>>

Next ==
  \/ \E s \in Signals : \/ Check(s) \/ AddSignal(s) \/ RemoveSignal(s)
                        \/ \E q \in Levels(s) : Move(s, q)
  \/ \E c \in Clients : \/ Starts(c)
                        \/ \E i \in Insts : ReceiveSnapshot(c, i)
                        \/ \E s \in Signals : ReceiveUpdate(c, s)
                        \/ Process(c) \/ Breaks(c)
  \/ MonitorLooks \/ MonitorActs \/ CloseWatcher

\* A goroutine that can run runs.  The exchange sends every change in the
\* end, whatever else it sends; and a monitor sees that nothing can come.
Fairness ==
  /\ WF_vars(\E c \in Clients : Starts(c))
  /\ \A c \in Clients : WF_vars(Process(c))
  /\ \A s \in Signals : SF_vars(\E c \in Clients : ReceiveUpdate(c, s))
  /\ WF_vars(DeadSilence)
  /\ WF_vars(MonitorActs)

Spec == Init /\ [][Next]_vars /\ Fairness

----------------------------------------------------------------------------

\* Messages name some levels of an instrument, or there is none.
Messages   == {None} \union [inst : Insts, qty : UNION {[S -> Qty] : S \in SUBSET Signals}]
Goroutines == [pc : {"free", "claim", "read", "dial", "store", "reset"}, by : {"add", "monitor"},
               insts : SUBSET Insts]
Connections == [st : {"none", "open", "broken", "closed"}, subs : SUBSET Insts, seen : SUBSET Insts,
                told : [Signals -> Qty], msg : Messages]

\* The types of the state.
TypeOK ==
  /\ sig \in [Signals -> {"new", "checked", "watched", "fired", "removed"}]
  /\ level \in [Signals -> Qty] /\ book \in [Signals -> Qty]
  /\ started \in BOOLEAN /\ late \in BOOLEAN /\ closed \in BOOLEAN
  /\ client \in {0} \union Clients
  /\ cause \subseteq Signals
  /\ monitors \in 0..MaxMonitors /\ due \in 0..monitors
  /\ start \in [Clients -> Goroutines] /\ conn \in [Clients -> Connections]
  /\ \A c \in Clients : conn[c].seen \subseteq conn[c].subs

\* `started' keeps every other start away, so somebody has to be behind it: a
\* stored client, or a start that has not returned.  However starts, failed
\* starts, removals and monitors overlap, the watcher is never started for
\* nothing (websocket_watcher.go:153, 259-272).
StartedIsBacked ==
  started => \/ client # 0
             \/ \E c \in Clients : start[c].pc \in {"read", "dial", "store"}

\* A watcher has one connection: unless the reset after a failed start
\* (websocket_watcher.go:158) hit another start, or the watcher was closed
\* during one, no connection is left open beside the stored one.
OneStream ==
  late \/ closed \/
  Cardinality({c \in Clients : conn[c].st \in {"open", "broken"} \/ start[c].pc = "dial"}) <= 1

\* A signal fires because of its order: the level has changed since the
\* handler saw it, or a message read before that names it
\* (processDepthUpdate, websocket_watcher.go:338).
FiresForCause ==
  [][\A s \in Signals : sig[s] # "fired" /\ sig'[s] = "fired" => s \in cause]_vars

Has(st) == client # 0 /\ conn[client].st = st

\* The watcher gets rid of a dead connection: the monitor sees the silence
\* and drops the client (websocket_watcher.go:676).  Another one may not come:
\* the start that follows may fail.
BrokenIsReplaced == Has("broken") ~> (~Has("broken") \/ late \/ closed)

\* An order that goes while the stream of its instrument is up fires its
\* signal, unless the order comes back, the stream ends or the signal is
\* taken away first.
CancelIsNoticed ==
  \A s \in OnCancel :
    (/\ sig[s] = "watched" /\ level[s] = "gone" /\ Has("open")
     /\ InstOf[s] \in conn[client].seen /\ conn[client].told[s] # "gone")
    ~> (sig[s] # "watched" \/ level[s] # "gone" \/ ~Has("open") \/ late \/ closed)
=============================================================================
