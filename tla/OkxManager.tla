----------------------------- MODULE OkxManager -----------------------------
(***************************************************************************)
(* The signals of one OKX user: the handlers of                            *)
(* internal/okx/transport/http/handler.go, WebSocketManager of             *)
(* internal/okx/service/websocket_manager.go, and what position_watcher.go *)
(* removes when a position closes.                                         *)
(*                                                                         *)
(* A signal lives in two places: its row in okx_signals and the memory of  *)
(* a watcher.  The map of watchers holds one watcher of the user; when the *)
(* keys are deleted it is closed and dropped from the map, but goroutines  *)
(* that hold it go on.  Every database call and every lock is a step, and  *)
(* a crash may come between any two.                                       *)
(*                                                                         *)
(* late, odd, left and lost are history variables: no guard reads them.    *)
(* They record the events after which the code does not promise the        *)
(* properties that mention them, and left what has left the memory.        *)
(***************************************************************************)
EXTENDS Naturals, FiniteSets

CONSTANTS
  Signals,
  InstOf,     \* the instrument of a signal
  AutoClose,  \* the signals with auto-close
  MaxWatchers \* watchers created in one run of the process

ASSUME OkxManagerAssumption == AutoClose \subseteq Signals /\ MaxWatchers \in Nat \ {0}

VARIABLES
  row,     \* okx_signals
  mem,     \* the watcher whose memory holds the signal, 0 for none
  watcher, \* the user's watcher in userWatchers, 0 for none
  made,    \* watchers created since the start of the process
  closed,  \* watchers that were closed and have no stream
  pw,      \* watchers with a position watcher that knows its user
  create,  \* the request that creates the signal
  del,     \* the DeleteUserSignal of the signal
  write,   \* signals whose end is being written in the background
  zero,    \* the checkAndRemoveSignalsIfZeroPosition goroutine
  cleanup, \* CleanupUserResources is about to run
  boot,    \* of the process: "read" and "load" in LoadActiveSignals, "up"
  load,    \* the rows LoadActiveSignals has left
  late,    \* history: put into memory when the row had ended, or its deletion had looked
  odd,     \* history: rows that were not ended, or saved by overlapping requests
  left,    \* history: active rows of signals that fired or were removed, in any run
  lost     \* history: those whose write failed, or the process died before it

vars == <<row, mem, watcher, made, closed, pw, create, del, write,
          zero, cleanup, boot, load, late, odd, left, lost>>

Watchers == 1..MaxWatchers
Insts    == {InstOf[s] : s \in Signals}

Idle    == [pc |-> "idle", todo |-> {}, w |-> 0]
NoDel   == [pc |-> "idle", w |-> 0]
NoZero  == [pc |-> "idle", inst |-> "none", todo |-> {}, drop |-> {}, w |-> 0]

Init ==
  /\ row = [s \in Signals |-> "none"]
  /\ mem = [s \in Signals |-> 0]
  /\ watcher = 0 /\ made = 0 /\ closed = {}
  /\ pw = {}
  /\ create = [s \in Signals |-> Idle]
  /\ del = [s \in Signals |-> NoDel]
  /\ write = {}
  /\ zero = NoZero
  /\ cleanup = FALSE
  /\ boot = "up" /\ load = {}
  /\ late = {} /\ odd = {} /\ left = {} /\ lost = {}

Active   == {s \in Signals : row[s] = "active"}
Serving  == boot = "up"
In(w)    == {s \in Signals : mem[s] = w}

----------------------------------------------------------------------------
(* Helpers *)

\* GetOrCreateWatcherForUser.  A position watcher that comes with the watcher
\* knows its user.  One that ensurePositionWatcher starts later has user 0: it
\* finds no signals to remove, as if it were not there.
GetWatcher(auto) ==
  IF watcher # 0
  THEN UNCHANGED <<watcher, made, pw>>
  ELSE /\ made < MaxWatchers
       /\ made' = made + 1
       /\ watcher' = made + 1
       /\ pw' = IF auto THEN pw \union {made + 1} ELSE pw

\* AddSignal
Put(s, w) ==
  /\ mem' = [mem EXCEPT ![s] = w]
  /\ closed' = closed \ {w}

\* Mutant: the row is left to whoever asked for the removal.
TakeUnwritten(s, w) ==
  IF mem[s] = w
  THEN /\ mem' = [mem EXCEPT ![s] = 0]
       /\ late' = late \ {s} /\ left' = left \union (Active \cap {s})
       /\ pw' = IF (In(w) \ {s}) \cap AutoClose = {} THEN pw \ {w} ELSE pw
       /\ UNCHANGED write
  ELSE UNCHANGED <<mem, write, pw, late, left>>

\* removeSignalByIDLocked and checkAndStopPositionWatcher: the row is written
\* by a goroutine of its own.
Take(s, w) ==
  IF mem[s] = w
  THEN /\ mem' = [mem EXCEPT ![s] = 0]
       /\ write' = write \union {s}
       /\ late' = late \ {s} /\ left' = left \union (Active \cap {s})
       /\ pw' = IF (In(w) \ {s}) \cap AutoClose = {} THEN pw \ {w} ELSE pw
  ELSE UNCHANGED <<mem, write, pw, late, left>>

\* The row has ended, or the DeleteUserSignal of the signal has looked for the
\* watcher and will not find the signal there.
TooLate(s, w) ==
  \/ row[s] # "active"
  \/ del[s].pc \in {"row", "deactivate"}
  \/ del[s].pc = "remove" /\ del[s].w # w

\* Update, Deactivate: is_active = false, if the row is there.
EndRow(s) ==
  /\ row' = [row EXCEPT ![s] = IF @ = "active" THEN "ended" ELSE @]
  /\ odd' = odd \ {s} /\ left' = left \ {s} /\ lost' = lost \ {s}

\* Every caller only logs an error.
LeaveRow(s) ==
  /\ odd' = odd \union (Active \cap {s})
  /\ UNCHANGED <<row, left>>

TryEndRow(s) == EndRow(s) \/ (LeaveRow(s) /\ UNCHANGED lost)

----------------------------------------------------------------------------
(* CreateSignal *)

\* Subscription, keys, proxy; any failure returns and nothing has changed.
BeginCreate(s) ==
  /\ Serving
  /\ create[s].pc = "idle" /\ row[s] = "none"
  /\ create' = [create EXCEPT ![s] = [Idle EXCEPT !.pc = "existing"]]
  /\ UNCHANGED <<row, mem, watcher, made, closed, pw, del, write,
                 zero, cleanup, boot, load, late, odd, left, lost>>

\* GetActiveByUserAndInstID
Overlaps(s) ==
  \E t \in Signals \ {s} : InstOf[t] = InstOf[s] /\ create[t].pc = "clear"

ReadExisting(s) ==
  /\ create[s].pc = "existing"
  /\ create' = [create EXCEPT ![s] =
       [Idle EXCEPT !.pc = "clear", !.todo = {t \in Active : InstOf[t] = InstOf[s]}]]
  /\ odd' = IF Overlaps(s) THEN odd \union {s} ELSE odd
  /\ UNCHANGED <<row, mem, watcher, made, closed, pw, del, write,
                 zero, cleanup, boot, load, late, left, lost>>

\* Mutant: the row is left to DeleteUserSignal.
ReplaceByDelete(s, t) ==
  /\ create[s].pc = "clear" /\ t \in create[s].todo /\ del[t].pc = "idle"
  /\ create' = [create EXCEPT ![s].todo = @ \ {t}]
  /\ del' = [del EXCEPT ![t] = [NoDel EXCEPT !.pc = "look"]]
  /\ UNCHANGED <<row, mem, watcher, made, closed, pw, write,
                 zero, cleanup, boot, load, late, odd, left, lost>>

\* The row of an existing signal is deactivated; an error is only logged.
Replace(s, t) ==
  /\ create[s].pc = "clear" /\ t \in create[s].todo /\ del[t].pc = "idle"
  /\ TryEndRow(t)
  /\ create' = [create EXCEPT ![s].todo = @ \ {t}]
  /\ del' = [del EXCEPT ![t] = [NoDel EXCEPT !.pc = "look"]]
  /\ UNCHANGED <<mem, watcher, made, closed, pw, write, zero, cleanup, boot, load, late>>

\* The position, the order book and the insert may each fail.
Reject(s) ==
  /\ create[s].pc \in {"existing", "clear"} /\ create[s].todo = {}
  /\ create' = [create EXCEPT ![s] = Idle]
  /\ odd' = odd \ {s}
  /\ UNCHANGED <<row, mem, watcher, made, closed, pw, del, write,
                 zero, cleanup, boot, load, late, left, lost>>

\* Mutant: the error of the insert is not looked at.
SaveAnyway(s) ==
  /\ create[s].pc = "clear" /\ create[s].todo = {}
  /\ row' \in {row, [row EXCEPT ![s] = "active"]}
  /\ create' = [create EXCEPT ![s].pc = "watcher"]
  /\ UNCHANGED <<mem, watcher, made, closed, pw, del, write,
                 zero, cleanup, boot, load, late, odd, left, lost>>

Save(s) ==
  /\ create[s].pc = "clear" /\ create[s].todo = {}
  /\ row' = [row EXCEPT ![s] = "active"]
  /\ create' = [create EXCEPT ![s].pc = "watcher"]
  /\ UNCHANGED <<mem, watcher, made, closed, pw, del, write,
                 zero, cleanup, boot, load, late, odd, left, lost>>

\* The answer is sent; the goroutine with AddSignal follows.
FindWatcher(s) ==
  /\ create[s].pc = "watcher"
  /\ GetWatcher(s \in AutoClose)
  /\ create' = [create EXCEPT ![s] = [Idle EXCEPT !.pc = "add", !.w = watcher']]
  /\ UNCHANGED <<row, mem, closed, del, write,
                 zero, cleanup, boot, load, late, odd, left, lost>>

AddSignal(s) ==
  /\ create[s].pc = "add"
  /\ Put(s, create[s].w)
  /\ create' = [create EXCEPT ![s] = [Idle EXCEPT !.pc = "over"]]
  /\ late' = IF TooLate(s, create[s].w) THEN late \union {s} ELSE late
  /\ UNCHANGED <<row, watcher, made, pw, del, write,
                 zero, cleanup, boot, load, odd, left, lost>>

----------------------------------------------------------------------------
(* DeleteSignal and DeleteUserSignal *)

BeginDelete(s) ==
  /\ Serving
  /\ row[s] \in {"active", "ended"} /\ del[s].pc = "idle"
  /\ del' = [del EXCEPT ![s] = [NoDel EXCEPT !.pc = "look"]]
  /\ UNCHANGED <<row, mem, watcher, made, closed, pw, create, write,
                 zero, cleanup, boot, load, late, odd, left, lost>>

\* The map of watchers, under its lock, which is free again when the signal is
\* removed or its row deleted.
Look(s) ==
  /\ del[s].pc = "look"
  /\ del' = [del EXCEPT ![s] = [pc |-> IF watcher = 0 THEN "row" ELSE "remove", w |-> watcher]]
  /\ UNCHANGED <<row, mem, watcher, made, closed, pw, create, write,
                 zero, cleanup, boot, load, late, odd, left, lost>>

\* Without a watcher the row itself is deleted, or the error is returned.
DeleteRow(s) ==
  /\ del[s].pc = "row"
  /\ del' = [del EXCEPT ![s] = NoDel]
  /\ \/ /\ row' = [row EXCEPT ![s] = "deleted"]
        /\ odd' = odd \ {s} /\ left' = left \ {s} /\ lost' = lost \ {s}
     \/ UNCHANGED <<row, odd, left, lost>>
  /\ UNCHANGED <<mem, watcher, made, closed, pw, create, write,
                 zero, cleanup, boot, load, late>>

RemoveSignal(s) ==
  /\ del[s].pc = "remove"
  /\ Take(s, del[s].w)
  /\ del' = [del EXCEPT ![s] = [NoDel EXCEPT !.pc = "deactivate"]]
  /\ UNCHANGED <<row, watcher, made, closed, create, zero, cleanup, boot, load, odd, lost>>

Deactivate(s) ==
  /\ del[s].pc = "deactivate"
  /\ TryEndRow(s)
  /\ del' = [del EXCEPT ![s] = NoDel]
  /\ UNCHANGED <<mem, watcher, made, closed, pw, create, write,
                 zero, cleanup, boot, load, late>>

\* GracefulStopProxyForUser, which every delete and every removal at zero
\* start in the end: when no signal in memory has an active row, the position
\* watcher stops.  Its steps are one here: the position stream may end at any
\* moment anyway.  The proxy is ProxyService's.
Graceful ==
  /\ watcher \in pw
  /\ In(watcher) \cap Active = {}
  /\ pw' = pw \ {watcher}
  /\ UNCHANGED <<row, mem, watcher, made, closed, create, del, write,
                 zero, cleanup, boot, load, late, odd, left, lost>>

----------------------------------------------------------------------------
(* DeleteKeys, CleanupUserResources.  The keys themselves are not modelled:   *)
(* without them the handlers refuse and there is no position watcher.        *)

DeleteKeys ==
  /\ Serving /\ ~cleanup
  /\ cleanup' = TRUE
  /\ UNCHANGED <<row, mem, watcher, made, closed, pw, create, del, write,
                 zero, boot, load, late, odd, left, lost>>

Cleanup ==
  /\ cleanup
  /\ cleanup' = FALSE
  /\ closed' = IF watcher # 0 THEN closed \union {watcher} ELSE closed
  /\ watcher' = 0
  /\ UNCHANGED <<row, mem, made, pw, create, del, write,
                 zero, boot, load, late, odd, left, lost>>

----------------------------------------------------------------------------
(* Streams *)

\* processDepthUpdate: a signal of a watcher with a stream fires.
Fire(s) ==
  /\ mem[s] # 0 /\ mem[s] \notin closed
  /\ Take(s, mem[s])
  /\ UNCHANGED <<row, watcher, made, closed, create, del, zero, cleanup, boot, load, odd, lost>>

\* The update of the row after a removal; an error is only logged.
Write(s) ==
  /\ s \in write
  /\ write' = write \ {s}
  /\ \/ EndRow(s)
     \/ LeaveRow(s) /\ lost' = lost \union (Active \cap {s})
  /\ UNCHANGED <<mem, watcher, made, closed, pw, create, del, zero, cleanup, boot, load, late>>

\* updatePositions: a position that was not zero is.  The position itself is
\* not modelled, it may change at any moment.
PositionCloses(i) ==
  /\ pw # {} /\ zero.pc = "idle"
  /\ zero' = [NoZero EXCEPT !.pc = "list", !.inst = i]
  /\ UNCHANGED <<row, mem, watcher, made, closed, pw, create, del, write,
                 cleanup, boot, load, late, odd, left, lost>>

\* The private stream fails to start or ends; it is not started again.
PositionStreamEnds(w) ==
  /\ w \in pw
  /\ pw' = pw \ {w}
  /\ UNCHANGED <<row, mem, watcher, made, closed, create, del, write,
                 zero, cleanup, boot, load, late, odd, left, lost>>

ListSignals ==
  /\ zero.pc = "list"
  /\ zero' \in {NoZero, [zero EXCEPT !.pc = "check",
                                     !.todo = {s \in Active : InstOf[s] = zero.inst}]}
  /\ UNCHANGED <<row, mem, watcher, made, closed, pw, create, del, write,
                 cleanup, boot, load, late, odd, left, lost>>

\* Mutant: only the row is ended.
EndAtZeroRow(s) ==
  /\ zero.pc = "check" /\ s \in zero.todo
  /\ TryEndRow(s)
  /\ zero' = [zero EXCEPT !.todo = @ \ {s}]
  /\ UNCHANGED <<mem, watcher, made, closed, pw, create, del, write, cleanup, boot, load, late>>

\* The position is looked up again before each signal.  When it is not zero
\* any more, or the row cannot be written, the signal stays.
EndAtZero(s) ==
  /\ zero.pc = "check" /\ s \in zero.todo
  /\ \/ /\ EndRow(s)
        /\ zero' = [zero EXCEPT !.pc = "drop", !.todo = @ \ {s}, !.drop = {s}]
     \/ /\ zero' = [zero EXCEPT !.todo = @ \ {s}]
        /\ UNCHANGED <<row, odd, left, lost>>
  /\ UNCHANGED <<mem, watcher, made, closed, pw, create, del, write, cleanup, boot, load, late>>

\* RemoveSignalFromMemory: the watcher that is in the map by now,
FindAtZero ==
  /\ zero.pc = "drop"
  /\ zero' = [zero EXCEPT !.pc = "take", !.w = watcher]
  /\ UNCHANGED <<row, mem, watcher, made, closed, pw, create, del, write,
                 cleanup, boot, load, late, odd, left, lost>>

\* and its RemoveSignal.
DropAtZero(s) ==
  /\ zero.pc = "take" /\ s \in zero.drop
  /\ IF zero.w = 0 THEN UNCHANGED <<mem, write, pw, late, left>> ELSE Take(s, zero.w)
  /\ zero' = [zero EXCEPT !.pc = "check", !.drop = {}, !.w = 0]
  /\ UNCHANGED <<row, watcher, made, closed, create, del, cleanup, boot, load, odd, lost>>

LeaveZero ==
  /\ zero.pc = "check" /\ zero.todo = {}
  /\ zero' = NoZero
  /\ UNCHANGED <<row, mem, watcher, made, closed, pw, create, del, write,
                 cleanup, boot, load, late, odd, left, lost>>

----------------------------------------------------------------------------
(* The process *)

Crash ==
  /\ mem' = [s \in Signals |-> 0]
  /\ watcher' = 0 /\ made' = 0 /\ closed' = {}
  /\ pw' = {}
  /\ create' = [s \in Signals |-> Idle]
  /\ del' = [s \in Signals |-> NoDel]
  /\ write' = {} /\ zero' = NoZero /\ cleanup' = FALSE
  /\ boot' = "read" /\ load' = {}
  /\ late' = {} /\ lost' = lost \union (Active \cap write)
  /\ UNCHANGED <<row, odd, left>>

\* Mutant: the query has lost its "is_active = true".
LoadAll ==
  /\ boot = "read"
  /\ boot' = "load" /\ load' = {s \in Signals : row[s] \in {"active", "ended"}}
  /\ UNCHANGED <<row, mem, watcher, made, closed, pw, create, del, write,
                 zero, cleanup, late, odd, left, lost>>

\* LoadActiveSignals; when the rows cannot be read the server starts without.
LoadActive ==
  /\ boot = "read"
  /\ \/ boot' = "load" /\ load' = Active
     \/ boot' = "up" /\ UNCHANGED load
  /\ UNCHANGED <<row, mem, watcher, made, closed, pw, create, del, write,
                 zero, cleanup, late, odd, left, lost>>

LoadSignal(s) ==
  /\ boot = "load" /\ s \in load
  /\ GetWatcher(s \in AutoClose)
  /\ Put(s, watcher')
  /\ load' = load \ {s}
  /\ create' = [create EXCEPT ![s] = [Idle EXCEPT !.pc = "over"]]
  /\ late' = IF TooLate(s, watcher') THEN late \union {s} ELSE late
  /\ UNCHANGED <<row, del, write, zero, cleanup, boot, odd, left, lost>>

Serve ==
  /\ boot = "load" /\ load = {}
  /\ boot' = "up"
  /\ UNCHANGED <<row, mem, watcher, made, closed, pw, create, del, write,
                 zero, cleanup, load, late, odd, left, lost>>

Next ==
  \/ \E s \in Signals :
       \/ BeginCreate(s) \/ ReadExisting(s) \/ Reject(s) \/ Save(s)
       \/ \E t \in Signals : Replace(s, t)
       \/ FindWatcher(s) \/ AddSignal(s)
       \/ BeginDelete(s) \/ Look(s) \/ DeleteRow(s) \/ RemoveSignal(s) \/ Deactivate(s)
       \/ Fire(s) \/ Write(s)
       \/ EndAtZero(s) \/ DropAtZero(s)
       \/ LoadSignal(s)
  \/ Graceful
  \/ \E w \in Watchers : PositionStreamEnds(w)
  \/ \E i \in Insts : PositionCloses(i)
  \/ DeleteKeys \/ Cleanup
  \/ ListSignals \/ FindAtZero \/ LeaveZero
  \/ Crash \/ LoadActive \/ Serve

Spec == Init /\ [][Next]_vars

----------------------------------------------------------------------------

\* The types of the state; what follows Save has a row.
TypeOK ==
  /\ row \in [Signals -> {"none", "active", "ended", "deleted"}]
  /\ made \in 0..MaxWatchers /\ watcher \in {0, made} /\ closed \union pw \subseteq 1..made
  /\ mem \in [Signals -> 0..made]
  /\ create \in [Signals -> [pc : {"idle", "existing", "clear", "watcher", "add", "over"},
                             todo : SUBSET Signals, w : 0..made]]
  /\ \A s \in Signals : create[s].pc \in {"watcher", "add", "over"} => row[s] # "none"
  /\ del \in [Signals -> [pc : {"idle", "look", "row", "remove", "deactivate"}, w : 0..made]]
  /\ zero \in [pc : {"idle", "list", "check", "drop", "take"}, inst : Insts \union {"none"},
               todo : SUBSET Signals, drop : SUBSET Signals, w : 0..made]
  /\ cleanup \in BOOLEAN /\ boot \in {"read", "load", "up"}
  /\ write \union load \union late \union odd \union left \union lost \subseteq Signals

\* A signal whose row has ended is not watched on by the user's watcher:
\* whoever ended the row is about to take it out of that watcher's memory,
\* unless AddSignal came when the deletion had already looked for the watcher
\* (websocket_manager.go:347, position_watcher.go:420, handler.go:365).
EndedIsBeingForgotten ==
  \A s \in Signals :
    (row[s] # "active" /\ mem[s] # 0 /\ mem[s] = watcher)
      => \/ del[s].pc = "look"
         \/ del[s].pc = "remove" /\ del[s].w = watcher
         \/ s \in zero.drop /\ (zero.pc = "take" => zero.w = watcher)
         \/ s \in late

\* The row of a signal that has fired or was removed, in this run of the
\* process or an earlier one, is ended or about to be written, unless that
\* write failed or the process died before it: these are the only ones of them
\* that a later start arms again (websocket_watcher.go:201).
GoneIsRecorded ==
  \A s \in left : row[s] = "active" => s \in write \union lost

\* One active signal per instrument: a new one replaces the old, unless the
\* old row could not be written or the requests overlapped (handler.go:365).
OneActive ==
  \A s, t \in Active : (s # t /\ InstOf[s] = InstOf[t]) => {s, t} \cap odd # {}

\* What SignalLife sees: the rows, the signals in the memory of some watcher, and
\* those that AddSignal or LoadActiveSignals has still to put there.
Recorded == [s \in Signals |-> IF row[s] = "deleted" THEN "ended" ELSE row[s]]
InMemory == {s \in Signals : mem[s] # 0}
Awaited  == {s \in Signals : create[s].pc \in {"watcher", "add"}}
            \union (IF boot = "read" THEN Active ELSE load)

Life == INSTANCE SignalLife WITH record <- Recorded, watched <- InMemory, mayWatch <- Awaited,
                                 Revivable <- {}, revived <- {}

\* The manager keeps the promises of SignalLife: ended rows stay ended, no signal
\* is watched twice in a run, and a start takes up the active rows and no others.
KeepsSignalLife == Life!Spec
=============================================================================
