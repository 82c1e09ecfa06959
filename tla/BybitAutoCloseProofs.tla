----------------------- MODULE BybitAutoCloseProofs -----------------------
(***************************************************************************)
(* Auto-close on Bybit, for any signals, sizes of the position and number  *)
(* of events: operations are counted, an open position is not skipped, an  *)
(* order is for the real position unless the code had a reason not to know *)
(* it, and no position watcher runs on unneeded without being lost.        *)
(***************************************************************************)
EXTENDS BybitAutoClose, FiniteSetTheorems, TLAPS

\* A signal has one auto-close operation, which began when it left the memory.
OpensOnce == \A s \in AutoClose : op[s] # "idle" => sig[s] = "gone"

\* While the keys are read, the signal they are read for waits.
EnsuringWaits == ensuring # None => known = "yes" /\ sig[ensuring] = "saved"

\* An order is made from a size, and not from 0.
Sized == \A s \in AutoClose : op[s] = "order" => cap[s] \in Positions \ {0}

\* While the position is flat, every operation may say so.
FlatIsExcused == pos = 0 => Underway \subseteq excused

\* What was captured is the position, or is known to be behind.
CapExact == \A s \in AutoClose : cap[s] # Absent /\ s \notin outdated => cap[s] = pos

\* Nothing is known before the reader was started, nothing loaded before Start
\* has ended.
StartsBlank ==
  pwW # None =>
    /\ pw[pwW].at = "dial" => cache = Absent /\ feed = <<>>
    /\ Starting(pwW) => load.at = "no" /\ lag = "none"

\* The last message that is still to be read tells the position.
LastIsPos == Reads(pwW) /\ feed # <<>> => feed[Len(feed)] = pos

\* With all messages read the cache has it, and so has an answer not overtaken.
CaughtUp ==
  Reads(pwW) /\ feed = <<>> =>
    /\ cache # Absent /\ lag # "stale" => cache = pos
    /\ load.at = "answered" /\ lag # "race" => load.answer = pos

\* The positions are loaded once.
LoadedOnce == load.at # "no" => lag # "stale"

\* A position watcher that is live is the one the MarketDepthWatcher points to,
\* or it was lost.
Tracked == \A p \in AutoClose : Live(p) => p \in adrift \/ p = pwW

\* That one is needed, or about to be stopped, or was lost as well.
UnneededEnds == Live(pwW) => pwW \in adrift \/ Needed \/ check # "idle"

OpsInv    == Sized /\ FlatIsExcused /\ SkipsOnlyWhenFlat
StreamInv == StartsBlank /\ LastIsPos /\ CaughtUp /\ LoadedOnce
PwInv     == Tracked /\ UnneededEnds

IInv ==
  /\ TypeOK /\ OpensOnce /\ EnsuringWaits
  /\ OpsInv /\ StreamInv /\ CapExact /\ PwInv

SigStages == {"new", "saved", "asked", "watched", "gone"}
DelStages == {"idle", "row", "memory", "removed"}
OpStages  == {"idle", "begun", "ask", "order", "flat", "over", "done"}
PwStates  == [at : Stages, canceled : BOOLEAN]
Loads     == [at : {"no", "ask", "answered"}, answer : Seen]
Calls     == {"called", "looked", "listed", "empty", "entry", "stop", "clear"}

\* The steps of an operation between its begin and its end
GoesOn(s) ==
  Find(s) \/ Refused(s) \/ AskAnswered(s) \/ AskFails(s) \/ OrderFilled(s) \/ OrderFails(s)

\* The steps of position watchers and of those that stop them
WatcherStep ==
  (\E p \in AutoClose : PwStep(p)) \/ DataStep \/ CheckStop \/ CheckClear \/ GraceStops \/ Cleanup

\* The steps of GracefulStopProxyForUser that stop nothing
CallStep ==
  \/ GraceLooks \/ (\E readable \in BOOLEAN : GraceLists(readable))
  \/ GraceFindsNone \/ GraceFindsEntry \/ GraceChecks \/ GraceClears

\* The steps that may start a position watcher
EntryStep(s) ==
  \E hasKeys \in BOOLEAN : CreateEntry(s, hasKeys) \/ (s \in AutoClose /\ Ensure(s, hasKeys))

\* The steps of a signal that concern no position watcher
QuietStep(s) ==
  \/ \E ended \in SUBSET row, saved \in BOOLEAN : Create(s, ended, saved)
  \/ FindEntry(s) \/ Add(s) \/ Look(s)
  \/ \E ok \in BOOLEAN : DeleteRow(s, ok) \/ Deactivate(s, ok)

LEMMA NextCases ==
  ASSUME Next
  PROVE  \/ WatcherStep \/ CallStep
         \/ \E s \in AutoClose : GoesOn(s) \/ OpEnds(s)
         \/ \E s \in Signals : QuietStep(s) \/ EntryStep(s) \/ Fire(s) \/ DeleteFromMemory(s)
         \/ \E p \in Positions : Move(p)
  <1>1. ASSUME NEW s \in Signals, SignalStep(s)
        PROVE  QuietStep(s) \/ EntryStep(s) \/ Fire(s) \/ DeleteFromMemory(s)
    BY <1>1 DEF SignalStep, QuietStep, EntryStep
  <1>2. ASSUME NEW s \in AutoClose, OpStep(s) PROVE GoesOn(s) \/ OpEnds(s)
    BY <1>2 DEF OpStep, GoesOn
  <1>3. ASSUME NEW s \in AutoClose, NEW hasKeys \in BOOLEAN, Ensure(s, hasKeys) PROVE EntryStep(s)
    BY <1>3 DEF EntryStep
  <1>4. GraceStep => CallStep \/ WatcherStep
    BY DEF GraceStep, CallStep, WatcherStep
  <1>5. AutoClose \subseteq Signals
    BY BybitAssumption
  <1>6. QED
    BY <1>1, <1>2, <1>3, <1>4, <1>5 DEF Next, WatcherStep

-----------------------------------------------------------------------------
(* What the steps leave alone *)

LEMMA WatcherFrame ==
  ASSUME WatcherStep PROVE UNCHANGED <<sig, row, del, lists, client, ensuring, ops, pos>>
  BY DEF WatcherStep, PwStep, DataStep, Connect, SaysRunning, ReaderEnds, ReaderEndsEarly,
     ProcessMessage, LoadAsk, LoadStore, CheckStop, CheckClear, GraceStops, Cleanup,
     signals, graces, entry, outside

LEMMA CallFrame ==
  ASSUME CallStep PROVE UNCHANGED <<signals, known, client, ensuring, fields, pw, data, ops, outside>>
  BY DEF CallStep, GraceLooks, GraceLists, GraceFindsNone, GraceFindsEntry, GraceChecks,
     GraceClears, entry

LEMMA GoesOnFrame ==
  ASSUME NEW s \in AutoClose, GoesOn(s)
  PROVE  UNCHANGED <<signals, lists, entry, fields, pw, cache, load, lag, pending, events>>
  BY DEF GoesOn, Find, Refused, AskAnswered, AskFails, OrderFilled, OrderFails, graces, data, outside

LEMMA QuietFrame ==
  ASSUME NEW s \in Signals, QuietStep(s)
  PROVE  UNCHANGED <<lists, known, client, pwM, fields, pw, data, ops, pos>>
  BY DEF QuietStep, Create, FindEntry, Add, Look, DeleteRow, Deactivate, graces, entry, outside

LEMMA EntryFrame ==
  ASSUME NEW s \in Signals, EntryStep(s)
  PROVE  /\ UNCHANGED <<row, del, graces, check, ops, outside>>
         /\ sig' = [sig EXCEPT ![s] = "asked"]
         /\ UNCHANGED <<pw, pwM, pwW, data, adrift>> \/ (s \in AutoClose /\ NewWatcher(s))
  BY DEF EntryStep, CreateEntry, Ensure

-----------------------------------------------------------------------------
(* The number of operations *)

LEMMA UnderwayFinite == IsFiniteSet(Underway) /\ Cardinality(Underway) \in Nat
  <1>1. IsFiniteSet(Underway)
    BY FS_Subset, BybitAssumption DEF Underway
  <1>2. QED
    BY <1>1, FS_CardinalityType

\* An operation that goes on is under way before and after.
LEMMA GoesOnUnderway ==
  ASSUME TypeOK, NEW s \in AutoClose, GoesOn(s)
  PROVE  /\ Underway' = Underway
         /\ \A t \in AutoClose : t # s => op'[t] = op[t] /\ cap'[t] = cap[t]
         /\ op[s] # "idle" /\ op' \in [AutoClose -> OpStages]
  <1>1. PICK x \in OpStages \ {"idle", "done"} : op' = [op EXCEPT ![s] = x]
    BY DEF GoesOn, Find, Refused, AskAnswered, AskFails, OrderFilled, OrderFails, NextFor, OpStages
  <1>2. op[s] \notin {"idle", "done"}
    BY DEF GoesOn, Find, Refused, AskAnswered, AskFails, OrderFilled, OrderFails
  <1>3. \A t \in AutoClose : t # s => cap'[t] = cap[t]
    BY DEF GoesOn, Find, Refused, AskAnswered, AskFails, OrderFilled, OrderFails, TypeOK
  <1>4. op \in [AutoClose -> OpStages]
    BY DEF TypeOK, OpStages
  <1>5. QED
    BY <1>1, <1>2, <1>3, <1>4 DEF Underway, OpStages

\* Fire begins an operation of a signal with auto-close, OpEnds ends one.
LEMMA FireCounts ==
  ASSUME TypeOK, OpensOnce, NEW s \in Signals, Fire(s)
  PROVE  /\ pending' = Cardinality(Underway')
         /\ op' \in [AutoClose -> OpStages]
         /\ s \in AutoClose => pending' > 0
  <1>0. op \in [AutoClose -> OpStages] /\ pending = Cardinality(Underway)
    BY DEF TypeOK, OpStages
  <1>1. CASE s \in AutoClose
    <2>1. op[s] = "idle"
      BY <1>1 DEF OpensOnce, Fire
    <2>2. op' = [op EXCEPT ![s] = "begun"] /\ pending' = pending + 1
      BY <1>1 DEF Fire
    <2>3. Underway' = Underway \union {s} /\ s \notin Underway
      BY <1>0, <1>1, <2>1, <2>2 DEF Underway
    <2>4. Cardinality(Underway') = Cardinality(Underway) + 1
      BY <2>3, UnderwayFinite, FS_AddElement
    <2>5. op' \in [AutoClose -> OpStages]
      BY <1>0, <2>2 DEF OpStages
    <2>6. QED
      BY <1>0, <2>2, <2>4, <2>5, UnderwayFinite
  <1>2. CASE s \notin AutoClose
    BY <1>0, <1>2 DEF Fire, ops, Underway
  <1>3. QED
    BY <1>1, <1>2

LEMMA OpEndsCounts ==
  ASSUME TypeOK, NEW s \in AutoClose, OpEnds(s)
  PROVE  /\ pending' = Cardinality(Underway')
         /\ op' \in [AutoClose -> OpStages]
         /\ Underway' = Underway \ {s} /\ op[s] # "idle"
  <1>1. op \in [AutoClose -> OpStages] /\ pending = Cardinality(Underway)
    BY DEF TypeOK, OpStages
  <1>2. op' = [op EXCEPT ![s] = "done"] /\ pending' = pending - 1 /\ op[s] \in {"flat", "over"}
    BY DEF OpEnds, OpCounted
  <1>3. Underway' = Underway \ {s} /\ s \in Underway
    BY <1>1, <1>2 DEF Underway
  <1>4. Cardinality(Underway') = Cardinality(Underway) - 1
    BY <1>3, UnderwayFinite, FS_RemoveElement
  <1>5. QED
    BY <1>1, <1>2, <1>3, <1>4 DEF OpStages

-----------------------------------------------------------------------------
(* Types *)

\* The types of the position watchers and of what the user's one has seen
PwTyped ==
  /\ pw \in [AutoClose -> PwStates]
  /\ cache \in Seen /\ feed \in Seq(Positions) /\ load \in Loads
  /\ lag \in {"none", "race", "stale"}
  /\ pwM \in AutoClose \union {None} /\ pwW \in AutoClose \union {None}
  /\ check \in {"idle", "stop", "clear"} /\ (check = "stop" => pwW # None)
  /\ adrift \subseteq AutoClose

\* The types of the requests, the calls and the entry of the user
RequestsTyped ==
  /\ sig \in [Signals -> SigStages]
  /\ row \subseteq Signals
  /\ del \in [Signals -> DelStages]
  /\ calls \subseteq Calls
  /\ lists \subseteq SUBSET Signals
  /\ known \in {"no", "yes", "dropped"} /\ client \in BOOLEAN
  /\ ensuring \in AutoClose \union {None}
  /\ events \in 0..MaxEvents

\* The types of the operations and the position
OpTyped ==
  /\ op \in [AutoClose -> OpStages] /\ cap \in [AutoClose -> Seen]
  /\ pending = Cardinality(Underway)
  /\ excused \subseteq AutoClose /\ outdated \subseteq AutoClose
  /\ pos \in Positions

LEMMA TypeParts ==
  /\ TypeOK <=> PwTyped /\ RequestsTyped /\ OpTyped
  /\ TypeOK' <=> PwTyped' /\ RequestsTyped' /\ OpTyped'
  <1>1. TypeOK <=> PwTyped /\ RequestsTyped /\ OpTyped
    BY DEF TypeOK, PwTyped, RequestsTyped, OpTyped, PwStates, Loads, OpStages, SigStages, DelStages,
           Calls
  <1>2. TypeOK' <=> PwTyped' /\ RequestsTyped' /\ OpTyped'
    BY DEF TypeOK, PwTyped, RequestsTyped, OpTyped, PwStates, Loads, OpStages, SigStages, DelStages,
           Calls
  <1>3. QED
    BY <1>1, <1>2

\* A step that leaves the operations and the position alone leaves their number.
LEMMA SameOps ==
  ASSUME OpTyped, UNCHANGED <<ops, pos>> PROVE OpTyped'
  BY DEF OpTyped, ops, Underway

LEMMA StoppedTyped ==
  ASSUME PwTyped, NEW p \in AutoClose, pw' = Stopped(p)
  PROVE  /\ pw' \in [AutoClose -> PwStates]
         /\ Running(p) => pw'[p].at = "off"
         /\ Starting(p) => pw'[p].at = pw[p].at /\ pw'[p].canceled
         /\ pw[p].at = "off" => pw'[p].at = "off"
         /\ \A q \in AutoClose : q # p => pw'[q] = pw[q]
  <1>1. pw[p] \in PwStates
    BY DEF PwTyped
  <1>2. CASE Starting(p)
    <2>1. pw' = [pw EXCEPT ![p] = [pw[p] EXCEPT !.canceled = TRUE]]
      BY <1>2 DEF Stopped
    <2>2. [pw[p] EXCEPT !.canceled = TRUE] \in PwStates
      BY <1>1 DEF PwStates
    <2>3. QED
      BY <1>1, <1>2, <2>1, <2>2 DEF PwTyped, PwStates, Starting, Running
  <1>3. CASE ~Starting(p)
    <2>1. pw' = [pw EXCEPT ![p] = Off] /\ Off \in PwStates
      BY <1>3 DEF Stopped, Off, PwStates, Stages
    <2>2. QED
      BY <1>3, <2>1 DEF PwTyped, Off
  <1>4. QED
    BY <1>2, <1>3

LEMMA ForgottenTyped ==
  ASSUME Forgotten
  PROVE  /\ cache' \in Seen /\ feed' \in Seq(Positions) /\ load' \in Loads
         /\ lag' \in {"none", "race", "stale"}
  BY DEF Forgotten, Seen, Loads, NoLoad

\* A Stop, with the fields that point to position watchers unchanged or set to nil
LEMMA StopTyped ==
  ASSUME PwTyped, NEW p \in AutoClose, Stop(p), UNCHANGED <<pwM, pwW, adrift>>,
         check' \in {check, "clear"}
  PROVE  PwTyped'
  <1>1. pw' \in [AutoClose -> PwStates]
    BY StoppedTyped DEF Stop
  <1>2. Forgotten \/ UNCHANGED data
    BY DEF Stop
  <1>3. QED
    BY <1>1, <1>2, ForgottenTyped DEF PwTyped, data

LEMMA PwStepTyped ==
  ASSUME PwTyped, pos \in Positions, (\E p \in AutoClose : PwStep(p)) \/ DataStep
  PROVE  PwTyped'
  <1>1. ASSUME NEW p \in AutoClose, NEW ok \in BOOLEAN, Connect(p, ok) PROVE PwTyped'
    <2>1. pw' \in [AutoClose -> PwStates]
      BY <1>1 DEF Connect, PwTyped, PwStates, Off, Stages
    <2>2. QED
      BY <1>1, <2>1 DEF Connect, PwTyped, data, entry, fields
  <1>2. ASSUME NEW p \in AutoClose, SaysRunning(p) PROVE PwTyped'
    <2>1. pw' \in [AutoClose -> PwStates]
      BY <1>2 DEF SaysRunning, PwTyped, PwStates, Stages
    <2>2. load' \in Loads
      BY <1>2 DEF SaysRunning, PwTyped, Loads, NoLoad, Seen
    <2>3. QED
      BY <1>2, <2>1, <2>2 DEF SaysRunning, PwTyped, entry, fields
  <1>3. ASSUME NEW p \in AutoClose, ReaderEnds(p) PROVE PwTyped'
    <2>1. pw' \in [AutoClose -> PwStates]
      BY <1>3 DEF ReaderEnds, PwTyped, PwStates, Stages, Off
    <2>2. Forgotten \/ UNCHANGED data
      BY <1>3 DEF ReaderEnds
    <2>3. QED
      BY <1>3, <2>1, <2>2, ForgottenTyped DEF ReaderEnds, PwTyped, entry, fields, data
  <1>4. ASSUME NEW p \in AutoClose, ReaderEndsEarly(p) PROVE PwTyped'
    <2>1. pw' \in [AutoClose -> PwStates]
      BY <1>4 DEF ReaderEndsEarly, PwTyped, PwStates, Stages
    <2>2. QED
      BY <1>4, <2>1 DEF ReaderEndsEarly, PwTyped, entry, fields
  <1>5. CASE ProcessMessage
    BY <1>5 DEF ProcessMessage, PwTyped, Seen, entry, fields
  <1>6. ASSUME NEW ok \in BOOLEAN, LoadAsk(ok) PROVE PwTyped'
    <2>1. load' \in Loads
      BY <1>6 DEF LoadAsk, Loads, NoLoad, Seen
    <2>2. QED
      BY <1>6, <2>1 DEF LoadAsk, PwTyped, entry, fields
  <1>7. CASE LoadStore
    BY <1>7 DEF LoadStore, PwTyped, Loads, NoLoad, Seen, entry, fields
  <1>8. QED
    BY <1>1, <1>2, <1>3, <1>4, <1>5, <1>6, <1>7 DEF PwStep, DataStep

LEMMA WatcherStepTyped ==
  ASSUME TypeOK, WatcherStep PROVE TypeOK'
  <1>0. PwTyped /\ RequestsTyped /\ OpTyped
    BY TypeParts
  <1>1. UNCHANGED <<sig, row, del, lists, client, ensuring, ops, pos>>
    BY WatcherFrame
  <1>2. OpTyped'
    BY <1>0, <1>1, SameOps
  <1>3. known' \in {known, "dropped"} /\ calls' \in {calls, calls \union {"clear"}}
    BY DEF WatcherStep, PwStep, DataStep, Connect, SaysRunning, ReaderEnds, ReaderEndsEarly,
       ProcessMessage, LoadAsk, LoadStore, CheckStop, CheckClear, GraceStops, Cleanup, CallComes,
       graces, entry
  <1>4. events' \in 0..MaxEvents
    <2>1. events' = events \/ (events < MaxEvents /\ events' = events + 1)
      BY DEF WatcherStep, PwStep, DataStep, Connect, SaysRunning, ReaderEnds, ReaderEndsEarly,
         ProcessMessage, LoadAsk, LoadStore, CheckStop, CheckClear, GraceStops, Cleanup, Event, outside
    <2>2. QED
      BY <1>0, <2>1, BybitAssumption DEF RequestsTyped
  <1>5. RequestsTyped'
    BY <1>0, <1>1, <1>3, <1>4 DEF RequestsTyped, Calls
  <1>6. ASSUME (\E p \in AutoClose : PwStep(p)) \/ DataStep PROVE PwTyped'
    BY <1>0, <1>6, PwStepTyped DEF OpTyped
  <1>7. ASSUME CheckStop PROVE PwTyped'
    <2>1. pwW \in AutoClose /\ Stop(pwW) /\ UNCHANGED <<pwM, pwW, adrift>> /\ check' = "clear"
      BY <1>0, <1>7 DEF CheckStop, PwTyped, entry
    <2>2. QED
      BY <1>0, <2>1, StopTyped
  <1>8. ASSUME CheckClear PROVE PwTyped'
    <2>1. adrift' \subseteq AutoClose
      BY <1>0, <1>8 DEF CheckClear, PwTyped, Live
    <2>2. QED
      BY <1>0, <1>8, <2>1, ForgottenTyped DEF CheckClear, PwTyped, entry
  <1>9. ASSUME GraceStops PROVE PwTyped'
    <2>1. pwM \in AutoClose /\ Stop(pwM) /\ UNCHANGED <<pwM, pwW, adrift, check>>
      BY <1>0, <1>9 DEF GraceStops, PwTyped, entry, fields
    <2>2. QED
      BY <1>0, <2>1, StopTyped
  <1>10. ASSUME Cleanup PROVE PwTyped'
    <2>1. UNCHANGED <<pwM, pwW, adrift, check>>
      BY <1>10 DEF Cleanup, fields
    <2>2. CASE pwM = None
      BY <1>0, <1>10, <2>1, <2>2 DEF Cleanup, PwTyped, data
    <2>3. CASE pwM \in AutoClose
      <3>1. Stop(pwM)
        BY <1>10, <2>3, BybitAssumption DEF Cleanup
      <3>2. QED
        BY <1>0, <2>1, <2>3, <3>1, StopTyped
    <2>4. QED
      BY <1>0, <2>2, <2>3 DEF PwTyped
  <1>11. QED
    BY <1>2, <1>5, <1>6, <1>7, <1>8, <1>9, <1>10, TypeParts DEF WatcherStep

LEMMA CallStepTyped ==
  ASSUME TypeOK, CallStep PROVE TypeOK'
  <1>0. PwTyped /\ RequestsTyped /\ OpTyped
    BY TypeParts
  <1>1. UNCHANGED <<signals, known, client, ensuring, fields, pw, data, ops, outside>>
    BY CallFrame
  <1>2. calls' \in {calls} \union {calls \union {c} : c \in Calls}
    BY DEF CallStep, GraceLooks, GraceLists, GraceFindsNone, GraceFindsEntry, GraceChecks,
           GraceClears, CallComes, Calls, graces
  <1>3. lists' \subseteq SUBSET Signals
    BY <1>0 DEF CallStep, GraceLooks, GraceLists, GraceFindsNone, GraceFindsEntry, GraceChecks,
                GraceClears, graces, RequestsTyped
  <1>4. pwM' \in {pwM, None}
    BY DEF CallStep, GraceLooks, GraceLists, GraceFindsNone, GraceFindsEntry, GraceChecks,
           GraceClears, entry
  <1>5. RequestsTyped'
    BY <1>0, <1>1, <1>2, <1>3 DEF RequestsTyped, signals, outside
  <1>6. PwTyped'
    BY <1>0, <1>1, <1>4 DEF PwTyped, fields, data
  <1>7. OpTyped'
    BY <1>0, <1>1, SameOps DEF outside
  <1>8. QED
    BY <1>5, <1>6, <1>7, TypeParts

\* An order leaves a position of a size there is.
LEMMA AfterOrderTyped ==
  ASSUME NEW x \in Positions, pos \in Positions PROVE AfterOrder(x) \in Positions
  <1>1. AfterOrder(x) \in {pos, pos - x, 0}
    BY BybitAssumption DEF AfterOrder, Smaller
  <1>2. AfterOrder(x) = pos - x /\ AfterOrder(x) \notin {pos, 0}
          => (0 < x /\ x < pos) \/ (pos < x /\ x < 0)
    BY BybitAssumption DEF AfterOrder, Smaller
  <1>3. QED
    BY <1>1, <1>2, BybitAssumption

LEMMA MovedTyped ==
  ASSUME PwTyped, OpTyped, NEW p \in Positions, Moved(p)
  PROVE  /\ pos' \in Positions /\ feed' \in Seq(Positions)
         /\ excused' \subseteq AutoClose /\ outdated' \subseteq AutoClose
  BY DEF Moved, PwTyped, OpTyped, Underway

LEMMA GoesOnTyped ==
  ASSUME TypeOK, Sized, NEW s \in AutoClose, GoesOn(s) PROVE TypeOK'
  <1>0. PwTyped /\ RequestsTyped /\ OpTyped
    BY TypeParts
  <1>1. UNCHANGED <<signals, lists, entry, fields, pw, cache, load, lag, pending, events>>
    BY GoesOnFrame
  <1>2. ASSUME OrderFilled(s)
        PROVE  /\ pos' \in Positions /\ feed' \in Seq(Positions)
               /\ excused' \subseteq AutoClose /\ outdated' \subseteq AutoClose
    <2>1. cap[s] \in Positions
      BY <1>2 DEF OrderFilled, Sized
    <2>2. AfterOrder(cap[s]) \in Positions /\ Moved(AfterOrder(cap[s]))
      BY <1>0, <1>2, <2>1, AfterOrderTyped DEF OrderFilled, OpTyped
    <2>3. QED
      BY <1>0, <2>2, MovedTyped
  <1>3. pos' \in Positions /\ feed' \in Seq(Positions) /\ excused' \subseteq AutoClose
        /\ outdated' \subseteq AutoClose
    BY <1>0, <1>2
    DEF GoesOn, Find, Refused, AskAnswered, AskFails, OrderFails, data, outside, OpTyped, PwTyped
  <1>4. cap' \in [AutoClose -> Seen]
    <2>1. CachedPosition \in Seen
      BY <1>0 DEF CachedPosition, PwTyped, Seen
    <2>2. QED
      BY <1>0, <2>1
      DEF GoesOn, Find, Refused, AskAnswered, AskFails, OrderFilled, OrderFails, OpTyped, Seen
  <1>5. calls' \in {calls, calls \union {"called"}}
    BY DEF GoesOn, Find, Refused, AskAnswered, AskFails, OrderFilled, OrderFails, graces
  <1>6. OpTyped'
    BY <1>0, <1>1, <1>3, <1>4, GoesOnUnderway DEF OpTyped
  <1>7. RequestsTyped'
    BY <1>0, <1>1, <1>5 DEF RequestsTyped, Calls, signals, entry
  <1>8. PwTyped'
    BY <1>0, <1>1, <1>3 DEF PwTyped, entry, fields
  <1>9. QED
    BY <1>6, <1>7, <1>8, TypeParts

LEMMA CheckAndStopTyped ==
  ASSUME PwTyped, NEW list, NEW n, CheckAndStop(list, n), UNCHANGED <<pw, pwM, data>>
  PROVE  PwTyped'
  BY DEF CheckAndStop, PwTyped, Running, data

LEMMA OpEndsTyped ==
  ASSUME TypeOK, NEW s \in AutoClose, OpEnds(s) PROVE TypeOK'
  <1>0. PwTyped /\ RequestsTyped /\ OpTyped
    BY TypeParts
  <1>1. PwTyped'
    BY <1>0, CheckAndStopTyped DEF OpEnds, entry
  <1>2. cap' \in [AutoClose -> Seen] /\ excused' \subseteq AutoClose /\ outdated' \subseteq AutoClose
    BY <1>0 DEF OpEnds, OpCounted, OpTyped, Seen
  <1>3. UNCHANGED <<signals, graces, entry, outside>>
    BY DEF OpEnds
  <1>4. OpTyped'
    BY <1>0, <1>2, <1>3, OpEndsCounts DEF OpTyped, outside
  <1>5. RequestsTyped'
    BY <1>0, <1>3 DEF RequestsTyped, signals, graces, entry, outside
  <1>6. QED
    BY <1>1, <1>4, <1>5, TypeParts

LEMMA FireTyped ==
  ASSUME TypeOK, OpensOnce, NEW s \in Signals, Fire(s) PROVE TypeOK'
  <1>0. PwTyped /\ RequestsTyped /\ OpTyped
    BY TypeParts
  <1>1. PwTyped'
    BY <1>0, CheckAndStopTyped DEF Fire, entry
  <1>2. CachedPosition \in Seen
    BY <1>0 DEF CachedPosition, PwTyped, Seen
  <1>3. cap' \in [AutoClose -> Seen] /\ excused' \subseteq AutoClose /\ outdated' \subseteq AutoClose
    BY <1>0, <1>2 DEF Fire, OpTyped, ops
  <1>4. sig' \in [Signals -> SigStages] /\ row' \subseteq Signals
    BY <1>0 DEF Fire, Take, RequestsTyped, SigStages
  <1>5. UNCHANGED <<del, graces, entry, outside>>
    BY DEF Fire
  <1>6. OpTyped'
    BY <1>0, <1>3, <1>5, FireCounts DEF OpTyped, outside
  <1>7. RequestsTyped'
    BY <1>0, <1>4, <1>5 DEF RequestsTyped, graces, entry, outside
  <1>8. QED
    BY <1>1, <1>6, <1>7, TypeParts

LEMMA DeleteFromMemoryTyped ==
  ASSUME TypeOK, NEW s \in Signals, DeleteFromMemory(s) PROVE TypeOK'
  <1>0. PwTyped /\ RequestsTyped /\ OpTyped
    BY TypeParts
  <1>1. PwTyped'
    BY <1>0, CheckAndStopTyped DEF DeleteFromMemory, entry
  <1>2. sig' \in [Signals -> SigStages] /\ row' \subseteq Signals /\ del' \in [Signals -> DelStages]
    BY <1>0 DEF DeleteFromMemory, Take, RequestsTyped, SigStages, DelStages
  <1>3. UNCHANGED <<graces, entry, ops, outside>>
    BY DEF DeleteFromMemory
  <1>4. OpTyped'
    BY <1>0, <1>3, SameOps DEF outside
  <1>5. RequestsTyped'
    BY <1>0, <1>2, <1>3 DEF RequestsTyped, graces, entry, outside
  <1>6. QED
    BY <1>1, <1>4, <1>5, TypeParts

LEMMA QuietStepTyped ==
  ASSUME TypeOK, NEW s \in Signals, QuietStep(s) PROVE TypeOK'
  <1>0. PwTyped /\ RequestsTyped /\ OpTyped
    BY TypeParts
  <1>1. UNCHANGED <<lists, known, client, pwM, fields, pw, data, ops, pos>>
    BY QuietFrame
  <1>2. sig' \in [Signals -> SigStages]
    BY <1>0 DEF QuietStep, Create, FindEntry, Add, Look, DeleteRow, Deactivate, RequestsTyped,
                signals, SigStages
  <1>3. row' \subseteq Signals
    BY <1>0 DEF QuietStep, Create, FindEntry, Add, Look, DeleteRow, Deactivate, RequestsTyped
  <1>4. del' \in [Signals -> DelStages]
    BY <1>0 DEF QuietStep, Create, FindEntry, Add, Look, DeleteRow, Deactivate, RequestsTyped,
                DelStages
  <1>5. ensuring' \in {ensuring} \union (AutoClose \intersect {s})
    BY DEF QuietStep, Create, FindEntry, Add, Look, DeleteRow, Deactivate, entry
  <1>6. calls' \in {calls, calls \union {"called"}}
    BY DEF QuietStep, Create, FindEntry, Add, Look, DeleteRow, Deactivate, graces
  <1>7. events' \in 0..MaxEvents
    <2>1. events' = events \/ (events < MaxEvents /\ events' = events + 1)
      BY DEF QuietStep, Create, FindEntry, Add, Look, DeleteRow, Deactivate, Event, outside
    <2>2. QED
      BY <1>0, <2>1, BybitAssumption DEF RequestsTyped
  <1>8. RequestsTyped'
    BY <1>0, <1>1, <1>2, <1>3, <1>4, <1>5, <1>6, <1>7 DEF RequestsTyped, Calls
  <1>9. PwTyped'
    BY <1>0, <1>1 DEF PwTyped, fields, data
  <1>10. OpTyped'
    BY <1>0, <1>1, SameOps
  <1>11. QED
    BY <1>8, <1>9, <1>10, TypeParts

LEMMA NewWatcherTyped ==
  ASSUME PwTyped, NEW s \in AutoClose, NewWatcher(s), check' = check PROVE PwTyped'
  <1>1. pw' \in [AutoClose -> PwStates]
    BY DEF NewWatcher, NewPw, PwTyped, PwStates, Stages
  <1>2. adrift' \subseteq AutoClose
    BY DEF NewWatcher, PwTyped, Live
  <1>3. pwM' = s /\ pwW' = s /\ Forgotten /\ s # None
    BY BybitAssumption DEF NewWatcher
  <1>4. QED
    BY <1>1, <1>2, <1>3, ForgottenTyped DEF PwTyped

LEMMA EntryStepTyped ==
  ASSUME TypeOK, NEW s \in Signals, EntryStep(s) PROVE TypeOK'
  <1>0. PwTyped /\ RequestsTyped /\ OpTyped
    BY TypeParts
  <1>1. /\ UNCHANGED <<row, del, graces, check, ops, outside>>
        /\ sig' = [sig EXCEPT ![s] = "asked"]
        /\ UNCHANGED <<pw, pwM, pwW, data, adrift>> \/ (s \in AutoClose /\ NewWatcher(s))
    BY EntryFrame
  <1>2. known' \in {"no", "yes", "dropped"} /\ client' \in BOOLEAN
        /\ ensuring' \in AutoClose \union {None}
    BY <1>0 DEF EntryStep, CreateEntry, Ensure, RequestsTyped
  <1>3. RequestsTyped'
    BY <1>0, <1>1, <1>2 DEF RequestsTyped, SigStages, graces, outside
  <1>4. PwTyped'
    <2>1. CASE UNCHANGED <<pw, pwM, pwW, data, adrift>>
      BY <1>0, <1>1, <2>1 DEF PwTyped, data
    <2>2. CASE s \in AutoClose /\ NewWatcher(s)
      BY <1>0, <1>1, <2>2, NewWatcherTyped
    <2>3. QED
      BY <1>1, <2>1, <2>2
  <1>5. OpTyped'
    BY <1>0, <1>1, SameOps DEF outside
  <1>6. QED
    BY <1>3, <1>4, <1>5, TypeParts

LEMMA MoveTyped ==
  ASSUME TypeOK, NEW p \in Positions, Move(p) PROVE TypeOK'
  <1>0. PwTyped /\ RequestsTyped /\ OpTyped
    BY TypeParts
  <1>1. /\ pos' \in Positions /\ feed' \in Seq(Positions)
        /\ excused' \subseteq AutoClose /\ outdated' \subseteq AutoClose
    BY <1>0, MovedTyped DEF Move
  <1>2. UNCHANGED <<signals, graces, entry, fields, pw, cache, load, lag, op, cap, pending>>
        /\ events < MaxEvents /\ events' = events + 1
    BY DEF Move, Event
  <1>3. PwTyped'
    BY <1>0, <1>1, <1>2 DEF PwTyped, entry, fields
  <1>4. OpTyped'
    BY <1>0, <1>1, <1>2 DEF OpTyped, Underway
  <1>5. RequestsTyped'
    BY <1>0, <1>2, BybitAssumption DEF RequestsTyped, signals, graces, entry
  <1>6. QED
    BY <1>3, <1>4, <1>5, TypeParts

LEMMA TypesKept ==
  ASSUME TypeOK, OpensOnce, Sized, [Next]_vars PROVE TypeOK'
  <1>1. CASE UNCHANGED vars
    BY <1>1 DEF vars, TypeOK, signals, graces, entry, fields, data, ops, outside, Underway
  <1>2. QED
    BY <1>1, NextCases, WatcherStepTyped, CallStepTyped, GoesOnTyped, OpEndsTyped, FireTyped,
       DeleteFromMemoryTyped, QuietStepTyped, EntryStepTyped, MoveTyped

-----------------------------------------------------------------------------
(* Signals *)

\* A signal that has gone does not come back, and one that waits for its position
\* watcher stays as it is.
LEMMA SigSteps ==
  ASSUME TypeOK, EnsuringWaits, [Next]_vars
  PROVE  \A t \in Signals : sig[t] = "gone" => sig'[t] = "gone"
  <1>0. RequestsTyped
    BY TypeParts
  <1>1. ASSUME NEW s \in Signals, QuietStep(s) PROVE \A t \in Signals : sig[t] = "gone" => sig'[t] = "gone"
    BY <1>0, <1>1 DEF QuietStep, Create, FindEntry, Add, Look, DeleteRow, Deactivate, signals,
       RequestsTyped
  <1>2. ASSUME NEW s \in Signals, EntryStep(s) PROVE \A t \in Signals : sig[t] = "gone" => sig'[t] = "gone"
    <2>1. sig[s] = "saved" /\ sig' = [sig EXCEPT ![s] = "asked"]
      BY <1>2, BybitAssumption DEF EntryStep, CreateEntry, Ensure, EnsuringWaits
    <2>2. QED
      BY <1>0, <2>1 DEF RequestsTyped
  <1>3. ASSUME NEW s \in Signals, Fire(s) \/ DeleteFromMemory(s)
        PROVE  \A t \in Signals : sig[t] = "gone" => sig'[t] = "gone"
    BY <1>0, <1>3 DEF Fire, DeleteFromMemory, Take, RequestsTyped
  <1>4. ASSUME NEW s \in AutoClose, GoesOn(s) \/ OpEnds(s) PROVE sig' = sig
    BY <1>4, GoesOnFrame DEF OpEnds, signals
  <1>5. ASSUME WatcherStep \/ CallStep \/ UNCHANGED vars \/ (\E p \in Positions : Move(p)) PROVE sig' = sig
    BY <1>5, WatcherFrame, CallFrame DEF Move, vars, signals
  <1>6. QED
    BY <1>1, <1>2, <1>3, <1>4, <1>5, NextCases

LEMMA OpensOnceKept ==
  ASSUME TypeOK, OpensOnce, EnsuringWaits, [Next]_vars PROVE OpensOnce'
  <1>0. RequestsTyped /\ OpTyped
    BY TypeParts
  <1>1. \A t \in AutoClose : sig[t] = "gone" => sig'[t] = "gone"
    BY SigSteps, BybitAssumption
  <1>2. ASSUME NEW t \in AutoClose, op[t] = "idle", op'[t] # "idle" PROVE sig'[t] = "gone"
    <2>1. ASSUME NEW s \in AutoClose, GoesOn(s) \/ OpEnds(s) PROVE FALSE
      <3>1. CASE GoesOn(s)
        BY <1>2, <3>1, GoesOnUnderway
      <3>2. CASE OpEnds(s)
        BY <1>0, <1>2, <3>2 DEF OpEnds, OpCounted, OpTyped
      <3>3. QED
        BY <2>1, <3>1, <3>2
    <2>2. ASSUME NEW s \in Signals, Fire(s) PROVE sig'[t] = "gone"
      BY <1>0, <1>2, <2>2 DEF Fire, Take, ops, OpTyped, RequestsTyped
    <2>3. ASSUME NEW s \in Signals, QuietStep(s) \/ EntryStep(s) \/ DeleteFromMemory(s) PROVE FALSE
      BY <1>2, <2>3, QuietFrame, EntryFrame DEF DeleteFromMemory, ops
    <2>4. ASSUME WatcherStep \/ CallStep \/ UNCHANGED vars \/ (\E p \in Positions : Move(p)) PROVE FALSE
      BY <1>2, <2>4, WatcherFrame, CallFrame DEF Move, vars, ops
    <2>5. QED
      BY <2>1, <2>2, <2>3, <2>4, NextCases
  <1>3. QED
    BY <1>1, <1>2 DEF OpensOnce

LEMMA EnsuringWaitsKept ==
  ASSUME TypeOK, EnsuringWaits, [Next]_vars PROVE EnsuringWaits'
  <1>0. RequestsTyped /\ AutoClose \subseteq Signals /\ None \notin AutoClose
    BY TypeParts, BybitAssumption
  <1>1. ASSUME NEW s \in Signals, QuietStep(s) PROVE EnsuringWaits'
    <2>1. CASE FindEntry(s)
      BY <1>0, <2>1 DEF FindEntry, ManagerFree, EnsuringWaits, RequestsTyped
    <2>2. CASE ~FindEntry(s)
      <3>1. UNCHANGED <<known, ensuring>>
        BY <1>1, <2>2 DEF QuietStep, Create, Add, Look, DeleteRow, Deactivate, entry
      <3>2. \A t \in Signals : sig[t] = "saved" => sig'[t] = "saved"
        BY <1>0, <1>1, <2>2 DEF QuietStep, Create, Add, Look, DeleteRow, Deactivate, RequestsTyped
      <3>3. QED
        BY <1>0, <3>1, <3>2 DEF EnsuringWaits, RequestsTyped
    <2>3. QED
      BY <2>1, <2>2
  <1>2. ASSUME NEW s \in Signals, EntryStep(s) PROVE ensuring' = None
    BY <1>0, <1>2 DEF EntryStep, CreateEntry, Ensure, EnsuringWaits, RequestsTyped
  <1>3. ASSUME NEW s \in Signals, Fire(s) \/ DeleteFromMemory(s) PROVE EnsuringWaits'
    <2>1. UNCHANGED <<known, ensuring>>
      BY <1>3 DEF Fire, DeleteFromMemory, entry
    <2>2. \A t \in Signals : sig[t] = "saved" => sig'[t] = "saved"
      BY <1>0, <1>3 DEF Fire, DeleteFromMemory, Take, RequestsTyped
    <2>3. QED
      BY <1>0, <2>1, <2>2 DEF EnsuringWaits, RequestsTyped
  <1>4. CASE Cleanup
    BY <1>4 DEF Cleanup, ManagerFree, EnsuringWaits
  <1>5. ASSUME UNCHANGED <<sig, known, ensuring>> PROVE EnsuringWaits'
    BY <1>5 DEF EnsuringWaits
  <1>6. ASSUME NEW s \in AutoClose, GoesOn(s) \/ OpEnds(s) PROVE UNCHANGED <<sig, known, ensuring>>
    BY <1>6, GoesOnFrame DEF OpEnds, signals, entry
  <1>7. ASSUME CallStep \/ UNCHANGED vars \/ (\E p \in Positions : Move(p))
        PROVE  UNCHANGED <<sig, known, ensuring>>
    BY <1>7, CallFrame DEF Move, vars, signals, entry
  <1>8. ASSUME WatcherStep, ~Cleanup PROVE UNCHANGED <<sig, known, ensuring>>
    BY <1>8 DEF WatcherStep, PwStep, DataStep, Connect, SaysRunning, ReaderEnds, ReaderEndsEarly,
       ProcessMessage, LoadAsk, LoadStore, CheckStop, CheckClear, GraceStops, signals, entry
  <1>9. QED
    BY <1>1, <1>2, <1>3, <1>4, <1>5, <1>6, <1>7, <1>8, NextCases DEF EnsuringWaits

-----------------------------------------------------------------------------
(* Operations *)

\* What leaves the operations alone and the position
LEMMA OpsStutter ==
  ASSUME \/ WatcherStep \/ CallStep \/ UNCHANGED vars
         \/ \E s \in Signals : QuietStep(s) \/ EntryStep(s) \/ DeleteFromMemory(s)
  PROVE  UNCHANGED <<ops, pos>>
  <1>1. ASSUME NEW s \in Signals, QuietStep(s) \/ EntryStep(s) \/ DeleteFromMemory(s)
        PROVE  UNCHANGED <<ops, pos>>
    BY <1>1, QuietFrame, EntryFrame DEF DeleteFromMemory, outside
  <1>2. QED
    BY <1>1, WatcherFrame, CallFrame DEF vars, outside

LEMMA GoesOnKeepsOps ==
  ASSUME TypeOK, OpsInv, NEW s \in AutoClose, GoesOn(s) PROVE OpsInv'
  <1>0. OpTyped
    BY TypeParts
  <1>1. op'[s] = "order" => cap'[s] \in Positions \ {0}
    <2>1. CASE Find(s)
      <3>1. CachedPosition \in Seen
        BY TypeParts DEF CachedPosition, PwTyped, Seen
      <3>2. QED
        BY <1>0, <2>1, <3>1 DEF Find, NextFor, OpTyped, Seen
    <2>2. QED
      BY <1>0, <2>1 DEF GoesOn, Refused, AskAnswered, AskFails, OrderFilled, OrderFails, OpTyped
  <1>2. Sized'
    BY <1>1, GoesOnUnderway DEF OpsInv, Sized
  <1>3. excused \subseteq excused' /\ (pos' = pos \/ (pos' = 0 => Underway \subseteq excused'))
    BY DEF GoesOn, Find, Refused, AskAnswered, AskFails, OrderFilled, OrderFails, Moved, outside
  <1>4. FlatIsExcused'
    BY <1>3, GoesOnUnderway DEF OpsInv, FlatIsExcused
  <1>5. op'[s] = "flat" => s \in excused'
    <2>1. CASE Find(s)
      BY <1>0, <2>1 DEF Find, NextFor, OpTyped
    <2>2. CASE AskAnswered(s)
      BY <1>0, <2>2 DEF AskAnswered, OpsInv, FlatIsExcused, Underway, OpTyped
    <2>3. QED
      BY <1>0, <2>1, <2>2 DEF GoesOn, Refused, AskFails, OrderFilled, OrderFails, OpTyped
  <1>6. SkipsOnlyWhenFlat'
    BY <1>3, <1>5, GoesOnUnderway DEF OpsInv, SkipsOnlyWhenFlat
  <1>7. QED
    BY <1>2, <1>4, <1>6 DEF OpsInv

LEMMA FireKeepsOps ==
  ASSUME TypeOK, OpensOnce, OpsInv, NEW s \in Signals, Fire(s) PROVE OpsInv'
  <1>0. OpTyped /\ pos' = pos
    BY TypeParts DEF Fire, outside
  <1>1. CASE s \in AutoClose
    <2>1. /\ op' = [op EXCEPT ![s] = "begun"] /\ cap' = [cap EXCEPT ![s] = CachedPosition]
          /\ excused' = IF pos = 0 THEN excused \union {s} ELSE excused
      BY <1>1 DEF Fire
    <2>2. Underway' \subseteq Underway \union {s}
      BY <1>0, <2>1 DEF Underway, OpTyped
    <2>3. Sized' /\ SkipsOnlyWhenFlat'
      BY <1>0, <1>1, <2>1 DEF OpsInv, Sized, SkipsOnlyWhenFlat, OpTyped
    <2>4. FlatIsExcused'
      BY <1>0, <2>1, <2>2 DEF OpsInv, FlatIsExcused
    <2>5. QED
      BY <2>3, <2>4 DEF OpsInv
  <1>2. CASE s \notin AutoClose
    BY <1>0, <1>2 DEF Fire, ops, OpsInv, Sized, FlatIsExcused, SkipsOnlyWhenFlat, Underway
  <1>3. QED
    BY <1>1, <1>2

LEMMA OpsKept ==
  ASSUME TypeOK, OpensOnce, OpsInv, [Next]_vars PROVE OpsInv'
  <1>0. OpTyped
    BY TypeParts
  <1>1. ASSUME NEW s \in AutoClose, OpEnds(s) PROVE OpsInv'
    <2>1. /\ op' = [op EXCEPT ![s] = "done"] /\ cap' = [cap EXCEPT ![s] = Absent]
          /\ excused' = excused \ {s} /\ pos' = pos
      BY <1>1 DEF OpEnds, OpCounted, outside
    <2>2. Sized' /\ SkipsOnlyWhenFlat'
      BY <1>0, <2>1 DEF OpsInv, Sized, SkipsOnlyWhenFlat, OpTyped
    <2>3. FlatIsExcused'
      BY <1>1, <2>1, OpEndsCounts DEF OpsInv, FlatIsExcused
    <2>4. QED
      BY <2>2, <2>3 DEF OpsInv
  <1>2. ASSUME NEW p \in Positions, Move(p) PROVE OpsInv'
    <2>1. /\ UNCHANGED <<op, cap>> /\ pos' = p
          /\ excused' = IF p = 0 THEN excused \union Underway ELSE excused
      BY <1>2 DEF Move, Moved
    <2>2. QED
      BY <2>1 DEF OpsInv, Sized, FlatIsExcused, SkipsOnlyWhenFlat, Underway
  <1>3. ASSUME UNCHANGED <<ops, pos>> PROVE OpsInv'
    BY <1>3 DEF OpsInv, Sized, FlatIsExcused, SkipsOnlyWhenFlat, Underway, ops
  <1>4. QED
    BY <1>1, <1>2, <1>3, NextCases, OpsStutter, GoesOnKeepsOps, FireKeepsOps

-----------------------------------------------------------------------------
(* What an operation goes by *)

\* An entry of the cache that is not behind is the position.
LEMMA CacheExact ==
  ASSUME StreamInv, ~Behind, CachedPosition # Absent PROVE CachedPosition = pos
  BY DEF StreamInv, CaughtUp, Behind, CachedPosition

LEMMA CapExactKept ==
  ASSUME TypeOK, StreamInv, CapExact, [Next]_vars PROVE CapExact'
  <1>0. OpTyped
    BY TypeParts
  <1>1. ASSUME NEW s \in AutoClose, GoesOn(s) PROVE CapExact'
    <2>1. CASE Find(s)
      <3>1. UNCHANGED pos
        BY <2>1 DEF Find, outside
      <3>2. \A t \in AutoClose : t # s => cap'[t] = cap[t] /\ (t \in outdated' <=> t \in outdated)
        BY <1>0, <2>1 DEF Find, OpTyped
      <3>3. CASE cap[s] # Absent
        BY <1>0, <2>1, <3>1, <3>2, <3>3 DEF Find, CapExact, OpTyped
      <3>4. CASE cap[s] = Absent
        <4>1. cap'[s] = CachedPosition /\ (s \notin outdated' => ~Behind)
          BY <1>0, <2>1, <3>4 DEF Find, OpTyped
        <4>2. QED
          BY <3>1, <3>2, <4>1, CacheExact DEF CapExact
      <3>5. QED
        BY <3>3, <3>4
    <2>2. CASE AskAnswered(s)
      BY <1>0, <2>2 DEF AskAnswered, CapExact, outside, OpTyped
    <2>3. CASE OrderFilled(s)
      BY <2>3 DEF OrderFilled, Moved, CapExact
    <2>4. CASE Refused(s) \/ AskFails(s) \/ OrderFails(s)
      BY <2>4 DEF Refused, AskFails, OrderFails, CapExact, outside
    <2>5. QED
      BY <1>1, <2>1, <2>2, <2>3, <2>4 DEF GoesOn
  <1>2. ASSUME NEW s \in AutoClose, OpEnds(s) PROVE CapExact'
    BY <1>0, <1>2 DEF OpEnds, OpCounted, CapExact, outside, OpTyped
  <1>3. ASSUME NEW s \in Signals, Fire(s) PROVE CapExact'
    <2>1. pos' = pos
      BY <1>3 DEF Fire, outside
    <2>2. CASE s \in AutoClose
      <3>1. /\ cap' = [cap EXCEPT ![s] = CachedPosition]
            /\ outdated' = IF Behind THEN outdated \union {s} ELSE outdated
        BY <1>3, <2>2 DEF Fire
      <3>2. s \notin outdated' => ~Behind
        BY <3>1
      <3>3. QED
        BY <1>0, <2>1, <2>2, <3>1, <3>2, CacheExact DEF CapExact, OpTyped
    <2>3. CASE s \notin AutoClose
      BY <1>3, <2>1, <2>3 DEF Fire, ops, CapExact
    <2>4. QED
      BY <2>2, <2>3
  <1>4. ASSUME NEW p \in Positions, Move(p) PROVE CapExact'
    BY <1>4 DEF Move, Moved, CapExact
  <1>5. ASSUME UNCHANGED <<ops, pos>> PROVE CapExact'
    BY <1>5 DEF CapExact, ops
  <1>6. QED
    BY <1>1, <1>2, <1>3, <1>4, <1>5, NextCases, OpsStutter

-----------------------------------------------------------------------------
(* The stream, the cache and the answer of REST *)

LEMMA StreamSame ==
  ASSUME StreamInv, UNCHANGED <<pwW, data, pos>>, pwW # None => pw'[pwW] = pw[pwW]
  PROVE  StreamInv'
  BY DEF StreamInv, StartsBlank, LastIsPos, CaughtUp, LoadedOnce, data, Reads, Starting

\* With nothing known and nobody reading there is nothing to be wrong about.
LEMMA BlankStream ==
  ASSUME Forgotten PROVE StreamInv'
  BY DEF Forgotten, NoLoad, StreamInv, StartsBlank, LastIsPos, CaughtUp, LoadedOnce

LEMMA StopKeepsStream ==
  ASSUME PwTyped, StreamInv, NEW p \in AutoClose, Stop(p), UNCHANGED <<pwW, pos>>
  PROVE  StreamInv'
  <1>1. CASE Forgotten
    BY <1>1, BlankStream
  <1>2. CASE UNCHANGED data /\ p # pwW
    <2>1. pwW # None => pw'[pwW] = pw[pwW]
      BY <1>2, StoppedTyped DEF Stop, PwTyped
    <2>2. QED
      BY <1>2, <2>1, StreamSame
  <1>3. CASE UNCHANGED data /\ p = pwW /\ ~Running(p)
    <2>1. (Starting(pwW) /\ pw'[pwW].at = pw[pwW].at /\ pw'[pwW].canceled) \/ pw'[pwW].at = "off"
      BY <1>3, StoppedTyped, BybitAssumption DEF Stop, Running, Starting, PwTyped, PwStates, Stages
    <2>2. ~Reads(pwW)'
      BY <1>3, <2>1 DEF Reads
    <2>3. pw'[pwW].at \in {pw[pwW].at, "off"}
      BY <2>1
    <2>4. StartsBlank'
      BY <1>3, <2>3 DEF StreamInv, StartsBlank, Starting, data
    <2>5. QED
      BY <1>3, <2>2, <2>4 DEF StreamInv, LastIsPos, CaughtUp, LoadedOnce, data
  <1>4. QED
    BY <1>1, <1>2, <1>3 DEF Stop

LEMMA PwStepKeepsStream ==
  ASSUME PwTyped, StreamInv, NEW p \in AutoClose, PwStep(p) PROVE StreamInv'
  <1>0. UNCHANGED <<pwW, pos>> /\ p # None
    BY BybitAssumption
    DEF PwStep, Connect, SaysRunning, ReaderEnds, ReaderEndsEarly, fields, outside
  <1>1. CASE p # pwW
    <2>1. UNCHANGED data
      BY <1>1 DEF PwStep, Connect, SaysRunning, ReaderEnds, ReaderEndsEarly, data
    <2>2. pwW # None => pw'[pwW] = pw[pwW]
      BY <1>1 DEF PwStep, Connect, SaysRunning, ReaderEnds, ReaderEndsEarly, PwTyped
    <2>3. QED
      BY <1>0, <2>1, <2>2, StreamSame
  <1>2. ASSUME p = pwW, NEW ok \in BOOLEAN, Connect(p, ok) PROVE StreamInv'
    <2>1. cache = Absent /\ feed = <<>> /\ load.at = "no" /\ lag = "none" /\ UNCHANGED data
      BY <1>0, <1>2 DEF Connect, StreamInv, StartsBlank, Starting
    <2>2. QED
      BY <2>1 DEF StreamInv, StartsBlank, LastIsPos, CaughtUp, LoadedOnce, data
  <1>3. ASSUME p = pwW, SaysRunning(p) PROVE StreamInv'
    <2>1. /\ pw[p].at \in {"reading", "ended"} /\ UNCHANGED <<cache, feed, lag>>
          /\ pw'[p].at = (IF pw[p].at = "reading" THEN "up" ELSE "zombie")
          /\ pw'[p].canceled = pw[p].canceled
      BY <1>3 DEF SaysRunning, PwTyped, PwStates
    <2>2. load.at = "no" /\ lag = "none" /\ load'.at \in {"no", "ask"}
      BY <1>0, <1>3, <2>1 DEF SaysRunning, StreamInv, StartsBlank, Starting, NoLoad, PwTyped, Loads
    <2>3. Reads(pwW)' => Reads(pwW)
      BY <1>0, <1>3, <2>1 DEF Reads
    <2>4. QED
      BY <1>0, <1>3, <2>1, <2>2, <2>3
      DEF StreamInv, StartsBlank, LastIsPos, CaughtUp, LoadedOnce, Starting
  <1>4. ASSUME p = pwW, ReaderEnds(p) PROVE StreamInv'
    BY <1>4, BlankStream DEF ReaderEnds
  <1>5. ASSUME p = pwW, ReaderEndsEarly(p) PROVE StreamInv'
    <2>1. /\ pw[p].at = "reading" /\ pw'[p].at = "ended" /\ feed' = <<>> /\ UNCHANGED <<cache, load, lag>>
      BY <1>5 DEF ReaderEndsEarly, PwTyped, PwStates
    <2>2. QED
      BY <1>0, <1>5, <2>1
      DEF StreamInv, StartsBlank, LastIsPos, CaughtUp, LoadedOnce, Starting, Reads
  <1>6. QED
    BY <1>1, <1>2, <1>3, <1>4, <1>5 DEF PwStep

LEMMA ProcessMessageKeepsStream ==
  ASSUME PwTyped, StreamInv, ProcessMessage PROVE StreamInv'
  <1>1. /\ Reads(pwW) /\ feed # <<>> /\ feed \in Seq(Positions)
        /\ cache' = Head(feed) /\ feed' = Tail(feed)
        /\ lag' = IF load.at = "answered" THEN "race" ELSE "none"
        /\ UNCHANGED <<pwW, pw, load, pos>>
    BY DEF ProcessMessage, PwTyped, fields, outside
  <1>2. feed[Len(feed)] = pos
    BY <1>1 DEF StreamInv, LastIsPos
  <1>3. feed' # <<>> => feed'[Len(feed')] = pos'
    BY <1>1, <1>2
  <1>4. feed' = <<>> => cache' = pos'
    <2>1. Len(Tail(feed)) = Len(feed) - 1 /\ Head(feed) = feed[1] /\ Len(feed) \in Nat
      BY <1>1
    <2>2. Tail(feed) = <<>> => Len(feed) = 1
      <3>1. Len(<<>>) = 0
        OBVIOUS
      <3>2. Tail(feed) = <<>> => Len(Tail(feed)) = 0
        BY <3>1, Zenon
      <3>3. QED
        BY <2>1, <3>2
    <2>3. QED
      BY <1>1, <1>2, <2>1, <2>2
  <1>5. pw[pwW].at \in {"reading", "up"}
    BY <1>1 DEF Reads
  <1>6. StartsBlank'
    BY <1>1, <1>5 DEF StreamInv, StartsBlank, Starting
  <1>7. QED
    BY <1>1, <1>3, <1>4, <1>6 DEF StreamInv, LastIsPos, CaughtUp, LoadedOnce

LEMMA DataStepKeepsStream ==
  ASSUME PwTyped, StreamInv, DataStep PROVE StreamInv'
  <1>1. ASSUME NEW ok \in BOOLEAN, LoadAsk(ok) PROVE StreamInv'
    <2>1. /\ load.at = "ask" /\ UNCHANGED <<pwW, pw, cache, feed, lag, pos>>
          /\ load' \in {NoLoad, [at |-> "answered", answer |-> pos]}
      BY <1>1 DEF LoadAsk, fields, outside
    <2>2. load'.at = "answered" => load'.answer = pos
      BY <2>1 DEF NoLoad
    <2>3. StartsBlank'
      BY <2>1 DEF StreamInv, StartsBlank, Starting
    <2>4. QED
      BY <2>1, <2>2, <2>3 DEF StreamInv, LastIsPos, CaughtUp, LoadedOnce, Reads
  <1>2. CASE LoadStore
    <2>1. /\ load.at = "answered" /\ load' = NoLoad
          /\ cache' = (IF load.answer = 0 THEN cache ELSE load.answer)
          /\ lag' = (IF load.answer # 0 /\ lag = "race" THEN "stale" ELSE "none")
          /\ UNCHANGED <<pwW, pw, feed, pos>>
      BY <1>2 DEF LoadStore, fields, outside
    <2>2. lag \in {"none", "race"}
      BY <2>1 DEF StreamInv, LoadedOnce, PwTyped
    <2>3. StartsBlank'
      BY <2>1 DEF StreamInv, StartsBlank, Starting
    <2>4. QED
      BY <2>1, <2>2, <2>3 DEF StreamInv, LastIsPos, CaughtUp, LoadedOnce, Reads, NoLoad
  <1>3. QED
    BY <1>1, <1>2, ProcessMessageKeepsStream DEF DataStep

\* The stream is told of every change while it is read.
LEMMA MovedKeepsStream ==
  ASSUME PwTyped, StreamInv, NEW p \in Positions, Moved(p), UNCHANGED <<pwW, pw, cache, load, lag>>
  PROVE  StreamInv'
  <1>1. Reads(pwW)' <=> Reads(pwW)
    BY DEF Reads
  <1>2. CASE Reads(pwW)
    <2>1. feed' = Append(feed, p) /\ feed \in Seq(Positions) /\ pos' = p
      BY <1>2 DEF Moved, PwTyped
    <2>2. feed' # <<>> /\ feed'[Len(feed')] = pos'
      BY <2>1
    <2>3. pw[pwW].at \in {"reading", "up"}
      BY <1>2 DEF Reads
    <2>4. QED
      BY <2>2, <2>3 DEF StreamInv, StartsBlank, LastIsPos, CaughtUp, LoadedOnce, Starting
  <1>3. CASE ~Reads(pwW)
    <2>1. feed' = feed
      BY <1>3 DEF Moved
    <2>2. QED
      BY <1>1, <1>3, <2>1 DEF StreamInv, StartsBlank, LastIsPos, CaughtUp, LoadedOnce, Starting
  <1>4. QED
    BY <1>2, <1>3

LEMMA StreamKept ==
  ASSUME TypeOK, Sized, StreamInv, [Next]_vars PROVE StreamInv'
  <1>0. PwTyped /\ OpTyped
    BY TypeParts
  <1>1. ASSUME WatcherStep PROVE StreamInv'
    <2>1. CASE CheckStop
      BY <1>0, <2>1, StopKeepsStream DEF CheckStop, PwTyped, outside
    <2>2. CASE CheckClear
      BY <2>2, BlankStream DEF CheckClear
    <2>3. CASE GraceStops
      BY <1>0, <2>3, StopKeepsStream DEF GraceStops, PwTyped, fields, outside
    <2>4. CASE Cleanup
      <3>1. UNCHANGED <<pwW, pos>>
        BY <2>4 DEF Cleanup, fields
      <3>2. (pwM \in AutoClose /\ Stop(pwM)) \/ UNCHANGED <<pw, data>>
        BY <1>0, <2>4 DEF Cleanup, PwTyped
      <3>3. QED
        BY <1>0, <3>1, <3>2, StopKeepsStream, StreamSame
    <2>5. QED
      BY <1>0, <1>1, <2>1, <2>2, <2>3, <2>4, PwStepKeepsStream, DataStepKeepsStream DEF WatcherStep
  <1>2. ASSUME NEW s \in AutoClose, GoesOn(s) PROVE StreamInv'
    <2>1. UNCHANGED <<pwW, pw, cache, load, lag>>
      BY <1>2, GoesOnFrame DEF fields
    <2>2. CASE OrderFilled(s)
      <3>1. cap[s] \in Positions
        BY <2>2 DEF OrderFilled, Sized
      <3>2. AfterOrder(cap[s]) \in Positions /\ Moved(AfterOrder(cap[s]))
        BY <1>0, <2>2, <3>1, AfterOrderTyped DEF OrderFilled, OpTyped
      <3>3. QED
        BY <1>0, <2>1, <3>2, MovedKeepsStream
    <2>3. CASE ~OrderFilled(s)
      BY <1>2, <2>1, <2>3, StreamSame
      DEF GoesOn, Find, Refused, AskAnswered, AskFails, OrderFails, data, outside
    <2>4. QED
      BY <2>2, <2>3
  <1>3. ASSUME NEW p \in Positions, Move(p) PROVE StreamInv'
    BY <1>0, <1>3, MovedKeepsStream DEF Move, fields
  <1>4. ASSUME NEW s \in Signals, EntryStep(s) PROVE StreamInv'
    BY <1>4, EntryFrame, BlankStream, StreamSame DEF NewWatcher, outside
  <1>5. ASSUME UNCHANGED <<pwW, pw, data, pos>> PROVE StreamInv'
    BY <1>5, StreamSame
  <1>6. ASSUME NEW s \in Signals, QuietStep(s) \/ Fire(s) \/ DeleteFromMemory(s)
        PROVE  UNCHANGED <<pwW, pw, data, pos>>
    BY <1>6, QuietFrame DEF Fire, DeleteFromMemory, CheckAndStop, fields, outside
  <1>7. ASSUME NEW s \in AutoClose, OpEnds(s) PROVE UNCHANGED <<pwW, pw, data, pos>>
    BY <1>7 DEF OpEnds, CheckAndStop, outside
  <1>8. ASSUME CallStep \/ UNCHANGED vars PROVE UNCHANGED <<pwW, pw, data, pos>>
    BY <1>8, CallFrame DEF vars, fields, outside
  <1>9. QED
    BY <1>1, <1>2, <1>3, <1>4, <1>5, <1>6, <1>7, <1>8, NextCases

-----------------------------------------------------------------------------
(* Position watchers *)

\* checkAndStopPositionWatcher takes care of a position watcher nobody needs.
LEMMA CheckAndStopEnds ==
  ASSUME PwTyped, Tracked, NEW list, NEW n \in Int, CheckAndStop(list, n), pw' = pw
  PROVE  /\ Tracked'
         /\ \/ n # 0 \/ AutoCloseLeft(list) \/ check' # "idle"
            \/ Live(pwW)' => pwW' \in adrift'
  <1>1. pwW' = pwW /\ adrift \subseteq adrift'
    BY DEF CheckAndStop
  <1>2. Tracked'
    BY <1>1 DEF Tracked, Live
  <1>3. Live(pwW) => Running(pwW) \/ (pwW # None /\ Starting(pwW))
    BY DEF Live, Running, Starting, PwTyped, PwStates, Stages
  <1>4. n = 0 /\ ~AutoCloseLeft(list) /\ Running(pwW) => check' = "stop"
    BY DEF CheckAndStop
  <1>5. n = 0 /\ ~AutoCloseLeft(list) /\ pwW # None /\ Starting(pwW) => pwW \in adrift'
    BY DEF CheckAndStop
  <1>6. Live(pwW)' => Live(pwW)
    BY <1>1 DEF Live
  <1>7. QED
    BY <1>1, <1>2, <1>3, <1>4, <1>5, <1>6

\* While a signal with auto-close is left, position watchers are needed.
LEMMA LeftIsNeeded ==
  ASSUME NEW s \in Signals, AutoCloseLeft(Watched \ {s}), RequestsTyped,
         \A t \in Signals : t # s => sig'[t] = sig[t]
  PROVE  Needed'
  BY BybitAssumption DEF AutoCloseLeft, Watched, Needed

LEMMA FireKeepsPw ==
  ASSUME TypeOK, OpensOnce, PwInv, NEW s \in Signals, Fire(s) PROVE PwInv'
  <1>0. PwTyped /\ RequestsTyped /\ OpTyped
    BY TypeParts
  <1>1. pending' \in Nat /\ (s \in AutoClose => pending' > 0) /\ CheckAndStop(Watched \ {s}, pending')
    <2>1. CASE s \in AutoClose
      BY <1>0, <2>1, FireCounts, UnderwayFinite DEF Fire, OpTyped
    <2>2. CASE s \notin AutoClose
      BY <1>0, <2>2, UnderwayFinite DEF Fire, ops, OpTyped
    <2>3. QED
      BY <2>1, <2>2
  <1>2. /\ Tracked'
        /\ \/ pending' # 0 \/ AutoCloseLeft(Watched \ {s}) \/ check' # "idle"
           \/ Live(pwW)' => pwW' \in adrift'
    BY <1>0, <1>1, CheckAndStopEnds DEF PwInv, Fire
  <1>3. \A t \in Signals : t # s => sig'[t] = sig[t]
    BY <1>0 DEF Fire, Take, RequestsTyped
  <1>4. AutoCloseLeft(Watched \ {s}) => Needed'
    BY <1>0, <1>3, LeftIsNeeded
  <1>5. QED
    BY <1>1, <1>2, <1>4 DEF PwInv, UnneededEnds, Needed

LEMMA DeleteFromMemoryKeepsPw ==
  ASSUME TypeOK, PwInv, NEW s \in Signals, DeleteFromMemory(s) PROVE PwInv'
  <1>0. PwTyped /\ RequestsTyped /\ OpTyped /\ pending \in Nat
    BY TypeParts, UnderwayFinite DEF OpTyped
  <1>1. /\ Tracked'
        /\ \/ pending # 0 \/ AutoCloseLeft(Watched \ {s}) \/ check' # "idle"
           \/ Live(pwW)' => pwW' \in adrift'
    BY <1>0, CheckAndStopEnds DEF PwInv, DeleteFromMemory
  <1>2. (\A t \in Signals : t # s => sig'[t] = sig[t]) /\ pending' = pending
    BY <1>0 DEF DeleteFromMemory, Take, RequestsTyped, ops
  <1>3. AutoCloseLeft(Watched \ {s}) => Needed'
    BY <1>0, <1>2, LeftIsNeeded
  <1>4. QED
    BY <1>0, <1>1, <1>2, <1>3 DEF PwInv, UnneededEnds, Needed

LEMMA OpEndsKeepsPw ==
  ASSUME TypeOK, PwInv, NEW s \in AutoClose, OpEnds(s) PROVE PwInv'
  <1>0. PwTyped /\ OpTyped /\ pending \in Nat /\ Cardinality(Underway \ {s}) \in Nat
    BY TypeParts, UnderwayFinite, FS_Subset, FS_CardinalityType DEF OpTyped
  <1>1. pending' \in Nat /\ pending' = pending - 1 /\ CheckAndStop(Watched, pending')
    BY <1>0, OpEndsCounts DEF OpEnds, OpCounted
  <1>2. /\ Tracked'
        /\ \/ pending' # 0 \/ AutoCloseLeft(Watched) \/ check' # "idle"
           \/ Live(pwW)' => pwW' \in adrift'
    BY <1>0, <1>1, CheckAndStopEnds DEF PwInv, OpEnds
  <1>3. AutoCloseLeft(Watched) => Needed'
    BY DEF AutoCloseLeft, Watched, Needed, OpEnds, signals
  <1>4. Tracked'
    BY <1>2
  <1>5. pending' # 0 => Needed'
    <2>1. pending' \in Nat
      BY <1>1, Zenon
    <2>2. pending' # 0 => pending' > 0
      BY <2>1
    <2>3. QED
      BY <2>2 DEF Needed
  <1>6. UnneededEnds'
    BY <1>2, <1>3, <1>5 DEF UnneededEnds
  <1>7. QED
    BY <1>4, <1>6 DEF PwInv

\* Steps that start no position watcher and need none less
LEMMA PwStutter ==
  ASSUME PwInv, UNCHANGED <<pwW, pending>>, adrift \subseteq adrift',
         check' = "idle" => check = "idle",
         \A s \in AutoClose : sig[s] \in {"asked", "watched"} => sig'[s] \in {"asked", "watched"},
         \A p \in AutoClose : pw[p].at = "off" => pw'[p].at = "off",
         pwW \in AutoClose \union {None}
  PROVE  PwInv'
  <1>1. \A p \in AutoClose : Live(p)' => Live(p)
    BY DEF Live
  <1>2. Live(pwW)' => Live(pwW)
    BY DEF Live
  <1>3. Needed => Needed'
    BY DEF Needed
  <1>4. QED
    BY <1>1, <1>2, <1>3 DEF PwInv, Tracked, UnneededEnds

LEMMA WatcherStepKeepsPw ==
  ASSUME TypeOK, PwInv, WatcherStep PROVE PwInv'
  <1>0. PwTyped /\ UNCHANGED <<sig, pending>>
    BY TypeParts, WatcherFrame DEF ops
  <1>1. CASE CheckClear
    <2>1. pwW' = None /\ pw' = pw /\ adrift' = IF Live(pwW) THEN adrift \union {pwW} ELSE adrift
      BY <1>1 DEF CheckClear
    <2>2. \A p \in AutoClose : Live(p)' => Live(p)
      BY <2>1 DEF Live
    <2>3. Tracked'
      BY <2>1, <2>2 DEF PwInv, Tracked
    <2>4. UnneededEnds'
      BY <2>1 DEF UnneededEnds, Live
    <2>5. QED
      BY <2>3, <2>4 DEF PwInv
  <1>2. CASE ~CheckClear
    <2>1. UNCHANGED <<pwW, adrift>> /\ (check' = "idle" => check = "idle")
      BY <1>2 DEF WatcherStep, PwStep, DataStep, Connect, SaysRunning, ReaderEnds, ReaderEndsEarly,
         ProcessMessage, LoadAsk, LoadStore, CheckStop, GraceStops, Cleanup, fields
    <2>2. ASSUME NEW p \in AutoClose, pw[p].at = "off" PROVE pw'[p].at = "off"
      <3>1. ASSUME NEW q \in AutoClose, pw' = Stopped(q) PROVE pw'[p].at = "off"
        BY <1>0, <2>2, <3>1, StoppedTyped
      <3>2. ASSUME NEW q \in AutoClose, PwStep(q) PROVE pw'[p].at = "off"
        BY <1>0, <2>2, <3>2
        DEF PwStep, Connect, SaysRunning, ReaderEnds, ReaderEndsEarly, Off, PwTyped
      <3>3. CASE DataStep
        BY <2>2, <3>3 DEF DataStep, ProcessMessage, LoadAsk, LoadStore
      <3>4. CASE CheckStop
        BY <1>0, <3>1, <3>4 DEF CheckStop, Stop, PwTyped
      <3>5. CASE GraceStops
        BY <1>0, <3>1, <3>5 DEF GraceStops, Stop, PwTyped
      <3>6. CASE Cleanup
        BY <1>0, <2>2, <3>1, <3>6 DEF Cleanup, Stop, PwTyped
      <3>7. QED
        BY <1>2, <3>2, <3>3, <3>4, <3>5, <3>6 DEF WatcherStep
    <2>3. QED
      BY <1>0, <2>1, <2>2, PwStutter DEF PwTyped
  <1>3. QED
    BY <1>1, <1>2

LEMMA EntryStepKeepsPw ==
  ASSUME TypeOK, PwInv, NEW s \in Signals, EntryStep(s) PROVE PwInv'
  <1>0. PwTyped /\ RequestsTyped
    BY TypeParts
  <1>1. /\ check' = check /\ pending' = pending /\ sig' = [sig EXCEPT ![s] = "asked"]
        /\ UNCHANGED <<pw, pwM, pwW, data, adrift>> \/ (s \in AutoClose /\ NewWatcher(s))
    BY EntryFrame DEF ops
  <1>2. CASE UNCHANGED <<pw, pwM, pwW, data, adrift>>
    <2>1. \A t \in AutoClose : sig[t] \in {"asked", "watched"} => sig'[t] \in {"asked", "watched"}
      BY <1>0, <1>1, BybitAssumption DEF RequestsTyped
    <2>2. QED
      BY <1>0, <1>1, <1>2, <2>1, PwStutter DEF PwTyped
  <1>3. CASE s \in AutoClose /\ NewWatcher(s)
    <2>1. /\ pw' = [pw EXCEPT ![s] = NewPw] /\ pwW' = s
          /\ adrift' = IF Live(pwW) THEN adrift \union {pwW} ELSE adrift
      BY <1>3 DEF NewWatcher
    <2>2. \A p \in AutoClose : p # s => (Live(p)' => Live(p))
      BY <1>0, <2>1 DEF PwTyped, Live
    <2>3. Tracked'
      BY <2>1, <2>2 DEF PwInv, Tracked
    <2>4. Needed'
      BY <1>0, <1>1, <1>3 DEF Needed, RequestsTyped
    <2>5. QED
      BY <2>3, <2>4 DEF PwInv, UnneededEnds
  <1>4. QED
    BY <1>1, <1>2, <1>3

LEMMA PwKept ==
  ASSUME TypeOK, OpensOnce, PwInv, [Next]_vars PROVE PwInv'
  <1>0. PwTyped /\ RequestsTyped
    BY TypeParts
  <1>1. ASSUME UNCHANGED <<fields, pw, pending>>,
               \A t \in AutoClose : sig[t] \in {"asked", "watched"} => sig'[t] \in {"asked", "watched"}
        PROVE  PwInv'
    BY <1>0, <1>1, PwStutter DEF PwTyped, fields
  <1>2. ASSUME NEW s \in AutoClose, GoesOn(s) PROVE PwInv'
    BY <1>1, <1>2, GoesOnFrame DEF signals
  <1>3. ASSUME NEW s \in Signals, QuietStep(s) PROVE PwInv'
    <2>1. \A t \in AutoClose : sig[t] \in {"asked", "watched"} => sig'[t] \in {"asked", "watched"}
      BY <1>0, <1>3, BybitAssumption
      DEF QuietStep, Create, FindEntry, Add, Look, DeleteRow, Deactivate, signals, RequestsTyped
    <2>2. QED
      BY <1>1, <1>3, <2>1, QuietFrame DEF ops
  <1>4. ASSUME CallStep \/ UNCHANGED vars \/ (\E p \in Positions : Move(p)) PROVE PwInv'
    <2>1. UNCHANGED <<fields, pw, pending, sig>>
      BY <1>4, CallFrame DEF vars, Move, signals, ops
    <2>2. QED
      BY <1>1, <2>1
  <1>5. QED
    BY <1>2, <1>3, <1>4, NextCases, FireKeepsPw, DeleteFromMemoryKeepsPw, OpEndsKeepsPw,
       WatcherStepKeepsPw, EntryStepKeepsPw

-----------------------------------------------------------------------------
(* The invariant *)

LEMMA InitEstablishes == Init => IInv
  <1> SUFFICES ASSUME Init PROVE IInv
    OBVIOUS
  <1>1. Underway = {} /\ Cardinality(Underway) = 0
    BY FS_EmptySet DEF Init, Underway
  <1>2. OpTyped
    BY <1>1, BybitAssumption DEF Init, OpTyped, OpStages, Seen
  <1>3. PwTyped
    BY DEF Init, PwTyped, PwStates, Off, Stages, Loads, NoLoad, Seen
  <1>4. RequestsTyped
    <2>1. sig \in [Signals -> SigStages] /\ row \subseteq Signals
      BY DEF Init, SigStages
    <2>2. del \in [Signals -> DelStages]
      BY DEF Init, DelStages
    <2>3. calls \subseteq Calls /\ lists \subseteq SUBSET Signals /\ events \in 0..MaxEvents
      BY BybitAssumption DEF Init
    <2>4. QED
      BY <2>1, <2>2, <2>3 DEF Init, RequestsTyped
  <1>5. OpensOnce /\ EnsuringWaits /\ OpsInv /\ CapExact
    BY <1>1 DEF Init, OpensOnce, EnsuringWaits, OpsInv, Sized, FlatIsExcused, SkipsOnlyWhenFlat,
            CapExact
  <1>6. StreamInv /\ PwInv
    BY DEF Init, StreamInv, StartsBlank, LastIsPos, CaughtUp, LoadedOnce, NoLoad, PwInv, Tracked,
           UnneededEnds, Live, Off, Reads
  <1>7. QED
    BY <1>2, <1>3, <1>4, <1>5, <1>6, TypeParts DEF IInv

LEMMA Invariance == Spec => []IInv
  <1>1. IInv /\ [Next]_vars => IInv'
    <2>1. IInv => Sized
      BY DEF IInv, OpsInv
    <2>2. QED
      BY <2>1, TypesKept, OpensOnceKept, EnsuringWaitsKept, OpsKept, StreamKept, CapExactKept, PwKept
      DEF IInv
  <1>2. QED
    BY <1>1, InitEstablishes, PTL DEF Spec

-----------------------------------------------------------------------------
(* What follows *)

\* Fields and goroutines keep their types, and pendingAutoCloseOps is the number
\* of operations under way.
THEOREM TypeCorrect == Spec => []TypeOK
  <1>1. IInv => TypeOK
    BY DEF IInv
  <1>2. QED
    BY <1>1, Invariance, PTL

\* An open position is not skipped because of what was seen before.
THEOREM OpenIsNotSkipped == Spec => []SkipsOnlyWhenFlat
  <1>1. IInv => SkipsOnlyWhenFlat
    BY DEF IInv, OpsInv
  <1>2. QED
    BY <1>1, Invariance, PTL

\* An order is for the real position, unless what it was made from was behind.
THEOREM OrdersAreExact == Spec => []OrderIsExact
  <1>1. IInv => OrderIsExact
    <2>1. OpsInv => \A s \in AutoClose : op[s] = "order" => cap[s] # Absent
      BY BybitAssumption DEF OpsInv, Sized
    <2>2. QED
      BY <2>1 DEF IInv, CapExact, OrderIsExact
  <1>2. QED
    BY <1>1, Invariance, PTL

\* No position watcher runs on when neither a signal nor an operation needs it,
\* unless it was lost.
THEOREM UnneededStops == Spec => []UnneededIsStopped
  <1>1. IInv => UnneededIsStopped
    <2>1. \A p \in AutoClose : Running(p) => Live(p)
      BY DEF Running, Live
    <2>2. QED
      BY <2>1 DEF IInv, PwInv, Tracked, UnneededEnds, UnneededIsStopped
  <1>2. QED
    BY <1>1, Invariance, PTL
=============================================================================
