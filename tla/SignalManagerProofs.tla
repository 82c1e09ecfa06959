------------------------ MODULE SignalManagerProofs ------------------------
(***************************************************************************)
(* Replaced signals stay inactive, a signal fires once, a cleanup spares   *)
(* what was held when it began, and SignalManager implements SignalLife,   *)
(* for any number of signals, requests, cleanups and watchers.             *)
(*                                                                         *)
(* IInv says that whatever is on its way to a watcher or about to be       *)
(* deleted has a row, and that a request owns the signal it is going to    *)
(* save, whose row does not exist yet.  JInv adds that a signal is in one  *)
(* place, on its way or in one watcher, so that one held when a stop began *)
(* cannot come to a watcher the stop takes away.                           *)
(***************************************************************************)
EXTENDS SignalManager, TLAPS

USE DEF vars, memory, calls, monitor, history, fault

Statuses == {"none", "active", "inactive", "deleted"}
StopCalls == [pc : {"sweep"}, user : Users, known : SUBSET Signals] \cup
             [pc : {"idle", "rows", "again", "memory", "cleanup", "detach"},
              user : {None}, known : SUBSET Signals]
Calls == [pc : {"idle", "replace", "create", "undo"}, signal : Signals \cup {None},
          todo : SUBSET Signals]

\* What most steps do to the rows: none appears, and none becomes active.
RowsEnd ==
    /\ row' \in [Signals -> Statuses]
    /\ events' \in 0..MaxEvents
    /\ failed' \subseteq Signals /\ failed \subseteq failed'
    /\ \A x \in Signals : /\ row'[x] = "none" <=> row[x] = "none"
                          /\ row'[x] = "active" => row[x] = "active"

\* UPDATE of is_active: a row that is missing stays missing, one that exists
\* stays, and after b = FALSE the row of s is not active.
LEMMA WrittenFacts ==
    ASSUME row \in [Signals -> Statuses], NEW s \in Signals, NEW b \in BOOLEAN
    PROVE  /\ Written(s, b) \in [Signals -> Statuses]
           /\ \A t \in Signals : Written(s, b)[t] = "none" <=> row[t] = "none"
           /\ \A t \in Signals \ {s} : Written(s, b)[t] = row[t]
           /\ ~b => Written(s, b)[s] # "active"
  BY DEF Written, Statuses

\* Every signal has a slot.
LEMMA SlotType == ASSUME NEW s \in Signals PROVE Slot(s) \in Slots
  BY DEF Slots

\* The signals in memory were saved.
LEMMA InMemorySaved ==
    ASSUME TypeOK, Saved, NEW u \in Users \cup {None}
    PROVE  /\ InMemory(u) \subseteq Signals
           /\ \A s \in InMemory(u) : row[s] # "none"
  <1>1. CASE u = None
    BY <1>1 DEF InMemory
  <1>2. CASE u \in Users
    <2>1. WatchersOf(u) \subseteq Watchers
      BY <1>2 DEF WatchersOf, TypeOK
    <2>2. QED
      BY <2>1 DEF InMemory, TypeOK, Saved
  <1>3. QED
    BY <1>1, <1>2

\* Nothing was saved, requested or replaced.
LEMMA Initially == Init => IInv
  <1> SUFFICES ASSUME Init PROVE IInv
    OBVIOUS
  <1>1. TypeOK
    BY ManagerAssumption DEF Init, TypeOK, NoSlots, NoRequest, NoStop, NoReviver, AutoClose
  <1>2. Saved
    BY DEF Init, Saved, NoReviver
  <1>3. Owned
    BY DEF Init, Owned, NoRequest
  <1>4. ReplacedStaysInactive
    BY DEF Init, ReplacedStaysInactive
  <1>5. QED
    BY <1>1, <1>2, <1>3, <1>4 DEF IInv

\* A bounded event.
LEMMA AnotherFacts == ASSUME TypeOK, Another PROVE events' \in 0..MaxEvents
  BY ManagerAssumption DEF TypeOK, Another

\* Steps that write no row.
LEMMA RowsSame == ASSUME TypeOK, UNCHANGED <<row, fault>> PROVE RowsEnd
  BY DEF TypeOK, RowsEnd, Statuses

\* UPDATE signals SET is_active = false, which may fail.
LEMMA Deactivated ==
    ASSUME TypeOK, NEW s \in Signals, MayFail(s, Written(s, FALSE))
    PROVE  RowsEnd /\ (row'[s] = "active" => s \in failed')
  <1>1. row \in [Signals -> Statuses] /\ failed \subseteq Signals /\ events \in 0..MaxEvents
    BY DEF TypeOK, Statuses
  <1>2. /\ Written(s, FALSE) \in [Signals -> Statuses]
        /\ \A t \in Signals : Written(s, FALSE)[t] = "none" <=> row[t] = "none"
        /\ \A t \in Signals \ {s} : Written(s, FALSE)[t] = row[t]
        /\ Written(s, FALSE)[s] # "active"
    BY <1>1, WrittenFacts
  <1>3. CASE row' = Written(s, FALSE) /\ UNCHANGED fault
    BY <1>1, <1>2, <1>3 DEF RowsEnd
  <1>4. CASE Another /\ failed' = failed \cup {s} /\ UNCHANGED row
    <2>1. events' \in 0..MaxEvents
      BY <1>4, AnotherFacts
    <2>2. QED
      BY <1>1, <1>4, <2>1 DEF RowsEnd
  <1>5. QED
    BY <1>3, <1>4 DEF MayFail

\* Ownership survives a step of others.
LEMMA OwnedKept == ASSUME IInv, RowsEnd, UNCHANGED <<request, replaced>> PROVE Owned'
  BY DEF IInv, TypeOK, Owned, RowsEnd

\* So does the inactivity of what was replaced.
LEMMA ReplacedKept ==
    ASSUME IInv, RowsEnd, UNCHANGED replaced, restored \subseteq restored'
    PROVE  ReplacedStaysInactive'
  BY DEF IInv, TypeOK, ReplacedStaysInactive, RowsEnd

\* A request that begins, replaces, is refused, saves or undoes.
LEMMA RequestKeeps ==
    ASSUME IInv, NEW g \in Requests,
           RequestStep(g) \/ \E s \in Signals : CreateSignal(g, s)
    PROVE  IInv'
  <1> USE DEF IInv, TypeOK, Saved, Owned, ReplacedStaysInactive
  <1>1. ASSUME NEW s \in Signals, CreateSignal(g, s) PROVE IInv'
    BY <1>1, ManagerAssumption DEF CreateSignal, Active
  <1>2. ASSUME NEW t \in Signals, Replace(g, t) PROVE IInv'
    <2>1. RowsEnd /\ (row'[t] = "active" => t \in failed')
      BY <1>2, Deactivated DEF Replace
    <2>2. row[t] # "none" /\ request[g].signal \in Signals
      BY <1>2, ManagerAssumption DEF Replace
    <2>3. request' \in [Requests -> Calls]
          /\ \A h \in Requests : request'[h].pc = request[h].pc
               /\ request'[h].signal = request[h].signal
               /\ request'[h].todo \subseteq request[h].todo
      BY <1>2 DEF Replace, Calls
    <2>4. replaced' \in [Signals -> SUBSET Signals]
          /\ \A s \in Signals : replaced'[s] \subseteq replaced[s] \cup {t}
      BY <1>2, <2>2 DEF Replace
    <2>5. finding' \subseteq [signal : Signals, user : Users \cup {None}]
      BY <1>2 DEF Replace
    <2>6. UNCHANGED <<memory, creating, adding, removing, erasing, deactivating, closing,
                      autoClosing, stop, monitor, boot, cut, restored, fired>>
      BY <1>2 DEF Replace
    <2>7. TypeOK'
      BY <2>1, <2>3, <2>4, <2>5, <2>6 DEF RowsEnd, Calls, Statuses
    <2>8. Saved'
      BY <2>1, <2>6, ManagerAssumption DEF RowsEnd
    <2>9. Owned'
      BY <2>1, <2>2, <2>3, <2>4, <2>6 DEF RowsEnd
    <2>10. ReplacedStaysInactive'
      BY <2>1, <2>4, <2>6 DEF RowsEnd
    <2>11. QED
      BY <2>7, <2>8, <2>9, <2>10
  <1>3. CASE Reject(g)
    BY <1>3 DEF Reject, NoRequest
  <1>4. CASE Save(g)
    <2>1. request[g].signal \in Signals /\ row[request[g].signal] = "none"
      BY <1>4, ManagerAssumption DEF Save
    <2>2. TypeOK'
      BY <1>4, <2>1 DEF Save
    <2>3. Saved' /\ Owned'
      BY <1>4, <2>1 DEF Save
    <2>4. ReplacedStaysInactive'
      BY <1>4, <2>1 DEF Save
    <2>5. QED
      BY <2>2, <2>3, <2>4
  <1>5. CASE Undo(g)
    <2> DEFINE s == request[g].signal
    <2>1. s \in Signals
      BY <1>5, ManagerAssumption DEF Undo
    <2>2. request' = [request EXCEPT ![g] = NoRequest]
          /\ UNCHANGED <<memory, calls, stop, monitor, boot, history>>
      BY <1>5 DEF Undo
    <2>3. /\ row' \in [Signals -> Statuses]
          /\ events' \in 0..MaxEvents
          /\ failed' \subseteq Signals /\ failed \subseteq failed'
          /\ \A x \in Signals : row'[x] = row[x] \/ (x = s /\ row'[x] = "deleted")
      <3>1. CASE row' = [row EXCEPT ![s] = "deleted"] /\ UNCHANGED fault
        BY <2>1, <3>1 DEF Statuses
      <3>2. CASE Another /\ failed' = failed \cup {s} /\ UNCHANGED row
        BY <2>1, <3>2, AnotherFacts DEF Statuses
      <3>3. QED
        BY <1>5, <3>1, <3>2 DEF Undo, MayFail
    <2>4. request' \in [Requests -> Calls]
          /\ \A h \in Requests : (h # g /\ request'[h] = request[h])
               \/ (h = g /\ request'[h] = NoRequest)
      BY <2>2 DEF NoRequest, Calls
    <2>5. TypeOK'
      BY <2>2, <2>3, <2>4 DEF Calls, Statuses
    <2>6. Saved'
      BY <2>2, <2>3, ManagerAssumption
    <2>7. Owned'
      <3>1. request[g].pc = "undo"
        BY <1>5 DEF Undo
      <3>2. QED
        BY <2>1, <2>2, <2>3, <2>4, <3>1, ManagerAssumption DEF NoRequest
    <2>8. ReplacedStaysInactive'
      BY <2>2, <2>3
    <2>9. QED
      BY <2>5, <2>6, <2>7, <2>8
  <1>6. QED
    BY <1>1, <1>2, <1>3, <1>4, <1>5 DEF RequestStep

\* Finding the user's watchers.
LEMMA FindUserKeeps == ASSUME IInv, NEW c \in creating, FindUser(c) PROVE IInv'
  <1> USE DEF IInv, TypeOK, Saved
  <1>1. user' \in Users /\ slots' \in [Users -> [Slots -> Watchers \cup {None}]]
    <2>1. CASE user # None
      BY <2>1 DEF FindUser
    <2>2. CASE user = None
      <3> DEFINE new == CHOOSE u \in FreeUsers : TRUE
      <3>1. FreeUsers # {} /\ user' = new /\ slots' = [slots EXCEPT ![new] = NoSlots]
        BY <2>2 DEF FindUser
      <3>2. new \in Users
        BY <3>1 DEF FreeUsers
      <3>3. NoSlots \in [Slots -> Watchers \cup {None}]
        BY DEF NoSlots
      <3> HIDE DEF new
      <3>4. QED
        BY <3>1, <3>2, <3>3
    <2>3. QED
      BY <2>1, <2>2
  <1>2. creating' \subseteq [signal : Signals, user : Users \cup {None},
                             by : {"request", "boot", "revive"}]
        /\ \A d \in creating' : row[d.signal] # "none"
    BY <1>1 DEF FindUser
  <1>3. UNCHANGED <<row, held, request, adding, finding, removing, erasing, deactivating,
                    closing, autoClosing, stop, monitor, boot, history, fault>>
    BY DEF FindUser
  <1>4. RowsEnd
    BY <1>3, RowsSame
  <1>5. TypeOK' /\ Saved'
    BY <1>1, <1>2, <1>3
  <1>6. QED
    BY <1>3, <1>4, <1>5, OwnedKept, ReplacedKept

\* The answer to a request, or its turning to pc.
LEMMA RequestGoesFacts ==
    ASSUME IInv, NEW c \in creating, NEW pc \in {"idle", "undo"}, RequestGoes(c, pc)
    PROVE  /\ request' \in [Requests -> Calls]
           /\ \A g \in Requests :
                \/ request'[g] = request[g]
                \/ request'[g] = NoRequest
                \/ request'[g].pc = "undo" /\ request'[g].signal = request[g].signal
                   /\ request[g].signal = c.signal
  <1> USE DEF IInv, TypeOK, Calls
  <1>1. SUFFICES ASSUME NEW g \in Requests
                 PROVE  /\ request'[g] \in Calls
                        /\ \/ request'[g] = request[g]
                           \/ request'[g] = NoRequest
                           \/ request'[g].pc = "undo" /\ request'[g].signal = request[g].signal
                              /\ request[g].signal = c.signal
    BY DEF RequestGoes
  <1>2. request[g] \in Calls /\ NoRequest \in Calls
    BY DEF NoRequest
  <1>3. CASE c.by = "request" /\ request[g].signal = c.signal /\ pc # "idle"
    <2>1. request'[g] = [request[g] EXCEPT !.pc = "undo"]
      BY <1>3 DEF RequestGoes
    <2>2. QED
      BY <1>2, <1>3, <2>1
  <1>4. CASE ~(c.by = "request" /\ request[g].signal = c.signal /\ pc # "idle")
    BY <1>2, <1>4 DEF RequestGoes
  <1>5. QED
    BY <1>3, <1>4

\* Saved signals stay saved where nothing new is on its way.
LEMMA SavedKept ==
    ASSUME IInv, RowsEnd, UNCHANGED reviver, creating' \subseteq creating,
           adding' \subseteq adding, boot' \subseteq boot, erasing' \subseteq erasing,
           \A w \in Watchers : held'[w] \subseteq held[w]
    PROVE  Saved'
  BY DEF IInv, TypeOK, Saved, RowsEnd

\* The cleanup of an old watcher.
LEMMA ReplacedFacts ==
    ASSUME TypeOK, NEW old \in Watchers \cup {None}
    PROVE  Replaced(old) \subseteq [watcher : Watchers, by : {"replace", "cleanup"},
                                    known : SUBSET Signals]
  BY DEF TypeOK, Replaced

\* A watcher for a signal is made, or could not be made.
LEMMA CreateKeeps ==
    ASSUME IInv, NEW c \in creating, Create(c) \/ CreateFails(c)
    PROVE  IInv'
  <1> USE DEF IInv, TypeOK
  <1> DEFINE k == Slot(c.signal)
  <1>1. c.signal \in Signals /\ c.user \in Users /\ k \in Slots
        /\ slots[c.user][k] \in Watchers \cup {None}
    <2>1. c.signal \in Signals /\ c.user \in Users
      BY DEF Create, CreateFails
    <2>2. k \in Slots
      BY <2>1, SlotType
    <2>3. QED
      BY <2>1, <2>2
  <1>2. closing' \subseteq [watcher : Watchers, by : {"replace", "cleanup"},
                            known : SUBSET Signals]
    <2>1. closing' = Replaced(slots[c.user][k])
      BY DEF Create, CreateFails
    <2>2. QED
      BY <1>1, <2>1, ReplacedFacts
  <1>3. /\ request' \in [Requests -> Calls]
        /\ \A g \in Requests :
                \/ request'[g] = request[g]
                \/ request'[g] = NoRequest
                \/ request'[g].pc = "undo" /\ request'[g].signal = request[g].signal
                   /\ request[g].signal = c.signal
    BY RequestGoesFacts DEF Create, CreateFails
  <1>4. /\ slots' \in [Users -> [Slots -> Watchers \cup {None}]]
        /\ adding' \subseteq [signal : Signals, watcher : Watchers,
                              by : {"request", "boot", "revive"}]
        /\ \A a \in adding' : row[a.signal] # "none"
    <2>1. CASE CreateFails(c)
      BY <2>1 DEF CreateFails, Saved
    <2>2. CASE Create(c)
      <3> DEFINE new == CHOOSE w \in FreeWatchers : TRUE
      <3>1. FreeWatchers # {} /\ slots' = [slots EXCEPT ![c.user][k] = new]
            /\ adding' = adding \cup {[signal |-> c.signal, watcher |-> new, by |-> c.by]}
        BY <2>2 DEF Create, Handed
      <3>2. new \in Watchers
        BY <3>1 DEF FreeWatchers
      <3> HIDE DEF new
      <3>3. slots' \in [Users -> [Slots -> Watchers \cup {None}]]
        BY <1>1, <3>1, <3>2
      <3>4. QED
        BY <1>1, <3>1, <3>2, <3>3 DEF Saved
    <2>3. QED
      BY <2>1, <2>2
  <1>5. /\ creating' \subseteq creating
        /\ UNCHANGED <<row, user, held, finding, removing, erasing, deactivating, autoClosing,
                       stop, monitor, boot, history>>
    BY DEF Create, CreateFails
  <1>6. RowsEnd
    <2>1. CASE Create(c)
      BY <2>1, RowsSame DEF Create
    <2>2. CASE CreateFails(c)
      BY <1>1, <2>2, AnotherFacts DEF CreateFails, RowsEnd, Statuses
    <2>3. QED
      BY <2>1, <2>2
  <1>7. TypeOK'
    BY <1>2, <1>3, <1>4, <1>5, <1>6 DEF RowsEnd, Calls, Statuses
  <1>8. Saved'
    BY <1>4, <1>5, <1>6 DEF RowsEnd, Saved
  <1>9. Owned'
    BY <1>1, <1>3, <1>5, <1>6, ManagerAssumption DEF RowsEnd, Owned, NoRequest
  <1>10. ReplacedStaysInactive'
    BY <1>5, <1>6, ReplacedKept
  <1>11. QED
    BY <1>7, <1>8, <1>9, <1>10

\* AddSignal.
LEMMA AddSignalKeeps == ASSUME IInv, NEW a \in adding, AddSignal(a) PROVE IInv'
  <1>1. RowsEnd
    BY RowsSame DEF AddSignal, IInv
  <1>2. TypeOK'
    BY DEF IInv, TypeOK, AddSignal
  <1>3. Saved'
    BY DEF IInv, TypeOK, Saved, AddSignal
  <1>4. Owned' /\ ReplacedStaysInactive'
    BY <1>1, OwnedKept, ReplacedKept DEF AddSignal
  <1>5. QED
    BY <1>2, <1>3, <1>4 DEF IInv

\* A watcher loses signals.
LEMMA DroppedFacts ==
    ASSUME TypeOK, NEW w \in Watchers, NEW S \in SUBSET Signals, Dropped(w, S)
    PROVE  /\ held' \in [Watchers -> SUBSET Signals]
           /\ \A v \in Watchers : held'[v] \subseteq held[v]
           /\ deactivating' \subseteq [watcher : Watchers, signal : Signals]
  BY DEF TypeOK, Dropped

\* A trigger, a deactivation and the end of a watcher.
LEMMA WatcherKeeps ==
    ASSUME IInv,
           \/ \E w \in Watchers : CloseStep(w) \/ \E s \in Signals : Trigger(w, s)
           \/ \E s \in Signals : RowStep(s)
    PROVE  IInv'
  <1> USE DEF IInv
  <1>1. ASSUME NEW w \in Watchers, NEW s \in Signals, Trigger(w, s) PROVE IInv'
    <2>1. RowsEnd
      BY <1>1, RowsSame DEF Trigger
    <2>2. Dropped(w, {s})
      BY <1>1 DEF Trigger
    <2>3. /\ held' \in [Watchers -> SUBSET Signals]
          /\ \A v \in Watchers : held'[v] \subseteq held[v]
          /\ deactivating' \subseteq [watcher : Watchers, signal : Signals]
      BY <2>2, DroppedFacts
    <2>4. fired' \in [Signals -> Nat] /\ autoClosing' \subseteq Signals
      BY <1>1 DEF Trigger, TypeOK
    <2>5. UNCHANGED <<row, user, slots, request, creating, adding, finding, removing, erasing,
                   closing, stop, monitor, boot, replaced, cut, restored, fault>>
      BY <1>1 DEF Trigger
    <2>6. TypeOK'
      BY <2>3, <2>4, <2>5 DEF TypeOK
    <2>7. Saved' /\ Owned' /\ ReplacedStaysInactive'
      BY <2>1, <2>3, <2>5, SavedKept, OwnedKept, ReplacedKept
    <2>8. QED
      BY <2>6, <2>7
  <1>2. ASSUME NEW c \in closing, CloseWatcher(c) PROVE IInv'
    <2>1. RowsEnd
      BY <1>2, RowsSame DEF CloseWatcher
    <2>2. c.watcher \in Watchers /\ held[c.watcher] \in SUBSET Signals
          /\ Dropped(c.watcher, held[c.watcher])
      BY <1>2 DEF CloseWatcher, TypeOK
    <2>3. /\ held' \in [Watchers -> SUBSET Signals]
          /\ \A v \in Watchers : held'[v] \subseteq held[v]
          /\ deactivating' \subseteq [watcher : Watchers, signal : Signals]
      BY <2>2, DroppedFacts
    <2>4. /\ closing' \subseteq closing
          /\ UNCHANGED <<row, user, slots, request, creating, adding, finding, removing, erasing,
                   autoClosing, stop, monitor, boot, history, fault>>
      BY <1>2 DEF CloseWatcher
    <2>5. TypeOK'
      BY <2>3, <2>4 DEF TypeOK
    <2>6. Saved' /\ Owned' /\ ReplacedStaysInactive'
      BY <2>1, <2>3, <2>4, SavedKept, OwnedKept, ReplacedKept
    <2>7. QED
      BY <2>5, <2>6
  <1>3. ASSUME NEW d \in deactivating, Deactivate(d) PROVE IInv'
    <2>1. RowsEnd
      <3>1. d.signal \in Signals
        BY DEF TypeOK
      <3>2. QED
        BY <1>3, <3>1, Deactivated DEF Deactivate
    <2>2. deactivating' \subseteq deactivating
          /\ UNCHANGED <<memory, request, creating, adding, finding, removing, erasing, closing,
                   autoClosing, stop, monitor, boot, history>>
      BY <1>3 DEF Deactivate
    <2>3. TypeOK'
      BY <2>1, <2>2 DEF TypeOK, RowsEnd, Statuses
    <2>4. Saved' /\ Owned' /\ ReplacedStaysInactive'
      BY <2>1, <2>2, SavedKept, OwnedKept, ReplacedKept
    <2>5. QED
      BY <2>3, <2>4
  <1>4. QED
    BY <1>1, <1>2, <1>3 DEF CloseStep, RowStep

\* A stop that begins.
LEMMA StopBeginsType ==
    ASSUME TypeOK, NEW pc \in {"rows", "cleanup"}, StopBegins(pc)
    PROVE  stop' \in [Stops -> StopCalls]
  BY DEF TypeOK, StopBegins, StopCalls

\* DELETE and what DeleteUserSignal looks up and launches.
LEMMA DeleteKeeps ==
    ASSUME IInv,
           DeleteStep \/ \E s \in Signals : DeleteSignal(s) \/ Remove(s) \/ Erase(s)
    PROVE  IInv'
  <1> USE DEF IInv
  <1>1. ASSUME NEW s \in Signals, DeleteSignal(s) PROVE IInv'
    <2>1. RowsEnd
      BY <1>1, AnotherFacts DEF DeleteSignal, RowsEnd, TypeOK, Statuses
    <2>2. finding' \subseteq [signal : Signals, user : Users \cup {None}]
      BY <1>1 DEF DeleteSignal, TypeOK
    <2>3. UNCHANGED <<row, memory, request, creating, adding, removing, erasing, deactivating,
                   closing, autoClosing, stop, monitor, boot, history>>
      BY <1>1 DEF DeleteSignal
    <2>4. TypeOK'
      BY <2>1, <2>2, <2>3 DEF TypeOK, RowsEnd, Statuses
    <2>5. Saved' /\ Owned' /\ ReplacedStaysInactive'
      BY <2>1, <2>3, SavedKept, OwnedKept, ReplacedKept
    <2>6. QED
      BY <2>4, <2>5
  <1>2. ASSUME NEW f \in finding, LookUpUser(f) PROVE IInv'
    <2>1. RowsEnd
      BY <1>2, RowsSame DEF LookUpUser
    <2>2. finding' \subseteq [signal : Signals, user : Users \cup {None}]
      <3>1. CASE user = None
        BY <1>2, <3>1 DEF LookUpUser, TypeOK
      <3>2. CASE user # None
        <4>1. finding' = (finding \ {f}) \cup {[f EXCEPT !.user = user]}
          BY <1>2, <3>2 DEF LookUpUser
        <4>2. [f EXCEPT !.user = user] \in [signal : Signals, user : Users \cup {None}]
          BY DEF TypeOK
        <4>3. QED
          BY <4>1, <4>2 DEF TypeOK
      <3>3. QED
        BY <3>1, <3>2
    <2>3. UNCHANGED <<row, memory, request, creating, adding, removing, erasing, deactivating,
                   closing, autoClosing, stop, monitor, boot, history, fault>>
      BY <1>2 DEF LookUpUser
    <2>4. TypeOK'
      BY <2>2, <2>3 DEF TypeOK
    <2>5. Saved' /\ Owned' /\ ReplacedStaysInactive'
      BY <2>1, <2>3, SavedKept, OwnedKept, ReplacedKept
    <2>6. QED
      BY <2>4, <2>5
  <1>3. ASSUME NEW f \in finding, LookUpSignal(f) PROVE IInv'
    <2> DEFINE found == {f.signal} \cap InMemory(f.user)
    <2>1. RowsEnd
      BY <1>3, RowsSame DEF LookUpSignal
    <2>2. found \subseteq Signals /\ \A s \in found : row[s] # "none"
      <3>1. f.user \in Users \cup {None}
        BY DEF TypeOK
      <3>2. QED
        BY <3>1, InMemorySaved
    <2>3. /\ finding' \subseteq finding
          /\ removing' = removing \cup found /\ erasing' = erasing \cup found
          /\ UNCHANGED <<row, memory, request, creating, adding, deactivating, closing,
                         autoClosing, stop, monitor, boot, history, fault>>
      BY <1>3 DEF LookUpSignal
    <2> HIDE DEF found
    <2>4. TypeOK'
      BY <2>2, <2>3 DEF TypeOK
    <2>5. Saved'
      BY <2>2, <2>3 DEF Saved
    <2>6. Owned' /\ ReplacedStaysInactive'
      BY <2>1, <2>3, OwnedKept, ReplacedKept
    <2>7. QED
      BY <2>4, <2>5, <2>6
  <1>4. ASSUME NEW s \in Signals, Remove(s) PROVE IInv'
    <2> DEFINE w == IF user = None THEN None ELSE slots[user][Slot(s)]
    <2>1. RowsEnd
      BY <1>4, RowsSame DEF Remove
    <2>2. w \in Watchers \cup {None}
      <3>1. Slot(s) \in Slots
        BY SlotType
      <3>2. QED
        BY <3>1 DEF TypeOK
    <2>3. /\ held' \in [Watchers -> SUBSET Signals]
          /\ \A v \in Watchers : held'[v] \subseteq held[v]
          /\ deactivating' \subseteq [watcher : Watchers, signal : Signals]
      <3>1. CASE UNCHANGED <<held, deactivating>>
        BY <3>1 DEF TypeOK
      <3>2. CASE w # None /\ Dropped(w, {s})
        BY <2>2, <3>2, DroppedFacts
      <3>3. QED
        BY <1>4, <3>1, <3>2 DEF Remove
    <2>4. /\ removing' \subseteq removing
          /\ UNCHANGED <<row, user, slots, request, creating, adding, finding, erasing, closing,
                   autoClosing, stop, monitor, boot, history, fault>>
      BY <1>4 DEF Remove
    <2>5. TypeOK'
      BY <2>3, <2>4 DEF TypeOK
    <2>6. Saved' /\ Owned' /\ ReplacedStaysInactive'
      BY <2>1, <2>3, <2>4, SavedKept, OwnedKept, ReplacedKept
    <2>7. QED
      BY <2>5, <2>6
  <1>5. ASSUME NEW s \in Signals, Erase(s) PROVE IInv'
    <2>1. row[s] # "none"
      BY <1>5 DEF Erase, Saved
    <2>2. RowsEnd /\ stop' \in [Stops -> StopCalls]
      <3>1. CASE row' = [row EXCEPT ![s] = "deleted"] /\ StopBegins("rows") /\ UNCHANGED fault
        BY <2>1, <3>1, StopBeginsType DEF RowsEnd, TypeOK, Statuses
      <3>2. CASE Another /\ failed' = failed \cup {s} /\ UNCHANGED <<row, stop>>
        BY <3>2, AnotherFacts DEF RowsEnd, TypeOK, Statuses, StopCalls
      <3>3. QED
        BY <1>5, <3>1, <3>2 DEF Erase
    <2>3. /\ erasing' \subseteq erasing
          /\ UNCHANGED <<memory, request, creating, adding, finding, removing, deactivating,
                         closing, autoClosing, monitor, boot, history>>
      BY <1>5 DEF Erase
    <2>4. TypeOK'
      BY <2>2, <2>3 DEF TypeOK, RowsEnd, Statuses, StopCalls
    <2>5. Saved' /\ Owned' /\ ReplacedStaysInactive'
      BY <2>2, <2>3, SavedKept, OwnedKept, ReplacedKept
    <2>6. QED
      BY <2>4, <2>5
  <1>6. QED
    BY <1>1, <1>2, <1>3, <1>4, <1>5 DEF DeleteStep

\* The graceful stops and cleanups, and what launches them.
LEMMA StopKeeps ==
    ASSUME IInv,
           \/ DeleteKeys
           \/ \E s \in Signals : AutoClosed(s)
           \/ \E g \in Stops : StopStep(g)
    PROVE  IInv'
  <1> USE DEF IInv
  <1>1. CASE DeleteKeys
    <2>1. RowsEnd
      BY <1>1, AnotherFacts DEF DeleteKeys, RowsEnd, TypeOK, Statuses
    <2>2. stop' \in [Stops -> StopCalls]
      BY <1>1, StopBeginsType DEF DeleteKeys
    <2>3. UNCHANGED <<row, memory, request, calls, monitor, boot, history>>
      BY <1>1 DEF DeleteKeys
    <2>4. TypeOK'
      BY <2>1, <2>2, <2>3 DEF TypeOK, RowsEnd, StopCalls
    <2>5. Saved' /\ Owned' /\ ReplacedStaysInactive'
      BY <2>1, <2>3, SavedKept, OwnedKept, ReplacedKept
    <2>6. QED
      BY <2>4, <2>5
  <1>2. ASSUME NEW s \in Signals, AutoClosed(s) PROVE IInv'
    <2>1. RowsEnd
      BY <1>2, RowsSame DEF AutoClosed
    <2>2. stop' \in [Stops -> StopCalls]
      BY <1>2, StopBeginsType DEF AutoClosed, TypeOK, StopCalls
    <2>3. /\ autoClosing' \subseteq autoClosing
          /\ UNCHANGED <<row, memory, request, creating, adding, finding, removing, erasing,
                   deactivating, closing, monitor, boot, history, fault>>
      BY <1>2 DEF AutoClosed
    <2>4. TypeOK'
      BY <2>2, <2>3 DEF TypeOK, StopCalls
    <2>5. Saved' /\ Owned' /\ ReplacedStaysInactive'
      BY <2>1, <2>3, SavedKept, OwnedKept, ReplacedKept
    <2>6. QED
      BY <2>4, <2>5
  <1>3. ASSUME NEW g \in Stops, StopStep(g) PROVE IInv'
    <2>1. /\ RowsEnd
          /\ UNCHANGED <<row, slots, held, request, creating, adding, finding, removing, erasing,
                         deactivating, autoClosing, monitor, boot, history>>
      <3>1. UNCHANGED <<row, slots, held, request, creating, adding, finding, removing, erasing,
                         deactivating, autoClosing, monitor, boot, history>>
            /\ (UNCHANGED fault \/ (Another /\ UNCHANGED failed))
        BY <1>3 DEF StopStep, StopRows, StopAgain, StopMemory, CleanupRows, CleanupDetach,
                    CleanupSweep, Proceed
      <3>2. QED
        BY <3>1, RowsSame, AnotherFacts DEF RowsEnd, TypeOK, Statuses
    <2>2. user' \in {user, None}
      BY <1>3 DEF StopStep, StopRows, StopAgain, StopMemory, CleanupRows, CleanupDetach,
                  CleanupSweep, Proceed
    <2>3. stop' \in [Stops -> StopCalls]
      <3> USE DEF TypeOK, StopCalls, NoStop
      <3>1. CASE StopRows(g)
        <4>1. InMemory(user) \subseteq Signals
          BY InMemorySaved
        <4>2. QED
          BY <3>1, <4>1 DEF StopRows
      <3>2. CASE StopAgain(g) \/ StopMemory(g) \/ CleanupRows(g)
        <4>1. PICK pc \in {"memory", "cleanup", "detach"}, done \in BOOLEAN :
                 stop' = [stop EXCEPT ![g] = IF done THEN NoStop ELSE [@ EXCEPT !.pc = pc]]
          BY <3>2 DEF StopAgain, StopMemory, CleanupRows, Proceed
        <4>2. stop[g] \in StopCalls /\ stop[g].pc # "sweep"
          BY <3>2 DEF StopAgain, StopMemory, CleanupRows
        <4>3. [stop[g] EXCEPT !.pc = pc] \in StopCalls /\ NoStop \in StopCalls
          BY <4>2
        <4>4. QED
          BY <4>1, <4>3
      <3>3. CASE CleanupDetach(g)
        BY <3>3 DEF CleanupDetach
      <3>4. CASE CleanupSweep(g)
        BY <3>4 DEF CleanupSweep
      <3>5. QED
        BY <1>3, <3>1, <3>2, <3>3, <3>4 DEF StopStep
    <2>4. closing' \subseteq [watcher : Watchers, by : {"replace", "cleanup"},
                              known : SUBSET Signals]
      <3>1. CASE CleanupSweep(g)
        <4>1. WatchersOf(stop[g].user) \subseteq Watchers /\ stop[g].known \subseteq Signals
          BY <3>1 DEF CleanupSweep, WatchersOf, TypeOK
        <4>2. QED
          BY <3>1, <4>1 DEF CleanupSweep, TypeOK
      <3>2. CASE ~CleanupSweep(g)
        BY <1>3, <3>2 DEF StopStep, StopRows, StopAgain, StopMemory, CleanupRows,
                          CleanupDetach, Proceed, TypeOK
      <3>3. QED
        BY <3>1, <3>2
    <2>5. TypeOK'
      BY <2>1, <2>2, <2>3, <2>4 DEF TypeOK, RowsEnd, Statuses, StopCalls
    <2>6. Saved' /\ Owned' /\ ReplacedStaysInactive'
      BY <2>1, SavedKept, OwnedKept, ReplacedKept
    <2>7. QED
      BY <2>5, <2>6
  <1>4. QED
    BY <1>1, <1>2, <1>3

\* The loss of the network and what it deactivates.
LEMMA NetworkKeeps ==
    ASSUME IInv, NetworkDown \/ NetworkUp \/ \E s \in Signals : Cut(s)
    PROVE  IInv'
  <1> USE DEF IInv
  <1>1. CASE NetworkDown
    <2>1. RowsEnd
      BY <1>1, AnotherFacts DEF NetworkDown, RowsEnd, TypeOK, Statuses
    <2>2. network' = "down" /\ cutting' \subseteq AutoClose
          /\ UNCHANGED <<row, memory, request, calls, stop, reviver, boot, history>>
      BY <1>1 DEF NetworkDown
    <2>3. TypeOK'
      BY <2>1, <2>2 DEF TypeOK, RowsEnd
    <2>4. Saved' /\ Owned' /\ ReplacedStaysInactive'
      BY <2>1, <2>2, SavedKept, OwnedKept, ReplacedKept
    <2>5. QED
      BY <2>3, <2>4
  <1>2. CASE NetworkUp
    <2>1. RowsEnd
      BY <1>2, RowsSame DEF NetworkUp
    <2>2. network' = "up" /\ reviver' = [pc |-> "list", todo |-> {}, signal |-> None]
          /\ UNCHANGED <<row, memory, request, calls, stop, cutting, boot, history, fault>>
      BY <1>2 DEF NetworkUp, NoReviver
    <2>3. TypeOK'
      BY <2>2 DEF TypeOK
    <2>4. Saved'
      BY <2>2 DEF Saved
    <2>5. Owned' /\ ReplacedStaysInactive'
      BY <2>1, <2>2, OwnedKept, ReplacedKept
    <2>6. QED
      BY <2>3, <2>4, <2>5
  <1>3. ASSUME NEW s \in Signals, Cut(s) PROVE IInv'
    <2>1. RowsEnd
      BY <1>3, Deactivated DEF Cut
    <2>2. cutting' \subseteq cutting /\ cut' = cut \cup {s}
          /\ UNCHANGED <<memory, request, calls, stop, network, reviver, boot,
                         replaced, restored, fired>>
      BY <1>3 DEF Cut
    <2>3. TypeOK'
      BY <2>1, <2>2 DEF TypeOK, RowsEnd, Statuses
    <2>4. Saved' /\ Owned' /\ ReplacedStaysInactive'
      BY <2>1, <2>2, SavedKept, OwnedKept, ReplacedKept
    <2>5. QED
      BY <2>3, <2>4
  <1>4. QED
    BY <1>1, <1>2, <1>3

\* What remains of the work of restoreAutoCloseFeatures.
LEMMA WithoutFacts ==
    ASSUME TypeOK, NEW s \in Signals
    PROVE  /\ Without(s) \in [pc : {"idle", "list", "read", "write"}, todo : SUBSET AutoClose,
                              signal : Signals \cup {None}]
           /\ Without(s).pc # "write"
  BY DEF TypeOK, Without, NoReviver

\* restoreAutoCloseFeatures: it writes only a row that exists, and says whose.
LEMMA ReviveKeeps == ASSUME IInv, ReviveStep PROVE IInv'
  <1> USE DEF IInv
  <1>1. CASE ReviveList
    <2>1. RowsEnd /\ UNCHANGED <<row, memory, request, calls, stop, network, cutting, boot, history>>
      <3>1. UNCHANGED <<row, memory, request, calls, stop, network, cutting, boot, history>>
            /\ (UNCHANGED fault \/ (Another /\ UNCHANGED failed))
        BY <1>1 DEF ReviveList
      <3>2. QED
        BY <3>1, RowsSame, AnotherFacts DEF RowsEnd, TypeOK, Statuses
    <2>2. /\ reviver' \in [pc : {"idle", "list", "read", "write"}, todo : SUBSET AutoClose,
                           signal : Signals \cup {None}]
          /\ reviver'.pc # "write"
      <3>1. PICK S \in {Filtered, Unfiltered} :
               reviver' = IF S \cap AutoClose = {} THEN NoReviver
                          ELSE [pc |-> "read", todo |-> S \cap AutoClose, signal |-> None]
        BY <1>1 DEF ReviveList
      <3>2. QED
        BY <3>1 DEF NoReviver
    <2>3. TypeOK'
      BY <2>1, <2>2 DEF TypeOK, RowsEnd
    <2>4. Saved'
      BY <2>1, <2>2 DEF Saved
    <2>5. Owned' /\ ReplacedStaysInactive'
      BY <2>1, OwnedKept, ReplacedKept
    <2>6. QED
      BY <2>3, <2>4, <2>5
  <1>2. ASSUME NEW s \in Signals, ReviveSkip(s) PROVE IInv'
    <2>1. reviver' = Without(s)
          /\ UNCHANGED <<row, memory, request, calls, stop, network, cutting, boot, history, fault>>
      BY <1>2 DEF ReviveSkip
    <2>2. RowsEnd
      BY <2>1, RowsSame
    <2>3. TypeOK'
      BY <2>1, WithoutFacts DEF TypeOK
    <2>4. Saved'
      BY <2>1, WithoutFacts DEF Saved
    <2>5. Owned' /\ ReplacedStaysInactive'
      BY <2>1, <2>2, OwnedKept, ReplacedKept
    <2>6. QED
      BY <2>3, <2>4, <2>5
  <1>3. ASSUME NEW s \in Signals, ReviveRead(s) PROVE IInv'
    <2>1. reviver' = [reviver EXCEPT !.pc = "write", !.signal = s] /\ row[s] = "inactive"
          /\ UNCHANGED <<row, memory, request, calls, stop, network, cutting, boot, history, fault>>
      BY <1>3 DEF ReviveRead
    <2>2. RowsEnd
      BY <2>1, RowsSame
    <2>3. TypeOK' /\ reviver'.signal = s
      BY <2>1 DEF TypeOK
    <2>4. Saved'
      BY <2>1, <2>3 DEF Saved
    <2>5. Owned' /\ ReplacedStaysInactive'
      BY <2>1, <2>2, OwnedKept, ReplacedKept
    <2>6. QED
      BY <2>3, <2>4, <2>5
  <1>4. ASSUME NEW s \in Signals, ReviveWrite(s) PROVE IInv'
    <2>1. row[s] # "none"
      BY <1>4 DEF ReviveWrite, Saved
    <2>2. reviver' = Without(s)
          /\ UNCHANGED <<memory, request, adding, finding, removing, erasing, deactivating, closing,
                         autoClosing, stop, network, cutting, boot, replaced, cut, fired>>
      BY <1>4 DEF ReviveWrite
    <2>3. /\ row' \in [Signals -> Statuses] /\ events' \in 0..MaxEvents
          /\ failed' \subseteq Signals /\ failed \subseteq failed'
          /\ restored' \subseteq Signals /\ restored \subseteq restored'
          /\ \A x \in Signals : row'[x] = "none" <=> row[x] = "none"
          /\ \A x \in Signals : row'[x] = row[x] \/ x \in restored'
          /\ creating' \subseteq creating \cup {[signal |-> s, user |-> None, by |-> "revive"]}
      <3>1. CASE /\ row' = Written(s, TRUE) /\ restored' = restored \cup {s} /\ UNCHANGED fault
                 /\ creating' = creating \cup {[signal |-> s, user |-> None, by |-> "revive"]}
        <4>1. row \in [Signals -> Statuses]
          BY DEF TypeOK, Statuses
        <4>2. /\ row' \in [Signals -> Statuses]
              /\ \A x \in Signals : row'[x] = "none" <=> row[x] = "none"
              /\ \A x \in Signals \ {s} : row'[x] = row[x]
          BY <3>1, <4>1, WrittenFacts
        <4>3. QED
          BY <3>1, <4>2 DEF TypeOK
      <3>2. CASE Another /\ failed' = failed \cup {s} /\ UNCHANGED <<row, restored, creating>>
        BY <3>2, AnotherFacts DEF TypeOK, Statuses
      <3>3. QED
        BY <1>4, <3>1, <3>2 DEF ReviveWrite
    <2>4. TypeOK'
      BY <2>2, <2>3, WithoutFacts DEF TypeOK, Statuses
    <2>5. Saved'
      BY <2>1, <2>2, <2>3, WithoutFacts DEF TypeOK, Saved
    <2>6. Owned'
      BY <2>2, <2>3 DEF TypeOK, Owned
    <2>7. ReplacedStaysInactive'
      BY <2>2, <2>3 DEF TypeOK, ReplacedStaysInactive
    <2>8. QED
      BY <2>4, <2>5, <2>6, <2>7
  <1>5. QED
    BY <1>1, <1>2, <1>3, <1>4 DEF ReviveStep

\* A restart and what it loads: rows that are active.
LEMMA RestartKeeps == ASSUME IInv, Restart \/ LoadStep PROVE IInv'
  <1> USE DEF IInv
  <1>1. CASE Restart
    <2>1. events' \in 0..MaxEvents
      BY <1>1, AnotherFacts DEF Restart
    <2>2. boot' \subseteq Active /\ failed \subseteq failed' /\ failed' \subseteq Signals
      BY <1>1 DEF Restart, TypeOK, Active
    <2>3. user' \in Users \cup {None}
      BY <1>1, ManagerAssumption DEF Restart
    <2>4. /\ slots' = [u \in Users |-> NoSlots]
          /\ held' = [w \in Watchers |-> {}]
          /\ request' = [g \in Requests |-> NoRequest]
          /\ creating' = {} /\ adding' = {} /\ finding' = {} /\ removing' = {} /\ erasing' = {}
          /\ deactivating' = {} /\ closing' = {} /\ autoClosing' = {}
          /\ stop' = [g \in Stops |-> NoStop]
          /\ network' = "up" /\ cutting' = {} /\ reviver' = NoReviver
          /\ fired' = [s \in Signals |-> 0]
          /\ UNCHANGED <<row, replaced, cut, restored>>
      BY <1>1 DEF Restart
    <2>5. TypeOK'
      BY <2>1, <2>2, <2>3, <2>4
         DEF TypeOK, NoSlots, NoRequest, NoStop, NoReviver, AutoClose, Active
    <2>6. Saved'
      BY <2>2, <2>4 DEF Saved, NoReviver, Active
    <2>7. Owned'
      BY <2>4 DEF Owned, NoRequest
    <2>8. ReplacedStaysInactive'
      BY <2>2, <2>4 DEF ReplacedStaysInactive
    <2>9. QED
      BY <2>5, <2>6, <2>7, <2>8
  <1>2. ASSUME NEW s \in Signals, Load(s) PROVE IInv'
    <2>1. /\ s \in boot /\ boot' \subseteq boot
          /\ creating' = creating \cup {[signal |-> s, user |-> None, by |-> "boot"]}
          /\ UNCHANGED <<row, memory, request, adding, finding, removing, erasing, deactivating,
                         closing, autoClosing, stop, monitor, history, fault>>
      BY <1>2 DEF Load
    <2>2. RowsEnd
      BY <2>1, RowsSame
    <2>3. TypeOK'
      BY <2>1 DEF TypeOK
    <2>4. Saved'
      BY <2>1 DEF Saved
    <2>5. Owned' /\ ReplacedStaysInactive'
      BY <2>1, <2>2, OwnedKept, ReplacedKept
    <2>6. QED
      BY <2>3, <2>4, <2>5
  <1>3. ASSUME NEW s \in Signals, LoadZero(s) PROVE IInv'
    <2>1. RowsEnd
      BY <1>3, Deactivated DEF LoadZero
    <2>2. boot' \subseteq boot /\ UNCHANGED <<memory, request, calls, stop, monitor, history>>
      BY <1>3 DEF LoadZero
    <2>3. TypeOK'
      BY <2>1, <2>2 DEF TypeOK, RowsEnd, Statuses
    <2>4. Saved' /\ Owned' /\ ReplacedStaysInactive'
      BY <2>1, <2>2, SavedKept, OwnedKept, ReplacedKept
    <2>5. QED
      BY <2>3, <2>4
  <1>4. QED
    BY <1>1, <1>2, <1>3 DEF LoadStep

\* No step breaks the inductive invariant.
LEMMA NextKeeps == IInv /\ [Next]_vars => IInv'
  <1>1. IInv /\ UNCHANGED vars => IInv'
    BY DEF IInv, TypeOK, Saved, Owned, ReplacedStaysInactive
  <1>2. IInv /\ Next => IInv'
    BY RequestKeeps, FindUserKeeps, CreateKeeps, AddSignalKeeps, WatcherKeeps, DeleteKeeps,
       StopKeeps, NetworkKeeps, ReviveKeeps, RestartKeeps DEF Next, CreatorStep, AddStep
  <1>3. QED
    BY <1>1, <1>2

\* The inductive invariant is an invariant.
LEMMA Invariance == Spec => []IInv
  BY Initially, NextKeeps, PTL DEF Spec

\* The rows, the watchers and the goroutines of one user keep their types, for
\* any signals, requests, stops, UserWatchers and watchers.
THEOREM TypeCorrect == Spec => []TypeOK
  <1>1. IInv => TypeOK
    BY DEF IInv
  <1>2. QED
    BY <1>1, Invariance, PTL

\* A signal that CreateSignal replaced is active again only if a call about it
\* failed or restoreAutoCloseFeatures reactivated it.
THEOREM ReplacementHolds == Spec => []ReplacedStaysInactive
  <1>1. IInv => ReplacedStaysInactive
    BY DEF IInv
  <1>2. QED
    BY <1>1, Invariance, PTL

-----------------------------------------------------------------------------
(* A signal is in one place *)

\* A signal on its way to a watcher, and one that is not
Coming(s) == s \in boot \/ \E c \in creating \cup adding : c.signal = s
Away(s) == row[s] # "none" /\ ~Coming(s)

\* It is on one way to a watcher or in one watcher, and in neither once it
\* fired in this process.
Carried(s) ==
    /\ \A c, d \in creating : c.signal = s /\ d.signal = s => c = d
    /\ \A a, b \in adding : a.signal = s /\ b.signal = s => a = b
    /\ \A c \in creating, a \in adding : ~(c.signal = s /\ a.signal = s)
    /\ s \in boot => \A c \in creating \cup adding : c.signal # s
    /\ \A v, w \in Watchers : s \in held[v] /\ s \in held[w] => v = w
    /\ Coming(s) => fired[s] = 0 /\ \A w \in Watchers : s \notin held[w]
    /\ (\E w \in Watchers : s \in held[w]) => fired[s] = 0
    /\ fired[s] \in {0, 1} /\ (fired[s] = 1 => row[s] # "none")
OneCarrier == \A s \in Signals \ restored : Carried(s)

\* What was held when a stop began comes to no watcher any more, and no
\* watcher of the user that was detached holds it.
Settled(S) == \A s \in S \ restored : Away(s)
KnownSettled ==
    /\ \A g \in Stops : Settled(stop[g].known)
    /\ \A g \in Stops : stop[g].pc = "sweep" =>
          \A w \in WatchersOf(stop[g].user) : held[w] \cap stop[g].known \subseteq restored
    /\ \A c \in closing : Settled(c.known)

\* The strengthening of FiresOnce and CleanupKeepsKnown
JInv == OneCarrier /\ KnownSettled /\ CleanupKeepsKnown

\* Rows stay, and signals come to watchers and into them only from before.
Ebb ==
    /\ \A s \in Signals : row[s] # "none" => row'[s] # "none"
    /\ restored \subseteq restored'
    /\ creating' \subseteq creating /\ adding' \subseteq adding /\ boot' \subseteq boot
    /\ \A w \in Watchers : held'[w] \subseteq held[w]
    /\ UNCHANGED fired

\* A signal that nothing new carries
LEMMA CarriedKept ==
    ASSUME NEW s \in Signals, Carried(s),
           \A c \in creating' : c.signal = s => c \in creating,
           \A a \in adding' : a.signal = s => a \in adding,
           s \in boot' => s \in boot,
           \A w \in Watchers : s \in held'[w] => s \in held[w],
           fired'[s] = fired[s], row[s] # "none" => row'[s] # "none"
    PROVE  Carried(s)'
  <1>1. Coming(s)' => Coming(s)
    BY DEF Coming
  <1>2. QED
    BY <1>1 DEF Carried

\* Where nothing comes nearer, a signal still has one carrier.
LEMMA EbbKeepsCarrier == ASSUME OneCarrier, Ebb PROVE OneCarrier'
  <1>1. ASSUME NEW s \in Signals, s \notin restored' PROVE Carried(s)'
    BY <1>1, CarriedKept DEF OneCarrier, Ebb
  <1>2. QED
    BY <1>1 DEF OneCarrier

\* What is away stays away, and what is away is put into no watcher.
AwayStays ==
    /\ restored \subseteq restored'
    /\ \A s \in Signals \ restored' : Away(s) => Away(s)'
    /\ \A w \in Watchers : \A s \in held'[w] : s \in held[w] \/ ~Away(s) \/ s \in restored'

\* Where nothing comes nearer, what is away stays away.
LEMMA EbbKeepsAway == ASSUME Ebb PROVE AwayStays
  BY DEF Ebb, AwayStays, Away, Coming

\* What is settled remains so.
LEMMA SettledKept ==
    ASSUME AwayStays, NEW S \in SUBSET Signals, Settled(S), NEW T \in SUBSET S
    PROVE  Settled(T)'
  BY DEF Settled, AwayStays

\* The watchers of users are as before, or hold nothing.
OldOrEmpty == \A u \in Users : \A w \in WatchersOf(u)' : w \in WatchersOf(u) \/ held'[w] = {}

\* The stop g goes on, or ends.
GoesOn(g) ==
    /\ stop'[g].known \subseteq stop[g].known
    /\ stop'[g].pc = "sweep" => stop[g].pc = "sweep" /\ stop'[g].user = stop[g].user

\* A stop that goes on still sweeps no watcher with a signal it knew.
LEMMA SweepKept ==
    ASSUME TypeOK, TypeOK', KnownSettled, AwayStays, OldOrEmpty,
           NEW g \in Stops, GoesOn(g), stop'[g].pc = "sweep", NEW w \in WatchersOf(stop[g].user)'
    PROVE  held'[w] \cap stop'[g].known \subseteq restored'
  <1>0. stop'[g].known \subseteq stop[g].known /\ stop[g].known \subseteq Signals
    BY DEF TypeOK, GoesOn
  <1>1. SUFFICES ASSUME NEW s \in Signals, s \in held'[w], s \in stop'[g].known
                 PROVE  s \in restored'
    BY <1>0
  <1>2. stop'[g].user \in Users /\ stop'[g].user = stop[g].user /\ stop[g].pc = "sweep"
    BY DEF TypeOK, GoesOn
  <1>3. w \in WatchersOf(stop[g].user) /\ w \in Watchers
    <2>1. PICK u \in Users : u = stop'[g].user
      BY <1>2
    <2>2. w \in WatchersOf(u)'
      BY <2>1 DEF WatchersOf
    <2>3. w \in WatchersOf(u)
      BY <1>1, <2>2 DEF OldOrEmpty
    <2>4. WatchersOf(u) \subseteq Watchers
      BY DEF TypeOK, WatchersOf
    <2>5. QED
      BY <1>2, <2>1, <2>3, <2>4 DEF WatchersOf
  <1>4. s \in stop[g].known /\ (s \in restored \/ Away(s))
    BY <1>0, <1>1 DEF KnownSettled, Settled
  <1>5. s \in held[w] \/ s \in restored'
    BY <1>1, <1>3, <1>4 DEF AwayStays
  <1>6. QED
    BY <1>2, <1>3, <1>4, <1>5 DEF KnownSettled, AwayStays

\* A cleanup that was running, or that knows nothing, takes no signal known.
LEMMA CleanupKept ==
    ASSUME TypeOK, TypeOK', KnownSettled, CleanupKeepsKnown, AwayStays,
           NEW c \in closing', c \in closing \/ c.known = {}
    PROVE  Settled(c.known)' /\ held'[c.watcher] \cap c.known \subseteq restored'
  <1>1. CASE c.known = {}
    BY <1>1 DEF Settled
  <1>2. CASE c \in closing
    <2>1. c.known \subseteq Signals /\ c.watcher \in Watchers
      BY <1>2 DEF TypeOK
    <2>2. Settled(c.known) /\ held[c.watcher] \cap c.known \subseteq restored
      BY <1>2 DEF KnownSettled, CleanupKeepsKnown
    <2>3. Settled(c.known)'
      BY <2>1, <2>2, SettledKept
    <2>4. ASSUME NEW s \in held'[c.watcher], s \in c.known PROVE s \in restored'
      BY <2>1, <2>2, <2>4 DEF AwayStays, Settled
    <2>5. QED
      BY <2>3, <2>4
  <1>3. QED
    BY <1>1, <1>2

\* The stops go on, or end, and only watchers that were replaced are closed anew.
LEMMA KnownKept ==
    ASSUME TypeOK, TypeOK', KnownSettled, CleanupKeepsKnown, AwayStays, OldOrEmpty,
           \A g \in Stops : GoesOn(g), \A c \in closing' : c \in closing \/ c.known = {}
    PROVE  KnownSettled' /\ CleanupKeepsKnown'
  <1>1. \A g \in Stops : Settled(stop[g].known)'
    <2>1. ASSUME NEW g \in Stops PROVE Settled(stop[g].known)'
      <3>1. PICK S \in SUBSET Signals : S = stop[g].known
        BY DEF TypeOK
      <3>2. PICK T \in SUBSET S : T = stop'[g].known
        BY <3>1 DEF GoesOn
      <3>3. Settled(S)
        BY <3>1 DEF KnownSettled
      <3>4. Settled(T)'
        BY <3>3, SettledKept
      <3>5. QED
        BY <3>2, <3>4 DEF Settled
    <2>2. QED
      BY <2>1
  <1>2. \A g \in Stops : stop'[g].pc = "sweep" =>
          \A w \in WatchersOf(stop[g].user)' : held'[w] \cap stop'[g].known \subseteq restored'
    BY SweepKept
  <1>3. \A c \in closing' : Settled(c.known)' /\ held'[c.watcher] \cap c.known \subseteq restored'
    BY CleanupKept
  <1>4. QED
    BY <1>1, <1>2, <1>3 DEF KnownSettled, CleanupKeepsKnown

-----------------------------------------------------------------------------
(* Steps that bring no signal nearer to a watcher *)

\* A call that ends a row, or fails, leaves a row.
LEMMA RowStays ==
    ASSUME TypeOK, NEW s \in Signals, MayFail(s, Written(s, FALSE)) \/ MayFail(s, [row EXCEPT ![s] = "deleted"])
    PROVE  \A x \in Signals : row[x] # "none" => row'[x] # "none"
  BY DEF TypeOK, MayFail, Written

Ebbing ==
    \/ \E g \in Requests : \/ Reject(g) \/ Undo(g)
                           \/ \E s \in Signals : CreateSignal(g, s) \/ Replace(g, s)
    \/ \E c \in creating : CreateFails(c)
    \/ DeleteStep
    \/ \E s \in Signals : RowStep(s) \/ Remove(s) \/ Erase(s) \/ AutoClosed(s)
                          \/ DeleteSignal(s) \/ Cut(s) \/ LoadZero(s) \/ ReviveSkip(s) \/ ReviveRead(s)
    \/ \E w \in Watchers : CloseStep(w)
    \/ DeleteKeys \/ NetworkDown \/ NetworkUp \/ ReviveList

\* The calls of stops and cleanups
Stopping ==
    \E g \in Stops : StopStep(g)

\* A stop brings no signal nearer to a watcher.
LEMMA StoppingEbbs == ASSUME Stopping PROVE Ebb /\ UNCHANGED slots
  BY DEF Stopping, StopStep, StopRows, StopAgain, StopMemory, CleanupRows, CleanupDetach,
         CleanupSweep, Proceed, Ebb

\* Nor do the steps of Ebbing.
LEMMA EbbingEbbs == ASSUME IInv, Ebbing PROVE Ebb /\ UNCHANGED slots
  <1>0. TypeOK
    BY DEF IInv
  <1>1. UNCHANGED <<slots, restored, creating, adding, fired>> \/ \E c \in creating : CreateFails(c)
    BY DEF Ebbing, Reject, Undo, CreateSignal, Replace, DeleteStep, LookUpUser, LookUpSignal,
           RowStep, Deactivate, Remove, Erase, AutoClosed, DeleteSignal, Cut, LoadZero, ReviveSkip,
           ReviveRead, CloseStep, CloseWatcher, DeleteKeys, NetworkDown, NetworkUp, ReviveList
  <1>2. UNCHANGED <<slots, restored, fired>> /\ creating' \subseteq creating /\ adding' \subseteq adding
    BY <1>1 DEF CreateFails
  <1>3. boot' \subseteq boot
    BY DEF Ebbing, Reject, Undo, CreateSignal, Replace, DeleteStep, LookUpUser, LookUpSignal,
           RowStep, Deactivate, Remove, Erase, AutoClosed, DeleteSignal, Cut, LoadZero, ReviveSkip,
           ReviveRead, CloseStep, CloseWatcher, DeleteKeys, NetworkDown, NetworkUp, ReviveList,
           CreateFails
  <1>4. \A x \in Signals : row[x] # "none" => row'[x] # "none"
    <2>1. ASSUME NEW g \in Requests, NEW s \in Signals, Replace(g, s)
          PROVE  \A x \in Signals : row[x] # "none" => row'[x] # "none"
      BY <1>0, <2>1, RowStays DEF Replace
    <2>2. ASSUME NEW g \in Requests, Undo(g)
          PROVE  \A x \in Signals : row[x] # "none" => row'[x] # "none"
      <3>1. request[g].signal \in Signals
        BY <2>2, ManagerAssumption DEF Undo, IInv, Owned, TypeOK
      <3>2. QED
        BY <1>0, <2>2, <3>1, RowStays DEF Undo
    <2>3. ASSUME NEW d \in deactivating, Deactivate(d)
          PROVE  \A x \in Signals : row[x] # "none" => row'[x] # "none"
      <3>1. d.signal \in Signals
        BY <1>0 DEF TypeOK
      <3>2. QED
        BY <1>0, <2>3, <3>1, RowStays DEF Deactivate
    <2>4. ASSUME NEW s \in Signals, Cut(s) \/ LoadZero(s)
          PROVE  \A x \in Signals : row[x] # "none" => row'[x] # "none"
      BY <1>0, <2>4, RowStays DEF Cut, LoadZero
    <2>5. ASSUME NEW s \in Signals, Erase(s)
          PROVE  \A x \in Signals : row[x] # "none" => row'[x] # "none"
      BY <1>0, <2>5 DEF Erase, TypeOK
    <2>6. \/ UNCHANGED row
          \/ \E g \in Requests : Undo(g) \/ \E s \in Signals : Replace(g, s)
          \/ \E d \in deactivating : Deactivate(d)
          \/ \E s \in Signals : Cut(s) \/ LoadZero(s) \/ Erase(s)
      BY DEF Ebbing, Reject, CreateSignal, DeleteStep, LookUpUser, LookUpSignal, RowStep,
           Remove, AutoClosed, DeleteSignal, ReviveSkip, ReviveRead,
           CloseStep, CloseWatcher, DeleteKeys, NetworkDown, NetworkUp, ReviveList, CreateFails
    <2>7. QED
      BY <2>1, <2>2, <2>3, <2>4, <2>5, <2>6
  <1>5. \A w \in Watchers : held'[w] \subseteq held[w]
    <2>1. ASSUME NEW c \in closing, CloseWatcher(c)
          PROVE  \A w \in Watchers : held'[w] \subseteq held[w]
      BY <1>0, <2>1 DEF CloseWatcher, Dropped, TypeOK
    <2>2. ASSUME NEW s \in Signals, Remove(s) PROVE \A w \in Watchers : held'[w] \subseteq held[w]
      BY <1>0, <2>2 DEF Remove, Dropped, TypeOK
    <2>3. UNCHANGED held \/ (\E c \in closing : CloseWatcher(c)) \/ \E s \in Signals : Remove(s)
      BY DEF Ebbing, Reject, Undo, CreateSignal, Replace, DeleteStep, LookUpUser, LookUpSignal,
             RowStep, Deactivate, Erase, AutoClosed, DeleteSignal, Cut, LoadZero, ReviveSkip,
             ReviveRead, CloseStep, DeleteKeys, NetworkDown, NetworkUp, ReviveList, CreateFails
    <2>4. QED
      BY <2>1, <2>2, <2>3
  <1>6. QED
    BY <1>2, <1>3, <1>4, <1>5 DEF Ebb

\* What those steps do to stops and cleanups
LEMMA EbbingStops ==
    ASSUME IInv, Ebbing
    PROVE  /\ \A g \in Stops : GoesOn(g)
           /\ \A c \in closing' : c \in closing \/ c.known = {}
  <1>0. stop \in [Stops -> StopCalls]
    BY DEF IInv, TypeOK, StopCalls
  <1>1. ASSUME NEW pc \in {"rows", "cleanup"}, StopBegins(pc)
        PROVE  \A g \in Stops : GoesOn(g)
    BY <1>0, <1>1 DEF StopBegins, GoesOn
  <1>2. UNCHANGED stop \/ \E pc \in {"rows", "cleanup"} : StopBegins(pc)
    BY DEF Ebbing, Reject, Undo, CreateSignal, Replace, DeleteStep, LookUpUser, LookUpSignal,
           RowStep, Deactivate, Remove, Erase, AutoClosed, DeleteSignal, Cut, LoadZero, ReviveSkip,
           ReviveRead, CloseStep, CloseWatcher, DeleteKeys, NetworkDown, NetworkUp, ReviveList,
           CreateFails
  <1>3. closing' \subseteq closing \/ \E old \in Watchers \cup {None} : closing' = Replaced(old)
    <2>1. ASSUME NEW c \in creating, CreateFails(c)
          PROVE  \E old \in Watchers \cup {None} : closing' = Replaced(old)
      <3>1. c.user \in Users /\ Slot(c.signal) \in Slots
        BY <2>1, SlotType DEF CreateFails, IInv, TypeOK
      <3>2. slots[c.user][Slot(c.signal)] \in Watchers \cup {None}
        BY <3>1 DEF IInv, TypeOK
      <3>3. QED
        BY <2>1, <3>2 DEF CreateFails
    <2>2. closing' \subseteq closing \/ \E c \in creating : CreateFails(c)
      BY DEF Ebbing, Reject, Undo, CreateSignal, Replace, DeleteStep, LookUpUser, LookUpSignal,
             RowStep, Deactivate, Remove, Erase, AutoClosed, DeleteSignal, Cut, LoadZero,
             ReviveSkip, ReviveRead, CloseStep, CloseWatcher, DeleteKeys, NetworkDown, NetworkUp,
             ReviveList
    <2>3. QED
      BY <2>1, <2>2
  <1>4. \A c \in closing' : c \in closing \/ c.known = {}
    BY <1>3 DEF Replaced
  <1>5. UNCHANGED stop => \A g \in Stops : GoesOn(g)
    BY DEF GoesOn
  <1>6. QED
    BY <1>1, <1>2, <1>4, <1>5

\* Together: the steps of Ebbing keep JInv.
LEMMA EbbingKeeps == ASSUME IInv, IInv', JInv, Ebbing PROVE JInv'
  <1>1. Ebb /\ UNCHANGED slots /\ AwayStays /\ OneCarrier'
    BY EbbingEbbs, EbbKeepsAway, EbbKeepsCarrier DEF JInv
  <1>2. OldOrEmpty
    BY <1>1 DEF WatchersOf, OldOrEmpty
  <1>3. KnownSettled' /\ CleanupKeepsKnown'
    BY <1>1, <1>2, EbbingStops, KnownKept DEF JInv, IInv
  <1>4. QED
    BY <1>1, <1>3 DEF JInv

\* What a watcher holds comes to no watcher any more.
LEMMA HeldSettled == ASSUME IInv, OneCarrier, NEW u \in Users \cup {None} PROVE Settled(InMemory(u))
  <1>1. InMemory(u) \subseteq Signals /\ \A s \in InMemory(u) : row[s] # "none"
    BY InMemorySaved DEF IInv
  <1>2. \A s \in InMemory(u) : \E w \in Watchers : s \in held[w]
    <2>1. u # None => WatchersOf(u) \subseteq Watchers
      BY DEF WatchersOf, IInv, TypeOK
    <2>2. QED
      BY <2>1 DEF InMemory
  <1>3. QED
    BY <1>1, <1>2 DEF Settled, Away, OneCarrier, Carried

\* A stop remembers what is in memory, goes on, detaches a UserWatcher that
\* holds nothing, or sweeps it.
LEMMA StoppingKeeps == ASSUME IInv, IInv', JInv, NEW g \in Stops, StopStep(g) PROVE JInv'
  <1> USE DEF IInv
  <1>1. Ebb /\ UNCHANGED slots /\ AwayStays /\ OneCarrier'
    BY StoppingEbbs, EbbKeepsAway, EbbKeepsCarrier DEF JInv, Stopping
  <1>2. OldOrEmpty
    BY <1>1 DEF WatchersOf, OldOrEmpty
  <1>3. stop \in [Stops -> StopCalls] /\ stop' \in [Stops -> StopCalls]
    BY DEF TypeOK, StopCalls
  <1>4. UNCHANGED <<row, held, slots, creating, adding, boot, restored>>
    BY DEF StopStep, StopRows, StopAgain, StopMemory, CleanupRows, CleanupDetach, CleanupSweep,
           Proceed
  <1>5. \A h \in Stops : h # g => stop'[h] = stop[h]
    BY <1>3 DEF StopStep, StopRows, StopAgain, StopMemory, CleanupRows, CleanupDetach,
                CleanupSweep, Proceed
  <1>6. CASE StopAgain(g) \/ StopMemory(g) \/ CleanupRows(g)
    <2>1. PICK pc \in {"memory", "cleanup", "detach"}, done \in BOOLEAN :
             stop' = [stop EXCEPT ![g] = IF done THEN NoStop ELSE [@ EXCEPT !.pc = pc]]
      BY <1>6 DEF StopAgain, StopMemory, CleanupRows, Proceed
    <2>2. stop'[g] = IF done THEN NoStop ELSE [stop[g] EXCEPT !.pc = pc]
      BY <1>3, <2>1
    <2>3. stop[g] \in StopCalls
      BY <1>3
    <2>4. GoesOn(g)
      BY <2>2, <2>3 DEF GoesOn, NoStop, StopCalls
    <2>5. \A h \in Stops : GoesOn(h)
      BY <1>5, <2>4 DEF GoesOn
    <2>6. UNCHANGED closing
      BY <1>6 DEF StopAgain, StopMemory, CleanupRows, Proceed
    <2>7. QED
      BY <1>1, <1>2, <2>5, <2>6, KnownKept DEF JInv
  <1>7. CASE StopRows(g)
    <2>1. Settled(InMemory(user))
      BY HeldSettled DEF JInv, TypeOK
    <2>2. stop'[g].pc # "sweep" /\ (stop'[g].known = {} \/ stop'[g].known = InMemory(user))
      BY <1>3, <1>7 DEF StopRows, NoStop
    <2>3. UNCHANGED closing
      BY <1>7 DEF StopRows
    <2>4. \A h \in Stops : Settled(stop[h].known)'
      BY <1>4, <1>5, <2>1, <2>2 DEF Settled, Away, Coming, JInv, KnownSettled
    <2>5. \A h \in Stops : stop'[h].pc = "sweep" =>
             \A w \in WatchersOf(stop[h].user)' : held'[w] \cap stop'[h].known \subseteq restored'
      BY <1>4, <1>5, <2>2 DEF JInv, KnownSettled, WatchersOf
    <2>6. (\A c \in closing : Settled(c.known))' /\ CleanupKeepsKnown'
      BY <1>4, <2>3 DEF JInv, KnownSettled, CleanupKeepsKnown, Settled, Away, Coming
    <2>7. QED
      BY <1>1, <2>4, <2>5, <2>6 DEF JInv, KnownSettled
  <1>8. CASE CleanupDetach(g)
    <2>1. UNCHANGED closing
      BY <1>8 DEF CleanupDetach
    <2>2. stop'[g].known \subseteq stop[g].known
      <3>1. stop[g] \in StopCalls
        BY <1>3
      <3>2. stop'[g] = NoStop \/ stop'[g] = [stop[g] EXCEPT !.pc = "sweep", !.user = user]
        BY <1>3, <1>8 DEF CleanupDetach
      <3>3. [stop[g] EXCEPT !.pc = "sweep", !.user = user].known = stop[g].known
        BY <3>1 DEF StopCalls
      <3>4. NoStop.known = {}
        BY DEF NoStop
      <3>5. QED
        BY <3>2, <3>3, <3>4
    <2>3. ASSUME stop'[g].pc = "sweep"
          PROVE  stop'[g].user = user /\ user \in Users /\ ~HasSignals(user)
      BY <1>3, <1>8, <2>3 DEF CleanupDetach, NoStop, TypeOK
    <2>4. ASSUME stop'[g].pc = "sweep" PROVE \A w \in WatchersOf(stop[g].user)' : held'[w] = {}
      <3>1. user # None
        BY <2>3, <2>4, ManagerAssumption
      <3>2. \A w \in WatchersOf(user) : held[w] = {}
        BY <2>3, <2>4, <3>1 DEF HasSignals, InMemory
      <3>3. QED
        BY <1>4, <2>3, <2>4, <3>2 DEF WatchersOf
    <2>5. \A h \in Stops : Settled(stop[h].known)'
      BY <1>4, <1>5, <2>2 DEF Settled, Away, Coming, JInv, KnownSettled
    <2>6. \A h \in Stops : stop'[h].pc = "sweep" =>
             \A w \in WatchersOf(stop[h].user)' : held'[w] \cap stop'[h].known \subseteq restored'
      BY <1>4, <1>5, <2>4 DEF JInv, KnownSettled, WatchersOf
    <2>7. (\A c \in closing : Settled(c.known))' /\ CleanupKeepsKnown'
      BY <1>4, <2>1 DEF JInv, KnownSettled, CleanupKeepsKnown, Settled, Away, Coming
    <2>8. QED
      BY <1>1, <2>5, <2>6, <2>7 DEF JInv, KnownSettled
  <1>9. CASE CleanupSweep(g)
    <2>1. stop'[g] = NoStop
      BY <1>3, <1>9 DEF CleanupSweep
    <2>2. \A c \in closing' :
             c \in closing \/ (c.known = stop[g].known /\ c.watcher \in WatchersOf(stop[g].user))
      BY <1>9 DEF CleanupSweep
    <2>3. stop[g].pc = "sweep"
      BY <1>9 DEF CleanupSweep
    <2>4. \A h \in Stops : Settled(stop[h].known)'
      BY <1>4, <1>5, <2>1 DEF Settled, Away, Coming, JInv, KnownSettled, NoStop
    <2>5. \A h \in Stops : stop'[h].pc = "sweep" =>
             \A w \in WatchersOf(stop[h].user)' : held'[w] \cap stop'[h].known \subseteq restored'
      BY <1>4, <1>5, <2>1 DEF JInv, KnownSettled, WatchersOf, NoStop
    <2>6. ASSUME NEW c \in closing'
          PROVE  Settled(c.known)' /\ held'[c.watcher] \cap c.known \subseteq restored'
      <3>1. Settled(c.known) /\ held[c.watcher] \cap c.known \subseteq restored
        BY <2>2, <2>3 DEF JInv, KnownSettled, CleanupKeepsKnown
      <3>2. QED
        BY <1>4, <3>1 DEF Settled, Away, Coming
    <2>7. QED
      BY <1>1, <2>4, <2>5, <2>6 DEF JInv, KnownSettled, CleanupKeepsKnown
  <1>10. QED
    BY <1>6, <1>7, <1>8, <1>9 DEF StopStep

-----------------------------------------------------------------------------
(* Steps that move one signal on its way *)

\* A step of no stop or cleanup keeps what is known settled.
LEMMA OthersKeepKnown ==
    ASSUME IInv, IInv', JInv, AwayStays, OldOrEmpty, UNCHANGED stop,
           \A c \in closing' : c \in closing \/ c.known = {}
    PROVE  KnownSettled' /\ CleanupKeepsKnown'
  <1>1. \A g \in Stops : GoesOn(g)
    BY DEF GoesOn
  <1>2. QED
    BY <1>1, KnownKept DEF IInv, JInv

\* AddSignal: the signal leaves its way and is in one watcher.
LEMMA AddSignalOne == ASSUME IInv, IInv', JInv, NEW a \in adding, AddSignal(a) PROVE JInv'
  <1>1. a.signal \in Signals /\ a.watcher \in Watchers /\ held \in [Watchers -> SUBSET Signals]
    BY DEF IInv, TypeOK
  <1>2. /\ adding' = adding \ {a}
        /\ \A w \in Watchers : held'[w] = IF w = a.watcher THEN held[w] \cup {a.signal} ELSE held[w]
        /\ UNCHANGED <<row, slots, creating, boot, fired, restored, stop, closing>>
    BY <1>1 DEF AddSignal
  <1>3. AwayStays
    BY <1>2 DEF AwayStays, Away, Coming
  <1>4. OldOrEmpty
    BY <1>2 DEF OldOrEmpty, WatchersOf
  <1>5. ASSUME NEW s \in Signals, s \notin restored' PROVE Carried(s)'
    <2>0. Carried(s)
      BY <1>2, <1>5 DEF JInv, OneCarrier
    <2>1. CASE s # a.signal
      BY <1>2, <2>0, <2>1, CarriedKept
    <2>2. CASE s = a.signal
      <3>1. fired[s] = 0 /\ \A w \in Watchers : s \notin held[w]
        BY <2>0, <2>2 DEF Carried, Coming
      <3>2. s \notin boot /\ (\A c \in creating : c.signal # s) /\ \A b \in adding' : b.signal # s
        BY <1>2, <2>0, <2>2 DEF Carried
      <3>3. ~Coming(s)'
        BY <1>2, <3>2 DEF Coming
      <3>4. \A w \in Watchers : s \in held'[w] => w = a.watcher
        BY <1>2, <3>1
      <3>5. QED
        BY <1>2, <3>1, <3>2, <3>3, <3>4 DEF Carried
    <2>3. QED
      BY <2>1, <2>2
  <1>6. QED
    BY <1>2, <1>3, <1>4, <1>5, OthersKeepKnown DEF JInv, OneCarrier

\* createWatcherForUser: the signal goes from the call to AddSignal.
LEMMA CreateOne == ASSUME IInv, IInv', JInv, NEW c \in creating, Create(c) PROVE JInv'
  <1> DEFINE k == Slot(c.signal)
             new == CHOOSE w \in FreeWatchers : TRUE
             a == [signal |-> c.signal, watcher |-> new, by |-> c.by]
  <1>1. c.signal \in Signals /\ c.user \in Users /\ k \in Slots
        /\ slots \in [Users -> [Slots -> Watchers \cup {None}]]
    BY SlotType DEF IInv, TypeOK, Create
  <1>2. new \in FreeWatchers
    BY DEF Create
  <1>3. /\ creating' = creating \ {c}
        /\ adding' = adding \cup {a}
        /\ slots' = [slots EXCEPT ![c.user][k] = new]
        /\ closing' = Replaced(slots[c.user][k])
        /\ UNCHANGED <<row, held, boot, fired, restored, stop>>
    BY DEF Create, Handed
  <1>4. new \in Watchers /\ held[new] = {}
    BY <1>2 DEF FreeWatchers
  <1>5. a.signal = c.signal
    OBVIOUS
  <1> HIDE DEF new, a
  <1>6. AwayStays
    <2>1. \A s \in Signals : Coming(s)' => Coming(s)
      BY <1>3, <1>5 DEF Coming
    <2>2. QED
      BY <1>3, <2>1 DEF AwayStays, Away
  <1>7. OldOrEmpty
    <2>1. ASSUME NEW u \in Users, NEW w \in WatchersOf(u)' PROVE w \in WatchersOf(u) \/ w = new
      <3>1. PICK j \in Slots : w = slots'[u][j] /\ w # None
        BY <2>1 DEF WatchersOf
      <3>2. slots'[u][j] = new \/ slots'[u][j] = slots[u][j]
        BY <1>1, <1>3
      <3>3. QED
        BY <3>1, <3>2 DEF WatchersOf
    <2>2. QED
      BY <1>3, <1>4, <2>1 DEF OldOrEmpty
  <1>8. \A d \in closing' : d \in closing \/ d.known = {}
    BY <1>3 DEF Replaced
  <1>9. ASSUME NEW s \in Signals, s \notin restored' PROVE Carried(s)'
    <2>0. Carried(s)
      BY <1>3, <1>9 DEF JInv, OneCarrier
    <2>1. CASE s # c.signal
      BY <1>3, <1>5, <2>0, <2>1, CarriedKept
    <2>2. CASE s = c.signal
      <3>1. fired[s] = 0 /\ \A w \in Watchers : s \notin held[w]
        BY <2>0, <2>2 DEF Carried, Coming
      <3>2. s \notin boot /\ (\A d \in creating' : d.signal # s) /\ \A b \in adding : b.signal # s
        BY <1>3, <2>0, <2>2 DEF Carried
      <3>3. QED
        BY <1>3, <3>1, <3>2 DEF Carried, Coming
    <2>3. QED
      BY <2>1, <2>2
  <1>10. QED
    BY <1>3, <1>6, <1>7, <1>8, <1>9, OthersKeepKnown DEF JInv, OneCarrier

\* The call has found its UserWatcher; a new one has no watchers.
LEMMA FindUserOne == ASSUME IInv, IInv', JInv, NEW c \in creating, FindUser(c) PROVE JInv'
  <1> DEFINE d == [c EXCEPT !.user = user']
  <1>1. c \in [signal : Signals, user : Users \cup {None}, by : {"request", "boot", "revive"}]
    BY DEF IInv, TypeOK
  <1>2. /\ creating' = (creating \ {c}) \cup {d}
        /\ UNCHANGED <<row, held, adding, boot, fired, restored, stop, closing>>
    BY DEF FindUser
  <1>3. d.signal = c.signal
    BY <1>1
  <1> HIDE DEF d
  <1>4. AwayStays
    <2>1. \A s \in Signals : Coming(s)' => Coming(s)
      BY <1>2, <1>3 DEF Coming
    <2>2. QED
      BY <1>2, <2>1 DEF AwayStays, Away
  <1>5. OldOrEmpty
    <2> DEFINE new == CHOOSE u \in FreeUsers : TRUE
    <2>1. UNCHANGED slots \/ (new \in Users /\ slots' = [slots EXCEPT ![new] = NoSlots])
      BY DEF FindUser, FreeUsers
    <2> HIDE DEF new
    <2>2. ASSUME NEW u \in Users, NEW w \in WatchersOf(u)' PROVE w \in WatchersOf(u)
      <3>1. PICK j \in Slots : w = slots'[u][j] /\ w # None
        BY <2>2 DEF WatchersOf
      <3>2. slots'[u][j] = None \/ slots'[u][j] = slots[u][j]
        BY <2>1 DEF NoSlots, IInv, TypeOK
      <3>3. QED
        BY <3>1, <3>2 DEF WatchersOf
    <2>3. QED
      BY <2>2 DEF OldOrEmpty
  <1>6. ASSUME NEW s \in Signals, s \notin restored' PROVE Carried(s)'
    <2>0. Carried(s)
      BY <1>2, <1>6 DEF JInv, OneCarrier
    <2>1. CASE s # c.signal
      BY <1>2, <1>3, <2>0, <2>1, CarriedKept
    <2>2. CASE s = c.signal
      <3>1. fired[s] = 0 /\ \A w \in Watchers : s \notin held[w]
        BY <2>0, <2>2 DEF Carried, Coming
      <3>2. s \notin boot /\ (\A e \in creating' : e.signal = s => e = d) /\ \A b \in adding : b.signal # s
        BY <1>2, <2>0, <2>2 DEF Carried
      <3>3. QED
        BY <1>2, <3>1, <3>2 DEF Carried, Coming
    <2>3. QED
      BY <2>1, <2>2
  <1>7. QED
    BY <1>2, <1>4, <1>5, <1>6, OthersKeepKnown DEF JInv, OneCarrier

\* A trigger: the signal is nowhere any more.
LEMMA TriggerOne ==
    ASSUME IInv, IInv', JInv, NEW w \in Watchers, NEW s \in Signals, Trigger(w, s)
    PROVE  JInv'
  <1>1. held \in [Watchers -> SUBSET Signals] /\ fired \in [Signals -> Nat]
    BY DEF IInv, TypeOK
  <1>2. /\ s \in held[w]
        /\ \A v \in Watchers : held'[v] = IF v = w THEN held[v] \ {s} ELSE held[v]
        /\ \A x \in Signals : fired'[x] = IF x = s THEN fired[x] + 1 ELSE fired[x]
        /\ UNCHANGED <<row, slots, creating, adding, boot, restored, stop, closing>>
    BY <1>1 DEF Trigger, Dropped
  <1>3. AwayStays
    BY <1>2 DEF AwayStays, Away, Coming
  <1>4. OldOrEmpty
    BY <1>2 DEF OldOrEmpty, WatchersOf
  <1>5. ASSUME NEW x \in Signals, x \notin restored' PROVE Carried(x)'
    <2>0. Carried(x)
      BY <1>2, <1>5 DEF JInv, OneCarrier
    <2>1. CASE x # s
      BY <1>2, <2>0, <2>1, CarriedKept
    <2>2. CASE x = s
      <3>1. fired[s] = 0 /\ ~Coming(s) /\ row[s] # "none"
        BY <1>2, <2>0, <2>2 DEF Carried, IInv, Saved
      <3>2. fired'[s] = 1 /\ ~Coming(s)'
        BY <1>2, <3>1 DEF Coming
      <3>3. \A v \in Watchers : s \notin held'[v]
        BY <1>2, <2>0, <2>2 DEF Carried
      <3>4. QED
        BY <1>2, <2>0, <2>2, <3>1, <3>2, <3>3 DEF Carried
    <2>3. QED
      BY <2>1, <2>2
  <1>6. QED
    BY <1>2, <1>3, <1>4, <1>5, OthersKeepKnown DEF JInv, OneCarrier

\* The INSERT: a signal without a row was nowhere.
LEMMA SaveOne == ASSUME IInv, IInv', JInv, NEW g \in Requests, Save(g) PROVE JInv'
  <1> DEFINE s == request[g].signal
             d == [signal |-> s, user |-> None, by |-> "request"]
  <1>1. s \in Signals /\ row[s] = "none" /\ row \in [Signals -> Statuses]
    BY ManagerAssumption DEF IInv, TypeOK, Owned, Save, Statuses
  <1>2. /\ row' = [row EXCEPT ![s] = "active"]
        /\ creating' = creating \cup {d}
        /\ UNCHANGED <<slots, held, adding, boot, fired, restored, stop, closing>>
    BY DEF Save
  <1>3. d.signal = s
    OBVIOUS
  <1> HIDE DEF s, d
  <1>4. AwayStays
    <2>1. ASSUME NEW x \in Signals, Away(x) PROVE Away(x)'
      BY <1>1, <1>2, <1>3, <2>1 DEF Away, Coming
    <2>2. QED
      BY <1>2, <2>1 DEF AwayStays
  <1>5. OldOrEmpty
    BY <1>2 DEF OldOrEmpty, WatchersOf
  <1>6. ASSUME NEW x \in Signals, x \notin restored' PROVE Carried(x)'
    <2>0. Carried(x)
      BY <1>2, <1>6 DEF JInv, OneCarrier
    <2>1. CASE x # s
      BY <1>1, <1>2, <1>3, <2>0, <2>1, CarriedKept
    <2>2. CASE x = s
      <3>1. ~Coming(s) /\ \A w \in Watchers : s \notin held[w]
        BY <1>1 DEF IInv, Saved, Coming
      <3>2. fired[s] = 0
        BY <1>1, <2>0, <2>2 DEF Carried
      <3>3. \A c \in creating' : c.signal = s => c = d
        BY <1>2, <3>1 DEF Coming
      <3>4. (\A b \in adding' : b.signal # s) /\ s \notin boot'
        BY <1>2, <3>1 DEF Coming
      <3>5. QED
        BY <1>2, <2>2, <3>1, <3>2, <3>3, <3>4 DEF Carried
    <2>3. QED
      BY <2>1, <2>2
  <1>7. QED
    BY <1>2, <1>4, <1>5, <1>6, OthersKeepKnown DEF JInv, OneCarrier

\* The signal is restored, and exempt.
LEMMA ReviveOne == ASSUME IInv, IInv', JInv, NEW s \in Signals, ReviveWrite(s) PROVE JInv'
  <1>1. UNCHANGED <<slots, held, adding, boot, fired, stop, closing>>
    BY DEF ReviveWrite
  <1>2. /\ restored \subseteq restored'
        /\ \A c \in creating' : c \in creating \/ c.signal \in restored'
        /\ creating \subseteq creating'
        /\ \A x \in Signals : row[x] # "none" => row'[x] # "none"
    BY DEF ReviveWrite, Written, IInv, TypeOK
  <1>3. AwayStays
    <2>1. ASSUME NEW x \in Signals, x \notin restored', Away(x) PROVE Away(x)'
      BY <1>1, <1>2, <2>1 DEF Away, Coming
    <2>2. QED
      BY <1>1, <1>2, <2>1 DEF AwayStays
  <1>4. OldOrEmpty
    BY <1>1 DEF OldOrEmpty, WatchersOf
  <1>5. ASSUME NEW x \in Signals, x \notin restored' PROVE Carried(x)'
    <2>1. Carried(x)
      BY <1>2, <1>5 DEF JInv, OneCarrier
    <2>2. QED
      BY <1>1, <1>2, <1>5, <2>1, CarriedKept
  <1>6. QED
    BY <1>1, <1>3, <1>4, <1>5, OthersKeepKnown DEF JInv, OneCarrier

\* A row that is loaded goes from boot to createWatcherForUser.
LEMMA LoadOne == ASSUME IInv, IInv', JInv, NEW s \in Signals, Load(s) PROVE JInv'
  <1> DEFINE d == [signal |-> s, user |-> None, by |-> "boot"]
  <1>1. /\ s \in boot /\ boot' = boot \ {s}
        /\ creating' = creating \cup {d}
        /\ UNCHANGED <<row, slots, held, adding, fired, restored, stop, closing>>
    BY DEF Load
  <1>2. d.signal = s
    OBVIOUS
  <1> HIDE DEF d
  <1>3. AwayStays
    <2>1. ASSUME NEW x \in Signals, Away(x) PROVE Away(x)'
      BY <1>1, <1>2, <2>1 DEF Away, Coming
    <2>2. QED
      BY <1>1, <2>1 DEF AwayStays
  <1>4. OldOrEmpty
    BY <1>1 DEF OldOrEmpty, WatchersOf
  <1>5. ASSUME NEW x \in Signals, x \notin restored' PROVE Carried(x)'
    <2>0. Carried(x)
      BY <1>1, <1>5 DEF JInv, OneCarrier
    <2>1. CASE x # s
      BY <1>1, <1>2, <2>0, <2>1, CarriedKept
    <2>2. CASE x = s
      <3>1. fired[s] = 0 /\ \A w \in Watchers : s \notin held[w]
        BY <1>1, <2>0, <2>2 DEF Carried, Coming
      <3>2. \A c \in creating \cup adding : c.signal # s
        BY <1>1, <2>0, <2>2 DEF Carried
      <3>3. \A c \in creating' : c.signal = s => c = d
        BY <1>1, <3>2
      <3>4. (\A b \in adding' : b.signal # s) /\ s \notin boot'
        BY <1>1, <3>2
      <3>5. QED
        BY <1>1, <2>2, <3>1, <3>3, <3>4 DEF Carried
    <2>3. QED
      BY <2>1, <2>2
  <1>6. QED
    BY <1>1, <1>3, <1>4, <1>5, OthersKeepKnown DEF JInv, OneCarrier

\* A new process starts from the rows alone.
LEMMA RestartOne == ASSUME IInv, IInv', Restart PROVE JInv'
  <1>1. /\ slots' = [u \in Users |-> NoSlots]
        /\ held' = [w \in Watchers |-> {}]
        /\ creating' = {} /\ adding' = {} /\ closing' = {}
        /\ stop' = [g \in Stops |-> NoStop]
        /\ fired' = [s \in Signals |-> 0]
    BY DEF Restart
  <1>2. OneCarrier'
    BY <1>1 DEF OneCarrier, Carried
  <1>3. KnownSettled'
    BY <1>1 DEF KnownSettled, Settled, NoStop
  <1>4. CleanupKeepsKnown'
    BY <1>1 DEF CleanupKeepsKnown
  <1>5. QED
    BY <1>2, <1>3, <1>4 DEF JInv

\* At the start nothing is carried anywhere, and nothing stops.
LEMMA InitiallyOne == Init => JInv
  <1> SUFFICES ASSUME Init PROVE JInv
    OBVIOUS
  <1>1. OneCarrier
    BY DEF Init, OneCarrier, Carried, Coming
  <1>2. KnownSettled
    BY DEF Init, KnownSettled, Settled, NoStop
  <1>3. CleanupKeepsKnown
    BY DEF Init, CleanupKeepsKnown
  <1>4. QED
    BY <1>1, <1>2, <1>3 DEF JInv

\* No step puts a signal in two places, or what a stop knew into a cleanup.
LEMMA NextKeepsOne == IInv /\ IInv' /\ JInv /\ [Next]_vars => JInv'
  <1>1. ASSUME IInv, IInv', JInv, UNCHANGED vars PROVE JInv'
    <2>1. Ebb /\ AwayStays /\ OneCarrier'
      BY <1>1, EbbKeepsAway, EbbKeepsCarrier DEF Ebb, JInv
    <2>2. OldOrEmpty
      BY <1>1 DEF OldOrEmpty, WatchersOf
    <2>3. QED
      BY <1>1, <2>1, <2>2, OthersKeepKnown DEF JInv
  <1>2. ASSUME IInv, IInv', JInv, Next PROVE JInv'
    <2>1. ASSUME NEW g \in Requests, RequestStep(g) \/ \E s \in Signals : CreateSignal(g, s)
          PROVE  JInv'
      BY <1>2, <2>1, EbbingKeeps, SaveOne DEF RequestStep, Ebbing
    <2>2. CASE CreatorStep
      BY <1>2, <2>2, EbbingKeeps, FindUserOne, CreateOne DEF CreatorStep, Ebbing
    <2>3. CASE ReviveStep \/ LoadStep
      BY <1>2, <2>3, EbbingKeeps, ReviveOne, LoadOne DEF ReviveStep, LoadStep, Ebbing
    <2>4. ASSUME NEW s \in Signals, AddStep(s) PROVE JInv'
      BY <1>2, <2>4, AddSignalOne DEF AddStep
    <2>5. ASSUME NEW w \in Watchers, NEW s \in Signals, Trigger(w, s) PROVE JInv'
      BY <1>2, <2>5, TriggerOne
    <2>6. ASSUME NEW g \in Stops, StopStep(g) PROVE JInv'
      BY <1>2, <2>6, StoppingKeeps
    <2>7. CASE Restart
      BY <1>2, <2>7, RestartOne
    <2>8. CASE \/ DeleteStep \/ DeleteKeys \/ NetworkDown \/ NetworkUp
               \/ \E s \in Signals : RowStep(s) \/ Remove(s) \/ Erase(s) \/ AutoClosed(s)
                                     \/ DeleteSignal(s) \/ Cut(s)
               \/ \E w \in Watchers : CloseStep(w)
      BY <1>2, <2>8, EbbingKeeps DEF Ebbing
    <2>9. QED
      BY <1>2, <2>1, <2>2, <2>3, <2>4, <2>5, <2>6, <2>7, <2>8 DEF Next
  <1>3. QED
    BY <1>1, <1>2

\* Both inductive invariants together are invariants.
LEMMA OneInvariance == Spec => [](IInv /\ JInv)
  <1>1. (IInv /\ JInv) /\ [Next]_vars => (IInv /\ JInv)'
    BY NextKeeps, NextKeepsOne
  <1>2. QED
    BY <1>1, Initially, InitiallyOne, PTL DEF Spec

\* A signal that was not restored fires at most once in a process: it is in one
\* watcher or on one way to one, and in none after it fired.
THEOREM FiresAtMostOnce == Spec => []FiresOnce
  <1>1. JInv => FiresOnce
    BY DEF JInv, OneCarrier, Carried, FiresOnce
  <1>2. QED
    BY <1>1, OneInvariance, PTL

\* The cleanup of a user whose stop has begun takes no signal that a watcher
\* held at that moment from a watcher, unless it was restored meanwhile.
THEOREM CleanupSpares == Spec => []CleanupKeepsKnown
  <1>1. JInv => CleanupKeepsKnown
    BY DEF JInv
  <1>2. QED
    BY <1>1, OneInvariance, PTL

-----------------------------------------------------------------------------
(* The refinement of SignalLife *)

\* No step but the moves of a signal that are listed here brings one nearer to
\* a watcher, or out of no row.
LEMMA NextSplits ==
    ASSUME Next
    PROVE  \/ Ebbing \/ Stopping \/ Restart
           \/ \E g \in Requests : Save(g)
           \/ \E c \in creating : FindUser(c) \/ Create(c)
           \/ \E a \in adding : AddSignal(a)
           \/ \E s \in Signals : ReviveWrite(s) \/ Load(s)
           \/ \E w \in Watchers, s \in Signals : Trigger(w, s)
  BY DEF Next, RequestStep, CreatorStep, AddStep, ReviveStep, LoadStep, Ebbing, Stopping

\* A row that was made stays, in some state.
LEMMA RowsLast ==
    ASSUME IInv, [Next]_vars, NEW s \in Signals, row[s] # "none"
    PROVE  row'[s] # "none"
  <1>1. CASE Ebbing \/ Stopping
    BY <1>1, EbbingEbbs, StoppingEbbs DEF Ebb
  <1>2. ASSUME NEW g \in Requests, Save(g) PROVE row'[s] # "none"
    BY <1>2 DEF Save, IInv, TypeOK
  <1>3. ASSUME NEW t \in Signals, ReviveWrite(t) PROVE row'[s] # "none"
    BY <1>3 DEF ReviveWrite, Written, IInv, TypeOK
  <1>4. CASE \/ Restart \/ UNCHANGED vars
             \/ \E c \in creating : FindUser(c) \/ Create(c)
             \/ \E a \in adding : AddSignal(a)
             \/ \E t \in Signals : Load(t)
             \/ \E w \in Watchers, t \in Signals : Trigger(w, t)
    BY <1>4 DEF Restart, FindUser, Create, AddSignal, Load, Trigger
  <1>5. QED
    BY <1>1, <1>2, <1>3, <1>4, NextSplits

\* What is activated is an auto-close signal, and what is undone was saved.
Undoable(g) == request[g].pc = "undo" => row[request[g].signal] # "none"
LInv ==
    /\ reviver.pc = "write" => reviver.signal \in AutoClose
    /\ \A g \in Requests : Undoable(g)

\* A request turns to "undo" when its watcher is not made.
LEMMA UndoBegins ==
    ASSUME IInv, [Next]_vars, NEW g \in Requests, request'[g].pc = "undo"
    PROVE  \/ request[g].pc = "undo" /\ request[g].signal = request'[g].signal
           \/ \E c \in creating : request'[g].signal = c.signal
  <1> DEFINE Goal == \/ request[g].pc = "undo" /\ request[g].signal = request'[g].signal
                     \/ \E c \in creating : request'[g].signal = c.signal
  <1>1. ASSUME NEW c \in creating, Create(c) \/ CreateFails(c) PROVE Goal
    BY <1>1, RequestGoesFacts DEF Create, CreateFails, NoRequest
  <1>2. ASSUME NEW h \in Requests, RequestStep(h) \/ \E s \in Signals : CreateSignal(h, s)
        PROVE  Goal
    <2>1. request[g] \in Calls /\ request \in [Requests -> Calls]
      BY DEF IInv, TypeOK, Calls
    <2>2. ASSUME NEW t \in Signals, Replace(h, t) PROVE Goal
      BY <2>1, <2>2 DEF Replace, Calls
    <2>3. CASE Save(h)
      BY <2>1, <2>3 DEF Save, Calls
    <2>4. CASE Reject(h) \/ Undo(h) \/ \E s \in Signals : CreateSignal(h, s)
      BY <2>1, <2>4 DEF Reject, Undo, CreateSignal, NoRequest
    <2>5. QED
      BY <1>2, <2>2, <2>3, <2>4 DEF RequestStep
  <1>3. CASE UNCHANGED request
    BY <1>3
  <1>4. CASE Restart
    BY <1>4 DEF Restart, NoRequest
  <1>5. \/ UNCHANGED request \/ Restart
        \/ \E c \in creating : Create(c) \/ CreateFails(c)
        \/ \E h \in Requests : RequestStep(h) \/ \E s \in Signals : CreateSignal(h, s)
    BY DEF Next, CreatorStep, FindUser, ReviveStep, ReviveList, ReviveSkip, ReviveRead, ReviveWrite,
           AddStep, AddSignal, RowStep, Deactivate, Remove, Erase, AutoClosed, CloseStep,
           CloseWatcher, Trigger, DeleteStep, LookUpUser, LookUpSignal, DeleteSignal, Cut,
           StopStep, StopRows, StopAgain, StopMemory, CleanupRows, CleanupDetach, CleanupSweep,
           Proceed, DeleteKeys, NetworkDown, NetworkUp, LoadStep, Load, LoadZero
  <1>6. QED
    BY <1>1, <1>2, <1>3, <1>4, <1>5

\* No step breaks LInv.
LEMMA NextKeepsLife == IInv /\ IInv' /\ LInv /\ [Next]_vars => LInv'
  <1> SUFFICES ASSUME IInv, IInv', LInv, [Next]_vars PROVE LInv'
    OBVIOUS
  <1> USE DEF IInv
  <1>1. reviver'.pc = "write" => reviver'.signal \in AutoClose
    <2>1. CASE ReviveStep
      <3>1. CASE ReviveList
        BY <3>1 DEF ReviveList, NoReviver
      <3>2. ASSUME NEW s \in Signals, ReviveSkip(s) \/ ReviveWrite(s) PROVE reviver'.pc # "write"
        BY <3>2, WithoutFacts DEF ReviveSkip, ReviveWrite
      <3>3. ASSUME NEW s \in Signals, ReviveRead(s) PROVE reviver'.signal \in AutoClose
        BY <3>3 DEF ReviveRead, TypeOK
      <3>4. QED
        BY <2>1, <3>1, <3>2, <3>3 DEF ReviveStep
    <2>2. \/ UNCHANGED reviver \/ ReviveStep
          \/ reviver' = [NoReviver EXCEPT !.pc = "list"] \/ reviver' = NoReviver
      BY DEF Next, RequestStep, CreateSignal, Replace, Reject, Save, Undo, CreatorStep, FindUser,
             Create, CreateFails, AddStep, AddSignal, RowStep, Deactivate, Remove, Erase,
             AutoClosed, CloseStep, CloseWatcher, Trigger, DeleteStep, LookUpUser, LookUpSignal,
             DeleteSignal, Cut, StopStep, StopRows, StopAgain, StopMemory, CleanupRows,
             CleanupDetach, CleanupSweep, Proceed, DeleteKeys, NetworkDown, NetworkUp, Restart,
             LoadStep, Load, LoadZero
    <2>3. QED
      BY <2>1, <2>2 DEF LInv, NoReviver
  <1>2. ASSUME NEW g \in Requests, request'[g].pc = "undo" PROVE row'[request'[g].signal] # "none"
    <2>1. request'[g].signal \in Signals
      BY <1>2, ManagerAssumption DEF TypeOK, Owned
    <2>2. row[request'[g].signal] # "none"
      BY <1>2, UndoBegins DEF LInv, Undoable, Saved
    <2>3. QED
      BY <2>1, <2>2, RowsLast
  <1>3. QED
    BY <1>1, <1>2 DEF LInv, Undoable

\* A step that does to the row of one signal what ends it, and to what is on its
\* way nothing, or forgoes that signal.
LEMMA RowEnds ==
    ASSUME TypeOK, TypeOK', NEW s \in Signals,
           \A x \in Signals : x # s => row'[x] = row[x],
           row'[s] = "none" <=> row[s] = "none", row'[s] = "active" => row[s] = "active",
           UNCHANGED <<Held, restored>>, Awaited' \in {Awaited, Awaited \ {s}}
    PROVE  [Life!Next]_(Life!life)
  <1>1. row \in [Signals -> Statuses] /\ row' \in [Signals -> Statuses]
    BY DEF TypeOK, Statuses
  <1>2. CASE row[s] = "active" /\ row'[s] # "active"
    <2>1. Recorded[s] = "active" /\ Recorded' = [Recorded EXCEPT ![s] = "ended"]
      BY <1>1, <1>2 DEF Recorded, Statuses
    <2>2. Life!End(s)
      BY <2>1 DEF Life!End
    <2>3. QED
      BY <2>2 DEF Life!Next
  <1>3. CASE ~(row[s] = "active" /\ row'[s] # "active")
    <2>1. Recorded' = Recorded
      BY <1>1, <1>3 DEF Recorded, Statuses
    <2>2. Life!Forgo
      BY <2>1 DEF Life!Forgo
    <2>3. QED
      BY <2>2 DEF Life!Next
  <1>4. QED
    BY <1>2, <1>3

\* Watchers lose signals and nothing else happens.
LEMMA HeldLeaves ==
    ASSUME TypeOK, \A w \in Watchers : held'[w] \subseteq held[w],
           UNCHANGED <<row, creating, adding, boot, restored>>
    PROVE  [Life!Next]_(Life!life)
  <1>1. Held' \in SUBSET Held
    BY DEF Held
  <1>2. Recorded' = Recorded /\ Awaited' = Awaited
    BY DEF Recorded, Awaited
  <1>3. Life!Leave
    BY <1>1, <1>2 DEF Life!Leave
  <1>4. QED
    BY <1>3 DEF Life!Next

\* Steps of no interest to SignalLife
LEMMA NothingSeen ==
    ASSUME UNCHANGED <<row, held, restored, boot>>, Awaited' = Awaited
    PROVE  UNCHANGED Life!life
  BY DEF Life!life, Recorded, Held

\* A row is set inactive, or deleted, or the call fails.
LEMMA CallEnds ==
    ASSUME IInv, IInv', NEW s \in Signals,
           \/ MayFail(s, Written(s, FALSE))
           \/ row[s] # "none" /\ (MayFail(s, [row EXCEPT ![s] = "deleted"])
                                  \/ row' = [row EXCEPT ![s] = "deleted"]),
           UNCHANGED <<held, restored, creating, adding>>, boot' \in {boot, boot \ {s}}
    PROVE  [Life!Next]_(Life!life)
  <1>0. TypeOK /\ TypeOK' /\ row \in [Signals -> Statuses]
    BY DEF IInv, TypeOK, Statuses
  <1>1. /\ \A x \in Signals : x # s => row'[x] = row[x]
        /\ row'[s] = "none" <=> row[s] = "none"
        /\ row'[s] = "active" => row[s] = "active"
    <2>1. CASE row' = Written(s, FALSE)
      <3>1. /\ \A x \in Signals : Written(s, FALSE)[x] = "none" <=> row[x] = "none"
            /\ \A x \in Signals \ {s} : Written(s, FALSE)[x] = row[x]
            /\ Written(s, FALSE)[s] # "active"
        BY <1>0, WrittenFacts
      <3>2. QED
        BY <2>1, <3>1
    <2>2. CASE row[s] # "none" /\ row' = [row EXCEPT ![s] = "deleted"]
      BY <1>0, <2>2
    <2>3. CASE row' = row
      BY <2>3
    <2>4. QED
      BY <2>1, <2>2, <2>3 DEF MayFail
  <1>2. UNCHANGED Held
    BY DEF Held
  <1>3. Awaited' \in {Awaited, Awaited \ {s}}
    BY DEF Awaited
  <1>4. QED
    BY <1>0, <1>1, <1>2, <1>3, RowEnds

\* A signal ends, leaves its watcher or is not taken up, or nothing is seen.
LEMMA EbbingImplements ==
    ASSUME IInv, IInv', LInv, Ebbing
    PROVE  [Life!Next]_(Life!life)
  <1>0. TypeOK
    BY DEF IInv
  <1>1. ASSUME NEW g \in Requests, Undo(g) \/ \E s \in Signals : Replace(g, s)
        PROVE  [Life!Next]_(Life!life)
    <2>1. CASE Undo(g)
      <3>1. request[g].signal \in Signals /\ row[request[g].signal] # "none"
        BY <2>1, ManagerAssumption DEF Undo, IInv, Owned, TypeOK, LInv, Undoable
      <3>2. QED
        BY <2>1, <3>1, CallEnds DEF Undo
    <2>2. ASSUME NEW s \in Signals, Replace(g, s) PROVE [Life!Next]_(Life!life)
      BY <2>2, CallEnds DEF Replace
    <2>3. QED
      BY <1>1, <2>1, <2>2
  <1>2. ASSUME NEW d \in deactivating, Deactivate(d) PROVE [Life!Next]_(Life!life)
    <2>1. d.signal \in Signals
      BY <1>0 DEF TypeOK
    <2>2. QED
      BY <1>2, <2>1, CallEnds DEF Deactivate
  <1>3. ASSUME NEW s \in Signals, Cut(s) \/ LoadZero(s) PROVE [Life!Next]_(Life!life)
    BY <1>3, CallEnds DEF Cut, LoadZero
  <1>4. ASSUME NEW s \in Signals, Erase(s) PROVE [Life!Next]_(Life!life)
    <2>1. row[s] # "none"
      BY <1>4 DEF Erase, IInv, Saved
    <2>2. QED
      BY <1>4, <2>1, CallEnds DEF Erase, MayFail
  <1>5. ASSUME (\E c \in closing : CloseWatcher(c)) \/ \E s \in Signals : Remove(s)
        PROVE  [Life!Next]_(Life!life)
    <2>1. \A w \in Watchers : held'[w] \subseteq held[w]
      BY EbbingEbbs DEF Ebb
    <2>2. QED
      BY <1>0, <1>5, <2>1, HeldLeaves DEF CloseWatcher, Remove
  <1>6. ASSUME NEW c \in creating, CreateFails(c) PROVE [Life!Next]_(Life!life)
    <2>1. Recorded' = Recorded /\ Held' = Held
      BY <1>6 DEF CreateFails, Recorded, Held
    <2>2. Awaited' \in SUBSET Awaited /\ UNCHANGED restored
      BY <1>6 DEF CreateFails, Awaited
    <2>3. QED
      BY <2>1, <2>2 DEF Life!Forgo, Life!Next
  <1>7. CASE UNCHANGED <<row, held, restored, boot, creating, adding>>
    BY <1>7, NothingSeen DEF Awaited
  <1>8. \/ UNCHANGED <<row, held, restored, boot, creating, adding>>
        \/ \E g \in Requests : Undo(g) \/ \E s \in Signals : Replace(g, s)
        \/ \E c \in creating : CreateFails(c)
        \/ \E d \in deactivating : Deactivate(d)
        \/ \E s \in Signals : Cut(s) \/ LoadZero(s) \/ Erase(s) \/ Remove(s)
        \/ \E c \in closing : CloseWatcher(c)
    BY DEF Ebbing, Reject, CreateSignal, DeleteStep, LookUpUser, LookUpSignal, RowStep, AutoClosed,
           DeleteSignal, ReviveSkip, ReviveRead, CloseStep, DeleteKeys, NetworkDown, NetworkUp,
           ReviveList
  <1>9. QED
    BY <1>1, <1>2, <1>3, <1>4, <1>5, <1>6, <1>7, <1>8

\* AddSignal watches a signal, one that is on no other way unless it was restored.
LEMMA AddSignalWatches ==
    ASSUME IInv, JInv, NEW a \in adding, AddSignal(a)
    PROVE  Life!Watch(a.signal) /\ a.signal \in Signals
  <1>1. a.signal \in Signals /\ a.watcher \in Watchers /\ held \in [Watchers -> SUBSET Signals]
    BY DEF IInv, TypeOK
  <1>2. /\ adding' = adding \ {a}
        /\ \A w \in Watchers : held'[w] = IF w = a.watcher THEN held[w] \cup {a.signal} ELSE held[w]
        /\ UNCHANGED <<row, creating, boot, restored>>
    BY <1>1 DEF AddSignal
  <1>3. Recorded' = Recorded /\ Held' = Held \cup {a.signal}
    <2>1. ASSUME NEW s \in Held' PROVE s \in Held \cup {a.signal}
      <3>1. PICK w \in Watchers : s \in held'[w]
        BY <2>1 DEF Held
      <3>2. s \in held[w] \/ s = a.signal
        BY <1>2, <3>1
      <3>3. QED
        BY <3>2 DEF Held
    <2>2. ASSUME NEW s \in Held PROVE s \in Held'
      <3>1. PICK w \in Watchers : s \in held[w]
        BY <2>2 DEF Held
      <3>2. s \in held'[w]
        BY <1>2, <3>1
      <3>3. QED
        BY <3>2 DEF Held
    <2>3. a.signal \in Held'
      BY <1>1, <1>2 DEF Held
    <2>4. QED
      BY <1>2, <2>1, <2>2, <2>3 DEF Recorded
  <1>4. a.signal \in Awaited
    BY DEF Awaited
  <1>5. Awaited' = Awaited \ {a.signal} \/ (a.signal \in restored /\ Awaited' = Awaited)
    <2>1. Awaited' = Awaited \ {a.signal} \/ Awaited' = Awaited
      BY <1>2 DEF Awaited
    <2>2. ASSUME a.signal \notin restored PROVE a.signal \notin Awaited'
      <3>1. Carried(a.signal)
        BY <1>1, <2>2 DEF JInv, OneCarrier
      <3>2. a.signal \notin boot /\ \A c \in creating \cup (adding \ {a}) : c.signal # a.signal
        BY <3>1 DEF Carried
      <3>3. QED
        BY <1>2, <3>2 DEF Awaited
    <2>3. QED
      BY <1>4, <2>1, <2>2
  <1>6. QED
    BY <1>1, <1>2, <1>3, <1>4, <1>5 DEF Life!Watch

\* The INSERT creates a signal.
LEMMA SaveCreates == ASSUME IInv, NEW g \in Requests, Save(g) PROVE [Life!Next]_(Life!life)
  <1> DEFINE s == request[g].signal
             d == [signal |-> s, user |-> None, by |-> "request"]
  <1>1. s \in Signals /\ row[s] = "none" /\ row \in [Signals -> Statuses]
    BY ManagerAssumption DEF IInv, TypeOK, Owned, Save, Statuses
  <1>2. /\ row' = [row EXCEPT ![s] = "active"]
        /\ creating' = creating \cup {d}
        /\ UNCHANGED <<held, adding, boot, restored>>
    BY DEF Save
  <1>3. d.signal = s
    OBVIOUS
  <1> HIDE DEF s, d
  <1>4. Recorded[s] = "none" /\ Recorded' = [Recorded EXCEPT ![s] = "active"]
    BY <1>1, <1>2 DEF Recorded
  <1>5. Awaited' = Awaited \cup {s} /\ UNCHANGED <<Held, restored>>
    BY <1>2, <1>3 DEF Awaited, Held
  <1>6. QED
    BY <1>1, <1>4, <1>5 DEF Life!Create, Life!Next

\* What moves on on its way to a watcher
LEMMA MovesAreUnseen ==
    ASSUME IInv,
           \/ \E c \in creating : FindUser(c) \/ Create(c)
           \/ \E s \in Signals : Load(s)
    PROVE  UNCHANGED Life!life
  <1>1. ASSUME NEW c \in creating, FindUser(c) PROVE UNCHANGED Life!life
    <2> DEFINE d == [c EXCEPT !.user = user']
    <2>1. creating' = (creating \ {c}) \cup {d} /\ UNCHANGED <<row, held, adding, boot, restored>>
      BY <1>1 DEF FindUser
    <2>2. d.signal = c.signal
      BY DEF IInv, TypeOK
    <2> HIDE DEF d
    <2>3. Awaited' = Awaited
      BY <2>1, <2>2 DEF Awaited
    <2>4. QED
      BY <2>1, <2>3, NothingSeen
  <1>2. ASSUME NEW c \in creating, Create(c) PROVE UNCHANGED Life!life
    <2> DEFINE new == CHOOSE w \in FreeWatchers : TRUE
               a == [signal |-> c.signal, watcher |-> new, by |-> c.by]
    <2>1. /\ creating' = creating \ {c} /\ adding' = adding \cup {a}
          /\ UNCHANGED <<row, held, boot, restored>>
      BY <1>2 DEF Create, Handed
    <2>2. a.signal = c.signal
      OBVIOUS
    <2> HIDE DEF a
    <2>3. Awaited' = Awaited
      BY <2>1, <2>2 DEF Awaited
    <2>4. QED
      BY <2>1, <2>3, NothingSeen
  <1>3. ASSUME NEW s \in Signals, Load(s) PROVE UNCHANGED Life!life
    <2> DEFINE d == [signal |-> s, user |-> None, by |-> "boot"]
    <2>1. /\ s \in boot /\ boot' = boot \ {s} /\ creating' = creating \cup {d}
          /\ UNCHANGED <<row, held, adding, restored>>
      BY <1>3 DEF Load
    <2>2. d.signal = s
      OBVIOUS
    <2> HIDE DEF d
    <2>3. Awaited' = Awaited
      BY <2>1, <2>2 DEF Awaited
    <2>4. QED
      BY <2>1, <2>3 DEF Life!life, Recorded, Held
  <1>4. QED
    BY <1>1, <1>2, <1>3

\* The network is back: a signal is revived, or the call fails.
LEMMA WriteRevives ==
    ASSUME IInv, LInv, NEW s \in Signals, ReviveWrite(s)
    PROVE  [Life!Next]_(Life!life)
  <1>1. s \in AutoClose /\ row[s] # "none" /\ row \in [Signals -> Statuses]
    BY DEF ReviveWrite, LInv, IInv, Saved, TypeOK, Statuses
  <1>2. UNCHANGED <<held, adding, boot>>
    BY DEF ReviveWrite
  <1>3. CASE UNCHANGED <<row, restored, creating>>
    BY <1>2, <1>3, NothingSeen DEF Awaited
  <1>4. CASE ~UNCHANGED <<row, restored, creating>>
    <2> DEFINE d == [signal |-> s, user |-> None, by |-> "revive"]
    <2>1. /\ row' = Written(s, TRUE) /\ restored' = restored \cup {s}
          /\ creating' = creating \cup {d}
      BY <1>4 DEF ReviveWrite
    <2>2. d.signal = s
      OBVIOUS
    <2> HIDE DEF d
    <2>3. Recorded[s] # "none" /\ (Recorded' = Recorded \/ Recorded' = [Recorded EXCEPT ![s] = "active"])
      BY <1>1, <2>1 DEF Recorded, Written, Statuses
    <2>4. Awaited' = Awaited \cup {s} /\ Held' = Held
      BY <1>2, <2>1, <2>2 DEF Awaited, Held
    <2>5. QED
      BY <1>1, <2>1, <2>3, <2>4 DEF Life!Revive, Life!Next
  <1>5. QED
    BY <1>3, <1>4

\* A new process watches nothing and may take up the active rows.
LEMMA RestartRestarts == ASSUME IInv, Restart PROVE Life!Restart
  <1>1. Held' = {}
    BY DEF Restart, Held
  <1>2. Awaited' \in SUBSET {s \in Signals : Recorded[s] = "active"}
    BY DEF Restart, Awaited, Active, Recorded
  <1>3. Recorded' = Recorded /\ UNCHANGED restored
    BY DEF Restart, Recorded
  <1>4. QED
    BY <1>1, <1>2, <1>3 DEF Life!Restart

\* Every step is one of SignalLife, or changes nothing it sees.
LEMMA StepImplements ==
    ASSUME IInv, IInv', JInv, LInv, [Next]_vars
    PROVE  [Life!Next]_(Life!life)
  <1>1. CASE Ebbing
    BY <1>1, EbbingImplements
  <1>2. CASE Stopping
    <2>1. UNCHANGED <<row, held, restored, boot, creating, adding>>
      BY <1>2 DEF Stopping, StopStep, StopRows, StopAgain, StopMemory, CleanupRows, CleanupDetach,
                  CleanupSweep, Proceed
    <2>2. QED
      BY <2>1, NothingSeen DEF Awaited
  <1>3. CASE Restart
    BY <1>3, RestartRestarts DEF Life!Next
  <1>4. ASSUME NEW g \in Requests, Save(g) PROVE [Life!Next]_(Life!life)
    BY <1>4, SaveCreates
  <1>5. CASE (\E c \in creating : FindUser(c) \/ Create(c)) \/ \E s \in Signals : Load(s)
    BY <1>5, MovesAreUnseen
  <1>6. ASSUME NEW a \in adding, AddSignal(a) PROVE [Life!Next]_(Life!life)
    BY <1>6, AddSignalWatches DEF Life!Next
  <1>7. ASSUME NEW s \in Signals, ReviveWrite(s) PROVE [Life!Next]_(Life!life)
    BY <1>7, WriteRevives
  <1>8. ASSUME NEW w \in Watchers, NEW s \in Signals, Trigger(w, s) PROVE [Life!Next]_(Life!life)
    <2>1. Dropped(w, {s}) /\ UNCHANGED <<row, creating, adding, boot, restored>>
      BY <1>8 DEF Trigger
    <2>2. TypeOK /\ \A v \in Watchers : held'[v] \subseteq held[v]
      BY <2>1, DroppedFacts DEF IInv
    <2>3. QED
      BY <2>1, <2>2, HeldLeaves
  <1>9. CASE UNCHANGED vars
    BY <1>9, NothingSeen DEF Awaited
  <1>10. QED
    BY <1>1, <1>2, <1>3, <1>4, <1>5, <1>6, <1>7, <1>8, <1>9, NextSplits

\* The manager implements SignalLife: unless restoreAutoCloseFeatures takes a
\* signal up again, ended rows stay ended and no signal is watched twice in a
\* run; a start takes up active rows and no others.
THEOREM ManagerImplementsLife == Spec => KeepsSignalLife
  <1>1. Init => Life!Init
    BY DEF Init, Life!Init, Recorded, Held, Awaited
  <1>2. Init => LInv
    BY DEF Init, LInv, Undoable, NoReviver, NoRequest
  <1>3. (IInv /\ JInv /\ LInv) /\ [Next]_vars => (IInv /\ JInv /\ LInv)'
    BY NextKeeps, NextKeepsOne, NextKeepsLife
  <1>4. (IInv /\ JInv /\ LInv) /\ (IInv /\ JInv /\ LInv)' /\ [Next]_vars => [Life!Next]_(Life!life)
    BY StepImplements
  <1>5. QED
    BY <1>1, <1>2, <1>3, <1>4, Initially, InitiallyOne, PTL DEF Spec, KeepsSignalLife, Life!Spec
=============================================================================
