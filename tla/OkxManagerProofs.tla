-------------------------- MODULE OkxManagerProofs --------------------------
(***************************************************************************)
(* OkxManager keeps its rows and its memory together and implements        *)
(* SignalLife, for any signals, instruments and number of watchers.        *)
(***************************************************************************)
EXTENDS OkxManager, TLAPS

\* Whatever is done about a signal, it has a row, and a request that has not
\* saved its signal has none.
HasRow ==
  \A s \in Signals :
    /\ create[s].pc \in {"existing", "clear"} => row[s] = "none"
    /\ \A t \in create[s].todo : row[t] # "none"
    /\ (del[s].pc # "idle" \/ mem[s] # 0 \/ s \in write \union load \union left \union zero.todo \union zero.drop)
         => row[s] # "none"

\* A signal comes into the memory once: by its request, or by LoadActiveSignals.
ComesOnce ==
  \A s \in Signals :
    /\ mem[s] # 0 \/ s \in write => create[s].pc = "over"
    /\ s \in write => mem[s] = 0
    /\ s \in load => create[s].pc = "idle"
    /\ create[s].pc = "add" => create[s].w # 0
    /\ del[s].pc = "remove" => del[s].w # 0

\* The server takes requests when LoadActiveSignals is over, and nothing else
\* goes on before it has read the rows.
BootFirst ==
  /\ boot # "load" => load = {}
  /\ boot # "up" => \A s \in Signals : create[s].pc \in {"idle", "over"}
  /\ boot = "read" =>
       /\ write = {} /\ pw = {} /\ zero.pc = "idle"
       /\ \A s \in Signals : create[s].pc = "idle" /\ del[s].pc = "idle" /\ mem[s] = 0

\* A request that has read the active signals of its instrument has still to
\* end them, and of two such requests one is odd.
Clearing ==
  \A s, t \in Signals :
    (create[s].pc = "clear" /\ s # t /\ InstOf[s] = InstOf[t]) =>
      /\ row[t] = "active" => t \in create[s].todo \/ {s, t} \cap odd # {}
      /\ create[t].pc = "clear" => {s, t} \cap odd # {}

\* A signal that the user's watcher holds is not passed by its DeleteUserSignal.
NotPassed ==
  \A s \in Signals :
    mem[s] # 0 /\ mem[s] = watcher =>
      /\ del[s].pc = "remove" => del[s].w = watcher \/ s \in late
      /\ del[s].pc \in {"row", "deactivate"} => s \in late

\* One signal at a time is dropped because of a zero position.
OneDrop ==
  /\ zero.pc \notin {"drop", "take"} => zero.drop = {}
  /\ \A s, t \in zero.drop : s = t

IInv ==
  /\ TypeOK /\ HasRow /\ ComesOnce /\ BootFirst /\ Clearing /\ NotPassed /\ OneDrop
  /\ EndedIsBeingForgotten /\ GoneIsRecorded /\ OneActive

Creations(n) ==
  [pc : {"idle", "existing", "clear", "watcher", "add", "over"}, todo : SUBSET Signals, w : 0..n]
Deletions(n) == [pc : {"idle", "look", "row", "remove", "deactivate"}, w : 0..n]
Zeros(n) ==
  [pc : {"idle", "list", "check", "drop", "take"}, inst : Insts \union {"none"},
   todo : SUBSET Signals, drop : SUBSET Signals, w : 0..n]

-----------------------------------------------------------------------------
(* Steps whose types or bookkeeping need an argument of their own *)

LEMMA IdleCreation == ASSUME NEW n \in Nat PROVE Idle \in Creations(n)
  BY DEF Idle, Creations

\* What ReadExisting stores are signals.
LEMMA ReadExistingTyped == ASSUME TypeOK, NEW s \in Signals, ReadExisting(s) PROVE TypeOK'
  <1> DEFINE found == {t \in Active : InstOf[t] = InstOf[s]}
  <1>1. found \in SUBSET Signals /\ made \in Nat
    BY OkxManagerAssumption DEF Active, TypeOK
  <1>2. [Idle EXCEPT !.pc = "clear", !.todo = found] \in Creations(made)
    <2> HIDE DEF found
    <2> QED
      BY <1>1, IdleCreation DEF Creations
  <1>3. create' \in [Signals -> Creations(made)]
    BY <1>2 DEF ReadExisting, TypeOK, Creations
  <1>4. create'[s].pc = "clear" /\ \A t \in Signals : t # s => create'[t] = create[t]
    BY DEF ReadExisting, TypeOK, Idle
  <1>5. QED
    BY <1>3, <1>4 DEF ReadExisting, TypeOK, Creations

\* A request that reads while another is about to end the same rows is odd.
LEMMA ReadExistingClears == ASSUME IInv, NEW s \in Signals, ReadExisting(s) PROVE Clearing'
  <1>1. /\ create'[s].pc = "clear"
        /\ create'[s].todo = {t \in Active : InstOf[t] = InstOf[s]}
        /\ \A t \in Signals : t # s => create'[t] = create[t]
    BY DEF ReadExisting, IInv, TypeOK, Idle
  <1>2. UNCHANGED row /\ odd \subseteq odd' /\ (Overlaps(s) => s \in odd')
    BY DEF ReadExisting
  <1>3. QED
    BY <1>1, <1>2 DEF IInv, Clearing, Overlaps, Active

LEMMA ReplaceTyped ==
  ASSUME IInv, NEW s \in Signals, NEW t \in Signals, Replace(s, t) PROVE TypeOK'
  <1>1. create' \in [Signals -> Creations(made)] /\ \A x \in Signals : create'[x].pc = create[x].pc
    BY DEF Replace, IInv, TypeOK, Creations
  <1>2. del' \in [Signals -> Deletions(made)]
    BY OkxManagerAssumption DEF Replace, NoDel, IInv, TypeOK, Deletions
  <1>3. /\ row' \in [Signals -> {"none", "active", "ended", "deleted"}]
        /\ \A x \in Signals : row'[x] = "none" <=> row[x] = "none"
    <2>1. row' = row \/ row' = [row EXCEPT ![t] = IF @ = "active" THEN "ended" ELSE @]
      BY DEF Replace, TryEndRow, EndRow, LeaveRow
    <2>2. QED
      BY <2>1 DEF TypeOK, IInv
  <1>4. odd' \union left' \union lost' \subseteq Signals
    BY DEF Replace, TypeOK, IInv, TryEndRow, EndRow, LeaveRow, Active
  <1>5. QED
    BY <1>1, <1>2, <1>3, <1>4 DEF Replace, TypeOK, IInv, Creations, Deletions

\* GetOrCreateWatcherForUser returns the last watcher made, which there is.
LEMMA FindWatcherTyped == ASSUME IInv, NEW s \in Signals, FindWatcher(s) PROVE TypeOK'
  <1>1. /\ made' \in 0..MaxWatchers /\ made <= made' /\ watcher' = made'
        /\ closed \union pw' \subseteq 1..made'
    BY OkxManagerAssumption DEF FindWatcher, GetWatcher, IInv, TypeOK
  <1>2. [Idle EXCEPT !.pc = "add", !.w = watcher'] \in Creations(made')
    <2>1. made' \in Nat /\ watcher' \in 0..made'
      BY <1>1, OkxManagerAssumption
    <2>2. QED
      BY <2>1, IdleCreation DEF Creations
  <1>3. create' \in [Signals -> Creations(made')]
    BY <1>1, <1>2, OkxManagerAssumption DEF FindWatcher, IInv, TypeOK, Creations
  <1>4. mem \in [Signals -> 0..made'] /\ del \in [Signals -> Deletions(made')]
    BY <1>1, OkxManagerAssumption DEF IInv, TypeOK, Deletions
  <1>5. \A t \in Signals : create'[t].pc \in {"watcher", "add", "over"} => row[t] # "none"
    BY DEF FindWatcher, IInv, TypeOK
  <1>6. QED
    BY <1>1, <1>3, <1>4, <1>5 DEF FindWatcher, TypeOK, IInv, Creations, Deletions

\* RemoveSignal takes only what AddSignal or LoadActiveSignals has put there.
LEMMA RemovedOnce == ASSUME IInv, NEW s \in Signals, RemoveSignal(s) PROVE ComesOnce'
  <1>1. CASE mem[s] = del[s].w
    <2>1. mem' = [mem EXCEPT ![s] = 0] /\ write' = write \union {s} /\ UNCHANGED <<create, load>>
      BY <1>1 DEF RemoveSignal, Take
    <2>2. create[s].pc = "over"
      BY <1>1 DEF IInv, ComesOnce, RemoveSignal
    <2>3. del'[s].pc = "deactivate" /\ \A x \in Signals : x # s => del'[x] = del[x]
      BY DEF RemoveSignal, IInv, TypeOK, NoDel
    <2>4. QED
      BY <2>1, <2>2, <2>3 DEF IInv, TypeOK, ComesOnce
  <1>2. CASE mem[s] # del[s].w
    BY <1>2 DEF RemoveSignal, Take, IInv, ComesOnce, TypeOK, NoDel
  <1>3. QED
    BY <1>1, <1>2

LEMMA CleanupTyped == ASSUME TypeOK, Cleanup PROVE TypeOK'
  <1>1. closed' \union pw \subseteq 1..made
    BY OkxManagerAssumption DEF Cleanup, TypeOK
  <1>2. QED
    BY <1>1 DEF Cleanup, TypeOK

-----------------------------------------------------------------------------
(* The inductive invariant is kept *)

\* Rows end, odd signals stay odd while that matters, and no request reads rows.
EndsOnly ==
  /\ \A x \in Signals : row'[x] = "active" => row[x] = "active"
  /\ \A x \in odd : x \in odd' \/ (row'[x] # "active" /\ create'[x].pc # "clear")
  /\ \A x \in Signals : create'[x].pc = "clear" =>
       /\ create[x].pc = "clear"
       /\ \A y \in create[x].todo : y \in create'[x].todo \/ row'[y] # "active" \/ y \in odd'

LEMMA ClearingKept == ASSUME IInv, EndsOnly PROVE Clearing' /\ OneActive'
  <1>1. Clearing'
    <2> SUFFICES ASSUME NEW s \in Signals, NEW t \in Signals, create'[s].pc = "clear",
                        s # t, InstOf[s] = InstOf[t]
                 PROVE  /\ row'[t] = "active" => t \in create'[s].todo \/ {s, t} \cap odd' # {}
                        /\ create'[t].pc = "clear" => {s, t} \cap odd' # {}
      BY DEF Clearing
    <2>1. \A x \in {s, t} \cap odd : x \in odd' \/ (row'[x] # "active" /\ create'[x].pc # "clear")
      BY DEF EndsOnly
    <2>2. QED
      BY <2>1 DEF IInv, Clearing, EndsOnly
  <1>2. OneActive'
    <2> SUFFICES ASSUME NEW s \in Active', NEW t \in Active', s # t, InstOf[s] = InstOf[t]
                 PROVE  {s, t} \cap odd' # {}
      BY DEF OneActive
    <2>1. s \in Active /\ t \in Active /\ \A x \in {s, t} \cap odd : x \in odd'
      BY DEF Active, EndsOnly
    <2>2. QED
      BY <2>1 DEF IInv, OneActive
  <1>3. QED
    BY <1>1, <1>2

LEMMA LookTyped == ASSUME IInv, NEW s \in Signals, Look(s) PROVE TypeOK'
  <1>1. watcher \in 0..made /\ made \in Nat
    BY OkxManagerAssumption DEF IInv, TypeOK
  <1>2. del' \in [Signals -> Deletions(made)]
    BY <1>1 DEF Look, IInv, TypeOK, Deletions
  <1>3. QED
    BY <1>2 DEF Look, IInv, TypeOK, Deletions

LEMMA DeleteRowTyped == ASSUME IInv, NEW s \in Signals, DeleteRow(s) PROVE TypeOK'
  <1>1. del' \in [Signals -> Deletions(made)]
    BY OkxManagerAssumption DEF DeleteRow, NoDel, IInv, TypeOK, Deletions
  <1>2. /\ row' \in [Signals -> {"none", "active", "ended", "deleted"}]
        /\ odd' \union left' \union lost' \subseteq Signals
        /\ \A x \in Signals : row[x] # "none" => row'[x] # "none"
    BY DEF DeleteRow, IInv, TypeOK
  <1>3. QED
    BY <1>1, <1>2 DEF DeleteRow, IInv, TypeOK, Deletions

\* A DeleteUserSignal goes on with a watcher, or with the row.
LEMMA LookKeeps == ASSUME IInv, NEW s \in Signals, Look(s) PROVE IInv'
  <1>1. /\ \/ del'[s].pc = "row" /\ watcher = 0
           \/ del'[s].pc = "remove" /\ del'[s].w = watcher /\ watcher # 0
        /\ \A x \in Signals : x # s => del'[x] = del[x]
    BY DEF Look, IInv, TypeOK
  <1>2. row[s] # "none" /\ boot # "read"
    BY DEF Look, IInv, HasRow, BootFirst
  <1>3. UNCHANGED <<row, mem, watcher, made, closed, pw, create, write, zero, cleanup, boot, load,
                    late, odd, left, lost>>
    BY DEF Look
  <1>4. TypeOK'
    BY LookTyped
  <1>5. HasRow' /\ ComesOnce' /\ BootFirst'
    BY <1>1, <1>2, <1>3 DEF IInv, HasRow, ComesOnce, BootFirst
  <1>6. Clearing' /\ OneActive' /\ OneDrop' /\ GoneIsRecorded'
    BY <1>3 DEF IInv, Clearing, OneActive, OneDrop, GoneIsRecorded, Active
  <1>7. NotPassed' /\ EndedIsBeingForgotten'
    BY <1>1, <1>3 DEF IInv, NotPassed, EndedIsBeingForgotten
  <1>8. QED
    BY <1>4, <1>5, <1>6, <1>7 DEF IInv

LEMMA ListSignalsTyped ==
  ASSUME IInv, ListSignals
  PROVE  TypeOK' /\ zero'.pc \notin {"drop", "take"} /\ zero'.drop = {} /\ (\A s \in zero'.todo : row[s] # "none")
         /\ zero.drop = {}
  <1>1. \/ zero' = [pc |-> "idle", inst |-> "none", todo |-> {}, drop |-> {}, w |-> 0]
        \/ zero' = [pc |-> "check", inst |-> zero.inst,
                    todo |-> {s \in Active : InstOf[s] = zero.inst}, drop |-> {}, w |-> zero.w]
    BY DEF ListSignals, NoZero, IInv, OneDrop, TypeOK
  <1>2. zero.drop = {}
    BY DEF ListSignals, IInv, OneDrop
  <1>3. QED
    BY <1>1, <1>2 DEF ListSignals, IInv, TypeOK, Active

LEMMA DropAtZeroTyped == ASSUME TypeOK, NEW s \in Signals, DropAtZero(s) PROVE TypeOK'
  <1>1. zero' = [pc |-> "check", inst |-> zero.inst, todo |-> zero.todo, drop |-> {}, w |-> 0]
    BY DEF DropAtZero, TypeOK
  <1>2. QED
    BY <1>1 DEF DropAtZero, Take, TypeOK

\* A signal is ended because of a zero position and dropped next, or it stays.
LEMMA EndAtZeroKeeps == ASSUME IInv, NEW s \in Signals, EndAtZero(s) PROVE IInv'
  <1> DEFINE typed == zero' \in [pc : {"check", "drop"}, inst : Insts \union {"none"},
                                 todo : SUBSET zero.todo, drop : SUBSET {s}, w : 0..made]
  <1>1. /\ zero.pc = "check" /\ s \in zero.todo /\ zero.drop = {} /\ zero.todo \subseteq Signals
        /\ row[s] # "none"
        /\ UNCHANGED <<mem, watcher, made, closed, pw, create, del, write, cleanup, boot, load, late>>
    BY DEF EndAtZero, IInv, OneDrop, TypeOK, HasRow
  <1>2. CASE EndRow(s) /\ zero' = [zero EXCEPT !.pc = "drop", !.todo = @ \ {s}, !.drop = {s}]
    <2>1. typed /\ zero'.pc = "drop" /\ zero'.drop = {s}
      BY <1>1, <1>2 DEF IInv, TypeOK
    <2>2. /\ row' \in [Signals -> {"none", "active", "ended", "deleted"}] /\ row'[s] # "active"
          /\ \A x \in Signals : row'[x] = "none" <=> row[x] = "none"
          /\ \A x \in Signals : x # s => row'[x] = row[x]
          /\ odd' = odd \ {s} /\ left' = left \ {s} /\ lost' = lost \ {s}
      BY <1>2 DEF EndRow, IInv, TypeOK
    <2>3. TypeOK'
      BY <1>1, <2>1, <2>2 DEF IInv, TypeOK
    <2>4. HasRow' /\ ComesOnce' /\ BootFirst'
      <3>1. zero'.todo \subseteq zero.todo
        BY <2>1
      <3>2. HasRow'
        BY <1>1, <2>1, <2>2, <3>1 DEF IInv, TypeOK, HasRow
      <3>3. QED
        BY <1>1, <2>1, <3>2 DEF IInv, ComesOnce, BootFirst
    <2>5. Clearing' /\ OneActive'
      <3>1. EndsOnly
        BY <1>1, <2>2 DEF EndsOnly, IInv, HasRow
      <3>2. QED
        BY <3>1, ClearingKept
    <2>6. NotPassed' /\ OneDrop' /\ EndedIsBeingForgotten' /\ GoneIsRecorded'
      BY <1>1, <2>1, <2>2
         DEF IInv, TypeOK, NotPassed, OneDrop, EndedIsBeingForgotten, GoneIsRecorded
    <2>7. QED
      BY <2>3, <2>4, <2>5, <2>6 DEF IInv
  <1>3. CASE zero' = [zero EXCEPT !.todo = @ \ {s}] /\ UNCHANGED <<row, odd, left, lost>>
    <2>1. typed /\ zero'.pc = "check" /\ zero'.drop = {}
      BY <1>1, <1>3 DEF IInv, TypeOK
    <2>2. TypeOK' /\ HasRow' /\ ComesOnce' /\ BootFirst'
      BY <1>1, <1>3, <2>1 DEF IInv, TypeOK, HasRow, ComesOnce, BootFirst
    <2>3. Clearing' /\ OneActive' /\ NotPassed' /\ OneDrop'
      BY <1>1, <1>3, <2>1 DEF IInv, Clearing, OneActive, Active, NotPassed, OneDrop
    <2>4. EndedIsBeingForgotten' /\ GoneIsRecorded'
      BY <1>1, <1>3, <2>1 DEF IInv, EndedIsBeingForgotten, GoneIsRecorded
    <2>5. QED
      BY <2>2, <2>3, <2>4 DEF IInv
  <1>4. QED
    BY <1>2, <1>3 DEF EndAtZero

LEMMA CrashTyped == ASSUME TypeOK, Crash PROVE TypeOK'
  <1>1. create' \in [Signals -> Creations(made')] /\ del' \in [Signals -> Deletions(made')]
    BY DEF Crash, Idle, NoDel, Creations, Deletions
  <1>2. mem' \in [Signals -> 0..made'] /\ made' \in 0..MaxWatchers
    BY OkxManagerAssumption DEF Crash
  <1>3. zero' \in Zeros(made')
    BY DEF Crash, NoZero, Zeros
  <1>4. \A s \in Signals : create'[s].pc = "idle"
    BY DEF Crash, Idle
  <1>5. write' \union load' \union late' \union odd' \union left' \union lost' \subseteq Signals
    BY DEF Crash, TypeOK, Active
  <1>6. QED
    BY <1>1, <1>2, <1>3, <1>4, <1>5 DEF Crash, TypeOK, Creations, Deletions, Zeros

\* Nothing was saved.
LEMMA Initially == Init => IInv
  <1> SUFFICES ASSUME Init PROVE IInv
    OBVIOUS
  <1>1. TypeOK
    <2>1. create \in [Signals -> Creations(made)] /\ del \in [Signals -> Deletions(made)]
      BY DEF Init, Idle, NoDel, Creations, Deletions
    <2>2. mem \in [Signals -> 0..made] /\ made \in 0..MaxWatchers
      BY OkxManagerAssumption DEF Init
    <2>3. zero \in Zeros(made) /\ \A s \in Signals : create[s].pc = "idle"
      BY DEF Init, NoZero, Zeros, Idle
    <2>4. QED
      BY <2>1, <2>2, <2>3 DEF Init, TypeOK, Creations, Deletions, Zeros
  <1>2. HasRow /\ ComesOnce /\ BootFirst /\ Clearing
    BY DEF Init, HasRow, ComesOnce, BootFirst, Clearing, Idle, NoDel, NoZero
  <1>3. NotPassed /\ OneDrop /\ EndedIsBeingForgotten /\ GoneIsRecorded /\ OneActive
    BY DEF Init, NotPassed, OneDrop, EndedIsBeingForgotten, GoneIsRecorded, OneActive, Active,
           NoZero
  <1>4. QED
    BY <1>1, <1>2, <1>3 DEF IInv

\* CreateSignal and the goroutine it launches
LEMMA CreateKeeps ==
  ASSUME IInv, NEW s \in Signals,
         \/ BeginCreate(s) \/ ReadExisting(s) \/ Reject(s) \/ Save(s)
         \/ \E t \in Signals : Replace(s, t)
         \/ FindWatcher(s) \/ AddSignal(s)
  PROVE  IInv'
  <1>1. CASE BeginCreate(s)
    BY <1>1, OkxManagerAssumption
       DEF IInv, TypeOK, HasRow, ComesOnce, BootFirst, Clearing, NotPassed, OneDrop,
           EndedIsBeingForgotten, GoneIsRecorded, OneActive, Active, BeginCreate, Idle, Serving
  <1>2. CASE ReadExisting(s)
    <2>1. TypeOK'
      BY <1>2, ReadExistingTyped DEF IInv
    <2>2. HasRow' /\ ComesOnce' /\ BootFirst'
      BY <1>2 DEF IInv, TypeOK, HasRow, ComesOnce, BootFirst, Active, ReadExisting, Idle, Overlaps
    <2>3. Clearing' /\ OneActive'
      <3>1. OneActive'
        BY <1>2 DEF IInv, OneActive, Active, ReadExisting
      <3>2. QED
        BY <1>2, <3>1, ReadExistingClears
    <2>4. NotPassed' /\ OneDrop' /\ EndedIsBeingForgotten'
      BY <1>2
         DEF IInv, TypeOK, NotPassed, OneDrop, EndedIsBeingForgotten, ComesOnce, Active,
             ReadExisting, Idle, Overlaps
    <2>5. GoneIsRecorded'
      BY <1>2
         DEF IInv, TypeOK, ComesOnce, HasRow, GoneIsRecorded, Active, ReadExisting, Idle, Overlaps
    <2>6. QED
      BY <2>1, <2>2, <2>3, <2>4, <2>5 DEF IInv
  <1>3. CASE Reject(s)
    <2>1. TypeOK'
      BY <1>3, OkxManagerAssumption DEF IInv, TypeOK, Active, Reject, Idle
    <2>2. HasRow' /\ ComesOnce' /\ BootFirst'
      BY <1>3, OkxManagerAssumption
         DEF IInv, TypeOK, HasRow, ComesOnce, BootFirst, Active, Reject, Idle
    <2>3. Clearing' /\ OneActive'
      <3>1. EndsOnly
        BY <1>3 DEF EndsOnly, IInv, TypeOK, HasRow, Active, Reject, Idle
      <3>2. QED
        BY <3>1, ClearingKept
    <2>4. NotPassed' /\ OneDrop' /\ EndedIsBeingForgotten'
      BY <1>3, OkxManagerAssumption
         DEF IInv, TypeOK, NotPassed, OneDrop, EndedIsBeingForgotten, ComesOnce, Active, Reject,
             Idle
    <2>5. GoneIsRecorded'
      BY <1>3, OkxManagerAssumption
         DEF IInv, TypeOK, ComesOnce, HasRow, GoneIsRecorded, Active, Reject, Idle
    <2>6. QED
      BY <2>1, <2>2, <2>3, <2>4, <2>5 DEF IInv
  <1>4. CASE Save(s)
    <2>1. TypeOK' /\ HasRow' /\ ComesOnce' /\ BootFirst'
      BY <1>4 DEF IInv, TypeOK, HasRow, ComesOnce, BootFirst, Active, Save
    <2>2. Clearing' /\ OneActive'
      BY <1>4 DEF IInv, TypeOK, HasRow, Clearing, OneActive, Active, Save
    <2>3. NotPassed' /\ OneDrop' /\ EndedIsBeingForgotten' /\ GoneIsRecorded'
      BY <1>4
         DEF IInv, TypeOK, HasRow, NotPassed, OneDrop, EndedIsBeingForgotten, ComesOnce,
             GoneIsRecorded, Save
    <2>4. QED
      BY <2>1, <2>2, <2>3 DEF IInv
  <1>5. ASSUME NEW t \in Signals, Replace(s, t) PROVE IInv'
    <2>1. TypeOK'
      BY <1>5, ReplaceTyped
    <2>2. HasRow' /\ ComesOnce' /\ BootFirst'
      BY <1>5
         DEF IInv, TypeOK, HasRow, ComesOnce, BootFirst, Active, Replace, TryEndRow, EndRow, LeaveRow, NoDel
    <2>3. Clearing' /\ OneActive'
      <3>1. EndsOnly
        BY <1>5 DEF EndsOnly, IInv, TypeOK, HasRow, Active, Replace, TryEndRow, EndRow, LeaveRow, NoDel
      <3>2. QED
        BY <3>1, ClearingKept
    <2>4. NotPassed' /\ OneDrop' /\ EndedIsBeingForgotten'
      BY <1>5
         DEF IInv, TypeOK, NotPassed, OneDrop, EndedIsBeingForgotten, ComesOnce, Active, Replace,
             TryEndRow, EndRow, LeaveRow, NoDel
    <2>5. GoneIsRecorded'
      BY <1>5
         DEF IInv, TypeOK, ComesOnce, HasRow, GoneIsRecorded, Active, Replace, TryEndRow, EndRow, LeaveRow,
             NoDel
    <2>6. QED
      BY <2>1, <2>2, <2>3, <2>4, <2>5 DEF IInv
  <1>6. CASE FindWatcher(s)
    <2>1. TypeOK'
      BY <1>6, FindWatcherTyped
    <2>2. HasRow' /\ ComesOnce' /\ BootFirst'
      BY <1>6, OkxManagerAssumption
         DEF IInv, TypeOK, HasRow, ComesOnce, BootFirst, Active, FindWatcher, GetWatcher, Idle
    <2>3. Clearing' /\ OneActive'
      BY <1>6, OkxManagerAssumption
         DEF IInv, TypeOK, HasRow, Clearing, OneActive, Active, FindWatcher, GetWatcher, Idle
    <2>4. NotPassed' /\ OneDrop' /\ EndedIsBeingForgotten'
      BY <1>6, OkxManagerAssumption
         DEF IInv, TypeOK, NotPassed, OneDrop, EndedIsBeingForgotten, ComesOnce, Active,
             FindWatcher, GetWatcher, Idle
    <2>5. GoneIsRecorded'
      BY <1>6, OkxManagerAssumption
         DEF IInv, TypeOK, ComesOnce, HasRow, GoneIsRecorded, Active, FindWatcher, GetWatcher,
             Idle
    <2>6. QED
      BY <2>1, <2>2, <2>3, <2>4, <2>5 DEF IInv
  <1>7. CASE AddSignal(s)
    BY <1>7, OkxManagerAssumption
       DEF IInv, TypeOK, HasRow, ComesOnce, BootFirst, Clearing, NotPassed, OneDrop,
           EndedIsBeingForgotten, GoneIsRecorded, OneActive, Active, AddSignal, Idle, Put, TooLate
  <1>8. QED
    BY <1>1, <1>2, <1>3, <1>4, <1>5, <1>6, <1>7

\* DeleteUserSignal
LEMMA DeleteKeeps ==
  ASSUME IInv, NEW s \in Signals, BeginDelete(s) \/ Look(s) \/ DeleteRow(s) \/ RemoveSignal(s) \/ Deactivate(s)
  PROVE  IInv'
  <1>1. CASE BeginDelete(s)
    BY <1>1, OkxManagerAssumption
       DEF IInv, TypeOK, HasRow, ComesOnce, BootFirst, Clearing, NotPassed, OneDrop,
           EndedIsBeingForgotten, GoneIsRecorded, OneActive, Active, BeginDelete, NoDel, Serving
  <1>2. CASE Look(s)
    BY <1>2, LookKeeps
  <1>5. CASE DeleteRow(s)
    <2>1. TypeOK'
      BY <1>5, DeleteRowTyped
    <2>2. HasRow' /\ ComesOnce' /\ BootFirst'
      BY <1>5 DEF IInv, TypeOK, HasRow, ComesOnce, BootFirst, DeleteRow, NoDel
    <2>3. Clearing' /\ OneActive'
      <3>1. EndsOnly
        BY <1>5 DEF EndsOnly, IInv, TypeOK, HasRow, Active, DeleteRow, NoDel
      <3>2. QED
        BY <3>1, ClearingKept
    <2>4. NotPassed' /\ OneDrop' /\ EndedIsBeingForgotten'
      BY <1>5
         DEF IInv, TypeOK, NotPassed, OneDrop, EndedIsBeingForgotten, DeleteRow, NoDel
    <2>5. GoneIsRecorded'
      BY <1>5 DEF IInv, TypeOK, GoneIsRecorded, DeleteRow
    <2>6. QED
      BY <2>1, <2>2, <2>3, <2>4, <2>5 DEF IInv
  <1>3. CASE RemoveSignal(s)
    <2>1. ComesOnce'
      BY <1>3, RemovedOnce
    <2>2. TypeOK'
      <3>1. del' \in [Signals -> Deletions(made)] /\ made' = made
        BY <1>3, OkxManagerAssumption DEF IInv, TypeOK, RemoveSignal, NoDel, Deletions
      <3>2. /\ mem' = [mem EXCEPT ![s] = 0] \/ mem' = mem
            /\ pw' \subseteq pw
            /\ write' \union late' \union left' \subseteq write \union late \union left \union {s}
        BY <1>3 DEF RemoveSignal, Take
      <3>3. QED
        BY <1>3, <3>1, <3>2, OkxManagerAssumption DEF IInv, TypeOK, RemoveSignal, Deletions
    <2>3. HasRow' /\ BootFirst'
      BY <1>3 DEF IInv, TypeOK, HasRow, BootFirst, Active, RemoveSignal, Take, NoDel
    <2>4. Clearing' /\ OneActive'
      BY <1>3 DEF IInv, TypeOK, HasRow, Clearing, OneActive, Active, RemoveSignal, Take, NoDel
    <2>5. NotPassed' /\ OneDrop' /\ EndedIsBeingForgotten'
      BY <1>3
         DEF IInv, TypeOK, NotPassed, OneDrop, EndedIsBeingForgotten, ComesOnce, Active,
             RemoveSignal, Take, NoDel
    <2>6. GoneIsRecorded'
      BY <1>3
         DEF IInv, TypeOK, ComesOnce, HasRow, GoneIsRecorded, Active, RemoveSignal, Take, NoDel
    <2>7. QED
      BY <2>1, <2>2, <2>3, <2>4, <2>5, <2>6 DEF IInv
  <1>4. CASE Deactivate(s)
    <2>1. TypeOK'
      BY <1>4, OkxManagerAssumption DEF IInv, TypeOK, Active, Deactivate, TryEndRow, EndRow, LeaveRow, NoDel
    <2>2. HasRow' /\ ComesOnce' /\ BootFirst'
      BY <1>4, OkxManagerAssumption
         DEF IInv, TypeOK, HasRow, ComesOnce, BootFirst, Active, Deactivate, TryEndRow, EndRow, LeaveRow,
             NoDel
    <2>3. Clearing' /\ OneActive'
      <3>1. EndsOnly
        BY <1>4 DEF EndsOnly, IInv, TypeOK, HasRow, Active, Deactivate, TryEndRow, EndRow, LeaveRow, NoDel
      <3>2. QED
        BY <3>1, ClearingKept
    <2>4. NotPassed' /\ OneDrop' /\ EndedIsBeingForgotten'
      BY <1>4, OkxManagerAssumption
         DEF IInv, TypeOK, NotPassed, OneDrop, EndedIsBeingForgotten, ComesOnce, Active,
             Deactivate, TryEndRow, EndRow, LeaveRow, NoDel
    <2>5. GoneIsRecorded'
      BY <1>4, OkxManagerAssumption
         DEF IInv, TypeOK, ComesOnce, HasRow, GoneIsRecorded, Active, Deactivate, TryEndRow,
             EndRow, LeaveRow, NoDel
    <2>6. QED
      BY <2>1, <2>2, <2>3, <2>4, <2>5 DEF IInv
  <1>6. QED
    BY <1>1, <1>2, <1>3, <1>4, <1>5

\* The end of the user's keys and of the proxy
LEMMA CleanupKeeps == ASSUME IInv, Graceful \/ DeleteKeys \/ Cleanup PROVE IInv'
  <1>1. CASE Graceful
    BY <1>1
       DEF IInv, TypeOK, HasRow, ComesOnce, BootFirst, Clearing, NotPassed, OneDrop,
           EndedIsBeingForgotten, GoneIsRecorded, OneActive, Active, Graceful
  <1>2. CASE DeleteKeys
    BY <1>2
       DEF IInv, TypeOK, HasRow, ComesOnce, BootFirst, Clearing, NotPassed, OneDrop,
           EndedIsBeingForgotten, GoneIsRecorded, OneActive, Active, DeleteKeys
  <1>3. CASE Cleanup
    <2>1. TypeOK'
      BY <1>3, CleanupTyped DEF IInv
    <2>2. HasRow' /\ ComesOnce' /\ BootFirst'
      BY <1>3 DEF IInv, TypeOK, HasRow, ComesOnce, BootFirst, Active, Cleanup
    <2>3. Clearing' /\ OneActive'
      BY <1>3 DEF IInv, TypeOK, HasRow, Clearing, OneActive, Active, Cleanup
    <2>4. NotPassed' /\ OneDrop' /\ EndedIsBeingForgotten'
      BY <1>3
         DEF IInv, TypeOK, NotPassed, OneDrop, EndedIsBeingForgotten, ComesOnce, Active, Cleanup
    <2>5. GoneIsRecorded'
      BY <1>3 DEF IInv, TypeOK, ComesOnce, HasRow, GoneIsRecorded, Active, Cleanup
    <2>6. QED
      BY <2>1, <2>2, <2>3, <2>4, <2>5 DEF IInv
  <1>4. QED
    BY <1>1, <1>2, <1>3

\* The streams and the background writes
LEMMA StreamKeeps ==
  ASSUME IInv,
         \/ \E s \in Signals : Fire(s) \/ Write(s)
         \/ \E w \in Watchers : PositionStreamEnds(w)
         \/ \E i \in Insts : PositionCloses(i)
  PROVE  IInv'
  <1>1. ASSUME NEW s \in Signals, Fire(s) PROVE IInv'
    <2>1. TypeOK'
      BY <1>1 DEF IInv, TypeOK, Active, Fire, Take
    <2>2. HasRow' /\ ComesOnce' /\ BootFirst'
      BY <1>1 DEF IInv, TypeOK, HasRow, ComesOnce, BootFirst, Active, Fire, Take
    <2>3. Clearing' /\ OneActive'
      BY <1>1 DEF IInv, TypeOK, HasRow, Clearing, OneActive, Active, Fire, Take
    <2>4. NotPassed' /\ OneDrop' /\ EndedIsBeingForgotten'
      BY <1>1
         DEF IInv, TypeOK, NotPassed, OneDrop, EndedIsBeingForgotten, ComesOnce, Active, Fire,
             Take
    <2>5. GoneIsRecorded'
      BY <1>1 DEF IInv, TypeOK, ComesOnce, HasRow, GoneIsRecorded, Active, Fire, Take
    <2>6. QED
      BY <2>1, <2>2, <2>3, <2>4, <2>5 DEF IInv
  <1>2. ASSUME NEW s \in Signals, Write(s) PROVE IInv'
    <2>1. TypeOK'
      BY <1>2 DEF IInv, TypeOK, Active, Write, LeaveRow, EndRow
    <2>2. HasRow' /\ ComesOnce' /\ BootFirst'
      BY <1>2 DEF IInv, TypeOK, HasRow, ComesOnce, BootFirst, Active, Write, LeaveRow, EndRow
    <2>3. Clearing' /\ OneActive'
      <3>1. EndsOnly
        BY <1>2 DEF EndsOnly, IInv, TypeOK, HasRow, Active, Write, LeaveRow, EndRow
      <3>2. QED
        BY <3>1, ClearingKept
    <2>4. NotPassed' /\ OneDrop' /\ EndedIsBeingForgotten'
      BY <1>2
         DEF IInv, TypeOK, NotPassed, OneDrop, EndedIsBeingForgotten, ComesOnce, Active, Write,
             TryEndRow, EndRow, LeaveRow
    <2>5. GoneIsRecorded'
      BY <1>2
         DEF IInv, TypeOK, ComesOnce, HasRow, GoneIsRecorded, Active, Write, LeaveRow, EndRow
    <2>6. QED
      BY <2>1, <2>2, <2>3, <2>4, <2>5 DEF IInv
  <1>3. ASSUME NEW w \in Watchers, PositionStreamEnds(w) PROVE IInv'
    BY <1>3
       DEF IInv, TypeOK, HasRow, ComesOnce, BootFirst, Clearing, NotPassed, OneDrop,
           EndedIsBeingForgotten, GoneIsRecorded, OneActive, Active, PositionStreamEnds
  <1>4. ASSUME NEW i \in Insts, PositionCloses(i) PROVE IInv'
    <2>1. /\ zero' = [pc |-> "list", inst |-> i, todo |-> {}, drop |-> {}, w |-> 0] /\ zero.drop = {}
          /\ boot # "read"
          /\ UNCHANGED <<row, mem, watcher, made, closed, pw, create, del, write, cleanup, boot,
                         load, late, odd, left, lost>>
      BY <1>4 DEF PositionCloses, NoZero, IInv, OneDrop, BootFirst
    <2>2. TypeOK' /\ HasRow' /\ OneDrop'
      BY <2>1 DEF IInv, TypeOK, HasRow, OneDrop
    <2>3. ComesOnce' /\ BootFirst' /\ Clearing' /\ NotPassed'
      BY <2>1 DEF IInv, ComesOnce, BootFirst, Clearing, NotPassed
    <2>4. EndedIsBeingForgotten' /\ GoneIsRecorded' /\ OneActive'
      BY <2>1 DEF IInv, EndedIsBeingForgotten, GoneIsRecorded, OneActive, Active
    <2>5. QED
      BY <2>2, <2>3, <2>4 DEF IInv
  <1>5. QED
    BY <1>1, <1>2, <1>3, <1>4

\* checkAndRemoveSignalsIfZeroPosition
LEMMA ZeroKeeps ==
  ASSUME IInv, ListSignals \/ FindAtZero \/ LeaveZero \/ \E s \in Signals : EndAtZero(s) \/ DropAtZero(s)
  PROVE  IInv'
  <1>1. CASE ListSignals
    <2>1. /\ zero.pc = "list" /\ zero.drop = {} /\ zero'.pc \notin {"drop", "take"} /\ zero'.drop = {}
          /\ \A s \in zero'.todo : row[s] # "none"
      BY <1>1, ListSignalsTyped DEF ListSignals
    <2>2. TypeOK'
      BY <1>1, ListSignalsTyped
    <2>3. HasRow'
      BY <1>1, <2>1 DEF IInv, TypeOK, HasRow, Active, ListSignals
    <2>4. ComesOnce' /\ BootFirst'
      BY <1>1, <2>1 DEF IInv, TypeOK, HasRow, ComesOnce, BootFirst, Active, ListSignals
    <2>5. Clearing' /\ OneActive'
      BY <1>1, <2>1 DEF IInv, TypeOK, HasRow, Clearing, OneActive, Active, ListSignals
    <2>6. NotPassed'
      BY <1>1, <2>1 DEF IInv, TypeOK, NotPassed, Active, ListSignals
    <2>7. OneDrop'
      BY <1>1, <2>1 DEF IInv, TypeOK, OneDrop, Active, ListSignals
    <2>8. EndedIsBeingForgotten'
      BY <1>1, <2>1
         DEF IInv, TypeOK, NotPassed, OneDrop, EndedIsBeingForgotten, ComesOnce, Active,
             ListSignals
    <2>9. GoneIsRecorded'
      BY <1>1, <2>1 DEF IInv, TypeOK, ComesOnce, HasRow, GoneIsRecorded, Active, ListSignals
    <2>10. QED
      BY <2>2, <2>3, <2>4, <2>5, <2>6, <2>7, <2>8, <2>9 DEF IInv
  <1>2. CASE LeaveZero
    BY <1>2
       DEF IInv, TypeOK, HasRow, ComesOnce, BootFirst, Clearing, NotPassed, OneDrop,
           EndedIsBeingForgotten, GoneIsRecorded, OneActive, Active, LeaveZero, NoZero
  <1>3. ASSUME NEW s \in Signals, EndAtZero(s) PROVE IInv'
    BY <1>3, EndAtZeroKeeps
  <1>4. ASSUME NEW s \in Signals, DropAtZero(s) PROVE IInv'
    <2>1. TypeOK'
      BY <1>4, DropAtZeroTyped DEF IInv
    <2>2. HasRow' /\ ComesOnce' /\ BootFirst'
      BY <1>4 DEF IInv, TypeOK, HasRow, ComesOnce, BootFirst, Active, DropAtZero, Take
    <2>3. Clearing' /\ OneActive'
      BY <1>4 DEF IInv, TypeOK, HasRow, Clearing, OneActive, Active, DropAtZero, Take
    <2>4. NotPassed' /\ OneDrop' /\ EndedIsBeingForgotten'
      BY <1>4
         DEF IInv, TypeOK, NotPassed, OneDrop, EndedIsBeingForgotten, ComesOnce, Active,
             DropAtZero, Take
    <2>5. GoneIsRecorded'
      BY <1>4 DEF IInv, TypeOK, ComesOnce, HasRow, GoneIsRecorded, Active, DropAtZero, Take
    <2>6. QED
      BY <2>1, <2>2, <2>3, <2>4, <2>5 DEF IInv
  <1>5. CASE FindAtZero
    <2>1. /\ zero' = [pc |-> "take", inst |-> zero.inst, todo |-> zero.todo, drop |-> zero.drop,
                       w |-> watcher]
          /\ zero.pc = "drop"
          /\ UNCHANGED <<row, mem, watcher, made, closed, pw, create, del, write, cleanup, boot,
                         load, late, odd, left, lost>>
      BY <1>5 DEF FindAtZero, IInv, TypeOK
    <2>2. watcher \in 0..made
      BY OkxManagerAssumption DEF IInv, TypeOK
    <2>3. TypeOK' /\ HasRow' /\ OneDrop'
      BY <2>1, <2>2 DEF IInv, TypeOK, HasRow, OneDrop
    <2>4. ComesOnce' /\ BootFirst' /\ Clearing' /\ NotPassed'
      BY <2>1 DEF IInv, ComesOnce, BootFirst, Clearing, NotPassed
    <2>5. EndedIsBeingForgotten' /\ GoneIsRecorded' /\ OneActive'
      BY <2>1 DEF IInv, EndedIsBeingForgotten, GoneIsRecorded, OneActive, Active
    <2>6. QED
      BY <2>3, <2>4, <2>5 DEF IInv
  <1>6. QED
    BY <1>1, <1>2, <1>3, <1>4, <1>5

\* A crash and the start after it
LEMMA ProcessKeeps ==
  ASSUME IInv, Crash \/ LoadActive \/ Serve \/ \E s \in Signals : LoadSignal(s)
  PROVE  IInv'
  <1>1. CASE Crash
    <2>1. TypeOK'
      BY <1>1, CrashTyped DEF IInv
    <2>2. HasRow' /\ ComesOnce' /\ BootFirst'
      BY <1>1, OkxManagerAssumption
         DEF IInv, TypeOK, HasRow, ComesOnce, BootFirst, Active, Crash, Idle, NoDel, NoZero
    <2>3. Clearing' /\ OneActive'
      BY <1>1, OkxManagerAssumption
         DEF IInv, TypeOK, HasRow, Clearing, OneActive, Active, Crash, Idle, NoDel, NoZero
    <2>4. NotPassed' /\ OneDrop' /\ EndedIsBeingForgotten'
      BY <1>1, OkxManagerAssumption
         DEF IInv, TypeOK, NotPassed, OneDrop, EndedIsBeingForgotten, ComesOnce, Active, Crash,
             Idle, NoDel, NoZero
    <2>5. GoneIsRecorded'
      BY <1>1, OkxManagerAssumption
         DEF IInv, TypeOK, ComesOnce, HasRow, GoneIsRecorded, Active, Crash, Idle, NoDel, NoZero
    <2>6. QED
      BY <2>1, <2>2, <2>3, <2>4, <2>5 DEF IInv
  <1>2. CASE LoadActive
    BY <1>2
       DEF IInv, TypeOK, HasRow, ComesOnce, BootFirst, Clearing, NotPassed, OneDrop,
           EndedIsBeingForgotten, GoneIsRecorded, OneActive, Active, LoadActive
  <1>3. CASE Serve
    BY <1>3
       DEF IInv, TypeOK, HasRow, ComesOnce, BootFirst, Clearing, NotPassed, OneDrop,
           EndedIsBeingForgotten, GoneIsRecorded, OneActive, Active, Serve
  <1>4. ASSUME NEW s \in Signals, LoadSignal(s) PROVE IInv'
    BY <1>4, OkxManagerAssumption
       DEF IInv, TypeOK, HasRow, ComesOnce, BootFirst, Clearing, NotPassed, OneDrop,
           EndedIsBeingForgotten, GoneIsRecorded, OneActive, Active, LoadSignal, Idle, Put,
           GetWatcher, TooLate
  <1>5. QED
    BY <1>1, <1>2, <1>3, <1>4

LEMMA StepKeeps == ASSUME IInv, [Next]_vars PROVE IInv'
  <1>1. CASE Next
    BY <1>1, CreateKeeps, DeleteKeeps, CleanupKeeps, StreamKeeps, ZeroKeeps, ProcessKeeps DEF Next
  <1>2. CASE UNCHANGED vars
    BY <1>2 DEF vars, IInv, TypeOK, HasRow, ComesOnce, BootFirst, Clearing, NotPassed, OneDrop,
                EndedIsBeingForgotten, GoneIsRecorded, OneActive, Active
  <1>3. QED
    BY <1>1, <1>2

LEMMA Invariance == Spec => []IInv
  BY Initially, StepKeeps, PTL DEF Spec

-----------------------------------------------------------------------------
(* The refinement of SignalLife *)

\* EndRow seen from SignalLife
LEMMA EndRowEnds ==
  ASSUME IInv, NEW s \in Signals, EndRow(s) \/ LeaveRow(s), UNCHANGED <<InMemory, Awaited>>
  PROVE  Life!End(s) \/ UNCHANGED Life!life
  <1>1. CASE row[s] = "active" /\ EndRow(s)
    <2>1. Recorded[s] = "active" /\ Recorded' = [Recorded EXCEPT ![s] = "ended"]
      BY <1>1 DEF Recorded, EndRow, IInv, TypeOK
    <2>2. QED
      BY <2>1 DEF Life!End, Life!life
  <1>2. CASE ~(row[s] = "active" /\ EndRow(s))
    <2>1. row' = row
      BY <1>2 DEF EndRow, LeaveRow, IInv, TypeOK
    <2>2. Recorded' = Recorded
      BY <2>1 DEF Recorded
    <2>3. QED
      BY <2>2 DEF Life!life
  <1>3. QED
    BY <1>1, <1>2

LEMMA TakeLeaves ==
  ASSUME IInv, NEW s \in Signals, NEW w, Take(s, w), UNCHANGED <<Recorded, Awaited>>
  PROVE  Life!Leave \/ UNCHANGED Life!life
  <1>1. CASE mem[s] = w /\ mem[s] # 0
    <2>1. s \in InMemory /\ InMemory' = InMemory \ {s}
      BY <1>1 DEF Take, InMemory, IInv, TypeOK
    <2>2. QED
      BY <2>1 DEF Life!Leave
  <1>2. CASE ~(mem[s] = w /\ mem[s] # 0)
    <2>1. InMemory' = InMemory
      BY <1>2 DEF Take, InMemory, IInv, TypeOK
    <2>2. QED
      BY <2>1 DEF Life!life
  <1>3. QED
    BY <1>1, <1>2

LEMMA SaveCreates == ASSUME IInv, NEW s \in Signals, Save(s) PROVE Life!Create(s)
  <1>1. Recorded[s] = "none" /\ Recorded' = [Recorded EXCEPT ![s] = "active"]
    BY DEF Save, Recorded, IInv, TypeOK, HasRow
  <1>2. InMemory' = InMemory
    BY DEF Save, InMemory
  <1>3. Awaited' = Awaited \union {s}
    BY DEF Save, Awaited, IInv, TypeOK, BootFirst
  <1>4. QED
    BY <1>1, <1>2, <1>3 DEF Life!Create

LEMMA AddWatches == ASSUME IInv, NEW s \in Signals, AddSignal(s) PROVE Life!Watch(s)
  <1>1. Recorded' = Recorded
    BY DEF AddSignal, Recorded
  <1>2. InMemory' = InMemory \union {s}
    BY DEF AddSignal, Put, InMemory, IInv, TypeOK, ComesOnce
  <1>3. s \in Awaited /\ Awaited' = Awaited \ {s}
    BY DEF AddSignal, Awaited, IInv, TypeOK, BootFirst, Idle, Active, ComesOnce
  <1>4. QED
    BY <1>1, <1>2, <1>3 DEF Life!Watch

LEMMA LoadWatches == ASSUME IInv, NEW s \in Signals, LoadSignal(s) PROVE Life!Watch(s)
  <1>1. Recorded' = Recorded
    BY DEF LoadSignal, Recorded
  <1>2. InMemory' = InMemory \union {s}
    BY OkxManagerAssumption DEF LoadSignal, GetWatcher, Put, InMemory, IInv, TypeOK
  <1>3. s \in Awaited /\ Awaited' = Awaited \ {s}
    BY DEF LoadSignal, Awaited, IInv, TypeOK, BootFirst, Idle, ComesOnce
  <1>4. QED
    BY <1>1, <1>2, <1>3 DEF Life!Watch

LEMMA CrashRestarts == ASSUME IInv, Crash PROVE Life!Restart
  <1>1. Recorded' = Recorded
    BY DEF Crash, Recorded
  <1>2. InMemory' = {}
    BY DEF Crash, InMemory
  <1>3. Awaited' = {s \in Signals : Recorded[s] = "active"}
    BY DEF Crash, Awaited, Recorded, Active, Idle, IInv, TypeOK
  <1>4. QED
    BY <1>1, <1>2, <1>3 DEF Life!Restart

LEMMA LoadForgoes == ASSUME IInv, LoadActive PROVE Life!Forgo
  <1>1. Recorded' = Recorded /\ InMemory' = InMemory
    BY DEF LoadActive, Recorded, InMemory
  <1>2. Awaited' \in SUBSET Awaited
    BY DEF LoadActive, Awaited, IInv, BootFirst, Active
  <1>3. QED
    BY <1>1, <1>2 DEF Life!Forgo

LEMMA LifeInit == Init => Life!Init
  BY DEF Init, Life!Init, Recorded, InMemory, Awaited, Idle


\* The steps of the requests
LEMMA RequestImplements ==
  ASSUME IInv, NEW s \in Signals,
         \/ BeginCreate(s) \/ ReadExisting(s) \/ Reject(s) \/ Save(s)
         \/ \E t \in Signals : Replace(s, t)
         \/ FindWatcher(s) \/ AddSignal(s)
         \/ BeginDelete(s) \/ Look(s) \/ DeleteRow(s) \/ RemoveSignal(s) \/ Deactivate(s)
  PROVE  [Life!Next]_(Life!life)
  <1>1. CASE \/ BeginCreate(s) \/ ReadExisting(s) \/ Reject(s) \/ FindWatcher(s)
            \/ BeginDelete(s) \/ Look(s)
    <2>1. UNCHANGED <<Recorded, InMemory>>
      BY <1>1 DEF BeginCreate, ReadExisting, Reject, FindWatcher, BeginDelete, Look, Recorded, InMemory
    <2>2. \A t \in Signals : create'[t].pc \in {"watcher", "add"} <=> create[t].pc \in {"watcher", "add"}
      <3>1. CASE BeginCreate(s) \/ BeginDelete(s) \/ Look(s)
        BY <3>1 DEF BeginCreate, BeginDelete, Look, Idle, IInv, TypeOK
      <3>2. CASE Reject(s)
        BY <3>2 DEF Reject, Idle, IInv, TypeOK
      <3>3. CASE ReadExisting(s)
        BY <3>3 DEF ReadExisting, Idle, IInv, TypeOK
      <3>4. CASE FindWatcher(s)
        BY <3>4 DEF FindWatcher, Idle, IInv, TypeOK
      <3>5. QED
        BY <1>1, <3>1, <3>2, <3>3, <3>4
    <2>3. UNCHANGED Awaited
      BY <1>1, <2>2 DEF BeginCreate, ReadExisting, Reject, FindWatcher, BeginDelete, Look, Awaited, Active
    <2>4. QED
      BY <2>1, <2>3 DEF Life!life
  <1>2. CASE Save(s)
    BY <1>2, SaveCreates DEF Life!Next
  <1>3. ASSUME NEW t \in Signals, Replace(s, t) PROVE [Life!Next]_(Life!life)
    <2>1. UNCHANGED <<InMemory, Awaited>>
      BY <1>3 DEF Replace, InMemory, Awaited, IInv, TypeOK, BootFirst
    <2>2. QED
      BY <1>3, <2>1, EndRowEnds DEF Replace, TryEndRow, Life!Next
  <1>4. CASE AddSignal(s)
    BY <1>4, AddWatches DEF Life!Next
  <1>5. CASE DeleteRow(s)
    <2>1. UNCHANGED <<InMemory, Awaited>>
      BY <1>5 DEF DeleteRow, InMemory, Awaited, IInv, BootFirst
    <2>2. CASE row[s] = "active" /\ row'[s] # "active"
      <3>1. row' = [row EXCEPT ![s] = "deleted"]
        BY <1>5, <2>2 DEF DeleteRow
      <3>2. Recorded[s] = "active" /\ Recorded' = [Recorded EXCEPT ![s] = "ended"]
        BY <2>2, <3>1 DEF Recorded, IInv, TypeOK
      <3>3. QED
        BY <2>1, <3>2 DEF Life!End, Life!Next
    <2>3. CASE ~(row[s] = "active" /\ row'[s] # "active")
      <3>1. row[s] # "none"
        BY <1>5 DEF DeleteRow, IInv, HasRow
      <3>2. UNCHANGED Recorded
        BY <1>5, <2>3, <3>1 DEF DeleteRow, Recorded, IInv, TypeOK
      <3>3. QED
        BY <2>1, <3>2 DEF Life!life
    <2>4. QED
      BY <2>2, <2>3
  <1>6. CASE RemoveSignal(s)
    <2>1. UNCHANGED <<Recorded, Awaited>>
      BY <1>6 DEF RemoveSignal, Recorded, Awaited, Active
    <2>2. QED
      BY <1>6, <2>1, TakeLeaves DEF RemoveSignal, Life!Next
  <1>7. CASE Deactivate(s)
    <2>1. UNCHANGED <<InMemory, Awaited>>
      BY <1>7 DEF Deactivate, InMemory, Awaited, IInv, BootFirst
    <2>2. QED
      BY <1>7, <2>1, EndRowEnds DEF Deactivate, TryEndRow, Life!Next
  <1>8. QED
    BY <1>1, <1>2, <1>3, <1>4, <1>5, <1>6, <1>7

\* The steps of the streams
LEMMA StreamImplements ==
  ASSUME IInv, NEW s \in Signals, Fire(s) \/ Write(s) \/ EndAtZero(s) \/ DropAtZero(s)
  PROVE  [Life!Next]_(Life!life)
  <1>1. CASE Fire(s)
    <2>1. UNCHANGED <<Recorded, Awaited>>
      BY <1>1 DEF Fire, Recorded, Awaited, Active
    <2>2. QED
      BY <1>1, <2>1, TakeLeaves DEF Fire, Life!Next
  <1>2. CASE Write(s)
    <2>1. UNCHANGED <<InMemory, Awaited>>
      BY <1>2 DEF Write, InMemory, Awaited, IInv, BootFirst
    <2>2. QED
      BY <1>2, <2>1, EndRowEnds DEF Write, Life!Next
  <1>3. CASE EndAtZero(s)
    <2>1. UNCHANGED <<InMemory, Awaited>>
      BY <1>3 DEF EndAtZero, InMemory, Awaited, IInv, BootFirst
    <2>2. CASE EndRow(s)
      BY <2>1, <2>2, EndRowEnds DEF Life!Next
    <2>3. CASE UNCHANGED row
      BY <2>1, <2>3 DEF Recorded, Life!life
    <2>4. QED
      BY <1>3, <2>2, <2>3 DEF EndAtZero
  <1>4. CASE DropAtZero(s)
    <2>1. UNCHANGED <<Recorded, Awaited>>
      BY <1>4 DEF DropAtZero, Recorded, Awaited, Active
    <2>2. CASE zero.w = 0
      BY <1>4, <2>1, <2>2 DEF DropAtZero, InMemory, Life!life
    <2>3. CASE zero.w # 0
      BY <1>4, <2>1, <2>3, TakeLeaves DEF DropAtZero, Life!Next
    <2>4. QED
      BY <2>2, <2>3
  <1>5. QED
    BY <1>1, <1>2, <1>3, <1>4

\* What neither writes a row nor changes the memory
LEMMA OthersStutter ==
  ASSUME IInv,
         \/ Graceful \/ DeleteKeys \/ Cleanup \/ ListSignals \/ FindAtZero \/ LeaveZero \/ Serve
         \/ \E w \in Watchers : PositionStreamEnds(w)
         \/ \E i \in Insts : PositionCloses(i)
  PROVE  UNCHANGED Life!life
  <1>1. UNCHANGED <<row, mem, create, load>>
    BY DEF Graceful, DeleteKeys, Cleanup, ListSignals, FindAtZero, LeaveZero, Serve, PositionStreamEnds,
           PositionCloses
  <1>2. boot' = boot \/ (boot = "load" /\ boot' = "up")
    BY DEF Graceful, DeleteKeys, Cleanup, ListSignals, FindAtZero, LeaveZero, Serve, PositionStreamEnds,
           PositionCloses
  <1>3. QED
    BY <1>1, <1>2 DEF Life!life, Recorded, InMemory, Awaited, Active

LEMMA StepImplements == ASSUME IInv, [Next]_vars PROVE [Life!Next]_(Life!life)
  <1>1. CASE \E s \in Signals : LoadSignal(s)
    BY <1>1, LoadWatches DEF Life!Next
  <1>2. CASE Crash \/ LoadActive
    BY <1>2, CrashRestarts, LoadForgoes DEF Life!Next
  <1>3. CASE UNCHANGED vars
    BY <1>3 DEF vars, Life!life, Recorded, InMemory, Awaited, Active
  <1>4. QED
    BY <1>1, <1>2, <1>3, RequestImplements, StreamImplements, OthersStutter DEF Next

-----------------------------------------------------------------------------
(* What follows *)

\* The rows, the memory and the goroutines of one user keep their types.
THEOREM TypeCorrect == Spec => []TypeOK
  <1>1. IInv => TypeOK
    BY DEF IInv
  <1>2. QED
    BY <1>1, Invariance, PTL

\* A signal whose row has ended is about to be taken out of the user's watcher,
\* unless AddSignal came when the deletion had already looked for the watcher.
THEOREM EndedIsForgotten == Spec => []EndedIsBeingForgotten
  <1>1. IInv => EndedIsBeingForgotten
    BY DEF IInv
  <1>2. QED
    BY <1>1, Invariance, PTL

\* The end of a signal that has left the memory, in this run of the process or an
\* earlier one, is in its row or on its way there, or the write failed or the
\* process died before it.
THEOREM GoneIsWritten == Spec => []GoneIsRecorded
  <1>1. IInv => GoneIsRecorded
    BY DEF IInv
  <1>2. QED
    BY <1>1, Invariance, PTL

\* An instrument has one active signal, unless a write failed or requests
\* overlapped.
THEOREM OneActiveEach == Spec => []OneActive
  <1>1. IInv => OneActive
    BY DEF IInv
  <1>2. QED
    BY <1>1, Invariance, PTL

\* The manager implements SignalLife: ended rows stay ended, no signal is watched
\* twice in a run, and a start takes up the active rows and no others.
THEOREM ManagerImplementsLife == Spec => KeepsSignalLife
  <1>1. Init => Life!Init
    BY LifeInit
  <1>2. IInv /\ [Next]_vars => [Life!Next]_(Life!life)
    BY StepImplements
  <1>3. QED
    BY <1>1, <1>2, Invariance, PTL DEF Spec, KeepsSignalLife, Life!Spec
=============================================================================
