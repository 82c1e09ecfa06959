------------------------- MODULE ProxyServiceProofs -------------------------
(***************************************************************************)
(* The container of a user that runs while nobody is in the service is the *)
(* one the service knows, for any goroutines, monitors and rows.           *)
(***************************************************************************)
EXTENDS ProxyService, TLAPS

Goroutines == [pc : Steps, cfg : 0..MaxConfigs, after : {"idle", "again", "erase"}, met : BOOLEAN]

In(p, pcs) == call[p].pc \in pcs
Builds(p)  == In(p, Building)
Runs(c)    == Newest(c) /\ rows[c] = "running"

\* A start notices every other call, and the container made then shows it.
Overlaps ==
  /\ \A p, q \in Calls : Builds(p) /\ q # p /\ ~Free(q) => call[p].met
  /\ \A p \in Calls : Builds(p) /\ call[p].met => odd
  /\ phase = "boot" => Quiet

\* The configuration of a start is that of the container it made, and the
\* only one whose row may say "running"; a stop leaves no container that runs.
Holds(p) ==
  /\ Builds(p) /\ ~In(p, {"save", "read"}) => call[p].cfg \in Configs
  /\ In(p, {"run"}) /\ box.by = p => box.cfg = call[p].cfg
  /\ In(p, {"old", "oldStop", "oldRemove", "create"}) /\ ~call[p].met =>
       \A c \in Configs : Runs(c) => c = call[p].cfg
  /\ In(p, {"adopt", "ready", "badLogs", "drop", "know", "publish"}) /\ Exists /\ ~odd =>
       call[p].cfg = box.cfg
  /\ In(p, {"remove", "forget"}) /\ box.up => odd

\* The container is one of a configuration, and of the row that says "running".
Boxed ==
  /\ box.up => Exists
  /\ ~Exists => box.by = 0
  /\ ~odd /\ Exists => \A c \in Configs : Runs(c) => c = box.cfg

\* A container that runs is known, or a start or a new process is about to
\* know it or to stop it.
Seen(p) == In(p, {"adopt", "ready", "badLogs", "drop", "know"}) /\ call[p].cfg = box.cfg
Known ==
  ~odd /\ box.up => \/ inst = box.cfg
                    \/ phase # "up" /\ inst = 0
                    \/ \E p \in Calls : Seen(p)

IInv == TypeOK /\ Overlaps /\ (\A p \in Calls : Holds(p)) /\ Boxed /\ Known

-----------------------------------------------------------------------------
(* How a goroutine moves *)

\* The steps of other goroutines are none of its own.
Others(p) == \A q \in Calls : q # p => call'[q] = call[q]

LEMMA GotoIs ==
  ASSUME call \in [Calls -> Goroutines], NEW p \in Calls, NEW pc \in Steps, Goto(p, pc)
  PROVE  /\ call' \in [Calls -> Goroutines] /\ Others(p)
         /\ call'[p].pc = pc /\ call'[p].cfg = call[p].cfg /\ call'[p].met = call[p].met
  BY DEF Goto, Goroutines, Others

LEMMA GoWithIs ==
  ASSUME call \in [Calls -> Goroutines], NEW p \in Calls, NEW pc \in Steps, NEW c \in 0..MaxConfigs,
         GoWith(p, pc, c)
  PROVE  /\ call' \in [Calls -> Goroutines] /\ Others(p)
         /\ call'[p].pc = pc /\ call'[p].cfg = c /\ call'[p].met = call[p].met
  BY DEF GoWith, Goroutines, Others

LEMMA LeaveIs ==
  ASSUME call \in [Calls -> Goroutines], NEW p \in Calls, Leave(p)
  PROVE  call' \in [Calls -> Goroutines] /\ Others(p) /\ call'[p].pc = "idle"
  <1>1. Idle \in Goroutines /\ Idle.pc = "idle"
    BY ProxyAssumption DEF Idle, Goroutines, Steps
  <1>2. QED
    BY <1>1 DEF Leave, Others

LEMMA StoppedIs ==
  ASSUME call \in [Calls -> Goroutines], NEW p \in Calls, Stopped(p)
  PROVE  call' \in [Calls -> Goroutines] /\ Others(p) /\ call'[p].pc \in {"look", "erase", "idle"}
  <1> DEFINE next == CASE call[p].after = "again" -> [Idle EXCEPT !.pc = "look", !.after = "erase"]
                       [] call[p].after = "erase" -> [Idle EXCEPT !.pc = "erase"]
                       [] OTHER -> Idle
  <1>1. next \in Goroutines /\ next.pc \in {"look", "erase", "idle"}
    <2>0. 0 \in 0..MaxConfigs /\ "look" \in Steps /\ "erase" \in Steps /\ "idle" \in Steps
      BY ProxyAssumption DEF Steps, Stopping
    <2>1. /\ Idle \in Goroutines /\ Idle.pc = "idle"
          /\ [Idle EXCEPT !.pc = "look", !.after = "erase"] \in Goroutines
          /\ [Idle EXCEPT !.pc = "erase"] \in Goroutines
      BY <2>0 DEF Idle, Goroutines
    <2>2. /\ [Idle EXCEPT !.pc = "look", !.after = "erase"].pc = "look"
          /\ [Idle EXCEPT !.pc = "erase"].pc = "erase"
      BY DEF Idle
    <2>3. QED
      BY <2>1, <2>2
  <1>2. call' = [call EXCEPT ![p] = next]
    BY DEF Stopped
  <1> HIDE DEF next
  <1>3. QED
    BY <1>1, <1>2 DEF Others

\* Writing a status other than "running" makes no row the one that runs.
LEMMA WriteRuns ==
  ASSUME rows \in [Configs -> Status], NEW c \in Configs, NEW status \in {"stopped", "error"},
         Write(c, status)
  PROVE  rows' \in [Configs -> Status] /\ \A d \in Configs : Runs(d)' => Runs(d)
  <1>1. CASE rows' = rows
    BY <1>1 DEF Runs, Newest, Live
  <1>2. CASE rows' = [rows EXCEPT ![c] = status]
    BY <1>2 DEF Runs, Newest, Live, Status
  <1>3. QED
    BY <1>1, <1>2 DEF Write

LEMMA PublishRuns ==
  ASSUME rows \in [Configs -> Status], NEW c \in Configs, Write(c, "running")
  PROVE  rows' \in [Configs -> Status] /\ \A d \in Configs : Runs(d)' => Runs(d) \/ d = c
  <1>1. CASE rows' = rows
    BY <1>1 DEF Runs, Newest, Live
  <1>2. CASE rows' = [rows EXCEPT ![c] = "running"]
    BY <1>2 DEF Runs, Newest, Live, Status
  <1>3. QED
    BY <1>1, <1>2 DEF Write

LEMMA SameRuns ==
  ASSUME UNCHANGED rows PROVE \A c \in Configs : Runs(c)' <=> Runs(c)
  BY DEF Runs, Newest, Live

\* One row may say "running"
LEMMA OneRuns ==
  ASSUME NEW c \in Configs, NEW d \in Configs, Runs(c), Runs(d) PROVE c = d
  BY ProxyAssumption DEF Runs, Newest, Live, Configs

-----------------------------------------------------------------------------
(* What a step of a goroutine in the service does to the others *)

Own(p) ==
  /\ ~Free(p) /\ UNCHANGED phase /\ Others(p)
  /\ Builds(p)' => Builds(p) /\ call'[p].met = call[p].met
  /\ (odd => odd') \/ (Builds(p) /\ (call[p].met => odd'))
  /\ box'.up => box.up \/ Builds(p)
  /\ box'.by \in {0, p} \/ (box'.by = box.by /\ box'.cfg = box.cfg)

LEMMA OwnOverlaps ==
  ASSUME Overlaps, NEW p \in Calls, Own(p) PROVE Overlaps'
  <1>1. \A q \in Calls : Builds(q)' => Builds(q) /\ call'[q].met = call[q].met
    BY DEF Own, Others, Builds, In
  <1>2. \A q \in Calls : ~Free(q)' => ~Free(q)
    BY DEF Own, Others, Free
  <1>3. \A q, r \in Calls : Builds(q)' /\ r # q /\ ~Free(r)' => call'[q].met
    BY <1>1, <1>2 DEF Overlaps
  <1>4. ASSUME NEW q \in Calls, Builds(q)', call'[q].met PROVE odd'
    <2>1. odd
      BY <1>1, <1>4 DEF Overlaps
    <2>2. CASE odd => odd'
      BY <2>1, <2>2
    <2>3. CASE Builds(p) /\ (call[p].met => odd')
      <3>1. ~Free(q)
        BY <1>1, <1>4 DEF Builds, In, Free, Building
      <3>2. CASE q = p
        BY <1>1, <1>4, <2>3, <3>2
      <3>3. CASE q # p
        BY <2>3, <3>1, <3>3 DEF Overlaps
      <3>4. QED
        BY <3>2, <3>3
    <2>4. QED
      BY <2>2, <2>3 DEF Own
  <1>5. phase' # "boot"
    BY DEF Own, Overlaps, Quiet
  <1>6. QED
    BY <1>3, <1>4, <1>5 DEF Overlaps

\* The start of another goroutine has met this one, so the container shows it.
LEMMA OwnHolds ==
  ASSUME ProxyAssumption, Overlaps, NEW p \in Calls, Own(p), NEW q \in Calls, q # p, Holds(q)
  PROVE  Holds(q)'
  <1>1. call'[q] = call[q] /\ (Builds(q) => Builds(q)')
    BY DEF Own, Others, Builds, In
  <1>2. Builds(q) => call[q].met /\ odd
    BY DEF Own, Overlaps
  <1>3. Builds(q) => odd'
    <2>1. ASSUME Builds(q), Builds(p) PROVE call[p].met
      BY <2>1 DEF Overlaps, Builds, In, Free, Building
    <2>2. QED
      BY <1>2, <2>1 DEF Own
  <1>4. In(q, {"remove", "forget"}) /\ box'.up => odd'
    <2>1. ASSUME In(q, {"remove", "forget"}), Builds(p) PROVE call[p].met /\ odd
      BY <2>1 DEF Overlaps, In, Free
    <2>2. QED
      BY <2>1 DEF Own, Holds
  <1>5. In(q, {"run"}) /\ box'.by = q => box.by = q /\ box'.cfg = box.cfg
    BY ProxyAssumption DEF Own
  <1>6. QED
    BY <1>1, <1>2, <1>3, <1>4, <1>5 DEF Holds, In, Builds, Building

-----------------------------------------------------------------------------
(* The calls that enter the service *)

Entering(p) == BeginCreate(p) \/ BeginConfigure(p) \/ BeginStop(p) \/ BeginDelete(p)

\* A new call, known to every start under way and they to it.
LEMMA EnterIs ==
  ASSUME TypeOK, NEW p \in Calls, NEW pc \in {"read", "save", "look"}, NEW after \in {"idle", "again"},
         Enter(p, pc, after)
  PROVE  /\ call' \in [Calls -> Goroutines] /\ Free(p) /\ call'[p].pc = pc
         /\ odd => odd'
         /\ \A q \in Calls : q # p =>
              /\ call'[q].pc = call[q].pc /\ call'[q].cfg = call[q].cfg
              /\ Meets(p, q, pc) => call'[q].met /\ call'[p].met /\ odd'
              /\ call[q].met => call'[q].met
              /\ call'[q].met => call[q].met \/ odd'
         /\ call'[p].met => odd'
  <1> DEFINE met == {q \in Calls : Meets(p, q, pc)}
             new == [Idle EXCEPT !.pc = pc, !.after = after, !.met = (met # {})]
  <1>0. call \in [Calls -> Goroutines]
    BY DEF TypeOK, Goroutines
  <1>1. new \in Goroutines /\ new.pc = pc /\ (new.met <=> met # {})
    <2>1. 0 \in 0..MaxConfigs /\ pc \in Steps
      BY ProxyAssumption DEF Steps, Stopping, Building
    <2>2. QED
      BY <2>1 DEF Idle, Goroutines
  <1>2. \A q \in Calls : /\ [call[q] EXCEPT !.met = TRUE] \in Goroutines
                         /\ [call[q] EXCEPT !.met = TRUE].pc = call[q].pc
                         /\ [call[q] EXCEPT !.met = TRUE].cfg = call[q].cfg
                         /\ [call[q] EXCEPT !.met = TRUE].met
    BY <1>0 DEF Goroutines
  <1>3. /\ call' = [q \in Calls |-> IF q = p THEN new
                                ELSE IF q \in met THEN [call[q] EXCEPT !.met = TRUE] ELSE call[q]]
        /\ odd' = (odd \/ met # {}) /\ Free(p)
    BY DEF Enter
  <1>4. \A q \in Calls : Meets(p, q, pc) <=> q \in met
    OBVIOUS
  <1>5. p \notin met
    BY DEF Meets
  <1> HIDE DEF met, new
  <1>6. call' \in [Calls -> Goroutines] /\ call'[p] = new
    BY <1>0, <1>1, <1>2, <1>3
  <1>7. \A q \in Calls : q # p => call'[q] = IF q \in met THEN [call[q] EXCEPT !.met = TRUE] ELSE call[q]
    BY <1>3
  <1>8. \A q \in Calls : q # p =>
              /\ call'[q].pc = call[q].pc /\ call'[q].cfg = call[q].cfg
              /\ call[q].met => call'[q].met
              /\ q \in met => call'[q].met
              /\ call'[q].met => call[q].met \/ q \in met
    BY <1>2, <1>7
  <1>9. QED
    BY <1>1, <1>3, <1>4, <1>6, <1>8

LEMMA EnteringIs ==
  ASSUME NEW p \in Calls, Entering(p)
  PROVE  /\ \E pc \in {"read", "save", "look"}, after \in {"idle", "again"} : Enter(p, pc, after)
         /\ UNCHANGED <<rows, box, inst, mon, phase>> /\ phase = "up"
  BY DEF Entering, BeginCreate, BeginConfigure, BeginStop, BeginDelete

LEMMA EnteringKeeps ==
  ASSUME IInv, NEW p \in Calls, Entering(p) PROVE IInv'
  <1>1. UNCHANGED <<rows, box, inst, mon, phase>> /\ phase = "up"
    BY EnteringIs
  <1>2. PICK pc \in {"read", "save", "look"}, after \in {"idle", "again"} : Enter(p, pc, after)
    BY EnteringIs
  <1>3. TypeOK /\ Overlaps /\ (\A q \in Calls : Holds(q)) /\ Boxed /\ Known
    BY DEF IInv
  <1>4. /\ call' \in [Calls -> Goroutines] /\ Free(p) /\ call'[p].pc = pc
        /\ odd => odd'
        /\ \A q \in Calls : q # p =>
             /\ call'[q].pc = call[q].pc /\ call'[q].cfg = call[q].cfg
             /\ Meets(p, q, pc) => call'[q].met /\ call'[p].met /\ odd'
             /\ call[q].met => call'[q].met
             /\ call'[q].met => call[q].met \/ odd'
        /\ call'[p].met => odd'
    BY <1>2, <1>3, EnterIs
  <1>5. TypeOK'
    <2>1. odd' \in BOOLEAN
      BY <1>2 DEF Enter
    <2>2. QED
      BY <1>1, <1>3, <1>4, <2>1 DEF TypeOK, Goroutines
  <1>6. Overlaps'
    <2>1. ASSUME NEW q \in Calls, NEW r \in Calls, Builds(q)', r # q, ~Free(r)' PROVE call'[q].met
      <3>1. CASE q # p /\ r # p
        BY <1>3, <1>4, <2>1, <3>1 DEF Overlaps, Builds, In, Free
      <3>2. CASE q = p
        BY <1>4, <2>1, <3>2 DEF Builds, In, Free, Meets
      <3>3. CASE r = p
        BY <1>4, <2>1, <3>3 DEF Builds, In, Free, Meets, Building
      <3>4. QED
        BY <3>1, <3>2, <3>3
    <2>2. ASSUME NEW q \in Calls, Builds(q)', call'[q].met PROVE odd'
      BY <1>3, <1>4, <2>2 DEF Overlaps, Builds, In
    <2>3. QED
      BY <1>1, <2>1, <2>2 DEF Overlaps
  <1>7. ASSUME NEW q \in Calls PROVE Holds(q)'
    <2>1. CASE q = p
      BY <1>4, <2>1 DEF Holds, In, Builds, Building
    <2>2. CASE q # p
      BY <1>1, <1>3, <1>4, <2>2, SameRuns DEF Holds, In, Builds, Exists
    <2>3. QED
      BY <2>1, <2>2
  <1>8. Boxed'
    BY <1>1, <1>3, <1>4, SameRuns DEF Boxed, Exists
  <1>9. Known'
    <2>1. \A q \in Calls : Seen(q) => Seen(q)'
      BY <1>1, <1>4 DEF Seen, In, Free
    <2>2. QED
      BY <1>1, <1>3, <1>4, <2>1 DEF Known
  <1>10. QED
    BY <1>5, <1>6, <1>7, <1>8, <1>9 DEF IInv

-----------------------------------------------------------------------------
(* Steps that make nothing run *)

LEMMA Parts ==
  ASSUME IInv
  PROVE  /\ TypeOK /\ Overlaps /\ Boxed /\ Known /\ \A p \in Calls : Holds(p)
         /\ call \in [Calls -> Goroutines] /\ rows \in [Configs -> Status] /\ odd \in BOOLEAN
         /\ inst \in 0..MaxConfigs /\ box \in [cfg : 0..MaxConfigs, up : BOOLEAN, by : Calls \union {0}]
  BY DEF IInv, TypeOK, Goroutines

LEMMA HaltedIs ==
  ASSUME box \in [cfg : 0..MaxConfigs, up : BOOLEAN, by : Calls \union {0}]
  PROVE  /\ Halted \in [cfg : 0..MaxConfigs, up : BOOLEAN, by : Calls \union {0}]
         /\ NoBox \in [cfg : 0..MaxConfigs, up : BOOLEAN, by : Calls \union {0}]
         /\ Halted.cfg = box.cfg /\ Halted.by = box.by /\ ~Halted.up
         /\ NoBox.cfg = 0 /\ NoBox.by = 0 /\ ~NoBox.up
  <1>1. /\ Halted \in [cfg : 0..MaxConfigs, up : BOOLEAN, by : Calls \union {0}]
        /\ Halted.cfg = box.cfg /\ Halted.by = box.by /\ ~Halted.up
    BY DEF Halted
  <1>2. 0 \in 0..MaxConfigs
    BY ProxyAssumption
  <1>3. QED
    BY <1>1, <1>2 DEF NoBox

\* A call to Docker never makes the container better known.
LEMMA DockerIs ==
  ASSUME odd \in BOOLEAN, NEW can, Succeeds(can) \/ Fails(can) PROVE odd' \in BOOLEAN /\ (odd => odd')
  BY DEF Succeeds, Fails

\* The container stays, stops or goes, no row begins to say "running", and a
\* goroutine that was about to know the container still is, if that is needed.
Plain(p) ==
  /\ ~Free(p) /\ Others(p) /\ call' \in [Calls -> Goroutines]
  /\ Builds(p)' => Builds(p) /\ call'[p].met = call[p].met
  /\ UNCHANGED <<inst, mon, phase>>
  /\ rows' \in [Configs -> Status] /\ \A c \in Configs : Runs(c)' => Runs(c)
  /\ box' \in {box, Halted, NoBox}
  /\ odd' \in BOOLEAN /\ (odd => odd')
  /\ Seen(p) => Seen(p)' \/ odd' \/ ~box'.up
  /\ Holds(p)'

LEMMA OwnKeeps ==
  ASSUME IInv, NEW p \in Calls, Own(p), TypeOK', Holds(p)', Boxed', Known' PROVE IInv'
  <1>1. \A q \in Calls : q # p => Holds(q)'
    BY Parts, ProxyAssumption, OwnHolds
  <1>2. Overlaps'
    BY Parts, OwnOverlaps
  <1>3. QED
    BY <1>1, <1>2 DEF IInv

LEMMA PlainKeeps ==
  ASSUME IInv, NEW p \in Calls, Plain(p) PROVE IInv'
  <1>1. TypeOK'
    BY Parts, HaltedIs DEF Plain, TypeOK, Goroutines
  <1>2. Own(p)
    BY Parts, HaltedIs DEF Plain, Own
  <1>3. Boxed'
    <2>1. box'.cfg \in {box.cfg, 0} /\ box'.by \in {box.by, 0} /\ (box'.up => box' = box)
          /\ (box'.cfg = 0 => box.cfg = 0 \/ box'.by = 0)
      BY Parts, HaltedIs DEF Plain
    <2>2. QED
      BY Parts, <2>1 DEF Plain, Boxed, Exists
  <1>4. Known'
    <2>1. box'.up => box' = box
      BY Parts, HaltedIs DEF Plain
    <2>2. ASSUME NEW q \in Calls, q # p, Seen(q), box' = box PROVE Seen(q)'
      BY <2>2 DEF Plain, Others, Seen, In
    <2>3. QED
      BY Parts, <2>1, <2>2 DEF Plain, Known
  <1>5. Holds(p)'
    BY DEF Plain
  <1>6. QED
    BY <1>1, <1>2, <1>3, <1>4, <1>5, OwnKeeps

\* Where a goroutine may be whatever the container is
LEMMA NothingHeld ==
  ASSUME NEW p \in Calls, call'[p].pc \in {"idle", "save", "read", "look", "halt", "force", "erase"}
  PROVE  Holds(p)'
  BY DEF Holds, In, Builds, Building

LEMMA SaveKeeps ==
  ASSUME IInv, NEW p \in Calls, Save(p) \/ SaveFails(p) PROVE Plain(p)
  <1>1. CASE Save(p)
    <2>1. call[p].pc = "save" /\ Goto(p, "read") /\ UNCHANGED <<box, inst, mon, odd, phase>>
      BY <1>1 DEF Save
    <2>2. "read" \in Steps
      BY DEF Steps, Building
    <2>3. /\ call' \in [Calls -> Goroutines] /\ Others(p)
          /\ call'[p].pc = "read" /\ call'[p].met = call[p].met
      BY Parts, <2>1, <2>2, GotoIs
    <2>4. rows' \in [Configs -> Status] /\ \A c \in Configs : rows'[c] # "running"
      BY <1>1 DEF Save, Status
    <2>5. \A c \in Configs : ~Runs(c)'
      BY <2>4 DEF Runs
    <2>6. QED
      BY Parts, <2>1, <2>3, <2>4, <2>5, NothingHeld DEF Plain, Free, Builds, In, Building, Seen
  <1>2. CASE SaveFails(p)
    <2>1. call[p].pc = "save" /\ Leave(p) /\ UNCHANGED <<rows, box, inst, mon, odd, phase>>
      BY <1>2 DEF SaveFails
    <2>2. call' \in [Calls -> Goroutines] /\ Others(p) /\ call'[p].pc = "idle"
      BY Parts, <2>1, LeaveIs
    <2>3. QED
      BY Parts, <2>1, <2>2, NothingHeld, SameRuns DEF Plain, Free, Builds, In, Building, Seen
  <1>3. QED
    BY <1>1, <1>2

LEMMA ReadKeeps ==
  ASSUME IInv, NEW p \in Calls, Read(p) PROVE Plain(p)
  <1>0. call[p].pc = "read" /\ UNCHANGED <<box, inst, mon, phase>>
    BY DEF Read
  <1>1. ASSUME Leave(p), UNCHANGED <<rows, odd>> PROVE Plain(p)
    <2>1. call' \in [Calls -> Goroutines] /\ Others(p) /\ call'[p].pc = "idle"
      BY Parts, <1>1, LeaveIs
    <2>2. QED
      BY Parts, <1>0, <1>1, <2>1, NothingHeld, SameRuns DEF Plain, Free, Builds, In, Building, Seen
  <1>2. ASSUME NEW c \in Configs, NEW pc \in {"old", "adopt"}, GoWith(p, pc, c)
        PROVE  /\ call' \in [Calls -> Goroutines] /\ Others(p)
               /\ call'[p].pc = pc /\ call'[p].cfg = c /\ call'[p].met = call[p].met
    <2>1. pc \in Steps /\ c \in 0..MaxConfigs
      BY ProxyAssumption DEF Steps, Building, Configs
    <2>2. QED
      BY Parts, <1>2, <2>1, GoWithIs
  <1>3. ASSUME NEW c \in Configs, Newest(c), rows[c] # "running", GoWith(p, "old", c), UNCHANGED <<rows, odd>>
        PROVE  Plain(p)
    <2>1. \A d \in Configs : ~Runs(d)
      BY <1>3, ProxyAssumption DEF Runs, Newest, Live, Configs
    <2>2. \A d \in Configs : ~Runs(d)'
      BY <1>3, <2>1, SameRuns
    <2>3. QED
      BY Parts, <1>0, <1>2, <1>3, <2>1, <2>2 DEF Plain, Free, Builds, In, Building, Seen, Holds
  <1>4. ASSUME NEW c \in Configs, Newest(c), rows[c] = "running", Succeeds(box.up), GoWith(p, "adopt", c),
               UNCHANGED rows
        PROVE  Plain(p)
    <2>1. Runs(c) /\ box.up /\ UNCHANGED odd
      BY <1>4 DEF Runs, Succeeds
    <2>2. ~odd => c = box.cfg
      BY Parts, <2>1 DEF Boxed
    <2>3. /\ call' \in [Calls -> Goroutines] /\ Others(p)
          /\ call'[p].pc = "adopt" /\ call'[p].cfg = c /\ call'[p].met = call[p].met
      BY <1>2, <1>4
    <2>4. QED
      BY Parts, <1>0, <1>4, <2>1, <2>2, <2>3, SameRuns
      DEF Plain, Free, Builds, In, Building, Seen, Holds, Exists
  <1>5. ASSUME NEW c \in Configs, Newest(c), rows[c] = "running", Fails(box.up), GoWith(p, "old", c),
               Write(c, "stopped")
        PROVE  Plain(p)
    <2>1. rows' \in [Configs -> Status] /\ \A d \in Configs : Runs(d)' => Runs(d)
      BY Parts, <1>5, WriteRuns
    <2>2. \A d \in Configs : Runs(d)' => d = c
      BY <1>5, <2>1, OneRuns DEF Runs
    <2>3. /\ call' \in [Calls -> Goroutines] /\ Others(p)
          /\ call'[p].pc = "old" /\ call'[p].cfg = c /\ call'[p].met = call[p].met
      BY <1>2, <1>5
    <2>4. odd' \in BOOLEAN /\ (odd => odd')
      BY Parts, <1>5 DEF Fails
    <2>5. QED
      BY <1>0, <2>1, <2>2, <2>3, <2>4 DEF Plain, Free, Builds, In, Building, Seen, Holds
  <1>6. QED
    BY <1>1, <1>3, <1>4, <1>5 DEF Read

\* The old container, before the new one is made
LEMMA OldKeeps ==
  ASSUME IInv, NEW p \in Calls, Old(p) \/ OldStop(p) \/ OldRemove(p) PROVE Plain(p)
  <1> DEFINE olds == {"old", "oldStop", "oldRemove", "create"}
  <1>1. /\ In(p, olds) /\ UNCHANGED <<rows, inst, mon, phase>>
        /\ box' \in {box, Halted, NoBox}
        /\ odd' \in BOOLEAN /\ (odd => odd')
        /\ \E pc \in {"oldStop", "oldRemove", "create"} : Goto(p, pc)
    <2>1. Succeeds(Exists) \/ Fails(Exists)
      BY DEF Old, OldStop, OldRemove
    <2>2. odd' \in BOOLEAN /\ (odd => odd')
      BY Parts, <2>1, DockerIs
    <2>3. QED
      BY <2>2 DEF Old, OldStop, OldRemove, In
  <1>2. /\ call' \in [Calls -> Goroutines] /\ Others(p) /\ In(p, olds)'
        /\ call'[p].cfg = call[p].cfg /\ call'[p].met = call[p].met
    <2>1. PICK pc \in {"oldStop", "oldRemove", "create"} : Goto(p, pc)
      BY <1>1
    <2>2. pc \in Steps
      BY DEF Steps, Building
    <2>3. QED
      BY Parts, <2>1, <2>2, GotoIs DEF In
  <1>3. Builds(p) /\ ~Seen(p) /\ ~Free(p) /\ Builds(p)'
    BY <1>1, <1>2 DEF Builds, In, Building, Seen, Free
  <1>4. \A c \in Configs : Runs(c)' <=> Runs(c)
    BY <1>1, SameRuns
  <1>5. Holds(p)'
    BY Parts, <1>1, <1>2, <1>3, <1>4 DEF Holds, In, Builds, Building
  <1>6. QED
    BY Parts, <1>1, <1>2, <1>3, <1>4, <1>5 DEF Plain

\* Errors end a start.
LEMMA ErrorIs ==
  ASSUME IInv, NEW p \in Calls, Builds(p), ~In(p, {"save", "read"}), Error(p)
  PROVE  /\ call' \in [Calls -> Goroutines] /\ Others(p) /\ call'[p].pc = "idle"
         /\ rows' \in [Configs -> Status] /\ \A c \in Configs : Runs(c)' => Runs(c)
  <1>1. call[p].cfg \in Configs
    BY Parts DEF Holds
  <1>2. Leave(p) /\ Write(call[p].cfg, "error")
    BY DEF Error
  <1>3. QED
    BY Parts, <1>1, <1>2, LeaveIs, WriteRuns

\* The looks at the new container, and what follows when they fail
LEMMA LooksKeep ==
  ASSUME IInv, NEW p \in Calls, Ready(p) PROVE Plain(p)
  <1>1. call[p].pc = "ready" /\ UNCHANGED <<rows, box, inst, mon, odd, phase>>
        /\ \E pc \in {"badLogs", "know", "drop"} : Goto(p, pc)
    BY DEF Ready
  <1>2. PICK pc \in {"badLogs", "know", "drop"} : Goto(p, pc)
    BY <1>1
  <1>3. pc \in Steps
    BY DEF Steps, Building
  <1>4. /\ call' \in [Calls -> Goroutines] /\ Others(p) /\ call'[p].pc = pc
        /\ call'[p].cfg = call[p].cfg /\ call'[p].met = call[p].met
    BY Parts, <1>2, <1>3, GotoIs
  <1>5. Holds(p)'
    BY Parts, <1>1, <1>4 DEF Holds, In, Builds, Building, Exists
  <1>6. QED
    BY Parts, <1>1, <1>4, <1>5, SameRuns DEF Plain, Free, Builds, In, Building, Seen

LEMMA FailedKeeps ==
  ASSUME IInv, NEW p \in Calls, BadLogs(p) \/ Drop(p) \/ DropRemove(p) PROVE Plain(p)
  <1>1. /\ In(p, {"badLogs", "drop", "dropRemove"}) /\ UNCHANGED <<inst, mon, phase>>
        /\ box' \in {box, Halted, NoBox}
        /\ odd' \in BOOLEAN /\ (odd => odd')
    <2>1. Succeeds(Exists) \/ Fails(Exists)
      BY DEF BadLogs, Drop, DropRemove
    <2>2. odd' \in BOOLEAN /\ (odd => odd')
      BY Parts, <2>1, DockerIs
    <2>3. QED
      BY <2>2 DEF BadLogs, Drop, DropRemove, In
  <1>2. box'.up /\ ~odd' => ~Seen(p)
    BY Parts, HaltedIs DEF BadLogs, Drop, DropRemove, Succeeds, Fails, Seen, In, Boxed
  <1>3. Builds(p) /\ ~In(p, {"save", "read"}) /\ ~Free(p)
    BY <1>1 DEF Builds, In, Building, Free
  <1>4. /\ call' \in [Calls -> Goroutines] /\ Others(p) /\ call'[p].pc \in {"idle", "dropRemove"}
        /\ rows' \in [Configs -> Status] /\ \A c \in Configs : Runs(c)' => Runs(c)
        /\ Builds(p)' => call'[p].met = call[p].met /\ call'[p].cfg = call[p].cfg
    <2>1. ASSUME Error(p)
          PROVE  /\ call' \in [Calls -> Goroutines] /\ Others(p) /\ call'[p].pc = "idle"
                 /\ rows' \in [Configs -> Status] /\ \A c \in Configs : Runs(c)' => Runs(c)
      BY <1>3, <2>1, ErrorIs
    <2>2. ASSUME Goto(p, "dropRemove"), UNCHANGED rows
          PROVE  /\ call' \in [Calls -> Goroutines] /\ Others(p) /\ call'[p].pc = "dropRemove"
                 /\ call'[p].met = call[p].met /\ call'[p].cfg = call[p].cfg
                 /\ rows' \in [Configs -> Status] /\ \A c \in Configs : Runs(c)' => Runs(c)
      <3>1. "dropRemove" \in Steps
        BY DEF Steps, Building
      <3>2. QED
        BY Parts, <2>2, <3>1, GotoIs, SameRuns
    <2>3. Error(p) \/ (Goto(p, "dropRemove") /\ UNCHANGED rows)
      BY DEF BadLogs, Drop, DropRemove
    <2>4. QED
      BY <2>1, <2>2, <2>3 DEF Builds, In, Building
  <1>5. Holds(p)'
    BY Parts, <1>3, <1>4 DEF Holds, In, Builds, Building
  <1>6. QED
    BY <1>1, <1>2, <1>3, <1>4, <1>5 DEF Plain

\* Stops
LEMMA StopsKeep ==
  ASSUME IInv, NEW p \in Calls, Look(p) \/ Halt(p) \/ ForceRemove(p) \/ Remove(p) \/ Erase(p)
  PROVE  Plain(p)
  <1>1. /\ In(p, {"look", "halt", "force", "remove", "erase"}) /\ UNCHANGED <<inst, mon, phase>>
        /\ box' \in {box, Halted, NoBox}
        /\ odd' \in BOOLEAN /\ (odd => odd')
    <2>1. Succeeds(Exists) \/ Fails(Exists) \/ Succeeds(Exists /\ ~box.up) \/ Fails(Exists /\ ~box.up)
            \/ UNCHANGED odd
      BY DEF Look, Halt, ForceRemove, Remove, Erase
    <2>2. odd' \in BOOLEAN /\ (odd => odd')
      BY Parts, <2>1, DockerIs
    <2>3. QED
      BY <2>2 DEF Look, Halt, ForceRemove, Remove, Erase, In
  <1>2. rows' \in [Configs -> Status] /\ \A c \in Configs : Runs(c)' => Runs(c)
    <2>1. ASSUME rows' = [c \in Configs |-> IF rows[c] = "none" THEN "none" ELSE "deleted"]
          PROVE  rows' \in [Configs -> Status] /\ \A c \in Configs : ~Runs(c)'
      BY <2>1 DEF Runs, Status
    <2>2. ASSUME UNCHANGED rows
          PROVE  rows' \in [Configs -> Status] /\ \A c \in Configs : Runs(c)' => Runs(c)
      BY Parts, <2>2, SameRuns
    <2>3. QED
      BY <2>1, <2>2 DEF Look, Halt, ForceRemove, Remove, Erase
  <1>3. /\ call' \in [Calls -> Goroutines] /\ Others(p)
        /\ call'[p].pc \in {"idle", "look", "halt", "force", "remove", "forget", "erase"}
        /\ call'[p].pc \in {"remove", "forget"} => ~box'.up \/ odd'
    <2>1. ASSUME NEW pc \in Stopping, Goto(p, pc) \/ GoWith(p, pc, inst)
          PROVE  call' \in [Calls -> Goroutines] /\ Others(p) /\ call'[p].pc = pc
      <3>1. pc \in Steps /\ inst \in 0..MaxConfigs
        BY Parts DEF Steps
      <3>2. QED
        BY Parts, <2>1, <3>1, GotoIs, GoWithIs
    <2>2. ASSUME Stopped(p)
          PROVE  call' \in [Calls -> Goroutines] /\ Others(p) /\ call'[p].pc \in {"look", "erase", "idle"}
      BY Parts, <2>2, StoppedIs
    <2>3. ASSUME Leave(p) PROVE call' \in [Calls -> Goroutines] /\ Others(p) /\ call'[p].pc = "idle"
      BY Parts, <2>3, LeaveIs
    <2>4. CASE Look(p)
      BY <2>1, <2>2, <2>4 DEF Look, Stopping
    <2>5. CASE Halt(p)
      BY Parts, HaltedIs, <2>1, <2>5 DEF Halt, Stopping
    <2>6. CASE ForceRemove(p)
      BY Parts, HaltedIs, <2>1, <2>2, <2>6 DEF ForceRemove, Stopping
    <2>7. CASE Remove(p)
      <3>1. In(p, {"remove"}) /\ (box.up => odd)
        BY Parts, <2>7 DEF Remove, Holds, In
      <3>2. Goto(p, "forget") /\ (box' = NoBox \/ box' = box)
        BY <2>7 DEF Remove
      <3>3. box'.up => odd'
        BY Parts, HaltedIs, <1>1, <3>1, <3>2
      <3>4. QED
        BY <2>1, <3>2, <3>3 DEF Stopping
    <2>8. CASE Erase(p)
      BY <2>3, <2>8 DEF Erase
    <2>9. QED
      BY <2>4, <2>5, <2>6, <2>7, <2>8
  <1>4. ~Free(p) /\ ~Seen(p) /\ ~Builds(p)'
    BY <1>1, <1>3 DEF Free, Seen, Builds, In, Building
  <1>5. Holds(p)'
    BY <1>3, <1>4 DEF Holds, In
  <1>6. QED
    BY <1>1, <1>2, <1>3, <1>4, <1>5 DEF Plain

-----------------------------------------------------------------------------
(* Steps that make, start, know, publish and forget a container *)

\* What is left to show for a step that changes more
Rest(p) == TypeOK' /\ Own(p) /\ Holds(p)' /\ Boxed' /\ Known'

LEMMA RestKeeps ==
  ASSUME IInv, NEW p \in Calls, Rest(p) PROVE IInv'
  BY OwnKeeps DEF Rest

LEMMA CreateKeeps ==
  ASSUME IInv, NEW p \in Calls, Create(p) PROVE IInv'
  <1>1. call[p].pc = "create" /\ Builds(p) /\ ~In(p, {"save", "read"}) /\ ~Free(p)
        /\ UNCHANGED <<inst, mon, phase>>
    BY DEF Create, Builds, In, Building, Free
  <1>2. CASE /\ ~Exists
             /\ box' = [cfg |-> call[p].cfg, up |-> FALSE, by |-> p]
             /\ odd' = call[p].met
             /\ Goto(p, "run")
             /\ UNCHANGED rows
    <2>1. "run" \in Steps
      BY DEF Steps, Building
    <2>2. /\ call' \in [Calls -> Goroutines] /\ Others(p)
          /\ call'[p].pc = "run" /\ call'[p].cfg = call[p].cfg /\ call'[p].met = call[p].met
      BY Parts, <1>2, <2>1, GotoIs
    <2>3. call[p].cfg \in Configs /\ call[p].met \in BOOLEAN
      BY Parts, <1>1 DEF Holds, Goroutines
    <2>4. /\ box'.cfg = call[p].cfg /\ box'.by = p /\ ~box'.up /\ box'.cfg # 0
          /\ box' \in [cfg : 0..MaxConfigs, up : BOOLEAN, by : Calls \union {0}]
      BY <1>2, <2>3, ProxyAssumption DEF Configs
    <2>5. TypeOK'
      BY Parts, <1>1, <1>2, <2>2, <2>3, <2>4 DEF TypeOK, Goroutines
    <2>6. Own(p)
      BY <1>1, <1>2, <2>2, <2>4 DEF Own
    <2>7. Holds(p)'
      BY <2>2, <2>3, <2>4 DEF Holds, In, Builds
    <2>8. Boxed'
      <3>1. ~call[p].met => \A c \in Configs : Runs(c) => c = call[p].cfg
        BY Parts, <1>1 DEF Holds, In
      <3>2. QED
        BY <1>2, <2>4, <3>1, SameRuns DEF Boxed, Exists
    <2>9. Known'
      BY <2>4 DEF Known
    <2>10. QED
      BY <2>5, <2>6, <2>7, <2>8, <2>9, RestKeeps DEF Rest
  <1>3. CASE Fails(~Exists) /\ Error(p) /\ UNCHANGED box
    <2>1. odd' \in BOOLEAN /\ (odd => odd')
      BY Parts, <1>3, DockerIs
    <2>2. /\ call' \in [Calls -> Goroutines] /\ Others(p) /\ call'[p].pc = "idle"
          /\ rows' \in [Configs -> Status] /\ \A c \in Configs : Runs(c)' => Runs(c)
      BY <1>1, <1>3, ErrorIs
    <2>3. Plain(p)
      BY <1>1, <1>3, <2>1, <2>2, NothingHeld DEF Plain, Builds, In, Building, Seen
    <2>4. QED
      BY <2>3, PlainKeeps
  <1>4. QED
    BY <1>2, <1>3 DEF Create

LEMMA RunKeeps ==
  ASSUME IInv, NEW p \in Calls, Run(p) PROVE IInv'
  <1>1. call[p].pc = "run" /\ Builds(p) /\ ~In(p, {"save", "read"}) /\ ~Free(p)
        /\ UNCHANGED <<inst, mon, phase>>
    BY DEF Run, Builds, In, Building, Free
  <1>2. CASE /\ Succeeds(box.by = p)
             /\ box' = [box EXCEPT !.up = TRUE, !.by = 0]
             /\ Goto(p, "ready")
             /\ UNCHANGED rows
    <2>1. "ready" \in Steps
      BY DEF Steps, Building
    <2>2. /\ call' \in [Calls -> Goroutines] /\ Others(p)
          /\ call'[p].pc = "ready" /\ call'[p].cfg = call[p].cfg /\ call'[p].met = call[p].met
      BY Parts, <1>2, <2>1, GotoIs
    <2>3. /\ box'.cfg = box.cfg /\ box'.by = 0 /\ box'.up
          /\ box' \in [cfg : 0..MaxConfigs, up : BOOLEAN, by : Calls \union {0}]
      BY Parts, <1>2
    <2>4. box.by = p /\ UNCHANGED odd
      BY <1>2 DEF Succeeds
    <2>5. box.cfg = call[p].cfg /\ call[p].cfg \in Configs /\ Exists
      BY Parts, <1>1, <2>4, ProxyAssumption DEF Holds, In, Exists, Configs
    <2>6. TypeOK'
      BY Parts, <1>1, <1>2, <2>2, <2>3, <2>4 DEF TypeOK, Goroutines
    <2>7. Own(p)
      BY <1>1, <2>2, <2>3, <2>4 DEF Own
    <2>8. Holds(p)'
      BY <2>2, <2>3, <2>5 DEF Holds, In, Builds
    <2>9. Boxed'
      BY Parts, <1>2, <2>3, <2>4, <2>5, SameRuns DEF Boxed, Exists
    <2>10. Known'
      <3>1. Seen(p)'
        BY <2>2, <2>3, <2>5 DEF Seen, In
      <3>2. QED
        BY <3>1 DEF Known
    <2>11. QED
      BY <2>6, <2>7, <2>8, <2>9, <2>10, RestKeeps DEF Rest
  <1>3. CASE Fails(box.by = p) /\ Error(p) /\ UNCHANGED box
    <2>1. odd' \in BOOLEAN /\ (odd => odd')
      BY Parts, <1>3, DockerIs
    <2>2. /\ call' \in [Calls -> Goroutines] /\ Others(p) /\ call'[p].pc = "idle"
          /\ rows' \in [Configs -> Status] /\ \A c \in Configs : Runs(c)' => Runs(c)
      BY <1>1, <1>3, ErrorIs
    <2>3. Plain(p)
      BY <1>1, <1>3, <2>1, <2>2, NothingHeld DEF Plain, Builds, In, Building, Seen
    <2>4. QED
      BY <2>3, PlainKeeps
  <1>4. QED
    BY <1>2, <1>3 DEF Run

\* The map gets the configuration of the container.
LEMMA KnowKeeps ==
  ASSUME IInv, NEW p \in Calls, Adopt(p) \/ Know(p) PROVE IInv'
  <1>1. /\ In(p, {"adopt", "know"}) /\ inst' = call[p].cfg /\ UNCHANGED <<rows, box, mon, odd, phase>>
        /\ Leave(p) \/ Goto(p, "publish")
    BY DEF Adopt, Know, In
  <1>2. Builds(p) /\ ~In(p, {"save", "read"}) /\ ~Free(p)
    BY <1>1 DEF Builds, In, Building, Free
  <1>3. call[p].cfg \in Configs /\ (Exists /\ ~odd => call[p].cfg = box.cfg)
    BY Parts, <1>1, <1>2 DEF Holds, In
  <1>4. /\ call' \in [Calls -> Goroutines] /\ Others(p) /\ call'[p].pc \in {"idle", "publish"}
        /\ call'[p].pc = "publish" => call'[p].met = call[p].met /\ call'[p].cfg = call[p].cfg
    <2>1. "publish" \in Steps
      BY DEF Steps, Building
    <2>2. QED
      BY Parts, <1>1, <2>1, GotoIs, LeaveIs
  <1>5. TypeOK'
    <2>1. inst' \in 0..MaxConfigs
      BY <1>1, <1>3, ProxyAssumption DEF Configs
    <2>2. QED
      BY Parts, <1>1, <1>4, <2>1 DEF TypeOK, Goroutines
  <1>6. Own(p)
    BY <1>1, <1>2, <1>4 DEF Own, Builds, In, Building
  <1>7. Holds(p)'
    BY <1>1, <1>3, <1>4 DEF Holds, In, Builds, Building, Exists
  <1>8. Boxed'
    BY Parts, <1>1, SameRuns DEF Boxed, Exists
  <1>9. Known'
    BY Parts, <1>1, <1>3 DEF Known, Boxed
  <1>10. QED
    BY <1>5, <1>6, <1>7, <1>8, <1>9, RestKeeps DEF Rest

\* The row of the container, or of none the service knows, says "running".
LEMMA PublishKeeps ==
  ASSUME IInv, NEW p \in Calls, Publish(p) PROVE IInv'
  <1>1. /\ call[p].pc = "publish" /\ UNCHANGED <<box, inst, odd, phase>>
        /\ Leave(p) /\ Write(call[p].cfg, "running")
        /\ \E m \in Monitors : mon' = [mon EXCEPT ![m] = [pc |-> "watch", req |-> phase = "up", alive |-> TRUE]]
    BY DEF Publish
  <1>2. Builds(p) /\ ~In(p, {"save", "read"}) /\ ~Free(p) /\ ~Seen(p)
    BY <1>1 DEF Builds, In, Building, Free, Seen
  <1>3. call[p].cfg \in Configs /\ (Exists /\ ~odd => call[p].cfg = box.cfg)
    BY Parts, <1>1, <1>2 DEF Holds, In
  <1>4. call' \in [Calls -> Goroutines] /\ Others(p) /\ call'[p].pc = "idle"
    BY Parts, <1>1, LeaveIs
  <1>5. rows' \in [Configs -> Status] /\ \A c \in Configs : Runs(c)' => Runs(c) \/ c = call[p].cfg
    BY Parts, <1>1, <1>3, PublishRuns
  <1>6. Own(p)
    BY <1>1, <1>2, <1>4 DEF Own, Builds, In, Building
  <1>7. Holds(p)'
    BY <1>4, NothingHeld
  <1>8. Boxed'
    BY Parts, <1>1, <1>3, <1>5 DEF Boxed, Exists
  <1>9. Known'
    <2>1. \A q \in Calls : Seen(q) => Seen(q)'
      BY <1>1, <1>2, <1>4 DEF Seen, In, Others
    <2>2. QED
      BY Parts, <1>1, <2>1 DEF Known
  <1>10. TypeOK'
    <2>1. mon' \in [Monitors -> [pc : {"off", "watch", "restart", "lose", "gone"}, req : BOOLEAN,
                                 alive : BOOLEAN]]
      BY <1>1 DEF IInv, TypeOK
    <2>2. QED
      BY Parts, <1>1, <1>4, <1>5, <2>1 DEF TypeOK, Goroutines
  <1>11. QED
    BY <1>6, <1>7, <1>8, <1>9, <1>10, RestKeeps DEF Rest

LEMMA ForgetKeeps ==
  ASSUME IInv, NEW p \in Calls, Forget(p) PROVE IInv'
  <1>1. /\ call[p].pc = "forget" /\ UNCHANGED <<box, mon, odd, phase>>
        /\ inst' = 0 /\ Stopped(p)
    BY DEF Forget
  <1>2. ~Free(p) /\ (box.up => odd)
    BY Parts, <1>1 DEF Free, Holds, In
  <1>3. call' \in [Calls -> Goroutines] /\ Others(p) /\ call'[p].pc \in {"look", "erase", "idle"}
    BY Parts, <1>1, StoppedIs
  <1>4. rows' \in [Configs -> Status] /\ \A c \in Configs : Runs(c)' => Runs(c)
    <2>1. CASE rows' = rows
      BY Parts, <2>1, SameRuns
    <2>2. CASE call[p].cfg \in Configs
      BY Parts, <2>2, WriteRuns DEF Forget
    <2>3. CASE call[p].cfg \notin Configs
      <3>1. rows' \in {rows, [rows EXCEPT ![call[p].cfg] = "stopped"]}
        BY DEF Forget, Write
      <3>2. rows' = rows
        BY Parts, <2>3, <3>1
      <3>3. QED
        BY Parts, <3>2, SameRuns
    <2>4. QED
      BY <2>1, <2>2, <2>3
  <1>5. Own(p)
    BY <1>1, <1>2, <1>3 DEF Own, Builds, In, Building
  <1>6. Holds(p)'
    BY <1>3, NothingHeld
  <1>7. Boxed'
    BY Parts, <1>1, <1>4 DEF Boxed, Exists
  <1>8. Known'
    BY <1>1, <1>2 DEF Known
  <1>9. TypeOK'
    BY Parts, <1>1, <1>3, <1>4, ProxyAssumption DEF TypeOK, Goroutines
  <1>10. QED
    BY <1>5, <1>6, <1>7, <1>8, <1>9, RestKeeps DEF Rest

-----------------------------------------------------------------------------
(* Monitors and the surroundings *)

LEMMA MonitorTyped ==
  ASSUME IInv, NEW m \in Monitors, Monitor(m) \/ RequestEnds(m)
  PROVE  mon' \in [Monitors -> [pc : {"off", "watch", "restart", "lose", "gone"}, req : BOOLEAN,
                                alive : BOOLEAN]]
  <1>1. mon \in [Monitors -> [pc : {"off", "watch", "restart", "lose", "gone"}, req : BOOLEAN,
                              alive : BOOLEAN]]
    BY DEF IInv, TypeOK
  <1>2. \/ \E pc \in {"restart", "watch", "lose", "gone"} : mon' = [mon EXCEPT ![m].pc = pc]
        \/ mon' = [mon EXCEPT ![m].alive = FALSE]
        \/ mon' = [mon EXCEPT ![m] = Off]
        \/ mon' = mon
    BY DEF Monitor, Inspect, Restart, GiveUp, Gone, Done, Lose, RequestEnds
  <1>3. ASSUME NEW pc \in {"restart", "watch", "lose", "gone"}
        PROVE  [mon[m] EXCEPT !.pc = pc] \in [pc : {"off", "watch", "restart", "lose", "gone"},
                                              req : BOOLEAN, alive : BOOLEAN]
    BY <1>1
  <1>4. [mon[m] EXCEPT !.alive = FALSE] \in [pc : {"off", "watch", "restart", "lose", "gone"},
                                              req : BOOLEAN, alive : BOOLEAN]
    BY <1>1
  <1>5. CASE \E pc \in {"restart", "watch", "lose", "gone"} : mon' = [mon EXCEPT ![m].pc = pc]
    BY <1>1, <1>3, <1>5
  <1>6. CASE mon' = [mon EXCEPT ![m].alive = FALSE]
    BY <1>1, <1>4, <1>6
  <1>7. CASE mon' = [mon EXCEPT ![m] = Off]
    <2>1. Off \in [pc : {"off", "watch", "restart", "lose", "gone"}, req : BOOLEAN, alive : BOOLEAN]
      BY DEF Off
    <2>2. QED
      BY <1>1, <1>7, <2>1
  <1>8. QED
    BY <1>1, <1>2, <1>5, <1>6, <1>7

\* Steps of nobody in the service that neither start nor know a container
LEMMA AroundKeeps ==
  ASSUME IInv, UNCHANGED <<call, phase>>, TypeOK', odd => odd',
         box' = box \/ box' = Halted, \A c \in Configs : Runs(c)' => Runs(c),
         inst' = inst \/ (box.up => odd')
  PROVE  IInv'
  <1>1. box'.cfg = box.cfg /\ box'.by = box.by /\ (box'.up => box.up)
    BY Parts, HaltedIs
  <1>2. Overlaps'
    BY Parts DEF Overlaps, Builds, In, Free, Quiet
  <1>3. ASSUME NEW p \in Calls PROVE Holds(p)'
    BY Parts, <1>1 DEF Holds, Builds, In, Exists
  <1>4. Boxed'
    BY Parts, <1>1 DEF Boxed, Exists
  <1>5. Known'
    <2>1. \A p \in Calls : Seen(p) => Seen(p)'
      BY <1>1 DEF Seen, In
    <2>2. QED
      BY Parts, <1>1, <2>1 DEF Known
  <1>6. QED
    BY <1>2, <1>3, <1>4, <1>5 DEF IInv

\* A container that a monitor restarts is known, and nobody is in the service.
LEMMA RestartKeeps ==
  ASSUME IInv, NEW m \in Monitors, Restart(m), Exists, box' = [box EXCEPT !.up = TRUE],
         odd' = (odd \/ ~Quiet \/ inst # box.cfg)
  PROVE  IInv'
  <1>1. UNCHANGED <<rows, inst, call, phase>>
    BY DEF Restart
  <1>2. /\ box'.cfg = box.cfg /\ box'.by = box.by
        /\ box' \in [cfg : 0..MaxConfigs, up : BOOLEAN, by : Calls \union {0}]
    BY Parts
  <1>3. TypeOK'
    <2>1. mon' \in [Monitors -> [pc : {"off", "watch", "restart", "lose", "gone"}, req : BOOLEAN,
                                 alive : BOOLEAN]]
      BY MonitorTyped DEF Monitor
    <2>2. odd' \in BOOLEAN
      OBVIOUS
    <2>3. QED
      BY Parts, <1>1, <1>2, <2>1, <2>2 DEF TypeOK
  <1>4. Overlaps'
    BY Parts, <1>1 DEF Overlaps, Builds, In, Free, Quiet
  <1>5. ASSUME NEW p \in Calls PROVE Holds(p)'
    <2>1. In(p, {"remove", "forget"}) => odd'
      BY DEF In, Quiet, Free
    <2>2. QED
      BY Parts, <1>1, <1>2, <2>1, SameRuns DEF Holds, Builds, In, Exists
  <1>6. Boxed'
    BY Parts, <1>1, <1>2, SameRuns DEF Boxed, Exists
  <1>7. Known'
    BY <1>1, <1>2 DEF Known
  <1>8. QED
    BY <1>3, <1>4, <1>5, <1>6, <1>7 DEF IInv

LEMMA MonitorKeeps ==
  ASSUME IInv, NEW m \in Monitors, Monitor(m) \/ RequestEnds(m) PROVE IInv'
  <1>0. mon' \in [Monitors -> [pc : {"off", "watch", "restart", "lose", "gone"}, req : BOOLEAN,
                               alive : BOOLEAN]]
    BY MonitorTyped
  <1>1. ASSUME Inspect(m) \/ Done(m) \/ RequestEnds(m) PROVE IInv'
    <2>1. UNCHANGED <<rows, box, inst, call, odd, phase>>
      BY <1>1 DEF Inspect, Done, RequestEnds
    <2>2. TypeOK'
      BY Parts, <1>0, <2>1 DEF TypeOK
    <2>3. QED
      BY <2>1, <2>2, SameRuns, AroundKeeps
  <1>2. CASE Restart(m)
    <2>1. CASE /\ Exists /\ box' = [box EXCEPT !.up = TRUE]
               /\ odd' = (odd \/ ~Quiet \/ inst # box.cfg)
      BY <1>2, <2>1, RestartKeeps
    <2>2. CASE UNCHANGED <<box, odd>>
      <3>1. UNCHANGED <<rows, box, inst, call, odd, phase>>
        BY <1>2, <2>2 DEF Restart
      <3>2. TypeOK'
        BY Parts, <1>0, <3>1 DEF TypeOK
      <3>3. QED
        BY <3>1, <3>2, SameRuns, AroundKeeps
    <2>3. QED
      BY <1>2, <2>1, <2>2 DEF Restart
  <1>3. CASE GiveUp(m)
    <2>1. inst' = 0 /\ odd' = (odd \/ Exists) /\ UNCHANGED <<rows, box, call, phase>>
      BY <1>3 DEF GiveUp
    <2>2. odd' \in BOOLEAN
      BY <2>1
    <2>3. TypeOK'
      BY Parts, <1>0, <2>1, <2>2, ProxyAssumption DEF TypeOK
    <2>4. box.up => odd'
      BY Parts, <2>1 DEF Boxed
    <2>5. QED
      BY <2>1, <2>3, <2>4, SameRuns, AroundKeeps
  <1>4. CASE Gone(m)
    <2>1. UNCHANGED <<box, inst, call, odd, phase>>
      BY <1>4 DEF Gone
    <2>2. rows' \in [Configs -> Status] /\ \A c \in Configs : Runs(c)' => Runs(c)
      <3>1. CASE UNCHANGED rows
        BY Parts, <3>1, SameRuns
      <3>2. ASSUME inst # 0, NEW status \in {"stopped", "error"}, rows' = [rows EXCEPT ![inst] = status]
            PROVE  rows' \in [Configs -> Status] /\ \A c \in Configs : Runs(c)' => Runs(c)
        <4>1. inst \in Configs
          BY Parts, <3>2, ProxyAssumption DEF Configs
        <4>2. QED
          BY Parts, <3>2, <4>1, WriteRuns DEF Write
      <3>3. QED
        BY <1>4, <3>1, <3>2 DEF Gone
    <2>3. TypeOK'
      BY Parts, <1>0, <2>1, <2>2 DEF TypeOK
    <2>4. QED
      BY <2>1, <2>2, <2>3, AroundKeeps
  <1>5. QED
    BY <1>1, <1>2, <1>3, <1>4 DEF Monitor

LEMMA DiesKeeps ==
  ASSUME IInv, Dies PROVE IInv'
  <1>1. box' = Halted /\ UNCHANGED <<rows, inst, call, mon, odd, phase>>
    BY DEF Dies
  <1>2. TypeOK'
    BY Parts, <1>1, HaltedIs DEF TypeOK
  <1>3. QED
    BY <1>1, <1>2, SameRuns, AroundKeeps

LEMMA BootStartKeeps ==
  ASSUME IInv, NEW p \in Calls, BootStart(p) PROVE IInv'
  <1>1. /\ phase = "boot" /\ phase' = "starting"
        /\ call' = [call EXCEPT ![p] = [Idle EXCEPT !.pc = "read"]]
        /\ UNCHANGED <<rows, box, inst, mon, odd>>
    BY DEF BootStart
  <1>2. [Idle EXCEPT !.pc = "read"] \in Goroutines /\ [Idle EXCEPT !.pc = "read"].pc = "read"
        /\ ~[Idle EXCEPT !.pc = "read"].met
    <2>1. 0 \in 0..MaxConfigs /\ "read" \in Steps
      BY ProxyAssumption DEF Steps, Building
    <2>2. QED
      BY <2>1 DEF Idle, Goroutines
  <1>3. call' \in [Calls -> Goroutines] /\ call'[p].pc = "read" /\ ~call'[p].met /\ Others(p)
    BY Parts, <1>1, <1>2 DEF Others
  <1>4. \A q \in Calls : Free(q) /\ (q # p => Free(q)')
    BY Parts, <1>1, <1>3 DEF Overlaps, Quiet, Free, Others
  <1>5. TypeOK'
    BY Parts, <1>1, <1>3 DEF TypeOK, Goroutines
  <1>6. Overlaps'
    BY <1>1, <1>3, <1>4 DEF Overlaps, Builds, In, Building, Free
  <1>7. ASSUME NEW q \in Calls PROVE Holds(q)'
    <2>1. call'[q].pc \in {"idle", "read"}
      BY <1>3, <1>4 DEF Free
    <2>2. QED
      BY <2>1, NothingHeld
  <1>8. Boxed'
    BY Parts, <1>1, SameRuns DEF Boxed, Exists
  <1>9. Known'
    <2>1. \A q \in Calls : ~Seen(q)
      BY <1>4 DEF Seen, In, Free
    <2>2. QED
      BY Parts, <1>1, <2>1 DEF Known
  <1>10. QED
    BY <1>5, <1>6, <1>7, <1>8, <1>9 DEF IInv

LEMMA BootDoneKeeps ==
  ASSUME IInv, BootDone PROVE IInv'
  <1>1. phase' = "up" /\ odd' = (odd \/ (Exists /\ inst = 0)) /\ UNCHANGED <<rows, box, inst, call, mon>>
    BY DEF BootDone
  <1>2. odd' \in BOOLEAN
    BY <1>1
  <1>3. TypeOK'
    BY Parts, <1>1, <1>2 DEF TypeOK
  <1>4. Overlaps'
    BY Parts, <1>1 DEF Overlaps, Builds, In, Free
  <1>5. ASSUME NEW p \in Calls PROVE Holds(p)'
    BY Parts, <1>1, SameRuns DEF Holds, Builds, In, Exists
  <1>6. Boxed'
    BY Parts, <1>1, SameRuns DEF Boxed, Exists
  <1>7. Known'
    <2>1. \A p \in Calls : Seen(p) => Seen(p)'
      BY <1>1 DEF Seen, In
    <2>2. QED
      BY Parts, <1>1, <2>1 DEF Known, Boxed
  <1>8. QED
    BY <1>3, <1>4, <1>5, <1>6, <1>7 DEF IInv

LEMMA CrashKeeps ==
  ASSUME IInv, Crash PROVE IInv'
  <1>1. /\ inst' = 0 /\ phase' = "boot" /\ UNCHANGED <<rows, box, odd>>
        /\ call' = [p \in Calls |-> Idle] /\ mon' = [m \in Monitors |-> Off]
    BY DEF Crash
  <1>2. Idle \in Goroutines /\ Idle.pc = "idle"
    BY ProxyAssumption DEF Idle, Goroutines, Steps
  <1>3. call' \in [Calls -> Goroutines] /\ \A p \in Calls : call'[p].pc = "idle"
    BY <1>1, <1>2
  <1>4. TypeOK'
    BY Parts, <1>1, <1>3, ProxyAssumption DEF TypeOK, Goroutines, Off
  <1>5. Overlaps'
    BY <1>3 DEF Overlaps, Builds, In, Building, Free, Quiet
  <1>6. \A p \in Calls : Holds(p)'
    BY <1>3, NothingHeld
  <1>7. Boxed'
    BY Parts, <1>1, SameRuns DEF Boxed, Exists
  <1>8. Known'
    BY <1>1 DEF Known
  <1>9. QED
    BY <1>4, <1>5, <1>6, <1>7, <1>8 DEF IInv

-----------------------------------------------------------------------------
(* The invariant *)

LEMMA InitEstablishes == Init => IInv
  <1> SUFFICES ASSUME Init PROVE IInv
    OBVIOUS
  <1>1. Idle \in Goroutines /\ \A p \in Calls : call[p].pc = "idle"
    BY ProxyAssumption DEF Init, Idle, Goroutines, Steps
  <1>2. TypeOK
    <2>1. call \in [Calls -> Goroutines] /\ 0 \in 0..MaxConfigs
      BY <1>1, ProxyAssumption DEF Init
    <2>2. QED
      BY <2>1 DEF Init, TypeOK, Goroutines, Status, NoBox, Off
  <1>3. Overlaps /\ \A p \in Calls : Holds(p)
    BY <1>1 DEF Overlaps, Holds, Builds, In, Building, Free, Quiet
  <1>4. Boxed /\ Known
    BY DEF Init, NoBox, Boxed, Known, Exists
  <1>5. QED
    BY <1>2, <1>3, <1>4 DEF IInv

LEMMA NextKeeps ==
  ASSUME IInv, [Next]_vars PROVE IInv'
  <1>1. ASSUME NEW p \in Calls, Starts(p) PROVE IInv'
    <2>1. CASE Entering(p)
      BY <2>1, EnteringKeeps
    <2>2. CASE \/ Save(p) \/ SaveFails(p) \/ Read(p) \/ Old(p) \/ OldStop(p) \/ OldRemove(p)
               \/ Ready(p) \/ BadLogs(p) \/ Drop(p) \/ DropRemove(p)
      BY <2>2, PlainKeeps, SaveKeeps, ReadKeeps, OldKeeps, LooksKeep, FailedKeeps
    <2>3. CASE Create(p) \/ Run(p) \/ Adopt(p) \/ Know(p) \/ Publish(p)
      BY <2>3, CreateKeeps, RunKeeps, KnowKeeps, PublishKeeps
    <2>4. QED
      BY <1>1, <2>1, <2>2, <2>3 DEF Starts, Entering
  <1>2. ASSUME NEW p \in Calls, Stops(p) PROVE IInv'
    <2>1. CASE Entering(p)
      BY <2>1, EnteringKeeps
    <2>2. CASE Look(p) \/ Halt(p) \/ ForceRemove(p) \/ Remove(p) \/ Erase(p)
      BY <2>2, PlainKeeps, StopsKeep
    <2>3. CASE Forget(p)
      BY <2>3, ForgetKeeps
    <2>4. QED
      BY <1>2, <2>1, <2>2, <2>3 DEF Stops, Entering
  <1>3. CASE Around
    BY <1>3, BootStartKeeps, MonitorKeeps, DiesKeeps, BootDoneKeeps, CrashKeeps DEF Around
  <1>4. CASE UNCHANGED vars
    <2>1. UNCHANGED <<rows, box, inst, call, mon, phase, odd>>
      BY <1>4 DEF vars
    <2>2. TypeOK'
      BY Parts, <2>1 DEF TypeOK
    <2>3. QED
      BY <2>1, <2>2, SameRuns, AroundKeeps
  <1>5. QED
    BY <1>1, <1>2, <1>3, <1>4, MonitorKeeps DEF Next

LEMMA Invariance == Spec => []IInv
  <1>1. IInv /\ [Next]_vars => IInv'
    BY NextKeeps
  <1>2. QED
    BY <1>1, InitEstablishes, PTL DEF Spec

-----------------------------------------------------------------------------
(* What follows *)

\* Rows, container, instance, goroutines and monitors keep their types.
THEOREM TypeCorrect == Spec => []TypeOK
  <1>1. IInv => TypeOK
    BY DEF IInv
  <1>2. QED
    BY <1>1, Invariance, PTL

\* However starts, stops, monitors and new processes overlap, a container that
\* runs while nobody is in the service is the one the service knows, unless
\* something happened after which the code does not promise that.
THEOREM RunningKnown == Spec => []RunningIsKnown
  <1>1. IInv => RunningIsKnown
    BY DEF IInv, Known, RunningIsKnown, Seen, In, Quiet, Free
  <1>2. QED
    BY <1>1, Invariance, PTL
=============================================================================
