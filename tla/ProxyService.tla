---------------------------- MODULE ProxyService ----------------------------
(***************************************************************************)
(* The proxy container of one user: internal/proxy/service/service.go with *)
(* the configuration rows of internal/proxy/repository/postgres.go and the *)
(* calls that start, stop and check it.  Users share nothing but the mutex *)
(* and the metrics, so one user is enough.                                 *)
(*                                                                         *)
(* Every call to Docker and to the database is a step of its own: the      *)
(* service holds its mutex only while it touches the map of instances.     *)
(* The container has one name, so calls that name it meet whichever        *)
(* container has the name by then; only ContainerStart of a start uses the *)
(* id the creation returned.                                               *)
(*                                                                         *)
(* odd is a history variable: one of the events after which the code does  *)
(* not promise to know the container has happened since it was created.    *)
(***************************************************************************)
EXTENDS Naturals, FiniteSets

CONSTANTS
  Calls,     \* goroutines that are in the service at one time
  Starters,  \* those of them that may start a container
  Monitors,  \* monitorContainer goroutines alive at one time
  MaxConfigs \* rows of proxy_configs

ASSUME ProxyAssumption == Calls \subseteq Nat \ {0} /\ Starters \subseteq Calls /\ MaxConfigs \in Nat

VARIABLES
  rows,       \* proxy_configs.status by row id; "none" before the insert
  box,        \* the container that has the user's name
  inst,       \* s.instances[user]: the configuration it was stored with, or 0
  call,       \* the goroutines that are in the service
  mon,        \* the monitor goroutines
  phase,      \* of the process: "boot", "starting" while initProxyContainers waits, "up"
  odd         \* history: the container may be unknown to the service

vars == <<rows, box, inst, call, mon, phase, odd>>

Configs  == 1..MaxConfigs
Status   == {"none", "stopped", "running", "error", "deleted"}
Building == {"save", "read", "adopt", "old", "oldStop", "oldRemove", "create", "run", "ready",
             "badLogs", "drop", "dropRemove", "know", "publish"}
Stopping == {"look", "halt", "force", "remove", "forget"}
Steps    == Building \union Stopping \union {"idle", "erase"}

\* cfg: the row read; after: what follows a stop; met: overlaps with a start
Idle  == [pc |-> "idle", cfg |-> 0, after |-> "idle", met |-> FALSE]
NoBox == [cfg |-> 0, up |-> FALSE, by |-> 0]
Off   == [pc |-> "off", req |-> FALSE, alive |-> FALSE]

Init ==
  /\ rows = [c \in Configs |-> "none"]
  /\ box = NoBox
  /\ inst = 0
  /\ call = [p \in Calls |-> Idle]
  /\ mon = [m \in Monitors |-> Off]
  /\ phase = "boot"
  /\ odd = FALSE

Exists   == box.cfg # 0
Free(p)  == call[p].pc = "idle"
Quiet    == \A p \in Calls : Free(p)

\* A call to Docker succeeds only when the daemon can do it; it may fail for a
\* reason of its own, or because the context of the request is over.
Succeeds(can) == can /\ UNCHANGED odd
Fails(can)    == odd' = (odd \/ can)

Goto(p, pc)      == call' = [call EXCEPT ![p].pc = pc]
GoWith(p, pc, c) == call' = [call EXCEPT ![p] = [@ EXCEPT !.pc = pc, !.cfg = c]]
Leave(p)         == call' = [call EXCEPT ![p] = Idle]

\* An update of the status of a row; its error is logged or ignored.
Write(c, status) == rows' \in {rows, [rows EXCEPT ![c] = status]}

\* GetProxyConfig: the newest row that is not deleted
Live      == {c \in Configs : rows[c] \notin {"none", "deleted"}}
Newest(c) == c \in Live /\ \A d \in Live : d <= c

\* GetProxyAddressForUser: an instance whose container runs
HasAddress == inst # 0 /\ box.up

-----------------------------------------------------------------------------
(* The calls that enter the service *)

\* A start that overlaps another call is remembered in both.
Meets(p, q, pc) == q # p /\ ~Free(q) /\ (pc \in Building \/ call[q].pc \in Building)

Enter(p, pc, after) ==
  LET met == {q \in Calls : Meets(p, q, pc)}
      new == [Idle EXCEPT !.pc = pc, !.after = after, !.met = (met # {})]
  IN /\ Free(p) /\ (pc \in Building => p \in Starters)
     /\ call' = [q \in Calls |-> IF q = p THEN new
                                ELSE IF q \in met THEN [call[q] EXCEPT !.met = TRUE] ELSE call[q]]
     /\ odd' = (odd \/ met # {})

\* CreateSignal of any exchange: starts the proxy when it has no address
BeginCreate(p) ==
  /\ phase = "up" /\ Live # {} /\ ~HasAddress
  /\ Enter(p, "read", "idle")
  /\ UNCHANGED <<rows, box, inst, mon, phase>>

\* POST of a configuration
BeginConfigure(p) ==
  /\ phase = "up"
  /\ Enter(p, "save", "idle")
  /\ UNCHANGED <<rows, box, inst, mon, phase>>

\* DeleteKeys, each user of StopAllProxies, and CheckAndStopProxy: it asks the
\* checkers there are one after the other, without the mutex; an active signal
\* ends it and an error counts as none.  The answers may be those of any moment,
\* so what is left of them here is that the check goes on.
BeginStop(p) ==
  /\ phase = "up"
  /\ Enter(p, "look", "idle")
  /\ UNCHANGED <<rows, box, inst, mon, phase>>

\* DELETE of the configuration: the handler and the service both stop it
BeginDelete(p) ==
  /\ phase = "up"
  /\ Enter(p, "look", "again")
  /\ UNCHANGED <<rows, box, inst, mon, phase>>

\* SaveProxyConfig, then StartProxyForUser: hasActiveSignalsForUser is a stub
Save(p) ==
  /\ call[p].pc = "save"
  /\ \E c \in Configs :
       /\ rows[c] = "none" /\ \A d \in Configs : rows[d] = "none" => c <= d
       /\ rows' = [d \in Configs |-> IF d = c THEN "stopped"
                                     ELSE IF rows[d] = "none" THEN "none" ELSE "deleted"]
       /\ Goto(p, "read")
  /\ UNCHANGED <<box, inst, mon, odd, phase>>

SaveFails(p) ==
  /\ call[p].pc = "save"
  /\ Leave(p)
  /\ UNCHANGED <<rows, box, inst, mon, odd, phase>>

-----------------------------------------------------------------------------
(* StartProxyForUser *)

\* Reads the configuration; a running one is inspected before it is trusted.
Read(p) ==
  /\ call[p].pc = "read"
  /\ \/ Leave(p) /\ UNCHANGED <<rows, odd>>
     \/ \E c \in Configs :
          /\ Newest(c)
          /\ \/ rows[c] # "running" /\ GoWith(p, "old", c) /\ UNCHANGED <<rows, odd>>
             \/ rows[c] = "running" /\ Succeeds(box.up) /\ GoWith(p, "adopt", c) /\ UNCHANGED rows
             \/ rows[c] = "running" /\ Fails(box.up) /\ GoWith(p, "old", c) /\ Write(c, "stopped")
  /\ UNCHANGED <<box, inst, mon, phase>>

\* The container of an earlier process: no monitor is started for it.
Adopt(p) ==
  /\ call[p].pc = "adopt"
  /\ inst' = call[p].cfg
  /\ Leave(p)
  /\ UNCHANGED <<rows, box, mon, odd, phase>>

\* An existing container of that name is stopped and removed; errors are logged.
Old(p) ==
  /\ call[p].pc = "old"
  /\ \/ Succeeds(Exists) /\ Goto(p, "oldStop")
     \/ Fails(Exists) /\ Goto(p, "create")
  /\ UNCHANGED <<rows, box, inst, mon, phase>>

Halted == [box EXCEPT !.up = FALSE]

OldStop(p) ==
  /\ call[p].pc = "oldStop"
  /\ \/ Succeeds(Exists) /\ box' = Halted
     \/ Fails(Exists) /\ UNCHANGED box
  /\ Goto(p, "oldRemove")
  /\ UNCHANGED <<rows, inst, mon, phase>>

OldRemove(p) ==
  /\ call[p].pc = "oldRemove"
  /\ \/ Succeeds(Exists) /\ box' = NoBox
     \/ Fails(Exists) /\ UNCHANGED box
  /\ Goto(p, "create")
  /\ UNCHANGED <<rows, inst, mon, phase>>

\* An error ends the start; the status of the row follows the call that failed.
Error(p) == Leave(p) /\ Write(call[p].cfg, "error")

Create(p) ==
  /\ call[p].pc = "create"
  /\ \/ /\ ~Exists
        /\ box' = [cfg |-> call[p].cfg, up |-> FALSE, by |-> p]
        /\ odd' = call[p].met
        /\ Goto(p, "run")
        /\ UNCHANGED rows
     \/ Fails(~Exists) /\ Error(p) /\ UNCHANGED box
  /\ UNCHANGED <<inst, mon, phase>>

\* ContainerStart of the id the creation returned
Run(p) ==
  /\ call[p].pc = "run"
  /\ \/ /\ Succeeds(box.by = p)
        /\ box' = [box EXCEPT !.up = TRUE, !.by = 0]
        /\ Goto(p, "ready")
        /\ UNCHANGED rows
     \/ Fails(box.by = p) /\ Error(p) /\ UNCHANGED box
  /\ UNCHANGED <<inst, mon, phase>>

\* A plausible mistake: a connectivity check that failed leaves the container.
ReadyKeeps(p) ==
  /\ call[p].pc = "ready"
  /\ \/ box.up /\ Goto(p, "badLogs") /\ UNCHANGED rows
     \/ box.up /\ box.cfg = call[p].cfg /\ Goto(p, "know") /\ UNCHANGED rows
     \/ Error(p)
  /\ UNCHANGED <<box, inst, mon, odd, phase>>

\* Up to ten looks at the container and, once it runs, at its log: a word such as
\* "error" in it ends the start; otherwise, and after the tenth look, the exchanges
\* are tried through the local port of the configuration.
Ready(p) ==
  /\ call[p].pc = "ready"
  /\ \/ box.up /\ Goto(p, "badLogs")
     \/ box.up /\ box.cfg = call[p].cfg /\ Goto(p, "know")
     \/ Goto(p, "drop")
  /\ UNCHANGED <<rows, box, inst, mon, odd, phase>>

\* It is stopped and not removed.
BadLogs(p) ==
  /\ call[p].pc = "badLogs"
  /\ \/ Succeeds(Exists) /\ box' = Halted
     \/ Fails(Exists) /\ UNCHANGED box
  /\ Error(p)
  /\ UNCHANGED <<inst, mon, phase>>

Drop(p) ==
  /\ call[p].pc = "drop"
  /\ \/ Succeeds(Exists) /\ box' = Halted
     \/ Fails(Exists) /\ UNCHANGED box
  /\ Goto(p, "dropRemove")
  /\ UNCHANGED <<rows, inst, mon, phase>>

DropRemove(p) ==
  /\ call[p].pc = "dropRemove"
  /\ \/ Succeeds(Exists) /\ box' = NoBox
     \/ Fails(Exists) /\ UNCHANGED box
  /\ Error(p)
  /\ UNCHANGED <<inst, mon, phase>>

Know(p) ==
  /\ call[p].pc = "know"
  /\ inst' = call[p].cfg
  /\ Goto(p, "publish")
  /\ UNCHANGED <<rows, box, mon, odd, phase>>

\* The monitor gets the context of the call: a request's, or Background at boot.
Publish(p) ==
  /\ call[p].pc = "publish"
  /\ Write(call[p].cfg, "running")
  /\ \E m \in Monitors :
       /\ mon[m].pc = "off"
       /\ mon' = [mon EXCEPT ![m] = [pc |-> "watch", req |-> phase = "up", alive |-> TRUE]]
  /\ Leave(p)
  /\ UNCHANGED <<box, inst, odd, phase>>

-----------------------------------------------------------------------------
(* StopProxyForUser *)

\* A plausible mistake: the stop goes on under the name of what follows it.
StoppedAs(p) ==
  call' = [call EXCEPT ![p] = [Idle EXCEPT !.pc = call[p].after]]

\* What follows a stop: DeleteProxyConfig stops once more, then deletes the rows.
Stopped(p) ==
  LET after == call[p].after
  IN call' = [call EXCEPT ![p] =
       CASE after = "again" -> [Idle EXCEPT !.pc = "look", !.after = "erase"]
         [] after = "erase" -> [Idle EXCEPT !.pc = "erase"]
         [] OTHER           -> Idle]

Look(p) ==
  /\ call[p].pc = "look"
  /\ IF inst = 0 THEN Stopped(p)
     ELSE GoWith(p, "halt", inst)
  /\ UNCHANGED <<rows, box, inst, mon, odd, phase>>

Halt(p) ==
  /\ call[p].pc = "halt"
  /\ \/ Succeeds(Exists) /\ box' = Halted /\ Goto(p, "remove")
     \/ Fails(Exists) /\ UNCHANGED box /\ Goto(p, "force")
  /\ UNCHANGED <<rows, inst, mon, phase>>

\* An error is returned and the instance is kept.
ForceRemove(p) ==
  /\ call[p].pc = "force"
  /\ \/ Succeeds(Exists) /\ box' = NoBox /\ Goto(p, "forget")
     \/ Fails(Exists) /\ UNCHANGED box /\ Stopped(p)
  /\ UNCHANGED <<rows, inst, mon, phase>>

\* Without Force, Docker refuses to remove a container that runs; only logged.
Remove(p) ==
  /\ call[p].pc = "remove"
  /\ \/ Succeeds(Exists /\ ~box.up) /\ box' = NoBox
     \/ Fails(Exists /\ ~box.up) /\ UNCHANGED box
  /\ Goto(p, "forget")
  /\ UNCHANGED <<rows, inst, mon, phase>>

\* The row, then the instance, whatever the container has become
Forget(p) ==
  /\ call[p].pc = "forget"
  /\ Write(call[p].cfg, "stopped")
  /\ inst' = 0
  /\ Stopped(p)
  /\ UNCHANGED <<box, mon, odd, phase>>

Erase(p) ==
  /\ call[p].pc = "erase"
  /\ rows' \in {rows, [c \in Configs |-> IF rows[c] = "none" THEN "none" ELSE "deleted"]}
  /\ Leave(p)
  /\ UNCHANGED <<box, inst, mon, odd, phase>>

-----------------------------------------------------------------------------
(* monitorContainer *)

Lose(m) == mon' = [mon EXCEPT ![m].pc = "lose"]

\* A plausible mistake: the monitor looks and does nothing.
InspectOnly(m) ==
  /\ mon[m].pc = "watch"
  /\ UNCHANGED vars

\* At a tick: any error of the inspection counts as a container that is gone.
Inspect(m) ==
  /\ mon[m].pc = "watch"
  /\ \/ Exists /\ mon[m].alive /\ ~box.up /\ mon' = [mon EXCEPT ![m].pc = "restart"]
     \/ Exists /\ mon[m].alive /\ box.up /\ UNCHANGED mon
     \/ Lose(m)
  /\ UNCHANGED <<rows, box, inst, call, odd, phase>>

Restart(m) ==
  /\ mon[m].pc = "restart"
  /\ \/ /\ Exists /\ mon[m].alive
        /\ box' = [box EXCEPT !.up = TRUE]
        /\ mon' = [mon EXCEPT ![m].pc = "watch"]
        /\ odd' = (odd \/ ~Quiet \/ inst # box.cfg)
     \/ Lose(m) /\ UNCHANGED <<box, odd>>
  /\ UNCHANGED <<rows, inst, call, phase>>

\* The instance is deleted first, whichever it is by then, then looked up to
\* write its status.
GiveUp(m) ==
  /\ mon[m].pc = "lose"
  /\ inst' = 0
  /\ odd' = (odd \/ Exists)
  /\ mon' = [mon EXCEPT ![m].pc = "gone"]
  /\ UNCHANGED <<rows, box, call, phase>>

\* Finds an instance only when a start has stored one since.
Gone(m) ==
  /\ mon[m].pc = "gone"
  /\ \/ UNCHANGED rows
     \/ /\ inst # 0 /\ mon[m].alive
        /\ \E status \in {"stopped", "error"} : rows' = [rows EXCEPT ![inst] = status]
  /\ mon' = [mon EXCEPT ![m] = Off]
  /\ UNCHANGED <<box, inst, call, odd, phase>>

Done(m) ==
  /\ mon[m].pc = "watch" /\ ~mon[m].alive
  /\ mon' = [mon EXCEPT ![m] = Off]
  /\ UNCHANGED <<rows, box, inst, call, odd, phase>>

-----------------------------------------------------------------------------
(* The surroundings *)

\* The monitor a request started ends with the request.
RequestEnds(m) ==
  /\ mon[m].req /\ mon[m].alive
  /\ mon' = [mon EXCEPT ![m].alive = FALSE]
  /\ UNCHANGED <<rows, box, inst, call, odd, phase>>

\* ss-local ends by itself
Dies ==
  /\ box.up
  /\ box' = Halted
  /\ UNCHANGED <<rows, inst, call, mon, odd, phase>>

\* initProxyContainers waits for one start, under Background, when the user has a
\* configuration and active signals of the exchange it reads.
BootStart(p) ==
  /\ phase = "boot" /\ Live # {} /\ p \in Starters
  /\ phase' = "starting"
  /\ call' = [call EXCEPT ![p] = [Idle EXCEPT !.pc = "read"]]
  /\ UNCHANGED <<rows, box, inst, mon, odd>>

\* A container of the process before that nobody adopted or replaced stays.
BootDone ==
  /\ phase = "boot" \/ (phase = "starting" /\ Quiet)
  /\ phase' = "up"
  /\ odd' = (odd \/ (Exists /\ inst = 0))
  /\ UNCHANGED <<rows, box, inst, call, mon>>

Crash ==
  /\ inst' = 0
  /\ call' = [p \in Calls |-> Idle]
  /\ mon' = [m \in Monitors |-> Off]
  /\ phase' = "boot"
  /\ UNCHANGED <<rows, box, odd>>
-----------------------------------------------------------------------------

Starts(p) ==
  \/ BeginCreate(p) \/ BeginConfigure(p) \/ Save(p) \/ SaveFails(p)
  \/ Read(p) \/ Adopt(p) \/ Old(p) \/ OldStop(p) \/ OldRemove(p)
  \/ Create(p) \/ Run(p) \/ Ready(p) \/ BadLogs(p)
  \/ Drop(p) \/ DropRemove(p) \/ Know(p) \/ Publish(p)

Stops(p) ==
  \/ BeginStop(p) \/ BeginDelete(p)
  \/ Look(p) \/ Halt(p) \/ ForceRemove(p) \/ Remove(p) \/ Forget(p) \/ Erase(p)

Monitor(m) == Inspect(m) \/ Restart(m) \/ GiveUp(m) \/ Gone(m) \/ Done(m)

Around ==
  \/ \E p \in Calls : BootStart(p)
  \/ \E m \in Monitors : RequestEnds(m)
  \/ Dies \/ BootDone \/ Crash

Next ==
  \/ \E p \in Calls : Starts(p) \/ Stops(p)
  \/ \E m \in Monitors : Monitor(m)
  \/ Around

\* A monitor goroutine whose ticker has fired is scheduled.
Spec == Init /\ [][Next]_vars /\ \A m \in Monitors : WF_vars(Monitor(m))

-----------------------------------------------------------------------------
(* Properties *)

\* Every variable stays within its type.
TypeOK ==
  /\ rows \in [Configs -> Status]
  /\ box \in [cfg : 0..MaxConfigs, up : BOOLEAN, by : Calls \union {0}]
  /\ inst \in 0..MaxConfigs
  /\ call \in [Calls -> [pc : Steps, cfg : 0..MaxConfigs,
                         after : {"idle", "again", "erase"}, met : BOOLEAN]]
  /\ mon \in [Monitors -> [pc : {"off", "watch", "restart", "lose", "gone"}, req : BOOLEAN,
                           alive : BOOLEAN]]
  /\ phase \in {"boot", "starting", "up"}
  /\ odd \in BOOLEAN

\* A container that runs while no call is under way is the one the map of
\* instances has, with the configuration it was created with, so that it is used
\* and can be stopped; except after overlapping calls, a call to Docker that
\* failed, a request that ended under way, a monitor that restarted it during a
\* stop, and a new process that did not look for it.
RunningIsKnown == phase = "up" /\ Quiet /\ box.up /\ ~odd => inst = box.cfg

\* A known container that stopped by itself runs again or is forgotten, as long
\* as its monitor's context lives.
ContainerHeals ==
  \A m \in Monitors :
    (mon[m].pc = "watch" /\ mon[m].alive /\ inst # 0 /\ ~box.up)
      ~> (box.up \/ inst = 0 \/ ~mon[m].alive \/ mon[m].pc = "off")

=============================================================================
