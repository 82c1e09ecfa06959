----------------------------- MODULE SignalLife -----------------------------
(***************************************************************************)
(* What a signal manager promises of the signals of a user, whatever        *)
(* exchange they are on: a row that has ended never becomes active again,   *)
(* a signal is watched at most once in a run of the process, and what a     *)
(* restart takes up again are rows that were active when it happened.       *)
(* Signals that the manager revives on purpose, where it does, are exempt   *)
(* from then on.                                                            *)
(***************************************************************************)
CONSTANTS
  Signals,
  Revivable  \* those that may be revived

VARIABLES
  record,    \* the row of a signal: "none", "active", "ended"
  watched,   \* the signals in the memory of some watcher
  mayWatch,  \* those that this run of the process may still begin to watch
  revived    \* those that were revived

life == <<record, watched, mayWatch, revived>>

Init ==
  /\ record = [s \in Signals |-> "none"]
  /\ watched = {}
  /\ mayWatch = {}
  /\ revived = {}

Create(s) ==
  /\ record[s] = "none"
  /\ record' = [record EXCEPT ![s] = "active"]
  /\ mayWatch' = mayWatch \union {s}
  /\ UNCHANGED <<watched, revived>>

\* A signal that was revived may be on its way to a second watcher.
Watch(s) ==
  /\ s \in mayWatch
  /\ mayWatch' = mayWatch \ {s} \/ (s \in revived /\ mayWatch' = mayWatch)
  /\ watched' = watched \union {s}
  /\ UNCHANGED <<record, revived>>

\* A watcher loses signals.
Leave ==
  /\ watched' \in SUBSET watched
  /\ UNCHANGED <<record, mayWatch, revived>>

\* A signal that has ended may still be on its way, or not.
End(s) ==
  /\ record[s] = "active"
  /\ record' = [record EXCEPT ![s] = "ended"]
  /\ mayWatch' \in {mayWatch, mayWatch \ {s}}
  /\ UNCHANGED <<watched, revived>>

\* The signals are not loaded, or not all of them.
Forgo ==
  /\ mayWatch' \in SUBSET mayWatch
  /\ UNCHANGED <<record, watched, revived>>

\* The row becomes active, unless it was deleted, and the signal is watched again.
Revive(s) ==
  /\ s \in Revivable /\ record[s] # "none"
  /\ \/ UNCHANGED record
     \/ record' = [record EXCEPT ![s] = "active"]
  /\ mayWatch' = mayWatch \union {s}
  /\ revived' = revived \union {s}
  /\ UNCHANGED watched

Restart ==
  /\ watched' = {}
  /\ mayWatch' \in SUBSET {s \in Signals : record[s] = "active"}
  /\ UNCHANGED <<record, revived>>

Next ==
  \/ \E s \in Signals : Create(s) \/ Watch(s) \/ End(s) \/ Revive(s)
  \/ Leave \/ Forgo \/ Restart

Spec == Init /\ [][Next]_life
=============================================================================
