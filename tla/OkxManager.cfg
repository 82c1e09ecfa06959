\* Two signals of one instrument, restarts and failing writes.
SPECIFICATION Spec
CONSTANTS
  Signals = {"s1", "s2"}
  InstOf <- MCInstOf
  AutoClose = {"s1"}
  MaxWatchers = 2
INVARIANTS TypeOK EndedIsBeingForgotten GoneIsRecorded OneActive
PROPERTIES KeepsSignalLife
\* With every signal gone and every goroutine done, nothing need happen.
CHECK_DEADLOCK FALSE
