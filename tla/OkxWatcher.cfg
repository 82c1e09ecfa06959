\* Safety: two instruments, overlapping starts, a monitor and Close.
SPECIFICATION Spec
CONSTANTS
  Signals = {"s1", "s2"}
  Insts = {"a", "b"}
  InstOf <- Apart
  OnCancel = {"s1"}
  OnEat = {"s2"}
  MaxStarts = 2
  MaxMonitors = 1
  Closes = TRUE
INVARIANTS TypeOK StartedIsBacked OneStream
PROPERTIES FiresForCause
\* With every signal gone and every goroutine done, nothing need happen.
CHECK_DEADLOCK FALSE
