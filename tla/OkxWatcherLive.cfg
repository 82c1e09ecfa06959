\* Liveness: two signals on one instrument, all goroutines fair.
SPECIFICATION Spec
CONSTANTS
  Signals = {"s1", "s2"}
  Insts = {"a"}
  InstOf <- Together
  OnCancel = {"s1", "s2"}
  OnEat = {}
  MaxStarts = 2
  MaxMonitors = 1
  Closes = FALSE
PROPERTIES BrokenIsReplaced CancelIsNoticed
\* With every signal gone and every goroutine done, nothing need happen.
CHECK_DEADLOCK FALSE
