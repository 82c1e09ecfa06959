\* Two auto-close operations of one position; one deletion, clean-up or trade.
SPECIFICATION Spec
CONSTANTS
  s1 = s1
  s2 = s2
  Signals = {s1, s2}
  AutoClose = {s1, s2}
  Positions <- MCPositions
  Initially = {1}
  MaxEvents = 1
  Absent = Absent
SYMMETRY Symmetry
INVARIANTS TypeOK SkipsOnlyWhenFlat OrderIsExact UnneededIsStopped
\* With every signal gone and every goroutine done, nothing need happen.
CHECK_DEADLOCK FALSE
