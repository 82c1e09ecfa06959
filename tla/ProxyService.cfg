\* A start and another call, one monitor, failures and new processes.
SPECIFICATION Spec
CONSTANTS
  Calls = {1, 2}
  Starters = {1}
  Monitors = {m1}
  m1 = m1
  MaxConfigs = 2
INVARIANT TypeOK
INVARIANT RunningIsKnown
PROPERTY ContainerHeals
