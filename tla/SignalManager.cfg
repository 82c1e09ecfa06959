\* Safety: two signals of one slot, one event among DELETE requests, a loss of
\* the network, a restart and failing calls.
CONSTANTS
    s1 = s1  s2 = s2  g1 = g1  p1 = p1  u1 = u1  u2 = u2
    w1 = w1  w2 = w2  w3 = w3
    None = None
    Signals = {s1, s2}
    Sig <- MCSig
    Requests = {g1}
    Stops = {p1}
    Users = {u1, u2}
    Watchers = {w1, w2, w3}
    MaxEvents = 1
SPECIFICATION Spec
SYMMETRY AlikeSignals
INVARIANTS TypeOK ReplacedStaysInactive CleanupKeepsKnown FiresOnce
\* With every goroutine done and nothing disturbing, nothing need happen.
CHECK_DEADLOCK FALSE
