\* Liveness: two signals without auto-close that compete for one slot, and one
\* such event: the second request, or the removal of the first signal, replaces
\* the watcher that a removal under way looks up.
CONSTANTS
    s1 = s1  s2 = s2  g1 = g1  p1 = p1  u1 = u1  u2 = u2
    w1 = w1  w2 = w2  w3 = w3
    None = None
    Signals = {s1, s2}
    Sig <- MCPlainSig
    Requests = {g1}
    Stops = {p1}
    Users = {u1, u2}
    Watchers = {w1, w2, w3}
    MaxEvents = 1
SPECIFICATION FairSpec
PROPERTIES SavedIsWatched DeletedIsGone
\* With every goroutine done and nothing disturbing, nothing need happen.
CHECK_DEADLOCK FALSE
