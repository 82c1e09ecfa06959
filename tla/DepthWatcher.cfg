\* Safety of one watcher: two StartConnection calls and two connections at a
\* time, two depth messages, dials that fail and connections that drop.
CONSTANTS
    s1 = s1  BTC = BTC  g1 = g1  g2 = g2  c1 = c1  c2 = c2
    NoConn = NoConn
    Signals = {s1}
    Symbols = {BTC}
    Prices = {1}
    MaxQty = 2
    Sig <- MCSig
    Feed <- MCFeed
    Starters = {g1, g2}
    Conns = {c1, c2}
    MaxUpdates = 2
    Faulty = TRUE
SPECIFICATION Spec
SYMMETRY Interchangeable
INVARIANTS TypeOK MapsAgree OneFate FiredOnEvidence WatchedRowsStayActive
PROPERTY CancelIsNoticed
\* A watcher whose signal is gone and whose messages are handled may stop.
CHECK_DEADLOCK FALSE
