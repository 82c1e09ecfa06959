\* Lost wakeup: the network never fails and yet a signal never gets a stream.
CONSTANTS
    s1 = s1  BTC = BTC  g1 = g1  g2 = g2  c1 = c1  c2 = c2
    NoConn = NoConn
    Signals = {s1}
    Symbols = {BTC}
    Prices = {1}
    MaxQty = 2
    Sig <- MCSig
    Feed <- MCFeed
    Starters = {g1, g2}
    Conns = {c1, c2}
    MaxUpdates = 0
    Faulty = FALSE
SPECIFICATION FairSpec
PROPERTY SignalGetsStream
\* A watcher whose signal is gone and whose messages are handled may stop.
CHECK_DEADLOCK FALSE
