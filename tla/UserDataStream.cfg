\* One stream, two listen keys, two concurrent stops.
CONSTANTS
    k1 = k1  k2 = k2  p1 = p1  p2 = p2
    NoKey = NoKey
    Keys = {k1, k2}
    Stoppers = {p1, p2}
SPECIFICATION FairSpec
INVARIANTS TypeOK ClosedOnce NothingSurvivesStop
PROPERTIES StopEndsEverything StopReturnsUnlessStuck
\* A stopped stream does nothing more.
CHECK_DEADLOCK FALSE
