\* Two requests at a time, two codes that may be used once, three users, two
\* days, one payment.
CONSTANTS
    c1 = c1  c2 = c2  u1 = u1  u2 = u2  u3 = u3  w1 = w1  w2 = w2
    NoCode = NoCode  NoUser = NoUser
    Codes = {c1, c2}
    Users = {u1, u2, u3}
    Workers = {w1, w2}
    MaxUses <- MCMaxUses
    Days <- MCDays
    CodeExpires <- MCCodeExpires
    PayDays = 1
    MaxToday = 1
    MaxPayments = 1
SPECIFICATION FairSpec
INVARIANTS TypeOK UsedMatchesUsages OnceEach Overshoot
PROPERTY EveryRequestEnds
\* When every code is spent and the days are over nothing more happens.
CHECK_DEADLOCK FALSE
