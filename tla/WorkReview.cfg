SPECIFICATION ReviewFairSpec
CONSTANTS
    Works = {w1}
    Visitors = {u1}
    Tokens = {t1}
    Requests = {r1, r2}
    Forks = {f1, f2, f3}
    MaxReads = 2
    MaxTroubles = 1
INVARIANTS
    OneContinuation
    MembersOnly
PROPERTIES
    EveryRequestIsAnswered
CHECK_DEADLOCK FALSE
