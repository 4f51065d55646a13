CONSTANTS
    Users = {u1, u2}
    Ids = {s1, s2, s3}
    NoSession = NoSession
    TTL = 1
    MaxClock = 2
SPECIFICATION Spec
INVARIANT TypeOK
INVARIANT NoLiveSessionWithClosedQueue
PROPERTY ImplementsSessionRegistry
PROPERTY ExpiredSessionsCollected
