CONSTANTS
    Users = {u1, u2}
    Ids = {s1, s2, s3, s4}
    NoSession = NoSession
    TTL = 1
    MaxClock = 3
SPECIFICATION Spec
PROPERTY DroppedSessionQueuesClosed
