CONSTANTS
    Users = {u1, u2}
    Pushes = {p1, p2, p3}
    MaxClock = 1
    NoFeed = NoFeed
SYMMETRY Symmetry
SPECIFICATION Spec
INVARIANT TypeOK
INVARIANT ItemsHiddenOnlyByDuplicateFeeds
CHECK_DEADLOCK FALSE
