CONSTANTS
    Users = {a, b, c}
    Items <- BuddyAndDenyItems
    MaxBatch = 2
    MaxClock = 2
SYMMETRY UserPerms
SPECIFICATION Spec
INVARIANT TypeOK
INVARIANT BuddiesMatchAdjacentUsers
INVARIANT BuddiesAgreeWithBlockedState
PROPERTY ChangeUnseenOnlyByDeleteOrSameSecond
