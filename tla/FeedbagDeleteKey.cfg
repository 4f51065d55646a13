CONSTANTS
    Users = {a, b}
    Items <- GroupHeaderItems
    MaxBatch = 1
    MaxClock = 1
SPECIFICATION Spec
PROPERTY DeleteRemovesOnlyThatEntry
