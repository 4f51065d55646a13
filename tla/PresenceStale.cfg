CONSTANTS
    Users = {u1, u2}
    OSCARUsers = {u2}
    WebUsers = {u1}
    Items <- PresenceItems
    MaxFlips = 2
    RelationshipErrors = FALSE
    FeedbagErrors = FALSE
SPECIFICATION Spec
INVARIANT PresenceViewsCurrent
