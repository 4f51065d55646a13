CONSTANTS
    Users = {u1, u2}
    OSCARUsers = {u2}
    WebUsers = {u1}
    Items <- PresenceItems
    MaxFlips = 3
    RelationshipErrors = TRUE
    FeedbagErrors = TRUE
SPECIFICATION Spec
INVARIANT TypeOK
 
 
\* u2 stops after MaxFlips sign-ons and sign-offs; that end is the bound.
CHECK_DEADLOCK FALSE
