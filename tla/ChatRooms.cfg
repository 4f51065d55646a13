CONSTANTS
    Sess = {s1, s2, s3, s4}
    Rooms = {r1, r2, r3}
    NoRoom = NoRoom
SPECIFICATION Spec
INVARIANT TypeOK
INVARIANT GhostOccupantsAreCreators
PROPERTY EmptyRoomsRemoved
CHECK_DEADLOCK FALSE
