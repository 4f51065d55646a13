CONSTANTS
    Users = {u1}
    Passwords = {p1, p2, w}
    Welcome1 = w
    Keys = {k1, k2}
    Clients = {c1, c2}
    DisableAuth = FALSE
    NoUser = NoUser
    NoKey = NoKey
    Bodies = {b1}
    Hashes = {h1}
SYMMETRY Symmetry
SPECIFICATION Spec
INVARIANT RegistrationStaysPossible
CHECK_DEADLOCK FALSE
