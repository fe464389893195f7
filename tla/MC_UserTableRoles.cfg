SPECIFICATION TableSpec
CONSTANTS
    Users = {u1, u2}
    Radios = {b1, b2}
    NoMac = NoMac
    MaxLines = 1
SYMMETRY Symmetry
INVARIANT
    OtherRolesIgnored
CHECK_DEADLOCK FALSE
