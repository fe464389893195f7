SPECIFICATION TableSpec
CONSTANTS
    Users = {u1, u2}
    Radios = {b1, b2}
    NoMac = NoMac
    MaxLines = 2
SYMMETRY Symmetry
INVARIANTS
    EachMacOnce
    NoRadioSelected
    RoleColumnRespected
    PlainUsersFound
CHECK_DEADLOCK FALSE
