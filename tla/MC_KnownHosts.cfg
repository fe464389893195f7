SPECIFICATION HostsSpec
CONSTANTS
    u1 = u1
    u2 = u2
    s1 = s1
    Users = {u1, u2}
    NoUser = NoUser
    Stores = {s1}
    StoreOf <- SharedStore
    Endpoints = {e1, e2}
    Keys = {k1, k2}
    NoKey = NoKey
INVARIANTS
    StoredIsConfirmed
    PeerIsPinned
PROPERTIES
    StoredKeyStays
    ApprovalEnds
