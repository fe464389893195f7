SPECIFICATION WebSpec
CONSTANTS
    Macs = {m1, m2}
    Tabs = {b1, b2}
    NoTab = NoTab
    Requests = {r1, r2}
    NoRequest = NoRequest
    Keys = {k1, k2}
    NoKey = NoKey
INVARIANTS
    WebTypeOK
PROPERTIES
    ApprovedIsOffered
    TrustedAsShown
    OperationEnds
