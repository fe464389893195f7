SPECIFICATION WebSpec
CONSTANTS
    Macs = {m1, m2}
    Tabs = {b1, b2}
    NoTab = NoTab
    Requests = {r1}
    NoRequest = NoRequest
    Keys = {k1}
    NoKey = NoKey
INVARIANT
    OnlySeenIsDeleted
