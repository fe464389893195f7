SPECIFICATION Spec
CONSTANTS
    Threads = {t1, t2}
    NoThread = NoThread
    Configs = {c1, c2}
    NoConfig = NoConfig
    Macs = {m1, m2}
    NoMac = NoMac
    DeleteDelay = 1
    MaxCloses = 1
SYMMETRY Symmetry
INVARIANTS
    TypeOK
    OnlyApprovedDeleted
    CancelBoundsDeletes
    ReportHonest
    EveryDeleteReported
    ReportConsistent
    ConnectionAccounted
    OnlyVerifiedIsKept
    SendsBounded
    SessionReleased
PROPERTIES
    CommandsGated
    KeepsPromise
