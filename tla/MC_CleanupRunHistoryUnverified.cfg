SPECIFICATION Spec
CONSTANTS
    Threads = {t1, t2}
    NoThread = NoThread
    Configs = {c1}
    NoConfig = NoConfig
    Macs = {m1}
    NoMac = NoMac
    DeleteDelay = 1
    MaxCloses = 1
INVARIANT
    HistoryOnlyVerified
