SPECIFICATION CliSpec
CONSTANTS
    main = main
    other = other
    Main = main
    Threads = {main, other}
    NoThread = NoThread
    Configs = {c1}
    NoConfig = NoConfig
    Macs = {m1, m2}
    NoMac = NoMac
    DeleteDelay = 1
    MaxCloses = 1
INVARIANTS
    ExitHonest
PROPERTIES
    ProgramEnds
    LockReleased
CHECK_DEADLOCK FALSE
