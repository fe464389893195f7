SPECIFICATION ListSpec
CONSTANTS
    r1 = r1
    r2 = r2
    r3 = r3
    gui = gui
    web = web
    Runs = {r1, r2, r3}
    NoRun = NoRun
    Processes = {gui, web}
    ProcessOf <- OneProcess
    Results <- Recorded
    MaxTries = 2
    Window = gui
    OwnRuns = {r1, r2}
    Outcome <- Outcomes
    MaxRows = 2
INVARIANTS
    AuditIsOwn
    HistoryWhole
    
PROPERTIES
    HistoryGrows
    SavingEnds
CHECK_DEADLOCK FALSE
