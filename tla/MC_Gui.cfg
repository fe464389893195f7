SPECIFICATION GuiSpec
CONSTANTS
    m1 = m1
    Macs = {m1}
    MaxStarts = 2
    MaxRuns = 2
    Hasty = FALSE
INVARIANTS
    GuiTypeOK
    ConsentIsOwn
    QuietMeansReady
    CountersExact
    LoopHasItsControls
PROPERTIES
    StopHolds
    GuiKeepsPromise
    WorkersEnd
