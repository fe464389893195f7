SPECIFICATION GuiSpec
CONSTANTS
    m1 = m1
    Macs = {m1}
    MaxStarts = 1
    MaxRuns = 1
    Hasty = FALSE
PROPERTIES
    FailuresShown
