CONSTANTS
    c1 = c1
    c2 = c2
    off = off
    low = low
    Poller = poller
    Unreadable = unreadable
    Callers <- TwoCallers
    Settings <- TwoSettings
    Supported <- TwoSettings
    MaxIntents = 2
    MaxRuntimes = 2
    MaxExternal = 0
    MaxToggles = 0
    ReloadMidCall = TRUE
SPECIFICATION Spec
SYMMETRY CallSymmetry
INVARIANT OpenWriteStored
CHECK_DEADLOCK FALSE
