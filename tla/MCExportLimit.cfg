CONSTANTS
    c1 = c1
    c2 = c2
    off = off
    low = low
    Poller = poller
    Unreadable = unreadable
    Callers <- OneCaller
    Settings <- TwoSettings
    Supported <- TwoSettings
    MaxIntents = 1
    MaxRuntimes = 2
    MaxExternal = 1
    MaxToggles = 1
    ReloadMidCall = FALSE
SPECIFICATION FairSpec
INVARIANT OpenWriteStored
INVARIANT OpenWriteKnown
PROPERTY ConfirmedByLaterRead
PROPERTY OverdueReported
PROPERTY Reconciled
CHECK_DEADLOCK FALSE
