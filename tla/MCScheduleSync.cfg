SPECIFICATION FairSpec
CONSTANTS
    c1 = c1
    c2 = c2
    k1 = k1
    k2 = k2
    Callers = {c1, c2}
    Slots = {k1, k2}
    Requests <- ToggleAndReplace
    Elsewhere <- SwitchAndDelete
    Poll = poll
    Patch = patch
    Nobody = nobody
    Initial <- BothOn
    Unknown = unknown
    MaxChanges = 3
INVARIANTS AcceptedKept TogglesMerge UnloadedIsQuiet
CHECK_DEADLOCK FALSE
PROPERTIES DisabledStaysEmpty CatchesUp ImplementsMirror
