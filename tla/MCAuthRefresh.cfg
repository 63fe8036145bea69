SPECIFICATION FairSpec
CONSTANTS
    a1 = a1
    a2 = a2
    m1 = m1
    m2 = m2
    Automatic = {a1, a2}
    Manual = {m1, m2}
    Threshold = 3
INVARIANTS BarsRemembered StreakExplained
PROPERTIES AutomaticLoginBarred CallsReturn
CHECK_DEADLOCK FALSE
