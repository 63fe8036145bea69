SPECIFICATION FairSpec
CONSTANTS
    c1 = c1
    c2 = c2
    s1 = s1
    s2 = s2
    Nobody = nobody
    Absent = absent
    Callers = {c1, c2}
    Serials = {s1, s2}
    Days = {1, 2}
    Calls <- Overlapping
    KeepDays = 1
    Ttl = 1
    Delays = {1, 2}
    ActiveSets <- OneLeaves
    MaxTime = 2
    MaxGeneration = 1
INVARIANTS RecordsCountCallers NoRetiredRecords
PROPERTIES CallsReturn AttemptShared NewerDaysKept DeadlineHonoured
CHECK_DEADLOCK FALSE
