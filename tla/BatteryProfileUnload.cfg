SPECIFICATION Spec
CONSTANTS
    Profiles = {self, backup}
    FullBackup = backup
    Reserves = {20, 100}
    Full = 100
    Reads = {r1}
    None = None
    MaxWrites = 2
    MaxMismatches = 1
INVARIANTS NoRestoreAfterUnload
CHECK_DEADLOCK FALSE
