CONSTANTS
    Confirmations = 3
    MaxRestarts = 0
SPECIFICATION FairSpec
PROPERTY AbsenceBelieved
