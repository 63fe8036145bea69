CONSTANTS
    Confirmations = 3
    MaxRestarts = 1
SPECIFICATION FairSpec
INVARIANT OutageEndsWithFreshData
INVARIANT DeadlineSurvives
PROPERTY StreakReported
PROPERTY Recovers
