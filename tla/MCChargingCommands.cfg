SPECIFICATION FairSpec
CONSTANTS
    c1 = c1
    c2 = c2
    s1 = s1
    r1 = r1
    r2 = r2
    Commands <- MCCommands
    Setters <- MCSetters
    Restarts <- OneRestart
    Resumer = Resumer
    Nobody = Nobody
    MaxIntents = 2
    MaxTokens = 2
PROPERTY NewestIntentSends
PROPERTY NewestIntentRecords
PROPERTY StopHolds
PROPERTY CommandsReturn
CHECK_DEADLOCK FALSE
