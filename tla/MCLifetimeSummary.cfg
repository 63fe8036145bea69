SPECIFICATION FairSpec
CONSTANTS
    Chargers = {garage}
    Answers = {a1, a2, a3, a4}
    Readings = {0, 40, 201, 250, 10000}
    None = None
PROPERTIES ResetNeedsTwoAnswers PersistentResetAccepted
CHECK_DEADLOCK FALSE
