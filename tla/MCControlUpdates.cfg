SPECIFICATION FairSpec
CONSTANTS
    Profile = Profile
    Reserve = Reserve
    Charging = Charging
    Charger = Charger
    Keys <- AllKeys
    Serials = {Charger}
    Site = Site
    SerialOf <- MCSerialOf
    GroupOf <- MCGroupOf
    RelatedGroups = {"battery_profile"}
    SupersedeGroups = {"charging"}
    CancelGroups = {"battery_profile"}
    GroupAcks = {}
    Fields = {level}
    Vals = {low}
    Unset = Unset
    Families <- MCFamilies
    Reads = {r1}
    MaxUpdates = 2
    MaxVersion = 1
INVARIANTS OneOpenPerGroup NoStaleEvidence
PROPERTIES KeepsPromise ConfirmedIsFinal GroupFreed
CHECK_DEADLOCK FALSE
