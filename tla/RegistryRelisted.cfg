SPECIFICATION SyncSpec
CONSTANTS
    Slug = {s1}
    MaxWindows = 2
    MaxOthers = 2
    SyncTries = 2
    ShipTries = 2
INVARIANT GoneMeansUnlisted
CHECK_DEADLOCK FALSE
