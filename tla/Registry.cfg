SPECIFICATION RegistrySpec
CONSTANTS
    s1 = s1
    s2 = s2
    Slug = {s1, s2}
    MaxWindows = 2
    MaxOthers = 2
    SyncTries = 2
    ShipTries = 2
    Size = 2
    PageLimit = 1
    LastTick = 3
    MaxEvents = 3
    MaxBuilds = 3
    NoDoc = NoDoc
    u1 = u1
    u2 = u2
    w1 = w1
    w2 = w2
    narrowed = narrowed
    removed = removed
    Tool = {u1, u2}
    Wide = {w1, w2}
    Change = {narrowed, removed}
    ContextChange = {instructions}
    WideChange <- MCWideChange
    WideHour <- MCWideHour
    Safety = {narrowed, instructions}
    Replacing = {removed}
    Evidence = {"undeclared"}
    Mine = Mine
    NotMine = NotMine
    Junk = Junk
    Absent = Absent
    Ruling <- MCRuling
    BadgeLine <- MCBadgeLine
    FirstLine <- MCFirstLine
    NoFile = NoFile
    MaxLines = 3
    MaxPushes = 3
INVARIANTS SyncHolds FeedIsHonest SliceIsAnswered RulingsStay
PROPERTIES KeepsOthersWork
SYMMETRY Symmetry
CHECK_DEADLOCK FALSE
