SPECIFICATION FairSpec
CONSTANTS
    Slugs = {p}
    Words = {w1, w2}
    Clients = {}
    Operations <- NoOperations
    Watches = {TRUE}
    FirstWikis <- SomePages
    None = None
    Clocks <- MCClocks  PerDay = 2  Zones <- MCZones
    DefaultDays = 2  MaxDays = 2  PaceDays = {0, 5}  MaxProjection = 3
    Targets = {3}  Dues = {4}
    Garbled = Garbled
    MaxRequests = 0
    MaxEdits = 3
    MaxStops = 2
    MaxLosses = 1
INVARIANTS TypeOK QuietIndexMatchesDisk WordsAddUp
PROPERTY CatchesUp
CHECK_DEADLOCK FALSE
