SPECIFICATION Spec
CONSTANTS
    Slugs = {p, q}
    Words = {w1}
    Clients = {c1}
    Operations <- Everything
    Watches = {TRUE, FALSE}
    FirstWikis <- SomePages
    None = None
    Clocks <- MCSetBack  PerDay = 2  Zones <- MCWest
    DefaultDays = 1  MaxDays = 2  PaceDays = {5}  MaxProjection = 3
    Targets = {3}  Dues = {4}
    Garbled = Garbled
    MaxRequests = 2
    MaxEdits = 0
    MaxStops = 2
    MaxLosses = 1
SYMMETRY Symmetry
INVARIANTS QuietIndexMatchesDisk WordsAddUp
CHECK_DEADLOCK FALSE
