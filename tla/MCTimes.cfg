SPECIFICATION Spec
CONSTANTS
    p = p  m = m
    MaxInstant = 3  PerSecond = 2  MintAttempts = 2
    Names = {1, 2}  NoName = 0
    Pages = {p}  Notes = {m}  NoNote = NoNote
    Clients = {c1, c2}  Watches = {TRUE, FALSE}  Length <- MCLength
    Drafts <- SomeDrafts  Patches <- SomePatches  Edited <- SomeEdits  FirstLogs <- SomeLogs
    None = None  Garbled = Garbled  Clear = Clear
    TopN = 2  DefaultLimit = 1  MaxLimit = 2
    PerHour = 2  HoursPerDay = 2  DaysPerWeek = 3  Monday = 0
    MonthStarts <- MCMonths  YearStarts <- MCYears  Offsets <- MCOffsets  MaxOffset = 2
    MaxRequests = 2  MaxEdits = 1  MaxScans = 1  MaxMishaps = 1  MaxInAll = 3
INVARIANTS EntriesAreSound TheLogIsShown
PROPERTIES RequestsActAtOnce
SYMMETRY Interchangeable
CHECK_DEADLOCK FALSE
