SPECIFICATION FairSpec
CONSTANTS
    Recorders = {r1, r2}
    Folders = {f1}
    m1 = m1
    m2 = m2
    o1 = o1
    o2 = o2
    Months = {m1, m2}
    Obs = {o1, o2}
    MonthOf <- MCMonthOf
    NoTask = NoTask
    NoObs = NoObs
    Unknown = Unknown
    MaxPulls = 2
    MaxCrashes = 2
INVARIANTS TypeOK UnchangedMeansFolded NeverCountedTwice
PROPERTIES NoRowLostUnnoticed EveryRecordSettles
