SPECIFICATION InboxSpec
CONSTANTS
    c1 = c1
    c2 = c2
    i1 = i1
    i2 = i2
    p1 = p1
    Captures = {c1, c2}
    Ideas = {i1, i2}
    Pages = {p1}
    Moments = {0, 2}
    Born <- MCBorn
    None = None
    EventIds = {1, 3}
    Clients = {r1}
    Watched = FALSE
    Rank <- MCRank
    Likeness <- MCLikeness
    Threshold = 2
    Wordless = {}
    Blank = {}
    Nows = {0, 1, 2, 3, 4, 5, 6, 7}
    RecentDays = 2
    WindowDays = 3
    DormantDays = 4
    Burst = 2
    MaxBase = 1
    ActiveMomentum = 3
    MaxMomentum = 3
    DefaultLimit = 1
    MaxLimit = 2
    MaxCandidates = 2
    MaxRequests = 3
    MaxFailures = 0
    MaxEdits = 0
    MaxCrashes = 1
INVARIANTS InboxTypeOK FoldIsCurrent DeletionsOnRecord IdeasHoldTogether
CHECK_DEADLOCK FALSE
