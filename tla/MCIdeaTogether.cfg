SPECIFICATION InboxSpec
CONSTANTS
    c1 = c1
    c2 = c2
    i1 = i1
    i2 = i2
    p1 = p1
    Captures = {c1, c2}
    Ideas = {i1}
    Pages = {p1}
    Moments = {0, 2}
    Born <- MCBorn
    None = None
    EventIds = {1, 3}
    Clients = {r1, r2}
    Watched = TRUE
    Rank <- MCRank
    Likeness <- MCLikeness
    Threshold = 2
    Wordless = {c1}
    Blank = {c1}
    Nows = {0, 1, 2, 3, 4, 5, 6, 7}
    RecentDays = 2
    WindowDays = 3
    DormantDays = 4
    Burst = 2
    MaxBase = 1
    ActiveMomentum = 3
    MaxMomentum = 3
    DefaultLimit = 1
    MaxLimit = 2
    MaxCandidates = 2
    MaxRequests = 2
    MaxFailures = 1
    MaxEdits = 1
    MaxCrashes = 0
SYMMETRY Symmetry
INVARIANTS InboxIsServed
PROPERTIES ImplementsFold
CHECK_DEADLOCK FALSE
