SPECIFICATION Spec
CONSTANTS
    north = north  south = south  ann = ann  bob = bob  g = g  w = w
    Slugs <- MCSlugs
    Rank <- MCRank
    NoSlug = NoSlug
    Url = Url
    Users = {ann, bob}
    Odd = Odd
    FirstWikis <- MCWikis
    FirstMenus <- MCMenus
    Drafts <- MCDrafts
    Edited <- MCEdited
    Tags = {g}
    Segments = {north, south}
    Terms = {w}
    Kinds = {"wiki", "internal", "external"}
    DefaultDepth = 1  MaxDepth = 2  DefaultNodes = 1  MaxNodes = 3
    DefaultLimit = 1  MaxLimit = 2  DefaultHits = 1  MaxHits = 2
    TopN = 2
    MaxPins = 2
    None = None
    Garbled = Garbled
    MaxRequests = 1
    MaxEdits = 1
INVARIANTS TablesHoldThePages HiddenStaysHidden AnswersAgree
PROPERTY PinsKeepTheirPlaces
CHECK_DEADLOCK FALSE
