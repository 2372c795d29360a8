SPECIFICATION ManuscriptSpec
CONSTANTS
    k1 = k1  k2 = k2  k3 = k3  x = x
    u1 = u1  u2 = u2  u3 = u3  u4 = u4
    Slugs = {k1, k2, k3}
    Texts = {u1, u2, u3, u4}
    Strays = {x}
    Clients = {c1}

    FirstWikis <- Books
    None = None  Garbled = Garbled  Blank = Blank
    Styles = {None, k3}
    MaxDepth = 2  MaxSections = 7  MaxBytes = 9
    MaxCompiles = 1
    MaxRequests = 2  MaxMishaps = 1
INVARIANTS ManuscriptTypeOK TextsAreKept ManifestIsTrue
PROPERTIES BookIsKept EveryCompileEnds
CHECK_DEADLOCK FALSE
