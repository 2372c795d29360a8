SPECIFICATION Spec
CONSTANTS
    ann = ann
    bob = bob
    p = p
    q = q
    Names = {ann, bob}
    Passwords = {p, q}
    Clients = {c1, c2}
    None = None
    Garbled = Garbled
    Lifetime = 3
    RenewAfter = 1
    FirstAccounts <- SmallWikis
    Asked <- SomeRequests
    MaxRequests = 2
    MaxSignIns = 2
    MaxNow = 3
    Edited <- SomeEdits
    MaxMishaps = 1
    MaxNotes = 1
SYMMETRY Interchangeable
INVARIANTS TypeOK SomebodyAdministers SessionsAreSound EndedStaysEnded
PROPERTIES NotesKeepTheirOwners
CHECK_DEADLOCK FALSE
