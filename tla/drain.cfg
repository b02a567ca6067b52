SPECIFICATION LoggedInSpec
CONSTANTS
    Home = home
    Managed = {a}
    Canonical = canonical
    Overlay = overlay
    HomeLink = link
    None = none
    Switchers = {r1, v1}
    Rotators = {r1}
    Recoverers = {v1}
    Resident = {}
    Participants = {1, 2}
    Starters = {2}
    MaxFailures = 1
    MaxClaim = 3
    MaxRetries = 5
    MaxRevision = 0
INVARIANTS LeasesAreCurrent FamilyReadsItsAccount OpenIsSettled
PROPERTIES ImplementsAtomicSwitch MovesAreQuiet
CHECK_DEADLOCK FALSE
