SPECIFICATION LoggedInSpec
CONSTANTS
    Home = home
    Managed = {a, b}
    Canonical = canonical
    Overlay = overlay
    HomeLink = link
    None = none
    Switchers = {r1, v1, v2}
    Rotators = {r1}
    Recoverers = {v1, v2}
    Resident = {r1}
    Participants = {}
    Starters = {}
    MaxFailures = 2
    MaxClaim = 3
    MaxRetries = 5
    MaxRevision = 1
SYMMETRY Symmetry
INVARIANTS TypeOK SingleOwner RecoveryPasses
PROPERTIES NothingLostOrCopied SwitchIsAtomic
CHECK_DEADLOCK FALSE
