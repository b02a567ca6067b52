SPECIFICATION Spec
CONSTANTS
    Home = home
    Managed = {a}
    Canonical = canonical
    Overlay = overlay
    HomeLink = link
    None = none
    Switchers = {r1, v1}
    Rotators = {r1}
    Recoverers = {v1}
    Resident = {}
    Participants = {1}
    Starters = {1}
    MaxFailures = 1
    MaxClaim = 3
    MaxRetries = 5
    MaxRevision = 0
INVARIANTS RecoveryPasses
CHECK_DEADLOCK FALSE
