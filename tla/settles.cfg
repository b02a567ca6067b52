SPECIFICATION FromHomeSpec
CONSTANTS
    Home = home
    Managed = {a}
    Canonical = canonical
    Overlay = overlay
    HomeLink = link
    None = none
    Switchers = {r1, v1, v2}
    Rotators = {r1}
    Recoverers = {v1, v2}
    Resident = {}
    Participants = {1}
    Starters = {}
    MaxFailures = 1
    MaxClaim = 1
    MaxRetries = 5
    MaxRevision = 0
PROPERTIES Settles
CHECK_DEADLOCK FALSE
