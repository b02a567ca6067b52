SPECIFICATION Spec
CONSTANTS
    Requests = {r1, r2}
    MaxSwitches = 1
    MaxAged = 1
    Logins <- SomeLogins
    None = none
INVARIANTS ServesAfterSwitch
CHECK_DEADLOCK FALSE
