SPECIFICATION Spec
CONSTANTS
    Requests = {r1, r2}
    MaxSwitches = 1
    MaxAged = 1
    Logins <- SomeLogins
    None = none
INVARIANTS TypeOK LeaseIsOfItsAccount ValueIsOfThisRevision RefusedIsReadAgain RefreshedOnce AwaitedIsUnderWay
PROPERTIES GetReturnsCurrent
CHECK_DEADLOCK FALSE
