SPECIFICATION FairSpec
CONSTANTS
    Launches = {1, 2, 3, 4}
    MaxRestarts = 1
    MaxExits = 2
    MaxSwitches = 1
    None = none
INVARIANTS TypeOK NativeIsHeld StopLeavesNothing HandshakeFirst
PROPERTIES NothingHangs
CHECK_DEADLOCK FALSE
