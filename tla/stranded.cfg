SPECIFICATION Spec
CONSTANTS
    Launches = {1, 2, 3, 4}
    MaxRestarts = 3
    MaxExits = 2
    MaxSwitches = 1
    None = none
INVARIANTS RestartedIfItExits
CHECK_DEADLOCK FALSE
