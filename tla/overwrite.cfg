SPECIFICATION FairSpec
CONSTANTS
    Turns = {1}
    Threads = {th1}
    Agents = {a1}
    Kinds <- AllKinds
    KindsOf <- Reviews
    None = none
PROPERTIES InterruptedStays
CHECK_DEADLOCK FALSE
