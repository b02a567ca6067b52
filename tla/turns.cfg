SPECIFICATION FairSpec
CONSTANTS
    Turns = {1, 2}
    Threads = {th1}
    Agents = {a1}
    Kinds <- AllKinds
    KindsOf <- MixedKinds
    None = none
INVARIANTS TypeOK ChildrenSettleFirst InProgressHasRunner ActiveEntryIsLive TurnAnnouncedOnce
PROPERTIES SettledTurnStays RestartSettles SubagentsEnd
CHECK_DEADLOCK FALSE
