SPECIFICATION FairSpec
CONSTANTS
    Threads = {p, q}
    Agents = {a}
    MaxStarts = 2
    MaxSwitches = 1
    None = none
INVARIANTS TypeOK WorkHoldsItsLease NoLeakedLease RestGivesBack OneEnd CarriedOutOnce ContinuesTheLastTurn NoneIsForgotten
PROPERTIES DrainEnds
CHECK_DEADLOCK FALSE
