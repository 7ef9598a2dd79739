SPECIFICATION FairSpec
CONSTANTS
    p1 = p1
    p2 = p2
    Peers = {p1, p2}
    Nobody = Nobody
    MaxMissed = 2
    Fragile = {p2}
    MaxFaults = 1
INVARIANTS NetworkInv
PROPERTIES RemovedOnlyAfterMisses LockedMapsStay BecomesMutual DeadAreForgotten FiltersArrive NobodyWaitsForEver
CHECK_DEADLOCK FALSE
