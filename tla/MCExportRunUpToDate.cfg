\* A replayed window that holds nothing, and movements recorded after it.
CONSTANTS
    t1 = t1
    t2 = t2
    Tenants = {t1, t2}
    Broken = {t1}
    Everyone = Everyone
    MaxXid = 4
    MaxFaults = 1
SPECIFICATION Spec
INVARIANTS UpToDateLeavesNothing
