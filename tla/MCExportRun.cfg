\* Two tenants, one of which may fail every night; one fault besides.
CONSTANTS
    t1 = t1
    t2 = t2
    Tenants = {t1, t2}
    Broken = {t1}
    Everyone = Everyone
    MaxXid = 4
    MaxFaults = 1
SPECIFICATION FairSpec
INVARIANTS RunTypeOK SuccessIsWhole CountedAtMostOnce
PROPERTIES OnlyScopeIsTouched HealthyAreCarried
