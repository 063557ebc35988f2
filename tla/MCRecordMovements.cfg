\* Two callers of one tenant, overlapping batches, one fault.
CONSTANTS
    c1 = c1
    c2 = c2
    t1 = t1
    e1 = e1
    e2 = e2
    s1 = s1
    s2 = s2
    p1 = p1
    Callers = {c1, c2}
    Tenants = {t1}
    TenantOf <- MCTenantOf
    Ids = {e1, e2}
    Skus = {s1, s2}
    Places = {p1}
    DeclaredSkus = {s1}
    DeclaredPlaces = {}
    Malformed = Malformed
    Batches <- MCBatches
    LongestBatch = 3
    LargestQuantity = 2
    MaxTime = 1
    MaxRequests = 2
    MaxFaults = 1
SPECIFICATION FairSpec
INVARIANTS RecordTypeOK StockMatchesReports AcknowledgedIsRecorded OnlyAdmissibleIsInserted
PROPERTIES ImplementsStore AnsweredInTheEnd
