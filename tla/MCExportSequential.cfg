SPECIFICATION FairSpec
CONSTANTS
    m1 = m1
    m2 = m2
    m3 = m3
    p1 = p1
    p2 = p2
    l1 = l1
    r1 = r1
    r2 = r2
    Movements = {m1, m2}
    Runners = {r1}
    Products = {p1}
    Locations = {l1}
    ProductOf <- MCProductOf
    LocationOf <- MCLocationOf
    TicksPerDay = 1
    MaxTime = 2
    MaxXid = 3
    MaxFailures = 1
INVARIANTS TypeOK NothingSkipped ExactlyOnce HorizonNeverBehind AttemptOnRecord CatalogueCoversRows
PROPERTIES PublishedIsFixed MarkFollowsConfirmation LedgerSpec EventuallyCarried
