SPECIFICATION ReaderSpec
CONSTANTS
    m1 = m1
    m2 = m2
    p1 = p1
    p2 = p2
    l1 = l1
    r1 = r1
    Movements = {m1}
    Runners = {r1}
    Products = {p1}
    Locations = {l1}
    ProductOf <- MCProductOf
    LocationOf <- MCLocationOf
    TicksPerDay = 2
    MaxTime = 3
    MaxXid = 2
    MaxFailures = 0
PROPERTIES LabelNeverAheadOfData
