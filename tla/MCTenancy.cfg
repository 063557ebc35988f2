\* Two clients at once, four requests, one key.
CONSTANTS
    t1 = t1
    t2 = t2
    ana = ana
    bo = bo
    k1 = k1
    Clients = {c1, c2}
    Tenants = {t1, t2}
    People = {ana, bo}
    KeyIds = {k1}
    Operators = {ana}
    FirstMembers <- MCFirstMembers
    Commands <- MCCommands
    MaxRequests = 4
SYMMETRY Interchangeable
SPECIFICATION Spec
INVARIANTS TenancyTypeOK ProvisionedOrRetired
PROPERTIES NothingWithoutStanding LastAdministratorOnlyByOverlap
