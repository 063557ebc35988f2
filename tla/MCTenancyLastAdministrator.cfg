\* Two clients at once: administrators who take each other away.
CONSTANTS
    t1 = t1
    t2 = t2
    ana = ana
    bo = bo
    k1 = k1
    Clients = {c1, c2}
    Tenants = {t1, t2}
    People = {ana, bo}
    KeyIds = {k1}
    Operators = {ana}
    FirstMembers <- MCFirstMembers
    Commands <- MCCommands
    MaxRequests = 4
SYMMETRY Interchangeable
SPECIFICATION Spec
INVARIANT TenantKeepsAdministrator
