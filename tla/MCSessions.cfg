\* Two clients of one person, up to three refresh tokens, for a family to fork, and two
\* setup tokens, for two redemptions to meet at the person's password.
CONSTANTS
    Clients = {c1, c2}
    Persons = {p1}
    Lifetime = 1
    SetupValidity = 1
    MaxTime = 1
    LastStart = 0
    MaxTokens = 3
    MaxSetups = 2
SPECIFICATION Spec
SYMMETRY MCClients
INVARIANTS SessionTypeOK RotationNeverExtends EndedStaysEnded SpentOnceUnlessOverlapping OnlySweepsDeadlock
