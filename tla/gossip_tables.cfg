\* A line of three gateways at the start, two updates and two network changes.
SPECIFICATION FairSpec
CONSTANTS
    n1 = n1
    n2 = n2
    n3 = n3
    Nodes = {n1, n2, n3}
    Registrars = {n1, n3}
    ServiceIds = {s1}
    Contents = {v1}
    NoService = NoService
    StartLinks = {{n1, n2}, {n2, n3}}
    MaxInbox = 1
    MaxUpdates = 2
    MaxChurn = 3
    MaxEvents = 4
INVARIANT TypeOK
INVARIANT LocalUpdatesStand
PROPERTY TablesSettle
PROPERTY RegistrationSpreads
\* everything has been delivered and the bounds are used up
CHECK_DEADLOCK FALSE
