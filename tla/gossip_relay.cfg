\* A line of three gateways and one registration.
SPECIFICATION Spec
CONSTANTS
    n1 = n1
    n2 = n2
    n3 = n3
    Nodes = {n1, n2, n3}
    Registrars = {n1, n2}
    ServiceIds = {s1}
    Contents = {v1}
    NoService = NoService
    StartLinks = {{n1, n2}, {n2, n3}}
    MaxInbox = 1
    MaxUpdates = 1
    MaxChurn = 0
    MaxEvents = 1
INVARIANT ForwardsToRegistrar
\* everything has been delivered and the bounds are used up
CHECK_DEADLOCK FALSE
