\* Two websocket or two socket sessions from a to b.
SPECIFICATION FairSpec
CONSTANTS
    a = a
    b = b
    s1 = s1
    s2 = s2
    Gateways = {a, b}
    Sessions = {s1, s2}
    Kinds <- SameKind
    Entry <- FromA
    Target <- ToB
    NoSession = NoSession
    MaxUp = 2
    MaxDown = 1
    MaxEvents = 2
INVARIANT TypeOK
INVARIANT SessionsInOrder
PROPERTY ImplementsChannels
PROPERTY TakenIsDelivered
PROPERTY NoHalfOpenSessions
\* sessions may be over, or their gateways dead
CHECK_DEADLOCK FALSE
