\* Every path of up to four segments.
SPECIFICATION Spec
CONSTANTS
    a = a
    b = b
    u = u
    Segments <- Kinds
    Empty <- NoSegment
    ServiceIds = {a, b}
    UserKeys = {u}
    Bare = {b}
    NoName = NoName
    Base <- ProviderPath
    MaxLen = 4
INVARIANT TypeOK
INVARIANT DocumentedPathsWork
INVARIANT NamedServiceOnly
INVARIANT NamelessRefused
\* a request is answered once
CHECK_DEADLOCK FALSE
