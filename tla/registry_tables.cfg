\* A handler, the listener, the monitor, a client, a stream handler and the GET handlers.
SPECIFICATION Spec
CONSTANTS
    Self = self
    Peers = {p1}
    ServiceIds = {s1}
    Contents = {full, bare}
    Bare = {bare}
    NoService = NoService
    NoPeer = NoPeer
    Handlers = {h1}
    Listener = listener
    Monitor = monitor
    Clients = {c1}
    Proxies = {x1}
    Free = free
    Kinds = {"all", "peers", "local", "remote"}
    MaxInbox = 1
SYMMETRY Symmetry
INVARIANT TypeOK
INVARIANT MapsAgree
INVARIANT NoDataMissing
INVARIANT OnlyUnlockedReadsRace
PROPERTY LocalLeavesByDeletion
PROPERTY ListingsWhole
PROPERTY ImplementsDirectory
\* a panic ends the process
CHECK_DEADLOCK FALSE
