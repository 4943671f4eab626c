\* One service of one peer, every goroutine fair.
SPECIFICATION FairSpec
CONSTANTS
    Self = self
    Peers = {p1}
    ServiceIds = {s1}
    Contents = {full}
    Bare = {}
    NoService = NoService
    NoPeer = NoPeer
    Handlers = {h1}
    Listener = listener
    Monitor = monitor
    Clients = {c1}
    Proxies = {}
    Free = free
    Kinds = {}
    MaxInbox = 1
PROPERTY RequestsComplete
PROPERTY LookupsComplete
PROPERTY DepartedPeersEvicted
\* a panic ends the process
CHECK_DEADLOCK FALSE
