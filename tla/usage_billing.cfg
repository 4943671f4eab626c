\* Two recorders, the export, both agents, a restart and the report generator.
SPECIFICATION FairSpec
CONSTANTS
    Keys = {k1}
    Recorders = {g1, g2}
    Exporter = exporter
    Nil = Nil
    MaxRequests = 2
    Agents = {"local", "pinata"}
    Torn = Torn
    MaxStarts = 2
INVARIANT TypeOK
INVARIANT NothingBilledTwice
INVARIANT PinnedIsStored
INVARIANT ListingComplete
PROPERTY LocksAreReleased
\* the gateway may be dead, and the bound on requests used up
CHECK_DEADLOCK FALSE
