\* Two requests from a to b.
SPECIFICATION FairSpec
CONSTANTS
    a = a
    b = b
    r1 = r1
    r2 = r2
    Gateways = {a, b}
    Requests = {r1, r2}
    Entry <- EntryAA
    Target <- TargetBB
    NoAnswer = NoAnswer
INVARIANT TypeOK
INVARIANT AnswersReachTheirClient
INVARIANT ChannelsInUse
INVARIANT StuckMeansUnanswered
PROPERTY OnlyFourWaysToHang
\* all requests are over, wait for ever, or lost
CHECK_DEADLOCK FALSE
