\* A request from a to b, and one of b to itself.
SPECIFICATION FairSpec
CONSTANTS
    a = a
    b = b
    r1 = r1
    r2 = r2
    Gateways = {a, b}
    Requests = {r1, r2}
    Entry <- EntryAB
    Target <- TargetBB
    NoAnswer = NoAnswer
PROPERTY AcceptedIsAnswered
\* all requests are over, wait for ever, or lost
CHECK_DEADLOCK FALSE
