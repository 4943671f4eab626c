\* Two clients of one client agent, set up in any order.
SPECIFICATION Spec
CONSTANTS
    Clients = {c1, c2}
    NoLine = NoLine
    Garbled = Garbled
    MaxUp = 2
    MaxDown = 2
SYMMETRY Symmetry
INVARIANT TypeOK
INVARIANT ServiceGetsOwnData
INVARIANT ClientsGetOwnAnswers
\* both agents may have died
CHECK_DEADLOCK FALSE
