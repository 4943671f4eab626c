\* libp2p streams, and the connections of the socks5 service agent.
SPECIFICATION FairSpec
CONSTANTS
    m1 = m1
    m2 = m2
    m3 = m3
    Messages = {m1, m2, m3}
    Size <- Sizes
    HeaderSize = 2
    BufSize = 4
    Writers = {w1}
    Links <- StreamsAndAgent
    NoMessage = NoMessage
    Garbled = Garbled
INVARIANT TypeOK
INVARIANT FramesIntact
PROPERTY EverythingArrives
\* all messages have been read, or the connection is lost
CHECK_DEADLOCK FALSE
