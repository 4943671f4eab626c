\* A TCP connection, a new bufio.Reader for every frame.
SPECIFICATION Spec
CONSTANTS
    m1 = m1
    m2 = m2
    m3 = m3
    Messages = {m1, m2, m3}
    Size <- Sizes
    HeaderSize = 2
    BufSize = 4
    Writers = {w1}
    Links <- ClientSockets
    NoMessage = NoMessage
    Garbled = Garbled
INVARIANT FramesIntact
\* all messages have been read, or the connection is lost
CHECK_DEADLOCK FALSE
