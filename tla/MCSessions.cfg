SPECIFICATION MCSpec
CONSTANTS
    Peers = {p1, p2}
    NoSession = NoSession
    BufferCap = 2
    IdleLimit = 2
    MaxDatagrams = 3
    MaxSessions = 2
    Senders = {s1, s2}
    NoConn = NoConn
    MaxForwards = 3
    MaxConns = 2
    Hosts = {h1, h2}
    NoSess = NoSess
    MaxSess = 3
    MaxCopies = 2
\* Once the peers have sent all their datagrams the servers wait for ever.
CHECK_DEADLOCK FALSE
INVARIANTS MapExact EchoInOrder ConnectionsSound
PROPERTIES DispatcherMovesOn IdleSessionsEnd SessionsWindUp NonceHolds
