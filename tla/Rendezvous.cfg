SPECIFICATION MCSpec
CONSTANTS
    c1 = c1  c2 = c2  k1 = k1  k2 = k2  a1 = a1  a2 = a2  a3 = a3
    NoConn = NoConn  NoSink = NoSink  NoRequest = NoRequest
    Conn <- MCConn  TcpConn <- MCTcpConn  Client <- MCClient  Peer = k2
    Key <- MCKey  Addr <- MCKey  From <- MCFrom  Id <- MCClient
    KeyOf <- MCKeyOf  AddrOf <- MCAddrOf
    MaxQueue = 2
    LookBack = 1  DedupeSecs = 2  MaxClock = 3
    PingInterval = 3  IdleTimeout = 9  PongDelay = 2  MaxAge = 20
    Scenes <- MCScenes
INVARIANTS PushesSound SinkSound AskerHasRoute LogSound IdleTimeoutRight
PROPERTIES OnlyOwnerRemoves GoneIsClosed KeepsItsEntry SocketsClose QuestionAnswered
CHECK_DEADLOCK FALSE
