SPECIFICATION HSpec
CONSTANTS
    udp = udp  tcp = tcp  r1 = r1  r2 = r2  r3 = r3
    m1 = m1  k1 = k1  i1 = i1  i2 = i2  i3 = i3
    None = None
    Worker <- MCWorker  Ref <- MCRef
    Uuid <- MCUuid  Pk <- MCPk  Ip <- MCIp  Loopback <- MCLoopback
    Traffic <- MCTraffic
    DbFaults = TRUE
    UdpLoop = udp
    Machine <- MCMachine
    MaxMoves = 1
    MaxStops = 1
PROPERTY EndsUpReachable
CHECK_DEADLOCK FALSE
