SPECIFICATION MCSpec
CONSTANTS
    udp = udp  tcp = tcp  r1 = r1  r2 = r2  r3 = r3
    m1 = m1  m2 = m2  k1 = k1  k2 = k2  i1 = i1  i2 = i2
    d1 = d1  d2 = d2  d3 = d3  d4 = d4  d5 = d5
    None = None
    Worker <- MCWorker  Ref <- MCRef
    Uuid <- MCUuid  Pk <- MCPk  Ip <- MCIp  Loopback <- MCLoopback
    Traffic <- MCTraffic
    DbFaults = FALSE
    Id <- MCIds  MaxRequests = 3  MaxIds = 2  BlockDur = 2  Day = 4  Horizon = 5
INVARIANTS MemoryMatchesTable GuidSettles OwnerKept LimitsHold
PROPERTIES OkIsRecorded BlockEnds
SYMMETRY MCSymmetry
VIEW MCView
