SPECIFICATION FairSpec
CONSTANTS
    c1 = c1  c2 = c2  c3 = c3  u1 = u1  b = b
    NoConn = NoConn  NoUuid = NoUuid
    Conn <- MCConn  Ws <- MCWs  Uuid <- MCUuid  Ip <- MCIp
    PeerIp <- MCIpOf  RealIp <- MCIpOf  UsageId <- MCUsageId
INVARIANTS PairingInv PairingSound
PROPERTIES ImplementsMatchmaker RelaysEnd
