SPECIFICATION HealthSpec
CONSTANTS
    r1 = r1  r2 = r2  junk = junk  k1 = k1  k2 = k2
    Junk <- MCJunk  Checks <- MCChecks  First <- MCFirst
    Relay <- MCRelay  Commands <- MCCommands  YesNo <- MCYesNo
    MaxQueue = 2  MaxChanges = 2
INVARIANT LiveListSound
PROPERTY ListSettles
CHECK_DEADLOCK FALSE
