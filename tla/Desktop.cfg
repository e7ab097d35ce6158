SPECIFICATION Spec
CONSTANTS
    hbbs = hbbs  hbbr = hbbr  k1 = k1  k2 = k2  k3 = k3  out = out  err = err
    Absent = Absent  Partial = Partial  None = None
    Proc <- MCProc  Key <- MCKey  MaxFaults = 2
    Hbbs <- hbbs  Hbbr <- hbbr  File <- MCFile  FirstFile <- out  FirstKey <- k1
    Buffer = 2  Scenes <- MCScenes
INVARIANT KeysSound
PROPERTIES WindowFollows KeyKept KeysSettle ViewSettles
CHECK_DEADLOCK FALSE
