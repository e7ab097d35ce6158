SPECIFICATION Spec
CONSTANTS
    w1 = w1  r1 = r1  r2 = r2  r3 = r3  here = here  there = there
    NoRelay = NoRelay  Bad = Bad  NoRule = NoRule  Width = 2  Addr <- MCAddr  Relay <- MCRelay
    Worker <- MCWorker  Worlds <- CostlyWorlds  Distance <- MCDistance
    Unlisted = 1000  Rounds = 2  Pinning = TRUE
PROPERTY ListedWins
