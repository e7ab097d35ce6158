SPECIFICATION BlockerSpec
CONSTANTS
    Id = {d1}  MaxRequests = 30  MaxIds = 300  BlockDur = 1  Day = 2  Horizon = 3
INVARIANT BlockedAfterLimit
