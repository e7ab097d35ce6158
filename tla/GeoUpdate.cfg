SPECIFICATION Spec
CONSTANTS
    u1 = u1  Updater <- MCUpdater  LastMonth = 3  Outages <- MCOutages  MaxWrites = 1
INVARIANTS DiskSound DownloadedOnce ReadsSound
PROPERTIES KeptCurrent OnlyLoadsChange DbSettles
