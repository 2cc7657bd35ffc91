CONSTANTS
    Starts = {23667838, 24278397}
    SyncInterval = 5
    Steps = {1, 5, 1440}
    ClientTimes = {23885280}
    MaxUsed = 3
    FreshRTC = FALSE
SPECIFICATION Spec
INVARIANT KeepsTime
INVARIANT RTCKeepsTime
INVARIANT Conversions
