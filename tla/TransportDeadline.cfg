SPECIFICATION Spec
CONSTANTS
    ReadTimeout = 1
    WriteTimeout = 3
    RequestTimeout = 2
    GRPCRequestTimeout = 2
    LoadTimeout = 1
    MaxDefects = 0
    MaxTries = 1
    MaxClock = 6
INVARIANT
    ResponseInTime
