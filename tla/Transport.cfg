SPECIFICATION FairSpec
CONSTANTS
    ReadTimeout = 5
    WriteTimeout = 10
    RequestTimeout = 2
    GRPCRequestTimeout = 2
    LoadTimeout = 1
    MaxDefects = 2
    MaxTries = 3
    MaxClock = 15
INVARIANTS
    AnswerMatchesEffect
    PurchaseOnce
    SameVerdict
    ResponseInTime
PROPERTY
    RequestsAnswered
