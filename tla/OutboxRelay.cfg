SPECIFICATION FairSpec
CONSTANTS
    Relays = {r1, r2}
    Ids = {1, 2}
    BatchSize = 2
    MaxAttempts = 2
    MaxFaults = 1
INVARIANTS
    TypeOK
    RepeatsNeedFaults
    AttemptsAreRefusals
    DeadAtMaxAttempts
PROPERTIES
    ImplementsDelivery
    EventuallySettled
