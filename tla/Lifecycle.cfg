SPECIFICATION FairSpec
CONSTANTS
    Requests = {q1, q2}
INVARIANTS
    TypeOK
    RunningTasksHaveResources
    RequestsAreDrained
    ExitStatusHonest
PROPERTY
    ShutdownEnds
