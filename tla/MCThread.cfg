SPECIFICATION FairSpec
CONSTANTS
    Clients = {c1, c2, c3}
    Controllers = {c1}
    Workers = {w1, w2}
    Nobody = nobody
    MaxJobs = 4
INVARIANTS
    TypeOK
    RunsInOrder
    RunsOnCurrent
    NoDanglingFlag
    NoMissedSignal
PROPERTIES
    JobsRun
    CallsReturn
    SendReturnsAfterRun
    StopWaitsForJobs
    ImplementsJobQueue
