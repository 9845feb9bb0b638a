SPECIFICATION FairSpec
CONSTANTS
    Callers = {c1, c2}
    Controllers = {k1, k2}
    QueueSize = 1
    MaxGen = 2
    NoOne = NoOne
INVARIANTS
    TypeOK
    NoAcceptedWriteLost
    AppliedOnce
    OneWriter
    NoDeadConsumer
PROPERTIES
    CallsReturn
