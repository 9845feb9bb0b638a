SPECIFICATION Spec
CONSTANTS
    Sockets = {s1, s2}
    NoSocket = NoSocket
    maxReconnectAttempts = 1
    Worlds <- Passing
INVARIANTS
    LiveIsCurrent
    NeverAbandoned
PROPERTIES
    ClientsFresh
    
    Reconnects
\* a session nobody edits through rests on the Inbounds page
CHECK_DEADLOCK FALSE
