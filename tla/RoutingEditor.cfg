SPECIFICATION Spec
CONSTANTS
    o1 = o1
    o2 = o2
    b1 = b1
    b2 = b2
    in1 = in1
    BalTags = {b1, b2, b3}
    Outs = {o1, o2}
    Warp = warp
    Direct = direct
    None = None
    Inbounds = {in1}
    Selectors <- TwoSelectors
    Sessions <- AllSessions
    MaxRules = 3
INVARIANTS
    
    LoopbacksComplete
    NoFallbackCycle
    ObserverKind
PROPERTIES
    PreviewHolds
    
CHECK_DEADLOCK FALSE
