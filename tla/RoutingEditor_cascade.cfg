SPECIFICATION Spec
CONSTANTS
    o1 = o1
    o2 = o2
    b1 = b1
    b2 = b2
    in1 = in1
    BalTags = {b1, b2, b3}
    Outs = {o1, o2}
    Warp = warp
    Direct = direct
    None = None
    Inbounds = {in1}
    Selectors <- TwoSelectors
    Sessions <- OneDeletion
    MaxRules = 3
INVARIANT LoopbackTargetsExist
CHECK_DEADLOCK FALSE
