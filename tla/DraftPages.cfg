SPECIFICATION Spec
CONSTANTS
    Callers <- MCCallers
    SafeCallers <- MCSafe
    Values = {"a", "b"}
    Secrets = {"s"}
    Blank = ""
    Default = "a"
    NoForm = NoForm
    Worlds <- MCWorlds
INVARIANTS AtMostOnce RefusedOnlyIfDisturbed TemplateIsText
PROPERTIES  RequestsEnd
CHECK_DEADLOCK FALSE
