SPECIFICATION Spec
CONSTANTS
    Worlds <- MCWorlds
    Ports <- MCPorts
    CustomTags <- MCCustomTags
    Emails <- MCEmails
PROPERTY TagsFollow
INVARIANT NoSelfFallback
 
CHECK_DEADLOCK FALSE
