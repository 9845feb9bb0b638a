SPECIFICATION Spec
CONSTANTS
    Tags = {t1, t2}
    Ports = {1, 2}
    Shareable = {2}
    Editors = {e1, e2}
    Worlds <- AnyEdit
    MaxEdits = 2
    MaxFaults = 1
    MaxRequests = 1
    NoOne = NoOne
SYMMETRY Symmetry
 
PROPERTIES WorkingCoreKept StopSticks ConfigNeverGoesBack HotApplyMatches
