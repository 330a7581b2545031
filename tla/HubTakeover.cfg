\* A second viewer dials the host of the first; an administrator steps in.
CONSTANTS
    None = None
    Host = {h1}
    HostConn = {t1}
    ViewerConn = {v1, v2}
    RegisteringViewer = {}
    MaxSignals = 1
    MaxKills = 1
SYMMETRY ViewerSymmetry
SPECIFICATION Spec
INVARIANTS
    
    GoneViewerEnded
CHECK_DEADLOCK FALSE
