\* The host reconnects while its old connection is still being torn down.
CONSTANTS
    None = None
    Host = {h1}
    HostConn = {t1, t2}
    ViewerConn = {v1}
    RegisteringViewer = {v1}
    MaxSignals = 0
    MaxKills = 0
SPECIFICATION Spec
INVARIANTS
    TypeOK
    RoutesOwned
    SessionNamesItsPair
PROPERTIES
    RouteTableSpec
    DropIsAnnounced
    DeadHostUnrouted
CHECK_DEADLOCK FALSE
