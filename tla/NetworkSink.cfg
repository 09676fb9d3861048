CONSTANTS
    Client = {c1, c2}
    NoConn = NoConn
SPECIFICATION Spec
INVARIANTS StoppedMeansQuiet UsesLiveConnections
CHECK_DEADLOCK FALSE
PROPERTIES StopServerReturns LeavingIsSeen
