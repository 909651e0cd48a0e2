\* A thread that cannot be started, and one request after it.
SPECIFICATION Spec
CONSTANTS
    Reports = {r1, r2}
    Handlers = {h1}
    None = None
    ConnectBound = 1
    ObserveBound = 1
    WatchCap = 1
    DisconnectBound = 1
    MediaTTL = 5
    MaxAge = 0
    JoinBound = 2
PROPERTY
    BusyMeansRunning
