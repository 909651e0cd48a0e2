\* Two submissions, so that one's media lingers while the next is in work, and
\* two handlers, so that a request meets a submit that holds the lock.
SPECIFICATION Spec
CONSTANTS
    Reports = {r1, r2}
    Handlers = {h1, h2}
    None = None
    ConnectBound = 1
    ObserveBound = 1
    WatchCap = 2
    DisconnectBound = 1
    MediaTTL = 6
    MaxAge = 1
    JoinBound = 2
INVARIANTS
    TypeOK
    OneReportAtATime
    NoOrphanMedia
    PublishedOnDisk
    ServedWhilePlaying
    OutcomeTruthful
    ExpiredNeverServed
    PlaybackWindsDown
PROPERTY
    SlotSpec
