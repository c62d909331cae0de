SPECIFICATION FairSpec
CONSTANTS
    Attempts = 2
    Window = 2
    NoWindow = NoWindow
    MaxTime = 4
    Capacity = 1
    KeepAliveTimeout = 2
    MaxFrames = 1
    MaxLogins = 4
INVARIANTS
    InboxTypeOK
    SpanBound
    RefusedForCause
    NeverCutAlive
    OutcomesKept
PROPERTIES
    SilentSessionEnds
    SendersGetTheirTurn
