SPECIFICATION Spec
CONSTANTS
    Attempts = 3
    Window = 2
    NoWindow = NoWindow
    MaxTime = 1
    Capacity = 1
    KeepAliveTimeout = 2
    MaxFrames = 1
    MaxLogins = 3
PROPERTY OverflowEndsSession
